------------------------------ MODULE Mailbox -------------------------------
(***************************************************************************)
(* Mailboxes that share one MailboxData (include/msglib/Mailbox.h,         *)
(* Message.h, detail/MailboxData.h, detail/Receiver.h): the registrations, *)
(* the two block pools, and the global mutex that SendMessage and          *)
(* SendSignal hold while they go through the receivers of a label.         *)
(*                                                                         *)
(* The loops of the two sends take one step per receiver and call.  Other  *)
(* threads run in between: they receive and release, which take no global  *)
(* mutex, and destroy mailboxes.  What needs the mutex for one short       *)
(* section (Initialize, RegisterForLabel, UnregisterForLabel) is one step. *)
(* Each queue behaves as BlockingFifo.tla, each pool as BlockPool.tla.     *)
(***************************************************************************)
EXTENDS Naturals, Sequences, FiniteSets

CONSTANTS
  Threads,     \* threads that send
  Mailboxes,   \* the Mailbox objects of the program
  Labels,      \* the labels in use
  MaxReceivers,\* detail::MAX_RECEIVERS
  QueueSize,   \* capacity of each mailbox's queue
  Sizes,       \* the sizeof(T) of the message types sent
  EltSize,     \* [Pools -> Nat]: smallSize and largeSize
  PoolCap,     \* [Pools -> Nat]: smallCap and largeCap
  PoolBlocks,  \* [Pools -> set of blocks]: what the memory resource can supply
  SizeMod,     \* Message::m_size holds sizes modulo SizeMod (2^16)
  MaxSends,    \* bound: number of sends in a behaviour
  NoThread, NoMailbox, NoBlock

Pools == {"small", "large"}

Slots == 1 .. MaxReceivers

AllBlocks == PoolBlocks["small"] \cup PoolBlocks["large"]

ASSUME MailboxAssumption ==
  /\ NoThread \notin Threads
  /\ NoMailbox \notin Mailboxes
  /\ MaxReceivers \in Nat /\ QueueSize \in Nat /\ MaxSends \in Nat
  /\ SizeMod \in Nat \ {0}
  /\ Sizes \subseteq Nat \ {0}
  /\ EltSize \in [Pools -> Nat] /\ PoolCap \in [Pools -> Nat]
  /\ \A p \in Pools : IsFiniteSet(PoolBlocks[p])
  /\ PoolBlocks["small"] \cap PoolBlocks["large"] = {}
  /\ NoBlock \notin AllBlocks

VARIABLES
  initialized, \* m_initialized, and whether m_resources is set
  mutex,       \* owner of MailboxData::m_mutex
  receivers,   \* [Labels -> [Slots -> Mailboxes \cup {NoMailbox}]]
  alive,       \* the mailboxes that are constructed and not destroyed
  queue,       \* [Mailboxes -> Seq(Message)]: m_queue of each mailbox
  available,   \* [Pools -> Nat]: BytePool::m_size of each pool
  live,        \* blocks taken from the memory resource and not given back
  held,        \* messages with data that were received and not yet released
  call,        \* [Threads -> SendCall \cup ...]: the send each thread is in the middle of
  sent,        \* history: number of sends that got the mutex
  last,        \* history: [Mailboxes -> Nat], number of the send received last
  wanted,      \* history: [Mailboxes -> SUBSET Labels], what its owner registered
  lost         \* history: blocks whose message no receiver will ever see

poolVars == <<available, live>>
historyVars == <<last, wanted, lost>>
vars == <<initialized, mutex, receivers, alive, queue, poolVars, held, call,
          sent, historyVars>>

\* A signal is a message without data.  id, the number of its send, is history.
Message == [label : Labels, size : 0 .. SizeMod - 1, data : AllBlocks \cup {NoBlock},
            id : 1 .. MaxSends]

(***************************************************************************)
(* label, size, slot, block and ok are the locals label, sizeof(T), the    *)
(* loop variable, db.get() and result; id and got (the slots that were     *)
(* served) are history.  A thread that locks m_mutex twice is "stuck".     *)
(***************************************************************************)
NoCall == [op |-> "none"]

StuckCall == [op |-> "stuck"]

SendCall ==
  [op : {"send", "signal"}, label : Labels, size : Sizes \cup {0},
   slot : 1 .. MaxReceivers + 1, block : AllBlocks \cup {NoBlock}, ok : BOOLEAN,
   id : 1 .. MaxSends, got : SUBSET Slots]

TypeOK ==
  /\ initialized \in BOOLEAN
  /\ mutex \in Threads \cup {NoThread}
  /\ receivers \in [Labels -> [Slots -> Mailboxes \cup {NoMailbox}]]
  /\ alive \in SUBSET Mailboxes
  /\ queue \in [Mailboxes -> Seq(Message)]
  /\ \A m \in Mailboxes : Len(queue[m]) <= QueueSize
  /\ available \in [Pools -> Nat]
  /\ live \in SUBSET AllBlocks
  /\ held \in SUBSET Message
  /\ call \in [Threads -> SendCall \cup {NoCall, StuckCall}]
  /\ sent \in 0 .. MaxSends
  /\ last \in [Mailboxes -> 0 .. MaxSends]
  /\ wanted \in [Mailboxes -> SUBSET Labels]
  /\ lost \in SUBSET AllBlocks
  /\ \A t \in Threads : call[t] # NoCall <=> mutex = t

Init ==
  /\ initialized = FALSE
  /\ mutex = NoThread
  /\ receivers = [l \in Labels |-> [s \in Slots |-> NoMailbox]]
  /\ alive = {}
  /\ queue = [m \in Mailboxes |-> <<>>]
  /\ available = [p \in Pools |-> 0]
  /\ live = {}
  /\ held = {}
  /\ call = [t \in Threads |-> NoCall]
  /\ sent = 0
  /\ last = [m \in Mailboxes |-> 0]
  /\ wanted = [m \in Mailboxes |-> {}]
  /\ lost = {}

-----------------------------------------------------------------------------
\* Mutant: the lock_guard is left out.
LockForgotten(t) == UNCHANGED mutex

\* std::lock_guard guard(m_mutex), and Return is its end.
Lock(t) == mutex = NoThread /\ mutex' = t

\* MailboxData::Initialize, either overload; a second call changes nothing.
Initialize ==
  /\ mutex = NoThread
  /\ ~initialized
  /\ initialized' = TRUE
  /\ available' = PoolCap
  /\ UNCHANGED <<mutex, receivers, alive, queue, live, held, call, sent, historyVars>>

\* Mutant: the lock_guard of RegisterForLabel is left out.
RegisterUnlocked(m, l) ==
  /\ initialized
  /\ m \in alive
  /\ \E s \in Slots :
       /\ receivers[l][s] = NoMailbox
       /\ \A r \in 1 .. s - 1 : receivers[l][r] # NoMailbox
       /\ receivers' = [receivers EXCEPT ![l][s] = m]
  /\ wanted' = [wanted EXCEPT ![m] = wanted[m] \cup {l}]
  /\ UNCHANGED <<initialized, mutex, alive, queue, poolVars, held, call, sent, last, lost>>

\* Receivers::add takes the first null slot and does not look for duplicates;
\* without one, RegisterForLabel returns false.
RegisterForLabel(m, l) ==
  /\ mutex = NoThread
  /\ initialized
  /\ m \in alive
  /\ \E s \in Slots :
       /\ receivers[l][s] = NoMailbox
       /\ \A r \in 1 .. s - 1 : receivers[l][r] # NoMailbox
       /\ receivers' = [receivers EXCEPT ![l][s] = m]
  /\ wanted' = [wanted EXCEPT ![m] = wanted[m] \cup {l}]
  /\ UNCHANGED <<initialized, mutex, alive, queue, poolVars, held, call, sent, last, lost>>

\* Mutant: remove() stops at the first slot that holds the mailbox.
UnregisterFirst(m, l) ==
  /\ mutex = NoThread
  /\ initialized
  /\ m \in alive
  /\ \E s \in Slots :
       /\ receivers[l][s] = m
       /\ \A r \in 1 .. s - 1 : receivers[l][r] # m
       /\ receivers' = [receivers EXCEPT ![l][s] = NoMailbox]
  /\ wanted' = [wanted EXCEPT ![m] = wanted[m] \ {l}]
  /\ UNCHANGED <<initialized, mutex, alive, queue, poolVars, held, call, sent, last, lost>>

\* Receivers::remove clears every slot that holds the mailbox.
UnregisterForLabel(m, l) ==
  /\ mutex = NoThread
  /\ initialized
  /\ m \in alive
  /\ receivers' = [receivers EXCEPT ![l] =
       [s \in Slots |-> IF receivers[l][s] = m THEN NoMailbox ELSE receivers[l][s]]]
  /\ wanted' = [wanted EXCEPT ![m] = wanted[m] \ {l}]
  /\ UNCHANGED <<initialized, mutex, alive, queue, poolVars, held, call, sent, last, lost>>

\* Either of the two before Initialize: with m_mutex locked they call
\* MailboxData::Initialize, which locks it again.
RegisterLazily(t) ==
  /\ Lock(t)
  /\ ~initialized
  /\ call[t] = NoCall
  /\ call' = [call EXCEPT ![t] = StuckCall]
  /\ UNCHANGED <<initialized, receivers, alive, queue, poolVars, held, sent, historyVars>>

\* The data blocks of the messages in a mailbox's queue.
Queued(m) == {queue[m][i].data : i \in DOMAIN queue[m]} \ {NoBlock}

\* Either constructor, on the stack of a thread or anywhere else.
Construct(m) ==
  /\ m \notin alive
  /\ alive' = alive \cup {m}
  /\ UNCHANGED <<initialized, mutex, receivers, queue, poolVars, held, call, sent, historyVars>>

\* ~Mailbox frees the queue and nothing else: it neither unregisters the mailbox
\* nor releases what is queued.
Destruct(m) ==
  /\ m \in alive
  /\ alive' = alive \ {m}
  /\ queue' = [queue EXCEPT ![m] = <<>>]
  /\ lost' = lost \cup Queued(m)
  /\ UNCHANGED <<initialized, mutex, receivers, poolVars, held, call, sent, last, wanted>>

\* A mailbox is destroyed by an owner who has unregistered it from its labels.
Destroy(m) == wanted[m] = {} /\ Destruct(m)

-----------------------------------------------------------------------------
\* MailboxData::smallSize() and largeSize(), 0 before Initialize.
LimitOf(p) == IF initialized THEN EltSize[p] ELSE 0

\* The pool for a message of this size, for a send and for a release.
PoolFor(size) == IF size > LimitOf("small") THEN "large" ELSE "small"

StartCall(t, op, l, n) ==
  /\ Lock(t)
  /\ call[t] = NoCall
  /\ sent < MaxSends
  /\ sent' = sent + 1
  /\ call' = [call EXCEPT ![t] =
       [op |-> op, label |-> l, size |-> n, slot |-> 1, block |-> NoBlock, ok |-> TRUE,
        id |-> sent + 1, got |-> {}]]
  /\ UNCHANGED <<initialized, receivers, alive, queue, poolVars, held, historyVars>>

\* Mutant: no size is refused.
SendAnySize(t, l, n) == StartCall(t, "send", l, n)

\* A message that fits no pool is refused at once, as is any before Initialize.
SendMessage(t, l, n) == n <= LimitOf("large") /\ StartCall(t, "send", l, n)

\* SendSignal dereferences m_resources: the program has initialized the library.
SendSignal(t, l) == initialized /\ StartCall(t, "signal", l, 0)

\* The loop of thread t has come to a registered receiver.
Receiver(t) == receivers[call[t].label][call[t].slot]

InLoop(t) == call[t].op \in {"send", "signal"} /\ call[t].slot \in Slots

Skip(t) ==
  /\ InLoop(t)
  /\ Receiver(t) = NoMailbox
  /\ call' = [call EXCEPT ![t].slot = @ + 1]
  /\ UNCHANGED <<initialized, mutex, receivers, alive, queue, poolVars, held, sent, historyVars>>

\* Mutant: result = ... instead of result &= ...
AdvanceOverwrites(t, served) ==
  call' = [call EXCEPT ![t].slot = @ + 1, ![t].block = NoBlock,
                       ![t].ok = served \/ call[t].op = "signal",
                       ![t].got = IF served THEN @ \cup {call[t].slot} ELSE @]

\* result &= served, and on to the next receiver; SendSignal has no result.
Advance(t, served) ==
  call' = [call EXCEPT ![t].slot = @ + 1, ![t].block = NoBlock,
                       ![t].ok = @ /\ (served \/ call[t].op = "signal"),
                       ![t].got = IF served THEN @ \cup {call[t].slot} ELSE @]

\* Mutant: alloc() relies on the memory resource to limit the pool.
TakeUnchecked(p, b) ==
  /\ b \in PoolBlocks[p] \ live
  /\ live' = live \cup {b}
  /\ available' = [available EXCEPT ![p] = IF @ = 0 THEN 0 ELSE @ - 1]

\* BytePool::alloc that returns a block.
Take(p, b) ==
  /\ available[p] > 0
  /\ b \in PoolBlocks[p] \ live
  /\ live' = live \cup {b}
  /\ available' = [available EXCEPT ![p] = @ - 1]

\* BytePool::free
GiveBack(p, b) ==
  /\ live' = live \ {b}
  /\ available' = [available EXCEPT ![p] = @ + 1]

\* allocateSmall or allocateLarge, then put, which never fails on a block of
\* the pool that was chosen for the size.  A pool that is not empty may fail
\* too: the memory resource is bounded, and a free() may be half done.
Allocate(t) ==
  /\ InLoop(t)
  /\ Receiver(t) # NoMailbox
  /\ call[t].op = "send" /\ call[t].block = NoBlock
  /\ \/ \E b \in AllBlocks : /\ Take(PoolFor(call[t].size), b)
                             /\ call' = [call EXCEPT ![t].block = b]
     \/ Advance(t, FALSE) /\ UNCHANGED poolVars
  /\ UNCHANGED <<initialized, mutex, receivers, alive, queue, held, sent, historyVars>>

\* Mutant: the message is emplaced like a signal, by its label only.
MessageWithoutData(t) ==
  [label |-> call[t].label, size |-> 0, data |-> NoBlock, id |-> call[t].id]

\* The Message that emplace() constructs; its m_size is a uint16_t.
MessageOf(t) ==
  [label |-> call[t].label, size |-> call[t].size % SizeMod, data |-> call[t].block,
   id |-> call[t].id]

\* receiver->m_queue.emplace is next.
AtEmplace(t) ==
  /\ InLoop(t)
  /\ Receiver(t) # NoMailbox
  /\ call[t].op = "signal" \/ call[t].block # NoBlock

\* Mutant: the message goes to the front.
EmplaceFront(t) ==
  /\ AtEmplace(t)
  /\ Len(queue[Receiver(t)]) < QueueSize
  /\ queue' = [queue EXCEPT ![Receiver(t)] = <<MessageOf(t)>> \o @]
  /\ Advance(t, TRUE)
  /\ UNCHANGED <<initialized, mutex, receivers, alive, poolVars, held, sent, historyVars>>

Emplace(t) ==
  /\ AtEmplace(t)
  /\ Len(queue[Receiver(t)]) < QueueSize
  /\ queue' = [queue EXCEPT ![Receiver(t)] = Append(@, MessageOf(t))]
  /\ Advance(t, TRUE)
  /\ UNCHANGED <<initialized, mutex, receivers, alive, poolVars, held, sent, historyVars>>

\* Mutant: emplace() waits for the receiver to make room.
EmplaceWaits(t) == FALSE

\* Mutant: the result of emplace() is ignored.
EmplaceIgnored(t) ==
  /\ AtEmplace(t)
  /\ Len(queue[Receiver(t)]) >= QueueSize
  /\ Advance(t, TRUE)
  /\ lost' = lost \cup ({call[t].block} \ {NoBlock})
  /\ UNCHANGED <<initialized, mutex, receivers, alive, queue, poolVars, held, sent, last, wanted>>

\* A full queue refuses the message, and the block stays allocated.
EmplaceFull(t) ==
  /\ AtEmplace(t)
  /\ Len(queue[Receiver(t)]) >= QueueSize
  /\ Advance(t, FALSE)
  /\ lost' = lost \cup ({call[t].block} \ {NoBlock})
  /\ UNCHANGED <<initialized, mutex, receivers, alive, queue, poolVars, held, sent, last, wanted>>

\* Mutant: the mutex is unlocked by hand, and not on every path.
ReturnLocked(t) ==
  /\ call[t].op \in {"send", "signal"}
  /\ call[t].slot = MaxReceivers + 1
  /\ call' = [call EXCEPT ![t] = NoCall]
  /\ UNCHANGED <<initialized, mutex, receivers, alive, queue, poolVars, held, sent, historyVars>>

Return(t) ==
  /\ call[t].op \in {"send", "signal"}
  /\ call[t].slot = MaxReceivers + 1
  /\ mutex' = NoThread
  /\ call' = [call EXCEPT ![t] = NoCall]
  /\ UNCHANGED <<initialized, receivers, alive, queue, poolVars, held, sent, historyVars>>

-----------------------------------------------------------------------------
\* m_queue.pop of a mailbox that has something; the wait is in Queue.tla.
Receive(m) ==
  /\ m \in alive
  /\ queue[m] # <<>>
  /\ queue' = [queue EXCEPT ![m] = Tail(@)]
  /\ last' = [last EXCEPT ![m] = Head(queue[m]).id]
  /\ held' = held \cup {msg \in {Head(queue[m])} : msg.data # NoBlock}
  /\ UNCHANGED <<initialized, mutex, receivers, alive, poolVars, call, sent, wanted, lost>>

\* Mutant: the released message can be released again.
ReleaseTwice(msg) ==
  /\ msg \in held
  /\ GiveBack(PoolFor(msg.size), msg.data)
  /\ UNCHANGED <<initialized, mutex, receivers, alive, queue, held, call, sent, historyVars>>

\* Mutant: freeSmall whatever the size, as after a failed put.
ReleaseSmall(msg) ==
  /\ msg \in held
  /\ held' = held \ {msg}
  /\ GiveBack("small", msg.data)
  /\ UNCHANGED <<initialized, mutex, receivers, alive, queue, call, sent, historyVars>>

\* ReleaseMessage or ~MessageGuard, once per message, by any mailbox.
Release(msg) ==
  /\ msg \in held
  /\ held' = held \ {msg}
  /\ GiveBack(PoolFor(msg.size), msg.data)
  /\ UNCHANGED <<initialized, mutex, receivers, alive, queue, call, sent, historyVars>>

\* What a thread does between locking m_mutex for a send and unlocking it.
Proceed(t) == Skip(t) \/ Allocate(t) \/ Emplace(t) \/ EmplaceFull(t) \/ Return(t)

Next ==
  \/ Initialize
  \/ \E m \in Mailboxes :
       \/ \E l \in Labels : RegisterForLabel(m, l) \/ UnregisterForLabel(m, l)
       \/ Construct(m) \/ Destroy(m)
       \/ Receive(m)
  \/ \E t \in Threads :
       \/ \E l \in Labels : SendSignal(t, l) \/ \E n \in Sizes : SendMessage(t, l, n)
       \/ Proceed(t)
  \/ \E msg \in held : Release(msg)

\* The program calls Initialize before anything else.
Spec == Init /\ [][Next]_vars

(***************************************************************************)
(* A program that destroys mailboxes which are still registered, as both   *)
(* examples do.  It is up to the program that nothing is sent to them.     *)
(***************************************************************************)
CarelessNext == Next \/ \E m \in Mailboxes : Destruct(m)

(***************************************************************************)
(* A thread inside a send is scheduled and none of its steps can wait.     *)
(* Nothing is assumed of receivers, which may never receive or release.    *)
(***************************************************************************)
FairSpec == Spec /\ \A t \in Threads : WF_vars(Proceed(t))

\* A program that does not, as the header's lazy initialization allows.
LazySpec ==
  /\ Init
  /\ [][Next \/ \E t \in Threads : RegisterLazily(t)]_vars
  /\ \A t \in Threads : WF_vars(Proceed(t))

-----------------------------------------------------------------------------
(***************************************************************************)
(* The blocks in the hands of a sender, of the queues, of the receivers.   *)
(***************************************************************************)
Sending == {t \in Threads : call[t].op = "send" /\ call[t].block # NoBlock}
InHand == {call[t].block : t \in Sending}
InQueues == UNION {Queued(m) : m \in Mailboxes}
InUse == {msg.data : msg \in held}

(***************************************************************************)
(* No two receivers ever read or release the same block: a live block is   *)
(* with one sender, in one place of one queue, in one received message, or *)
(* lost.  "Passed by value, with copies made for each recipient" (README). *)
(***************************************************************************)
OneOwner ==
  /\ \A t, u \in Sending : call[t].block = call[u].block => t = u
  /\ \A m, n \in Mailboxes : \A i \in DOMAIN queue[m], j \in DOMAIN queue[n] :
       queue[m][i].data = queue[n][j].data /\ queue[m][i].data # NoBlock
         => m = n /\ i = j
  /\ \A x, y \in held : x.data = y.data => x = y
  /\ InHand \cap (InQueues \cup InUse \cup lost) = {}
  /\ InQueues \cap (InUse \cup lost) = {}
  /\ InUse \cap lost = {}

(***************************************************************************)
(* Every block that is out of the pools is accounted for: only a full      *)
(* queue and the destruction of a mailbox take a block away for good.      *)
(***************************************************************************)
BlocksAccounted == live = InHand \cup InQueues \cup InUse \cup lost

(***************************************************************************)
(* Each pool's count agrees with its blocks: SendMessage and               *)
(* ReleaseMessage, which see the size in different integer types at        *)
(* different times, choose the same pool.                                  *)
(***************************************************************************)
PoolExact ==
  initialized => \A p \in Pools :
    available[p] + Cardinality(live \cap PoolBlocks[p]) = PoolCap[p]

(***************************************************************************)
(* DataBlock::put cannot fail in SendMessage, whose branch for that frees  *)
(* the block to the small pool whichever pool it is from.                  *)
(***************************************************************************)
PutFits ==
  \A t \in Sending : \E p \in Pools :
    call[t].block \in PoolBlocks[p] /\ call[t].size <= EltSize[p]

(***************************************************************************)
(* A label's receivers are the mailboxes whose owner registered and did    *)
(* not unregister, also after double registrations: a mailbox unregistered *)
(* from its labels can be destroyed, and no send will use it.              *)
(***************************************************************************)
RegistrationsExact ==
  \A m \in Mailboxes, l \in Labels :
    /\ (\E s \in Slots : receivers[l][s] = m) <=> l \in wanted[m]
    /\ l \in wanted[m] => m \in alive

(***************************************************************************)
(* SendMessage returns true only if every registered receiver was given    *)
(* the message, however many of the failures came before a success.        *)
(***************************************************************************)
SendResult ==
  \A t \in Threads : call[t].op = "send" =>
    (call[t].ok <=> \A s \in 1 .. call[t].slot - 1 :
                      receivers[call[t].label][s] # NoMailbox => s \in call[t].got)

(***************************************************************************)
(* When SendMessage is about to return true, every mailbox registered for  *)
(* the label has the message in its queue or has received it: no queue has *)
(* refused it and nothing else has taken it away.                          *)
(***************************************************************************)
Has(m, id) == last[m] = id \/ \E i \in DOMAIN queue[m] : queue[m][i].id = id

TrueMeansDelivered ==
  \A t \in Threads :
    call[t].op = "send" /\ call[t].slot = MaxReceivers + 1 /\ call[t].ok =>
      \A m \in Mailboxes : call[t].label \in wanted[m] => Has(m, call[t].id)

(***************************************************************************)
(* Message::as<T> finds the size the message was sent with.                *)
(***************************************************************************)
MessageKeepsSize ==
  \A m \in Mailboxes : \A i \in DOMAIN queue[m] :
    queue[m][i].data # NoBlock => queue[m][i].size \in Sizes

(***************************************************************************)
(* What SendMessage allocates is released by a receiver or still on its    *)
(* way to one: no block is out of the pool with nobody to release it.      *)
(***************************************************************************)
NoBlockLost == lost = {}

(***************************************************************************)
(* A send that got the mutex returns, whatever receivers do: a mailbox     *)
(* that is full and never drained costs messages, not progress.            *)
(***************************************************************************)
CallsReturn == \A t \in Threads : mutex = t ~> mutex # t

(***************************************************************************)
(* All mailboxes receive sends in one global order, the order in which the *)
(* sends got the mutex.                                                    *)
(***************************************************************************)
Sends(q) == [i \in DOMAIN q |-> q[i].id]

Multicast == INSTANCE OrderedMulticast
  WITH casts <- sent, inbox <- [m \in Mailboxes |-> Sends(queue[m])]

ImplementsOrderedMulticast == Multicast!Spec

(***************************************************************************)
(* A mailbox never receives an older send after a newer one, although its  *)
(* queue is filled by any number of threads: once the effect of a send has *)
(* been seen, nothing sent before it turns up.                             *)
(***************************************************************************)
ReceivesInOrder == [][\A m \in Mailboxes : last[m] <= last'[m]]_vars

(***************************************************************************)
(* The sends and releases use each pool as BlockPool allows: no block that *)
(* is out is given out, none is returned twice, never more than the        *)
(* capacity are out.                                                       *)
(***************************************************************************)
SmallPool == INSTANCE BlockPool
  WITH Blocks <- PoolBlocks["small"], Capacity <- PoolCap["small"],
       held <- live \cap PoolBlocks["small"]

LargePool == INSTANCE BlockPool
  WITH Blocks <- PoolBlocks["large"], Capacity <- PoolCap["large"],
       held <- live \cap PoolBlocks["large"]

UsesPools == SmallPool!Spec /\ LargePool!Spec
=============================================================================
