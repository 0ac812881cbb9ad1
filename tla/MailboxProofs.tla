--------------------------- MODULE MailboxProofs ----------------------------
(***************************************************************************)
(* Proofs about Mailbox, for any threads, mailboxes, labels, number of     *)
(* receivers, queue size, pools and number of sends.                       *)
(***************************************************************************)
EXTENDS Mailbox, FiniteSetTheorems, SequenceTheorems, TLAPS

(***************************************************************************)
(* The slot under the loop variable and the call of a thread in a send.    *)
(***************************************************************************)
LEMMA InSend ==
  ASSUME TypeOK, NEW t \in Threads, call[t].op \in {"send", "signal"}
  PROVE  call[t] \in SendCall /\ mutex = t /\ call[t] # NoCall
BY DEF TypeOK, NoCall, StuckCall

LEMMA InLoopReceiver ==
  ASSUME TypeOK, NEW t \in Threads, InLoop(t)
  PROVE  Receiver(t) \in Mailboxes \cup {NoMailbox} /\ call[t].slot + 1 \in 1 .. MaxReceivers + 1
<1>1. call[t] \in SendCall
  BY InSend DEF InLoop
<1> QED BY <1>1, MailboxAssumption DEF SendCall, InLoop, Receiver, TypeOK, Slots

(***************************************************************************)
(* A step of the loop leaves the thread in its send, at the next receiver. *)
(***************************************************************************)
LEMMA AdvanceTyped ==
  ASSUME TypeOK, NEW t \in Threads, InLoop(t), NEW served \in BOOLEAN, Advance(t, served)
  PROVE  /\ call' \in [Threads -> SendCall \cup {NoCall, StuckCall}]
         /\ \A u \in Threads : call'[u] # NoCall <=> call[u] # NoCall
<1>1. call[t] \in SendCall /\ call[t] # NoCall
  BY InSend DEF InLoop
<1>2. call'[t] \in SendCall
  BY <1>1, InLoopReceiver DEF Advance, SendCall, TypeOK, InLoop
<1>3. call'[t] # NoCall
  BY <1>2 DEF SendCall, NoCall
<1>4. \A u \in Threads : u # t => call'[u] = call[u]
  BY DEF Advance, TypeOK
<1>5. call' = [call EXCEPT ![t] = call'[t]]
  BY DEF Advance, TypeOK
<1> QED BY <1>1, <1>2, <1>3, <1>4, <1>5 DEF TypeOK

LEMMA MessageTyped ==
  ASSUME TypeOK, NEW t \in Threads, InLoop(t)
  PROVE  MessageOf(t) \in Message
<1>1. call[t] \in SendCall
  BY InSend DEF InLoop
<1>2. call[t].size % SizeMod \in 0 .. SizeMod - 1
  <2>1. call[t].size \in Nat
    <3>1. Sizes \subseteq Nat
      BY MailboxAssumption
    <3>2. call[t].size \in Sizes \cup {0}
      BY <1>1 DEF SendCall
    <3>3. 0 \in Nat
      OBVIOUS
    <3> QED BY <3>1, <3>2, <3>3, Zenon
  <2>2. \A n \in Nat, mod \in Nat \ {0} : n % mod \in 0 .. mod - 1
    OBVIOUS
  <2> QED BY <2>1, <2>2, MailboxAssumption
<1> QED BY <1>1, <1>2 DEF SendCall, MessageOf, Message

LEMMA QueuedTyped ==
  ASSUME TypeOK, NEW m \in Mailboxes
  PROVE  Queued(m) \in SUBSET AllBlocks
<1>1. queue[m] \in Seq(Message)
  BY DEF TypeOK
<1>2. \A i \in DOMAIN queue[m] : queue[m][i] \in Message
  BY <1>1, ElementOfSeq, LenProperties
<1> QED BY <1>2 DEF Queued, Message

\* The invariants that do not need Destroy's guard are proved for CarelessNext.
LEMMA NextIsCareless == [Next]_vars => [CarelessNext]_vars
BY DEF CarelessNext

LEMMA TypeOKInductive == TypeOK /\ [CarelessNext]_vars => TypeOK'
<1> SUFFICES ASSUME TypeOK, [CarelessNext]_vars PROVE TypeOK'
  OBVIOUS
<1> USE MailboxAssumption DEF poolVars, historyVars
<1>1. CASE Initialize
  BY <1>1 DEF Initialize, TypeOK, Pools
<1>2. ASSUME NEW m \in Mailboxes, NEW l \in Labels, RegisterForLabel(m, l) PROVE TypeOK'
  BY <1>2 DEF RegisterForLabel, TypeOK
<1>3. ASSUME NEW m \in Mailboxes, NEW l \in Labels, UnregisterForLabel(m, l) PROVE TypeOK'
  BY <1>3 DEF UnregisterForLabel, TypeOK
<1>4. ASSUME NEW m \in Mailboxes, Destruct(m) PROVE TypeOK'
  <2>1. queue' \in [Mailboxes -> Seq(Message)] /\ \A n \in Mailboxes : Len(queue'[n]) <= QueueSize
    BY <1>4 DEF Destruct, TypeOK
  <2>2. Queued(m) \in SUBSET AllBlocks
    BY QueuedTyped
  <2> QED BY <1>4, <2>1, <2>2 DEF Destruct, TypeOK
<1>14. ASSUME NEW m \in Mailboxes, Construct(m) PROVE TypeOK'
  BY <1>14 DEF Construct, TypeOK
<1>5. ASSUME NEW m \in Mailboxes, Receive(m) PROVE TypeOK'
  <2>1. /\ Head(queue[m]) \in Message /\ Tail(queue[m]) \in Seq(Message)
        /\ Len(Tail(queue[m])) = Len(queue[m]) - 1
    BY <1>5, HeadTailProperties DEF Receive, TypeOK
  <2>2. queue' \in [Mailboxes -> Seq(Message)]
    BY <1>5, <2>1 DEF Receive, TypeOK
  <2>3. \A n \in Mailboxes : Len(queue'[n]) <= QueueSize
    BY <1>5, <2>1, LenProperties DEF Receive, TypeOK
  <2>4. last' \in [Mailboxes -> 0 .. MaxSends]
    BY <1>5, <2>1 DEF Receive, TypeOK, Message
  <2>5. held' \in SUBSET Message
    BY <1>5, <2>1 DEF Receive, TypeOK
  <2> QED BY <1>5, <2>2, <2>3, <2>4, <2>5 DEF Receive, TypeOK
<1>6. ASSUME NEW t \in Threads, NEW op \in {"send", "signal"}, NEW l \in Labels,
             NEW n \in Sizes \cup {0}, StartCall(t, op, l, n)
      PROVE  TypeOK'
  <2> DEFINE new == [op |-> op, label |-> l, size |-> n, slot |-> 1, block |-> NoBlock,
                     ok |-> TRUE, id |-> sent + 1, got |-> {}]
  <2>1. sent + 1 \in 1 .. MaxSends
    BY <1>6 DEF StartCall, TypeOK
  <2>2. new \in SendCall
    BY <2>1 DEF SendCall, Slots
  <2>3. new # NoCall
    BY DEF NoCall
  <2>4. call' \in [Threads -> SendCall \cup {NoCall, StuckCall}]
    BY <1>6, <2>2 DEF StartCall, TypeOK
  <2>5. \A u \in Threads : call'[u] # NoCall <=> mutex' = u
    BY <1>6, <2>3 DEF StartCall, Lock, TypeOK
  <2> QED BY <1>6, <2>1, <2>4, <2>5 DEF StartCall, Lock, TypeOK
<1>7. ASSUME NEW t \in Threads, Skip(t) PROVE TypeOK'
  <2>1. call[t] \in SendCall /\ call[t].slot + 1 \in 1 .. MaxReceivers + 1
    BY <1>7, InSend, InLoopReceiver DEF Skip, InLoop
  <2>2. [call[t] EXCEPT !.slot = @ + 1] \in SendCall
    BY <2>1 DEF SendCall
  <2>3. [call[t] EXCEPT !.slot = @ + 1] # NoCall /\ call[t] # NoCall
    BY <2>1, <2>2 DEF SendCall, NoCall
  <2>4. call' \in [Threads -> SendCall \cup {NoCall, StuckCall}]
    BY <1>7, <2>2 DEF Skip, TypeOK
  <2>5. \A u \in Threads : call'[u] # NoCall <=> call[u] # NoCall
    BY <1>7, <2>3 DEF Skip, TypeOK
  <2> QED BY <1>7, <2>4, <2>5 DEF Skip, TypeOK
<1>8. ASSUME NEW t \in Threads, Allocate(t) PROVE TypeOK'
  <2>1. CASE Advance(t, FALSE) /\ UNCHANGED poolVars
    <3>1. /\ call' \in [Threads -> SendCall \cup {NoCall, StuckCall}]
          /\ \A u \in Threads : call'[u] # NoCall <=> call[u] # NoCall
      BY <1>8, <2>1, AdvanceTyped DEF Allocate
    <3> QED BY <1>8, <2>1, <3>1 DEF Allocate, TypeOK
  <2>2. ASSUME NEW b \in AllBlocks, Take(PoolFor(call[t].size), b),
               call' = [call EXCEPT ![t].block = b]
        PROVE  TypeOK'
    <3>1. call[t] \in SendCall
      BY <1>8, InSend DEF Allocate, InLoop
    <3>2. [call[t] EXCEPT !.block = b] \in SendCall
      BY <3>1 DEF SendCall
    <3>3. [call[t] EXCEPT !.block = b] # NoCall /\ call[t] # NoCall
      BY <3>1, <3>2 DEF SendCall, NoCall
    <3>4. call' \in [Threads -> SendCall \cup {NoCall, StuckCall}]
      BY <2>2, <3>2 DEF TypeOK
    <3>5. \A u \in Threads : call'[u] # NoCall <=> call[u] # NoCall
      BY <2>2, <3>3 DEF TypeOK
    <3>6. available' \in [Pools -> Nat] /\ live' \in SUBSET AllBlocks /\ live \in SUBSET live'
      BY <2>2 DEF Take, TypeOK, PoolFor, Pools
    <3> QED BY <1>8, <3>4, <3>5, <3>6 DEF Allocate, TypeOK
  <2> QED BY <1>8, <2>1, <2>2 DEF Allocate
<1>9. ASSUME NEW t \in Threads, Emplace(t) PROVE TypeOK'
  <2>1. /\ call' \in [Threads -> SendCall \cup {NoCall, StuckCall}]
        /\ \A u \in Threads : call'[u] # NoCall <=> call[u] # NoCall
    BY <1>9, AdvanceTyped DEF Emplace, AtEmplace
  <2>2. Receiver(t) \in Mailboxes
    BY <1>9, InLoopReceiver DEF Emplace, AtEmplace
  <2>3. MessageOf(t) \in Message
    BY <1>9, MessageTyped DEF Emplace, AtEmplace
  <2>4. /\ queue' \in [Mailboxes -> Seq(Message)]
        /\ \A m \in Mailboxes : Len(queue'[m]) <= QueueSize
    BY <1>9, <2>2, <2>3, AppendProperties, LenProperties DEF Emplace, TypeOK
  <2> QED BY <1>9, <2>1, <2>4 DEF Emplace, TypeOK
<1>10. ASSUME NEW t \in Threads, EmplaceFull(t) PROVE TypeOK'
  <2>1. /\ call' \in [Threads -> SendCall \cup {NoCall, StuckCall}]
        /\ \A u \in Threads : call'[u] # NoCall <=> call[u] # NoCall
    BY <1>10, AdvanceTyped DEF EmplaceFull, AtEmplace
  <2>2. call[t].block \in AllBlocks \cup {NoBlock}
    BY <1>10, InSend DEF EmplaceFull, AtEmplace, InLoop, SendCall
  <2> QED BY <1>10, <2>1, <2>2 DEF EmplaceFull, TypeOK
<1>11. ASSUME NEW t \in Threads, Return(t) PROVE TypeOK'
  BY <1>11, InSend DEF Return, TypeOK
<1>12. ASSUME NEW msg \in held, Release(msg) PROVE TypeOK'
  <2>1. available' \in [Pools -> Nat]
    BY <1>12 DEF Release, GiveBack, TypeOK, PoolFor, Pools
  <2> QED BY <1>12, <2>1 DEF Release, GiveBack, TypeOK
<1>13. CASE UNCHANGED vars
  BY <1>13 DEF vars, TypeOK
<1> QED BY <1>1, <1>2, <1>3, <1>4, <1>5, <1>6, <1>7, <1>8, <1>9, <1>10, <1>11, <1>12, <1>13,
        <1>14 DEF CarelessNext, Next, Destroy, SendMessage, SendSignal, Proceed

LEMMA InitTyped == Init => TypeOK
<1> SUFFICES ASSUME Init PROVE TypeOK
  OBVIOUS
<1>1. queue \in [Mailboxes -> Seq(Message)] /\ \A m \in Mailboxes : Len(queue[m]) <= QueueSize
  BY MailboxAssumption, EmptySeq DEF Init
<1>2. call \in [Threads -> SendCall \cup {NoCall, StuckCall}]
  BY DEF Init
<1>3. 0 \in 0 .. MaxSends
  BY MailboxAssumption
<1> QED BY <1>1, <1>2, <1>3, MailboxAssumption DEF Init, TypeOK, Slots

(***************************************************************************)
(* Type correctness: in particular the queues stay within their capacity   *)
(* and only the thread that owns the mutex is in a send.                   *)
(***************************************************************************)
THEOREM MailboxTyped == Spec => []TypeOK
BY InitTyped, NextIsCareless, TypeOKInductive, PTL DEF Spec

-----------------------------------------------------------------------------
(***************************************************************************)
(* The sends of a queue's messages: a sequence that grows and shrinks with *)
(* the queue.                                                              *)
(***************************************************************************)
LEMMA SendsTyped ==
  ASSUME NEW q \in Seq(Message)
  PROVE  /\ Sends(q) \in Seq(1 .. MaxSends)
         /\ Len(Sends(q)) = Len(q)
         /\ \A i \in 1 .. Len(q) : Sends(q)[i] = q[i].id
<1>1. DOMAIN q = 1 .. Len(q) /\ Len(q) \in Nat /\ \A i \in 1 .. Len(q) : q[i] \in Message
  BY ElementOfSeq, LenProperties
<1>2. Sends(q) \in [1 .. Len(q) -> 1 .. MaxSends]
  BY <1>1 DEF Sends, Message
<1>3. Sends(q) \in Seq(1 .. MaxSends)
  <2>1. Seq(1 .. MaxSends) = UNION {[1 .. n -> 1 .. MaxSends] : n \in Nat}
    BY SeqDef
  <2> QED BY <1>1, <1>2, <2>1, Zenon
<1>4. DOMAIN Sends(q) = 1 .. Len(q)
  BY <1>1 DEF Sends
<1>5. Len(Sends(q)) = Len(q)
  BY <1>1, <1>3, <1>4, LenProperties
<1> QED BY <1>1, <1>3, <1>5 DEF Sends

LEMMA SendsAppend ==
  ASSUME NEW q \in Seq(Message), NEW msg \in Message
  PROVE  Sends(Append(q, msg)) = Append(Sends(q), msg.id)
<1>1. Append(q, msg) \in Seq(Message) /\ msg.id \in 1 .. MaxSends
  BY AppendProperties DEF Message
<1>2. Sends(Append(q, msg)) \in Seq(1 .. MaxSends) /\ Append(Sends(q), msg.id) \in Seq(1 .. MaxSends)
  BY <1>1, SendsTyped, AppendProperties
<1>3. Len(q) \in Nat /\ Len(Append(q, msg)) = Len(q) + 1
  BY AppendProperties, LenProperties
<1>4. /\ Sends(q) \in Seq(1 .. MaxSends)
      /\ Len(Sends(q)) = Len(q)
      /\ \A i \in 1 .. Len(q) : Sends(q)[i] = q[i].id
  BY SendsTyped
<1>5. Len(Append(Sends(q), msg.id)) = Len(q) + 1
  BY <1>1, <1>4, AppendProperties
<1>7. Len(Sends(Append(q, msg))) = Len(q) + 1
  BY <1>1, <1>3, SendsTyped
<1>6. ASSUME NEW i \in 1 .. Len(q) + 1
      PROVE  Sends(Append(q, msg))[i] = Append(Sends(q), msg.id)[i]
  <2>1. Sends(Append(q, msg))[i] = Append(q, msg)[i].id
    BY <1>1, <1>3, <1>6, SendsTyped
  <2>2. CASE i = Len(q) + 1
    <3>1. Append(q, msg)[i] = msg
      BY <2>2, AppendProperties
    <3>2. Append(Sends(q), msg.id)[i] = msg.id
      BY <1>1, <1>4, <2>2, AppendProperties
    <3> QED BY <2>1, <3>1, <3>2
  <2>3. CASE i \in 1 .. Len(q)
    <3>1. Append(q, msg)[i] = q[i]
      BY <2>3, AppendProperties
    <3>2. Append(Sends(q), msg.id)[i] = Sends(q)[i]
      BY <1>1, <1>4, <2>3, AppendProperties
    <3> QED BY <1>4, <2>1, <2>3, <3>1, <3>2
  <2>4. i = Len(q) + 1 \/ i \in 1 .. Len(q)
    BY <1>3
  <2> QED BY <2>2, <2>3, <2>4
<1> QED BY <1>2, <1>5, <1>6, <1>7, SeqEqual

LEMMA SendsTail ==
  ASSUME NEW q \in Seq(Message), q # <<>>
  PROVE  Sends(q) # <<>> /\ Sends(Tail(q)) = Tail(Sends(q)) /\ Head(Sends(q)) = Head(q).id
<1>1. Len(q) \in Nat \ {0} /\ Len(Sends(q)) = Len(q) /\ Sends(q) \in Seq(1 .. MaxSends) 
  BY SendsTyped, EmptySeq, LenProperties
<1>2. Sends(q) # <<>>
  BY <1>1, EmptySeq
<1>3. Tail(q) \in Seq(Message) /\ Tail(Sends(q)) \in Seq(1 .. MaxSends) /\ Len(Tail(q)) = Len(q) - 1
      /\ Len(Tail(Sends(q))) = Len(q) - 1
  BY <1>1, <1>2, HeadTailProperties
<1>4. Sends(Tail(q)) \in Seq(1 .. MaxSends) /\ Len(Sends(Tail(q))) = Len(q) - 1
  BY <1>3, SendsTyped
<1>5. ASSUME NEW i \in 1 .. Len(q) - 1 PROVE Sends(Tail(q))[i] = Tail(Sends(q))[i]
  <2>1. Sends(Tail(q))[i] = Tail(q)[i].id
    BY <1>3, <1>4, <1>5, SendsTyped
  <2>2. Tail(q)[i] = q[i + 1]
    BY <1>3, <1>5, HeadTailProperties
  <2>3. Tail(Sends(q))[i] = Sends(q)[i + 1]
    BY <1>1, <1>2, <1>3, <1>5, HeadTailProperties
  <2>4. Sends(q)[i + 1] = q[i + 1].id
    BY <1>1, <1>5, SendsTyped
  <2> QED BY <2>1, <2>2, <2>3, <2>4
<1>6. Sends(Tail(q)) = Tail(Sends(q))
  BY <1>3, <1>4, <1>5, SeqEqual
<1>7. Head(Sends(q)) = Head(q).id
  BY <1>1, <1>2, SendsTyped
<1> QED BY <1>2, <1>6, <1>7

-----------------------------------------------------------------------------
(***************************************************************************)
(* The send that is being made is the last one: its thread has held the    *)
(* mutex since it was numbered.                                            *)
(***************************************************************************)
CurrentSend == \A t \in Threads : call[t].op \in {"send", "signal"} => call[t].id = sent

LEMMA CurrentSendInductive == TypeOK /\ CurrentSend /\ [CarelessNext]_vars => CurrentSend'
<1> SUFFICES ASSUME TypeOK, CurrentSend, [CarelessNext]_vars PROVE CurrentSend'
  OBVIOUS
<1>1. CASE UNCHANGED <<call, sent>>
  BY <1>1 DEF CurrentSend
<1>2. ASSUME NEW t \in Threads, NEW op \in {"send", "signal"}, NEW l, NEW n,
             StartCall(t, op, l, n)
      PROVE  CurrentSend'
  <2>1. \A u \in Threads : call[u] = NoCall
    BY <1>2, MailboxAssumption DEF StartCall, Lock, TypeOK
  <2>2. \A u \in Threads : u # t => call'[u] = NoCall
    BY <1>2, <2>1 DEF StartCall, TypeOK
  <2>3. call'[t].id = sent'
    BY <1>2 DEF StartCall, TypeOK
  <2> QED BY <2>2, <2>3 DEF CurrentSend, NoCall
<1>3. ASSUME NEW t \in Threads, Proceed(t) PROVE CurrentSend'
  <2>1. UNCHANGED sent
    BY <1>3 DEF Proceed, Skip, Allocate, Emplace, EmplaceFull, Return
  <2>2. \A u \in Threads : u # t => call'[u] = call[u]
    BY <1>3 DEF Proceed, Skip, Allocate, Emplace, EmplaceFull, Return, Advance, TypeOK
  <2>3. call[t] \in SendCall
    BY <1>3, InSend DEF Proceed, Skip, Allocate, Emplace, AtEmplace, EmplaceFull, Return, InLoop
  <2>4. call'[t].id = call[t].id \/ call'[t] = NoCall
    BY <1>3, <2>3
       DEF Proceed, Skip, Allocate, Emplace, EmplaceFull, Return, Advance, TypeOK, SendCall
  <2>5. call[t].id = sent
    BY <2>3 DEF CurrentSend, SendCall
  <2> QED BY <2>1, <2>2, <2>4, <2>5 DEF CurrentSend, NoCall
<1>4. ASSUME NEW m \in Mailboxes, Construct(m) \/ Destruct(m) \/ Receive(m)
      PROVE  UNCHANGED <<call, sent>>
  BY <1>4 DEF Destruct, Construct, Receive
<1>5. ASSUME NEW m \in Mailboxes, NEW l \in Labels,
             RegisterForLabel(m, l) \/ UnregisterForLabel(m, l)
      PROVE  UNCHANGED <<call, sent>>
  BY <1>5 DEF RegisterForLabel, UnregisterForLabel
<1>6. ASSUME NEW msg \in held, Release(msg) PROVE UNCHANGED <<call, sent>>
  BY <1>6 DEF Release
<1>7. CASE Initialize \/ UNCHANGED vars
  BY <1>1, <1>7 DEF Initialize, vars
<1> QED BY <1>1, <1>2, <1>3, <1>4, <1>5, <1>6, <1>7
        DEF CarelessNext, Next, Destroy, SendMessage, SendSignal

(***************************************************************************)
(* The mailboxes implement the ordered multicast: locking the mutex is the *)
(* cast, a successful emplace delivers the cast that is being made.        *)
(***************************************************************************)
LEMMA MulticastStep ==
  TypeOK /\ CurrentSend /\ [CarelessNext]_vars => [Multicast!Next]_Multicast!vars
<1> SUFFICES ASSUME TypeOK, CurrentSend, [CarelessNext]_vars
             PROVE  Multicast!Next \/ UNCHANGED Multicast!vars
  OBVIOUS
<1> DEFINE inbox == [m \in Mailboxes |-> Sends(queue[m])]
<1>1. CASE UNCHANGED <<sent, queue, last>>
  BY <1>1 DEF Multicast!vars
<1>2. ASSUME NEW t \in Threads, NEW op, NEW l, NEW n, StartCall(t, op, l, n)
      PROVE  Multicast!Next
  BY <1>2 DEF StartCall, historyVars, Multicast!Next, Multicast!Cast
<1>3. ASSUME NEW t \in Threads, Emplace(t) PROVE Multicast!Next
  <2>1. call[t] \in SendCall /\ call[t].id = sent /\ sent \in 1 .. MaxSends
    BY <1>3, InSend DEF Emplace, AtEmplace, InLoop, CurrentSend, SendCall
  <2>2. MessageOf(t) \in Message /\ MessageOf(t).id = sent
    BY <1>3, <2>1, MessageTyped DEF Emplace, AtEmplace, MessageOf
  <2>3. PICK m \in Mailboxes : queue' = [queue EXCEPT ![m] = Append(@, MessageOf(t))]
    BY <1>3, InLoopReceiver DEF Emplace, AtEmplace
  <2>4. queue[m] \in Seq(Message)
    BY DEF TypeOK
  <2>5. Sends(Append(queue[m], MessageOf(t))) = Append(Sends(queue[m]), sent)
    BY <2>2, <2>4, SendsAppend
  <2>6. inbox' = [inbox EXCEPT ![m] = Append(inbox[m], sent)]
    BY <2>3, <2>5 DEF TypeOK
  <2>7. Multicast!Deliver(m)
    BY <1>3, <2>1, <2>6 DEF Emplace, historyVars, Multicast!Deliver
  <2> QED BY <2>7 DEF Multicast!Next
<1>4. ASSUME NEW m \in Mailboxes, Receive(m) PROVE Multicast!Next
  <2>1. queue[m] \in Seq(Message) /\ queue[m] # <<>>
    BY <1>4 DEF Receive, TypeOK
  <2>2. /\ Sends(queue[m]) # <<>>
        /\ Sends(Tail(queue[m])) = Tail(Sends(queue[m]))
        /\ Head(queue[m]).id = Head(Sends(queue[m]))
    BY <2>1, SendsTail
  <2>3. inbox' = [inbox EXCEPT ![m] = Tail(inbox[m])]
    BY <1>4, <2>2 DEF Receive, TypeOK
  <2>4. Multicast!Take(m)
    BY <1>4, <2>2, <2>3 DEF Receive, Multicast!Take
  <2> QED BY <2>4 DEF Multicast!Next
<1>5. ASSUME NEW m \in Mailboxes, Destruct(m) PROVE Multicast!Next
  <2>1. Sends(<<>>) = <<>>
    BY DEF Sends
  <2>2. inbox' = [inbox EXCEPT ![m] = <<>>]
    BY <1>5, <2>1 DEF Destruct, TypeOK
  <2>3. Multicast!Discard(m)
    BY <1>5, <2>2 DEF Destruct, Multicast!Discard
  <2> QED BY <2>3 DEF Multicast!Next
<1>6. ASSUME NEW t \in Threads, Skip(t) \/ Allocate(t) \/ EmplaceFull(t) \/ Return(t)
      PROVE  UNCHANGED <<sent, queue, last>>
  BY <1>6 DEF Skip, Allocate, EmplaceFull, Return, historyVars
<1>7. ASSUME NEW m \in Mailboxes, NEW l \in Labels,
             RegisterForLabel(m, l) \/ UnregisterForLabel(m, l)
      PROVE  UNCHANGED <<sent, queue, last>>
  BY <1>7 DEF RegisterForLabel, UnregisterForLabel
<1>8. ASSUME NEW msg \in held, Release(msg) PROVE UNCHANGED <<sent, queue, last>>
  BY <1>8 DEF Release, historyVars
<1>10. ASSUME NEW m \in Mailboxes, Construct(m) PROVE UNCHANGED <<sent, queue, last>>
  BY <1>10 DEF Construct, historyVars
<1>9. CASE Initialize \/ UNCHANGED vars
  BY <1>1, <1>9 DEF Initialize, vars, historyVars
<1> QED BY <1>1, <1>2, <1>3, <1>4, <1>5, <1>6, <1>7, <1>8, <1>9, <1>10
        DEF CarelessNext, Next, Destroy, SendMessage, SendSignal, Proceed

LEMMA InitMulticast == Init => CurrentSend /\ Multicast!Init
<1>1. Sends(<<>>) = <<>>
  BY DEF Sends
<1> QED BY <1>1 DEF Init, CurrentSend, NoCall, Multicast!Init

(***************************************************************************)
(* Sends that hold the mutex one at a time put their messages into all     *)
(* mailboxes in the order in which they got it.                            *)
(***************************************************************************)
THEOREM MailboxIsOrderedMulticast == Spec => ImplementsOrderedMulticast
BY InitMulticast, MailboxTyped, NextIsCareless, CurrentSendInductive, MulticastStep, PTL
   DEF Spec, ImplementsOrderedMulticast, Multicast!Spec

(***************************************************************************)
(* What is proved of the ordered multicast holds of the mailboxes.         *)
(***************************************************************************)
MulticastP == INSTANCE OrderedMulticastProofs
  WITH casts <- sent, inbox <- [m \in Mailboxes |-> Sends(queue[m])]

LEMMA SameMulticast == Multicast!Spec => MulticastP!Spec
<1>1. Multicast!Init <=> MulticastP!Init
  BY DEF Multicast!Init, MulticastP!Init
<1>2. Multicast!Next <=> MulticastP!Next
  BY DEF Multicast!Next, Multicast!Cast, Multicast!Deliver, Multicast!Take, Multicast!Discard,
         MulticastP!Next, MulticastP!Cast, MulticastP!Deliver, MulticastP!Take, MulticastP!Discard
<1>3. UNCHANGED Multicast!vars <=> UNCHANGED MulticastP!vars
  BY DEF Multicast!vars, MulticastP!vars
<1> QED BY <1>1, <1>2, <1>3, PTL DEF Multicast!Spec, MulticastP!Spec

\* The inductive invariant behind the order.
Ordered == MulticastP!IInv

LEMMA InitOrdered == Init => CurrentSend /\ Ordered
<1>1. Multicast!Init => MulticastP!Init
  BY DEF Multicast!Init, MulticastP!Init
<1> QED BY <1>1, InitMulticast, MulticastP!InitIInv DEF Ordered

LEMMA OrderedInductive == TypeOK /\ CurrentSend /\ Ordered /\ [CarelessNext]_vars => Ordered'
<1>1. [Multicast!Next]_Multicast!vars => [MulticastP!Next]_MulticastP!vars
  BY DEF Multicast!Next, Multicast!Cast, Multicast!Deliver, Multicast!Take, Multicast!Discard,
         Multicast!vars,
         MulticastP!Next, MulticastP!Cast, MulticastP!Deliver, MulticastP!Take,
         MulticastP!Discard, MulticastP!vars
<1> QED BY <1>1, MulticastStep, MulticastP!IInvInductive DEF Ordered

(***************************************************************************)
(* A mailbox receives sends in the order in which they got the mutex,      *)
(* whichever threads they are of: its queue is sorted by their numbers and *)
(* holds nothing older than what was received.                             *)
(***************************************************************************)
THEOREM MailboxInOrder == Spec => []Multicast!InOrder
<1>1. MulticastP!InOrder <=> Multicast!InOrder
  BY DEF MulticastP!InOrder, Multicast!InOrder
<1> QED BY <1>1, MailboxIsOrderedMulticast, SameMulticast, MulticastP!MulticastInOrder, PTL
        DEF ImplementsOrderedMulticast

(***************************************************************************)
(* Nothing sent before what a mailbox has received turns up later.         *)
(***************************************************************************)
THEOREM MailboxReceivesInOrder == Spec => ReceivesInOrder
<1> DEFINE Forward == \A m \in Mailboxes : last[m] <= last'[m]
<1>1. TypeOK /\ UNCHANGED MulticastP!vars => Forward
  BY MailboxAssumption DEF TypeOK, MulticastP!vars
<1> HIDE DEF Forward
<1>2. Spec => [][Forward]_MulticastP!vars
  BY MailboxIsOrderedMulticast, SameMulticast, MulticastP!MulticastTakesForward, PTL
     DEF ImplementsOrderedMulticast, MulticastP!TakesForward, Forward
<1>3. [Forward]_MulticastP!vars /\ TypeOK => [Forward]_vars
  BY <1>1
<1>4. Spec => [][Forward]_vars
  BY <1>2, <1>3, MailboxTyped, PTL
<1> QED BY <1>4, PTL DEF ReceivesInOrder, Forward

-----------------------------------------------------------------------------
(***************************************************************************)
(* The receivers of a label are exactly the mailboxes registered for it,   *)
(* all of them alive: what makes destroying an unregistered mailbox safe.  *)
(***************************************************************************)
THEOREM MailboxRegistrations == Spec => []RegistrationsExact
<1>1. Init => RegistrationsExact
  BY MailboxAssumption DEF Init, RegistrationsExact
<1>2. TypeOK /\ RegistrationsExact /\ [Next]_vars => RegistrationsExact'
  <2> SUFFICES ASSUME TypeOK, RegistrationsExact, [Next]_vars PROVE RegistrationsExact'
    OBVIOUS
  <2>1. ASSUME UNCHANGED <<receivers, alive, wanted>> PROVE RegistrationsExact'
    BY <2>1 DEF RegistrationsExact
  <2>2. ASSUME NEW m \in Mailboxes, NEW l \in Labels, RegisterForLabel(m, l)
        PROVE  RegistrationsExact'
    <3>1. PICK s \in Slots : /\ receivers[l][s] = NoMailbox
                             /\ receivers' = [receivers EXCEPT ![l][s] = m]
      BY <2>2 DEF RegisterForLabel
    <3>2. ASSUME NEW n \in Mailboxes, NEW k \in Labels
          PROVE  (\E r \in Slots : receivers'[k][r] = n) <=>
                   (\E r \in Slots : receivers[k][r] = n) \/ (n = m /\ k = l)
      BY <3>1, MailboxAssumption DEF TypeOK
    <3>3. ASSUME NEW n \in Mailboxes, NEW k \in Labels
          PROVE  k \in wanted'[n] <=> k \in wanted[n] \/ (n = m /\ k = l)
      BY <2>2 DEF RegisterForLabel, TypeOK
    <3> QED BY <2>2, <3>2, <3>3 DEF RegisterForLabel, RegistrationsExact
  <2>3. ASSUME NEW m \in Mailboxes, NEW l \in Labels, UnregisterForLabel(m, l)
        PROVE  RegistrationsExact'
    <3>1. ASSUME NEW n \in Mailboxes, NEW k \in Labels
          PROVE  (\E r \in Slots : receivers'[k][r] = n) <=>
                   (\E r \in Slots : receivers[k][r] = n) /\ ~(n = m /\ k = l)
      BY <2>3, MailboxAssumption DEF UnregisterForLabel, TypeOK
    <3>2. ASSUME NEW n \in Mailboxes, NEW k \in Labels
          PROVE  k \in wanted'[n] <=> k \in wanted[n] /\ ~(n = m /\ k = l)
      BY <2>3 DEF UnregisterForLabel, TypeOK
    <3> QED BY <2>3, <3>1, <3>2 DEF UnregisterForLabel, RegistrationsExact
  <2>4. ASSUME NEW m \in Mailboxes, Construct(m) \/ Destroy(m) PROVE RegistrationsExact'
    BY <2>4 DEF Construct, Destroy, Destruct, historyVars, RegistrationsExact
  <2>5. ASSUME NEW t \in Threads, Proceed(t) PROVE RegistrationsExact'
    BY <2>1, <2>5 DEF Proceed, Skip, Allocate, Emplace, EmplaceFull, Return, historyVars
  <2>6. ASSUME NEW t \in Threads, NEW op, NEW l, NEW n, StartCall(t, op, l, n)
        PROVE  RegistrationsExact'
    BY <2>1, <2>6 DEF StartCall, historyVars
  <2>7. ASSUME NEW m \in Mailboxes, Receive(m) PROVE RegistrationsExact'
    BY <2>1, <2>7 DEF Receive
  <2>8. ASSUME NEW msg \in held, Release(msg) PROVE RegistrationsExact'
    BY <2>1, <2>8 DEF Release, historyVars
  <2>9. CASE Initialize \/ UNCHANGED vars
    BY <2>1, <2>9 DEF Initialize, vars, historyVars
  <2> QED BY <2>2, <2>3, <2>4, <2>5, <2>6, <2>7, <2>8, <2>9
          DEF Next, SendMessage, SendSignal
<1> QED BY <1>1, <1>2, MailboxTyped, PTL DEF Spec

-----------------------------------------------------------------------------
(***************************************************************************)
(* SendResult is inductive once the slots that were served are known to be *)
(* behind the loop variable: a slot is added only when the loop leaves it. *)
(***************************************************************************)
ServedBehind ==
  \A t \in Threads : call[t].op = "send" => \A s \in call[t].got : s < call[t].slot

ResultInv == SendResult /\ ServedBehind

\* The two parts, for one thread.
ResultOf(t) ==
  call[t].op = "send" =>
    /\ call[t].ok <=> \A s \in 1 .. call[t].slot - 1 :
                       receivers[call[t].label][s] # NoMailbox => s \in call[t].got
    /\ \A s \in call[t].got : s < call[t].slot

LEMMA ResultAdvance ==
  ASSUME TypeOK, NEW t \in Threads, ResultOf(t), InLoop(t), Receiver(t) # NoMailbox,
         NEW served \in BOOLEAN, Advance(t, served), UNCHANGED receivers
  PROVE  ResultOf(t)'
<1> SUFFICES ASSUME call'[t].op = "send" PROVE ResultOf(t)'
  BY DEF ResultOf
<1>1. call[t] \in SendCall
  BY InSend DEF InLoop
<1>2. /\ call'[t].op = call[t].op /\ call'[t].label = call[t].label
      /\ call'[t].slot = call[t].slot + 1
      /\ call'[t].got = IF served THEN call[t].got \cup {call[t].slot} ELSE call[t].got
  BY <1>1 DEF Advance, TypeOK, SendCall
<1>3. call'[t].ok <=> call[t].ok /\ served
  BY <1>1, <1>2 DEF Advance, TypeOK, SendCall
<1>4. /\ call[t].slot \in Slots
      /\ \A s \in call[t].got : s < call[t].slot /\ s \in Slots
  BY <1>1, <1>2 DEF ResultOf, InLoop, SendCall
<1>5. \A s : s \in 1 .. call'[t].slot - 1 <=> s \in 1 .. call[t].slot - 1 \/ s = call[t].slot
  BY <1>2, <1>4, MailboxAssumption DEF Slots
<1>6. call[t].slot \notin call[t].got /\ call[t].slot \notin 1 .. call[t].slot - 1
  BY <1>4, MailboxAssumption DEF Slots
<1>7. receivers[call[t].label][call[t].slot] # NoMailbox
  BY DEF Receiver
<1>8. CASE served
  <2>1. \A s \in call'[t].got : s < call'[t].slot
    BY <1>2, <1>4, <1>8, MailboxAssumption DEF Slots
  <2>2. call'[t].ok <=> \A s \in 1 .. call'[t].slot - 1 :
          receivers'[call'[t].label][s] # NoMailbox => s \in call'[t].got
    BY <1>2, <1>3, <1>5, <1>6, <1>8 DEF ResultOf
  <2> QED BY <2>1, <2>2 DEF ResultOf
<1>9. CASE ~served
  <2>1. \A s \in call'[t].got : s < call'[t].slot
    BY <1>2, <1>4, <1>9, MailboxAssumption DEF Slots
  <2>2. ~call'[t].ok
    BY <1>3, <1>9
  <2>3. call'[t].slot - 1 = call[t].slot /\ call[t].slot \in 1 .. call'[t].slot - 1
    BY <1>2, <1>4, <1>5
  <2>4. receivers'[call'[t].label][call[t].slot] # NoMailbox /\ call[t].slot \notin call'[t].got
    BY <1>2, <1>6, <1>7, <1>9
  <2> QED BY <2>1, <2>2, <2>3, <2>4 DEF ResultOf
<1> QED BY <1>8, <1>9

(***************************************************************************)
(* SendMessage returns true only if every receiver registered for the      *)
(* label, as of the moment it locked the mutex, was given the message.     *)
(***************************************************************************)
THEOREM MailboxSendResult == Spec => []SendResult
<1>0. ResultInv <=> \A t \in Threads : ResultOf(t)
  BY DEF ResultInv, SendResult, ServedBehind, ResultOf
<1>1. Init => ResultInv
  BY <1>0 DEF Init, ResultOf, NoCall
<1>2. TypeOK /\ ResultInv /\ [CarelessNext]_vars => ResultInv'
  <2> SUFFICES ASSUME TypeOK, ResultInv, [CarelessNext]_vars, NEW t \in Threads PROVE ResultOf(t)'
    BY DEF ResultInv, SendResult, ServedBehind, ResultOf
  <2>0. ResultOf(t)
    BY <1>0
  <2>1. ASSUME UNCHANGED receivers, call'[t] = call[t] PROVE ResultOf(t)'
    BY <2>0, <2>1 DEF ResultOf
  <2>2. ASSUME NEW u \in Threads, Proceed(u) PROVE ResultOf(t)'
    <3>1. UNCHANGED receivers
      BY <2>2 DEF Proceed, Skip, Allocate, Emplace, EmplaceFull, Return
    <3>2. CASE u # t
      <4>1. call'[t] = call[t]
        BY <2>2, <3>2
           DEF Proceed, Skip, Allocate, Emplace, EmplaceFull, Return, Advance, TypeOK
      <4> QED BY <2>1, <3>1, <4>1
    <3>3. CASE u = t
      <4>1. CASE Emplace(t)
        BY <2>0, <3>1, <4>1, ResultAdvance DEF Emplace, AtEmplace
      <4>2. CASE EmplaceFull(t)
        BY <2>0, <3>1, <4>2, ResultAdvance DEF EmplaceFull, AtEmplace
      <4>3. CASE Allocate(t)
        <5>1. CASE Advance(t, FALSE)
          BY <2>0, <3>1, <4>3, <5>1, ResultAdvance DEF Allocate
        <5>2. CASE \E b \in AllBlocks : call' = [call EXCEPT ![t].block = b]
          <6>1. call[t] \in SendCall
            BY <4>3, InSend DEF Allocate, InLoop
          <6>2. /\ call'[t].op = call[t].op /\ call'[t].label = call[t].label
                /\ call'[t].slot = call[t].slot /\ call'[t].got = call[t].got
                /\ call'[t].ok = call[t].ok
            BY <5>2, <6>1 DEF TypeOK, SendCall
          <6> QED BY <2>0, <3>1, <6>2 DEF ResultOf
        <5> QED BY <4>3, <5>1, <5>2 DEF Allocate
      <4>4. CASE Skip(t)
        <5>1. call[t] \in SendCall /\ call[t].slot \in Slots
          BY <4>4, InSend DEF Skip, InLoop
        <5>2. /\ call'[t].op = call[t].op /\ call'[t].label = call[t].label
              /\ call'[t].slot = call[t].slot + 1 /\ call'[t].got = call[t].got
              /\ call'[t].ok = call[t].ok
          BY <4>4, <5>1 DEF Skip, TypeOK, SendCall
        <5>3. receivers[call[t].label][call[t].slot] = NoMailbox
          BY <4>4 DEF Skip, Receiver
        <5>4. \A s : s \in 1 .. call'[t].slot - 1
                       <=> s \in 1 .. call[t].slot - 1 \/ s = call[t].slot
          BY <5>1, <5>2, MailboxAssumption DEF Slots
        <5>5. \A s \in call[t].got : s \in Slots
          BY <5>1 DEF SendCall
        <5>6. ASSUME call'[t].op = "send" PROVE \A s \in call'[t].got : s < call'[t].slot
          BY <2>0, <5>1, <5>2, <5>5, <5>6, MailboxAssumption DEF ResultOf, Slots
        <5> QED BY <2>0, <3>1, <5>2, <5>3, <5>4, <5>6 DEF ResultOf
      <4>5. CASE Return(t)
        BY <4>5 DEF Return, ResultOf, NoCall, TypeOK
      <4> QED BY <2>2, <3>3, <4>1, <4>2, <4>3, <4>4, <4>5 DEF Proceed
    <3> QED BY <3>2, <3>3
  <2>3. ASSUME NEW u \in Threads, NEW op \in {"send", "signal"}, NEW l, NEW n,
               StartCall(u, op, l, n)
        PROVE  ResultOf(t)'
    <3>1. CASE u # t
      BY <2>1, <2>3, <3>1 DEF StartCall, TypeOK
    <3>2. CASE u = t
      <4>1. call'[t].slot = 1 /\ call'[t].got = {} /\ call'[t].ok
        BY <2>3, <3>2 DEF StartCall, TypeOK
      <4> QED BY <4>1 DEF ResultOf
    <3> QED BY <3>1, <3>2
  <2>4. ASSUME NEW m \in Mailboxes, NEW l \in Labels,
               RegisterForLabel(m, l) \/ UnregisterForLabel(m, l)
        PROVE  ResultOf(t)'
    <3>1. call[t] = NoCall /\ call' = call
      BY <2>4, MailboxAssumption DEF RegisterForLabel, UnregisterForLabel, TypeOK
    <3> QED BY <3>1 DEF ResultOf, NoCall
  <2>5. ASSUME NEW m \in Mailboxes, Construct(m) \/ Destruct(m) \/ Receive(m) PROVE ResultOf(t)'
    BY <2>1, <2>5 DEF Destruct, Construct, Receive
  <2>6. ASSUME NEW msg \in held, Release(msg) PROVE ResultOf(t)'
    BY <2>1, <2>6 DEF Release
  <2>7. CASE Initialize \/ UNCHANGED vars
    BY <2>1, <2>7 DEF Initialize, vars
  <2> QED BY <2>2, <2>3, <2>4, <2>5, <2>6, <2>7
          DEF CarelessNext, Next, Destroy, SendMessage, SendSignal
<1>3. ResultInv => SendResult
  BY DEF ResultInv
<1> QED BY <1>1, <1>2, <1>3, NextIsCareless, MailboxTyped, PTL DEF Spec

-----------------------------------------------------------------------------
(***************************************************************************)
(* TrueMeansDelivered, of the slots behind the loop variable.  It is       *)
(* inductive with the facts that no mailbox has received anything newer    *)
(* than the send, that slots stay as they are while the mutex is held, and *)
(* that a mailbox in a slot is not destroyed.                              *)
(***************************************************************************)
DeliveredTo(t, s) ==
  receivers[call[t].label][s] # NoMailbox => Has(receivers[call[t].label][s], call[t].id)

DeliveredBy(t) ==
  call[t].op = "send" /\ call[t].ok => \A s \in 1 .. call[t].slot - 1 : DeliveredTo(t, s)

DeliveredInv == \A t \in Threads : DeliveredBy(t)

\* What was received last is at most the current send, and so is the queue.
NothingNewer ==
  \A m \in Mailboxes : /\ last[m] <= sent
                       /\ \A i \in DOMAIN queue[m] : last[m] <= queue[m][i].id
                                                     /\ queue[m][i].id <= sent

LEMMA OrderedNothingNewer == TypeOK /\ Ordered => NothingNewer
<1> SUFFICES ASSUME TypeOK, MulticastP!IInv, NEW m \in Mailboxes
             PROVE  /\ last[m] <= sent
                    /\ \A i \in DOMAIN queue[m] : last[m] <= queue[m][i].id
                                                  /\ queue[m][i].id <= sent
  BY DEF NothingNewer, Ordered
<1>1. queue[m] \in Seq(Message) /\ DOMAIN queue[m] = 1 .. Len(queue[m])
  BY LenProperties DEF TypeOK
<1>2. Sends(queue[m]) = [i \in 1 .. Len(queue[m]) |-> queue[m][i].id]
  BY <1>1 DEF Sends
<1>3. Len(Sends(queue[m])) = Len(queue[m])
  BY <1>1, <1>2, SendsTyped, LenProperties
<1> QED BY <1>1, <1>2, <1>3 DEF MulticastP!IInv, MulticastP!InOrder

LEMMA NothingNewerHolds == Spec => []NothingNewer
BY InitOrdered, OrderedInductive, OrderedNothingNewer, CurrentSendInductive, MailboxTyped,
   NextIsCareless, PTL DEF Spec

\* A mailbox that has a message keeps it or has received it last.
LEMMA HasStays ==
  ASSUME TypeOK, NothingNewer, NEW m \in Mailboxes, Has(m, sent),
         NEW n \in Mailboxes, Receive(n)
  PROVE  Has(m, sent)'
<1>1. CASE n # m
  BY <1>1 DEF Receive, Has, TypeOK
<1>2. CASE n = m
  <2>1. queue[m] \in Seq(Message) /\ queue[m] # <<>> /\ sent \in Nat
    BY <1>2 DEF Receive, TypeOK
  <2>2. /\ Len(queue[m]) \in Nat \ {0} /\ DOMAIN queue[m] = 1 .. Len(queue[m])
        /\ Head(queue[m]) = queue[m][1]
        /\ Tail(queue[m]) \in Seq(Message) /\ Len(Tail(queue[m])) = Len(queue[m]) - 1
        /\ \A i \in 1 .. Len(queue[m]) - 1 : Tail(queue[m])[i] = queue[m][i + 1]
    BY <2>1, EmptySeq, LenProperties, HeadTailProperties
  <2>3. last'[m] = queue[m][1].id /\ queue'[m] = Tail(queue[m]) /\ sent' = sent
    BY <1>2, <2>2 DEF Receive, TypeOK
  <2>4. queue[m][1] \in Message /\ queue[m][1].id \in Nat /\ last[m] \in Nat
    <3>1. queue[m][1] \in Message
      BY <2>1, <2>2, ElementOfSeq
    <3>2. queue[m][1].id \in 1 .. MaxSends /\ last[m] \in 0 .. MaxSends
      BY <3>1 DEF Message, TypeOK
    <3> QED BY <3>1, <3>2, MailboxAssumption
  <2>5. CASE last[m] = sent
    <3>1. queue[m][1].id = sent
      BY <2>1, <2>2, <2>4, <2>5 DEF NothingNewer
    <3> QED BY <2>3, <3>1 DEF Has
  <2>6. ASSUME NEW i \in DOMAIN queue[m], queue[m][i].id = sent PROVE Has(m, sent)'
    <3>1. CASE i = 1
      BY <2>3, <2>6, <3>1 DEF Has
    <3>2. CASE i # 1
      <4>1. i - 1 \in 1 .. Len(queue[m]) - 1 /\ (i - 1) + 1 = i
        BY <2>2, <3>2
      <4>2. i - 1 \in DOMAIN Tail(queue[m])
        BY <2>2, <4>1, LenProperties
      <4>3. Tail(queue[m])[i - 1].id = sent
        BY <2>2, <2>6, <4>1
      <4> QED BY <2>3, <4>2, <4>3 DEF Has
    <3> QED BY <3>1, <3>2
  <2> QED BY <2>5, <2>6 DEF Has
<1> QED BY <1>1, <1>2

\* A message that is emplaced is in the queue, behind what was there before.
LEMMA HasEmplaced ==
  ASSUME TypeOK, NEW t \in Threads, Emplace(t), NEW m \in Mailboxes,
         m = Receiver(t) \/ Has(m, call[t].id)
  PROVE  Has(m, call[t].id)'
<1>0. call[t] \in SendCall /\ Receiver(t) \in Mailboxes /\ MessageOf(t) \in Message
  BY MessageTyped, InSend, InLoopReceiver DEF Emplace, AtEmplace, InLoop
<1> DEFINE id == call[t].id
<1>1. /\ last' = last
      /\ queue'[Receiver(t)] = Append(queue[Receiver(t)], MessageOf(t))
      /\ \A n \in Mailboxes : n # Receiver(t) => queue'[n] = queue[n]
  BY <1>0 DEF Emplace, TypeOK, historyVars
<1>2. call'[t].id = id
  BY <1>0 DEF Emplace, Advance, TypeOK, SendCall
<1>3. CASE m # Receiver(t)
  BY <1>1, <1>2, <1>3 DEF Has
<1>4. CASE m = Receiver(t)
  <2>1. queue[m] \in Seq(Message)
    BY DEF TypeOK
  <2>2. /\ Len(queue[m]) \in Nat /\ DOMAIN queue[m] = 1 .. Len(queue[m])
        /\ DOMAIN queue'[m] = 1 .. Len(queue[m]) + 1
        /\ queue'[m][Len(queue[m]) + 1] = MessageOf(t)
    BY <1>0, <1>1, <1>4, <2>1, LenProperties, AppendProperties
  <2>3. Len(queue[m]) + 1 \in DOMAIN queue'[m] /\ queue'[m][Len(queue[m]) + 1].id = id
    BY <2>2 DEF MessageOf
  <2> QED BY <1>2, <2>3 DEF Has
<1> QED BY <1>3, <1>4

LEMMA DeliveredLoop ==
  ASSUME TypeOK, NEW t \in Threads, DeliveredBy(t), Proceed(t)
  PROVE  DeliveredBy(t)'
<1>1. CASE Return(t)
  BY <1>1 DEF Return, NoCall, DeliveredBy, TypeOK
<1>2. CASE ~Return(t)
  <2>1. call[t] \in SendCall /\ InLoop(t)
    BY <1>2, InSend DEF Proceed, Skip, Allocate, Emplace, AtEmplace, EmplaceFull, InLoop
  <2>2. /\ call'[t].op = call[t].op /\ call'[t].label = call[t].label
        /\ call'[t].id = call[t].id
    BY <1>2, <2>1
       DEF Proceed, Skip, Allocate, Emplace, EmplaceFull, Advance, TypeOK, SendCall
  <2>3. (call'[t].ok => call[t].ok) /\ receivers' = receivers
    <3>1. ASSUME NEW served \in BOOLEAN, Advance(t, served) PROVE call'[t].ok => call[t].ok
      BY <2>1, <3>1 DEF Advance, TypeOK, SendCall
    <3>2. ASSUME NEW b, call' = [call EXCEPT ![t].block = b] PROVE call'[t].ok => call[t].ok
      BY <2>1, <3>2 DEF TypeOK, SendCall
    <3>3. ASSUME Skip(t) PROVE call'[t].ok => call[t].ok
      BY <2>1, <3>3 DEF Skip, TypeOK, SendCall
    <3> QED BY <1>2, <3>1, <3>2, <3>3 DEF Proceed, Skip, Allocate, Emplace, EmplaceFull
  <2>4. call'[t].slot \in {call[t].slot, call[t].slot + 1}
    BY <1>2, <2>1
       DEF Proceed, Skip, Allocate, Emplace, EmplaceFull, Advance, TypeOK, SendCall
  <2> SUFFICES ASSUME call[t].op = "send", call'[t].ok,
                      NEW s \in 1 .. call'[t].slot - 1,
                      receivers[call[t].label][s] # NoMailbox
               PROVE  Has(receivers[call[t].label][s], call[t].id)'
    BY <2>2, <2>3 DEF DeliveredBy, DeliveredTo
  <2> DEFINE n == receivers[call[t].label][s]
  <2>5. call[t].slot \in Slots /\ (s \in 1 .. call[t].slot - 1 \/ s = call[t].slot)
    BY <2>1, <2>4, MailboxAssumption DEF InLoop, Slots
  <2>6. s \in Slots /\ n \in Mailboxes
    BY <2>1, <2>5, MailboxAssumption DEF TypeOK, SendCall, Slots
  <2>7. s \in 1 .. call[t].slot - 1 => Has(n, call[t].id)
    BY <2>3 DEF DeliveredBy, DeliveredTo
  <2>8. CASE Emplace(t)
    <3>1. PICK m \in Mailboxes : m = n
      BY <2>6
    <3>2. m = Receiver(t) \/ Has(m, call[t].id)
      BY <2>5, <2>7, <3>1 DEF Receiver
    <3>3. Has(m, call[t].id)'
      BY <2>8, <3>2, HasEmplaced
    <3> QED BY <2>2, <2>3, <3>1, <3>3 DEF Has
  <2>9. CASE ~Emplace(t)
    <3>1. UNCHANGED <<queue, last>>
      BY <1>2, <2>9 DEF Proceed, Skip, Allocate, EmplaceFull, historyVars
    <3>2. s # call[t].slot
      <4>1. CASE Skip(t)
        BY <4>1 DEF Skip, Receiver
      <4>2. CASE call'[t].slot = call[t].slot
        BY <4>2, <2>5, MailboxAssumption DEF Slots
      <4>3. CASE Advance(t, FALSE)
        BY <4>3, <2>1 DEF Advance, TypeOK, SendCall
      <4> QED BY <1>2, <2>1, <2>9, <4>1, <4>2, <4>3
              DEF Proceed, Allocate, EmplaceFull, TypeOK, SendCall
    <3> QED BY <2>2, <2>5, <2>7, <2>3, <3>1, <3>2 DEF Has
  <2> QED BY <2>8, <2>9
<1> QED BY <1>1, <1>2

LEMMA DeliveredInvInductive ==
  TypeOK /\ CurrentSend /\ RegistrationsExact /\ NothingNewer /\ DeliveredInv /\ [Next]_vars
    => DeliveredInv'
<1> SUFFICES ASSUME TypeOK, CurrentSend, RegistrationsExact, NothingNewer, DeliveredInv,
                    [Next]_vars, NEW t \in Threads
             PROVE  DeliveredBy(t)'
  BY DEF DeliveredInv
<1>0. DeliveredBy(t)
  BY DEF DeliveredInv
<1>1. ASSUME NEW u \in Threads, Proceed(u) PROVE DeliveredBy(t)'
  <2>1. CASE u = t
    BY <1>0, <1>1, <2>1, DeliveredLoop
  <2>2. CASE u # t
    <3>1. call[u].op \in {"send", "signal"}
      BY <1>1 DEF Proceed, Skip, Allocate, Emplace, AtEmplace, EmplaceFull, Return, InLoop
    <3>2. call[t] = NoCall
      BY <2>2, <3>1, InSend DEF TypeOK
    <3>3. call'[t] = call[t]
      BY <1>1, <2>2 DEF Proceed, Skip, Allocate, Emplace, EmplaceFull, Return, Advance, TypeOK
    <3> QED BY <3>2, <3>3 DEF DeliveredBy, NoCall
  <2> QED BY <2>1, <2>2
<1>2. ASSUME NEW u \in Threads, NEW op \in {"send", "signal"}, NEW l, NEW n,
             StartCall(u, op, l, n)
      PROVE  DeliveredBy(t)'
  <2>1. CASE u = t
    BY <1>2, <2>1 DEF StartCall, DeliveredBy, TypeOK
  <2>2. CASE u # t
    <3>1. call'[t] = NoCall
      BY <1>2, <2>2, MailboxAssumption DEF StartCall, Lock, TypeOK
    <3> QED BY <3>1 DEF DeliveredBy, NoCall
  <2> QED BY <2>1, <2>2
<1>3. ASSUME NEW m \in Mailboxes, NEW l \in Labels,
             RegisterForLabel(m, l) \/ UnregisterForLabel(m, l)
      PROVE  DeliveredBy(t)'
  <2>1. call[t] = NoCall /\ call' = call
    BY <1>3, MailboxAssumption DEF RegisterForLabel, UnregisterForLabel, TypeOK
  <2> QED BY <2>1 DEF DeliveredBy, NoCall
<1>4. ASSUME UNCHANGED <<receivers, queue, last, call>> PROVE DeliveredBy(t)'
  BY <1>0, <1>4 DEF DeliveredBy, DeliveredTo, Has
<1>5. ASSUME NEW m \in Mailboxes, Receive(m) \/ Destroy(m) PROVE DeliveredBy(t)'
  <2>1. UNCHANGED <<receivers, call, sent, wanted>>
    BY <1>5 DEF Receive, Destroy, Destruct
  <2> SUFFICES ASSUME call[t].op = "send", call[t].ok, NEW s \in 1 .. call[t].slot - 1,
                      receivers[call[t].label][s] # NoMailbox
               PROVE  Has(receivers[call[t].label][s], call[t].id)'
    BY <2>1 DEF DeliveredBy, DeliveredTo
  <2> DEFINE n == receivers[call[t].label][s]
  <2>2. call[t] \in SendCall /\ call[t].id = sent
    BY InSend DEF CurrentSend
  <2>3. s \in Slots /\ n \in Mailboxes /\ call[t].label \in Labels
    BY <2>2, MailboxAssumption DEF TypeOK, SendCall, Slots
  <2>4. Has(n, sent)
    BY <1>0, <2>2 DEF DeliveredBy, DeliveredTo
  <2>5. CASE Receive(m)
    BY <2>1, <2>2, <2>3, <2>4, <2>5, HasStays DEF Has
  <2>6. CASE Destroy(m)
    <3>1. call[t].label \in wanted[n]
      BY <2>3 DEF RegistrationsExact
    <3>2. n # m
      BY <2>6, <3>1 DEF Destroy
    <3>3. queue'[n] = queue[n] /\ last' = last
      BY <2>3, <2>6, <3>2 DEF Destroy, Destruct, TypeOK
    <3> QED BY <2>1, <2>2, <2>4, <3>3 DEF Has
  <2> QED BY <1>5, <2>5, <2>6
<1>6. ASSUME NEW m \in Mailboxes, Construct(m) PROVE DeliveredBy(t)'
  BY <1>4, <1>6 DEF Construct, historyVars
<1>7. ASSUME NEW msg \in held, Release(msg) PROVE DeliveredBy(t)'
  BY <1>4, <1>7 DEF Release, historyVars
<1>8. CASE Initialize \/ UNCHANGED vars
  BY <1>4, <1>8 DEF Initialize, vars, historyVars
<1> QED BY <1>1, <1>2, <1>3, <1>5, <1>6, <1>7, <1>8 DEF Next, SendMessage, SendSignal

(***************************************************************************)
(* A SendMessage that returns true has put its message in the queue of     *)
(* every mailbox registered for the label, or the mailbox has received it. *)
(***************************************************************************)
THEOREM MailboxTrueMeansDelivered == Spec => []TrueMeansDelivered
<1>1. Init => DeliveredInv /\ CurrentSend
  BY DEF Init, DeliveredInv, DeliveredBy, CurrentSend, NoCall
<1>2. TypeOK /\ RegistrationsExact /\ DeliveredInv => TrueMeansDelivered
  <2> SUFFICES ASSUME TypeOK, RegistrationsExact, DeliveredInv, NEW t \in Threads,
                      call[t].op = "send", call[t].slot = MaxReceivers + 1, call[t].ok,
                      NEW m \in Mailboxes, call[t].label \in wanted[m]
               PROVE  Has(m, call[t].id)
    BY DEF TrueMeansDelivered
  <2>1. call[t].label \in Labels
    BY InSend DEF SendCall
  <2>2. PICK s \in Slots : receivers[call[t].label][s] = m
    BY <2>1 DEF RegistrationsExact
  <2>3. s \in 1 .. call[t].slot - 1 /\ m # NoMailbox
    BY MailboxAssumption DEF Slots
  <2> QED BY <2>2, <2>3 DEF DeliveredInv, DeliveredBy, DeliveredTo
<1> QED BY <1>1, <1>2, MailboxTyped, CurrentSendInductive, MailboxRegistrations,
           NothingNewerHolds, NextIsCareless, DeliveredInvInductive, PTL DEF Spec

-----------------------------------------------------------------------------
(***************************************************************************)
(* The blocks in a queue, and in the hands of the threads.                 *)
(***************************************************************************)
DataOf(q) == {q[i].data : i \in DOMAIN q} \ {NoBlock}

Distinct(q) ==
  \A i, j \in DOMAIN q : q[i].data = q[j].data /\ q[i].data # NoBlock => i = j

HandsIn(c) == {c[t].block : t \in {u \in Threads : c[u].op = "send" /\ c[u].block # NoBlock}}

\* The data of one message, as a set.
BlockOf(msg) == {msg.data} \ {NoBlock}

LEMMA DataEmpty == DataOf(<<>>) = {} /\ Distinct(<<>>)
  BY DEF DataOf, Distinct

LEMMA DataAppend ==
  ASSUME NEW q \in Seq(Message), NEW msg \in Message
  PROVE  /\ DataOf(Append(q, msg)) = DataOf(q) \cup BlockOf(msg)
         /\ Distinct(q) /\ DataOf(q) \cap BlockOf(msg) = {} => Distinct(Append(q, msg))
<1> DEFINE a == Append(q, msg)
<1>1. /\ Len(q) \in Nat /\ DOMAIN q = 1 .. Len(q)
      /\ DOMAIN a = 1 .. Len(q) + 1
      /\ \A i \in 1 .. Len(q) : a[i] = q[i]
      /\ a[Len(q) + 1] = msg
  BY AppendProperties, LenProperties
<1> HIDE DEF a
<1>2. DOMAIN a = DOMAIN q \cup {Len(q) + 1} /\ Len(q) + 1 \notin DOMAIN q
  BY <1>1
<1>3. DataOf(a) = DataOf(q) \cup BlockOf(msg)
  BY <1>1, <1>2 DEF DataOf, BlockOf
<1>4. ASSUME Distinct(q), DataOf(q) \cap BlockOf(msg) = {}
      PROVE  Distinct(a)
  <2> SUFFICES ASSUME NEW i \in DOMAIN a, NEW j \in DOMAIN a,
                      a[i].data = a[j].data, a[i].data # NoBlock
               PROVE  i = j
    BY DEF Distinct
  <2>1. \A x \in DOMAIN q : q[x].data # NoBlock => q[x].data # msg.data
    BY <1>4 DEF DataOf, BlockOf
  <2>2. CASE i \in DOMAIN q /\ j \in DOMAIN q
    BY <1>1, <1>4, <2>2 DEF Distinct
  <2>3. CASE i \in DOMAIN q /\ j = Len(q) + 1
    BY <1>1, <2>1, <2>3
  <2>4. CASE i = Len(q) + 1 /\ j \in DOMAIN q
    BY <1>1, <2>1, <2>4
  <2> QED
    BY <1>2, <2>2, <2>3, <2>4
<1> QED
  BY <1>3, <1>4 DEF a

LEMMA DataTail ==
  ASSUME NEW q \in Seq(Message), q # <<>>
  PROVE  /\ DataOf(q) = DataOf(Tail(q)) \cup BlockOf(Head(q))
         /\ Distinct(q) => /\ Distinct(Tail(q))
                           /\ DataOf(Tail(q)) \cap BlockOf(Head(q)) = {}
<1> DEFINE r == Tail(q)
<1>1. /\ Len(q) \in Nat \ {0} /\ DOMAIN q = 1 .. Len(q)
      /\ DOMAIN r = 1 .. Len(q) - 1
      /\ \A i \in 1 .. Len(q) - 1 : r[i] = q[i + 1]
      /\ Head(q) = q[1]
  <2>1. Len(q) \in Nat \ {0} /\ DOMAIN q = 1 .. Len(q)
    BY EmptySeq, LenProperties
  <2>2. r \in Seq(Message) /\ Len(r) = Len(q) - 1 /\ \A i \in 1 .. Len(r) : r[i] = q[i + 1]
    BY HeadTailProperties
  <2>3. DOMAIN r = 1 .. Len(r)
    BY <2>2, LenProperties
  <2>4. Head(q) = q[1]
    BY HeadTailProperties
  <2> QED
    BY <2>1, <2>2, <2>3, <2>4
<1> HIDE DEF r
<1>2. \A i \in DOMAIN q : i = 1 \/ (i - 1 \in DOMAIN r /\ i = (i - 1) + 1)
  BY <1>1
<1>3. \A i \in DOMAIN r : i + 1 \in DOMAIN q /\ i + 1 # 1 /\ r[i] = q[i + 1]
  BY <1>1
<1>4. 1 \in DOMAIN q
  BY <1>1
<1>5. DataOf(q) \subseteq DataOf(r) \cup BlockOf(Head(q))
  <2> SUFFICES ASSUME NEW i \in DOMAIN q, q[i].data # NoBlock
               PROVE  q[i].data \in DataOf(r) \cup BlockOf(Head(q))
    BY DEF DataOf
  <2>1. CASE i = 1
    BY <1>1, <2>1 DEF BlockOf
  <2>2. ASSUME NEW j \in DOMAIN r, i = j + 1
        PROVE  q[i].data \in DataOf(r)
    BY <1>3, <2>2 DEF DataOf
  <2> QED
    BY <1>2, <2>1, <2>2
<1>6. DataOf(r) \cup BlockOf(Head(q)) \subseteq DataOf(q)
  BY <1>1, <1>3, <1>4 DEF DataOf, BlockOf
<1>7. ASSUME Distinct(q)
      PROVE  Distinct(r)
  <2> SUFFICES ASSUME NEW i \in DOMAIN r, NEW j \in DOMAIN r,
                      r[i].data = r[j].data, r[i].data # NoBlock
               PROVE  i = j
    BY DEF Distinct
  <2>1. i + 1 = j + 1
    BY <1>3, <1>7 DEF Distinct
  <2> QED
    BY <1>1, <2>1
<1>8. ASSUME Distinct(q)
      PROVE  DataOf(r) \cap BlockOf(Head(q)) = {}
  <2> SUFFICES ASSUME NEW i \in DOMAIN r, r[i].data # NoBlock, r[i].data = Head(q).data
               PROVE  FALSE
    BY DEF DataOf, BlockOf
  <2> QED
    BY <1>1, <1>3, <1>4, <1>8 DEF Distinct
<1> QED
  BY <1>5, <1>6, <1>7, <1>8 DEF r

(***************************************************************************)
(* At most one thread is in a send: the blocks in hand are its block.      *)
(***************************************************************************)
LEMMA HandsOfOne ==
  ASSUME NEW c \in [Threads -> SendCall \cup {NoCall, StuckCall}],
         NEW t \in Threads, \A u \in Threads : c[u] # NoCall => u = t
  PROVE  HandsIn(c) = IF c[t].op = "send" /\ c[t].block # NoBlock THEN {c[t].block} ELSE {}
<1>1. \A u \in Threads : c[u].op = "send" => u = t
  BY DEF NoCall
<1> QED
  BY <1>1 DEF HandsIn

-----------------------------------------------------------------------------
(***************************************************************************)
(* The live blocks v are in hand H, in the queues D, in use U or lost L,   *)
(* each in one of these only.  What the steps of the mailboxes do to such  *)
(* a partition.                                                            *)
(***************************************************************************)
Partition(v, H, D, U, L) ==
  /\ H \cap (U \cup L) = {} /\ U \cap L = {}
  /\ \A m \in Mailboxes : D[m] \cap (H \cup U \cup L) = {}
  /\ \A m, n \in Mailboxes : m # n => D[m] \cap D[n] = {}
  /\ v = H \cup U \cup L \cup UNION {D[m] : m \in Mailboxes}

\* allocate
LEMMA PartitionTake ==
  ASSUME NEW v, NEW D, NEW U, NEW L, NEW b, Partition(v, {}, D, U, L), b \notin v
  PROVE  Partition(v \cup {b}, {b}, D, U, L)
  BY DEF Partition

\* emplace
LEMMA PartitionEmplace ==
  ASSUME NEW v, NEW H, NEW D, NEW U, NEW L, NEW m \in Mailboxes, NEW E,
         E[m] = D[m] \cup H, \A n \in Mailboxes : n # m => E[n] = D[n],
         Partition(v, H, D, U, L)
  PROVE  Partition(v, {}, E, U, L)
<1>1. UNION {E[n] : n \in Mailboxes} = H \cup UNION {D[n] : n \in Mailboxes}
  OBVIOUS
<1>2. \A n \in Mailboxes : E[n] \cap (U \cup L) = {}
  BY DEF Partition
<1>3. \A x, y \in Mailboxes : x # y => E[x] \cap E[y] = {}
  BY DEF Partition
<1> QED
  BY <1>1, <1>2, <1>3 DEF Partition

\* emplace into a full queue
LEMMA PartitionLose ==
  ASSUME NEW v, NEW H, NEW D, NEW U, NEW L, Partition(v, H, D, U, L)
  PROVE  Partition(v, {}, D, U, L \cup H)
  BY DEF Partition

\* pop, of a message with the blocks B
LEMMA PartitionReceive ==
  ASSUME NEW v, NEW H, NEW D, DOMAIN D = Mailboxes, NEW U, NEW L, NEW m \in Mailboxes,
         NEW A, NEW B, D[m] = A \cup B, A \cap B = {},
         NEW E, E = [D EXCEPT ![m] = A],
         Partition(v, H, D, U, L)
  PROVE  Partition(v, H, E, U \cup B, L)
<1>1. E[m] = A /\ \A n \in Mailboxes : n # m => E[n] = D[n]
  OBVIOUS
<1>2. B \cup UNION {E[n] : n \in Mailboxes} = UNION {D[n] : n \in Mailboxes}
  BY <1>1
<1>3. B \cap (H \cup U \cup L) = {} /\ \A n \in Mailboxes : n # m => B \cap D[n] = {}
  BY DEF Partition
<1>4. \A n \in Mailboxes : E[n] \cap (H \cup (U \cup B) \cup L) = {}
  BY <1>1, <1>3 DEF Partition
<1>5. \A x, y \in Mailboxes : x # y => E[x] \cap E[y] = {}
  BY <1>1 DEF Partition
<1>6. v = H \cup (U \cup B) \cup L \cup UNION {E[n] : n \in Mailboxes}
  BY <1>2 DEF Partition
<1> QED
  BY <1>3, <1>4, <1>5, <1>6 DEF Partition

\* ~Mailbox
LEMMA PartitionDestruct ==
  ASSUME NEW v, NEW H, NEW D, DOMAIN D = Mailboxes, NEW U, NEW L, NEW m \in Mailboxes,
         NEW E, E = [D EXCEPT ![m] = {}],
         Partition(v, H, D, U, L)
  PROVE  Partition(v, H, E, U, L \cup D[m])
<1>1. E[m] = {} /\ \A n \in Mailboxes : n # m => E[n] = D[n]
  OBVIOUS
<1>2. D[m] \cup UNION {E[n] : n \in Mailboxes} = UNION {D[n] : n \in Mailboxes}
  BY <1>1
<1>3. \A n \in Mailboxes : E[n] \cap (H \cup U \cup (L \cup D[m])) = {}
  BY <1>1 DEF Partition
<1>4. \A x, y \in Mailboxes : x # y => E[x] \cap E[y] = {}
  BY <1>1 DEF Partition
<1>5. v = H \cup U \cup (L \cup D[m]) \cup UNION {E[n] : n \in Mailboxes}
  BY <1>2 DEF Partition
<1>6. H \cap (U \cup (L \cup D[m])) = {} /\ U \cap (L \cup D[m]) = {}
  BY DEF Partition
<1> QED
  BY <1>3, <1>4, <1>5, <1>6 DEF Partition

\* free, of the blocks B of a message
LEMMA PartitionRelease ==
  ASSUME NEW v, NEW H, NEW D, NEW U, NEW L, NEW A, NEW B, U = A \cup B, A \cap B = {},
         Partition(v, H, D, U, L)
  PROVE  Partition(v \ B, H, D, A, L)
<1>1. B \cap H = {} /\ B \cap L = {} /\ \A m \in Mailboxes : B \cap D[m] = {}
  BY DEF Partition
<1>2. v \ B = H \cup A \cup L \cup UNION {D[m] : m \in Mailboxes}
  BY <1>1 DEF Partition
<1> QED
  BY <1>2 DEF Partition

-----------------------------------------------------------------------------
Contents == [m \in Mailboxes |-> DataOf(queue[m])]

(***************************************************************************)
(* A block is in hand from its allocation to its emplace, which is for the *)
(* same registered receiver.                                               *)
(***************************************************************************)
HandInv ==
  \A t \in Threads : call[t].op \in {"send", "signal"} /\ call[t].block # NoBlock =>
    call[t].op = "send" /\ InLoop(t) /\ Receiver(t) # NoMailbox

(***************************************************************************)
(* The inductive invariant behind OneOwner and BlocksAccounted.            *)
(***************************************************************************)
BlocksInv ==
  /\ Partition(live, HandsIn(call), Contents, InUse, lost)
  /\ \A m \in Mailboxes : Distinct(queue[m])
  /\ \A x, y \in held : x.data = y.data => x = y
  /\ \A x \in held : x.data # NoBlock
  /\ HandInv

(***************************************************************************)
(* The block in hand during the loop, before and after a receiver.         *)
(***************************************************************************)
LEMMA HandsInLoop ==
  ASSUME TypeOK, BlocksInv, NEW t \in Threads, InLoop(t)
  PROVE  HandsIn(call) = {call[t].block} \ {NoBlock}
<1>1. call[t].op \in {"send", "signal"} /\ mutex = t
  BY InSend DEF InLoop
<1>2. call \in [Threads -> SendCall \cup {NoCall, StuckCall}]
      /\ \A u \in Threads : call[u] # NoCall => u = t
  BY <1>1 DEF TypeOK
<1>3. HandsIn(call) = IF call[t].op = "send" /\ call[t].block # NoBlock
                        THEN {call[t].block} ELSE {}
  BY <1>2, HandsOfOne
<1>4. call[t].op = "signal" => call[t].block = NoBlock
  BY DEF BlocksInv, HandInv
<1> QED
  BY <1>1, <1>3, <1>4

LEMMA HandsAfter ==
  ASSUME TypeOK, TypeOK', NEW t \in Threads, InLoop(t), UNCHANGED mutex,
         NEW served \in BOOLEAN, Advance(t, served)
  PROVE  HandsIn(call') = {} /\ HandInv'
<1>1. call[t] \in SendCall /\ mutex = t
  BY InSend DEF InLoop
<1>2. call'[t].block = NoBlock
  BY <1>1 DEF Advance, TypeOK, SendCall
<1>3. call' \in [Threads -> SendCall \cup {NoCall, StuckCall}]
      /\ \A u \in Threads : call'[u] # NoCall => u = t
  BY <1>1 DEF TypeOK
<1>4. HandsIn(call') = IF call'[t].op = "send" /\ call'[t].block # NoBlock
                         THEN {call'[t].block} ELSE {}
  BY <1>3, HandsOfOne
<1>5. HandInv'
  BY <1>2, <1>3 DEF HandInv, NoCall
<1> QED
  BY <1>2, <1>4, <1>5

(***************************************************************************)
(* Steps that move no block.                                               *)
(***************************************************************************)
LEMMA NoBlockMoves ==
  ASSUME BlocksInv, UNCHANGED <<queue, held, lost, live>>, HandsIn(call') = HandsIn(call),
         HandInv'
  PROVE  BlocksInv'
<1>1. Contents' = Contents /\ InUse' = InUse
  BY DEF Contents, InUse
<1> QED
  BY <1>1 DEF BlocksInv

LEMMA CallUnchanged ==
  ASSUME TypeOK, BlocksInv, UNCHANGED <<queue, held, lost, live, call>>,
         UNCHANGED receivers \/ mutex = NoThread
  PROVE  BlocksInv'
<1>1. HandsIn(call') = HandsIn(call)
  BY Zenon
<1>2. HandInv'
  <2>1. CASE UNCHANGED receivers
    BY <2>1 DEF BlocksInv, HandInv, InLoop, Receiver
  <2>2. CASE mutex = NoThread
    <3>1. \A t \in Threads : call'[t] = NoCall
      BY <2>2, MailboxAssumption DEF TypeOK
    <3> QED
      BY <3>1 DEF HandInv, NoCall
  <2> QED
    BY <2>1, <2>2
<1> QED
  BY <1>1, <1>2, NoBlockMoves

(***************************************************************************)
(* A send begins and ends with empty hands.                                *)
(***************************************************************************)
LEMMA BlocksStartCall ==
  ASSUME TypeOK, TypeOK', BlocksInv, NEW t \in Threads, NEW op, NEW l, NEW n,
         StartCall(t, op, l, n)
  PROVE  BlocksInv'
<1>1. mutex' = t /\ mutex = NoThread
  BY DEF StartCall, Lock
<1>2. \A u \in Threads : call[u] = NoCall
  BY <1>1, MailboxAssumption DEF TypeOK
<1>3. HandsIn(call) = {}
  BY <1>2 DEF HandsIn, NoCall
<1>4. call'[t].block = NoBlock
  BY DEF StartCall, TypeOK
<1>5. call' \in [Threads -> SendCall \cup {NoCall, StuckCall}]
      /\ \A u \in Threads : call'[u] # NoCall => u = t
  BY <1>1 DEF TypeOK
<1>6. HandsIn(call') = {}
  BY <1>4, <1>5, HandsOfOne
<1>7. HandInv'
  BY <1>4, <1>5 DEF HandInv, NoCall
<1>8. UNCHANGED <<queue, held, lost, live>>
  BY DEF StartCall, poolVars, historyVars
<1> QED
  BY <1>3, <1>6, <1>7, <1>8, NoBlockMoves

LEMMA BlocksReturn ==
  ASSUME TypeOK, TypeOK', BlocksInv, NEW t \in Threads, Return(t)
  PROVE  BlocksInv'
<1>1. call[t] \in SendCall /\ mutex = t
  BY InSend DEF Return
<1>2. call[t].slot \notin Slots
  BY MailboxAssumption DEF Return, Slots
<1>3. call[t].block = NoBlock
  BY <1>2 DEF BlocksInv, HandInv, InLoop, Return
<1>4. call \in [Threads -> SendCall \cup {NoCall, StuckCall}]
      /\ \A u \in Threads : call[u] # NoCall => u = t
  BY <1>1 DEF TypeOK
<1>5. HandsIn(call) = {}
  BY <1>3, <1>4, HandsOfOne
<1>6. \A u \in Threads : call'[u] = NoCall
  BY MailboxAssumption DEF Return, TypeOK
<1>7. HandsIn(call') = {} /\ HandInv'
  BY <1>6 DEF HandsIn, HandInv, NoCall
<1>8. UNCHANGED <<queue, held, lost, live>>
  BY DEF Return, poolVars, historyVars
<1> QED
  BY <1>5, <1>7, <1>8, NoBlockMoves

(***************************************************************************)
(* The loop passes a slot without a receiver with empty hands.             *)
(***************************************************************************)
LEMMA BlocksSkip ==
  ASSUME TypeOK, TypeOK', BlocksInv, NEW t \in Threads, Skip(t)
  PROVE  BlocksInv'
<1>1. call[t] \in SendCall /\ call[t].op \in {"send", "signal"} /\ mutex = t
  BY InSend DEF Skip, InLoop
<1>2. call[t].block = NoBlock
  BY <1>1 DEF Skip, BlocksInv, HandInv
<1>3. call'[t].op = call[t].op /\ call'[t].block = NoBlock
  BY <1>1, <1>2 DEF Skip, TypeOK, SendCall
<1>4. call \in [Threads -> SendCall \cup {NoCall, StuckCall}]
      /\ \A u \in Threads : call[u] # NoCall => u = t
  BY <1>1 DEF TypeOK
<1>5. call' \in [Threads -> SendCall \cup {NoCall, StuckCall}]
      /\ \A u \in Threads : call'[u] # NoCall => u = t
  BY <1>1 DEF Skip, TypeOK
<1>6. HandsIn(call) = {} /\ HandsIn(call') = {}
  BY <1>2, <1>3, <1>4, <1>5, HandsOfOne
<1>7. HandInv'
  BY <1>3, <1>5 DEF HandInv, NoCall
<1>8. UNCHANGED <<queue, held, lost, live>>
  BY DEF Skip, poolVars, historyVars
<1> QED
  BY <1>6, <1>7, <1>8, NoBlockMoves

-----------------------------------------------------------------------------
(***************************************************************************)
(* alloc takes a block nobody has.                                         *)
(***************************************************************************)
LEMMA BlocksAllocate ==
  ASSUME TypeOK, TypeOK', BlocksInv, NEW t \in Threads, Allocate(t)
  PROVE  BlocksInv'
<1>1. InLoop(t) /\ call[t] \in SendCall /\ call[t].op = "send" /\ mutex = t
      /\ call[t].block = NoBlock
  BY InSend DEF Allocate, InLoop
<1>2. HandsIn(call) = {}
  BY <1>1, HandsInLoop
<1>3. UNCHANGED <<mutex, receivers, queue, held, lost>>
  BY DEF Allocate, historyVars
<1>4. CASE Advance(t, FALSE) /\ UNCHANGED poolVars
  <2>1. HandsIn(call') = {} /\ HandInv'
    BY <1>1, <1>3, <1>4, HandsAfter
  <2> QED
    BY <1>2, <1>3, <1>4, <2>1, NoBlockMoves DEF poolVars
<1>5. ASSUME NEW b \in AllBlocks, Take(PoolFor(call[t].size), b),
             call' = [call EXCEPT ![t].block = b]
      PROVE  BlocksInv'
  <2>1. b \notin live /\ live' = live \cup {b} /\ b # NoBlock
    BY <1>5, MailboxAssumption DEF Take
  <2>2. /\ call'[t].op = "send" /\ call'[t].block = b
        /\ call'[t].label = call[t].label /\ call'[t].slot = call[t].slot
    BY <1>1, <1>5 DEF TypeOK, SendCall
  <2>3. call' \in [Threads -> SendCall \cup {NoCall, StuckCall}]
        /\ \A u \in Threads : call'[u] # NoCall => u = t
    BY <1>1, <1>3 DEF TypeOK
  <2>4. HandsIn(call') = {b}
    BY <2>1, <2>2, <2>3, HandsOfOne
  <2>5. HandInv'
    BY <1>1, <1>3, <2>2, <2>3 DEF HandInv, NoCall, InLoop, Receiver, Allocate
  <2>6. Contents' = Contents /\ InUse' = InUse
    BY <1>3 DEF Contents, InUse
  <2>7. Partition(live, {}, Contents, InUse, lost)
    BY <1>2 DEF BlocksInv
  <2>8. Partition(live', HandsIn(call'), Contents', InUse', lost')
    BY <1>3, <2>1, <2>4, <2>6, <2>7, PartitionTake
  <2> QED
    BY <1>3, <2>5, <2>8 DEF BlocksInv
<1> QED
  BY <1>4, <1>5 DEF Allocate

LEMMA BlocksEmplace ==
  ASSUME TypeOK, TypeOK', BlocksInv, NEW t \in Threads, Emplace(t)
  PROVE  BlocksInv'
<1>0. PICK m \in Mailboxes : m = Receiver(t)
  BY InLoopReceiver DEF Emplace, AtEmplace
<1>1. InLoop(t) /\ MessageOf(t) \in Message
  BY MessageTyped DEF Emplace, AtEmplace
<1> DEFINE H == HandsIn(call)
<1>2. H = BlockOf(MessageOf(t))
  BY <1>1, HandsInLoop DEF MessageOf, BlockOf
<1>3. UNCHANGED <<mutex, held, lost, live>>
      /\ queue' = [queue EXCEPT ![m] = Append(queue[m], MessageOf(t))] /\ Advance(t, TRUE)
  BY <1>0 DEF Emplace, poolVars, historyVars
<1>4. HandsIn(call') = {} /\ HandInv'
  BY <1>1, <1>3, HandsAfter
<1>5. queue[m] \in Seq(Message) /\ DOMAIN queue = Mailboxes
  BY <1>1 DEF TypeOK
<1> HIDE DEF H
<1>6. Distinct(queue[m]) /\ DataOf(queue[m]) \cap H = {}
  BY <1>1 DEF BlocksInv, Partition, Contents, H
<1>7. /\ DataOf(Append(queue[m], MessageOf(t))) = DataOf(queue[m]) \cup H
      /\ Distinct(Append(queue[m], MessageOf(t)))
  BY <1>1, <1>2, <1>5, <1>6, DataAppend
<1>8. \A n \in Mailboxes : Distinct(queue'[n])
  BY <1>1, <1>3, <1>5, <1>7 DEF BlocksInv
<1>9. /\ Contents'[m] = Contents[m] \cup H
      /\ \A n \in Mailboxes : n # m => Contents'[n] = Contents[n]
  BY <1>1, <1>3, <1>5, <1>7 DEF Contents
<1>10. Partition(live, H, Contents, InUse, lost)
  BY DEF BlocksInv, H
<1>11. Partition(live, {}, Contents', InUse, lost)
  BY <1>9, <1>10, PartitionEmplace
<1>12. InUse' = InUse
  BY <1>3 DEF InUse
<1> QED
  BY <1>3, <1>4, <1>8, <1>11, <1>12 DEF BlocksInv

LEMMA BlocksEmplaceFull ==
  ASSUME TypeOK, TypeOK', BlocksInv, NEW t \in Threads, EmplaceFull(t)
  PROVE  BlocksInv'
<1>1. InLoop(t)
  BY DEF EmplaceFull, AtEmplace
<1>2. HandsIn(call) = {call[t].block} \ {NoBlock}
  BY <1>1, HandsInLoop
<1>3. UNCHANGED <<mutex, queue, held, live>> /\ Advance(t, FALSE)
      /\ lost' = lost \cup ({call[t].block} \ {NoBlock})
  BY DEF EmplaceFull, poolVars
<1>4. HandsIn(call') = {} /\ HandInv'
  BY <1>1, <1>3, HandsAfter
<1>5. Contents' = Contents /\ InUse' = InUse
  BY <1>3 DEF Contents, InUse
<1>6. Partition(live, {}, Contents, InUse, lost')
  BY <1>2, <1>3, PartitionLose DEF BlocksInv
<1> QED
  BY <1>3, <1>4, <1>5, <1>6 DEF BlocksInv

-----------------------------------------------------------------------------
(***************************************************************************)
(* The receivers: what they pop is in use until they release it.           *)
(***************************************************************************)
LEMMA SameHands ==
  ASSUME BlocksInv, UNCHANGED <<call, receivers>>
  PROVE  HandsIn(call') = HandsIn(call) /\ HandInv'
<1>1. HandsIn(call') = HandsIn(call)
  BY Zenon
<1> QED
  BY <1>1 DEF BlocksInv, HandInv, InLoop, Receiver

LEMMA BlocksReceive ==
  ASSUME TypeOK, BlocksInv, NEW m \in Mailboxes, Receive(m)
  PROVE  BlocksInv'
<1> DEFINE q == queue[m]
           B == BlockOf(Head(q))
<1>1. q \in Seq(Message) /\ q # <<>> /\ DOMAIN queue = Mailboxes
  BY DEF Receive, TypeOK
<1>2. UNCHANGED <<receivers, call, live, lost>> /\ queue' = [queue EXCEPT ![m] = Tail(q)]
      /\ held' = held \cup {msg \in {Head(q)} : msg.data # NoBlock}
  BY DEF Receive, poolVars
<1>3. HandsIn(call') = HandsIn(call) /\ HandInv'
  BY <1>2, SameHands
<1>4. InUse' = InUse \cup B
  BY <1>2 DEF InUse, BlockOf
<1> HIDE DEF q
<1>5. Distinct(q) /\ q = queue[m]
  BY DEF BlocksInv, q
<1>6. DataOf(q) = DataOf(Tail(q)) \cup B /\ Distinct(Tail(q)) /\ DataOf(Tail(q)) \cap B = {}
  BY <1>1, <1>5, DataTail
<1>7. \A n \in Mailboxes : Distinct(queue'[n])
  BY <1>1, <1>2, <1>6 DEF BlocksInv
<1>8. Contents' = [Contents EXCEPT ![m] = DataOf(Tail(q))] /\ Contents[m] = DataOf(q)
  BY <1>1, <1>2, <1>5 DEF Contents
<1>9. DOMAIN Contents = Mailboxes /\ Partition(live, HandsIn(call), Contents, InUse, lost)
  BY DEF BlocksInv, Contents
<1>10. Partition(live, HandsIn(call), Contents', InUse \cup B, lost)
  BY <1>6, <1>8, <1>9, PartitionReceive
<1>11. B \cap InUse = {}
  BY <1>6, <1>8, <1>9 DEF Partition
<1>12. \A x \in held : x.data # Head(q).data
  BY <1>11 DEF BlocksInv, InUse, BlockOf
<1>13. /\ \A x, y \in held' : x.data = y.data => x = y
       /\ \A x \in held' : x.data # NoBlock
  BY <1>2, <1>12 DEF BlocksInv
<1> QED
  BY <1>2, <1>3, <1>4, <1>7, <1>10, <1>13 DEF BlocksInv

LEMMA BlocksRelease ==
  ASSUME TypeOK, BlocksInv, NEW msg \in held, Release(msg)
  PROVE  BlocksInv'
<1> DEFINE A == {x.data : x \in held \ {msg}}
<1>1. UNCHANGED <<receivers, call, queue, lost>> /\ held' = held \ {msg}
      /\ live' = live \ {msg.data}
  BY DEF Release, GiveBack, historyVars
<1>2. HandsIn(call') = HandsIn(call) /\ HandInv'
  BY <1>1, SameHands
<1>3. Contents' = Contents /\ InUse' = A
  BY <1>1 DEF Contents, InUse
<1>4. InUse = A \cup {msg.data}
  BY DEF InUse
<1>5. A \cap {msg.data} = {}
  BY DEF BlocksInv
<1> HIDE DEF A
<1>6. Partition(live \ {msg.data}, HandsIn(call), Contents, A, lost)
  BY <1>4, <1>5, PartitionRelease DEF BlocksInv
<1> QED
  BY <1>1, <1>2, <1>3, <1>6 DEF BlocksInv

LEMMA BlocksDestruct ==
  ASSUME TypeOK, BlocksInv, NEW m \in Mailboxes, Destruct(m)
  PROVE  BlocksInv'
<1>1. UNCHANGED <<receivers, call, live, held>> /\ queue' = [queue EXCEPT ![m] = <<>>]
      /\ lost' = lost \cup Contents[m] /\ DOMAIN queue = Mailboxes
  BY DEF Destruct, poolVars, Queued, DataOf, Contents, TypeOK
<1>2. HandsIn(call') = HandsIn(call) /\ HandInv'
  BY <1>1, SameHands
<1>3. Contents' = [Contents EXCEPT ![m] = {}]
  BY <1>1, DataEmpty DEF Contents
<1>4. DOMAIN Contents = Mailboxes /\ Partition(live, HandsIn(call), Contents, InUse, lost)
  BY DEF BlocksInv, Contents
<1>5. Partition(live, HandsIn(call), Contents', InUse, lost')
  BY <1>1, <1>3, <1>4, PartitionDestruct
<1>6. \A n \in Mailboxes : Distinct(queue'[n])
  BY <1>1, DataEmpty DEF BlocksInv
<1>7. InUse' = InUse
  BY <1>1 DEF InUse
<1> QED
  BY <1>1, <1>2, <1>5, <1>6, <1>7 DEF BlocksInv

-----------------------------------------------------------------------------
LEMMA BlocksInvInductive == TypeOK /\ BlocksInv /\ [CarelessNext]_vars => BlocksInv'
<1> SUFFICES ASSUME TypeOK, BlocksInv, [CarelessNext]_vars PROVE BlocksInv'
  OBVIOUS
<1>0. TypeOK'
  BY TypeOKInductive
<1>1. CASE Initialize
  BY <1>1, CallUnchanged DEF Initialize, historyVars
<1>2. ASSUME NEW m \in Mailboxes, NEW l \in Labels,
             RegisterForLabel(m, l) \/ UnregisterForLabel(m, l)
      PROVE  BlocksInv'
  BY <1>2, CallUnchanged DEF RegisterForLabel, UnregisterForLabel, poolVars
<1>3. ASSUME NEW m \in Mailboxes, Construct(m) PROVE BlocksInv'
  BY <1>3, CallUnchanged DEF Construct, poolVars, historyVars
<1>5. ASSUME NEW t \in Threads, NEW op, NEW l, NEW n, StartCall(t, op, l, n)
      PROVE  BlocksInv'
  BY <1>0, <1>5, BlocksStartCall
<1>6. ASSUME NEW t \in Threads, Proceed(t) PROVE BlocksInv'
  BY <1>0, <1>6, BlocksSkip, BlocksAllocate, BlocksEmplace, BlocksEmplaceFull, BlocksReturn
     DEF Proceed
<1>7. CASE UNCHANGED vars
  BY <1>7, CallUnchanged DEF vars, poolVars, historyVars
<1> QED
  BY <1>1, <1>2, <1>3, <1>5, <1>6, <1>7, BlocksReceive, BlocksRelease, BlocksDestruct
     DEF CarelessNext, Next, Destroy, SendMessage, SendSignal

LEMMA InitBlocks == Init => BlocksInv
<1> SUFFICES ASSUME Init PROVE BlocksInv
  OBVIOUS
<1>1. HandsIn(call) = {} /\ HandInv
  BY DEF Init, NoCall, HandsIn, HandInv
<1>2. InUse = {} /\ \A m \in Mailboxes : Contents[m] = {} /\ Distinct(queue[m])
  BY DataEmpty DEF Init, InUse, Contents
<1>3. UNION {Contents[m] : m \in Mailboxes} = {}
  BY <1>2
<1> QED
  BY <1>1, <1>2, <1>3 DEF Init, BlocksInv, Partition

LEMMA BlocksInvHolds == Spec => []BlocksInv
BY InitBlocks, NextIsCareless, BlocksInvInductive, MailboxTyped, PTL DEF Spec

(***************************************************************************)
(* The names Mailbox gives to the four places of a block.                  *)
(***************************************************************************)
LEMMA Places ==
  /\ InHand = HandsIn(call)
  /\ \A m \in Mailboxes : Queued(m) = Contents[m]
  /\ InQueues = UNION {Contents[m] : m \in Mailboxes}
<1>1. InHand = HandsIn(call)
  BY DEF InHand, Sending, HandsIn
<1>2. \A m \in Mailboxes : Queued(m) = Contents[m]
  BY DEF Queued, Contents, DataOf
<1> QED
  BY <1>1, <1>2 DEF InQueues

LEMMA BlocksOwned == TypeOK /\ BlocksInv => OneOwner
<1> SUFFICES ASSUME TypeOK, BlocksInv PROVE OneOwner
  OBVIOUS
<1> DEFINE H == HandsIn(call)
<1>1. Partition(live, H, Contents, InUse, lost)
  BY DEF BlocksInv
<1>2. \A t, u \in Sending : t = u
  BY InSend DEF Sending
<1>3. ASSUME NEW m \in Mailboxes, NEW n \in Mailboxes, NEW i \in DOMAIN queue[m],
             NEW j \in DOMAIN queue[n], queue[m][i].data = queue[n][j].data,
             queue[m][i].data # NoBlock
      PROVE  m = n /\ i = j
  <2>1. queue[m][i].data \in Contents[m] /\ queue[n][j].data \in Contents[n]
    BY <1>3 DEF Contents, DataOf
  <2>2. m = n
    BY <1>1, <1>3, <2>1 DEF Partition
  <2> QED
    BY <1>3, <2>2 DEF BlocksInv, Distinct
<1>4. H \cap (InQueues \cup InUse \cup lost) = {} /\ InQueues \cap (InUse \cup lost) = {}
      /\ InUse \cap lost = {}
  BY <1>1, Places DEF Partition
<1> QED
  BY <1>2, <1>3, <1>4, Places DEF OneOwner, BlocksInv

LEMMA BlocksPlaced == BlocksInv => BlocksAccounted
BY Places DEF BlocksInv, Partition, BlocksAccounted

(***************************************************************************)
(* No block ever has two owners: what a sender fills, a queue holds and a  *)
(* receiver reads are different blocks, whatever threads and mailboxes do. *)
(***************************************************************************)
THEOREM MailboxOneOwner == Spec => []OneOwner
BY BlocksOwned, BlocksInvHolds, MailboxTyped, PTL

(***************************************************************************)
(* Every block that was allocated and not freed is with a sender, in a     *)
(* queue, with a receiver, or was lost to a full queue or a destruction.   *)
(***************************************************************************)
THEOREM MailboxBlocksAccounted == Spec => []BlocksAccounted
BY BlocksPlaced, BlocksInvHolds, PTL

-----------------------------------------------------------------------------
(***************************************************************************)
(* The two pools: their counts are exact and the mailboxes keep to         *)
(* BlockPool, if no size that is sent is truncated by the 16 bits of       *)
(* Message::m_size.                                                        *)
(***************************************************************************)
\* The largest block is within the range of m_size.
SizesKept == EltSize["large"] < SizeMod

\* The blocks that are out of pool p.
Out(p) == live \cap PoolBlocks[p]

\* A message is as SendMessage made it: of a size that was sent, with a block
\* of the pool that is for this size.
Placed(msg) ==
  msg.data # NoBlock =>
    msg.size \in Sizes /\ msg.data \in PoolBlocks[PoolFor(msg.size)]

(***************************************************************************)
(* The inductive invariant behind PoolExact, PutFits and UsesPools.        *)
(***************************************************************************)
SendsPlaced ==
  \A t \in Threads : call[t].op = "send" =>
    /\ initialized
    /\ call[t].size \in Sizes /\ call[t].size <= EltSize["large"]
    /\ call[t].block # NoBlock => call[t].block \in PoolBlocks[PoolFor(call[t].size)]

MessagesPlaced ==
  /\ \A m \in Mailboxes : \A i \in DOMAIN queue[m] : Placed(queue[m][i])
  /\ \A msg \in held : Placed(msg)

PoolInv ==
  /\ ~initialized => live = {}
  /\ PoolExact
  /\ SendsPlaced
  /\ MessagesPlaced

-----------------------------------------------------------------------------
LEMMA PoolTyped ==
  ASSUME TypeOK
  PROVE  /\ \A n : PoolFor(n) \in Pools
         /\ \A p \in Pools : /\ EltSize[p] \in Nat /\ PoolCap[p] \in Nat
                             /\ available[p] \in Nat
                             /\ IsFiniteSet(Out(p)) /\ Cardinality(Out(p)) \in Nat
                             /\ \A b \in PoolBlocks[p] : b \in AllBlocks
<1>1. \A p \in Pools : IsFiniteSet(Out(p))
  BY MailboxAssumption, FS_Subset DEF Out
<1>2. \A p \in Pools : Cardinality(Out(p)) \in Nat
  BY <1>1, FS_CardinalityType
<1> QED
  BY <1>1, <1>2, MailboxAssumption DEF PoolFor, Pools, TypeOK, AllBlocks

\* What a block more or less does to the sets of the two pools.
LEMMA OutAdd ==
  ASSUME TypeOK, NEW p \in Pools, NEW b \in PoolBlocks[p] \ live, live' = live \cup {b}
  PROVE  /\ Cardinality(Out(p)') = Cardinality(Out(p)) + 1
         /\ \A r \in Pools : r # p => Out(r)' = Out(r)
<1>1. Out(p)' = Out(p) \cup {b} /\ b \notin Out(p)
  BY DEF Out
<1>2. Cardinality(Out(p)') = Cardinality(Out(p)) + 1
  BY <1>1, PoolTyped, FS_AddElement
<1> QED
  BY <1>2, MailboxAssumption DEF Out, Pools

LEMMA OutRemove ==
  ASSUME TypeOK, NEW p \in Pools, NEW b \in PoolBlocks[p] \cap live, live' = live \ {b}
  PROVE  /\ Cardinality(Out(p)') = Cardinality(Out(p)) - 1
         /\ \A r \in Pools : r # p => Out(r)' = Out(r)
<1>1. Out(p)' = Out(p) \ {b} /\ b \in Out(p)
  BY DEF Out
<1>2. Cardinality(Out(p)') = Cardinality(Out(p)) - 1
  BY <1>1, PoolTyped, FS_RemoveElement
<1> QED
  BY <1>2, MailboxAssumption DEF Out, Pools

\* A size that is kept is not changed by the conversion to uint16_t.
LEMMA SizeKept ==
  ASSUME SizesKept, TypeOK, NEW n \in Nat, n <= EltSize["large"]
  PROVE  n % SizeMod = n
<1>1. EltSize["large"] \in Nat /\ SizeMod \in Nat \ {0}
  BY MailboxAssumption DEF Pools
<1>2. n < SizeMod
  BY <1>1 DEF SizesKept
<1>3. \A x \in Nat, k \in Nat \ {0} : x < k => x % k = x
  OBVIOUS
<1> QED
  BY <1>1, <1>2, <1>3

-----------------------------------------------------------------------------
(***************************************************************************)
(* Steps that leave the pools alone.                                       *)
(***************************************************************************)
LEMMA PoolsUnchanged ==
  ASSUME PoolInv, UNCHANGED <<initialized, available, live>>, SendsPlaced', MessagesPlaced'
  PROVE  PoolInv'
BY DEF PoolInv, PoolExact

LEMMA SamePools ==
  ASSUME UNCHANGED initialized
  PROVE  /\ \A n : PoolFor(n)' = PoolFor(n)
         /\ \A msg : Placed(msg)' <=> Placed(msg)
BY DEF PoolFor, LimitOf, Placed

LEMMA SameMessages ==
  ASSUME MessagesPlaced, UNCHANGED <<initialized, queue, held>>
  PROVE  MessagesPlaced'
BY SamePools DEF MessagesPlaced

LEMMA SameSends ==
  ASSUME SendsPlaced, UNCHANGED <<initialized, call>>
  PROVE  SendsPlaced'
BY SamePools DEF SendsPlaced

\* The loop goes on to the next receiver with an empty hand.
LEMMA SendsAdvance ==
  ASSUME TypeOK, SendsPlaced, NEW t \in Threads, InLoop(t), UNCHANGED initialized,
         NEW served \in BOOLEAN, Advance(t, served)
  PROVE  SendsPlaced'
<1>1. call[t] \in SendCall
  BY InSend DEF InLoop
<1>2. call'[t].op = call[t].op /\ call'[t].size = call[t].size /\ call'[t].block = NoBlock
  BY <1>1 DEF Advance, TypeOK, SendCall
<1>3. \A u \in Threads : u # t => call'[u] = call[u]
  BY DEF Advance, TypeOK
<1> QED
  BY <1>2, <1>3, SamePools DEF SendsPlaced

-----------------------------------------------------------------------------
LEMMA PoolsInitialize ==
  ASSUME TypeOK, BlocksInv, PoolInv, Initialize
  PROVE  PoolInv'
<1>1. live = {} /\ ~initialized /\ initialized' /\ available' = PoolCap
      /\ UNCHANGED <<queue, held, live, call>>
  BY DEF Initialize, PoolInv
<1>2. \A m \in Mailboxes : \A i \in DOMAIN queue[m] : queue[m][i].data = NoBlock
  BY <1>1 DEF BlocksInv, Partition, Contents, DataOf
<1>3. held = {}
  BY <1>1 DEF BlocksInv, Partition, InUse
<1>4. MessagesPlaced'
  BY <1>1, <1>2, <1>3 DEF MessagesPlaced, Placed
<1>5. SendsPlaced'
  BY <1>1 DEF PoolInv, SendsPlaced
<1>6. \A p \in Pools : (live \cap PoolBlocks[p])' = {}
  BY <1>1
<1>7. PoolExact'
  BY <1>1, <1>6, FS_EmptySet, MailboxAssumption DEF PoolExact
<1> QED
  BY <1>1, <1>4, <1>5, <1>7 DEF PoolInv

LEMMA PoolsStartCall ==
  ASSUME TypeOK, PoolInv, NEW t \in Threads, NEW l \in Labels,
         SendSignal(t, l) \/ \E n \in Sizes : SendMessage(t, l, n)
  PROVE  PoolInv'
<1>1. UNCHANGED <<initialized, available, live, queue, held>>
  BY DEF SendSignal, SendMessage, StartCall, poolVars
<1>2. \A u \in Threads : u # t => call'[u] = call[u]
  BY DEF SendSignal, SendMessage, StartCall, TypeOK
<1>3. CASE SendSignal(t, l)
  <2>1. call'[t].op = "signal"
    BY <1>3 DEF SendSignal, StartCall, TypeOK
  <2>2. SendsPlaced'
    BY <1>1, <1>2, <2>1, SamePools DEF SendsPlaced, PoolInv
  <2> QED
    BY <1>1, <2>2, PoolsUnchanged, SameMessages DEF PoolInv
<1>4. ASSUME NEW n \in Sizes, SendMessage(t, l, n) PROVE PoolInv'
  <2>1. n \in Nat \ {0} /\ n <= LimitOf("large")
    BY <1>4, MailboxAssumption DEF SendMessage
  <2>2. initialized /\ n <= EltSize["large"]
    BY <2>1 DEF LimitOf
  <2>3. call'[t].size = n /\ call'[t].block = NoBlock
    BY <1>4 DEF SendMessage, StartCall, TypeOK
  <2>4. SendsPlaced'
    BY <1>1, <1>2, <2>2, <2>3, SamePools DEF SendsPlaced, PoolInv
  <2> QED
    BY <1>1, <2>4, PoolsUnchanged, SameMessages DEF PoolInv
<1> QED
  BY <1>3, <1>4

(***************************************************************************)
(* The pool that is asked is the one for the size, and gives from its own. *)
(***************************************************************************)
LEMMA PoolsAllocate ==
  ASSUME TypeOK, PoolInv, NEW t \in Threads, Allocate(t)
  PROVE  PoolInv'
<1>1. UNCHANGED <<initialized, queue, held>> /\ InLoop(t) /\ call[t] \in SendCall
      /\ call[t].op = "send"
  BY InSend DEF Allocate, InLoop
<1>2. CASE Advance(t, FALSE) /\ UNCHANGED poolVars
  BY <1>1, <1>2, PoolsUnchanged, SendsAdvance, SameMessages DEF PoolInv, poolVars
<1>3. ASSUME NEW b \in AllBlocks, Take(PoolFor(call[t].size), b),
             call' = [call EXCEPT ![t].block = b]
      PROVE  PoolInv'
  <2>1. PICK p \in Pools : p = PoolFor(call[t].size)
    BY PoolTyped
  <2>2. /\ b \in PoolBlocks[p] \ live /\ live' = live \cup {b}
        /\ available[p] > 0 /\ available' = [available EXCEPT ![p] = @ - 1]
    BY <1>3, <2>1 DEF Take
  <2>3. /\ Cardinality(Out(p)') = Cardinality(Out(p)) + 1
        /\ \A r \in Pools : r # p => Out(r)' = Out(r)
    BY <2>2, OutAdd
  <2>4. /\ available'[p] = available[p] - 1
        /\ \A r \in Pools : r # p => available'[r] = available[r]
    BY <2>2 DEF TypeOK
  <2>5. initialized
    BY <1>1 DEF PoolInv, SendsPlaced
  <2>6. \A r \in Pools : available[r] + Cardinality(Out(r)) = PoolCap[r]
    BY <2>5 DEF PoolInv, PoolExact, Out
  <2>7. \A r \in Pools : available'[r] + Cardinality(Out(r)') = PoolCap[r]
    BY <2>3, <2>4, <2>6, PoolTyped
  <2>8. PoolExact'
    BY <2>7 DEF PoolExact, Out
  <2>9. /\ call'[t].op = call[t].op /\ call'[t].size = call[t].size /\ call'[t].block = b
        /\ \A u \in Threads : u # t => call'[u] = call[u]
    BY <1>1, <1>3 DEF TypeOK, SendCall
  <2>10. SendsPlaced'
    BY <1>1, <2>1, <2>2, <2>9, SamePools DEF PoolInv, SendsPlaced
  <2> QED
    BY <1>1, <2>5, <2>8, <2>10, SameMessages DEF PoolInv
<1> QED
  BY <1>2, <1>3 DEF Allocate

(***************************************************************************)
(* The message that is queued has the size and the block of the send.      *)
(***************************************************************************)
LEMMA PoolsEmplace ==
  ASSUME SizesKept, TypeOK, BlocksInv, PoolInv, NEW t \in Threads, Emplace(t)
  PROVE  PoolInv'
<1>0. PICK m \in Mailboxes : m = Receiver(t)
  BY InLoopReceiver DEF Emplace, AtEmplace
<1>1. InLoop(t) /\ MessageOf(t) \in Message /\ call[t] \in SendCall
      /\ (call[t].op = "signal" \/ call[t].op = "send")
  BY MessageTyped, InSend DEF Emplace, AtEmplace, InLoop
<1>2. UNCHANGED <<initialized, available, live, held>> /\ Advance(t, TRUE)
      /\ queue' = [queue EXCEPT ![m] = Append(queue[m], MessageOf(t))]
  BY <1>0 DEF Emplace, poolVars
<1>3. Placed(MessageOf(t))
  <2>1. CASE call[t].op = "signal"
    BY <2>1 DEF BlocksInv, HandInv, Placed, MessageOf
  <2>2. CASE call[t].op = "send"
    <3>1. call[t].size \in Sizes /\ call[t].size <= EltSize["large"]
          /\ (call[t].block # NoBlock => call[t].block \in PoolBlocks[PoolFor(call[t].size)])
      BY <2>2 DEF PoolInv, SendsPlaced
    <3>2. call[t].size % SizeMod = call[t].size
      BY <3>1, SizeKept, MailboxAssumption
    <3> QED
      BY <3>1, <3>2 DEF Placed, MessageOf
  <2> QED
    BY <1>1, <2>1, <2>2
<1>4. queue[m] \in Seq(Message) /\ DOMAIN queue = Mailboxes
  BY DEF TypeOK
<1>5. \A i \in DOMAIN Append(queue[m], MessageOf(t)) : Placed(Append(queue[m], MessageOf(t))[i])
  <2>1. /\ Len(queue[m]) \in Nat /\ DOMAIN queue[m] = 1 .. Len(queue[m])
        /\ DOMAIN Append(queue[m], MessageOf(t)) = 1 .. Len(queue[m]) + 1
        /\ \A i \in 1 .. Len(queue[m]) : Append(queue[m], MessageOf(t))[i] = queue[m][i]
        /\ Append(queue[m], MessageOf(t))[Len(queue[m]) + 1] = MessageOf(t)
    BY <1>1, <1>4, AppendProperties, LenProperties
  <2>2. \A i \in DOMAIN queue[m] : Placed(queue[m][i])
    BY DEF PoolInv, MessagesPlaced
  <2> QED
    BY <1>3, <2>1, <2>2
<1>6. MessagesPlaced'
  BY <1>2, <1>4, <1>5, SamePools DEF PoolInv, MessagesPlaced
<1>7. SendsPlaced'
  BY <1>1, <1>2, SendsAdvance DEF PoolInv
<1> QED
  BY <1>2, <1>6, <1>7, PoolsUnchanged

-----------------------------------------------------------------------------
LEMMA PoolsReceive ==
  ASSUME TypeOK, PoolInv, NEW m \in Mailboxes, Receive(m)
  PROVE  PoolInv'
<1>1. UNCHANGED <<initialized, available, live, call>>
      /\ queue' = [queue EXCEPT ![m] = Tail(queue[m])]
      /\ held' = held \cup {msg \in {Head(queue[m])} : msg.data # NoBlock}
  BY DEF Receive, poolVars
<1>2. queue[m] \in Seq(Message) /\ queue[m] # <<>> /\ DOMAIN queue = Mailboxes
  BY DEF Receive, TypeOK
<1>3. /\ Placed(Head(queue[m]))
      /\ \A i \in DOMAIN Tail(queue[m]) : Placed(Tail(queue[m])[i])
  <2>1. /\ Len(queue[m]) \in Nat \ {0} /\ DOMAIN queue[m] = 1 .. Len(queue[m])
        /\ Head(queue[m]) = queue[m][1]
    BY <1>2, EmptySeq, LenProperties, HeadTailProperties
  <2>2. /\ DOMAIN Tail(queue[m]) = 1 .. Len(queue[m]) - 1
        /\ \A i \in 1 .. Len(queue[m]) - 1 : Tail(queue[m])[i] = queue[m][i + 1]
    BY <1>2, HeadTailProperties, LenProperties
  <2>3. \A i \in DOMAIN queue[m] : Placed(queue[m][i])
    BY DEF PoolInv, MessagesPlaced
  <2> QED
    BY <2>1, <2>2, <2>3
<1>4. MessagesPlaced'
  BY <1>1, <1>2, <1>3, SamePools DEF PoolInv, MessagesPlaced
<1> QED
  BY <1>1, <1>4, PoolsUnchanged, SameSends DEF PoolInv

LEMMA PoolsDestruct ==
  ASSUME TypeOK, PoolInv, NEW m \in Mailboxes, Destruct(m)
  PROVE  PoolInv'
<1>1. UNCHANGED <<initialized, available, live, call, held>>
      /\ queue' = [queue EXCEPT ![m] = <<>>] /\ DOMAIN queue = Mailboxes
  BY DEF Destruct, poolVars, TypeOK
<1>2. \A i \in DOMAIN <<>> : Placed(<<>>[i])
  OBVIOUS
<1>3. MessagesPlaced'
  BY <1>1, <1>2, SamePools DEF PoolInv, MessagesPlaced
<1> QED
  BY <1>1, <1>3, PoolsUnchanged, SameSends DEF PoolInv

(***************************************************************************)
(* A released block is of the pool for the size in its message, and out.   *)
(***************************************************************************)
LEMMA PoolsRelease ==
  ASSUME TypeOK, BlocksInv, PoolInv, NEW msg \in held, Release(msg)
  PROVE  PoolInv'
<1>1. UNCHANGED <<initialized, queue, call>> /\ held' = held \ {msg}
  BY DEF Release
<1>2. PICK p \in Pools : p = PoolFor(msg.size)
  BY PoolTyped
<1>3. msg.data # NoBlock /\ msg.data \in live
  BY DEF BlocksInv, Partition, InUse
<1>4. msg.data \in PoolBlocks[p] \cap live
  BY <1>2, <1>3 DEF PoolInv, MessagesPlaced, Placed
<1>5. live' = live \ {msg.data} /\ available' = [available EXCEPT ![p] = @ + 1]
  BY <1>2 DEF Release, GiveBack
<1>6. /\ Cardinality(Out(p)') = Cardinality(Out(p)) - 1
      /\ \A r \in Pools : r # p => Out(r)' = Out(r)
  BY <1>4, <1>5, OutRemove
<1>7. /\ available'[p] = available[p] + 1
      /\ \A r \in Pools : r # p => available'[r] = available[r]
  BY <1>5 DEF TypeOK
<1>8. PoolExact'
  <2> SUFFICES ASSUME initialized
               PROVE  \A r \in Pools : available'[r] + Cardinality(Out(r)') = PoolCap[r]
    BY <1>1 DEF PoolExact, Out
  <2>1. \A r \in Pools : available[r] + Cardinality(Out(r)) = PoolCap[r]
    BY DEF PoolInv, PoolExact, Out
  <2> QED
    BY <1>6, <1>7, <2>1, PoolTyped
<1>9. MessagesPlaced'
  BY <1>1, SamePools DEF PoolInv, MessagesPlaced
<1> QED
  BY <1>1, <1>5, <1>8, <1>9, SameSends DEF PoolInv

-----------------------------------------------------------------------------
LEMMA PoolInvInductive ==
  SizesKept /\ TypeOK /\ BlocksInv /\ PoolInv /\ [CarelessNext]_vars => PoolInv'
<1> SUFFICES ASSUME SizesKept, TypeOK, BlocksInv, PoolInv, [CarelessNext]_vars PROVE PoolInv'
  OBVIOUS
<1>1. ASSUME UNCHANGED <<initialized, poolVars, queue, held, call>> PROVE PoolInv'
  BY <1>1, PoolsUnchanged, SameSends, SameMessages DEF PoolInv, poolVars
<1>2. ASSUME NEW m \in Mailboxes, NEW l \in Labels,
             RegisterForLabel(m, l) \/ UnregisterForLabel(m, l)
      PROVE  PoolInv'
  BY <1>1, <1>2 DEF RegisterForLabel, UnregisterForLabel
<1>3. ASSUME NEW m \in Mailboxes, Construct(m) PROVE PoolInv'
  BY <1>1, <1>3 DEF Construct
<1>4. ASSUME NEW t \in Threads, Skip(t) \/ Return(t) PROVE PoolInv'
  <2>1. UNCHANGED <<initialized, available, live, queue, held>>
    BY <1>4 DEF Skip, Return, poolVars
  <2>2. \A u \in Threads : u # t => call'[u] = call[u]
    BY <1>4 DEF Skip, Return, TypeOK
  <2>3. CASE Skip(t)
    <3>1. call[t] \in SendCall
      BY <2>3, InSend DEF Skip, InLoop
    <3>2. /\ call'[t].op = call[t].op /\ call'[t].size = call[t].size
          /\ call'[t].block = call[t].block
      BY <2>3, <3>1 DEF Skip, TypeOK, SendCall
    <3>3. SendsPlaced'
      BY <2>1, <2>2, <3>2, SamePools DEF PoolInv, SendsPlaced
    <3> QED
      BY <2>1, <3>3, PoolsUnchanged, SameMessages DEF PoolInv
  <2>4. CASE Return(t)
    <3>1. call'[t] = NoCall
      BY <2>4 DEF Return, TypeOK
    <3>2. SendsPlaced'
      BY <2>1, <2>2, <3>1, SamePools DEF PoolInv, SendsPlaced, NoCall
    <3> QED
      BY <2>1, <3>2, PoolsUnchanged, SameMessages DEF PoolInv
  <2> QED
    BY <1>4, <2>3, <2>4
<1>5. ASSUME NEW t \in Threads, EmplaceFull(t) PROVE PoolInv'
  <2>1. UNCHANGED <<initialized, available, live, queue, held>> /\ InLoop(t) /\ Advance(t, FALSE)
    BY <1>5 DEF EmplaceFull, AtEmplace, poolVars
  <2> QED
    BY <2>1, SendsAdvance, PoolsUnchanged, SameMessages DEF PoolInv
<1>6. CASE UNCHANGED vars
  BY <1>1, <1>6 DEF vars
<1> QED
  BY <1>2, <1>3, <1>4, <1>5, <1>6, PoolsInitialize, PoolsStartCall, PoolsAllocate, PoolsEmplace,
     PoolsReceive, PoolsRelease, PoolsDestruct
     DEF CarelessNext, Next, Destroy, Proceed

LEMMA InitPools == Init => PoolInv
<1> SUFFICES ASSUME Init PROVE PoolInv
  OBVIOUS
<1>1. \A m \in Mailboxes : \A i \in DOMAIN queue[m] : Placed(queue[m][i])
  BY DEF Init
<1> QED
  BY <1>1 DEF Init, PoolInv, PoolExact, SendsPlaced, MessagesPlaced, NoCall

LEMMA PoolInvHolds == ASSUME SizesKept PROVE Spec => []PoolInv
<1>1. TypeOK /\ BlocksInv /\ PoolInv /\ [CarelessNext]_vars => PoolInv'
  BY PoolInvInductive
<1> QED
  BY <1>1, InitPools, NextIsCareless, BlocksInvHolds, MailboxTyped, PTL DEF Spec

(***************************************************************************)
(* The count of each pool is its capacity less its blocks that are out,    *)
(* under any interleaving of sends, receives, releases and destructions.   *)
(***************************************************************************)
THEOREM MailboxPoolExact == ASSUME SizesKept PROVE Spec => []PoolExact
<1>1. PoolInv => PoolExact
  BY DEF PoolInv
<1> QED
  BY <1>1, PoolInvHolds, PTL

(***************************************************************************)
(* The block a sender has in hand is large enough for its message.         *)
(***************************************************************************)
THEOREM MailboxPutFits == ASSUME SizesKept PROVE Spec => []PutFits
<1>1. TypeOK /\ PoolInv => PutFits
  <2> SUFFICES ASSUME TypeOK, PoolInv, NEW t \in Sending
               PROVE  \E p \in Pools : call[t].block \in PoolBlocks[p]
                                       /\ call[t].size <= EltSize[p]
    BY DEF PutFits
  <2>1. /\ initialized /\ call[t].size \in Nat /\ call[t].size <= EltSize["large"]
        /\ call[t].block \in PoolBlocks[PoolFor(call[t].size)]
    BY MailboxAssumption DEF Sending, PoolInv, SendsPlaced
  <2>2. call[t].size <= EltSize[PoolFor(call[t].size)]
    BY <2>1, PoolTyped DEF PoolFor, LimitOf, Pools
  <2> QED
    BY <2>1, <2>2, PoolTyped
<1> QED
  BY <1>1, PoolInvHolds, MailboxTyped, PTL

(***************************************************************************)
(* Message::as<T> finds the size that was sent, if m_size can hold it.     *)
(***************************************************************************)
THEOREM MailboxKeepsSize == ASSUME SizesKept PROVE Spec => []MessageKeepsSize
<1>1. PoolInv => MessageKeepsSize
  BY DEF PoolInv, MessagesPlaced, Placed, MessageKeepsSize
<1> QED
  BY <1>1, PoolInvHolds, PTL

-----------------------------------------------------------------------------
(***************************************************************************)
(* What a step does to the blocks that are out.                            *)
(***************************************************************************)
LEMMA LiveStep ==
  ASSUME TypeOK, BlocksInv, PoolInv, [Next]_vars
  PROVE  \/ UNCHANGED live
         \/ \E p \in Pools : \E b \in PoolBlocks[p] \ live :
              live' = live \cup {b} /\ Cardinality(Out(p)) < PoolCap[p]
         \/ \E p \in Pools : \E b \in PoolBlocks[p] \cap live : live' = live \ {b}
<1> DEFINE Goal ==
      \/ UNCHANGED live
      \/ \E p \in Pools : \E b \in PoolBlocks[p] \ live :
           live' = live \cup {b} /\ Cardinality(Out(p)) < PoolCap[p]
      \/ \E p \in Pools : \E b \in PoolBlocks[p] \cap live : live' = live \ {b}
<1>1. ASSUME NEW t \in Threads, Allocate(t) PROVE Goal
  <2>1. call[t].op = "send"
    BY <1>1 DEF Allocate
  <2>2. PICK p \in Pools : p = PoolFor(call[t].size)
    BY PoolTyped
  <2>3. \A r \in Pools : available[r] + Cardinality(Out(r)) = PoolCap[r]
    BY <2>1 DEF PoolInv, SendsPlaced, PoolExact, Out
  <2>4. available[p] > 0 => Cardinality(Out(p)) < PoolCap[p]
    BY <2>3, PoolTyped
  <2> QED
    BY <1>1, <2>2, <2>4 DEF Allocate, Take, poolVars
<1>2. ASSUME NEW msg \in held, Release(msg) PROVE Goal
  <2>1. msg.data # NoBlock /\ msg.data \in live
    BY DEF BlocksInv, Partition, InUse
  <2>2. msg.data \in PoolBlocks[PoolFor(msg.size)] \cap live
    BY <2>1 DEF PoolInv, MessagesPlaced, Placed
  <2> QED
    BY <1>2, <2>2, PoolTyped DEF Release, GiveBack
<1>3. ASSUME NEW m \in Mailboxes, NEW l \in Labels,
             RegisterForLabel(m, l) \/ UnregisterForLabel(m, l)
      PROVE  UNCHANGED live
  BY <1>3 DEF RegisterForLabel, UnregisterForLabel, poolVars
<1>4. ASSUME NEW m \in Mailboxes, Construct(m) \/ Destroy(m) \/ Receive(m) PROVE UNCHANGED live
  BY <1>4 DEF Construct, Destroy, Destruct, Receive, poolVars
<1>5. ASSUME NEW t \in Threads, Skip(t) \/ Emplace(t) \/ EmplaceFull(t) \/ Return(t)
      PROVE  UNCHANGED live
  BY <1>5 DEF Skip, Emplace, EmplaceFull, Return, poolVars
<1>6. ASSUME NEW t \in Threads, NEW op, NEW l, NEW n, StartCall(t, op, l, n)
      PROVE  UNCHANGED live
  BY <1>6 DEF StartCall, poolVars
<1>7. ASSUME Initialize \/ UNCHANGED vars PROVE UNCHANGED live
  BY <1>7 DEF Initialize, vars, poolVars
<1>8. \/ UNCHANGED live
      \/ \E t \in Threads : Allocate(t)
      \/ \E msg \in held : Release(msg)
  BY <1>3, <1>4, <1>5, <1>6, <1>7 DEF Next, SendMessage, SendSignal, Proceed
<1> QED
  BY <1>1, <1>2, <1>8

LEMMA PoolStep ==
  ASSUME TypeOK, BlocksInv, PoolInv, [Next]_vars, NEW p \in Pools
  PROVE  \/ Out(p)' = Out(p)
         \/ \E b \in PoolBlocks[p] :
              \/ b \notin Out(p) /\ Cardinality(Out(p)) < PoolCap[p] /\ Out(p)' = Out(p) \cup {b}
              \/ b \in Out(p) /\ Out(p)' = Out(p) \ {b}
<1>1. CASE UNCHANGED live
  BY <1>1 DEF Out
<1>2. ASSUME NEW r \in Pools, NEW b \in PoolBlocks[r] \ live, live' = live \cup {b},
             Cardinality(Out(r)) < PoolCap[r]
      PROVE  \/ Out(p)' = Out(p)
             \/ /\ p = r /\ b \in PoolBlocks[p]
                /\ b \notin Out(p) /\ Cardinality(Out(p)) < PoolCap[p]
                /\ Out(p)' = Out(p) \cup {b}
  BY <1>2, OutAdd DEF Out
<1>3. ASSUME NEW r \in Pools, NEW b \in PoolBlocks[r] \cap live, live' = live \ {b}
      PROVE  \/ Out(p)' = Out(p)
             \/ p = r /\ b \in PoolBlocks[p] /\ b \in Out(p) /\ Out(p)' = Out(p) \ {b}
  BY <1>3, OutRemove DEF Out
<1> QED
  BY <1>1, <1>2, <1>3, LiveStep

(***************************************************************************)
(* The sends and releases use each pool as BlockPool allows: they take     *)
(* blocks that are free, within the capacity, and give each back once.     *)
(***************************************************************************)
THEOREM MailboxUsesPools == ASSUME SizesKept PROVE Spec => UsesPools
<1>1. Init => SmallPool!Init /\ LargePool!Init
  BY DEF Init, SmallPool!Init, LargePool!Init
<1>2. TypeOK /\ BlocksInv /\ PoolInv /\ [Next]_vars
        => [SmallPool!Next]_(live \cap PoolBlocks["small"])
  \* An instance has its own copy of Cardinality: the definitions tell them equal.
  BY PoolStep DEF Pools, Out, SmallPool!Next, SmallPool!Give, SmallPool!TakeBack,
     SmallPool!Cardinality, Cardinality
<1>3. TypeOK /\ BlocksInv /\ PoolInv /\ [Next]_vars
        => [LargePool!Next]_(live \cap PoolBlocks["large"])
  BY PoolStep DEF Pools, Out, LargePool!Next, LargePool!Give, LargePool!TakeBack,
     LargePool!Cardinality, Cardinality
<1> QED
  BY <1>1, <1>2, <1>3, PoolInvHolds, BlocksInvHolds, MailboxTyped, PTL
     DEF Spec, UsesPools, SmallPool!Spec, LargePool!Spec
=============================================================================
