------------------------------- MODULE Queue --------------------------------
(***************************************************************************)
(* detail::Queue<T> (include/msglib/detail/Queue.h): a bounded deque under *)
(* one std::mutex, with a condition variable for the blocking pops.        *)
(*                                                                         *)
(* Every access to the deque is made under m_mutex, so a critical section  *)
(* is one step.  wait() and wait_for() release the mutex while the thread  *)
(* sleeps and re-acquire it before the predicate is evaluated again: going *)
(* to sleep, waking up, and looking again are steps of their own, and any  *)
(* other thread may take the mutex between them.                           *)
(***************************************************************************)
EXTENDS Naturals, Sequences, FiniteSets

CONSTANTS
  Consumers,   \* threads that call pop(), popWait() or tryPop()
  Values,      \* the values of type T that are pushed
  NoValue,     \* a consumer's out parameter before its first pop
  Capacity     \* m_capacity

ASSUME QueueAssumption ==
  /\ IsFiniteSet(Consumers)
  /\ Capacity \in Nat
  /\ NoValue \notin Values

VARIABLES
  queue,       \* m_queue
  call,        \* [Consumers -> {"none", "pop", "popWait"}]: unfinished call
  thread,      \* [Consumers -> ThreadState]: where that call is
  value        \* [Consumers -> Values \cup {NoValue}]: out parameter of pop

vars == <<queue, call, thread, value>>

(***************************************************************************)
(* running: not blocked in a call.  asleep: in the wait set of             *)
(* m_condVariable.  woken: notified, or woken spuriously, and contending   *)
(* for m_mutex.  expired: the deadline of popWait passed, contending too.  *)
(***************************************************************************)
ThreadState == {"running", "asleep", "woken", "expired"}

Asleep == {c \in Consumers : thread[c] = "asleep"}

\* The threads that left the wait set and have yet to look at the queue.
Contending == {c \in Consumers : thread[c] \in {"woken", "expired"}}

TypeOK ==
  /\ queue \in Seq(Values)
  /\ Len(queue) <= Capacity
  /\ call \in [Consumers -> {"none", "pop", "popWait"}]
  /\ thread \in [Consumers -> ThreadState]
  /\ value \in [Consumers -> Values \cup {NoValue}]
  /\ \A c \in Consumers : /\ call[c] = "none" <=> thread[c] = "running"
                          /\ thread[c] = "expired" => call[c] = "popWait"

Init ==
  /\ queue = <<>>
  /\ call = [c \in Consumers |-> "none"]
  /\ thread = [c \in Consumers |-> "running"]
  /\ value = [c \in Consumers |-> NoValue]

\* m_condVariable.notify_one(): no thread waiting, or one of those that do.
NotifyOne ==
  \/ Asleep = {} /\ UNCHANGED thread
  \/ \E c \in Asleep : thread' = [thread EXCEPT ![c] = "woken"]

\* Mutant: the capacity test is off by one.
PushOneTooMany(v) ==
  \/ /\ Len(queue) <= Capacity
     /\ queue' = Append(queue, v)
     /\ NotifyOne
     /\ UNCHANGED <<call, value>>
  \/ /\ Len(queue) > Capacity
     /\ UNCHANGED vars

\* Mutant: only the push that ends emptiness notifies.
PushNotifyWhenEmpty(v) ==
  \/ /\ Len(queue) < Capacity
     /\ queue' = Append(queue, v)
     /\ IF queue = <<>> THEN NotifyOne ELSE UNCHANGED thread
     /\ UNCHANGED <<call, value>>
  \/ /\ Len(queue) >= Capacity
     /\ UNCHANGED vars

\* tryPush(), push() and emplace() share one body; a full queue is left alone.
Push(v) ==
  \/ /\ Len(queue) < Capacity
     /\ queue' = Append(queue, v)
     /\ NotifyOne
     /\ UNCHANGED <<call, value>>
  \/ /\ Len(queue) >= Capacity
     /\ UNCHANGED vars

\* value = m_queue.front(); m_queue.pop_front(); and the call returns.
PopFront(c) ==
  /\ queue # <<>>
  /\ value' = [value EXCEPT ![c] = Head(queue)]
  /\ queue' = Tail(queue)
  /\ call' = [call EXCEPT ![c] = "none"]
  /\ thread' = [thread EXCEPT ![c] = "running"]

TryPop(c) ==
  /\ call[c] = "none"
  /\ \/ PopFront(c)
     \/ queue = <<>> /\ UNCHANGED vars

\* The predicate is evaluated once before the thread first goes to sleep.
BlockingPop(c, kind) ==
  /\ call[c] = "none"
  /\ \/ PopFront(c)
     \/ /\ queue = <<>>
        /\ call' = [call EXCEPT ![c] = kind]
        /\ thread' = [thread EXCEPT ![c] = "asleep"]
        /\ UNCHANGED <<queue, value>>

Pop(c) == BlockingPop(c, "pop")

PopWait(c) == BlockingPop(c, "popWait")

\* A wait on a condition variable may return without a notification.
SpuriousWakeup(c) ==
  /\ thread[c] = "asleep"
  /\ thread' = [thread EXCEPT ![c] = "woken"]
  /\ UNCHANGED <<queue, call, value>>

\* The deadline of wait_for passes, also for a thread that is notified already.
Expire(c) ==
  /\ call[c] = "popWait"
  /\ thread[c] \in {"asleep", "woken"}
  /\ thread' = [thread EXCEPT ![c] = "expired"]
  /\ UNCHANGED <<queue, call, value>>

\* Mutant: a loop around wait_for, restarted whenever the queue is empty.
RecheckRestartsWait(c) ==
  /\ thread[c] \in {"woken", "expired"}
  /\ \/ PopFront(c)
     \/ /\ queue = <<>>
        /\ thread' = [thread EXCEPT ![c] = "asleep"]
        /\ UNCHANGED <<queue, call, value>>

\* Mutant: a timeout is reported without a last look at the queue.
RecheckTrustsTimeout(c) ==
  \/ /\ thread[c] = "woken"
     /\ \/ PopFront(c)
        \/ /\ queue = <<>>
           /\ thread' = [thread EXCEPT ![c] = "asleep"]
           /\ UNCHANGED <<queue, call, value>>
  \/ /\ thread[c] = "expired"
     /\ call' = [call EXCEPT ![c] = "none"]
     /\ thread' = [thread EXCEPT ![c] = "running"]
     /\ UNCHANGED <<queue, value>>

\* The mutex is re-acquired and the predicate decides: wait_for returns the
\* predicate's value after a timeout, and both go on waiting without one.
Recheck(c) ==
  /\ thread[c] \in {"woken", "expired"}
  /\ \/ PopFront(c)
     \/ /\ queue = <<>>
        /\ thread[c] = "woken"
        /\ thread' = [thread EXCEPT ![c] = "asleep"]
        /\ UNCHANGED <<queue, call, value>>
     \/ /\ queue = <<>>
        /\ thread[c] = "expired"
        /\ call' = [call EXCEPT ![c] = "none"]
        /\ thread' = [thread EXCEPT ![c] = "running"]
        /\ UNCHANGED <<queue, value>>

Next ==
  \/ \E v \in Values : Push(v)
  \/ \E c \in Consumers :
       TryPop(c) \/ Pop(c) \/ PopWait(c) \/ SpuriousWakeup(c) \/ Expire(c) \/ Recheck(c)

Spec == Init /\ [][Next]_vars

(***************************************************************************)
(* The scheduler runs every runnable thread, a critical section is short   *)
(* and finite, so a thread that left the wait set gets the mutex; clocks   *)
(* advance, so a deadline passes.  No fairness is assumed of the callers.  *)
(***************************************************************************)
FairSpec ==
  /\ Spec
  /\ \A c \in Consumers : WF_vars(Recheck(c)) /\ WF_vars(Expire(c))

-----------------------------------------------------------------------------
(***************************************************************************)
(* No wakeup is lost: while some thread sleeps, every queued value has a   *)
(* thread that was notified (or timed out) and will look at the queue.     *)
(* This is what lets push() notify one thread, once, and forget about it,  *)
(* although notified threads can find their value taken by a newcomer.     *)
(***************************************************************************)
NoLostWakeup == Asleep # {} => Len(queue) <= Cardinality(Contending)

(***************************************************************************)
(* popWait() returns: neither notifications whose value another thread     *)
(* took nor spurious wakeups keep it past its deadline for ever.           *)
(***************************************************************************)
PopWaitReturns == \A c \in Consumers : call[c] = "popWait" ~> call[c] = "none"

(***************************************************************************)
(* The queue is the blocking first-in first-out buffer it is meant to be,  *)
(* including its liveness: a value that stays queued reaches a blocked     *)
(* caller, and popWait() reports a timeout only of an empty queue.         *)
(***************************************************************************)
Fifo == INSTANCE BlockingFifo
          WITH buffer <- queue, pending <- call, out <- value

ImplementsFifo == Fifo!FairSpec
=============================================================================
