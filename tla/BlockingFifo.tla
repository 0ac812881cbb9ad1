---------------------------- MODULE BlockingFifo ----------------------------
(***************************************************************************)
(* What detail::Queue<T> promises its callers, with no mutex and no        *)
(* condition variable in sight: a bounded first-in first-out buffer whose  *)
(* pop() blocks while the buffer is empty, whose popWait() may give up     *)
(* only on an empty buffer, and which serves a blocked caller whenever     *)
(* the buffer stays non-empty.  Queue.tla is shown to implement it.        *)
(***************************************************************************)
EXTENDS Naturals, Sequences

CONSTANTS
  Consumers,   \* threads that take values out
  Values,      \* values that are passed through
  NoValue,     \* the out parameter before anything was taken
  Capacity     \* most values the buffer holds

VARIABLES
  buffer,      \* the values put and not yet taken, oldest first
  pending,     \* [Consumers -> {"none", "pop", "popWait"}]: the blocked calls
  out          \* [Consumers -> Values \cup {NoValue}]: last value each took

vars == <<buffer, pending, out>>

Init ==
  /\ buffer = <<>>
  /\ pending = [c \in Consumers |-> "none"]
  /\ out = [c \in Consumers |-> NoValue]

Put(v) ==
  /\ Len(buffer) < Capacity
  /\ buffer' = Append(buffer, v)
  /\ UNCHANGED <<pending, out>>

\* A caller takes the oldest value: at once, or after having been blocked.
Take(c) ==
  /\ buffer # <<>>
  /\ out' = [out EXCEPT ![c] = Head(buffer)]
  /\ buffer' = Tail(buffer)
  /\ pending' = [pending EXCEPT ![c] = "none"]

TakeBlocked(c) == pending[c] # "none" /\ Take(c)

\* Only an empty buffer blocks a caller.
Block(c, kind) ==
  /\ buffer = <<>>
  /\ pending[c] = "none"
  /\ pending' = [pending EXCEPT ![c] = kind]
  /\ UNCHANGED <<buffer, out>>

\* Only a bounded wait gives up, and only on an empty buffer.
GiveUp(c) ==
  /\ buffer = <<>>
  /\ pending[c] = "popWait"
  /\ pending' = [pending EXCEPT ![c] = "none"]
  /\ UNCHANGED <<buffer, out>>

Next ==
  \/ \E v \in Values : Put(v)
  \/ \E c \in Consumers :
       \/ Take(c)
       \/ \E kind \in {"pop", "popWait"} : Block(c, kind)
       \/ GiveUp(c)

Spec == Init /\ [][Next]_vars

\* A value that stays available is given to some blocked caller.
FairSpec == Spec /\ WF_vars(\E c \in Consumers : TakeBlocked(c))
=============================================================================
