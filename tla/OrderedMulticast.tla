-------------------------- MODULE OrderedMulticast --------------------------
(***************************************************************************)
(* What the mailboxes promise about order: sends form one sequence, every  *)
(* mailbox receives a subset of it, in that order, whoever the senders     *)
(* are.  A cast is represented by its number.  Mailbox.tla is shown to     *)
(* implement this by holding one mutex for the whole of a send.            *)
(***************************************************************************)
EXTENDS Naturals, Sequences

CONSTANT Mailboxes

VARIABLES
  casts,       \* number of sends so far
  inbox,       \* [Mailboxes -> Seq(Nat)]: casts delivered and not yet taken
  last         \* [Mailboxes -> Nat]: the cast taken last, 0 before the first

vars == <<casts, inbox, last>>

Init ==
  /\ casts = 0
  /\ inbox = [m \in Mailboxes |-> <<>>]
  /\ last = [m \in Mailboxes |-> 0]

Cast ==
  /\ casts' = casts + 1
  /\ UNCHANGED <<inbox, last>>

\* Only the cast that is being made is delivered: the ones before are over.
Deliver(m) ==
  /\ casts > 0
  /\ inbox' = [inbox EXCEPT ![m] = Append(inbox[m], casts)]
  /\ UNCHANGED <<casts, last>>

Take(m) ==
  /\ inbox[m] # <<>>
  /\ last' = [last EXCEPT ![m] = Head(inbox[m])]
  /\ inbox' = [inbox EXCEPT ![m] = Tail(inbox[m])]
  /\ UNCHANGED casts

\* A mailbox goes away with what it has not received.
Discard(m) ==
  /\ inbox' = [inbox EXCEPT ![m] = <<>>]
  /\ UNCHANGED <<casts, last>>

Next ==
  \/ Cast
  \/ \E m \in Mailboxes : Deliver(m) \/ Take(m) \/ Discard(m)

Spec == Init /\ [][Next]_vars

(***************************************************************************)
(* What a mailbox has taken and is about to take never goes back in the    *)
(* sequence of casts, so that any two mailboxes take the casts they both   *)
(* get in the same order.                                                  *)
(***************************************************************************)
InOrder ==
  \A m \in Mailboxes :
    /\ \A i \in 1 .. Len(inbox[m]) : last[m] <= inbox[m][i] /\ inbox[m][i] <= casts
    /\ \A i, j \in 1 .. Len(inbox[m]) : i <= j => inbox[m][i] <= inbox[m][j]

(***************************************************************************)
(* A mailbox never takes an older cast after a newer one.                  *)
(***************************************************************************)
TakesForward == [][\A m \in Mailboxes : last[m] <= last'[m]]_vars
=============================================================================
