----------------------- MODULE OrderedMulticastProofs -----------------------
(***************************************************************************)
(* The ordered multicast keeps its order, for any set of mailboxes.        *)
(***************************************************************************)
EXTENDS OrderedMulticast, SequenceTheorems, TLAPS

TypeOK ==
  /\ casts \in Nat
  /\ inbox \in [Mailboxes -> Seq(Nat)]
  /\ last \in [Mailboxes -> Nat]

\* What was taken is not younger than what was cast: needed when an inbox is
\* empty and says nothing of last.
IInv == TypeOK /\ InOrder /\ \A m \in Mailboxes : last[m] <= casts

LEMMA IInvInductive == IInv /\ [Next]_vars => IInv'
<1> SUFFICES ASSUME IInv, [Next]_vars PROVE IInv'
  OBVIOUS
<1>0. /\ casts \in Nat
      /\ \A m \in Mailboxes : /\ inbox[m] \in Seq(Nat) /\ Len(inbox[m]) \in Nat
                              /\ last[m] \in Nat /\ last[m] <= casts
                              /\ \A i \in 1 .. Len(inbox[m]) : inbox[m][i] \in Nat
  BY ElementOfSeq, LenProperties DEF IInv, TypeOK
<1>1. CASE Cast
  BY <1>0, <1>1 DEF Cast, IInv, TypeOK, InOrder
<1>2. ASSUME NEW m \in Mailboxes, Deliver(m) PROVE IInv'
  <2>1. /\ Append(inbox[m], casts) \in Seq(Nat)
        /\ Len(Append(inbox[m], casts)) = Len(inbox[m]) + 1
        /\ \A i \in 1 .. Len(inbox[m]) : Append(inbox[m], casts)[i] = inbox[m][i]
        /\ Append(inbox[m], casts)[Len(inbox[m]) + 1] = casts
    BY <1>0, AppendProperties
  <2>2. inbox'[m] = Append(inbox[m], casts) /\ \A n \in Mailboxes : n # m => inbox'[n] = inbox[n]
    BY <1>2 DEF Deliver, IInv, TypeOK
  <2>3. TypeOK'
    BY <1>2, <2>1 DEF Deliver, IInv, TypeOK
  <2>4. ASSUME NEW n \in Mailboxes
        PROVE  /\ \A i \in 1 .. Len(inbox'[n]) :
                    last'[n] <= inbox'[n][i] /\ inbox'[n][i] <= casts'
               /\ \A i, j \in 1 .. Len(inbox'[n]) : i <= j => inbox'[n][i] <= inbox'[n][j]
    <3>1. CASE n # m
      BY <1>2, <2>2, <3>1 DEF Deliver, IInv, InOrder
    <3>2. CASE n = m
      <4>1. ASSUME NEW i \in 1 .. Len(inbox'[m])
            PROVE  \/ i \in 1 .. Len(inbox[m]) /\ inbox'[m][i] = inbox[m][i]
                   \/ i = Len(inbox[m]) + 1 /\ inbox'[m][i] = casts
        <5>1. Len(inbox[m]) \in Nat /\ Len(inbox'[m]) = Len(inbox[m]) + 1
          BY <1>0, <2>1, <2>2
        <5>2. i \in 1 .. Len(inbox[m]) \/ i = Len(inbox[m]) + 1
          BY <5>1
        <5> QED BY <2>1, <2>2, <5>2
      <4>2. \A i \in 1 .. Len(inbox'[m]) : last[m] <= inbox'[m][i] /\ inbox'[m][i] <= casts
        <5>1. \A i \in 1 .. Len(inbox[m]) : last[m] <= inbox[m][i] /\ inbox[m][i] <= casts
          BY DEF IInv, InOrder
        <5>2. last[m] <= casts /\ casts <= casts
          BY <1>0
        <5> QED BY <4>1, <5>1, <5>2
      <4>3. ASSUME NEW i \in 1 .. Len(inbox'[m]), NEW j \in 1 .. Len(inbox'[m]), i <= j
            PROVE  inbox'[m][i] <= inbox'[m][j]
        <5>1. CASE j = Len(inbox[m]) + 1 /\ inbox'[m][j] = casts
          BY <4>2, <5>1
        <5>2. CASE j \in 1 .. Len(inbox[m]) /\ inbox'[m][j] = inbox[m][j]
          <6>1. i \in 1 .. Len(inbox[m])
            BY <1>0, <4>3, <5>2
          <6>2. inbox'[m][i] = inbox[m][i]
            BY <2>1, <2>2, <6>1
          <6> QED BY <4>3, <5>2, <6>1, <6>2 DEF IInv, InOrder
        <5> QED BY <4>1, <5>1, <5>2
      <4> QED BY <1>2, <3>2, <4>2, <4>3 DEF Deliver
    <3> QED BY <3>1, <3>2
  <2> QED BY <1>0, <1>2, <2>3, <2>4 DEF IInv, InOrder, Deliver
<1>3. ASSUME NEW m \in Mailboxes, Take(m) PROVE IInv'
  <2>1. /\ Tail(inbox[m]) \in Seq(Nat)
        /\ Len(Tail(inbox[m])) = Len(inbox[m]) - 1
        /\ \A i \in 1 .. Len(inbox[m]) - 1 : Tail(inbox[m])[i] = inbox[m][i + 1]
        /\ Head(inbox[m]) = inbox[m][1] /\ Len(inbox[m]) >= 1 /\ Head(inbox[m]) \in Nat
    BY <1>0, <1>3, HeadTailProperties, EmptySeq DEF Take
  <2>2. /\ inbox'[m] = Tail(inbox[m]) /\ last'[m] = inbox[m][1] /\ casts' = casts
        /\ \A n \in Mailboxes : n # m => inbox'[n] = inbox[n] /\ last'[n] = last[n]
    BY <1>3, <2>1 DEF Take, IInv, TypeOK
  <2>3. TypeOK'
    BY <1>3, <2>1 DEF Take, IInv, TypeOK
  <2>4. ASSUME NEW n \in Mailboxes
        PROVE  /\ \A i \in 1 .. Len(inbox'[n]) :
                    last'[n] <= inbox'[n][i] /\ inbox'[n][i] <= casts'
               /\ \A i, j \in 1 .. Len(inbox'[n]) : i <= j => inbox'[n][i] <= inbox'[n][j]
               /\ last'[n] <= casts'
    <3>1. CASE n # m
      BY <2>2, <3>1 DEF IInv, InOrder
    <3>2. CASE n = m
      <4>1. ASSUME NEW i \in 1 .. Len(inbox'[m])
            PROVE  i + 1 \in 1 .. Len(inbox[m]) /\ inbox'[m][i] = inbox[m][i + 1]
        <5>1. Len(inbox[m]) \in Nat /\ Len(inbox'[m]) = Len(inbox[m]) - 1
          BY <1>0, <2>1, <2>2
        <5>2. i \in 1 .. Len(inbox[m]) - 1 /\ i + 1 \in 1 .. Len(inbox[m])
          BY <5>1
        <5> QED BY <2>1, <2>2, <5>2
      <4>2. 1 \in 1 .. Len(inbox[m])
        BY <1>0, <2>1
      <4>3. \A i \in 1 .. Len(inbox'[m]) : inbox[m][1] <= inbox'[m][i] /\ inbox'[m][i] <= casts
        <5>1. \A k \in 1 .. Len(inbox[m]) : 1 <= k /\ inbox[m][k] <= casts
          BY <1>0 DEF IInv, InOrder
        <5>2. \A k \in 1 .. Len(inbox[m]) : inbox[m][1] <= inbox[m][k]
          BY <4>2, <5>1 DEF IInv, InOrder
        <5> QED BY <4>1, <5>1, <5>2
      <4>4. ASSUME NEW i \in 1 .. Len(inbox'[m]), NEW j \in 1 .. Len(inbox'[m]), i <= j
            PROVE  inbox'[m][i] <= inbox'[m][j]
        BY <1>0, <4>1, <4>4 DEF IInv, InOrder
      <4>5. inbox[m][1] <= casts
        BY <4>2 DEF IInv, InOrder
      <4> QED BY <2>2, <3>2, <4>3, <4>4, <4>5
    <3> QED BY <3>1, <3>2
  <2> QED BY <2>3, <2>4 DEF IInv, InOrder
<1>4. ASSUME NEW m \in Mailboxes, Discard(m) PROVE IInv'
  <2>1. inbox'[m] = <<>> /\ \A n \in Mailboxes : n # m => inbox'[n] = inbox[n]
    BY <1>4 DEF Discard, IInv, TypeOK
  <2>2. Len(<<>>) = 0 /\ <<>> \in Seq(Nat)
    BY EmptySeq
  <2>3. TypeOK'
    BY <1>4, <2>2 DEF Discard, IInv, TypeOK
  <2>4. InOrder'
    BY <1>4, <2>1, <2>2 DEF Discard, IInv, InOrder
  <2> QED BY <1>4, <2>3, <2>4 DEF Discard, IInv
<1>5. CASE UNCHANGED vars
  BY <1>5 DEF vars, IInv, TypeOK, InOrder
<1> QED BY <1>1, <1>2, <1>3, <1>4, <1>5 DEF Next

LEMMA InitIInv == Init => IInv
BY EmptySeq DEF Init, IInv, TypeOK, InOrder

LEMMA IInvHolds == Spec => []IInv
BY InitIInv, IInvInductive, PTL DEF Spec

(***************************************************************************)
(* Every mailbox takes casts in the order in which they were made.         *)
(***************************************************************************)
THEOREM MulticastInOrder == Spec => []InOrder
<1>1. IInv => InOrder
  BY DEF IInv
<1> QED BY <1>1, IInvHolds, PTL

(***************************************************************************)
(* The oldest cast in an inbox is not older than the last one taken.       *)
(***************************************************************************)
LEMMA ForwardStep == IInv /\ [Next]_vars => \A m \in Mailboxes : last[m] <= last'[m]
<1> SUFFICES ASSUME IInv, [Next]_vars PROVE \A m \in Mailboxes : last[m] <= last'[m]
  OBVIOUS
<1>1. CASE UNCHANGED last
  BY <1>1 DEF IInv, TypeOK
<1>2. ASSUME NEW m \in Mailboxes, Take(m) PROVE \A n \in Mailboxes : last[n] <= last'[n]
  <2>1. /\ inbox[m] \in Seq(Nat) /\ inbox[m] # <<>>
        /\ \A i \in 1 .. Len(inbox[m]) : last[m] <= inbox[m][i]
    BY <1>2 DEF Take, IInv, TypeOK, InOrder
  <2>2. Head(inbox[m]) = inbox[m][1] /\ 1 \in 1 .. Len(inbox[m])
    BY <2>1, LenProperties, EmptySeq
  <2> QED BY <1>2, <2>1, <2>2 DEF Take, IInv, TypeOK
<1> QED BY <1>1, <1>2 DEF Next, Cast, Deliver, Discard, vars

(***************************************************************************)
(* No mailbox takes an older cast after a newer one.                       *)
(***************************************************************************)
THEOREM MulticastTakesForward == Spec => TakesForward
  BY IInvHolds, ForwardStep, PTL DEF Spec, TakesForward
=============================================================================
