---------------------------- MODULE QueueProofs -----------------------------
(***************************************************************************)
(* Proofs about Queue, for any finite set of consumers and any capacity:   *)
(* type correctness, no lost wakeup, and the safety part of the claim that *)
(* the queue implements BlockingFifo.                                      *)
(***************************************************************************)
EXTENDS Queue, FiniteSetTheorems, SequenceTheorems, TLAPS

(***************************************************************************)
(* The step all three pops end with keeps the variables typed.             *)
(***************************************************************************)
LEMMA PopFrontTyped ==
  ASSUME TypeOK, NEW c \in Consumers, PopFront(c)
  PROVE  TypeOK' /\ Len(queue') = Len(queue) - 1
<1>1. Head(queue) \in Values /\ queue' \in Seq(Values) /\ Len(queue') = Len(queue) - 1
  BY HeadTailProperties DEF TypeOK, PopFront
<1>2. Len(queue) \in Nat /\ Len(queue') <= Capacity
  BY <1>1, QueueAssumption, LenProperties DEF TypeOK
<1>3. /\ call' \in [Consumers -> {"none", "pop", "popWait"}]
      /\ thread' \in [Consumers -> ThreadState]
      /\ value' \in [Consumers -> Values \cup {NoValue}]
  BY <1>1 DEF TypeOK, PopFront, ThreadState
<1>4. \A d \in Consumers : /\ call'[d] = "none" <=> thread'[d] = "running"
                           /\ thread'[d] = "expired" => call'[d] = "popWait"
  BY DEF TypeOK, PopFront, ThreadState
<1> QED BY <1>1, <1>2, <1>3, <1>4 DEF TypeOK

(***************************************************************************)
(* Type correctness: in particular the deque never outgrows m_capacity.    *)
(***************************************************************************)
LEMMA TypeOKInductive == TypeOK /\ [Next]_vars => TypeOK'
<1> SUFFICES ASSUME TypeOK, [Next]_vars PROVE TypeOK'
  OBVIOUS
<1>1. ASSUME NEW v \in Values, Push(v) PROVE TypeOK'
  <2>1. CASE UNCHANGED vars
    BY <2>1 DEF vars, TypeOK
  <2>2. CASE /\ Len(queue) < Capacity
             /\ queue' = Append(queue, v)
             /\ NotifyOne
             /\ UNCHANGED <<call, value>>
    <3>1. queue' \in Seq(Values) /\ Len(queue') <= Capacity
      BY <2>2, QueueAssumption, AppendProperties, LenProperties DEF TypeOK
    <3>2. CASE UNCHANGED thread
      BY <2>2, <3>1, <3>2 DEF TypeOK
    <3>3. CASE \E c \in Asleep : thread' = [thread EXCEPT ![c] = "woken"]
      BY <2>2, <3>1, <3>3 DEF Asleep, TypeOK, ThreadState
    <3> QED BY <2>2, <3>2, <3>3 DEF NotifyOne
  <2> QED BY <1>1, <2>1, <2>2 DEF Push
<1>2. ASSUME NEW c \in Consumers, TryPop(c) PROVE TypeOK'
  BY <1>2, PopFrontTyped DEF TryPop, vars, TypeOK
<1>3. ASSUME NEW c \in Consumers, NEW kind \in {"pop", "popWait"}, BlockingPop(c, kind)
      PROVE  TypeOK'
  <2>1. CASE PopFront(c)
    BY <2>1, PopFrontTyped
  <2>2. CASE /\ queue = <<>>
             /\ call' = [call EXCEPT ![c] = kind]
             /\ thread' = [thread EXCEPT ![c] = "asleep"]
             /\ UNCHANGED <<queue, value>>
    BY <2>2 DEF TypeOK, ThreadState
  <2> QED BY <1>3, <2>1, <2>2 DEF BlockingPop
<1>4. ASSUME NEW c \in Consumers, SpuriousWakeup(c) PROVE TypeOK'
  BY <1>4 DEF SpuriousWakeup, TypeOK, ThreadState
<1>5. ASSUME NEW c \in Consumers, Expire(c) PROVE TypeOK'
  BY <1>5 DEF Expire, TypeOK, ThreadState
<1>6. ASSUME NEW c \in Consumers, Recheck(c) PROVE TypeOK'
  <2>1. CASE PopFront(c)
    BY <2>1, PopFrontTyped
  <2>2. CASE /\ thread' = [thread EXCEPT ![c] = "asleep"]
             /\ UNCHANGED <<queue, call, value>>
    BY <1>6, <2>2 DEF Recheck, TypeOK, ThreadState
  <2>3. CASE /\ call' = [call EXCEPT ![c] = "none"]
             /\ thread' = [thread EXCEPT ![c] = "running"]
             /\ UNCHANGED <<queue, value>>
    BY <2>3 DEF TypeOK, ThreadState
  <2> QED BY <1>6, <2>1, <2>2, <2>3 DEF Recheck
<1>7. CASE UNCHANGED vars
  BY <1>7 DEF vars, TypeOK
<1> QED BY <1>1, <1>2, <1>3, <1>4, <1>5, <1>6, <1>7 DEF Next, Pop, PopWait

(***************************************************************************)
(* The queue is never longer than its capacity, and a thread that is not   *)
(* running is inside a blocking call.                                      *)
(***************************************************************************)
THEOREM QueueTyped == Spec => []TypeOK
<1>1. Init => TypeOK
  BY QueueAssumption DEF Init, TypeOK, ThreadState
<1> QED BY <1>1, TypeOKInductive, PTL DEF Spec

-----------------------------------------------------------------------------
(***************************************************************************)
(* There are finitely many contending threads, before and after a step.    *)
(***************************************************************************)
LEMMA ContendingFinite ==
  /\ IsFiniteSet(Contending) /\ Cardinality(Contending) \in Nat
  /\ IsFiniteSet(Contending') /\ Cardinality(Contending') \in Nat
<1>1. Contending \in SUBSET Consumers /\ Contending' \in SUBSET Consumers
  BY DEF Contending
<1> QED BY <1>1, QueueAssumption, FS_Subset, FS_CardinalityType

(***************************************************************************)
(* No lost wakeup.  A push adds one value and, if anyone sleeps, one       *)
(* contending thread; a thread that stops contending takes a value with it *)
(* or has seen the queue empty; a newcomer that takes a value frees the    *)
(* thread that was notified for it to find the queue empty.                *)
(***************************************************************************)
THEOREM QueueNoLostWakeup == Spec => []NoLostWakeup
<1>1. Init => NoLostWakeup
  BY DEF Init, NoLostWakeup, Asleep
<1>2. TypeOK /\ NoLostWakeup /\ [Next]_vars => NoLostWakeup'
  <2> SUFFICES ASSUME TypeOK, NoLostWakeup, [Next]_vars, Asleep' # {}
               PROVE  Len(queue') <= Cardinality(Contending')
    BY DEF NoLostWakeup
  <2>0. Len(queue) \in Nat
    BY LenProperties DEF TypeOK
  <2>1. ASSUME NEW v \in Values, Push(v) PROVE Len(queue') <= Cardinality(Contending')
    <3>1. CASE UNCHANGED vars
      BY <3>1 DEF vars, NoLostWakeup, Asleep, Contending
    <3>2. CASE queue' = Append(queue, v) /\ NotifyOne
      <4>1. PICK c \in Asleep : thread' = [thread EXCEPT ![c] = "woken"]
        BY <3>2 DEF NotifyOne, Asleep
      <4>2. c \notin Contending /\ Contending' = Contending \cup {c}
        BY <4>1 DEF Asleep, Contending, TypeOK, ThreadState
      <4>3. Cardinality(Contending') = Cardinality(Contending) + 1
        BY <4>2, ContendingFinite, FS_AddElement
      <4>4. Len(queue') = Len(queue) + 1
        BY <3>2, AppendProperties DEF TypeOK
      <4> QED BY <2>0, <4>1, <4>3, <4>4, ContendingFinite DEF NoLostWakeup
    <3> QED BY <2>1, <3>1, <3>2 DEF Push
  <2>2. ASSUME NEW c \in Consumers, thread[c] # "asleep", PopFront(c)
        PROVE  Len(queue') <= Cardinality(Contending')
    <3>1. Asleep' = Asleep /\ Contending' = Contending \ {c}
      BY <2>2 DEF PopFront, Asleep, Contending, TypeOK, ThreadState
    <3>2. Cardinality(Contending) <= Cardinality(Contending') + 1
      BY <3>1, ContendingFinite, FS_RemoveElement
    <3>3. Len(queue') = Len(queue) - 1
      BY <2>2, PopFrontTyped
    <3> QED BY <2>0, <3>1, <3>2, <3>3, ContendingFinite DEF NoLostWakeup
  <2>3. ASSUME queue = <<>>, UNCHANGED queue
        PROVE  Len(queue') <= Cardinality(Contending')
    BY <2>3, ContendingFinite
  <2>4. ASSUME NEW c \in Consumers, NEW kind, BlockingPop(c, kind) \/ TryPop(c)
        PROVE  Len(queue') <= Cardinality(Contending')
    BY <2>2, <2>3, <2>4 DEF BlockingPop, TryPop, vars, TypeOK
  <2>5. ASSUME NEW c \in Consumers, SpuriousWakeup(c) \/ Expire(c)
        PROVE  Len(queue') <= Cardinality(Contending')
    <3>1. Contending' = Contending \cup {c} /\ Asleep # {}
      BY <2>5 DEF SpuriousWakeup, Expire, Contending, Asleep, TypeOK, ThreadState
    <3>2. Cardinality(Contending) <= Cardinality(Contending')
      BY <3>1, ContendingFinite, FS_AddElement
    <3> QED BY <2>0, <2>5, <3>1, <3>2, ContendingFinite
            DEF SpuriousWakeup, Expire, NoLostWakeup
  <2>6. ASSUME NEW c \in Consumers, Recheck(c)
        PROVE  Len(queue') <= Cardinality(Contending')
    BY <2>2, <2>3, <2>6 DEF Recheck
  <2>7. CASE UNCHANGED vars
    BY <2>7 DEF vars, NoLostWakeup, Asleep, Contending
  <2> QED BY <2>1, <2>4, <2>5, <2>6, <2>7 DEF Next, Pop, PopWait
<1> QED BY <1>1, <1>2, QueueTyped, PTL DEF Spec

-----------------------------------------------------------------------------
(***************************************************************************)
(* The safety part of ImplementsFifo: values leave in the order in which   *)
(* they entered, each once, only an empty queue blocks a caller, and only  *)
(* a timed wait on an empty queue gives up.                                *)
(***************************************************************************)
THEOREM QueueIsFifo == Spec => Fifo!Spec
<1>1. Init => Fifo!Init
  BY DEF Init, Fifo!Init
<1>2. TypeOK /\ [Next]_vars => [Fifo!Next]_Fifo!vars
  <2> SUFFICES ASSUME TypeOK, [Next]_vars PROVE [Fifo!Next]_Fifo!vars
    OBVIOUS
  <2>1. ASSUME NEW v \in Values, Push(v) PROVE Fifo!Put(v) \/ UNCHANGED Fifo!vars
    BY <2>1 DEF Push, Fifo!Put, Fifo!vars, vars
  <2>2. ASSUME NEW c \in Consumers, PopFront(c) PROVE Fifo!Take(c)
    BY <2>2 DEF PopFront, Fifo!Take
  <2>3. ASSUME NEW c \in Consumers, NEW kind \in {"pop", "popWait"}, BlockingPop(c, kind)
        PROVE  Fifo!Take(c) \/ Fifo!Block(c, kind)
    BY <2>2, <2>3 DEF BlockingPop, Fifo!Block
  <2>4. ASSUME NEW c \in Consumers, Recheck(c)
        PROVE  Fifo!Take(c) \/ Fifo!GiveUp(c) \/ UNCHANGED Fifo!vars
    BY <2>2, <2>4 DEF Recheck, Fifo!GiveUp, Fifo!vars, TypeOK
  <2>5. ASSUME NEW c \in Consumers, SpuriousWakeup(c) \/ Expire(c)
        PROVE  UNCHANGED Fifo!vars
    BY <2>5 DEF SpuriousWakeup, Expire, Fifo!vars
  <2>6. ASSUME NEW c \in Consumers, TryPop(c) PROVE Fifo!Take(c) \/ UNCHANGED Fifo!vars
    BY <2>2, <2>6 DEF TryPop, Fifo!vars, vars
  <2>7. CASE UNCHANGED vars
    BY <2>7 DEF vars, Fifo!vars
  <2> QED BY <2>1, <2>3, <2>4, <2>5, <2>6, <2>7 DEF Next, Pop, PopWait, Fifo!Next
<1> QED BY <1>1, <1>2, QueueTyped, PTL DEF Spec, Fifo!Spec
=============================================================================
