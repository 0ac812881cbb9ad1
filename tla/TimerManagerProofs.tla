------------------------- MODULE TimerManagerProofs -------------------------
(***************************************************************************)
(* Proofs about TimerManager.tla, for any labels, times and memory size.   *)
(* First what the helpers Place, CreateTimer, Delete and Cancel do to the  *)
(* state, then one invariant after the other, each from those before it.   *)
(***************************************************************************)
EXTENDS TimerManager, TLAPS

(***************************************************************************)
(* A new Timer leaves the others where they are.                           *)
(***************************************************************************)
LEMMA PlaceStep ==
  ASSUME TypeOK, NEW l \in Labels, NEW type \in Types, NEW k \in Addresses,
         Len(memory) < MaxTimers, Place(l, type, k)
  PROVE  /\ memory' \in Seq(Timer)
         /\ Len(memory') = Len(memory) + 1
         /\ DOMAIN memory' = DOMAIN memory \cup {Len(memory) + 1}
         /\ Len(memory) + 1 \notin DOMAIN memory
         /\ Len(memory) + 1 \in Addresses
         /\ \A a \in DOMAIN memory : memory'[a] = memory[a]
         /\ memory'[Len(memory) + 1] = [label |-> l, type |-> type, timer |-> k]
         /\ timers' \in [Labels -> DOMAIN memory' \cup {NoTimer}]
<1> DEFINE new == [label |-> l, type |-> type, timer |-> k]
<1>1. memory \in Seq(Timer) /\ new \in Timer /\ memory' = Append(memory, new)
  BY DEF TypeOK, Timer, Place
<1>2. DOMAIN memory = 1 .. Len(memory) /\ Len(memory) \in Nat
  BY <1>1
<1> HIDE DEF new
<1>3. /\ memory' \in Seq(Timer)
      /\ Len(memory') = Len(memory) + 1
      /\ \A a \in 1 .. Len(memory) : memory'[a] = memory[a]
      /\ memory'[Len(memory) + 1] = new
  BY <1>1
<1>4. DOMAIN memory' = DOMAIN memory \cup {Len(memory) + 1}
  BY <1>2, <1>3
<1>5. timers' \in [Labels -> DOMAIN memory' \cup {NoTimer}]
  BY <1>4 DEF TypeOK, Place
<1>6. Len(memory) + 1 \notin DOMAIN memory /\ Len(memory) + 1 \in Addresses
  BY <1>2, TimerAssumption DEF Addresses
<1> QED BY <1>2, <1>3, <1>4, <1>5, <1>6 DEF new

(***************************************************************************)
(* A new kernel timer leaves the others as they are.                       *)
(***************************************************************************)
LEMMA CreateStep ==
  ASSUME TypeOK, NEW state \in {"idle", "armed"}, Len(memory) < MaxTimers,
         CreateTimer(state)
  PROVE  /\ kernel' \in Seq(KernelTimer)
         /\ Len(kernel') = Len(kernel) + 1
         /\ DOMAIN kernel' = DOMAIN kernel \cup {Len(kernel) + 1}
         /\ Len(kernel) + 1 \in Addresses
         /\ \A k \in DOMAIN kernel : kernel'[k] = kernel[k]
         /\ kernel'[Len(kernel) + 1] = [address |-> Len(memory) + 1, state |-> state]
<1> DEFINE new == [address |-> Len(memory) + 1, state |-> state]
<1>1. Len(memory) \in Nat /\ Len(kernel) \in Nat /\ Len(kernel) <= Len(memory)
  BY DEF TypeOK
<1>2. kernel \in Seq(KernelTimer) /\ new \in KernelTimer /\ kernel' = Append(kernel, new)
  BY <1>1, TimerAssumption DEF TypeOK, KernelTimer, CreateTimer, Addresses
<1> HIDE DEF new
<1>3. /\ kernel' \in Seq(KernelTimer)
      /\ Len(kernel') = Len(kernel) + 1
      /\ \A k \in 1 .. Len(kernel) : kernel'[k] = kernel[k]
      /\ kernel'[Len(kernel) + 1] = new
      /\ DOMAIN kernel = 1 .. Len(kernel)
  BY <1>2
<1>4. DOMAIN kernel' = DOMAIN kernel \cup {Len(kernel) + 1}
  BY <1>1, <1>3
<1>5. Len(kernel) + 1 \in Addresses
  BY <1>1, TimerAssumption DEF Addresses
<1> QED BY <1>3, <1>4, <1>5 DEF new

(***************************************************************************)
(* cancelTimer deletes the kernel timer that the label's Timer names, and  *)
(* no other.                                                               *)
(***************************************************************************)
LEMMA CancelStep ==
  ASSUME TypeOK, NEW l \in Labels, Cancel(l)
  PROVE  /\ kernel' \in Seq(KernelTimer)
         /\ Len(kernel') = Len(kernel)
         /\ DOMAIN kernel' = DOMAIN kernel
         /\ \A k \in DOMAIN kernel :
              /\ kernel'[k].address = kernel[k].address
              /\ kernel'[k].state \in {kernel[k].state, "deleted"}
              /\ timers[l] # NoTimer /\ memory[timers[l]].timer = k
                   => kernel'[k].state = "deleted"
         /\ pending' \subseteq pending
         /\ timers' = [timers EXCEPT ![l] = NoTimer]
<1>1. CASE timers[l] = NoTimer
  <2>1. timers' = timers /\ timers = [timers EXCEPT ![l] = NoTimer]
    BY <1>1 DEF TypeOK, Cancel
  <2> QED BY <1>1, <2>1 DEF Cancel, kernelVars, TypeOK
<1>2. CASE timers[l] # NoTimer
  <2> DEFINE d == memory[timers[l]].timer
  <2>1. Delete(d) /\ timers' = [timers EXCEPT ![l] = NoTimer]
    BY <1>2 DEF Cancel
  <2> HIDE DEF d
  <2>2. CASE d \notin DOMAIN kernel
    BY <2>1, <2>2 DEF Delete, kernelVars, TypeOK, d
  <2>3. CASE d \in DOMAIN kernel
    <3>1. kernel' = [kernel EXCEPT ![d].state = "deleted"] /\ pending' \subseteq pending
      BY <2>1, <2>3 DEF Delete, kernelVars
    <3>2. kernel \in Seq(KernelTimer) /\ kernel[d] \in KernelTimer
      BY <2>3 DEF TypeOK
    <3>3. [kernel[d] EXCEPT !.state = "deleted"] \in KernelTimer
      BY <3>2 DEF KernelTimer
    <3>4. kernel' = [kernel EXCEPT ![d] = [kernel[d] EXCEPT !.state = "deleted"]]
      BY <3>1
    <3>5. kernel' \in Seq(KernelTimer) /\ Len(kernel') = Len(kernel)
      BY <2>3, <3>2, <3>3, <3>4
    <3>6. DOMAIN kernel' = DOMAIN kernel
      BY <3>4
    <3>7. ASSUME NEW k \in DOMAIN kernel
          PROVE  /\ kernel'[k].address = kernel[k].address
                 /\ kernel'[k].state \in {kernel[k].state, "deleted"}
                 /\ d = k => kernel'[k].state = "deleted"
      <4>1. kernel[k] \in KernelTimer
        BY <3>2
      <4> QED BY <3>2, <3>4, <4>1 DEF KernelTimer
    <3> QED BY <2>1, <3>1, <3>5, <3>6, <3>7 DEF d
  <2> QED BY <2>2, <2>3
<1> QED BY <1>1, <1>2

-----------------------------------------------------------------------------
\* Every step is one of these; StartTimer by what became of its constructor.
Starts(l, type, state) ==
  Place(l, type, Len(kernel) + 1) /\ CreateTimer(state)

(***************************************************************************)
(* The types of what StartTimer changes.                                   *)
(***************************************************************************)
LEMMA StartTyped ==
  ASSUME TypeOK, NEW l \in Labels, NEW type \in Types, NEW time \in Times,
         StartTimer(l, type, time)
  PROVE  TypeOK'
<1>1. /\ Len(memory) \in Nat /\ Len(kernel) \in Nat /\ Len(kernel) <= Len(memory)
      /\ Len(memory) < MaxTimers
  BY DEF TypeOK, StartTimer
<1>2. ASSUME NEW state \in {"idle", "armed"}, Starts(l, type, state),
             started' \in SUBSET (started \cup {Len(memory) + 1})
      PROVE  TypeOK'
  <2>1. Len(kernel) + 1 \in Addresses
    BY <1>1, TimerAssumption DEF Addresses
  <2>2. Place(l, type, Len(kernel) + 1) /\ CreateTimer(state)
    BY <1>2 DEF Starts
  <2>3. /\ memory' \in Seq(Timer)
        /\ Len(memory') = Len(memory) + 1
        /\ DOMAIN memory' = DOMAIN memory \cup {Len(memory) + 1}
        /\ timers' \in [Labels -> DOMAIN memory' \cup {NoTimer}]
    BY <2>1, <2>2, <1>1, PlaceStep
  <2>4. /\ kernel' \in Seq(KernelTimer)
        /\ Len(kernel') = Len(kernel) + 1
        /\ DOMAIN kernel' = DOMAIN kernel \cup {Len(kernel) + 1}
        /\ \A k \in DOMAIN kernel : kernel'[k] = kernel[k]
        /\ kernel'[Len(kernel) + 1].address = Len(memory) + 1
    BY <2>2, <1>1, CreateStep
  <2>5. Len(memory') <= MaxTimers /\ Len(kernel') <= Len(memory')
    BY <2>3, <2>4, <1>1, TimerAssumption
  <2>6. \A k \in DOMAIN kernel' : kernel'[k].address \in DOMAIN memory'
    BY <2>3, <2>4 DEF TypeOK
  <2> QED BY <2>3, <2>4, <2>5, <2>6, <1>2 DEF TypeOK, StartTimer
<1>3. ASSUME Place(l, type, NullTimer), UNCHANGED <<kernel, started>>
      PROVE  TypeOK'
  <2>1. NullTimer \in Addresses
    BY <1>1, TimerAssumption DEF Addresses, NullTimer
  <2>2. /\ memory' \in Seq(Timer)
        /\ Len(memory') = Len(memory) + 1
        /\ DOMAIN memory' = DOMAIN memory \cup {Len(memory) + 1}
        /\ timers' \in [Labels -> DOMAIN memory' \cup {NoTimer}]
    BY <2>1, <1>1, <1>3, PlaceStep
  <2>3. Len(memory') <= MaxTimers /\ Len(kernel') <= Len(memory')
    BY <2>2, <1>1, <1>3, TimerAssumption
  <2> QED BY <2>2, <2>3, <1>3 DEF TypeOK, StartTimer
<1> QED BY <1>2, <1>3 DEF StartTimer, Starts

LEMMA SignalTyped ==
  ASSUME TypeOK, handler # NoTimer, Signal(handler)
  PROVE  /\ fired' \in SUBSET DOMAIN memory
         /\ late' \in [Addresses -> Nat]
         /\ phase' \in {"absent", "running", "stopping", "stopped"}
<1>1. DOMAIN memory \in SUBSET Addresses
  BY TimerAssumption DEF TypeOK, Addresses
<1>2. handler \in DOMAIN memory /\ fired' = fired \cup {handler}
  BY DEF TypeOK, Signal
<1>3. late' \in [Addresses -> Nat]
  BY <1>1, <1>2 DEF TypeOK, Signal
<1>4. phase' \in {"absent", "running", "stopping", "stopped"}
  BY DEF TypeOK, Signal
<1> QED BY <1>2, <1>3, <1>4 DEF TypeOK

LEMMA TypeOKInductive == TypeOK /\ [Next]_vars => TypeOK'
<1> SUFFICES ASSUME TypeOK, [Next]_vars PROVE TypeOK'
  OBVIOUS
<1>1. CASE Initialize \/ Shutdown \/ Exit
  BY <1>1 DEF Initialize, Shutdown, Exit, TypeOK, kernelVars, historyVars
<1>2. ASSUME NEW l \in Labels, CancelTimer(l) PROVE TypeOK'
  BY <1>2, CancelStep DEF CancelTimer, TypeOK
<1>3. ASSUME NEW k \in DOMAIN kernel, Expire(k) PROVE TypeOK'
  <2>1. kernel[k] \in KernelTimer /\ kernel \in Seq(KernelTimer)
    BY <1>3 DEF TypeOK
  <2>2. [kernel[k] EXCEPT !.state = "expired"] \in KernelTimer
    BY <2>1 DEF KernelTimer
  <2>3. \/ kernel' = kernel
        \/ kernel' = [kernel EXCEPT ![k] = [kernel[k] EXCEPT !.state = "expired"]]
    BY <1>3 DEF Expire
  <2>4. /\ kernel' \in Seq(KernelTimer)
        /\ Len(kernel') = Len(kernel)
        /\ DOMAIN kernel' = DOMAIN kernel
        /\ \A j \in DOMAIN kernel : kernel'[j].address = kernel[j].address
    BY <2>1, <2>2, <2>3 DEF KernelTimer
  <2> QED BY <1>3, <2>4 DEF Expire, TypeOK, historyVars
<1>4. ASSUME NEW a \in pending, Dequeue(a) PROVE TypeOK'
  BY <1>4 DEF Dequeue, TypeOK, historyVars
<1>5. CASE TimerEvent
  <2>1. memory[handler].label \in Labels
    <3>1. memory \in Seq(Timer) /\ handler \in DOMAIN memory
      BY <1>5 DEF TimerEvent, TypeOK
    <3>2. memory[handler] \in Timer
      BY <3>1
    <3> QED BY <3>2 DEF Timer
  <2>2. CASE Cancel(memory[handler].label)
    <3>1. /\ kernel' \in Seq(KernelTimer)
          /\ Len(kernel') = Len(kernel)
          /\ DOMAIN kernel' = DOMAIN kernel
          /\ \A k \in DOMAIN kernel : kernel'[k].address = kernel[k].address
          /\ pending' \subseteq pending
          /\ timers' \in [Labels -> DOMAIN memory \cup {NoTimer}]
      BY <2>1, <2>2, CancelStep DEF TypeOK
    <3> QED BY <1>5, <3>1, SignalTyped DEF TimerEvent, Signal, TypeOK
  <2>3. CASE UNCHANGED <<timers, kernelVars>>
    BY <1>5, <2>3, SignalTyped DEF TimerEvent, Signal, TypeOK, kernelVars
  <2> QED BY <1>5, <2>2, <2>3 DEF TimerEvent
<1>6. CASE UNCHANGED vars
  BY <1>6 DEF vars, TypeOK, kernelVars, historyVars
<1> QED BY <1>1, <1>2, <1>3, <1>4, <1>5, <1>6, StartTyped DEF Next

(***************************************************************************)
(* The types of the state of TimerManager: m_timers, signals and kernel    *)
(* timers refer to allocated Timers only, and there are at most MaxTimers. *)
(***************************************************************************)
THEOREM TimersTyped == Spec => []TypeOK
<1>1. Init => TypeOK
  BY TimerAssumption DEF Init, TypeOK
<1> QED BY <1>1, TypeOKInductive, PTL DEF Spec

-----------------------------------------------------------------------------
(***************************************************************************)
(* A kernel timer is the one that its own Timer names: cancelling that     *)
(* Timer stops it.  The converse is not true, see MistakenForNull.         *)
(***************************************************************************)
Linked == \A k \in DOMAIN kernel : memory[kernel[k].address].timer = k

RegisteredInv == TypeOK /\ Linked /\ ArmedRegistered

LEMMA StartRegistered ==
  ASSUME RegisteredInv, NEW l \in Labels, NEW type \in Types, NEW time \in Times,
         StartTimer(l, type, time)
  PROVE  (Linked /\ ArmedRegistered)'
<1> DEFINE n == Len(memory) + 1
<1>1. /\ TypeOK /\ Linked /\ ArmedRegistered
      /\ Len(memory) < MaxTimers /\ timers[l] = NoTimer
  BY DEF RegisteredInv, StartTimer
<1>2. /\ Len(memory) \in Nat /\ Len(kernel) \in Nat /\ Len(kernel) <= Len(memory)
      /\ \A k \in DOMAIN kernel : kernel[k].address \in DOMAIN memory
  BY <1>1 DEF TypeOK
<1>3. ASSUME NEW state \in {"idle", "armed"}, Starts(l, type, state)
      PROVE  (Linked /\ ArmedRegistered)'
  <2>1. Len(kernel) + 1 \in Addresses
    BY <1>1, <1>2, TimerAssumption DEF Addresses
  <2>2. /\ DOMAIN memory' = DOMAIN memory \cup {n}
        /\ n \notin DOMAIN memory
        /\ \A a \in DOMAIN memory : memory'[a] = memory[a]
        /\ memory'[n].timer = Len(kernel) + 1
        /\ memory'[n].label = l
    <3>1. Place(l, type, Len(kernel) + 1)
      BY <1>3 DEF Starts
    <3>2. memory'[n] = [label |-> l, type |-> type, timer |-> Len(kernel) + 1]
      BY <1>1, <2>1, <3>1, PlaceStep
    <3>3. /\ DOMAIN memory' = DOMAIN memory \cup {n}
          /\ n \notin DOMAIN memory
          /\ \A a \in DOMAIN memory : memory'[a] = memory[a]
      BY <1>1, <2>1, <3>1, PlaceStep
    <3> QED BY <3>2, <3>3
  <2>3. /\ DOMAIN kernel' = DOMAIN kernel \cup {Len(kernel) + 1}
        /\ \A k \in DOMAIN kernel : kernel'[k] = kernel[k]
        /\ kernel'[Len(kernel) + 1].address = n
        /\ kernel'[Len(kernel) + 1].state = state
    BY <1>1, <1>3, CreateStep DEF Starts
  <2>4. timers' = [timers EXCEPT ![l] = n]
    BY <1>3 DEF Starts, Place
  <2>5. Linked'
    BY <1>1, <1>2, <2>2, <2>3 DEF Linked
  <2>6. ASSUME NEW a \in DOMAIN memory', Armed(a)' PROVE timers'[memory'[a].label] = a
    <3>1. CASE a = n
      BY <1>1, <2>2, <2>4, <3>1 DEF TypeOK
    <3>2. CASE a \in DOMAIN memory
      <4>1. Armed(a)
        BY <2>2, <2>3, <2>6, <3>2 DEF Armed, InState
      <4>2. timers[memory[a].label] = a /\ a # NoTimer
        BY <1>1, <3>2, <4>1, TimerAssumption DEF ArmedRegistered, TypeOK
      <4> QED BY <1>1, <2>2, <2>4, <3>2, <4>2 DEF TypeOK
    <3> QED BY <2>2, <3>1, <3>2
  <2> QED BY <2>5, <2>6 DEF ArmedRegistered
<1>4. ASSUME Place(l, type, NullTimer), UNCHANGED kernel
      PROVE  (Linked /\ ArmedRegistered)'
  <2>1. NullTimer \in Addresses
    BY <1>1, <1>2, TimerAssumption DEF Addresses, NullTimer
  <2>2. /\ DOMAIN memory' = DOMAIN memory \cup {n}
        /\ n \notin DOMAIN memory
        /\ \A a \in DOMAIN memory : memory'[a] = memory[a]
    BY <1>1, <1>4, <2>1, PlaceStep
  <2>3. timers' = [timers EXCEPT ![l] = n]
    BY <1>4 DEF Place
  <2>4. Linked'
    BY <1>1, <1>2, <1>4, <2>2 DEF Linked
  <2>5. ASSUME NEW a \in DOMAIN memory', Armed(a)' PROVE timers'[memory'[a].label] = a
    <3>1. Armed(a) /\ a \in DOMAIN memory
      BY <1>2, <1>4, <2>5 DEF Armed, InState
    <3>2. timers[memory[a].label] = a /\ a # NoTimer
      BY <1>1, <3>1, TimerAssumption DEF ArmedRegistered, TypeOK
    <3> QED BY <1>1, <2>2, <2>3, <3>1, <3>2 DEF TypeOK
  <2> QED BY <2>4, <2>5 DEF ArmedRegistered
<1> QED BY <1>3, <1>4 DEF StartTimer, Starts

LEMMA CancelRegistered ==
  ASSUME RegisteredInv, NEW l \in Labels, Cancel(l), UNCHANGED memory
  PROVE  (Linked /\ ArmedRegistered)'
<1>1. TypeOK /\ Linked /\ ArmedRegistered
  BY DEF RegisteredInv
<1>2. /\ DOMAIN kernel' = DOMAIN kernel
      /\ \A k \in DOMAIN kernel :
           /\ kernel'[k].address = kernel[k].address
           /\ kernel'[k].state \in {kernel[k].state, "deleted"}
           /\ timers[l] # NoTimer /\ memory[timers[l]].timer = k
                => kernel'[k].state = "deleted"
      /\ timers' = [timers EXCEPT ![l] = NoTimer]
  BY <1>1, CancelStep
<1>3. Linked'
  BY <1>1, <1>2 DEF Linked
<1>4. ASSUME NEW a \in DOMAIN memory, Armed(a)' PROVE timers'[memory[a].label] = a
  <2>1. PICK k \in DOMAIN kernel : kernel'[k].address = a /\ kernel'[k].state = "armed"
    BY <1>2, <1>4 DEF Armed, InState
  <2>2. kernel[k].address = a /\ kernel[k].state = "armed" /\ memory[a].timer = k
    BY <1>1, <1>2, <2>1 DEF Linked
  <2>3. timers[memory[a].label] = a /\ a # NoTimer
    BY <1>1, <2>2, TimerAssumption DEF Armed, InState, ArmedRegistered, TypeOK
  <2>4. memory[a].label # l
    BY <1>2, <2>1, <2>2, <2>3
  <2> QED BY <1>1, <1>2, <2>3, <2>4 DEF TypeOK
<1> QED BY <1>3, <1>4 DEF ArmedRegistered

LEMMA RegisteredInductive == RegisteredInv /\ [Next]_vars => RegisteredInv'
<1> SUFFICES ASSUME RegisteredInv, [Next]_vars PROVE (Linked /\ ArmedRegistered)'
  BY TypeOKInductive DEF RegisteredInv
<1>1. TypeOK /\ Linked /\ ArmedRegistered
  BY DEF RegisteredInv
<1>2. ASSUME UNCHANGED <<memory, timers, kernel>> PROVE (Linked /\ ArmedRegistered)'
  BY <1>1, <1>2 DEF Linked, ArmedRegistered, Armed, InState
<1>3. CASE Initialize \/ Shutdown \/ Exit \/ UNCHANGED vars
  BY <1>2, <1>3 DEF Initialize, Shutdown, Exit, vars, kernelVars
<1>4. ASSUME NEW a \in pending, Dequeue(a) PROVE (Linked /\ ArmedRegistered)'
  BY <1>2, <1>4 DEF Dequeue
<1>5. ASSUME NEW l \in Labels, CancelTimer(l) PROVE (Linked /\ ArmedRegistered)'
  BY <1>5, CancelRegistered DEF CancelTimer
<1>6. ASSUME NEW k \in DOMAIN kernel, Expire(k) PROVE (Linked /\ ArmedRegistered)'
  <2>1. /\ DOMAIN kernel' = DOMAIN kernel
        /\ \A j \in DOMAIN kernel :
             /\ kernel'[j].address = kernel[j].address
             /\ kernel'[j].state \in {kernel[j].state, "expired"}
    <3>1. \A j \in DOMAIN kernel : kernel[j] \in KernelTimer
      BY <1>1 DEF TypeOK
    <3>2. \/ kernel' = kernel
          \/ kernel' = [kernel EXCEPT ![k] = [kernel[k] EXCEPT !.state = "expired"]]
      BY <1>6 DEF Expire
    <3> QED BY <3>1, <3>2 DEF KernelTimer
  <2>2. \A a \in DOMAIN memory : Armed(a)' => Armed(a)
    BY <2>1 DEF Armed, InState
  <2> QED BY <1>1, <1>6, <2>1, <2>2 DEF Expire, Linked, ArmedRegistered
<1>7. CASE TimerEvent
  <2>1. memory \in Seq(Timer) /\ handler \in DOMAIN memory /\ UNCHANGED memory
    BY <1>1, <1>7 DEF TimerEvent, TypeOK, Signal
  <2>2. memory[handler] \in Timer
    BY <2>1
  <2>3. memory[handler].label \in Labels
    BY <2>2 DEF Timer
  <2> QED BY <1>2, <1>7, <2>1, <2>3, CancelRegistered DEF TimerEvent, kernelVars
<1> QED BY <1>3, <1>4, <1>5, <1>6, <1>7, StartRegistered DEF Next

(***************************************************************************)
(* Whatever goes off can be cancelled: a kernel timer that is armed is the *)
(* one m_timers has for its label, after failed constructors, late events  *)
(* and cancellations in any order.                                         *)
(***************************************************************************)
THEOREM TimersArmedRegistered == Spec => []ArmedRegistered
<1>1. Init => RegisteredInv
  BY TimerAssumption DEF Init, TypeOK, RegisteredInv, Linked, ArmedRegistered
<1> QED BY <1>1, RegisteredInductive, PTL DEF Spec, RegisteredInv

-----------------------------------------------------------------------------
Count(P) == IF P THEN 1 ELSE 0

(***************************************************************************)
(* The signals of Timer a that count as late, now or once it is cancelled: *)
(* those sent, the one that is pending, the one in hand.                   *)
(***************************************************************************)
Signals(a) == late[a] + Count(a \in pending) + Count(handler = a)

(***************************************************************************)
(* A cancelled Timer cannot expire again, and a one-shot Timer never has   *)
(* more than one signal, counting the one it is still armed for.           *)
(***************************************************************************)
LateInv ==
  /\ \A a \in Addresses : a \notin cancelled => late[a] = 0
  /\ \A a \in cancelled : ~Armed(a)
  /\ \A a \in DOMAIN memory :
       IF memory[a].type = "ONE_SHOT"
         THEN Signals(a) <= 1 /\ (Armed(a) => Signals(a) = 0)
         ELSE Signals(a) <= 2

\* What holds of a Timer that is not the subject of a step goes on to hold.
LEMMA SignalsTyped ==
  ASSUME TypeOK, NEW a \in DOMAIN memory
  PROVE  a \in Addresses /\ late[a] \in Nat /\ Signals(a) \in Nat /\ late[a] <= Signals(a)
<1>1. a \in Addresses
  BY TimerAssumption DEF TypeOK, Addresses
<1>2. late[a] \in Nat
  BY <1>1 DEF TypeOK
<1>3. Count(a \in pending) \in Nat /\ Count(handler = a) \in Nat
  BY DEF Count
<1> QED BY <1>1, <1>2, <1>3 DEF Signals

(***************************************************************************)
(* A step that arms nothing and adds no signal, and cancels only Timers    *)
(* that it leaves disarmed.                                                *)
(***************************************************************************)
LEMMA NoMoreSignals ==
  ASSUME TypeOK, LateInv, UNCHANGED memory,
         \A a \in DOMAIN memory : Armed(a)' => Armed(a),
         \A a \in DOMAIN memory : Signals(a)' <= Signals(a) /\ Signals(a)' \in Nat,
         \A a \in Addresses : a \notin cancelled' => late'[a] = 0,
         \A a \in cancelled' : a \in DOMAIN memory /\ (a \in cancelled \/ ~Armed(a)')
  PROVE  LateInv'
<1>1. \A a \in DOMAIN memory : Signals(a) \in Nat
  BY SignalsTyped
<1>2. \A a \in cancelled' : ~Armed(a)'
  BY DEF LateInv
<1> QED BY <1>1, <1>2 DEF LateInv

\* Signals of a step that leaves late and the signal in hand alone.
LEMMA PendingShrinks ==
  ASSUME TypeOK, NEW a \in DOMAIN memory,
         pending' \subseteq pending, UNCHANGED <<handler, late>>
  PROVE  Signals(a)' <= Signals(a) /\ Signals(a)' \in Nat
<1>1. late[a] \in Nat
  BY SignalsTyped
<1>2. /\ Count(a \in pending)' \in Nat /\ Count(a \in pending) \in Nat
      /\ Count(a \in pending)' <= Count(a \in pending)
      /\ Count(handler = a)' = Count(handler = a) /\ Count(handler = a) \in Nat
  BY DEF Count
<1> QED BY <1>1, <1>2 DEF Signals

LEMMA StartLate ==
  ASSUME TypeOK, LateInv,
         NEW l \in Labels, NEW type \in Types, NEW time \in Times,
         StartTimer(l, type, time)
  PROVE  LateInv'
<1>1. /\ Len(memory) \in Nat /\ Len(kernel) \in Nat /\ Len(kernel) <= Len(memory)
      /\ Len(memory) < MaxTimers
      /\ \A k \in DOMAIN kernel : kernel[k].address \in DOMAIN memory
  BY DEF TypeOK, StartTimer
<1> PICK n \in Nat : n = Len(memory) + 1
  BY <1>1
<1>2. /\ DOMAIN memory' = DOMAIN memory \cup {n}
      /\ n \notin DOMAIN memory /\ n \in Addresses
      /\ \A a \in DOMAIN memory : memory'[a] = memory[a]
  <2>1. PICK k \in Addresses : Place(l, type, k)
    <3>1. Len(kernel) + 1 \in Addresses /\ NullTimer \in Addresses
      BY <1>1, TimerAssumption DEF Addresses, NullTimer
    <3>2. Place(l, type, Len(kernel) + 1) \/ Place(l, type, NullTimer)
      BY DEF StartTimer
    <3> QED BY <3>1, <3>2
  <2> QED BY <1>1, <2>1, PlaceStep
<1>3. \A a \in DOMAIN memory : Armed(a)' => Armed(a)
  <2>1. CASE UNCHANGED kernel
    BY <2>1 DEF Armed, InState
  <2>2. ASSUME NEW state \in {"idle", "armed"}, CreateTimer(state)
        PROVE  \A a \in DOMAIN memory : Armed(a)' => Armed(a)
    <3>1. /\ DOMAIN kernel' = DOMAIN kernel \cup {Len(kernel) + 1}
          /\ \A k \in DOMAIN kernel : kernel'[k] = kernel[k]
          /\ kernel'[Len(kernel) + 1].address = n
      BY <1>1, <2>2, CreateStep
    <3> QED BY <1>2, <3>1 DEF Armed, InState
  <2>3. UNCHANGED kernel \/ CreateTimer("idle") \/ CreateTimer("armed")
    BY DEF StartTimer
  <2> QED BY <2>1, <2>2, <2>3
<1>4. UNCHANGED <<pending, handler, cancelled, late>>
  BY DEF StartTimer
<1>5. \A a \in DOMAIN memory : Signals(a)' = Signals(a)
  BY <1>4 DEF Signals, Count
<1>6. Signals(n)' = 0
  <2>1. n \notin pending /\ n \notin cancelled /\ handler # n
    BY <1>1, <1>2, TimerAssumption DEF TypeOK
  <2>2. late[n] = 0
    BY <1>2, <2>1 DEF LateInv
  <2>3. late'[n] = 0 /\ n \notin pending' /\ handler' # n
    BY <1>4, <2>1, <2>2
  <2> QED BY <2>3 DEF Signals, Count
<1>7. \A a \in cancelled : a \in DOMAIN memory
  BY DEF TypeOK
<1> QED BY <1>2, <1>3, <1>4, <1>5, <1>6, <1>7 DEF LateInv

LEMMA ExpireLate ==
  ASSUME RegisteredInv, LateInv, NEW k \in DOMAIN kernel, Expire(k)
  PROVE  LateInv'
<1> PICK e \in DOMAIN memory : e = kernel[k].address
  BY DEF RegisteredInv, TypeOK
<1>1. /\ TypeOK /\ Linked
      /\ UNCHANGED <<memory, handler, cancelled, late>>
      /\ pending' = pending \cup {e} /\ e \notin pending
      /\ \A j \in DOMAIN kernel : kernel[j] \in KernelTimer
  BY DEF RegisteredInv, Expire, historyVars, TypeOK
<1>2. /\ DOMAIN kernel' = DOMAIN kernel
      /\ \A j \in DOMAIN kernel :
           /\ kernel'[j].address = kernel[j].address
           /\ kernel'[j].state \in {kernel[j].state, "expired"}
      /\ memory[e].type = "ONE_SHOT" => kernel'[k].state = "expired"
  <2>1. \/ kernel' = kernel /\ memory[e].type # "ONE_SHOT"
        \/ kernel' = [kernel EXCEPT ![k] = [kernel[k] EXCEPT !.state = "expired"]]
    BY DEF Expire
  <2> QED BY <1>1, <2>1 DEF KernelTimer
<1>3. /\ Armed(e)
      /\ \A a \in DOMAIN memory : Armed(a)' => Armed(a)
      /\ memory[e].type = "ONE_SHOT" => ~Armed(e)'
  <2>1. Armed(e)
    BY DEF Expire, Armed, InState
  <2>2. \A a \in DOMAIN memory : Armed(a)' => Armed(a)
    BY <1>2 DEF Armed, InState
  <2>3. ASSUME memory[e].type = "ONE_SHOT" PROVE ~Armed(e)'
    <3>1. \A j \in DOMAIN kernel : kernel[j].address = e => j = k
      BY <1>1 DEF Linked
    <3> QED BY <1>2, <2>3, <3>1 DEF Armed, InState
  <2> QED BY <2>1, <2>2, <2>3
<1>4. late[e] = 0
  BY <1>1, <1>3, SignalsTyped DEF LateInv
<1>5. \A a \in DOMAIN memory : a # e => Signals(a)' = Signals(a)
  BY <1>1 DEF Signals, Count
<1>6. Signals(e) \in {0, 1} /\ Signals(e)' = Signals(e) + 1
  <2>1. Count(e \in pending) = 0 /\ Count(e \in pending)' = 1
    BY <1>1 DEF Count
  <2>2. Count(handler = e)' = Count(handler = e) /\ Count(handler = e) \in {0, 1}
    BY <1>1 DEF Count
  <2> QED BY <1>1, <1>4, <2>1, <2>2 DEF Signals
<1>7. \A a \in cancelled : a \in DOMAIN memory
  BY <1>1 DEF TypeOK
<1> QED BY <1>1, <1>3, <1>5, <1>6, <1>7 DEF LateInv

LEMMA TimerEventLate ==
  ASSUME TypeOK, LateInv, TimerEvent
  PROVE  LateInv'
<1> PICK h \in DOMAIN memory : h = handler
  BY DEF TypeOK, TimerEvent
<1>1. /\ h \in Addresses /\ h # NoTimer
      /\ handler' = NoTimer
      /\ late' = IF h \in cancelled THEN [late EXCEPT ![h] = @ + 1] ELSE late
      /\ UNCHANGED <<memory, cancelled>>
  BY SignalsTyped, TimerAssumption DEF TimerEvent, Signal, Addresses
<1> memory[h].label \in Labels
  <2>1. memory \in Seq(Timer)
    BY DEF TypeOK
  <2>2. memory[h] \in Timer
    BY <2>1
  <2> QED BY <2>2 DEF Timer
<1>2. \A a \in DOMAIN memory : Armed(a)' => Armed(a)
  <2>2. CASE Cancel(memory[h].label)
    <3>1. /\ DOMAIN kernel' = DOMAIN kernel
          /\ \A k \in DOMAIN kernel :
               /\ kernel'[k].address = kernel[k].address
               /\ kernel'[k].state \in {kernel[k].state, "deleted"}
      BY <2>2, CancelStep
    <3> QED BY <3>1 DEF Armed, InState
  <2>3. CASE UNCHANGED kernel
    BY <2>3 DEF Armed, InState
  <2> QED BY <2>2, <2>3 DEF TimerEvent, kernelVars
<1>3. pending' \subseteq pending
  BY CancelStep DEF TimerEvent, kernelVars
<1>4. ASSUME NEW a \in DOMAIN memory
      PROVE  Signals(a)' <= Signals(a) /\ Signals(a)' \in Nat
  <2>1. late \in [Addresses -> Nat] /\ a \in Addresses /\ late[a] \in Nat
    BY SignalsTyped DEF TypeOK
  <2>2. /\ Count(a \in pending)' \in Nat /\ Count(a \in pending) \in Nat
        /\ Count(a \in pending)' <= Count(a \in pending)
    BY <1>3 DEF Count
  <2>3. Count(handler = a)' = 0 /\ (Count(handler = a) = IF a = h THEN 1 ELSE 0)
    <3>1. a # NoTimer
      BY <2>1, TimerAssumption DEF Addresses
    <3> QED BY <1>1, <3>1 DEF Count
  <2>4. late'[a] = late[a] \/ (a = h /\ late'[a] = late[a] + 1)
    <3>1. CASE h \in cancelled
      BY <1>1, <2>1, <3>1
    <3>2. CASE h \notin cancelled
      BY <1>1, <3>2
    <3> QED BY <3>1, <3>2
  <2> QED BY <2>1, <2>2, <2>3, <2>4 DEF Signals
<1>5. \A a \in Addresses : a \notin cancelled' => late'[a] = 0
  BY <1>1 DEF LateInv, TypeOK
<1>6. \A a \in cancelled' : a \in DOMAIN memory /\ a \in cancelled
  BY <1>1 DEF TypeOK
<1> QED BY <1>1, <1>2, <1>4, <1>5, <1>6, NoMoreSignals

LEMMA LateInductive == RegisteredInv /\ LateInv /\ [Next]_vars => LateInv'
<1> SUFFICES ASSUME RegisteredInv, LateInv, [Next]_vars PROVE LateInv'
  OBVIOUS
<1>1. TypeOK /\ Linked
  BY DEF RegisteredInv
<1>2. ASSUME UNCHANGED <<memory, kernel, cancelled, late>>,
             \A a \in DOMAIN memory : Signals(a)' <= Signals(a) /\ Signals(a)' \in Nat
      PROVE  LateInv'
  <2>1. \A a \in DOMAIN memory : Armed(a)' => Armed(a)
    BY <1>2 DEF Armed, InState
  <2>2. \A a \in Addresses : a \notin cancelled' => late'[a] = 0
    BY <1>2 DEF LateInv
  <2>3. \A a \in cancelled' : a \in DOMAIN memory /\ a \in cancelled
    BY <1>1, <1>2 DEF TypeOK
  <2> QED BY <1>1, <1>2, <2>1, <2>2, <2>3, NoMoreSignals
<1>3. CASE Initialize \/ Shutdown \/ Exit \/ UNCHANGED vars
  <2>1. UNCHANGED <<memory, kernel, cancelled, late, pending, handler>>
    BY <1>3 DEF Initialize, Shutdown, Exit, vars, kernelVars, historyVars
  <2> QED BY <1>1, <1>2, <2>1, PendingShrinks
<1>4. ASSUME NEW d \in pending, Dequeue(d) PROVE LateInv'
  <2>1. /\ UNCHANGED <<memory, kernel, cancelled, late>>
        /\ handler = NoTimer /\ handler' = d /\ pending' = pending \ {d}
    BY <1>4 DEF Dequeue, historyVars
  <2>2. ASSUME NEW a \in DOMAIN memory
        PROVE  Signals(a)' <= Signals(a) /\ Signals(a)' \in Nat
    <3>1. late[a] \in Nat /\ a # NoTimer
      BY <1>1, SignalsTyped, TimerAssumption DEF Addresses
    <3>2. Count(a \in pending)' + Count(handler = a)'
            = Count(a \in pending) + Count(handler = a)
      BY <2>1, <3>1 DEF Count
    <3>3. /\ Count(a \in pending) \in Nat /\ Count(handler = a) \in Nat
          /\ Count(a \in pending)' \in Nat /\ Count(handler = a)' \in Nat
      BY DEF Count
    <3> QED BY <2>1, <3>1, <3>2, <3>3 DEF Signals
  <2> QED BY <1>2, <2>1, <2>2
<1>5. ASSUME NEW l \in Labels, CancelTimer(l) PROVE LateInv'
  <2> PICK c \in DOMAIN memory : c = timers[l]
    BY <1>1, <1>5 DEF TypeOK, CancelTimer
  <2>1. /\ Cancel(l) /\ c # NoTimer
        /\ cancelled' = cancelled \cup {c}
        /\ UNCHANGED <<memory, handler, late>>
    BY <1>5 DEF CancelTimer
  <2>2. /\ DOMAIN kernel' = DOMAIN kernel
        /\ \A k \in DOMAIN kernel :
             /\ kernel'[k].address = kernel[k].address
             /\ kernel'[k].state \in {kernel[k].state, "deleted"}
             /\ memory[c].timer = k => kernel'[k].state = "deleted"
        /\ pending' \subseteq pending
    BY <1>1, <2>1, CancelStep
  <2>3. \A a \in DOMAIN memory : Armed(a)' => Armed(a)
    BY <2>2 DEF Armed, InState
  <2>4. ~Armed(c)'
    BY <1>1, <2>2 DEF Linked, Armed, InState
  <2>5. \A a \in DOMAIN memory : Signals(a)' <= Signals(a) /\ Signals(a)' \in Nat
    BY <1>1, <2>1, <2>2, PendingShrinks
  <2>6. \A a \in Addresses : a \notin cancelled' => late'[a] = 0
    BY <2>1 DEF LateInv
  <2>7. \A a \in cancelled' : a \in DOMAIN memory /\ (a \in cancelled \/ ~Armed(a)')
    BY <1>1, <2>1, <2>4 DEF TypeOK
  <2> QED BY <1>1, <2>1, <2>3, <2>5, <2>6, <2>7, NoMoreSignals
<1> QED BY <1>1, <1>3, <1>4, <1>5, StartLate, ExpireLate, TimerEventLate DEF Next

(***************************************************************************)
(* CancelTimer that returned true is followed by one signal of its timer   *)
(* at most if it was a one-shot timer, and by two if it was periodic.      *)
(***************************************************************************)
THEOREM TimersLateSignals == Spec => []LateSignalsBounded
<1>1. Init => RegisteredInv /\ LateInv
  BY TimerAssumption DEF Init, TypeOK, RegisteredInv, Linked, ArmedRegistered, LateInv
<1>2. RegisteredInv /\ LateInv => LateSignalsBounded
  <2> SUFFICES ASSUME TypeOK, LateInv, NEW a \in DOMAIN memory
               PROVE  late[a] <= IF memory[a].type = "ONE_SHOT" THEN 1 ELSE 2
    BY DEF RegisteredInv, LateSignalsBounded
  <2>1. late[a] \in Nat /\ Signals(a) \in Nat /\ late[a] <= Signals(a)
    BY SignalsTyped
  <2> QED BY <2>1 DEF LateInv
<1> QED BY <1>1, <1>2, RegisteredInductive, LateInductive, PTL DEF Spec
-----------------------------------------------------------------------------
(***************************************************************************)
(* The label of a Timer that m_timers has is the label it is kept for, and *)
(* it is the last Timer that was allocated for that label.                 *)
(***************************************************************************)
OwnLabel == \A l \in Labels : timers[l] # NoTimer => memory[timers[l]].label = l

LatestOfLabel ==
  \A b \in DOMAIN memory :
    timers[memory[b].label] # NoTimer => b <= timers[memory[b].label]

(***************************************************************************)
(* A Timer that names a kernel timer created it, unless it names the null  *)
(* one; a Timer that was started created one anyhow.                       *)
(***************************************************************************)
Creator(a) == memory[a].timer \in DOMAIN kernel /\ kernel[memory[a].timer].address = a

NamesOwn == \A b \in DOMAIN memory : memory[b].timer # NullTimer => Creator(b)

StartedCreated == \A a \in started : Creator(a)

(***************************************************************************)
(* The signal of an expired one-shot timer is not lost before it is sent.  *)
(***************************************************************************)
Signalled(a) ==
  memory[a].type = "ONE_SHOT" /\ (a \in pending \/ handler = a \/ a \in fired)

ExpiredSignalled ==
  \A k \in DOMAIN kernel, a \in DOMAIN memory :
    kernel[k].state = "expired" /\ kernel[k].address = a => Signalled(a)

(***************************************************************************)
(* A kernel timer is deleted for one of the three reasons.                 *)
(***************************************************************************)
Explained(a) == Done(a) \/ LabelReused(a) \/ MistakenForNull(a)

DeletedExplained ==
  \A k \in DOMAIN kernel, a \in started :
    kernel[k].state = "deleted" /\ kernel[k].address = a => Explained(a)

(***************************************************************************)
(* A one-shot timer with a signal under way that is no longer registered   *)
(* was cancelled, or it is itself the victim of one that was.              *)
(***************************************************************************)
Stray(b) ==
  /\ memory[b].type = "ONE_SHOT"
  /\ timers[memory[b].label] # b
  /\ b \in pending \/ handler = b

StrayExplained == \A b \in DOMAIN memory : Stray(b) => b \in cancelled \/ LabelReused(b)

LossInv ==
  /\ OwnLabel /\ LatestOfLabel /\ NamesOwn /\ StartedCreated
  /\ ExpiredSignalled /\ DeletedExplained /\ StrayExplained

\* What explains a loss goes on to explain it.
LEMMA ReasonsStay ==
  ASSUME TypeOK, NEW a \in DOMAIN memory,
         DOMAIN memory \subseteq DOMAIN memory',
         \A b \in DOMAIN memory : memory'[b] = memory[b],
         cancelled \subseteq cancelled', fired \subseteq fired',
         DOMAIN kernel \subseteq DOMAIN kernel',
         \A k \in DOMAIN kernel : kernel'[k].address = kernel[k].address,
         \A b \in DOMAIN memory : timers'[memory[b].label] = b => timers[memory[b].label] = b
  PROVE  /\ Done(a) => Done(a)'
         /\ LabelReused(a) => LabelReused(a)'
         /\ Explained(a) => Explained(a)'
<1>1. Done(a) => Done(a)'
  BY DEF Done
<1>2. LabelReused(a) => LabelReused(a)'
  BY DEF LabelReused, TypeOK
<1>3. MistakenForNull(a) => MistakenForNull(a)'
  <2> SUFFICES ASSUME MistakenForNull(a) PROVE MistakenForNull(a)'
    OBVIOUS
  <2>1. PICK b \in DOMAIN memory \ {a} :
          memory[b].timer = NullTimer /\ timers[memory[b].label] # b
    BY DEF MistakenForNull
  <2>2. b \in DOMAIN memory' /\ memory'[b].timer = NullTimer /\ timers'[memory'[b].label] # b
    BY <2>1
  <2>3. NullTimer \in DOMAIN kernel' /\ kernel'[NullTimer].address = a
    BY DEF MistakenForNull, NullTimer
  <2> QED BY <2>1, <2>2, <2>3 DEF MistakenForNull, NullTimer
<1> QED BY <1>1, <1>2, <1>3 DEF Explained

\* A null timer_t that is deleted by mistake, and everything else cancelTimer deletes.
LEMMA CancelReach ==
  ASSUME TypeOK, NEW l \in Labels, NEW c \in DOMAIN memory, c = timers[l], c # NoTimer,
         Cancel(l)
  PROVE  /\ \A k \in DOMAIN kernel : k # memory[c].timer => kernel'[k] = kernel[k]
         /\ \A a \in pending : a \in pending' \/ (memory[c].timer \in DOMAIN kernel
                                                  /\ kernel[memory[c].timer].address = a)
<1>1. Delete(memory[c].timer)
  BY DEF Cancel
<1>2. CASE memory[c].timer \notin DOMAIN kernel
  BY <1>1, <1>2 DEF Delete, kernelVars
<1>3. CASE memory[c].timer \in DOMAIN kernel
  BY <1>1, <1>3 DEF Delete
<1> QED BY <1>2, <1>3

(***************************************************************************)
(* The cancellation of the label's Timer c, by CancelTimer or by an event, *)
(* which has a reason to end c.                                            *)
(***************************************************************************)
LEMMA CancelLoss ==
  ASSUME RegisteredInv, LossInv,
         NEW l \in Labels, NEW c \in DOMAIN memory, c = timers[l], c # NoTimer, Cancel(l),
         UNCHANGED <<memory, started>>, cancelled \subseteq cancelled', fired \subseteq fired',
         handler' = handler \/ (handler' = NoTimer /\ handler \in fired'),
         Done(c)' \/ LabelReused(c)',
         memory[c].type = "ONE_SHOT" /\ (c \in pending' \/ handler' = c)
           => c \in cancelled' \/ LabelReused(c)'
  PROVE  LossInv'
<1>1. /\ TypeOK /\ Linked /\ ArmedRegistered
      /\ OwnLabel /\ LatestOfLabel /\ NamesOwn /\ StartedCreated
      /\ ExpiredSignalled /\ DeletedExplained /\ StrayExplained
  BY DEF RegisteredInv, LossInv
<1>2. /\ DOMAIN kernel' = DOMAIN kernel
      /\ \A k \in DOMAIN kernel : kernel'[k].address = kernel[k].address
      /\ \A k \in DOMAIN kernel : kernel'[k].state \in {kernel[k].state, "deleted"}
      /\ \A k \in DOMAIN kernel : memory[c].timer = k => kernel'[k].state = "deleted"
      /\ pending' \subseteq pending
      /\ timers' = [timers EXCEPT ![l] = NoTimer]
  BY <1>1, CancelStep
<1>3. /\ \A k \in DOMAIN kernel : k # memory[c].timer => kernel'[k] = kernel[k]
      /\ \A a \in pending : a \in pending' \/ (memory[c].timer \in DOMAIN kernel
                                               /\ kernel[memory[c].timer].address = a)
  BY <1>1, CancelReach
<1>4. \A b \in DOMAIN memory : memory[b].label \in Labels /\ b # NoTimer
  <2>1. \A b \in DOMAIN memory : memory[b] \in Timer /\ b \in Nat
    BY <1>1 DEF TypeOK
  <2> QED BY <2>1, TimerAssumption DEF Timer
<1>5. /\ timers'[l] = NoTimer
      /\ \A m \in Labels : m # l => timers'[m] = timers[m]
  BY <1>1, <1>2 DEF TypeOK
<1>6. \A b \in DOMAIN memory : timers'[memory[b].label] = b => timers[memory[b].label] = b
  BY <1>4, <1>5
<1>7. \A a \in DOMAIN memory : (LabelReused(a) => LabelReused(a)')
                               /\ (Explained(a) => Explained(a)')
  BY <1>1, <1>2, <1>6, ReasonsStay
<1>8. (OwnLabel /\ LatestOfLabel)'
  BY <1>1, <1>4, <1>5 DEF OwnLabel, LatestOfLabel
<1>9. (NamesOwn /\ StartedCreated)'
  BY <1>1, <1>2 DEF NamesOwn, StartedCreated, Creator
<1>10. ASSUME NEW k \in DOMAIN kernel, NEW a \in DOMAIN memory,
              kernel'[k].state = "expired", kernel[k].address = a
       PROVE  Signalled(a)'
  <2>1. k # memory[c].timer /\ kernel[k].state = "expired"
    BY <1>2, <1>3, <1>10
  <2>2. Signalled(a) /\ memory[a].timer = k
    BY <1>1, <1>10, <2>1 DEF ExpiredSignalled, Linked
  <2>3. a \in pending => a \in pending'
    BY <1>1, <1>3, <2>1, <2>2 DEF Linked
  <2>4. handler = a => handler' = a \/ a \in fired'
    BY <1>4
  <2> QED BY <2>2, <2>3, <2>4 DEF Signalled
<1>11. ASSUME NEW k \in DOMAIN kernel, NEW a \in started,
              kernel'[k].state = "deleted", kernel[k].address = a
       PROVE  Explained(a)'
  <2> a \in DOMAIN memory
    BY <1>1 DEF TypeOK
  <2>1. CASE k # memory[c].timer
    BY <1>1, <1>3, <1>7, <1>11, <2>1 DEF DeletedExplained
  <2>2. CASE k = memory[c].timer /\ a = c
    BY <2>2 DEF Explained
  <2>3. CASE k = memory[c].timer /\ a # c
    <3>1. k = NullTimer
      BY <1>1, <1>11, <2>3 DEF NamesOwn, Creator
    <3>2. memory'[c].timer = NullTimer /\ timers'[memory'[c].label] # c
      BY <1>1, <1>4, <1>5, <2>3, <3>1 DEF OwnLabel
    <3>3. NullTimer \in DOMAIN kernel' /\ kernel'[NullTimer].address = a
      BY <1>2, <1>11, <3>1
    <3> QED BY <2>3, <3>2, <3>3 DEF MistakenForNull, Explained, NullTimer
  <2> QED BY <2>1, <2>2, <2>3
<1>12. (ExpiredSignalled /\ DeletedExplained)'
  BY <1>2, <1>10, <1>11 DEF ExpiredSignalled, DeletedExplained
<1>13. StrayExplained'
  <2> SUFFICES ASSUME NEW b \in DOMAIN memory, Stray(b)'
               PROVE  b \in cancelled' \/ LabelReused(b)'
    BY DEF StrayExplained
  <2>1. CASE b = c
    BY <2>1 DEF Stray
  <2>2. CASE b # c
    <3>1. timers[memory[b].label] # b
      BY <1>1, <1>4, <1>5, <2>2 DEF Stray, OwnLabel
    <3>2. Stray(b)
      BY <1>2, <1>4, <3>1 DEF Stray
    <3> QED BY <1>1, <1>7, <3>2 DEF StrayExplained
  <2> QED BY <2>1, <2>2
<1> QED BY <1>8, <1>9, <1>12, <1>13 DEF LossInv

\* A step of StartTimer for the Timer n, up to the timer_t it gets.
LEMMA StartLoss ==
  ASSUME RegisteredInv, LossInv,
         NEW l \in Labels, NEW type \in Types, NEW time \in Times,
         StartTimer(l, type, time)
  PROVE  LossInv'
<1>1. /\ TypeOK /\ OwnLabel /\ LatestOfLabel /\ NamesOwn /\ StartedCreated
      /\ ExpiredSignalled /\ DeletedExplained /\ StrayExplained
  BY DEF RegisteredInv, LossInv
<1>2. /\ Len(memory) \in Nat /\ Len(kernel) \in Nat /\ Len(kernel) <= Len(memory)
      /\ Len(memory) < MaxTimers /\ timers[l] = NoTimer
      /\ \A k \in DOMAIN kernel : kernel[k].address \in DOMAIN memory
      /\ \A b \in DOMAIN memory : b \in Nat /\ b <= Len(memory)
      /\ UNCHANGED <<pending, handler, cancelled, fired>>
  BY <1>1 DEF TypeOK, StartTimer
<1> PICK n \in Nat : n = Len(memory) + 1
  BY <1>2
<1>3. Len(kernel) + 1 \in Addresses /\ NullTimer \in Addresses
  BY <1>2, TimerAssumption DEF Addresses, NullTimer
<1> PICK m \in Addresses : /\ Place(l, type, m)
                           /\ \/ m = NullTimer /\ UNCHANGED <<kernel, started>>
                              \/ /\ m = Len(kernel) + 1
                                 /\ CreateTimer("idle") \/ CreateTimer("armed")
                                 /\ started' \in {started, started \cup {n}}
  BY <1>3 DEF StartTimer
<1>4. /\ DOMAIN memory' = DOMAIN memory \cup {n} /\ n \notin DOMAIN memory
      /\ \A a \in DOMAIN memory : memory'[a] = memory[a]
      /\ memory'[n].label = l /\ memory'[n].timer = m
      /\ timers' = [timers EXCEPT ![l] = n]
  <2>1. /\ DOMAIN memory' = DOMAIN memory \cup {n} /\ n \notin DOMAIN memory
        /\ \A a \in DOMAIN memory : memory'[a] = memory[a]
        /\ memory'[n] = [label |-> l, type |-> type, timer |-> m]
    BY <1>1, <1>2, PlaceStep
  <2> QED BY <2>1 DEF Place
<1>5. /\ timers'[l] = n
      /\ \A x \in Labels : x # l => timers'[x] = timers[x]
      /\ \A b \in DOMAIN memory : memory[b].label \in Labels /\ b # NoTimer
      /\ n # NoTimer
  <2>1. \A b \in DOMAIN memory : memory[b] \in Timer
    BY <1>1 DEF TypeOK
  <2> QED BY <1>1, <1>2, <1>4, <2>1, TimerAssumption DEF TypeOK, Timer
<1>6. /\ DOMAIN kernel \subseteq DOMAIN kernel'
      /\ \A k \in DOMAIN kernel : kernel'[k] = kernel[k]
      /\ \A k \in DOMAIN kernel' \ DOMAIN kernel :
           k = m /\ kernel'[k].address = n /\ kernel'[k].state \in {"idle", "armed"}
      /\ m \in DOMAIN kernel' \ DOMAIN kernel \/ (m = NullTimer /\ UNCHANGED <<kernel, started>>)
  <2>1. ASSUME NEW state \in {"idle", "armed"}, CreateTimer(state), m = Len(kernel) + 1
        PROVE  /\ DOMAIN kernel' = DOMAIN kernel \cup {m} /\ m \notin DOMAIN kernel
               /\ \A k \in DOMAIN kernel : kernel'[k] = kernel[k]
               /\ kernel'[m].address = n /\ kernel'[m].state = state
    <3>1. m \notin DOMAIN kernel
      BY <1>1, <1>2, <2>1 DEF TypeOK
    <3> QED BY <1>1, <1>2, <2>1, <3>1, CreateStep
  <2> QED BY <2>1
<1>7. started' \subseteq started \cup {n} /\ started \subseteq DOMAIN memory
  BY <1>1 DEF TypeOK
<1>8. \A b \in DOMAIN memory : timers'[memory[b].label] = b => timers[memory[b].label] = b
  BY <1>4, <1>5
<1>9. \A a \in DOMAIN memory : (LabelReused(a) => LabelReused(a)')
                               /\ (Explained(a) => Explained(a)')
  BY <1>1, <1>2, <1>4, <1>6, <1>8, ReasonsStay
<1>10. OwnLabel'
  BY <1>1, <1>4, <1>5 DEF OwnLabel, TypeOK
<1>11. LatestOfLabel'
  BY <1>1, <1>2, <1>4, <1>5 DEF LatestOfLabel
<1>12. (NamesOwn /\ StartedCreated)'
  <2>1. \A a \in DOMAIN memory : Creator(a) => Creator(a)'
    BY <1>4, <1>6 DEF Creator
  <2>2. Creator(n)' \/ (m = NullTimer /\ UNCHANGED started)
    BY <1>4, <1>6 DEF Creator
  <2>3. NamesOwn'
    BY <1>1, <1>4, <2>1, <2>2 DEF NamesOwn, NullTimer
  <2>4. StartedCreated'
    BY <1>1, <1>7, <2>1, <2>2 DEF StartedCreated
  <2> QED BY <2>3, <2>4
<1>13. ASSUME NEW k \in DOMAIN kernel', NEW a \in DOMAIN memory',
              kernel'[k].state \in {"expired", "deleted"}, kernel'[k].address = a
       PROVE  /\ k \in DOMAIN kernel /\ kernel'[k] = kernel[k]
              /\ a \in DOMAIN memory /\ memory'[a] = memory[a]
  BY <1>2, <1>4, <1>6, <1>13
<1>14. ExpiredSignalled'
  <2> SUFFICES ASSUME NEW k \in DOMAIN kernel', NEW a \in DOMAIN memory',
                      kernel'[k].state = "expired", kernel'[k].address = a
               PROVE  Signalled(a)'
    BY DEF ExpiredSignalled
  <2> QED BY <1>1, <1>2, <1>13 DEF ExpiredSignalled, Signalled
<1>15. DeletedExplained'
  <2> SUFFICES ASSUME NEW k \in DOMAIN kernel', NEW a \in started',
                      kernel'[k].state = "deleted", kernel'[k].address = a
               PROVE  Explained(a)'
    BY DEF DeletedExplained
  <2>1. a \in DOMAIN memory /\ a \in started /\ k \in DOMAIN kernel /\ kernel'[k] = kernel[k]
    BY <1>4, <1>7, <1>13
  <2> QED BY <1>1, <1>9, <2>1 DEF DeletedExplained
<1>16. StrayExplained'
  <2> SUFFICES ASSUME NEW b \in DOMAIN memory', Stray(b)'
               PROVE  b \in cancelled' \/ LabelReused(b)'
    BY DEF StrayExplained
  <2>1. b # n /\ b \in DOMAIN memory
    BY <1>4, <1>5 DEF Stray
  <2>2. Stray(b)
    BY <1>2, <1>4, <1>5, <2>1 DEF Stray
  <2> QED BY <1>1, <1>2, <1>9, <2>1, <2>2 DEF StrayExplained
<1> QED BY <1>10, <1>11, <1>12, <1>14, <1>15, <1>16 DEF LossInv

(***************************************************************************)
(* A step in which signals are queued, dequeued or sent, but none is       *)
(* dropped, and no kernel timer is created or deleted.                     *)
(***************************************************************************)
LEMMA SignalLoss ==
  ASSUME TypeOK, LossInv,
         UNCHANGED <<memory, timers, started, cancelled>>, fired \subseteq fired',
         DOMAIN kernel' = DOMAIN kernel,
         \A k \in DOMAIN kernel : /\ kernel'[k].address = kernel[k].address
                                  /\ kernel'[k].state \in {kernel[k].state, "expired"},
         \A a \in DOMAIN memory : Signalled(a) => Signalled(a)',
         \A k \in DOMAIN kernel, a \in DOMAIN memory :
           kernel'[k].state # kernel[k].state /\ kernel[k].address = a => Signalled(a)',
         \A a \in DOMAIN memory : Stray(a)' => Stray(a)
  PROVE  LossInv'
<1>1. /\ OwnLabel /\ LatestOfLabel /\ NamesOwn /\ StartedCreated
      /\ ExpiredSignalled /\ DeletedExplained /\ StrayExplained
  BY DEF LossInv
<1>2. \A a \in DOMAIN memory : (LabelReused(a) => LabelReused(a)')
                               /\ (Explained(a) => Explained(a)')
  BY ReasonsStay
<1>3. (OwnLabel /\ LatestOfLabel /\ NamesOwn /\ StartedCreated)'
  BY <1>1 DEF OwnLabel, LatestOfLabel, NamesOwn, StartedCreated, Creator
<1>4. ExpiredSignalled'
  <2> SUFFICES ASSUME NEW k \in DOMAIN kernel, NEW a \in DOMAIN memory,
                      kernel'[k].state = "expired", kernel[k].address = a
               PROVE  Signalled(a)'
    BY DEF ExpiredSignalled
  <2> QED BY <1>1 DEF ExpiredSignalled
<1>5. DeletedExplained'
  <2> SUFFICES ASSUME NEW k \in DOMAIN kernel, NEW a \in started,
                      kernel'[k].state = "deleted", kernel[k].address = a
               PROVE  Explained(a)'
    BY DEF DeletedExplained
  <2>1. a \in DOMAIN memory /\ kernel[k].state = "deleted"
    BY DEF TypeOK
  <2> QED BY <1>1, <1>2, <2>1 DEF DeletedExplained
<1>6. StrayExplained'
  <2> SUFFICES ASSUME NEW b \in DOMAIN memory, Stray(b)'
               PROVE  b \in cancelled' \/ LabelReused(b)'
    BY DEF StrayExplained
  <2> QED BY <1>1, <1>2 DEF StrayExplained
<1> QED BY <1>3, <1>4, <1>5, <1>6 DEF LossInv

\* An expiry: the timer is registered, so that its signal is not astray.
LEMMA ExpireLoss ==
  ASSUME RegisteredInv, LossInv, NEW k \in DOMAIN kernel, Expire(k)
  PROVE  LossInv'
<1> PICK e \in DOMAIN memory : e = kernel[k].address
  BY DEF RegisteredInv, TypeOK
<1>1. /\ TypeOK /\ ArmedRegistered
      /\ UNCHANGED <<memory, timers, handler, started, cancelled, fired>>
      /\ pending' = pending \cup {e}
      /\ \A j \in DOMAIN kernel : kernel[j] \in KernelTimer
  BY DEF RegisteredInv, Expire, historyVars, TypeOK
<1>2. /\ DOMAIN kernel' = DOMAIN kernel
      /\ \A j \in DOMAIN kernel :
           /\ kernel'[j].address = kernel[j].address
           /\ kernel'[j].state \in {kernel[j].state, "expired"}
           /\ kernel'[j].state # kernel[j].state => j = k /\ memory[e].type = "ONE_SHOT"
  <2>1. \/ kernel' = kernel
        \/ /\ kernel' = [kernel EXCEPT ![k] = [kernel[k] EXCEPT !.state = "expired"]]
           /\ memory[e].type = "ONE_SHOT"
    BY DEF Expire
  <2> QED BY <1>1, <2>1 DEF KernelTimer
<1>3. timers[memory[e].label] = e
  BY <1>1 DEF Expire, ArmedRegistered, Armed, InState
<1>4. \A a \in DOMAIN memory : Signalled(a) => Signalled(a)'
  BY <1>1 DEF Signalled
<1>5. \A j \in DOMAIN kernel, a \in DOMAIN memory :
        kernel'[j].state # kernel[j].state /\ kernel[j].address = a => Signalled(a)'
  BY <1>1, <1>2 DEF Signalled
<1>6. \A a \in DOMAIN memory : Stray(a)' => Stray(a)
  BY <1>1, <1>3 DEF Stray
<1> QED BY <1>1, <1>2, <1>4, <1>5, <1>6, SignalLoss

\* A step that changes neither kernel timers nor m_timers, and loses no signal.
LEMMA QuietLoss ==
  ASSUME TypeOK, LossInv,
         UNCHANGED <<memory, timers, kernel, started, cancelled>>, fired \subseteq fired',
         \A a \in DOMAIN memory : a \in pending \/ handler = a
                                    => a \in pending' \/ handler' = a \/ a \in fired',
         \A a \in DOMAIN memory : a \in pending' \/ handler' = a => a \in pending \/ handler = a
  PROVE  LossInv'
<1>1. \A a \in DOMAIN memory : Signalled(a) => Signalled(a)'
  BY DEF Signalled
<1>2. \A a \in DOMAIN memory : Stray(a)' => Stray(a)
  BY DEF Stray
<1>3. \A k \in DOMAIN kernel : kernel[k] \in KernelTimer
  BY DEF TypeOK
<1> QED BY <1>1, <1>2, <1>3, SignalLoss

LEMMA TimerEventLoss ==
  ASSUME RegisteredInv, LateInv, LossInv, TimerEvent
  PROVE  LossInv'
<1> PICK h \in DOMAIN memory : h = handler
  BY DEF RegisteredInv, TypeOK, TimerEvent
<1>1. /\ TypeOK /\ h # NoTimer /\ handler' = NoTimer /\ fired' = fired \cup {h}
      /\ UNCHANGED <<memory, started, cancelled>>
      /\ \A a \in DOMAIN memory : a # NoTimer
  <2>1. \A a \in DOMAIN memory : a \in Nat
    BY DEF RegisteredInv, TypeOK
  <2> QED BY <2>1, TimerAssumption DEF RegisteredInv, TimerEvent, Signal
<1> DEFINE l == memory[h].label
<1>2. l \in Labels
  <2>1. memory \in Seq(Timer)
    BY <1>1 DEF TypeOK
  <2>2. memory[h] \in Timer
    BY <2>1
  <2> QED BY <2>2 DEF Timer
<1>3. CASE UNCHANGED <<timers, kernelVars>>
  <2>1. UNCHANGED <<timers, kernel, pending>>
    BY <1>3 DEF kernelVars
  <2> QED BY <1>1, <2>1, QuietLoss
<1>4. CASE memory[h].type = "ONE_SHOT" /\ Cancel(l) /\ timers[l] # NoTimer
  <2> PICK c \in DOMAIN memory : c = timers[l]
    BY <1>1, <1>2, <1>4 DEF TypeOK
  <2>1. pending' \subseteq pending /\ timers' = [timers EXCEPT ![l] = NoTimer]
    BY <1>1, <1>2, <1>4, CancelStep
  <2>2. /\ Done(c)' \/ LabelReused(c)'
        /\ memory[c].type = "ONE_SHOT" /\ (c \in pending' \/ handler' = c)
             => c \in cancelled' \/ LabelReused(c)'
    <3>1. CASE c = h
      <4>1. Done(c)'
        BY <1>1, <1>4, <3>1 DEF Done
      <4>2. h \notin pending
        <5>1. late[h] \in Nat
          BY <1>1, SignalsTyped
        <5>2. late[h] + Count(h \in pending) + Count(handler = h) <= 1
          BY <1>4 DEF LateInv, Signals
        <5>3. Count(handler = h) = 1 /\ (h \in pending => Count(h \in pending) = 1)
          BY DEF Count
        <5> QED BY <5>1, <5>2, <5>3
      <4> QED BY <1>1, <2>1, <3>1, <4>1, <4>2
    <3>2. CASE c # h
      <4>1. Stray(h)
        BY <1>4, <3>2 DEF Stray
      <4>2. h \in cancelled \/ LabelReused(h)
        BY <4>1 DEF LossInv, StrayExplained
      <4>3. h < c /\ memory[c].label = l
        <5>1. h <= c
          BY <1>4 DEF LossInv, LatestOfLabel
        <5>2. h \in Nat /\ c \in Nat
          BY <1>1 DEF TypeOK
        <5> QED BY <1>2, <1>4, <3>2, <5>1, <5>2 DEF LossInv, OwnLabel
      <4>4. LabelReused(c)
        <5>1. CASE h \in cancelled
          BY <1>4, <4>3, <5>1 DEF LabelReused
        <5>2. CASE LabelReused(h)
          <6>1. PICK b \in cancelled : /\ b < h /\ memory[b].label = memory[h].label
                                       /\ memory[b].type = "ONE_SHOT"
            BY <5>2 DEF LabelReused
          <6>2. b \in Nat /\ h \in Nat /\ c \in Nat
            BY <1>1 DEF TypeOK
          <6>3. b < c
            BY <4>3, <6>1, <6>2
          <6> QED BY <4>3, <6>1, <6>3 DEF LabelReused
        <5> QED BY <4>2, <5>1, <5>2
      <4>5. LabelReused(c)'
        BY <1>1, <4>4 DEF LabelReused
      <4> QED BY <4>5
    <3> QED BY <3>1, <3>2
  <2> HIDE DEF l
  <2> QED BY <1>1, <1>2, <1>4, <2>2, CancelLoss
<1>5. CASE Cancel(l) /\ timers[l] = NoTimer
  BY <1>3, <1>5 DEF Cancel
<1> QED BY <1>3, <1>4, <1>5 DEF TimerEvent

LEMMA LossInductive == RegisteredInv /\ LateInv /\ LossInv /\ [Next]_vars => LossInv'
<1> SUFFICES ASSUME RegisteredInv, LateInv, LossInv, [Next]_vars PROVE LossInv'
  OBVIOUS
<1>1. TypeOK
  BY DEF RegisteredInv
<1>2. CASE Initialize \/ Shutdown \/ Exit \/ UNCHANGED vars
  <2>1. UNCHANGED <<memory, timers, kernel, started, cancelled, fired, pending, handler>>
    BY <1>2 DEF Initialize, Shutdown, Exit, vars, kernelVars, historyVars
  <2> QED BY <1>1, <2>1, QuietLoss
<1>3. ASSUME NEW d \in pending, Dequeue(d) PROVE LossInv'
  <2>1. /\ UNCHANGED <<memory, timers, kernel, started, cancelled, fired>>
        /\ handler = NoTimer /\ handler' = d /\ pending' = pending \ {d}
    BY <1>3 DEF Dequeue, historyVars
  <2>2. \A a \in DOMAIN memory : a # NoTimer
    <3>1. \A a \in DOMAIN memory : a \in Nat
      BY <1>1 DEF TypeOK
    <3> QED BY <3>1, TimerAssumption
  <2> QED BY <1>1, <2>1, <2>2, QuietLoss
<1>4. ASSUME NEW l \in Labels, CancelTimer(l) PROVE LossInv'
  <2> PICK c \in DOMAIN memory : c = timers[l]
    BY <1>1, <1>4 DEF TypeOK, CancelTimer
  <2>1. /\ Cancel(l) /\ c # NoTimer
        /\ cancelled' = cancelled \cup {c}
        /\ UNCHANGED <<memory, handler, started, fired>>
    BY <1>4 DEF CancelTimer
  <2>2. Done(c)' /\ c \in cancelled'
    BY <2>1 DEF Done
  <2> QED BY <2>1, <2>2, CancelLoss
<1> QED BY <1>2, <1>3, <1>4, StartLoss, ExpireLoss, TimerEventLoss DEF Next

(***************************************************************************)
(* No timer is lost without a reason: one that was started goes off, is    *)
(* done, was disarmed by a zero time, or was ended by the late event of a  *)
(* cancelled timer of its label or in place of a Timer without a timer_t.  *)
(***************************************************************************)
THEOREM TimersLossesExplained == Spec => []LossesExplained
<1>1. Init => RegisteredInv /\ LateInv /\ LossInv
  BY TimerAssumption DEF Init, TypeOK, RegisteredInv, Linked, ArmedRegistered, LateInv,
     LossInv, OwnLabel, LatestOfLabel, NamesOwn, StartedCreated, ExpiredSignalled,
     DeletedExplained, StrayExplained
<1>2. RegisteredInv /\ LossInv => LossesExplained
  <2> SUFFICES ASSUME TypeOK, LossInv, NEW a \in started
               PROVE  \/ CanGoOff(a) \/ Explained(a) \/ InState(a, {"idle"})
    BY DEF RegisteredInv, LossesExplained, Explained
  <2>1. PICK k \in DOMAIN kernel : k = memory[a].timer /\ kernel[k].address = a
    BY DEF LossInv, StartedCreated, Creator
  <2>2. a \in DOMAIN memory /\ kernel[k].state \in {"idle", "armed", "expired", "deleted"}
    <3>1. kernel[k] \in KernelTimer
      BY DEF TypeOK
    <3> QED BY <3>1 DEF TypeOK, KernelTimer
  <2>3. CASE kernel[k].state = "idle"
    BY <2>1, <2>3 DEF InState
  <2>4. CASE kernel[k].state = "armed"
    BY <2>1, <2>4 DEF CanGoOff, Armed, InState
  <2>5. CASE kernel[k].state = "expired"
    <3>1. Signalled(a)
      BY <2>1, <2>2, <2>5 DEF LossInv, ExpiredSignalled
    <3> QED BY <3>1 DEF Signalled, CanGoOff, Explained, Done
  <2>6. CASE kernel[k].state = "deleted"
    BY <2>1, <2>6 DEF LossInv, DeletedExplained
  <2> QED BY <2>2, <2>3, <2>4, <2>5, <2>6
<1> QED BY <1>1, <1>2, RegisteredInductive, LateInductive, LossInductive, PTL DEF Spec
=============================================================================
