--------------------------- MODULE BytePoolProofs ---------------------------
(***************************************************************************)
(* Proofs about BytePool when its callers serialize alloc(), for any       *)
(* number of threads and blocks, any capacity and any width of size_t.     *)
(*                                                                         *)
(* SizeExact alone is not inductive: that m_size-- cannot wrap needs the   *)
(* test of m_size > 0 to be still true, which holds because no other       *)
(* thread is between the test and the decrement; that m_size++ cannot      *)
(* exceed the capacity needs the block in an allocator's hand to be live.  *)
(***************************************************************************)
EXTENDS BytePool, FiniteSetTheorems, TLAPS

OneAllocator ==
  /\ \A t, u \in Allocating : t = u
  /\ \A t \in Allocating : size > 0
  /\ \A t \in At({"allocated"}) : block[t] \in live \ held

IInv == TypeOK /\ SizeExact /\ OneAllocator

(***************************************************************************)
(* The sets that are counted are finite, in the state before a step.       *)
(***************************************************************************)
LEMMA Counted ==
  ASSUME TypeOK
  PROVE  /\ IsFiniteSet(live) /\ Cardinality(live) \in Nat
         /\ IsFiniteSet(held) /\ Cardinality(held) \in Nat
         /\ \A where : IsFiniteSet(At(where)) /\ Cardinality(At(where)) \in Nat
<1>1. \A where : At(where) \in SUBSET Threads
  BY DEF At
<1>2. live \in SUBSET Blocks /\ held \in SUBSET Blocks
  BY DEF TypeOK
<1> QED BY <1>1, <1>2, BytePoolAssumption, FS_Subset, FS_CardinalityType

(***************************************************************************)
(* A thread that moves to a label is added to the threads counted there,   *)
(* one that moves away is taken from them.                                 *)
(***************************************************************************)
LEMMA Moves ==
  ASSUME TypeOK, NEW t \in Threads, NEW from \in PC, NEW to \in PC,
         pc[t] = from, pc' = [pc EXCEPT ![t] = to], NEW label \in PC
  PROVE  /\ label = to /\ from # to =>
              Cardinality(At({label})') = Cardinality(At({label})) + 1
         /\ label = from /\ from # to =>
              Cardinality(At({label})') = Cardinality(At({label})) - 1
         /\ label # from /\ label # to => At({label})' = At({label})
<1>1. label = to /\ from # to => At({label})' = At({label}) \cup {t} /\ t \notin At({label})
  BY DEF At, TypeOK
<1>2. label = from /\ from # to => At({label})' = At({label}) \ {t} /\ t \in At({label})
  BY DEF At, TypeOK
<1>3. label # from /\ label # to => At({label})' = At({label})
  BY DEF At, TypeOK
<1>4. IsFiniteSet(At({label}))
  BY Counted
<1>5. ASSUME label = to, from # to
      PROVE  Cardinality(At({label})') = Cardinality(At({label})) + 1
  <2>1. Cardinality(At({label}) \cup {t}) = Cardinality(At({label})) + 1
    BY <1>1, <1>4, <1>5, FS_AddElement
  <2> QED BY <1>1, <1>5, <2>1
<1>6. ASSUME label = from, from # to
      PROVE  Cardinality(At({label})') = Cardinality(At({label})) - 1
  <2>1. Cardinality(At({label}) \ {t}) = Cardinality(At({label})) - 1
    BY <1>2, <1>4, <1>6, FS_RemoveElement
  <2> QED BY <1>2, <1>6, <2>1
<1> QED BY <1>3, <1>5, <1>6

(***************************************************************************)
(* One allocator: its block, if it has one, is the only uncounted one.     *)
(***************************************************************************)
LEMMA AtMostOneAllocated ==
  ASSUME IInv
  PROVE  /\ Cardinality(At({"allocated"})) <= 1
         /\ At({"allocated"}) # {} => live # {} /\ Cardinality(live) >= 1
<1>1. CASE At({"allocated"}) = {}
  BY <1>1, FS_EmptySet
<1>2. CASE At({"allocated"}) # {}
  <2>1. PICK t \in Threads : At({"allocated"}) = {t}
    BY <1>2 DEF IInv, OneAllocator, Allocating, At
  <2>2. block[t] \in live
    BY <2>1 DEF IInv, OneAllocator
  <2>3. Cardinality(live) # 0
    BY <2>2, Counted, FS_EmptySet DEF IInv
  <2>4. Cardinality(live) \in Nat
    BY Counted DEF IInv
  <2>5. Cardinality(At({"allocated"})) = 1
    BY <2>1, FS_Singleton
  <2> QED BY <2>2, <2>3, <2>4, <2>5
<1> QED BY <1>1, <1>2

-----------------------------------------------------------------------------
LEMMA IInvInductive == SerialAlloc /\ IInv /\ [Next]_vars => IInv'
<1> SUFFICES ASSUME SerialAlloc, IInv, [Next]_vars PROVE IInv'
  OBVIOUS
<1> USE BytePoolAssumption
<1>0. /\ TypeOK /\ SizeExact /\ OneAllocator
      /\ Cardinality(live) \in Nat /\ size \in Nat
      /\ Cardinality(At({"allocated"})) \in Nat
      /\ Cardinality(At({"deallocated"})) \in Nat
  BY Counted DEF IInv, TypeOK
<1>1. ASSUME NEW t \in Threads, Alloc(t) PROVE IInv'
  <2>1. CASE UNCHANGED vars
    BY <2>1 DEF vars, IInv, TypeOK, SizeExact, OneAllocator, Allocating, At
  <2>2. CASE /\ size > 0
             /\ pc' = [pc EXCEPT ![t] = "checked"]
             /\ UNCHANGED <<size, live, held, block>>
    <3>1. TypeOK'
      BY <1>0, <2>2 DEF TypeOK, PC
    <3>2. At({"deallocated"})' = At({"deallocated"}) /\ At({"allocated"})' = At({"allocated"})
      BY <1>0, <1>1, <2>2, Moves DEF Alloc, PC
    <3>3. SizeExact'
      BY <1>0, <2>2, <3>2 DEF SizeExact
    <3>4. OneAllocator'
      BY <1>0, <1>1, <2>2 DEF Alloc, OneAllocator, Allocating, At, TypeOK
    <3> QED BY <3>1, <3>3, <3>4 DEF IInv
  <2> QED BY <1>1, <2>1, <2>2 DEF Alloc
<1>2. ASSUME NEW t \in Threads, Allocate(t) PROVE IInv'
  <2>1. TypeOK'
    BY <1>0, <1>2 DEF Allocate, TypeOK, PC
  <2>2. At({"deallocated"})' = At({"deallocated"})
    BY <1>0, <1>2, Moves DEF Allocate, PC
  <2>3. OneAllocator'
    BY <1>0, <1>2 DEF Allocate, OneAllocator, Allocating, At, TypeOK
  <2>4. SizeExact'
    <3>1. CASE pc' = [pc EXCEPT ![t] = "idle"] /\ UNCHANGED live
      <4>1. At({"allocated"})' = At({"allocated"})
        BY <1>0, <1>2, <3>1, Moves DEF Allocate, PC
      <4> QED BY <1>0, <1>2, <2>2, <3>1, <4>1 DEF SizeExact, Allocate
    <3>2. ASSUME NEW b \in Blocks \ live, live' = live \cup {b},
                 pc' = [pc EXCEPT ![t] = "allocated"]
          PROVE  SizeExact'
      <4>1. Cardinality(live') = Cardinality(live) + 1
        BY <1>0, <3>2, Counted, FS_AddElement
      <4>2. Cardinality(At({"allocated"})') = Cardinality(At({"allocated"})) + 1
        BY <1>0, <1>2, <3>2, Moves DEF Allocate, PC
      <4> QED BY <1>0, <1>2, <2>2, <4>1, <4>2 DEF SizeExact, Allocate
    <3> QED BY <1>2, <3>1, <3>2 DEF Allocate
  <2> QED BY <2>1, <2>3, <2>4 DEF IInv
<1>3. ASSUME NEW t \in Threads, Decrement(t) PROVE IInv'
  <2>1. t \in Allocating /\ size > 0 /\ size < SizeMod /\ block[t] \in live
    BY <1>0, <1>3 DEF Decrement, OneAllocator, Allocating, At, TypeOK
  <2>2. size' = size - 1
    BY <1>0, <1>3, <2>1 DEF Decrement
  <2>3. TypeOK'
    BY <1>0, <1>3, <2>1, <2>2 DEF Decrement, TypeOK, PC
  <2>4. /\ At({"deallocated"})' = At({"deallocated"})
        /\ Cardinality(At({"allocated"})') = Cardinality(At({"allocated"})) - 1
    BY <1>0, <1>3, Moves DEF Decrement, PC
  <2>5. SizeExact'
    BY <1>0, <1>3, <2>2, <2>4 DEF Decrement, SizeExact
  <2>6. Allocating' = {} /\ At({"allocated"})' = {}
    BY <1>0, <1>3, <2>1 DEF Decrement, OneAllocator, Allocating, At, TypeOK
  <2>7. OneAllocator'
    BY <2>6 DEF OneAllocator
  <2> QED BY <2>3, <2>5, <2>7 DEF IInv
<1>4. ASSUME NEW t \in Threads, NEW b \in Blocks, Free(t, b) PROVE IInv'
  <2>1. TypeOK'
    BY <1>0, <1>4 DEF Free, TypeOK, PC
  <2>2. /\ At({"allocated"})' = At({"allocated"})
        /\ Cardinality(At({"deallocated"})') = Cardinality(At({"deallocated"})) + 1
    BY <1>0, <1>4, Moves DEF Free, PC
  <2>3. Cardinality(live') = Cardinality(live) - 1
    BY <1>0, <1>4, Counted, FS_RemoveElement DEF Free, TypeOK
  <2>4. SizeExact'
    BY <1>0, <1>4, <2>2, <2>3 DEF Free, SizeExact
  <2>5. OneAllocator'
    BY <1>0, <1>4 DEF Free, OneAllocator, Allocating, At, TypeOK
  <2> QED BY <2>1, <2>4, <2>5 DEF IInv
<1>5. ASSUME NEW t \in Threads, Increment(t) PROVE IInv'
  <2>1. /\ At({"allocated"})' = At({"allocated"})
        /\ Cardinality(At({"deallocated"})') = Cardinality(At({"deallocated"})) - 1
    BY <1>0, <1>5, Moves DEF Increment, PC
  <2>2. Cardinality(At({"deallocated"})) # 0
    <3>1. t \in At({"deallocated"})
      BY <1>5 DEF Increment, At
    <3>2. IsFiniteSet(At({"deallocated"}))
      BY <1>0, Counted
    <3> QED BY <3>1, <3>2, FS_EmptySet
  <2>3. Cardinality(At({"allocated"})) <= Cardinality(live)
    BY <1>0, AtMostOneAllocated, FS_EmptySet
  <2>4. size' = size + 1 /\ size' \in 0 .. Capacity
    BY <1>0, <1>5, <2>2, <2>3 DEF Increment, SizeExact
  <2>5. TypeOK'
    BY <1>0, <1>5, <2>4 DEF Increment, TypeOK, PC
  <2>6. SizeExact'
    BY <1>0, <1>5, <2>1, <2>4 DEF Increment, SizeExact
  <2>7. OneAllocator'
    BY <1>0, <1>5, <2>4 DEF Increment, OneAllocator, Allocating, At, TypeOK
  <2> QED BY <2>5, <2>6, <2>7 DEF IInv
<1>6. CASE UNCHANGED vars
  BY <1>6 DEF vars, IInv, TypeOK, SizeExact, OneAllocator, Allocating, At
<1> QED BY <1>1, <1>2, <1>3, <1>4, <1>5, <1>6 DEF Next

LEMMA IInvInit == Init => IInv
<1> SUFFICES ASSUME Init PROVE IInv
  OBVIOUS
<1>1. \A where : "idle" \notin where => At(where) = {}
  BY DEF Init, At
<1>2. TypeOK /\ OneAllocator
  BY <1>1, BytePoolAssumption DEF Init, TypeOK, PC, OneAllocator, Allocating
<1>3. SizeExact
  BY <1>1, FS_EmptySet, BytePoolAssumption DEF Init, SizeExact
<1> QED BY <1>2, <1>3 DEF IInv

LEMMA Invariance == ASSUME SerialAlloc PROVE Spec => []IInv
<1>1. IInv /\ [Next]_vars => IInv'
  BY IInvInductive
<1> QED BY <1>1, IInvInit, PTL DEF Spec

-----------------------------------------------------------------------------
(***************************************************************************)
(* m_size stays between 0 and the capacity: the decrement never wraps.     *)
(***************************************************************************)
THEOREM BytePoolTyped ==
  ASSUME SerialAlloc PROVE Spec => []TypeOK
BY Invariance, PTL DEF IInv

(***************************************************************************)
(* The count is exact up to the calls in flight.                           *)
(***************************************************************************)
THEOREM BytePoolSizeExact ==
  ASSUME SerialAlloc PROVE Spec => []SizeExact
BY Invariance, PTL DEF IInv

(***************************************************************************)
(* The pool implements the block pool its users rely on.  The step that    *)
(* matters is the decrement, where the abstract pool gives the block: its  *)
(* holders and the allocator together have at most m_capacity blocks.      *)
(***************************************************************************)
THEOREM BytePoolIsBlockPool ==
  ASSUME SerialAlloc PROVE Spec => ImplementsBlockPool
<1>1. Init => Contract!Init
  BY DEF Init, Contract!Init
<1>2. IInv /\ [Next]_vars => [Contract!Next]_held
  <2> SUFFICES ASSUME IInv, [Next]_vars PROVE Contract!Next \/ UNCHANGED held
    BY DEF Contract!Next
  <2>1. ASSUME NEW t \in Threads, Decrement(t) PROVE Contract!Next
    <3>1. block[t] \in live /\ block[t] \notin held /\ size > 0
      BY <2>1 DEF IInv, OneAllocator, Decrement, Allocating, At
    <3>2. held \in SUBSET (live \ {block[t]})
      BY <3>1 DEF IInv, TypeOK
    <3>3. /\ IsFiniteSet(live \ {block[t]})
          /\ Cardinality(live \ {block[t]}) = Cardinality(live) - 1
      BY <3>1, Counted, FS_RemoveElement DEF IInv
    <3>4. Cardinality(held) <= Cardinality(live) - 1
      BY <3>2, <3>3, FS_Subset
    <3>5. Cardinality(live) <= Capacity
      BY <3>1, AtMostOneAllocated, Counted, BytePoolAssumption DEF IInv, TypeOK, SizeExact
    <3>6. Cardinality(held) < Capacity
      BY <3>4, <3>5, Counted, BytePoolAssumption DEF IInv
    <3>7. block[t] \in Blocks
      BY <3>1 DEF IInv, TypeOK
    \* An instance has its own copy of Cardinality: the definitions tell them equal.
    <3> QED BY <2>1, <3>1, <3>6, <3>7
            DEF Decrement, Contract!Next, Contract!Give, Contract!Cardinality, Cardinality
  <2>2. ASSUME NEW t \in Threads, NEW b \in Blocks, Free(t, b) PROVE Contract!Next
    BY <2>2 DEF Free, Contract!Next, Contract!TakeBack
  <2>3. ASSUME NEW t \in Threads, Alloc(t) \/ Allocate(t) \/ Increment(t)
        PROVE  UNCHANGED held
    BY <2>3 DEF Alloc, Allocate, Increment, vars
  <2>4. CASE UNCHANGED vars
    BY <2>4 DEF vars
  <2> QED BY <2>1, <2>2, <2>3, <2>4 DEF Next
<1> QED BY <1>1, <1>2, Invariance, PTL DEF Spec, ImplementsBlockPool, Contract!Spec
=============================================================================
