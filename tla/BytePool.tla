------------------------------ MODULE BytePool ------------------------------
(***************************************************************************)
(* detail::BytePool (include/msglib/detail/BytePool.h): a count of free    *)
(* blocks, m_size, kept next to a memory resource.  The count is atomic    *)
(* and the resource is synchronized, but alloc() tests the count, takes a  *)
(* block and decrements the count in three steps, and free() gives the     *)
(* block back and increments the count in two: threads meet in between.    *)
(***************************************************************************)
EXTENDS Naturals, FiniteSets

CONSTANTS
  Threads,     \* threads that call alloc() and free()
  Blocks,      \* blocks the memory resource can supply
  Capacity,    \* number of elements the pool is constructed with
  SizeMod,     \* size_t arithmetic is modulo SizeMod
  NoBlock,     \* a thread's local block when it has none
  SerialAlloc  \* TRUE: alloc() is called under one mutex, as SendMessage does

ASSUME BytePoolAssumption ==
  /\ IsFiniteSet(Threads)
  /\ IsFiniteSet(Blocks)
  /\ NoBlock \notin Blocks
  /\ Capacity \in Nat /\ SizeMod \in Nat /\ Capacity < SizeMod
  /\ SerialAlloc \in BOOLEAN

VARIABLES
  size,        \* m_size: the number of elements that are free
  live,        \* blocks the memory resource has handed to the pool
  held,        \* blocks the callers of alloc() own
  pc,          \* [Threads -> PC]: next step of the thread's call
  block        \* [Threads -> Blocks \cup {NoBlock}]: result of m_alloc.allocate

vars == <<size, live, held, pc, block>>

(***************************************************************************)
(* idle: in no call.  checked: alloc() saw m_size > 0.  allocated: alloc() *)
(* has the block and is about to decrement.  deallocated: free() gave the  *)
(* block back and is about to increment.                                   *)
(***************************************************************************)
PC == {"idle", "checked", "allocated", "deallocated"}

At(where) == {t \in Threads : pc[t] \in where}

Allocating == At({"checked", "allocated"})

TypeOK ==
  /\ size \in 0 .. Capacity
  /\ live \in SUBSET Blocks
  /\ held \in SUBSET live
  /\ pc \in [Threads -> PC]
  /\ block \in [Threads -> Blocks \cup {NoBlock}]

Init ==
  /\ size = Capacity
  /\ live = {}
  /\ held = {}
  /\ pc = [t \in Threads |-> "idle"]
  /\ block = [t \in Threads |-> NoBlock]

\* Mutant: the test lets an empty pool through.
AllocAtZero(t) ==
  /\ pc[t] = "idle"
  /\ SerialAlloc => Allocating = {}
  /\ pc' = [pc EXCEPT ![t] = "checked"]
  /\ UNCHANGED <<size, live, held, block>>

\* if (m_size > 0); otherwise an empty DataBlock is returned.
Alloc(t) ==
  /\ pc[t] = "idle"
  /\ SerialAlloc => Allocating = {}
  /\ \/ /\ size > 0
        /\ pc' = [pc EXCEPT ![t] = "checked"]
        /\ UNCHANGED <<size, live, held, block>>
     \/ size = 0 /\ UNCHANGED vars

\* Mutant: the count is taken before the resource is asked, and not restored.
AllocateCountsFirst(t) ==
  /\ pc[t] = "checked"
  /\ UNCHANGED held
  /\ \/ \E b \in Blocks \ live :
          /\ live' = live \cup {b}
          /\ block' = [block EXCEPT ![t] = b]
          /\ pc' = [pc EXCEPT ![t] = "allocated"]
          /\ UNCHANGED size
     \/ /\ pc' = [pc EXCEPT ![t] = "idle"]
        /\ size' = size - 1
        /\ UNCHANGED <<live, block>>

\* m_alloc.allocate: a block that is not in use, or an exception that becomes
\* an empty DataBlock (the resource is bounded and may be exhausted earlier).
Allocate(t) ==
  /\ pc[t] = "checked"
  /\ UNCHANGED <<size, held>>
  /\ \/ \E b \in Blocks \ live :
          /\ live' = live \cup {b}
          /\ block' = [block EXCEPT ![t] = b]
          /\ pc' = [pc EXCEPT ![t] = "allocated"]
     \/ /\ pc' = [pc EXCEPT ![t] = "idle"]
        /\ UNCHANGED <<live, block>>

\* Mutant: the count is not taken at all.
DecrementForgotten(t) ==
  /\ pc[t] = "allocated"
  /\ held' = held \cup {block[t]}
  /\ pc' = [pc EXCEPT ![t] = "idle"]
  /\ block' = [block EXCEPT ![t] = NoBlock]
  /\ UNCHANGED <<size, live>>

\* m_size--, and the block is the caller's.
Decrement(t) ==
  /\ pc[t] = "allocated"
  /\ size' = (size + SizeMod - 1) % SizeMod
  /\ held' = held \cup {block[t]}
  /\ pc' = [pc EXCEPT ![t] = "idle"]
  /\ block' = [block EXCEPT ![t] = NoBlock]
  /\ UNCHANGED live

\* m_alloc.deallocate of a block some thread got, by any thread, once.
Free(t, b) ==
  /\ pc[t] = "idle"
  /\ b \in held
  /\ held' = held \ {b}
  /\ live' = live \ {b}
  /\ pc' = [pc EXCEPT ![t] = "deallocated"]
  /\ UNCHANGED <<size, block>>

\* m_size++
Increment(t) ==
  /\ pc[t] = "deallocated"
  /\ size' = (size + 1) % SizeMod
  /\ pc' = [pc EXCEPT ![t] = "idle"]
  /\ UNCHANGED <<live, held, block>>

Next ==
  \E t \in Threads :
    \/ Alloc(t) \/ Allocate(t) \/ Decrement(t) \/ Increment(t)
    \/ \E b \in Blocks : Free(t, b)

Spec == Init /\ [][Next]_vars

-----------------------------------------------------------------------------
(***************************************************************************)
(* Whatever threads are in the middle of, the count differs from the       *)
(* number of free elements by the calls in flight only: no interleaving of *)
(* alloc(), free() and a resource failure loses or invents an element.     *)
(***************************************************************************)
SizeExact ==
  size + Cardinality(live) + Cardinality(At({"deallocated"}))
    = Capacity + Cardinality(At({"allocated"}))

(***************************************************************************)
(* With serialized alloc() the pool is the block pool of BlockPool.tla:    *)
(* free() may run at any time next to alloc() and next to other free()s,   *)
(* no block is held twice, and no more than m_capacity are held.           *)
(***************************************************************************)
Contract == INSTANCE BlockPool

ImplementsBlockPool == Contract!Spec
=============================================================================
