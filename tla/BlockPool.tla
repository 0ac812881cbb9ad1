----------------------------- MODULE BlockPool ------------------------------
(***************************************************************************)
(* What detail::BytePool promises its users: it hands out blocks nobody    *)
(* holds, never more of them at a time than its capacity, and takes back   *)
(* what it handed out.  BytePool.tla is shown to implement it when its     *)
(* callers allocate one at a time; Mailbox.tla, whose senders do, takes    *)
(* these steps as the operations of its two pools.                         *)
(***************************************************************************)
EXTENDS Naturals, FiniteSets

CONSTANTS
  Blocks,      \* the fixed-size blocks of memory
  Capacity     \* most blocks that may be held at a time

VARIABLE held  \* the blocks handed out and not yet given back

Init == held = {}

Give(b) ==
  /\ b \notin held
  /\ Cardinality(held) < Capacity
  /\ held' = held \cup {b}

TakeBack(b) ==
  /\ b \in held
  /\ held' = held \ {b}

Next == \E b \in Blocks : Give(b) \/ TakeBack(b)

Spec == Init /\ [][Next]_held
=============================================================================
