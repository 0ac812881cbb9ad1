----------------------------- MODULE MCMailbox ------------------------------
(***************************************************************************)
(* Small instances of Mailbox for TLC.  Sizes: 1 is a small message, 2 a   *)
(* large one, 3 one that fits neither pool.  Each pool can be supplied     *)
(* with more blocks than its capacity.                                     *)
(***************************************************************************)
EXTENDS Mailbox, TLC

CONSTANTS t1, t2, m1, m2, s1, s2, s3, b1, b2

MCEltSize == [small |-> 1, large |-> 2]
MCPoolCap == [small |-> 2, large |-> 1]
MCPoolBlocks == [small |-> {s1, s2, s3}, large |-> {b1, b2}]
MCSymmetry ==
  Permutations({t1, t2}) \cup Permutations({s1, s2, s3}) \cup Permutations({b1, b2})
    \cup Permutations({m1, m2})
=============================================================================
