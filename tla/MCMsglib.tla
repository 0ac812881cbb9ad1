------------------------------ MODULE MCMsglib -------------------------------
(***************************************************************************)
(* A small instance of Msglib for TLC: one block of either size.           *)
(***************************************************************************)
EXTENDS Msglib

CONSTANTS s1, b1

MCEltSize == [small |-> 1, large |-> 2]
MCPoolCap == [small |-> 1, large |-> 1]
MCPoolBlocks == [small |-> {s1}, large |-> {b1}]
=============================================================================
