----------------------------- MODULE MCExamples -----------------------------
(***************************************************************************)
(* The example programs with pools of one block.  mbox takes the sizes and *)
(* capacities from its command line: here Message1 and Message3 are large. *)
(* The threads of timer may come late.                                     *)
(***************************************************************************)
EXTENDS Examples

CONSTANTS s1, b1

MCSettings == {<<"mbox", TRUE>>, <<"timer", TRUE>>, <<"timer", FALSE>>}

MCEltSize == [small |-> 1, large |-> 3]
MCPoolCap == [small |-> 1, large |-> 1]
MCPoolBlocks == [small |-> {s1}, large |-> {b1}]
=============================================================================
