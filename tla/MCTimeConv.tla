----------------------------- MODULE MCTimeConv ------------------------------
(***************************************************************************)
(* A second of 10 nanoseconds and 5 microseconds; durations in seconds,    *)
(* half seconds, tenths (nanoseconds), and two units that are no multiple  *)
(* of a nanosecond.                                                        *)
(***************************************************************************)
EXTENDS TimeConv

MCRates == {1, 2, 10, 15, 20}
MCCounts == -25 .. 45
MCSecs == -1 .. 2
MCUsecs == -2 .. 7
=============================================================================
