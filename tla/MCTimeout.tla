----------------------------- MODULE MCTimeout -----------------------------
(***************************************************************************)
(* An instance of Timeout for TLC, with ints of 4 bits and a wheel of       *)
(* levels that end at 2, 4, 8 and 16 ticks: one delay in each half.         *)
(***************************************************************************)
EXTENDS Timeout

LevelTicks == {0, 1, 3, 7}
LevelAdj == {7}
=============================================================================
