---------------------------- MODULE MCRunService ----------------------------
(***************************************************************************)
(* Values of the constants of RunService for TLC.                          *)
(***************************************************************************)
EXTENDS RunService, TLC

CONSTANTS r1, c1, c2, w1, w2

Swaps == Permutations({c1, c2}) \cup Permutations({w1, w2})
=============================================================================
