----------------------------- MODULE MCChangeLoop -----------------------------
(***************************************************************************)
(* ChangeLoop on one finding, one or two requests, and a few versions and  *)
(* clock ticks.                                                            *)
(***************************************************************************)
EXTENDS ChangeLoop, TLC

CONSTANTS f1, r1, r2

RequestSymmetry == Permutations(Requests)
=============================================================================
