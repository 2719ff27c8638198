---------------------------- MODULE MCPolicyStore ----------------------------
(***************************************************************************)
(* PolicyStore on two controls, two requests and a few saves.              *)
(***************************************************************************)
EXTENDS PolicyStore, TLC

RequestSymmetry == Permutations(Requests)
=============================================================================
