--------------------------- MODULE MCPolicySnapshot ---------------------------
(***************************************************************************)
(* PolicySnapshot on one or two processes and a few versions.              *)
(***************************************************************************)
EXTENDS PolicySnapshot, TLC

CONSTANTS p1, p2, g1, g2, w1, w2

Symmetry ==
  Permutations(Processes) \cup Permutations(Readers) \cup Permutations(Writers)
=============================================================================
