------------------------------- MODULE MCIngest -------------------------------
(***************************************************************************)
(* Ingest on a few requests, a channel and a batch of one or two records.  *)
(***************************************************************************)
EXTENDS Ingest, TLC

CONSTANTS r1, r2, r3, r4, r5

GoodRequests == Permutations(Requests \ Malformed)
=============================================================================
