------------------------------ MODULE MCGateway ------------------------------
(***************************************************************************)
(* Gateway on three requests, two at a time, for one priced OpenAI model,  *)
(* one Gemini model traffic may be routed to and one local model; two      *)
(* documents are published one after the other while they run.             *)
(***************************************************************************)
EXTENDS Gateway, TLC

CONSTANTS r1, r2, r3, b1

Interchangeable == Permutations(Requests)
MCCatalog == [gpt |-> "openai", gem |-> "gemini", loc |-> "none"]
MCPrice == [gpt |-> 1, gem |-> 1, loc |-> 0]
In(m, s) == [model |-> m, body |-> b1, stream |-> s]
MCInputs == {In("gpt", "no"), In("gpt", "yes"), In("loc", "yes")}

Capped == [allowed |-> Off, routing |-> Off, rate |-> 2,
           budget |-> [mode |-> "hard", limit |-> 1, period |-> "daily"], ttl |-> Off]
Cached == [allowed |-> {"gpt", "gem"}, rate |-> 1, ttl |-> 1,
           routing |-> [from |-> "gpt", to |-> "gem", weight |-> 50, sticky |-> FALSE],
           budget |-> [mode |-> "soft", limit |-> 1, period |-> "monthly"]]
MCPolicies == <<Capped, Cached>>
=============================================================================
