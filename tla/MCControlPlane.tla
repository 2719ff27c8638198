---------------------------- MODULE MCControlPlane ----------------------------
(***************************************************************************)
(* The parts around the gateway and the change loop: the read-through      *)
(* caches, the accounts, the provider translation of a dialogue, the       *)
(* rollup jobs, the simulations and the detectors.  They share no state,   *)
(* so their interleaving adds nothing: a behaviour is about one of them,   *)
(* its focus, and the others keep still.                                   *)
(***************************************************************************)
EXTENDS ReadThrough, Accounts, Dialogue, Jobs, Simulations, MCDetection

CONSTANTS a1, a2, b1, b2

(* Components share these values: nodes, callers and tools the first pair, *)
(* reads and emails the second.                                            *)
Interchangeable == Permutations({a1, a2}) \cup Permutations({b1, b2})

MCCacheTTL == [key |-> 1, credential |-> 1, retention |-> 1]
MCSlacks == {[lag |-> 0, gap |-> 1], [lag |-> 1, gap |-> 0]}

RowOf(asked, cost, known, status, key) ==
  [asked |-> asked, model |-> asked, usage |-> 2, cost |-> cost, known |-> known, status |-> status, key |-> key]
(* Weights are in 64ths, with five binary digits: 21/64 three times is 1.   *)
MCRows == {RowOf("big", 8, TRUE, "ok", k1), RowOf("big", 8, TRUE, "ok", k2),
           RowOf("small", 2, TRUE, "ok", k1), RowOf("big", 0, FALSE, "provider_error", NoKey)}
MCScenarios ==
  {[type |-> "model_mix", from |-> "big", to |-> "small", weight |-> n, scale |-> 4] : n \in {0, 21, 32, 48}}
  \cup {[type |-> "exact_caching", ttl |-> n, entries |-> m] : n \in {0, 1, 2}, m \in {0, 1}}
  \cup {[type |-> "budget", limit |-> n, period |-> p] : n \in {0, 8, 9}, p \in {"daily", "monthly"}}

VARIABLE focus
controlPlaneVars ==
  <<focus, cacheVars, accountVars, dialogueVars, jobVars, simulationVars, detectionVars>>

Init ==
  /\ focus \in {"caches", "accounts", "dialogue", "jobs", "simulations", "detection"}
  /\ ReadThroughInit /\ AccountsInit /\ DialogueInit /\ JobsInit /\ SimulationsInit /\ DetectionInit
  /\ focus # "caches" => kind = "key"
  /\ focus # "jobs" => slack = CHOOSE s \in Slacks : TRUE
  /\ focus # "detection" => workload = CHOOSE w \in DOMAIN Workloads : TRUE

Next ==
  /\ UNCHANGED focus
  /\ \/ /\ focus = "caches" /\ ReadThroughNext
        /\ UNCHANGED <<accountVars, dialogueVars, jobVars, simulationVars, detectionVars>>
     \/ /\ focus = "accounts" /\ AccountsNext
        /\ UNCHANGED <<cacheVars, dialogueVars, jobVars, simulationVars, detectionVars>>
     \/ /\ focus = "dialogue" /\ DialogueNext
        /\ UNCHANGED <<cacheVars, accountVars, jobVars, simulationVars, detectionVars>>
     \/ /\ focus = "jobs" /\ JobsNext
        /\ UNCHANGED <<cacheVars, accountVars, dialogueVars, simulationVars, detectionVars>>
     \/ /\ focus = "simulations" /\ SimulationsNext
        /\ UNCHANGED <<cacheVars, accountVars, dialogueVars, jobVars, detectionVars>>
     \/ /\ focus = "detection" /\ DetectionNext
        /\ UNCHANGED <<cacheVars, accountVars, dialogueVars, jobVars, simulationVars>>

ControlPlaneSpec == Init /\ [][Next]_controlPlaneVars
=============================================================================
