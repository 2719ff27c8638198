------------------------------ MODULE Simulations ------------------------------
(***************************************************************************)
(* POST /api/v1/simulations: recorded traffic is replayed under a scenario *)
(* and the outcome is stored.                                              *)
(***************************************************************************)
EXTENDS Replay

CONSTANTS
  Rows,          \* rows of requests that can be recorded, without their time
  Scenarios,     \* what clients ask for, acceptable or not
  WindowDays,    \* window_days of a request; 0: the default
  DefaultDays,   \* defaultSimulationWindowDays
  MaxRecorded, LastInstant,
  NoSimulation

ASSUME SimulationsAssumption ==
  /\ \A row \in Rows : row.cost \in Nat /\ row.usage \in Nat
  /\ LastInstant \in Nat
  /\ \A s \in Scenarios :
       /\ s.type = "exact_caching" => s.ttl \in Int /\ s.entries \in Nat
       /\ s.type = "budget" => s.limit \in Int
       /\ s.type = "model_mix" =>
            s.scale \in Powers /\ s.weight \in Int /\ Rounded(s.weight) = s.weight

VARIABLES
  recorded,      \* table requests, in the order they started
  simulation     \* the simulation just created, with what it replayed

simulationVars == <<recorded, simulation>>

SimulationsInit == recorded = <<>> /\ simulation = NoSimulation

Timed(row, t) == [at |-> t, asked |-> row.asked, model |-> row.model, usage |-> row.usage,
                  cost |-> row.cost, known |-> row.known, status |-> row.status, key |-> row.key]

Record ==
  /\ Len(recorded) < MaxRecorded
  /\ \E row \in Rows, t \in 0..LastInstant :
       /\ recorded # <<>> => t >= Last(recorded).at
       /\ recorded' = Append(recorded, Timed(row, t))
  /\ simulation' = NoSimulation

(* simulationWindow: so many days and the day that is not over. *)
SimulationWindow(days, today) ==
  LET n == IF days <= 0 THEN DefaultDays ELSE days
  IN [start |-> (today - n) * DayLength, end |-> (today + 1) * DayLength, days |-> n + 1]

(* The rows of the window.  The table is in the order of their time. *)
ReplayFacts(since, until) ==
  LET EarlierThan(t) == Cardinality({i \in DOMAIN recorded : recorded[i].at < t})
  IN SubSeq(recorded, EarlierThan(since) + 1, EarlierThan(until))

(* handleCreateSimulation; an unacceptable scenario is refused. *)
Simulate(scenario, days) ==
  /\ recorded # <<>> /\ simulation = NoSimulation
  /\ Accepts(scenario)
  /\ LET window == SimulationWindow(days, Last(recorded).at \div DayLength)
         rows == ReplayFacts(window.start, window.end)
     IN simulation' = [scenario |-> scenario, facts |-> Cap(rows),
                       result |-> CreateSimulation(rows, scenario, window.days)]
  /\ UNCHANGED recorded

SimulationsNext == Record \/ \E scenario \in Scenarios, days \in WindowDays : Simulate(scenario, days)

SimulationsSpec == SimulationsInit /\ [][SimulationsNext]_simulationVars
-----------------------------------------------------------------------------
MatchesItsDefinition(facts, scenario, result) ==
  CASE scenario.type = "exact_caching" ->
         LET hits == SimulateCaching(facts, scenario).hits
         IN /\ HitsOfACache(facts, scenario, hits)
            /\ result.affected = Cardinality(hits)
            /\ result.simulated = Total([i \in DOMAIN facts |-> IF i \in hits THEN 0 ELSE facts[i].cost])
    [] scenario.type = "budget" ->
         LET blocked == SimulateBudget(facts, scenario).blocked
         IN BlocksOfABudget(facts, scenario, blocked) /\ result.affected = Cardinality(blocked)
    [] scenario.type = "model_mix" ->
         LET matched == {i \in DOMAIN facts : Matches(facts[i], scenario)}
         IN /\ MovesAShare(scenario, Cardinality(matched), result.affected)
            /\ result.actual = Total([i \in DOMAIN facts |-> IF i \in matched THEN facts[i].cost ELSE 0])

(* A replay over a loop with running state gives what its scenario means:  *)
(* the hits of a cache with that TTL and size; the requests past the point *)
(* where a period's budget was used up; and of the requests that match,    *)
(* the weight's share, rounded down but for what the floating-point sums   *)
(* are off.  The stored numbers follow from those alone.                   *)
ReplayMatchesItsDefinition ==
  simulation # NoSimulation =>
    /\ MatchesItsDefinition(simulation.facts, simulation.scenario, simulation.result)
    /\ simulation.result.delta = simulation.result.simulated - simulation.result.actual
=============================================================================
