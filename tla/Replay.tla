-------------------------------- MODULE Replay --------------------------------
(***************************************************************************)
(* Simulations: internal/sim replays an application's recorded requests    *)
(* under another policy and reports what they would have cost.             *)
(*                                                                         *)
(* A fact is one row of requests, in the order they started:               *)
(*   [at, asked, model, usage, cost, known, status, key]                   *)
(* with usage in the unit the catalog prices and cost as it was recorded.  *)
(* A traffic weight is a float64: weight units of its last place, of which *)
(* Significand * scale make 1.                                             *)
(***************************************************************************)
EXTENDS Integers, Sequences, FiniteSets, SequencesExt

CONSTANTS
  UnitPrice,     \* catalog: what one unit of usage costs, per model it lists
  ReplayLimit,   \* MaxReplayedRequests
  DayLength,     \* how much of a fact's time makes a day
  Significand,   \* float64's least normal significand, as an integer: 2^52
  Powers,        \* the powers of two up to some bound
  NoKey          \* a row from before cache keys were computed

ASSUME ReplayAssumption ==
  /\ ReplayLimit \in Nat \ {0}
  /\ \A model \in DOMAIN UnitPrice : UnitPrice[model] \in Nat
  /\ Significand \in Nat \ {0} /\ Powers \subseteq Nat \ {0} /\ IsFiniteSet(Powers) /\ 1 \in Powers
  /\ \A p \in Powers : p = 1 \/ \E q \in Powers : p = 2 * q
  /\ \A p, q \in Powers : p < q => q % (2 * p) = 0

Total(costs) == FoldSeq(LAMBDA a, b : a + b, 0, costs)
CostOf(facts) == Total([i \in DOMAIN facts |-> facts[i].cost])
(* Calculate: a model the catalog does not list costs nothing. *)
Calculate(model, usage) == IF model \in DOMAIN UnitPrice THEN usage * UnitPrice[model] ELSE 0

(* round: halves away from zero, for a fraction a/b with b > 0. *)
RoundDiv(a, b) == IF a < 0 THEN -((2 * (-a) + b) \div (2 * b)) ELSE (2 * a + b) \div (2 * b)

(* Cap: a uniform stride over more rows than the limit. *)
Cap(facts) ==
  IF Len(facts) <= ReplayLimit THEN facts
  ELSE [n \in 1..ReplayLimit |-> facts[((n - 1) * Len(facts)) \div ReplayLimit + 1]]

ProjectMonthly(days, amount) == IF days <= 0 THEN 0 ELSE RoundDiv(amount * 30, days)

-----------------------------------------------------------------------------
(* Addition of float64s (IEEE 754).  A sum of weights is a whole number s  *)
(* of units; from Significand * q units on, only each q-th number is a     *)
(* float64.  The sum is the nearest of them, of two as near the even one.  *)
Spacing(s) == Max({q \in Powers : q = 1 \/ q * Significand <= s})
Rounded(s) ==
  LET q == Spacing(s)
      rest == s % q
  IN IF 2 * rest < q \/ (2 * rest = q /\ (s \div q) % 2 = 0) THEN s - rest ELSE s - rest + q
One(scenario) == Significand * scenario.scale

(* SimulateModelMix: of the requests for one model that were served and    *)
(* priced, every one that takes the running sum of weights to one or past  *)
(* it is priced as if the candidate had served it.  What is left of a sum  *)
(* between one and two is exact.                                           *)
Matches(f, scenario) == f.asked = scenario.from /\ f.known /\ f.status = "ok"
Left_None(acc, scenario) == 0
Left(acc, scenario) == acc - One(scenario)
MixStart == [acc |-> 0, matched |-> 0, affected |-> 0, actual |-> 0, simulated |-> 0]
MixStep(s, f, scenario) ==
  LET acc == Rounded(s.acc + scenario.weight)
      moved == acc >= One(scenario)
  IN IF ~Matches(f, scenario) THEN s
     ELSE [acc |-> IF moved THEN Left(acc, scenario) ELSE acc,
           matched |-> s.matched + 1,
           affected |-> IF moved THEN s.affected + 1 ELSE s.affected,
           actual |-> s.actual + f.cost,
           simulated |-> s.simulated +
             IF moved THEN Calculate(scenario.to, f.usage) ELSE f.cost]
SimulateModelMix(facts, scenario) ==
  FoldLeft(LAMBDA s, f : MixStep(s, f, scenario), MixStart, facts)

(* SimulateCaching: a cache of the given TTL and, where entries is not 0,  *)
(* size.  A hit costs nothing, counts as a use and does not extend the     *)
(* entry; a miss fills it.  expires is the cache, lru its keys by use.     *)
TouchLRU(lru, key) == Append(RemoveFirst(lru, key), key)
CacheStep_Renewing(s, f, scenario) ==
  LET held == f.key \in DOMAIN s.expires /\ f.at < s.expires[f.key]
  IN [s EXCEPT !.expires = [k \in DOMAIN @ \cup {f.key} |-> IF k = f.key THEN f.at + scenario.ttl ELSE @[k]],
               !.lru = TouchLRU(@, f.key),
               !.hits = IF held THEN @ \cup {s.n + 1} ELSE @,
               !.simulated = IF held THEN @ ELSE @ + f.cost, !.n = @ + 1]
CacheStep(s, f, scenario) ==
  LET lru == TouchLRU(s.lru, f.key)
      evicted == IF scenario.entries > 0 /\ Len(lru) > scenario.entries THEN {Head(lru)} ELSE {}
      kept == (DOMAIN s.expires \cup {f.key}) \ evicted
  IN CASE f.key = NoKey -> [s EXCEPT !.simulated = @ + f.cost, !.n = @ + 1]
       [] f.key \in DOMAIN s.expires /\ f.at < s.expires[f.key] ->
            [s EXCEPT !.lru = lru, !.hits = @ \cup {s.n + 1}, !.n = @ + 1]
       [] OTHER ->
            [s EXCEPT !.expires = [k \in kept |-> IF k = f.key THEN f.at + scenario.ttl ELSE @[k]],
                      !.lru = IF evicted = {} THEN lru ELSE Tail(lru),
                      !.simulated = @ + f.cost, !.n = @ + 1]
SimulateCaching(facts, scenario) ==
  FoldLeft(LAMBDA s, f : CacheStep(s, f, scenario),
           [expires |-> <<>>, lru |-> <<>>, hits |-> {}, simulated |-> 0, n |-> 0], facts)

(* SimulateBudget: a request is refused once the period's spend has        *)
(* reached the limit, and then adds nothing to it.                         *)
PeriodOf(scenario, at) == IF scenario.period = "monthly" THEN 0 ELSE at \div DayLength
BudgetStep_CountingRefused(s, f, scenario) ==
  LET p == PeriodOf(scenario, f.at)
      refused == s.spent[p] > scenario.limit
  IN [spent |-> [s.spent EXCEPT ![p] = @ + f.cost],
      blocked |-> IF refused THEN s.blocked \cup {s.n + 1} ELSE s.blocked, n |-> s.n + 1]
BudgetStep(s, f, scenario) ==
  LET p == PeriodOf(scenario, f.at)
      refused == s.spent[p] >= scenario.limit
  IN [spent |-> IF refused THEN s.spent ELSE [s.spent EXCEPT ![p] = @ + f.cost],
      blocked |-> IF refused THEN s.blocked \cup {s.n + 1} ELSE s.blocked, n |-> s.n + 1]
SimulateBudget(facts, scenario) ==
  FoldLeft(LAMBDA s, f : BudgetStep(s, f, scenario),
           [spent |-> [p \in {PeriodOf(scenario, facts[i].at) : i \in DOMAIN facts} |-> 0],
            blocked |-> {}, n |-> 0], facts)

-----------------------------------------------------------------------------
(* handleCreateSimulation: the scenario's fields are checked, then it is   *)
(* run over the capped rows and the outcome stored.                        *)
Accepts(scenario) ==
  CASE scenario.type = "model_mix"     -> scenario.weight > 0 /\ scenario.weight <= One(scenario)
    [] scenario.type = "exact_caching" -> scenario.ttl > 0
    [] scenario.type = "budget"        -> scenario.limit > 0
    [] OTHER -> FALSE

Outcome(facts, scenario) ==
  CASE scenario.type = "model_mix" ->
         LET r == SimulateModelMix(facts, scenario)
         IN [affected |-> r.affected, actual |-> r.actual, simulated |-> r.simulated]
    [] scenario.type = "exact_caching" ->
         LET r == SimulateCaching(facts, scenario)
         IN [affected |-> Cardinality(r.hits), actual |-> CostOf(facts), simulated |-> r.simulated]
    [] scenario.type = "budget" ->
         [affected |-> Cardinality(SimulateBudget(facts, scenario).blocked),
          actual |-> CostOf(facts), simulated |-> CostOf(facts)]

CreateSimulation(rows, scenario, days) ==
  LET facts == Cap(rows)
      out == Outcome(facts, scenario)
  IN [replayed |-> Len(facts), sampled |-> Len(rows) > ReplayLimit, affected |-> out.affected,
      actual |-> out.actual, simulated |-> out.simulated, delta |-> out.simulated - out.actual,
      monthly |-> ProjectMonthly(days, out.actual - out.simulated)]
-----------------------------------------------------------------------------
(* What the three scenarios promise, said without replaying *)

(* A true replay of an exact cache: a request is a hit if and only if its  *)
(* key was last filled, by the last request for it that was no hit, less   *)
(* than a TTL ago, and fewer than MaxEntries other keys were used since    *)
(* its last use.                                                           *)
Before(facts, i) == {j \in 1..i-1 : facts[j].key = facts[i].key}
HitsOfACache(facts, scenario, hits) ==
  \A i \in DOMAIN facts :
    LET earlier == Before(facts, i)
        last == Max(earlier)
        used == {facts[m].key : m \in last+1..i-1} \ {facts[i].key, NoKey}
    IN i \in hits <=>
         /\ facts[i].key # NoKey /\ earlier # {} /\ earlier \ hits # {}
         /\ facts[i].at < facts[Max(earlier \ hits)].at + scenario.ttl
         /\ scenario.entries = 0 \/ Cardinality(used) < scenario.entries

(* A share of the traffic: of the requests that match, the weight's part   *)
(* is moved, less at most one.  Each of the matched additions may be off   *)
(* by half of scale, the distance of the float64s from 1 on; a weight that *)
(* is a multiple of it is followed to the request, rounded down.           *)
MovesAShare(scenario, matched, affected) ==
  LET share == matched * scenario.weight
      excess == affected * One(scenario) - share
  IN /\ 2 * excess <= matched * scenario.scale
     /\ 2 * excess >= -(2 * One(scenario) + matched * scenario.scale)
     /\ scenario.weight % scenario.scale = 0 => affected = share \div One(scenario)

(* A hard budget cuts a period in two: a request is refused if and only if *)
(* all that came before it in its period costs the limit or more.          *)
SpentBefore(facts, scenario, i) ==
  Total([j \in 1..i-1 |-> IF PeriodOf(scenario, facts[j].at) = PeriodOf(scenario, facts[i].at)
                          THEN facts[j].cost ELSE 0])
BlocksOfABudget(facts, scenario, blocked) ==
  \A i \in DOMAIN facts : i \in blocked <=> SpentBefore(facts, scenario, i) >= scenario.limit
=============================================================================
