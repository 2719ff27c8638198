------------------------------- MODULE Findings -------------------------------
(***************************************************************************)
(* The four detectors of internal/detect, the trust floors their           *)
(* candidates must clear, and the efficiency score internal/score computes *)
(* from the same detectors.  All are pure functions of an application's    *)
(* recorded traffic.                                                       *)
(*                                                                         *)
(* A workload is what the tables hold of one application's traffic:        *)
(*   facts   rows of requests, in the order they started                   *)
(*   days    daily totals per model    hours   hourly totals, by hour      *)
(* Time is counted in hours, a run happens in the hour now.                *)
(* Money is in the unit of UnitPrice, fractions are kept as numerator and  *)
(* denominator, z-scores are in hundredths and error rates in percent.     *)
(* The text of a finding and its evidence are left out.                    *)
(***************************************************************************)
EXTENDS Replay

CONSTANTS
  Downgrades,    \* catalog: [model -> candidates declared for it]
  Traits,        \* catalog: [model -> [context, maxOutput, caps, provider]]
  TTLs,          \* ttlSweep
  Floors,        \* [requests, spend, savings] below which nothing is reported
  MaxOpen,       \* MaxOpenOpportunitiesPerApp
  TokenFloor,    \* tokenEffMinRequests
  Samples,       \* [medium, high]: the sample sizes of the confidence tiers
  Evaluation,    \* anomalyEvaluationHours
  SlotSamples    \* minSlotSamples

ASSUME FindingsAssumption ==
  /\ IsFiniteSet(DOMAIN Downgrades) /\ \A model \in DOMAIN Downgrades : IsFiniteSet(Downgrades[model])
  /\ IsFiniteSet(TTLs) /\ TTLs # {} /\ TTLs \subseteq Int
  /\ {Floors.requests, Floors.spend, Floors.savings, MaxOpen, TokenFloor, Evaluation} \subseteq Nat
  /\ TokenFloor > 0

AtLeast(part, num, den, whole) == part * den >= num * whole
Least(a, b) == IF a < b THEN a ELSE b
Abs(n) == IF n < 0 THEN -n ELSE n
Sorted(seq) == SortSeq(seq, LAMBDA a, b : a < b)
ScoreOf(confidence) == CASE confidence = "high" -> 10 [] confidence = "medium" -> 6 [] OTHER -> 3
Tier(high, medium) == IF high THEN "high" ELSE IF medium THEN "medium" ELSE "low"

(* What of a sequence is at the places I, in the order of seq.  Here and   *)
(* in RankAndCap a place is found by counting what comes before it: the    *)
(* provers have facts of sizes, and none of SelectSeq and SortSeq.         *)
Subsequence(seq, I) ==
  LET before == [i \in I |-> Cardinality({j \in I : j < i})]
  IN [k \in 1..Cardinality(I) |-> seq[CHOOSE i \in I : before[i] = k - 1]]

DaysBefore(now, days) == now - days * DayLength
(* The rows of a window, and of those the ones that were served. *)
Between(w, from, to) == Subsequence(w.facts, {i \in DOMAIN w.facts : w.facts[i].at >= from /\ w.facts[i].at < to})
Ok(facts) == Subsequence(facts, {i \in DOMAIN facts : facts[i].status = "ok"})
Served(w, from, to) == Ok(Between(w, from, to))
(* The priced ones that asked for a model. *)
Group(facts, model) == Subsequence(facts, {i \in DOMAIN facts : facts[i].known /\ facts[i].asked = model})

-----------------------------------------------------------------------------
(* DetectModelCost *)

(* percentile 0.9, nearest rank. *)
P90(seq) == Sorted(seq)[(9 * (Len(seq) - 1) + 5) \div 10 + 1]

(* eligibilityReason: the request fits the candidate. *)
Eligible(f, traits, maxOutput) ==
  /\ 10 * f.input <= 6 * traits.context
  /\ f.output <= maxOutput
  /\ ~f.calledTools
  /\ f.needs \subseteq traits.caps

ModelCostConfidence(part, whole, sameProvider) ==
  LET tier == Tier(AtLeast(part, 6, 10, whole) /\ whole >= Samples.high,
                   AtLeast(part, 4, 10, whole) /\ whole >= Samples.medium)
  IN IF ~sameProvider /\ tier = "high" THEN "medium" ELSE tier

Finding(kind, a, b, source, saved, current, confidence, window) ==
  [kind |-> kind, fingerprint |-> <<kind, a, b>>, source |-> source, severity |-> "none",
   savings |-> saved, current |-> current, confidence |-> confidence, window |-> window]

(* buildCandidate recommends to move the eligible part, but never more     *)
(* than half of the whole; a split is twice the requests moved.            *)
Split_Everything(part, whole) == 2 * part
Split(part, whole) == Least(2 * part, whole)
BuildCandidate(group, from, to, window) ==
  LET traits == Traits[to]
      whole == Len(group)
      maxOutput == Least(traits.maxOutput, P90([i \in 1..whole |-> group[i].output]))
      e == Subsequence(group, {i \in 1..whole : Eligible(group[i], traits, maxOutput)})
      saved == CostOf(e) - Total([i \in DOMAIN e |-> Calculate(to, e[i].input + e[i].output)])
  IN IF ~AtLeast(Len(e), 3, 10, whole) \/ saved <= 0 THEN {}
     ELSE {Finding("model_cost", from, to, from,
                   RoundDiv(saved * Split(Len(e), whole) * 30, 2 * Len(e) * 14),
                   RoundDiv(CostOf(group) * 30, 14),
                   ModelCostConfidence(Len(e), whole, traits.provider = Traits[from].provider), window)}

DetectModelCost(w, now) ==
  LET window == <<DaysBefore(now, 14), now>>
      facts == Served(w, window[1], window[2])
  IN UNION {UNION {BuildCandidate(Group(facts, m), m, c, window) : c \in Downgrades[m]} :
              m \in {x \in DOMAIN Downgrades : Group(facts, x) # <<>>}}

-----------------------------------------------------------------------------
(* DetectRepeatedRequest: what a cache would have saved, at the best of    *)
(* the TTLs, less a tenth for a real cache's losses.                       *)
SweepSaving(known, ttl) ==
  RoundDiv((CostOf(known) - SimulateCaching(known, [ttl |-> ttl, entries |-> 0]).simulated) * 9 * 30, 70)
Keyed(facts) == Subsequence(facts, {i \in DOMAIN facts : facts[i].known /\ facts[i].key # NoKey})
DetectRepeatedRequest(w, now) ==
  LET window == <<DaysBefore(now, 7), now>>
      known == Keyed(Served(w, window[1], window[2]))
      repeats == Cardinality({i \in DOMAIN known : Before(known, i) # {}})
      saving == Max({SweepSaving(known, ttl) : ttl \in TTLs})
  IN IF known = <<>> \/ ~AtLeast(repeats, 5, 100, Len(known)) \/ saving <= 0 THEN {}
     ELSE {Finding("repeated_request", "", "", NoKey, saving, RoundDiv(CostOf(known) * 30, 7),
                   Tier(AtLeast(repeats, 15, 100, Len(known)) /\ Len(known) >= Samples.high,
                        AtLeast(repeats, 8, 100, Len(known)) /\ Len(known) >= Samples.medium), window)}

-----------------------------------------------------------------------------
(* DetectTokenEfficiency: a model's mean tokens of the last 7 days against *)
(* the 28 days before, input and output each on its own.                   *)
Clears(c) == c.savings >= Floors.savings /\ c.current > 0 /\ c.savings * 20 >= c.current
DriftCandidate(model, dimension, num, base, cur, window) ==
  LET grown == cur.tokens * base.requests - base.tokens * cur.requests
      was == base.tokens * cur.requests
      price == UnitPrice[model]
      c == Finding("token_efficiency", model, dimension, model,
             RoundDiv(grown * price * 30, base.requests * 7), RoundDiv(cur.tokens * price * 30, 7),
             Tier(2 * grown >= was /\ cur.requests >= Samples.high,
                  10 * grown >= 3 * was /\ cur.requests >= Samples.medium), window)
  IN IF base.tokens > 0 /\ model \in DOMAIN UnitPrice
     THEN IF 100 * grown >= num * was /\ Clears(c) THEN {c} ELSE {}
     ELSE {}
DetectTokenEfficiency(w, today) ==
  LET sum(model, field, from, to) ==
        Total([i \in DOMAIN w.days |->
          IF w.days[i].model = model /\ w.days[i].day \in from..to-1 THEN w.days[i][field] ELSE 0])
      in(model, field, from, to) ==
        [requests |-> sum(model, "requests", from, to), tokens |-> sum(model, field, from, to)]
      base(m, field) == in(m, field, today - 35, today - 7)
      cur(m, field) == in(m, field, today - 7, today)
      models == {m \in {w.days[i].model : i \in DOMAIN w.days} :
                   base(m, "input").requests >= TokenFloor /\ cur(m, "input").requests >= TokenFloor}
      window == <<(today - 35) * DayLength, today * DayLength>>
  IN UNION {DriftCandidate(m, "input", 25, base(m, "input"), cur(m, "input"), window)
            \cup DriftCandidate(m, "output", 35, base(m, "output"), cur(m, "output"), window) : m \in models}

-----------------------------------------------------------------------------
(* DetectTrafficAnomaly: the last hours against the median of the same     *)
(* hour of earlier weeks, in robust standard deviations.                   *)
Quiet == [requests |-> 0, errors |-> 0, tokens |-> 0, cost |-> 0]
Metrics == <<"requests", "cost", "tokens", "error_rate">>
Metric(s, m) == IF m = "error_rate" THEN IF s.requests = 0 THEN 0 ELSE (100 * s.errors) \div s.requests
                ELSE s[m]
(* medianFloat, doubled to stay an integer. *)
Middle2(s) == LET n == Len(s) IN IF n % 2 = 1 THEN 2 * s[n \div 2 + 1] ELSE s[n \div 2] + s[n \div 2 + 1]
Median2(seq) == Middle2(Sorted(seq))
ZScore(off, mad) ==
  IF off = 0 THEN 0
  ELSE (IF off < 0 THEN -1 ELSE 1) * (IF mad = 0 THEN 450 ELSE (Abs(off) * 2000000) \div (14826 * mad))
Deviation(v, past, med) == ZScore(2 * v - med, Median2([i \in DOMAIN past |-> Abs(2 * past[i] - med)]))
RobustZ(v, past) == Deviation(v, past, Median2(past))

(* The part of the hours the query returns, and the baseline of an hour. *)
Fetched(w, now) == {h \in DOMAIN w.hours : h \in (DaysBefore(now, 28) + 1)..now}
Baseline(w, now, h) ==
  {x \in Fetched(w, now) : x < now - Evaluation /\ x % (7 * DayLength) = h % (7 * DayLength)}
(* One evaluated hour: its scores and the metric they peak at, the first   *)
(* of the largest.                                                         *)
PickPeak(z) == CHOOSE m \in DOMAIN z :
  \A k \in DOMAIN z : Abs(z[k]) < Abs(z[m]) \/ (Abs(z[k]) = Abs(z[m]) /\ m <= k)
HourResult(h, z, peak, spike) ==
  [hour |-> h, z |-> Abs(z[peak]), metric |-> Metrics[peak], severe |-> z[2] > 500 \/ spike > 20]
Against(h, stat, past) ==
  LET z == <<RobustZ(Metric(stat, "requests"), past["requests"]), RobustZ(Metric(stat, "cost"), past["cost"]),
             RobustZ(Metric(stat, "tokens"), past["tokens"]), RobustZ(Metric(stat, "error_rate"), past["error_rate"])>>
  IN HourResult(h, z, PickPeak(z), 2 * Metric(stat, "error_rate") - Median2(past["error_rate"]))
Evaluate(w, now, h) ==
  LET slot == SetToSeq(Baseline(w, now, h))
  IN IF Len(slot) < SlotSamples THEN HourResult(h, <<0, 0, 0, 0>>, 1, 0)
     ELSE Against(h, IF h \in Fetched(w, now) THEN w.hours[h] ELSE Quiet,
                  [m \in Range(Metrics) |-> [i \in DOMAIN slot |-> Metric(w.hours[slot[i]], m)]])

(* A finding is a longest run of at least two hours past the threshold. *)
Spans(odd) == {s \in odd \X odd : /\ s[1] < s[2] /\ s[1]..s[2] \subseteq odd
                                    /\ {s[1] - 1, s[2] + 1} \cap odd = {}}
PeakOf(run) == CHOOSE r \in run : \A x \in run : x.z < r.z \/ (x.z = r.z /\ r.hour <= x.hour)
Anomaly(run, peak, span) ==
  [Finding("traffic_anomaly", peak.metric, span[1], NoKey, 0, 0,
           Tier(peak.z >= 600 /\ Cardinality(run) >= 3, TRUE), <<span[1], span[2] + 1>>)
   EXCEPT !.severity = IF \E r \in run : r.severe THEN "high" ELSE "medium"]
Report(run, span) == Anomaly(run, PeakOf(run), span)
Anomalies(results) ==
  {Report({r \in results : r.hour \in span[1]..span[2]}, span) :
     span \in Spans({r.hour : r \in {x \in results : x.z > 350}})}
DetectTrafficAnomaly(w, now) ==
  IF Fetched(w, now) = {} THEN {}
  ELSE IF Min(Fetched(w, now)) > DaysBefore(now, 14) THEN {}
  ELSE Anomalies({Evaluate(w, now, h) : h \in (now - Evaluation)..(now - 1)})

-----------------------------------------------------------------------------
(* Runner: floors, ranking, cap *)

(* Summary adds up whole days, today's included, and every status. *)
DayOfHour(now) == now \div DayLength
Recorded(w, now) == Between(w, (DayOfHour(now) - 14) * DayLength, (DayOfHour(now) + 1) * DayLength)
AppMeetsFloors(facts) == Len(facts) >= Floors.requests /\ CostOf(facts) >= Floors.spend
CandidateMeetsSavingsFloor(c) == c.kind = "traffic_anomaly" \/ Clears(c)
Rank(c) == c.savings * ScoreOf(c.confidence)
(* A stable sort: equals keep their order. *)
Ahead(seq, j, i) == Rank(seq[j]) > Rank(seq[i]) \/ (Rank(seq[j]) = Rank(seq[i]) /\ j < i)
RankAndCap(seq) ==
  LET ahead == [i \in DOMAIN seq |-> Cardinality({j \in DOMAIN seq : Ahead(seq, j, i)})]
  IN [k \in 1..Least(Len(seq), MaxOpen) |-> seq[CHOOSE i \in DOMAIN seq : ahead[i] = k - 1]]
Worthwhile(seq) == Subsequence(seq, {i \in DOMAIN seq : CandidateMeetsSavingsFloor(seq[i])})
Candidates(w, now) ==
  SetToSeq(DetectModelCost(w, now)) \o SetToSeq(DetectRepeatedRequest(w, now))
  \o SetToSeq(DetectTokenEfficiency(w, DayOfHour(now))) \o SetToSeq(DetectTrafficAnomaly(w, now))
Survivors(w, now) ==
  IF AppMeetsFloors(Recorded(w, now))
  THEN RankAndCap(Worthwhile(Candidates(w, now)))
  ELSE <<>>

-----------------------------------------------------------------------------
(* Compute: five components of equal weight, each out of 100 *)

SumSavings(cs) == Total(LET s == SetToSeq(cs) IN [i \in DOMAIN s |-> s[i].savings])
(* Of one model's candidates only the best counts. *)
BestSavings(cs) ==
  LET sources == SetToSeq({c.source : c \in cs})
  IN Total([i \in DOMAIN sources |-> Max({c.savings : c \in {x \in cs : x.source = sources[i]}})])
EfficiencyFromSavings_Uncapped(saved, monthly) ==
  IF monthly <= 0 \/ saved <= 0 THEN 100 ELSE RoundDiv(100 * (monthly - saved), monthly)
EfficiencyFromSavings(saved, monthly) ==
  IF monthly <= 0 \/ saved <= 0 THEN 100 ELSE RoundDiv(100 * (monthly - Least(saved, monthly)), monthly)
StabilityFromAnomalies(cs) ==
  LET penalty == 40 * Cardinality({c \in cs : c.severity = "high"})
                 + 20 * Cardinality({c \in cs : c.severity # "high"})
  IN IF penalty > 100 THEN 0 ELSE 100 - penalty
CostTrend(cur, prior) ==
  LET rise == CostOf(cur) * Len(prior) - CostOf(prior) * Len(cur)
      base == CostOf(prior) * Len(cur)
  IN IF base = 0 \/ rise <= 0 THEN 100
     ELSE IF 2 * rise >= base THEN 0 ELSE RoundDiv(100 * (base - 2 * rise), base)
Score(parts) ==
  [status |-> "ok", parts |-> parts,
   overall |-> RoundDiv(parts.model + parts.tokens + parts.cache + parts.stability + parts.cost, 5)]
Compute(w, now) ==
  LET monthly == RoundDiv(CostOf(Recorded(w, now)) * 30, 14)
  IN IF AppMeetsFloors(Recorded(w, now))
     THEN Score([model     |-> EfficiencyFromSavings(BestSavings(DetectModelCost(w, now)), monthly),
                 tokens    |-> EfficiencyFromSavings(SumSavings(DetectTokenEfficiency(w, DayOfHour(now))), monthly),
                 cache     |-> EfficiencyFromSavings(SumSavings(DetectRepeatedRequest(w, now)), monthly),
                 stability |-> StabilityFromAnomalies(DetectTrafficAnomaly(w, now)),
                 cost      |-> CostTrend(Served(w, DaysBefore(now, 14), now),
                                         Served(w, DaysBefore(now, 28), DaysBefore(now, 14)))])
     ELSE [status |-> "insufficient_data"]
=============================================================================
