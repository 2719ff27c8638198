------------------------------- MODULE Detection -------------------------------
(***************************************************************************)
(* detect.run and score.daily over one application: what the detectors     *)
(* find is stored one finding at a time, next to people who review and     *)
(* dismiss, and the score is stored once a day.  The traffic is recorded   *)
(* and over before the model starts: only the hour goes on.                *)
(***************************************************************************)
EXTENDS Findings

CONSTANTS
  Workloads,     \* the workloads, by name
  FirstHour, LastRunHour,
  KeepDays,      \* dismissedStaleRetentionDays
  MaxOpps,       \* bound: rows of opportunities
  NoScore

ASSUME DetectionAssumption == FirstHour \in Nat /\ LastRunHour \in Nat /\ KeepDays \in Nat /\ MaxOpps \in Nat
(* What a row and a daily total hold is counted, so never below zero. *)
ASSUME WorkloadsAssumption ==
  \A name \in DOMAIN Workloads : LET w == Workloads[name] IN
    /\ w.facts \in Seq(Range(w.facts))
    /\ \A f \in Range(w.facts) : f.at \in Int /\ {f.cost, f.usage, f.input, f.output} \subseteq Nat
    /\ w.days \in Seq(Range(w.days))
    /\ \A d \in Range(w.days) : {d.requests, d.input, d.output} \subseteq Nat

VARIABLES
  workload,      \* the application's traffic
  now,           \* the hour
  opps,          \* table opportunities: by id, rows [finding, status, reviewed, detected]
  pending,       \* what the run under way has found and still has to store
  score          \* table efficiency_scores: the row written last

detectionVars == <<workload, now, opps, pending, score>>

DetectionInit ==
  /\ workload \in DOMAIN Workloads
  /\ now = FirstHour
  /\ opps = <<>> /\ pending = <<>> /\ score = NoScore

LiveStatus == {"open", "reviewed", "simulated"}
-----------------------------------------------------------------------------
(* UpsertOpen: the live row of that fingerprint is refreshed and keeps its *)
(* status, or there is none and a row is opened.                           *)
Conflicting_OpenOnly(fingerprint) ==
  {i \in DOMAIN opps : opps[i].finding.fingerprint = fingerprint /\ opps[i].status = "open"}
Conflicting(fingerprint) ==
  {i \in DOMAIN opps : opps[i].finding.fingerprint = fingerprint /\ opps[i].status \in LiveStatus}
(* The database's choice, an id no row has. *)
NewId == CHOOSE i \in 1..MaxOpps : i \notin DOMAIN opps
UpsertOpen(c) ==
  opps' = IF Conflicting(c.fingerprint) = {}
          THEN [i \in DOMAIN opps \cup {NewId} |->
                  IF i = NewId THEN [finding |-> c, status |-> "open", reviewed |-> FALSE, detected |-> now]
                  ELSE opps[i]]
          ELSE [i \in DOMAIN opps |-> IF i \in Conflicting(c.fingerprint)
                                      THEN [opps[i] EXCEPT !.finding = c] ELSE opps[i]]

(* runForApplication, up to what it stores. *)
RunDetectors ==
  /\ pending = <<>>
  /\ pending' = Survivors(Workloads[workload], now)
  /\ UNCHANGED <<workload, now, opps, score>>
Persist ==
  /\ pending # <<>>
  /\ Conflicting(Head(pending).fingerprint) # {} \/ DOMAIN opps # 1..MaxOpps
  /\ UpsertOpen(Head(pending))
  /\ pending' = Tail(pending)
  /\ UNCHANGED <<workload, now, score>>
(* A failed statement ends the run; what it has stored stays. *)
PersistFails ==
  /\ pending # <<>>
  /\ pending' = <<>>
  /\ UNCHANGED <<workload, now, opps, score>>

(* Runner.Run of the score, UpsertDaily. *)
ScoreDaily ==
  /\ score' = Compute(Workloads[workload], now)
  /\ UNCHANGED <<workload, now, opps, pending>>

(* MarkReviewed: of an open row only, else nothing happens. *)
MarkReviewed(i) ==
  /\ opps[i].status = "open"
  /\ opps' = [opps EXCEPT ![i].status = "reviewed", ![i].reviewed = TRUE]
  /\ UNCHANGED <<workload, now, pending, score>>
(* MarkDismissed: ErrNotApplicable of a row that is not live. *)
MarkDismissed(i) ==
  /\ opps[i].status \in LiveStatus
  /\ opps' = [opps EXCEPT ![i].status = "dismissed"]
  /\ UNCHANGED <<workload, now, pending, score>>

(* EnforceOpportunities. *)
EnforceOpportunities ==
  /\ LET Expired(o) == o.status \in {"dismissed", "stale"} /\ o.detected < DaysBefore(now, KeepDays)
     IN opps' = [i \in {k \in DOMAIN opps : ~Expired(opps[k])} |-> opps[i]]
  /\ UNCHANGED <<workload, now, pending, score>>

HourPasses ==
  /\ now < LastRunHour
  /\ now' = now + 1
  /\ UNCHANGED <<workload, opps, pending, score>>

DetectionNext ==
  \/ RunDetectors \/ Persist \/ PersistFails \/ ScoreDaily
  \/ \E i \in DOMAIN opps : MarkReviewed(i) \/ MarkDismissed(i)
  \/ EnforceOpportunities
  \/ HourPasses

DetectionSpec == DetectionInit /\ [][DetectionNext]_detectionVars
-----------------------------------------------------------------------------
(* The most that half of a model's requests, rounded up, have cost. *)
Halves(group) == kSubset((Len(group) + 1) \div 2, DOMAIN group)
CostliestHalf(model, window) ==
  LET group == Group(Served(Workloads[workload], window[1], window[2]), model)
  IN Max({CostOf(Subsequence(group, half)) : half \in Halves(group)})

(* A stored finding never promises more than its part of the traffic       *)
(* costs: its savings clear the floor and are within the spend they are    *)
(* taken from, and since a recommendation moves at most half of a model's  *)
(* requests, those of a cheaper model are within what the costliest half   *)
(* of them cost.  Every component of a score, and so the score, is out of  *)
(* a hundred, though the savings behind one are scaled from a week and the *)
(* spend they are divided by from two.                                     *)
FindingsAreWithinSpend ==
  /\ \A i \in DOMAIN opps :
       LET c == opps[i].finding
       IN c.kind # "traffic_anomaly" =>
            /\ Floors.savings <= c.savings /\ c.savings <= c.current
            /\ c.kind = "model_cost" =>
                 c.savings <= RoundDiv(CostliestHalf(c.source, c.window) * 30, 14)
  /\ score # NoScore /\ score.status = "ok" =>
       /\ \A part \in DOMAIN score.parts : score.parts[part] \in 0..100
       /\ score.overall \in 0..100

(* However runs, which may fail half way, reviews, dismissals and the      *)
(* retention job interleave: a fingerprint has at most one live row, and a *)
(* row someone has reviewed is never shown as new again.                   *)
LiveFindingsAreDistinct ==
  \A i \in DOMAIN opps : opps[i].status \in LiveStatus =>
    /\ \A j \in DOMAIN opps :
         opps[j].status \in LiveStatus /\ opps[j].finding.fingerprint = opps[i].finding.fingerprint => i = j
    /\ opps[i].reviewed => opps[i].status # "open"

(* "A detector re-run against unchanged traffic must not create a          *)
(* duplicate": no two live rows tell of the same hours.                    *)
RerunMakesNoDuplicate ==
  \A i, j \in DOMAIN opps :
    LET a == opps[i]  b == opps[j]
    IN /\ i # j /\ {a.status, b.status} \subseteq LiveStatus
       /\ {a.finding.kind, b.finding.kind} = {"traffic_anomaly"}
       => a.finding.window[2] <= b.finding.window[1] \/ b.finding.window[2] <= a.finding.window[1]
=============================================================================
