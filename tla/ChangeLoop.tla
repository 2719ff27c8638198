------------------------------ MODULE ChangeLoop ------------------------------
(***************************************************************************)
(* The optimisation loop of one application: a detector opens an           *)
(* opportunity, a user simulates and applies it (policy.Applier), the      *)
(* hourly measure.check job compares the cost before and after             *)
(* (measure.Runner), and the user may revert it (policy.Reverter).         *)
(*                                                                         *)
(* Apply and Revert write three tables in separate transactions: the       *)
(* policy under its version test, the opportunity under its status test,   *)
(* the measurement.  Any of the writes may fail and end the request there, *)
(* and the measurement job runs in between, working from a list it read    *)
(* earlier.  Every table access is a step.                                 *)
(*                                                                         *)
(* The documents themselves are in PolicyStore: a version here is a row of *)
(* policy_history with its source, opportunity and times.  That Save       *)
(* appends version after version is proved there, so the current version   *)
(* is the number of rows.                                                  *)
(***************************************************************************)
EXTENDS Integers, Sequences, FiniteSets

CONSTANTS
  Fingerprints,      \* what the detectors can find in this application
  Requests,          \* request goroutines running an apply or a revert
  InterimWindow,     \* InterimWindowDays, in ticks of the clock
  FinalWindow,       \* FinalWindowDays
  MaxClock,          \* bounds
  MaxVersion,
  MaxOpportunities

ASSUME WindowAssumption ==
  /\ InterimWindow \in Nat /\ FinalWindow \in Nat /\ InterimWindow <= FinalWindow

ASSUME BoundAssumption ==
  /\ MaxClock \in Nat /\ MaxVersion \in Nat /\ MaxOpportunities \in Nat

VARIABLES
  clock,
  versions,       \* policy_history, one row per version
  opportunities,  \* opportunities, a row's id is its index
  simulated,      \* ids of the opportunities that a simulation row names
  measurements,   \* measurements, a row's id is its index
  req,            \* where each apply or revert stands
  job             \* where the measure.check job stands

vars == <<clock, versions, opportunities, simulated, measurements, req, job>>

Live == {"open", "reviewed", "simulated"}
Statuses == Live \cup {"applied", "dismissed", "reverted"}

(* successful, partial, no_effect and regressed are the conclusive ones. *)
Verdicts == {"conclusive", "inconclusive"}

Pending_New == {"collecting"}
Pending == {"collecting", "interim"}

NoVerdict == "none"
NoRow == 0

Versions == [source : {"user", "opportunity", "revert"}, opportunity : Nat,
             changedAt : Nat, committedAt : Nat]
Opportunities == [fingerprint : Fingerprints, status : Statuses]
Measurements == [opportunity : Nat \ {0}, version : Nat \ {0}, appliedAt : Nat,
                 observedEnd : Nat, status : Pending \cup {"final", "reverted"},
                 verdict : Verdicts \cup {NoVerdict}]

IdleRequest == [phase |-> "idle", kind |-> "apply", row |-> NoRow, version |-> 0]
IdleJob == [phase |-> "idle", now |-> 0, todo |-> {}, row |-> NoRow,
            verdict |-> NoVerdict]

Init ==
  /\ clock = 0
  /\ versions = <<>>
  /\ opportunities = <<>>
  /\ simulated = {}
  /\ measurements = <<>>
  /\ req = [r \in Requests |-> IdleRequest]
  /\ job = IdleJob

Tick ==
  /\ clock < MaxClock
  /\ clock' = clock + 1
  /\ UNCHANGED <<versions, opportunities, simulated, measurements, req, job>>

-----------------------------------------------------------------------------
(* Opportunities *)

(* The rows a new candidate conflicts with: a partial unique index over    *)
(* (app_id, fingerprint) of the live statuses.                             *)
ConflictingRows_None(f) == {}
ConflictingRows(f) ==
  {o \in DOMAIN opportunities :
     opportunities[o].fingerprint = f /\ opportunities[o].status \in Live}

(* A detector run persists a candidate: UpsertOpen opens a row.  Where one *)
(* is live it refreshes that row's figures, which changes nothing here.    *)
Detect ==
  /\ Len(opportunities) < MaxOpportunities
  /\ \E f \in Fingerprints :
       /\ ConflictingRows(f) = {}
       /\ opportunities' = Append(opportunities, [fingerprint |-> f, status |-> "open"])
  /\ UNCHANGED <<clock, versions, simulated, measurements, req, job>>

SetStatus(o, status) == opportunities' = [opportunities EXCEPT ![o].status = status]

(* MarkReviewed: a repeat, or a later state, is no error and no change. *)
Review(o) ==
  /\ opportunities[o].status = "open"
  /\ SetStatus(o, "reviewed")
  /\ UNCHANGED <<clock, versions, simulated, measurements, req, job>>

CanDismiss_Applied(o) == opportunities[o].status \in Live \cup {"applied"}
CanDismiss(o) == opportunities[o].status \in Live

(* MarkDismissed, or ErrNotApplicable. *)
Dismiss(o) ==
  /\ CanDismiss(o)
  /\ SetStatus(o, "dismissed")
  /\ UNCHANGED <<clock, versions, simulated, measurements, req, job>>

(* handleCreateSimulation stores a simulation that names the opportunity,  *)
(* whatever its status.                                                    *)
Simulate(o) ==
  /\ o \notin simulated
  /\ simulated' = simulated \cup {o}
  /\ UNCHANGED <<clock, versions, opportunities, measurements, req, job>>

-----------------------------------------------------------------------------
(* Policy versions *)

NewVersion_Expected == Len(versions)
NewVersion == Len(versions) + 1

(* Save's transaction commits.  changed_at is its now(), which Postgres     *)
(* takes when the transaction begins: in this tick or in the one before.   *)
SaveVersion(source, opportunity) ==
  /\ Len(versions) < MaxVersion
  /\ \E begun \in {clock - 1, clock} \cap Nat :
       versions' = Append(versions, [source |-> source, opportunity |-> opportunity,
                                     changedAt |-> begun, committedAt |-> clock])

(* A change by hand: handlePutPolicy or handleRevertPolicy. *)
EditPolicy ==
  /\ SaveVersion("user", NoRow)
  /\ UNCHANGED <<clock, opportunities, simulated, measurements, req, job>>

(* Store.ChangedSince: a later version was saved before the instant. *)
ChangedSince_NextButOne(version, before) ==
  \E v \in DOMAIN versions : v > version + 1 /\ versions[v].changedAt < before
ChangedSince(version, before) ==
  \E v \in DOMAIN versions : v > version /\ versions[v].changedAt < before

-----------------------------------------------------------------------------
(* Apply: Applier.Apply and the handler's own checks *)

Advance(r, phase) == req' = [req EXCEPT ![r].phase = phase]

Begin_MarkFirst(r, kind, row) ==
  /\ req' = [req EXCEPT ![r] = [phase |-> "marking", kind |-> kind, row |-> row,
                                version |-> Len(versions)]]
  /\ UNCHANGED <<clock, versions, opportunities, simulated, measurements, job>>
Begin(r, kind, row) ==
  /\ req' = [req EXCEPT ![r] = [phase |-> "saving", kind |-> kind, row |-> row,
                                version |-> Len(versions)]]
  /\ UNCHANGED <<clock, versions, opportunities, simulated, measurements, job>>

(* Get of the opportunity and of the simulation, which must name it, then  *)
(* of the current policy version.  The opportunity's status is not looked  *)
(* at.                                                                     *)
LoadApply(r, o) ==
  /\ req[r].phase = "idle"
  /\ o \in simulated
  /\ Begin(r, "apply", o)

(* Policies.Save commits; the request goes on with the new version. *)
SaveApply(r) ==
  /\ req[r].phase = "saving" /\ req[r].kind = "apply"
  /\ req[r].version = Len(versions)
  /\ SaveVersion("opportunity", req[r].row)
  /\ req' = [req EXCEPT ![r].phase = "marking", ![r].version = NewVersion]
  /\ UNCHANGED <<clock, opportunities, simulated, measurements, job>>

MayApply_AnyStatus(o) == TRUE
MayApply(o) == opportunities[o].status \in Live

(* MarkApplied, the only test of the opportunity's status. *)
MarkApplied(r) ==
  /\ req[r].phase = "marking" /\ req[r].kind = "apply"
  /\ MayApply(req[r].row)
  /\ SetStatus(req[r].row, "applied")
  /\ Advance(r, "freezing")
  /\ UNCHANGED <<clock, versions, simulated, measurements, job>>

LiveMeasurements(o) ==
  {m \in DOMAIN measurements :
     measurements[m].opportunity = o /\ measurements[m].status # "reverted"}

(* Freezer.Freeze: the baseline before now, and the measurement row.  A    *)
(* partial unique index over opportunity_id refuses a second live row.     *)
Freeze(r) ==
  /\ req[r].phase = "freezing"
  /\ LiveMeasurements(req[r].row) = {}
  /\ measurements' = Append(measurements,
       [opportunity |-> req[r].row, version |-> req[r].version, appliedAt |-> clock,
        status |-> "collecting", verdict |-> NoVerdict, observedEnd |-> clock])
  /\ Advance(r, "idle")
  /\ UNCHANGED <<clock, versions, opportunities, simulated, job>>

-----------------------------------------------------------------------------
(* Revert: Reverter.Revert *)

(* Get of the measurement and of the current policy version.  Neither the  *)
(* measurement's status nor its verdict is looked at.                      *)
LoadRevert(r, m) ==
  /\ req[r].phase = "idle"
  /\ Begin(r, "revert", m)

(* Policies.Save of the document before measurements[m].version. *)
SaveRevert(r) ==
  /\ req[r].phase = "saving" /\ req[r].kind = "revert"
  /\ req[r].version = Len(versions)
  /\ SaveVersion("revert", NoRow)
  /\ req' = [req EXCEPT ![r].phase = "marking", ![r].version = NewVersion]
  /\ UNCHANGED <<clock, opportunities, simulated, measurements, job>>

(* Opportunities.MarkReverted *)
MarkReverted(r) ==
  /\ req[r].phase = "marking" /\ req[r].kind = "revert"
  /\ LET o == measurements[req[r].row].opportunity IN
       opportunities[o].status = "applied" /\ SetStatus(o, "reverted")
  /\ Advance(r, "closing")
  /\ UNCHANGED <<clock, versions, simulated, measurements, job>>

(* Measurements.MarkReverted *)
CloseMeasurement(r) ==
  /\ req[r].phase = "closing"
  /\ measurements' = [measurements EXCEPT ![req[r].row].status = "reverted"]
  /\ Advance(r, "idle")
  /\ UNCHANGED <<clock, versions, opportunities, simulated, job>>

(* ErrVersionConflict, ErrNotApplicable, the unique index, a failing       *)
(* database, a client that went away or a process that died: the request   *)
(* ends and what it wrote stays.                                           *)
Fail(r) ==
  /\ req[r].phase # "idle"
  /\ req' = [req EXCEPT ![r] = IdleRequest]
  /\ UNCHANGED <<clock, versions, opportunities, simulated, measurements, job>>

-----------------------------------------------------------------------------
(* The measure.check job: measure.Runner.Run *)

(* Run reads the clock and its worklist, once. *)
StartRun ==
  /\ job.phase = "idle"
  /\ job' = [phase |-> "scanning", now |-> clock, row |-> NoRow, verdict |-> NoVerdict,
             todo |-> {[row |-> m, status |-> measurements[m].status] :
                         m \in {n \in DOMAIN measurements :
                                  measurements[n].status \in Pending}}]
  /\ UNCHANGED <<clock, versions, opportunities, simulated, measurements, req>>

InterimEnd(m) == measurements[m].appliedAt + InterimWindow
FinalEnd(m) == measurements[m].appliedAt + FinalWindow

Due(end) == job.now >= end

(* check compares the windows.  The traffic decides the verdict unless a   *)
(* second policy change landed before the end of the observed one.         *)
PossibleVerdicts(m, end) ==
  IF ChangedSince(measurements[m].version, end) THEN {"inconclusive"} ELSE Verdicts

(* The next row of the list: its interim check, if the status it had then  *)
(* and the clock call for it.  (The job takes the rows by applied_at; they *)
(* do not influence one another.)                                          *)
PickRow(m) ==
  /\ job.phase = "scanning"
  /\ \E entry \in job.todo :
       LET interim == entry.status = "collecting" /\ Due(InterimEnd(m)) IN
       /\ entry.row = m
       /\ \/ /\ interim
             /\ \E v \in PossibleVerdicts(m, InterimEnd(m)) :
                  job' = [job EXCEPT !.phase = "interim", !.row = m, !.verdict = v,
                                     !.todo = @ \ {entry}]
          \/ /\ ~interim
             /\ job' = [job EXCEPT !.phase = "reloading", !.row = m,
                                   !.todo = @ \ {entry}]
  /\ UNCHANGED <<clock, versions, opportunities, simulated, measurements, req>>

(* RecordInterim and RecordFinal update the row by its id alone. *)
Record(m, status, end) ==
  measurements' = [measurements EXCEPT ![m].status = status,
                                       ![m].verdict = job.verdict,
                                       ![m].observedEnd = end]

RecordInterim ==
  /\ job.phase = "interim"
  /\ Record(job.row, "interim", InterimEnd(job.row))
  /\ job' = [job EXCEPT !.phase = "reloading", !.verdict = NoVerdict]
  /\ UNCHANGED <<clock, versions, opportunities, simulated, req>>

(* Run reads the row again and makes the final check if it is due. *)
Reload ==
  /\ job.phase = "reloading"
  /\ LET m == job.row
         final == measurements[m].status = "interim" /\ Due(FinalEnd(m)) IN
     \/ /\ final
        /\ \E v \in PossibleVerdicts(m, FinalEnd(m)) :
             job' = [job EXCEPT !.phase = "final", !.verdict = v]
     \/ ~final /\ job' = [job EXCEPT !.phase = "scanning", !.row = NoRow]
  /\ UNCHANGED <<clock, versions, opportunities, simulated, measurements, req>>

RecordFinal ==
  /\ job.phase = "final"
  /\ Record(job.row, "final", FinalEnd(job.row))
  /\ job' = [job EXCEPT !.phase = "scanning", !.row = NoRow, !.verdict = NoVerdict]
  /\ UNCHANGED <<clock, versions, opportunities, simulated, req>>

(* A failing query is logged and the row skipped. *)
SkipRow ==
  /\ job.phase \in {"interim", "reloading", "final"}
  /\ job' = [job EXCEPT !.phase = "scanning", !.row = NoRow, !.verdict = NoVerdict]
  /\ UNCHANGED <<clock, versions, opportunities, simulated, measurements, req>>

EndRun ==
  /\ job.phase = "scanning" /\ job.todo = {}
  /\ job' = IdleJob
  /\ UNCHANGED <<clock, versions, opportunities, simulated, measurements, req>>

(* The process restarts in the middle of a run. *)
CrashRun ==
  /\ job.phase # "idle"
  /\ job' = IdleJob
  /\ UNCHANGED <<clock, versions, opportunities, simulated, measurements, req>>

-----------------------------------------------------------------------------

User == \E o \in DOMAIN opportunities : Review(o) \/ Dismiss(o) \/ Simulate(o)

Request(r) ==
  \/ \E o \in DOMAIN opportunities : LoadApply(r, o)
  \/ SaveApply(r) \/ MarkApplied(r) \/ Freeze(r)
  \/ \E m \in DOMAIN measurements : LoadRevert(r, m)
  \/ SaveRevert(r) \/ MarkReverted(r) \/ CloseMeasurement(r)
  \/ Fail(r)

Job ==
  \/ StartRun \/ RecordInterim \/ Reload \/ RecordFinal
  \/ SkipRow \/ EndRun \/ CrashRun
  \/ \E m \in DOMAIN measurements : PickRow(m)

Next ==
  \/ Tick \/ Detect \/ User \/ EditPolicy
  \/ \E r \in Requests : Request(r)
  \/ Job

Spec == Init /\ [][Next]_vars

(***************************************************************************)
(* The scheduler runs the job every hour for as long as the process lives, *)
(* and a database that fails does not fail forever for the same row: a     *)
(* step on a row that is enabled in run after run is taken in some run.    *)
(***************************************************************************)
JobFairness ==
  /\ WF_vars(Tick) /\ WF_vars(StartRun) /\ WF_vars(EndRun)
  /\ \A m \in 1 .. MaxOpportunities :
       /\ SF_vars(m \in DOMAIN measurements /\ PickRow(m))
       /\ SF_vars(job.row = m /\ (RecordInterim \/ Reload))
       /\ SF_vars(job.row = m /\ RecordFinal)

FairSpec == Spec /\ JobFairness

-----------------------------------------------------------------------------
(* Properties *)

(* Every variable has its type. *)
TypeOK ==
  /\ clock \in 0 .. MaxClock
  /\ versions \in Seq(Versions)
  /\ opportunities \in Seq(Opportunities)
  /\ simulated \subseteq DOMAIN opportunities
  /\ measurements \in Seq(Measurements)
  /\ \A m \in DOMAIN measurements : measurements[m].opportunity \in DOMAIN opportunities
  /\ req \in [Requests ->
       [phase : {"idle", "saving", "marking", "freezing", "closing"},
        kind : {"apply", "revert"}, row : Nat, version : Nat]]
  /\ job \in [phase : {"idle", "scanning", "interim", "reloading", "final"},
              now : Nat, row : Nat, verdict : Verdicts \cup {NoVerdict},
              todo : SUBSET [row : Nat, status : Pending]]

(* The detector, run after run, never has two live rows for one finding,   *)
(* whatever users did to the earlier ones.                                 *)
OneLiveRowPerFinding ==
  \A o, p \in DOMAIN opportunities :
    /\ opportunities[o].fingerprint = opportunities[p].fingerprint
    /\ {opportunities[o].status, opportunities[p].status} \subseteq Live
    => o = p

(***************************************************************************)
(* An opportunity is measured at most once in its life: two applies that   *)
(* race, or an apply after a revert, never make a second measurement.  So  *)
(* the unique index never refuses Freeze, and an apply that got past       *)
(* MarkApplied can only be left unmeasured by a failing database.          *)
(***************************************************************************)
MeasuredAtMostOnce ==
  \A m, n \in DOMAIN measurements :
    measurements[m].opportunity = measurements[n].opportunity => m = n

(* A measurement's policy_version is the version its own opportunity's     *)
(* apply saved: the revert, which restores the version before it, undoes   *)
(* that apply and nothing older.                                           *)
MeasurementsNameTheirApply ==
  \A m \in DOMAIN measurements :
    /\ measurements[m].version \in DOMAIN versions
    /\ versions[measurements[m].version].source = "opportunity"
    /\ versions[measurements[m].version].opportunity = measurements[m].opportunity

CommittedBefore(version, end) ==
  \E v \in DOMAIN versions : v > version /\ versions[v].committedAt < end

(* A conclusive verdict is attributable: no later version of the policy    *)
(* took effect before the end of its observed window.  (One whose          *)
(* transaction began before the end and committed after it may or may not  *)
(* be seen.)                                                               *)
VerdictsAreAttributable ==
  \A m \in DOMAIN measurements :
    measurements[m].verdict = "conclusive" =>
      ~CommittedBefore(measurements[m].version, measurements[m].observedEnd)

(* No opportunity is applied or reverted unless the policy says so: its    *)
(* version is in the history, and after it that of a revert.               *)
StatusesFollowThePolicy ==
  \A o \in DOMAIN opportunities :
    opportunities[o].status \in {"applied", "reverted"} =>
      \E v \in DOMAIN versions :
        /\ versions[v].source = "opportunity" /\ versions[v].opportunity = o
        /\ opportunities[o].status = "reverted" =>
             \E w \in DOMAIN versions : w > v /\ versions[w].source = "revert"

(* A resolved opportunity stays resolved: dismissed and reverted are final *)
(* and applied can only become reverted, whichever requests race.          *)
ResolutionsStand ==
  [][\A o \in DOMAIN opportunities :
       LET old == opportunities[o].status
           new == opportunities'[o].status IN
       /\ old \in {"dismissed", "reverted"} => new = old
       /\ old = "applied" => new \in {"applied", "reverted"}]_vars

(* A measurement whose final window passes is concluded in the end. *)
MeasurementsConclude ==
  \A m \in 1 .. MaxOpportunities :
    (m \in DOMAIN measurements /\ FinalEnd(m) <= MaxClock) ~>
      (m \in DOMAIN measurements /\ measurements[m].status \in {"final", "reverted"})

-----------------------------------------------------------------------------
(* What the documents promise, and the code does not keep *)

(* Applying changes the policy only from open, reviewed or simulated: no   *)
(* dismissed, applied or reverted opportunity makes a policy version.      *)
OnlyLiveOpportunitiesAreApplied ==
  [][\A v \in DOMAIN versions' \ DOMAIN versions :
       versions'[v].source = "opportunity" =>
         opportunities[versions'[v].opportunity].status \in Live]_vars

(* A measurement goes from collecting through interim to final, or is      *)
(* reverted and stays so.                                                  *)
MeasurementLifecycle ==
  [][\A m \in DOMAIN measurements :
       LET old == measurements[m].status
           new == measurements'[m].status IN
       \/ new \in {old, "reverted"}
       \/ <<old, new>> \in {<<"collecting", "interim">>, <<"interim", "final">>}]_vars

=============================================================================
