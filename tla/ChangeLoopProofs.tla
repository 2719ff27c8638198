--------------------------- MODULE ChangeLoopProofs ---------------------------
(***************************************************************************)
(* What ChangeLoop keeps for any number of requests, findings, versions    *)
(* and opportunities, any windows and any clock.                           *)
(***************************************************************************)
EXTENDS ChangeLoop, TLAPS

-----------------------------------------------------------------------------
(* Lemmas about tables *)

LEMMA AppendFact ==
  ASSUME NEW S, NEW s \in Seq(S), NEW e \in S
  PROVE  /\ Append(s, e) \in Seq(S)
         /\ Len(s) \in Nat /\ DOMAIN s = 1 .. Len(s)
         /\ DOMAIN Append(s, e) = DOMAIN s \cup {Len(s) + 1}
         /\ \A i \in DOMAIN s : Append(s, e)[i] = s[i]
         /\ Append(s, e)[Len(s) + 1] = e
  OBVIOUS

LEMMA ExceptFact ==
  ASSUME NEW S, NEW s \in Seq(S), NEW i \in DOMAIN s, NEW e \in S
  PROVE  /\ [s EXCEPT ![i] = e] \in Seq(S)
         /\ DOMAIN [s EXCEPT ![i] = e] = DOMAIN s
         /\ \A j \in DOMAIN s : [s EXCEPT ![i] = e][j] = IF j = i THEN e ELSE s[j]
<1> DEFINE t == [s EXCEPT ![i] = e]
<1>1. Len(s) \in Nat /\ s \in [1 .. Len(s) -> S]
  OBVIOUS
<1>2. t \in [1 .. Len(s) -> S]
  BY <1>1
<1> QED
  BY <1>1, <1>2

LEMMA RowFact ==
  ASSUME NEW S, NEW s \in Seq(S)
  PROVE  /\ Len(s) \in Nat /\ DOMAIN s = 1 .. Len(s)
         /\ \A i \in DOMAIN s : s[i] \in S
  OBVIOUS

-----------------------------------------------------------------------------
(* What the writes do to the tables *)

(* Every version stays, and keeps its row. *)
VersionsGrow ==
  /\ DOMAIN versions \subseteq DOMAIN versions'
  /\ \A v \in DOMAIN versions : versions'[v] = versions[v]

LEMMA SaveVersionEffect ==
  ASSUME TypeOK, NEW source \in {"user", "opportunity", "revert"}, NEW o \in Nat,
         SaveVersion(source, o)
  PROVE  /\ versions' \in Seq(Versions)
         /\ VersionsGrow
         /\ DOMAIN versions' = DOMAIN versions \cup {NewVersion}
         /\ NewVersion \in Nat \ {0}
         /\ \A v \in DOMAIN versions : NewVersion > v
         /\ versions'[NewVersion].source = source
         /\ versions'[NewVersion].opportunity = o
         /\ versions'[NewVersion].committedAt = clock
         /\ versions'[NewVersion].changedAt <= clock
<1>0. versions \in Seq(Versions) /\ clock \in Nat
  BY BoundAssumption DEF TypeOK
<1>1. PICK begun \in {clock - 1, clock} \cap Nat :
        versions' = Append(versions, [source |-> source, opportunity |-> o,
                                      changedAt |-> begun, committedAt |-> clock])
  BY DEF SaveVersion
<1> DEFINE row == [source |-> source, opportunity |-> o,
                   changedAt |-> begun, committedAt |-> clock]
<1>2. /\ row \in Versions /\ row.source = source /\ row.opportunity = o
      /\ row.committedAt = clock /\ row.changedAt <= clock
  BY <1>0 DEF Versions
<1>3. versions' = Append(versions, row)
  BY <1>1
<1> HIDE DEF row
<1>4. /\ versions' \in Seq(Versions)
      /\ Len(versions) \in Nat /\ DOMAIN versions = 1 .. Len(versions)
      /\ DOMAIN versions' = DOMAIN versions \cup {Len(versions) + 1}
      /\ \A i \in DOMAIN versions : versions'[i] = versions[i]
      /\ versions'[Len(versions) + 1] = row
  BY <1>0, <1>2, <1>3, AppendFact
<1> QED
  BY <1>2, <1>4 DEF NewVersion, VersionsGrow

LEMMA SetStatusEffect ==
  ASSUME TypeOK, NEW o \in DOMAIN opportunities, NEW status \in Statuses,
         SetStatus(o, status)
  PROVE  /\ opportunities' \in Seq(Opportunities)
         /\ DOMAIN opportunities' = DOMAIN opportunities
         /\ opportunities'[o].status = status
         /\ \A p \in DOMAIN opportunities :
              /\ p # o => opportunities'[p].status = opportunities[p].status
              /\ opportunities'[p].fingerprint = opportunities[p].fingerprint
<1> DEFINE row == [opportunities[o] EXCEPT !.status = status]
<1>1. opportunities \in Seq(Opportunities)
  BY DEF TypeOK
<1>2. opportunities[o] \in Opportunities
  BY <1>1, RowFact
<1>3. /\ row \in Opportunities /\ row.status = status
      /\ row.fingerprint = opportunities[o].fingerprint
  BY <1>2 DEF Opportunities
<1>4. opportunities' = [opportunities EXCEPT ![o] = row]
  BY DEF SetStatus
<1> HIDE DEF row
<1>5. /\ opportunities' \in Seq(Opportunities)
      /\ DOMAIN opportunities' = DOMAIN opportunities
      /\ \A j \in DOMAIN opportunities :
           opportunities'[j] = IF j = o THEN row ELSE opportunities[j]
  BY <1>1, <1>3, <1>4, ExceptFact
<1> QED
  BY <1>3, <1>5

(* The measurements keep what they measure: only status, verdict and the   *)
(* observed window's end may differ.                                       *)
SameMeasured ==
  /\ DOMAIN measurements' = DOMAIN measurements
  /\ \A m \in DOMAIN measurements :
       /\ measurements'[m].opportunity = measurements[m].opportunity
       /\ measurements'[m].version = measurements[m].version
       /\ measurements'[m].appliedAt = measurements[m].appliedAt

LEMMA RecordEffect ==
  ASSUME TypeOK, NEW m \in DOMAIN measurements, NEW end \in Nat,
         NEW status \in Pending \cup {"final", "reverted"},
         Record(m, status, end)
  PROVE  /\ measurements' \in Seq(Measurements)
         /\ SameMeasured
         /\ measurements'[m].verdict = job.verdict /\ measurements'[m].observedEnd = end
         /\ \A n \in DOMAIN measurements : n # m => measurements'[n] = measurements[n]
<1> DEFINE row == [measurements[m] EXCEPT !.status = status, !.verdict = job.verdict,
                                          !.observedEnd = end]
<1>1. measurements \in Seq(Measurements) /\ job.verdict \in Verdicts \cup {NoVerdict}
  BY DEF TypeOK
<1>2. measurements[m] \in Measurements
  BY <1>1, RowFact
<1>3. /\ row \in Measurements /\ row.verdict = job.verdict /\ row.observedEnd = end
      /\ row.opportunity = measurements[m].opportunity
      /\ row.version = measurements[m].version
      /\ row.appliedAt = measurements[m].appliedAt
  BY <1>1, <1>2 DEF Measurements
<1>4. measurements' = [measurements EXCEPT ![m] = row]
  BY DEF Record
<1> HIDE DEF row
<1>5. /\ measurements' \in Seq(Measurements)
      /\ DOMAIN measurements' = DOMAIN measurements
      /\ \A j \in DOMAIN measurements :
           measurements'[j] = IF j = m THEN row ELSE measurements[j]
  BY <1>1, <1>3, <1>4, ExceptFact
<1> QED
  BY <1>3, <1>5 DEF SameMeasured

LEMMA CloseEffect ==
  ASSUME TypeOK, NEW r \in Requests, req[r].row \in DOMAIN measurements,
         CloseMeasurement(r)
  PROVE  /\ measurements' \in Seq(Measurements)
         /\ SameMeasured
         /\ \A n \in DOMAIN measurements :
              /\ measurements'[n].verdict = measurements[n].verdict
              /\ measurements'[n].observedEnd = measurements[n].observedEnd
<1> DEFINE m == req[r].row
           row == [measurements[m] EXCEPT !.status = "reverted"]
<1>1. measurements \in Seq(Measurements)
  BY DEF TypeOK
<1>2. measurements[m] \in Measurements
  BY <1>1, RowFact
<1>3. /\ row \in Measurements /\ row.verdict = measurements[m].verdict
      /\ row.observedEnd = measurements[m].observedEnd
      /\ row.opportunity = measurements[m].opportunity
      /\ row.version = measurements[m].version
      /\ row.appliedAt = measurements[m].appliedAt
  BY <1>2 DEF Measurements
<1>4. measurements' = [measurements EXCEPT ![m] = row]
  BY DEF CloseMeasurement
<1> HIDE DEF row
<1>5. /\ measurements' \in Seq(Measurements)
      /\ DOMAIN measurements' = DOMAIN measurements
      /\ \A j \in DOMAIN measurements :
           measurements'[j] = IF j = m THEN row ELSE measurements[j]
  BY <1>1, <1>3, <1>4, ExceptFact
<1> QED
  BY <1>3, <1>5 DEF SameMeasured

LEMMA FreezeEffect ==
  ASSUME TypeOK, NEW r \in Requests, req[r].row \in Nat \ {0},
         req[r].version \in Nat \ {0}, Freeze(r)
  PROVE  /\ measurements' \in Seq(Measurements)
         /\ DOMAIN measurements' = DOMAIN measurements \cup {Len(measurements) + 1}
         /\ Len(measurements) + 1 \notin DOMAIN measurements
         /\ \A n \in DOMAIN measurements : measurements'[n] = measurements[n]
         /\ measurements'[Len(measurements) + 1].opportunity = req[r].row
         /\ measurements'[Len(measurements) + 1].version = req[r].version
         /\ measurements'[Len(measurements) + 1].verdict = NoVerdict
<1> DEFINE row == [opportunity |-> req[r].row, version |-> req[r].version,
                   appliedAt |-> clock, status |-> "collecting",
                   verdict |-> NoVerdict, observedEnd |-> clock]
<1>1. measurements \in Seq(Measurements) /\ clock \in Nat
  BY BoundAssumption DEF TypeOK
<1>2. /\ row \in Measurements /\ row.opportunity = req[r].row
      /\ row.version = req[r].version /\ row.verdict = NoVerdict
  BY <1>1 DEF Measurements, Pending
<1>3. measurements' = Append(measurements, row)
  BY DEF Freeze
<1> HIDE DEF row
<1>4. /\ measurements' \in Seq(Measurements)
      /\ Len(measurements) \in Nat /\ DOMAIN measurements = 1 .. Len(measurements)
      /\ DOMAIN measurements' = DOMAIN measurements \cup {Len(measurements) + 1}
      /\ \A i \in DOMAIN measurements : measurements'[i] = measurements[i]
      /\ measurements'[Len(measurements) + 1] = row
  BY <1>1, <1>2, <1>3, AppendFact
<1> QED
  BY <1>2, <1>4

LEMMA DetectEffect ==
  ASSUME TypeOK, Detect
  PROVE  /\ opportunities' \in Seq(Opportunities)
         /\ DOMAIN opportunities' = DOMAIN opportunities \cup {Len(opportunities) + 1}
         /\ Len(opportunities) + 1 \notin DOMAIN opportunities
         /\ \A o \in DOMAIN opportunities : opportunities'[o] = opportunities[o]
         /\ opportunities'[Len(opportunities) + 1].status = "open"
         /\ ConflictingRows(opportunities'[Len(opportunities) + 1].fingerprint) = {}
<1>1. PICK f \in Fingerprints :
        /\ ConflictingRows(f) = {}
        /\ opportunities' = Append(opportunities, [fingerprint |-> f, status |-> "open"])
  BY DEF Detect
<1> DEFINE row == [fingerprint |-> f, status |-> "open"]
<1>2. opportunities \in Seq(Opportunities)
  BY DEF TypeOK
<1>3. row \in Opportunities /\ row.fingerprint = f /\ row.status = "open"
  BY DEF Opportunities, Statuses, Live
<1>4. opportunities' = Append(opportunities, row)
  BY <1>1
<1> HIDE DEF row
<1>5. /\ opportunities' \in Seq(Opportunities)
      /\ Len(opportunities) \in Nat /\ DOMAIN opportunities = 1 .. Len(opportunities)
      /\ DOMAIN opportunities' = DOMAIN opportunities \cup {Len(opportunities) + 1}
      /\ \A i \in DOMAIN opportunities : opportunities'[i] = opportunities[i]
      /\ opportunities'[Len(opportunities) + 1] = row
  BY <1>2, <1>3, <1>4, AppendFact
<1> QED
  BY <1>1, <1>3, <1>5

-----------------------------------------------------------------------------
(* Type correctness.  Inductive with it: a request and the job name rows   *)
(* that exist, and each kind of request has its own phases.                *)

RequestKnowsItsRow(r) ==
  /\ req[r].phase # "idle" /\ req[r].kind = "apply" =>
       req[r].row \in DOMAIN opportunities
  /\ req[r].phase # "idle" /\ req[r].kind = "revert" =>
       req[r].row \in DOMAIN measurements
  /\ req[r].phase = "freezing" => req[r].kind = "apply"
  /\ req[r].phase = "closing" => req[r].kind = "revert"
  /\ req[r].phase \in {"marking", "freezing"} => req[r].version > 0

RequestsKnowTheirRows == \A r \in Requests : RequestKnowsItsRow(r)

JobKnowsItsRow ==
  job.phase \in {"interim", "reloading", "final"} => job.row \in DOMAIN measurements

TypeInv == TypeOK /\ RequestsKnowTheirRows /\ JobKnowsItsRow

RequestStates ==
  [phase : {"idle", "saving", "marking", "freezing", "closing"},
   kind : {"apply", "revert"}, row : Nat, version : Nat]

JobStates ==
  [phase : {"idle", "scanning", "interim", "reloading", "final"},
   now : Nat, row : Nat, verdict : Verdicts \cup {NoVerdict},
   todo : SUBSET [row : Nat, status : Pending]]

(* What a step of request r leaves of the requests. *)
OthersKeep(r) == \A s \in Requests : s # r => req'[s] = req[s]

LEMMA MoveEffect ==
  ASSUME TypeOK, NEW r \in Requests,
         NEW phase \in {"idle", "saving", "marking", "freezing", "closing"},
         NEW version \in Nat,
         \/ Advance(r, phase) /\ version = req[r].version
         \/ req' = [req EXCEPT ![r].phase = phase, ![r].version = version]
  PROVE  /\ req' \in [Requests -> RequestStates] /\ OthersKeep(r)
         /\ req'[r].phase = phase /\ req'[r].version = version
         /\ req'[r].kind = req[r].kind /\ req'[r].row = req[r].row
<1> DEFINE new == [req[r] EXCEPT !.phase = phase, !.version = version]
<1>1. req \in [Requests -> RequestStates]
  BY DEF TypeOK, RequestStates
<1>2. req[r] \in RequestStates
  BY <1>1
<1>3. /\ new \in RequestStates /\ new.phase = phase /\ new.version = version
      /\ new.kind = req[r].kind /\ new.row = req[r].row
  BY <1>2 DEF RequestStates
<1>4. req' = [req EXCEPT ![r] = new]
  <2>1. CASE Advance(r, phase) /\ version = req[r].version
    <3>1. [req[r] EXCEPT !.phase = phase] = new
      BY <1>2, <2>1 DEF RequestStates
    <3> QED
      BY <2>1, <3>1 DEF Advance
  <2>2. CASE req' = [req EXCEPT ![r].phase = phase, ![r].version = version]
    BY <1>1, <2>2
  <2> QED
    BY <2>1, <2>2
<1> HIDE DEF new
<1> QED
  BY <1>1, <1>3, <1>4 DEF OthersKeep

LEMMA BeginEffect ==
  ASSUME TypeOK, NEW r \in Requests, NEW kind \in {"apply", "revert"}, NEW row \in Nat,
         Begin(r, kind, row)
  PROVE  /\ req' \in [Requests -> RequestStates] /\ OthersKeep(r)
         /\ req'[r].phase = "saving" /\ req'[r].kind = kind /\ req'[r].row = row
<1> DEFINE new == [phase |-> "saving", kind |-> kind, row |-> row,
                   version |-> Len(versions)]
<1>1. req \in [Requests -> RequestStates] /\ Len(versions) \in Nat
  BY DEF TypeOK, RequestStates
<1>2. new \in RequestStates /\ new.phase = "saving" /\ new.kind = kind /\ new.row = row
  BY <1>1 DEF RequestStates
<1>3. req' = [req EXCEPT ![r] = new]
  BY DEF Begin
<1> HIDE DEF new
<1> QED
  BY <1>1, <1>2, <1>3 DEF OthersKeep

LEMMA FailEffect ==
  ASSUME TypeOK, NEW r \in Requests, Fail(r)
  PROVE  /\ req' \in [Requests -> RequestStates] /\ OthersKeep(r)
         /\ req'[r].phase = "idle"
<1>1. req \in [Requests -> RequestStates]
  BY DEF TypeOK, RequestStates
<1>2. IdleRequest \in RequestStates /\ IdleRequest.phase = "idle"
  BY DEF IdleRequest, RequestStates, NoRow
<1> QED
  BY <1>1, <1>2 DEF Fail, OthersKeep

(* The type invariant from what a step did to each variable. *)
LEMMA TypeFrame ==
  ASSUME TypeInv,
         clock' \in 0 .. MaxClock,
         versions' \in Seq(Versions),
         opportunities' \in Seq(Opportunities),
         DOMAIN opportunities \subseteq DOMAIN opportunities',
         simulated' \subseteq DOMAIN opportunities',
         measurements' \in Seq(Measurements),
         DOMAIN measurements \subseteq DOMAIN measurements',
         \A m \in DOMAIN measurements' :
           measurements'[m].opportunity \in DOMAIN opportunities',
         req' \in [Requests -> RequestStates],
         \A r \in Requests : req'[r] = req[r] \/ RequestKnowsItsRow(r)',
         job' \in JobStates,
         job'.phase \in {"interim", "reloading", "final"} =>
           job'.row \in DOMAIN measurements
  PROVE  TypeInv'
<1>1. TypeOK'
  BY DEF TypeOK, RequestStates, JobStates
<1>2. RequestsKnowTheirRows'
  <2> SUFFICES ASSUME NEW r \in Requests
               PROVE  RequestKnowsItsRow(r)'
    BY DEF RequestsKnowTheirRows
  <2>1. RequestKnowsItsRow(r) /\ req'[r] \in RequestStates
    BY DEF TypeInv, RequestsKnowTheirRows
  <2>2. CASE req'[r] = req[r]
    BY <2>1, <2>2 DEF RequestKnowsItsRow
  <2>3. CASE req'[r] # req[r]
    BY <2>3
  <2> QED
    BY <2>2, <2>3
<1>3. JobKnowsItsRow'
  BY DEF JobKnowsItsRow
<1> QED
  BY <1>1, <1>2, <1>3 DEF TypeInv

LEMMA TypeFacts ==
  ASSUME TypeInv
  PROVE  /\ TypeOK /\ clock \in 0 .. MaxClock
         /\ versions \in Seq(Versions) /\ opportunities \in Seq(Opportunities)
         /\ simulated \subseteq DOMAIN opportunities
         /\ measurements \in Seq(Measurements)
         /\ DOMAIN opportunities \subseteq Nat \ {0} /\ DOMAIN measurements \subseteq Nat \ {0}
         /\ \A m \in DOMAIN measurements :
              measurements[m].opportunity \in DOMAIN opportunities
         /\ req \in [Requests -> RequestStates]
         /\ job \in JobStates
         /\ job.phase \in {"interim", "reloading", "final"} =>
              job.row \in DOMAIN measurements
<1>1. TypeOK
  BY DEF TypeInv
<1>2. DOMAIN opportunities \subseteq Nat \ {0} /\ DOMAIN measurements \subseteq Nat \ {0}
  BY <1>1, RowFact DEF TypeOK
<1> QED
  BY <1>1, <1>2 DEF TypeInv, TypeOK, RequestStates, JobStates, JobKnowsItsRow

(* What holds of a request of a given phase and kind. *)
LEMMA RequestFacts ==
  ASSUME TypeInv, NEW r \in Requests
  PROVE  /\ RequestKnowsItsRow(r)
         /\ req[r].row \in Nat /\ req[r].version \in Nat
         /\ req[r].kind \in {"apply", "revert"}
<1>1. req[r] \in RequestStates
  BY TypeFacts
<1> QED
  BY <1>1 DEF TypeInv, RequestsKnowTheirRows, RequestStates

(* What holds of the job on any of its steps. *)
LEMMA JobFacts ==
  ASSUME TypeInv
  PROVE  /\ job.now \in Nat /\ job.row \in Nat /\ job.verdict \in Verdicts \cup {NoVerdict}
         /\ job.todo \in SUBSET [row : Nat, status : Pending]
         /\ job.phase \in {"idle", "scanning", "interim", "reloading", "final"}
         /\ clock \in Nat
         /\ \A m \in DOMAIN measurements :
              /\ measurements[m].appliedAt \in Nat
              /\ InterimEnd(m) \in Nat /\ FinalEnd(m) \in Nat
<1>1. job \in JobStates /\ measurements \in Seq(Measurements) /\ clock \in Nat
  BY TypeFacts, BoundAssumption
<1>2. \A m \in DOMAIN measurements : measurements[m] \in Measurements
  BY <1>1, RowFact
<1>3. ASSUME NEW m \in DOMAIN measurements
      PROVE  /\ measurements[m].appliedAt \in Nat
             /\ InterimEnd(m) \in Nat /\ FinalEnd(m) \in Nat
  <2>1. measurements[m].appliedAt \in Nat
    BY <1>2 DEF Measurements
  <2> QED
    BY <2>1, WindowAssumption DEF InterimEnd, FinalEnd
<1>4. /\ job.now \in Nat /\ job.row \in Nat /\ job.verdict \in Verdicts \cup {NoVerdict}
      /\ job.todo \in SUBSET [row : Nat, status : Pending]
      /\ job.phase \in {"idle", "scanning", "interim", "reloading", "final"}
  BY <1>1 DEF JobStates
<1> QED
  BY <1>1, <1>3, <1>4

LEMMA VerdictFact ==
  ASSUME NEW m, NEW end
  PROVE  PossibleVerdicts(m, end) \subseteq Verdicts
BY DEF PossibleVerdicts, Verdicts

(* Every step of the job leaves it in a state it may be in. *)
LEMMA JobEffect ==
  ASSUME TypeInv, Job
  PROVE  /\ job' \in JobStates
         /\ job'.phase \in {"interim", "reloading", "final"} =>
              job'.row \in DOMAIN measurements
<1> USE JobFacts
<1>1. CASE StartRun
  <2> DEFINE pending == {n \in DOMAIN measurements : measurements[n].status \in Pending}
             todo == {[row |-> m, status |-> measurements[m].status] : m \in pending}
  <2>1. todo \in SUBSET [row : Nat, status : Pending]
    BY TypeFacts
  <2>2. job' = [phase |-> "scanning", now |-> clock, row |-> NoRow,
                verdict |-> NoVerdict, todo |-> todo]
    BY <1>1 DEF StartRun
  <2> HIDE DEF todo
  <2> QED
    BY <2>1, <2>2 DEF JobStates, NoRow
<1>2. ASSUME NEW m \in DOMAIN measurements, PickRow(m)
      PROVE  /\ job' \in JobStates
             /\ job'.phase \in {"interim", "reloading", "final"} =>
                  job'.row \in DOMAIN measurements
  <2>1. m \in Nat /\ job \in JobStates
    BY TypeFacts
  <2>2. PICK entry \in job.todo :
          \/ \E v \in PossibleVerdicts(m, InterimEnd(m)) :
               job' = [job EXCEPT !.phase = "interim", !.row = m, !.verdict = v,
                                  !.todo = @ \ {entry}]
          \/ job' = [job EXCEPT !.phase = "reloading", !.row = m,
                                !.todo = @ \ {entry}]
    BY <1>2 DEF PickRow
  <2>3. PICK phase \in {"interim", "reloading"}, v \in Verdicts \cup {NoVerdict} :
          job' = [phase |-> phase, now |-> job.now, row |-> m, verdict |-> v,
                  todo |-> job.todo \ {entry}]
    BY <2>1, <2>2, VerdictFact DEF JobStates
  <2> DEFINE todo == job.todo \ {entry}
  <2>4. todo \in SUBSET [row : Nat, status : Pending]
    OBVIOUS
  <2>5. job' = [phase |-> phase, now |-> job.now, row |-> m, verdict |-> v, todo |-> todo]
    BY <2>3
  <2> HIDE DEF todo
  <2>6. job' \in JobStates
    BY <2>1, <2>4, <2>5 DEF JobStates
  <2> QED
    BY <2>5, <2>6
<1>3. CASE Reload
  <2>1. job.row \in DOMAIN measurements /\ job \in JobStates
    BY <1>3, TypeFacts DEF Reload
  <2>2. CASE \E v \in PossibleVerdicts(job.row, FinalEnd(job.row)) :
               job' = [job EXCEPT !.phase = "final", !.verdict = v]
    <3>1. PICK v \in PossibleVerdicts(job.row, FinalEnd(job.row)) :
            job' = [job EXCEPT !.phase = "final", !.verdict = v]
      BY <2>2
    <3>2. v \in Verdicts
      BY VerdictFact
    <3>3. job' \in JobStates /\ job'.row = job.row
      BY <2>1, <3>1, <3>2 DEF JobStates
    <3> QED
      BY <2>1, <3>3
  <2>3. CASE job' = [job EXCEPT !.phase = "scanning", !.row = NoRow]
    BY <2>1, <2>3 DEF JobStates, NoRow
  <2>4. \/ \E v \in PossibleVerdicts(job.row, FinalEnd(job.row)) :
             job' = [job EXCEPT !.phase = "final", !.verdict = v]
        \/ job' = [job EXCEPT !.phase = "scanning", !.row = NoRow]
    BY <1>3 DEF Reload
  <2> QED
    BY <2>2, <2>3, <2>4, Zenon
<1>4. CASE RecordInterim
  BY <1>4, TypeFacts DEF RecordInterim, JobStates
<1>5. CASE RecordFinal \/ SkipRow
  <2>1. job \in JobStates
    BY TypeFacts
  <2>2. job' = [job EXCEPT !.phase = "scanning", !.row = NoRow, !.verdict = NoVerdict]
    BY <1>5 DEF RecordFinal, SkipRow
  <2> QED
    BY <2>1, <2>2 DEF JobStates, NoRow
<1>6. CASE EndRun \/ CrashRun
  BY <1>6 DEF EndRun, CrashRun, IdleJob, JobStates, NoRow
<1> QED
  BY <1>1, <1>2, <1>3, <1>4, <1>5, <1>6 DEF Job

(* The job rewrites results, and nothing else of a measurement. *)
LEMMA JobMeasurements ==
  ASSUME TypeInv, Job
  PROVE  measurements' \in Seq(Measurements) /\ SameMeasured
<1> USE TypeFacts
<1>1. CASE RecordInterim \/ RecordFinal
  <2>1. job.row \in DOMAIN measurements
    BY <1>1 DEF RecordInterim, RecordFinal
  <2>2. InterimEnd(job.row) \in Nat /\ FinalEnd(job.row) \in Nat
    BY <2>1, JobFacts
  <2>3. \E status \in Pending \cup {"final", "reverted"}, end \in Nat :
          Record(job.row, status, end)
    BY <1>1, <2>2 DEF RecordInterim, RecordFinal, Pending
  <2> QED
    BY <2>1, <2>3, RecordEffect
<1>2. CASE UNCHANGED measurements
  BY <1>2 DEF SameMeasured
<1> QED
  BY <1>1, <1>2 DEF Job, StartRun, Reload, SkipRow, EndRun, CrashRun, PickRow

LEMMA TypeStep == TypeInv /\ [Next]_vars => TypeInv'
<1> SUFFICES ASSUME TypeInv, [Next]_vars PROVE TypeInv'
  OBVIOUS
<1> USE TypeFacts
<1>1. CASE UNCHANGED vars
  BY <1>1, TypeFrame DEF vars
<1>2. CASE Tick
  <2>1. clock' \in 0 .. MaxClock
    BY <1>2, BoundAssumption DEF Tick
  <2> QED
    BY <1>2, <2>1, TypeFrame DEF Tick
<1>3. CASE Detect
  BY <1>3, DetectEffect, TypeFrame DEF Detect
<1>4. CASE EditPolicy
  <2>1. versions' \in Seq(Versions)
    BY <1>4, SaveVersionEffect DEF EditPolicy, NoRow
  <2> QED
    BY <1>4, <2>1, TypeFrame DEF EditPolicy
<1>5. ASSUME NEW o \in DOMAIN opportunities, Review(o) \/ Dismiss(o)
      PROVE  TypeInv'
  <2>1. \E status \in Statuses : SetStatus(o, status)
    BY <1>5 DEF Review, Dismiss, Statuses, Live
  <2>2. /\ opportunities' \in Seq(Opportunities)
        /\ DOMAIN opportunities' = DOMAIN opportunities
    BY <2>1, SetStatusEffect
  <2> QED
    BY <1>5, <2>2, TypeFrame DEF Review, Dismiss
<1>6. ASSUME NEW o \in DOMAIN opportunities, Simulate(o)
      PROVE  TypeInv'
  BY <1>6, TypeFrame DEF Simulate
<1>7. ASSUME NEW r \in Requests, Request(r)
      PROVE  TypeInv'
  <2> USE RequestFacts
  <2>1. ASSUME NEW o \in DOMAIN opportunities, LoadApply(r, o)
        PROVE  TypeInv'
    <3>1. Begin(r, "apply", o) /\ o \in Nat
      BY <2>1 DEF LoadApply
    <3>2. /\ req' \in [Requests -> RequestStates] /\ OthersKeep(r)
          /\ req'[r].phase = "saving" /\ req'[r].kind = "apply" /\ req'[r].row = o
      BY <3>1, BeginEffect
    <3>3. UNCHANGED <<clock, versions, opportunities, simulated, measurements, job>>
      BY <3>1 DEF Begin
    <3>4. RequestKnowsItsRow(r)'
      BY <3>2, <3>3 DEF RequestKnowsItsRow
    <3> QED
      BY <3>2, <3>3, <3>4, TypeFrame DEF OthersKeep
  <2>2. ASSUME NEW m \in DOMAIN measurements, LoadRevert(r, m)
        PROVE  TypeInv'
    <3>1. Begin(r, "revert", m) /\ m \in Nat
      BY <2>2 DEF LoadRevert
    <3>2. /\ req' \in [Requests -> RequestStates] /\ OthersKeep(r)
          /\ req'[r].phase = "saving" /\ req'[r].kind = "revert" /\ req'[r].row = m
      BY <3>1, BeginEffect
    <3>3. UNCHANGED <<clock, versions, opportunities, simulated, measurements, job>>
      BY <3>1 DEF Begin
    <3>4. RequestKnowsItsRow(r)'
      BY <3>2, <3>3 DEF RequestKnowsItsRow
    <3> QED
      BY <3>2, <3>3, <3>4, TypeFrame DEF OthersKeep
  <2>3. CASE SaveApply(r) \/ SaveRevert(r)
    <3>1. \E source \in {"opportunity", "revert"}, o \in Nat : SaveVersion(source, o)
      BY <2>3 DEF SaveApply, SaveRevert, NoRow
    <3>2. versions' \in Seq(Versions) /\ NewVersion \in Nat \ {0}
      BY <3>1, SaveVersionEffect
    <3>3. /\ req' = [req EXCEPT ![r].phase = "marking", ![r].version = NewVersion]
          /\ req[r].phase = "saving"
          /\ UNCHANGED <<clock, opportunities, simulated, measurements, job>>
      BY <2>3 DEF SaveApply, SaveRevert
    <3>4. /\ req' \in [Requests -> RequestStates] /\ OthersKeep(r)
          /\ req'[r].phase = "marking" /\ req'[r].version = NewVersion
          /\ req'[r].kind = req[r].kind /\ req'[r].row = req[r].row
      BY <3>2, <3>3, MoveEffect
    <3>5. /\ req[r].kind = "apply" => req[r].row \in DOMAIN opportunities
          /\ req[r].kind = "revert" => req[r].row \in DOMAIN measurements
      BY <3>3 DEF RequestKnowsItsRow
    <3>6. RequestKnowsItsRow(r)'
      BY <3>2, <3>3, <3>4, <3>5 DEF RequestKnowsItsRow
    <3> QED
      BY <3>2, <3>3, <3>4, <3>6, TypeFrame DEF OthersKeep
  <2>4. CASE MarkApplied(r)
    <3>1. /\ Advance(r, "freezing") /\ SetStatus(req[r].row, "applied")
          /\ req[r].phase = "marking" /\ req[r].kind = "apply"
          /\ UNCHANGED <<clock, versions, simulated, measurements, job>>
      BY <2>4 DEF MarkApplied
    <3>2. req[r].row \in DOMAIN opportunities /\ req[r].version > 0
      BY <3>1 DEF RequestKnowsItsRow
    <3>3. /\ opportunities' \in Seq(Opportunities)
          /\ DOMAIN opportunities' = DOMAIN opportunities
      BY <3>1, <3>2, SetStatusEffect DEF Statuses
    <3>4. /\ req' \in [Requests -> RequestStates] /\ OthersKeep(r)
          /\ req'[r].phase = "freezing" /\ req'[r].version = req[r].version
          /\ req'[r].kind = req[r].kind /\ req'[r].row = req[r].row
      BY <3>1, MoveEffect
    <3>5. RequestKnowsItsRow(r)'
      BY <3>1, <3>2, <3>3, <3>4 DEF RequestKnowsItsRow
    <3> QED
      BY <3>1, <3>3, <3>4, <3>5, TypeFrame DEF OthersKeep
  <2>5. CASE Freeze(r)
    <3>1. /\ req[r].phase = "freezing" /\ Advance(r, "idle")
          /\ UNCHANGED <<clock, versions, opportunities, simulated, job>>
      BY <2>5 DEF Freeze
    <3>2. /\ req[r].row \in DOMAIN opportunities /\ req[r].row \in Nat \ {0}
          /\ req[r].version \in Nat \ {0}
      BY <3>1 DEF RequestKnowsItsRow
    <3>3. /\ measurements' \in Seq(Measurements)
          /\ DOMAIN measurements' = DOMAIN measurements \cup {Len(measurements) + 1}
          /\ \A n \in DOMAIN measurements : measurements'[n] = measurements[n]
          /\ measurements'[Len(measurements) + 1].opportunity = req[r].row
      BY <2>5, <3>2, FreezeEffect
    <3>4. req' \in [Requests -> RequestStates] /\ OthersKeep(r) /\ req'[r].phase = "idle"
      BY <3>1, MoveEffect
    <3>5. RequestKnowsItsRow(r)'
      BY <3>4 DEF RequestKnowsItsRow
    <3> QED
      BY <3>1, <3>2, <3>3, <3>4, <3>5, TypeFrame DEF OthersKeep
  <2>6. CASE MarkReverted(r)
    <3> DEFINE o == measurements[req[r].row].opportunity
    <3>1. /\ Advance(r, "closing") /\ SetStatus(o, "reverted")
          /\ req[r].phase = "marking" /\ req[r].kind = "revert"
          /\ UNCHANGED <<clock, versions, simulated, measurements, job>>
      BY <2>6 DEF MarkReverted
    <3>2. req[r].row \in DOMAIN measurements /\ o \in DOMAIN opportunities
      BY <3>1 DEF RequestKnowsItsRow
    <3>3. /\ opportunities' \in Seq(Opportunities)
          /\ DOMAIN opportunities' = DOMAIN opportunities
      BY <3>1, <3>2, SetStatusEffect DEF Statuses
    <3>4. /\ req' \in [Requests -> RequestStates] /\ OthersKeep(r)
          /\ req'[r].phase = "closing"
          /\ req'[r].kind = req[r].kind /\ req'[r].row = req[r].row
      BY <3>1, MoveEffect
    <3>5. RequestKnowsItsRow(r)'
      BY <3>1, <3>2, <3>4 DEF RequestKnowsItsRow
    <3> QED
      BY <3>1, <3>3, <3>4, <3>5, TypeFrame DEF OthersKeep
  <2>7. CASE CloseMeasurement(r)
    <3>1. /\ req[r].phase = "closing" /\ Advance(r, "idle")
          /\ UNCHANGED <<clock, versions, opportunities, simulated, job>>
      BY <2>7 DEF CloseMeasurement
    <3>2. req[r].row \in DOMAIN measurements
      BY <3>1 DEF RequestKnowsItsRow
    <3>3. measurements' \in Seq(Measurements) /\ SameMeasured
      BY <2>7, <3>2, CloseEffect
    <3>4. req' \in [Requests -> RequestStates] /\ OthersKeep(r) /\ req'[r].phase = "idle"
      BY <3>1, MoveEffect
    <3>5. RequestKnowsItsRow(r)'
      BY <3>4 DEF RequestKnowsItsRow
    <3> QED
      BY <3>1, <3>3, <3>4, <3>5, TypeFrame DEF OthersKeep, SameMeasured
  <2>8. CASE Fail(r)
    <3>1. req' \in [Requests -> RequestStates] /\ OthersKeep(r) /\ req'[r].phase = "idle"
      BY <2>8, FailEffect
    <3>2. RequestKnowsItsRow(r)'
      BY <3>1 DEF RequestKnowsItsRow
    <3> QED
      BY <2>8, <3>1, <3>2, TypeFrame DEF OthersKeep, Fail
  <2> QED
    BY <1>7, <2>1, <2>2, <2>3, <2>4, <2>5, <2>6, <2>7, <2>8 DEF Request
<1>8. CASE Job
  <2>1. UNCHANGED <<clock, versions, opportunities, simulated, req>>
    BY <1>8 DEF Job, StartRun, RecordInterim, Reload, RecordFinal, SkipRow, EndRun,
                CrashRun, PickRow
  <2>2. measurements' \in Seq(Measurements) /\ SameMeasured
    BY <1>8, JobMeasurements
  <2> QED
    BY <1>8, <2>1, <2>2, JobEffect, TypeFrame DEF SameMeasured
<1> QED
  BY <1>1, <1>2, <1>3, <1>4, <1>5, <1>6, <1>7, <1>8 DEF Next, User

LEMMA TypeInit == Init => TypeInv
<1> SUFFICES ASSUME Init PROVE TypeInv
  OBVIOUS
<1>1. TypeOK
  BY BoundAssumption DEF Init, TypeOK, IdleRequest, IdleJob, NoRow
<1>2. RequestsKnowTheirRows /\ JobKnowsItsRow
  BY DEF Init, RequestsKnowTheirRows, RequestKnowsItsRow, JobKnowsItsRow, IdleRequest,
         IdleJob
<1> QED
  BY <1>1, <1>2 DEF TypeInv

(* Every variable keeps its type, and every measurement an opportunity,   *)
(* whatever requests, users and the job do.                               *)
THEOREM TypeCorrect == Spec => []TypeOK
<1>1. TypeInv => TypeOK
  BY DEF TypeInv
<1> QED
  BY <1>1, TypeInit, TypeStep, PTL DEF Spec

-----------------------------------------------------------------------------
(* Resolved opportunities, and live ones *)

(* What may become of an opportunity's status. *)
StatusStep(o) ==
  \/ opportunities'[o].status = opportunities[o].status
  \/ /\ opportunities[o].status \in Live
     /\ opportunities'[o].status \in {"reviewed", "dismissed", "applied"}
  \/ opportunities[o].status = "applied" /\ opportunities'[o].status = "reverted"

StatusesMove ==
  /\ DOMAIN opportunities \subseteq DOMAIN opportunities'
  /\ \A o \in DOMAIN opportunities :
       StatusStep(o) /\ opportunities'[o].fingerprint = opportunities[o].fingerprint

LEMMA StatusMoves ==
  ASSUME TypeInv, [Next]_vars
  PROVE  StatusesMove
<1> USE TypeFacts DEF StatusesMove, StatusStep
<1>1. CASE UNCHANGED opportunities
  BY <1>1
<1>2. CASE Detect
  BY <1>2, DetectEffect
<1>3. ASSUME NEW o \in DOMAIN opportunities,
             NEW status \in {"reviewed", "dismissed", "applied", "reverted"},
             SetStatus(o, status),
             \/ opportunities[o].status \in Live /\ status # "reverted"
             \/ opportunities[o].status = "applied" /\ status = "reverted"
      PROVE  StatusesMove
  <2>1. status \in Statuses
    BY DEF Statuses, Live
  <2> QED
    BY <1>3, <2>1, SetStatusEffect
<1>4. ASSUME NEW o \in DOMAIN opportunities, Review(o) \/ Dismiss(o)
      PROVE  StatusesMove
  BY <1>3, <1>4 DEF Review, Dismiss, CanDismiss, Live
<1>5. ASSUME NEW r \in Requests, MarkApplied(r)
      PROVE  StatusesMove
  <2>1. req[r].row \in DOMAIN opportunities
    BY <1>5, RequestFacts DEF RequestKnowsItsRow, MarkApplied
  <2> QED
    BY <1>3, <1>5, <2>1 DEF MarkApplied, MayApply
<1>6. ASSUME NEW r \in Requests, MarkReverted(r)
      PROVE  StatusesMove
  <2>1. measurements[req[r].row].opportunity \in DOMAIN opportunities
    BY <1>6, RequestFacts DEF RequestKnowsItsRow, MarkReverted
  <2> QED
    BY <1>3, <1>6, <2>1 DEF MarkReverted
<1>7. ASSUME NEW r \in Requests, Request(r)
      PROVE  StatusesMove
  BY <1>1, <1>5, <1>6, <1>7
     DEF Request, LoadApply, LoadRevert, Begin, SaveApply, SaveRevert, Freeze,
         CloseMeasurement, Fail
<1>8. CASE Job \/ Tick \/ EditPolicy \/ UNCHANGED vars
  BY <1>1, <1>8
     DEF Job, StartRun, RecordInterim, Reload, RecordFinal, SkipRow, EndRun, CrashRun,
         PickRow, Tick, EditPolicy, vars
<1>9. ASSUME NEW o \in DOMAIN opportunities, Simulate(o)
      PROVE  StatusesMove
  BY <1>1, <1>9 DEF Simulate
<1> QED
  BY <1>2, <1>4, <1>7, <1>8, <1>9 DEF Next, User

LEMMA OnlyDetectAddsRows ==
  ASSUME TypeInv, [Next]_vars, ~Detect
  PROVE  DOMAIN opportunities' = DOMAIN opportunities
<1>0. opportunities \in Seq(Opportunities)
  BY TypeFacts
<1>1. \A o, status : SetStatus(o, status) => DOMAIN opportunities' = DOMAIN opportunities
  BY <1>0 DEF SetStatus
<1>2. ASSUME NEW r \in Requests, Request(r)
      PROVE  DOMAIN opportunities' = DOMAIN opportunities
  BY <1>1, <1>2
     DEF Request, LoadApply, LoadRevert, Begin, SaveApply, SaveRevert, Freeze,
         CloseMeasurement, Fail, MarkApplied, MarkReverted
<1>3. CASE Job \/ Tick \/ EditPolicy \/ UNCHANGED vars
  BY <1>3
     DEF Job, StartRun, RecordInterim, Reload, RecordFinal, SkipRow, EndRun, CrashRun,
         PickRow, Tick, EditPolicy, vars
<1>4. CASE User
  BY <1>1, <1>4 DEF User, Review, Dismiss, Simulate
<1> QED
  BY <1>2, <1>3, <1>4 DEF Next

(* A resolved opportunity stays resolved, for any number of racing         *)
(* requests.                                                               *)
THEOREM ResolutionsStandCorrect == Spec => ResolutionsStand
<1> DEFINE Stands ==
      \A o \in DOMAIN opportunities :
        LET old == opportunities[o].status
            new == opportunities'[o].status IN
        /\ old \in {"dismissed", "reverted"} => new = old
        /\ old = "applied" => new \in {"applied", "reverted"}
<1>1. TypeInv /\ [Next]_vars => [Stands]_vars
  <2> SUFFICES ASSUME TypeInv, [Next]_vars PROVE Stands
    OBVIOUS
  <2> QED
    BY StatusMoves DEF StatusesMove, StatusStep, Live
<1> QED
  BY <1>1, TypeInit, TypeStep, PTL DEF Spec, ResolutionsStand

(* The detector never has two live rows for one finding, whatever users    *)
(* and requests did to the earlier ones.                                   *)
THEOREM OneLiveRowCorrect == Spec => []OneLiveRowPerFinding
<1>1. Init => OneLiveRowPerFinding
  BY DEF Init, OneLiveRowPerFinding
<1>2. TypeInv /\ OneLiveRowPerFinding /\ [Next]_vars => OneLiveRowPerFinding'
  <2> SUFFICES ASSUME TypeInv, OneLiveRowPerFinding, [Next]_vars
               PROVE  OneLiveRowPerFinding'
    OBVIOUS
  <2>1. \A o \in DOMAIN opportunities :
          /\ opportunities'[o].fingerprint = opportunities[o].fingerprint
          /\ opportunities'[o].status \in Live => opportunities[o].status \in Live
    BY StatusMoves DEF StatusesMove, StatusStep, Live
  <2>2. CASE Detect
    <3>1. /\ DOMAIN opportunities' = DOMAIN opportunities \cup {Len(opportunities) + 1}
          /\ ConflictingRows(opportunities'[Len(opportunities) + 1].fingerprint) = {}
      BY <2>2, DetectEffect, TypeFacts
    <3> QED
      BY <2>1, <3>1 DEF OneLiveRowPerFinding, ConflictingRows
  <2>3. CASE ~Detect
    <3>1. DOMAIN opportunities' = DOMAIN opportunities
      BY <2>3, OnlyDetectAddsRows
    <3> QED
      BY <2>1, <3>1 DEF OneLiveRowPerFinding
  <2> QED
    BY <2>2, <2>3
<1> QED
  BY <1>1, <1>2, TypeInit, TypeStep, PTL DEF Spec

-----------------------------------------------------------------------------
(* One measurement per opportunity, of its own version; statuses that the  *)
(* policy backs.  Inductive with them: what a request between its writes   *)
(* knows about those it has made.                                          *)

NamesApply(v, o) ==
  v \in DOMAIN versions /\ versions[v].source = "opportunity" /\ versions[v].opportunity = o

RevertedSince(v) == \E w \in DOMAIN versions : w > v /\ versions[w].source = "revert"

AppliesAreSaved ==
  \A r \in Requests :
    req[r].kind = "apply" /\ req[r].phase \in {"marking", "freezing"} =>
      NamesApply(req[r].version, req[r].row)

RevertsAreSaved ==
  \A r \in Requests :
    req[r].kind = "revert" /\ req[r].phase = "marking" =>
      RevertedSince(measurements[req[r].row].version)

MeasuredAreResolved ==
  \A m \in DOMAIN measurements :
    opportunities[measurements[m].opportunity].status \in {"applied", "reverted"}

(* An apply that is about to freeze its baseline is the only one there,    *)
(* and its opportunity has not been measured.                              *)
FreezingAreUnmeasured ==
  \A r \in Requests : req[r].phase = "freezing" =>
    /\ opportunities[req[r].row].status = "applied"
    /\ \A m \in DOMAIN measurements : measurements[m].opportunity # req[r].row
    /\ \A s \in Requests : req[s].phase = "freezing" /\ req[s].row = req[r].row => s = r

Measured ==
  \A m \in DOMAIN measurements :
    NamesApply(measurements[m].version, measurements[m].opportunity)

Backed(o) ==
  opportunities[o].status \in {"applied", "reverted"} =>
    \E v \in DOMAIN versions :
      NamesApply(v, o) /\ (opportunities[o].status = "reverted" => RevertedSince(v))

AllBacked == \A o \in DOMAIN opportunities : Backed(o)

LoopInv ==
  /\ AppliesAreSaved /\ RevertsAreSaved
  /\ MeasuredAreResolved /\ FreezingAreUnmeasured
  /\ MeasuredAtMostOnce /\ Measured /\ AllBacked

LEMMA NamesGrow ==
  ASSUME VersionsGrow, NEW v, NEW o, NamesApply(v, o)
  PROVE  v \in DOMAIN versions' /\ versions'[v].source = "opportunity"
         /\ versions'[v].opportunity = o
BY DEF VersionsGrow, NamesApply

LEMMA RevertedGrow ==
  ASSUME VersionsGrow, NEW v, RevertedSince(v)
  PROVE  \E w \in DOMAIN versions' : w > v /\ versions'[w].source = "revert"
BY DEF VersionsGrow, RevertedSince

(* The statuses change, if at all, away from the resolved ones' business:  *)
(* nothing becomes applied or reverted, and nothing stops being so.        *)
NothingResolves ==
  /\ DOMAIN opportunities \subseteq DOMAIN opportunities'
  /\ \A o \in DOMAIN opportunities' :
       \/ o \in DOMAIN opportunities /\ opportunities'[o].status = opportunities[o].status
       \/ /\ opportunities'[o].status \notin {"applied", "reverted"}
          /\ o \in DOMAIN opportunities =>
               opportunities[o].status \notin {"applied", "reverted"}

(* No request comes to stand between two writes. *)
NothingWritten ==
  \A r \in Requests : req'[r] = req[r] \/ req'[r].phase \in {"idle", "saving", "closing"}

LEMMA BackedGrow ==
  ASSUME VersionsGrow, NEW o \in DOMAIN opportunities, Backed(o),
         opportunities'[o].status = opportunities[o].status
  PROVE  Backed(o)'
<1>1. CASE opportunities[o].status \in {"applied", "reverted"}
  <2>1. PICK v \in DOMAIN versions :
          NamesApply(v, o) /\ (opportunities[o].status = "reverted" => RevertedSince(v))
    BY <1>1 DEF Backed
  <2>2. v \in DOMAIN versions' /\ NamesApply(v, o)'
    BY <2>1, NamesGrow DEF NamesApply
  <2>3. opportunities[o].status = "reverted" => RevertedSince(v)'
    BY <2>1, RevertedGrow DEF RevertedSince
  <2> QED
    BY <2>2, <2>3 DEF Backed
<1>2. CASE opportunities[o].status \notin {"applied", "reverted"}
  BY <1>2 DEF Backed
<1> QED
  BY <1>1, <1>2

(* All steps but the five writes below leave the loop's invariant alone. *)
LEMMA QuietStep ==
  ASSUME TypeInv, LoopInv, VersionsGrow, SameMeasured, NothingResolves, NothingWritten
  PROVE  LoopInv'
<1>1. AppliesAreSaved'
  BY NamesGrow DEF LoopInv, AppliesAreSaved, NamesApply, NothingWritten
<1>2. RevertsAreSaved'
  <2> SUFFICES ASSUME NEW r \in Requests, req'[r].kind = "revert",
                      req'[r].phase = "marking"
               PROVE  RevertedSince(measurements[req[r].row].version)'
    BY DEF RevertsAreSaved, NothingWritten
  <2>1. req'[r] = req[r] /\ RevertedSince(measurements[req[r].row].version)
    BY DEF NothingWritten, LoopInv, RevertsAreSaved
  <2>2. req[r].row \in DOMAIN measurements
    BY <2>1, RequestFacts DEF RequestKnowsItsRow
  <2> QED
    BY <2>1, <2>2, RevertedGrow DEF SameMeasured, RevertedSince
<1>3. MeasuredAreResolved'
  BY TypeFacts DEF LoopInv, MeasuredAreResolved, SameMeasured, NothingResolves
<1>4. FreezingAreUnmeasured'
  <2>1. \A r \in Requests : req'[r].phase = "freezing" =>
          /\ req'[r] = req[r] /\ req[r].row \in DOMAIN opportunities
    BY RequestFacts DEF NothingWritten, RequestKnowsItsRow
  <2> QED
    BY <2>1 DEF LoopInv, FreezingAreUnmeasured, SameMeasured, NothingResolves
<1>5. MeasuredAtMostOnce'
  BY DEF LoopInv, MeasuredAtMostOnce, SameMeasured
<1>6. Measured'
  BY NamesGrow DEF LoopInv, Measured, NamesApply, SameMeasured
<1>7. AllBacked'
  <2> SUFFICES ASSUME NEW o \in DOMAIN opportunities'
               PROVE  Backed(o)'
    BY DEF AllBacked
  <2>1. CASE o \in DOMAIN opportunities /\ opportunities'[o].status = opportunities[o].status
    BY <2>1, BackedGrow DEF LoopInv, AllBacked
  <2>2. CASE opportunities'[o].status \notin {"applied", "reverted"}
    BY <2>2 DEF Backed
  <2> QED
    BY <2>1, <2>2 DEF NothingResolves
<1> QED
  BY <1>1, <1>2, <1>3, <1>4, <1>5, <1>6, <1>7 DEF LoopInv

(* Save of an apply or a revert. *)
LEMMA SaveStep ==
  ASSUME TypeInv, LoopInv, NEW r \in Requests, SaveApply(r) \/ SaveRevert(r)
  PROVE  LoopInv'
<1> USE TypeFacts
<1>1. \E source \in {"opportunity", "revert"}, o \in Nat :
        /\ SaveVersion(source, o)
        /\ req[r].kind = "apply" => source = "opportunity" /\ o = req[r].row
        /\ req[r].kind = "revert" => source = "revert"
  BY RequestFacts DEF SaveApply, SaveRevert, NoRow
<1>2. /\ VersionsGrow /\ NewVersion \in Nat \ {0} /\ NewVersion \in DOMAIN versions'
      /\ \A v \in DOMAIN versions : NewVersion > v
      /\ req[r].kind = "apply" => /\ versions'[NewVersion].source = "opportunity"
                                  /\ versions'[NewVersion].opportunity = req[r].row
      /\ req[r].kind = "revert" => versions'[NewVersion].source = "revert"
  BY <1>1, SaveVersionEffect
<1>3. /\ req' = [req EXCEPT ![r].phase = "marking", ![r].version = NewVersion]
      /\ req[r].phase = "saving"
      /\ UNCHANGED <<opportunities, measurements>>
  BY DEF SaveApply, SaveRevert
<1>4. /\ OthersKeep(r) /\ req'[r].phase = "marking" /\ req'[r].version = NewVersion
      /\ req'[r].kind = req[r].kind /\ req'[r].row = req[r].row
  BY <1>2, <1>3, MoveEffect
<1>5. AppliesAreSaved'
  <2> SUFFICES ASSUME NEW s \in Requests, req'[s].kind = "apply",
                      req'[s].phase \in {"marking", "freezing"}
               PROVE  NamesApply(req[s].version, req[s].row)'
    BY DEF AppliesAreSaved
  <2>1. CASE s = r
    BY <1>2, <1>4, <2>1 DEF NamesApply
  <2>2. CASE s # r
    <3>1. req'[s] = req[s] /\ NamesApply(req[s].version, req[s].row)
      BY <1>4, <2>2 DEF OthersKeep, LoopInv, AppliesAreSaved
    <3> QED
      BY <1>2, <3>1, NamesGrow DEF NamesApply
  <2> QED
    BY <2>1, <2>2
<1>6. RevertsAreSaved'
  <2> SUFFICES ASSUME NEW s \in Requests, req'[s].kind = "revert",
                      req'[s].phase = "marking"
               PROVE  RevertedSince(measurements[req[s].row].version)'
    BY DEF RevertsAreSaved
  <2>1. CASE s = r
    <3>1. req[r].row \in DOMAIN measurements
      BY <1>3, <1>4, <2>1, RequestFacts DEF RequestKnowsItsRow
    <3>2. measurements[req[r].row].version \in DOMAIN versions
      BY <3>1 DEF LoopInv, Measured, NamesApply
    <3> QED
      BY <1>2, <1>3, <1>4, <2>1, <3>2 DEF RevertedSince
  <2>2. CASE s # r
    <3>1. req'[s] = req[s] /\ RevertedSince(measurements[req[s].row].version)
      BY <1>4, <2>2 DEF OthersKeep, LoopInv, RevertsAreSaved
    <3> QED
      BY <1>2, <1>3, <3>1, RevertedGrow DEF RevertedSince
  <2> QED
    BY <2>1, <2>2
<1>7. MeasuredAreResolved' /\ FreezingAreUnmeasured' /\ MeasuredAtMostOnce'
  BY <1>3, <1>4 DEF LoopInv, MeasuredAreResolved, FreezingAreUnmeasured,
                    MeasuredAtMostOnce, OthersKeep
<1>8. Measured'
  BY <1>2, <1>3, NamesGrow DEF LoopInv, Measured, NamesApply
<1>9. AllBacked'
  BY <1>2, <1>3, BackedGrow DEF LoopInv, AllBacked
<1> QED
  BY <1>5, <1>6, <1>7, <1>8, <1>9 DEF LoopInv

LEMMA MarkAppliedStep ==
  ASSUME TypeInv, LoopInv, NEW r \in Requests, MarkApplied(r)
  PROVE  LoopInv'
<1> USE TypeFacts
<1> DEFINE o == req[r].row
<1>1. /\ Advance(r, "freezing") /\ SetStatus(o, "applied")
      /\ req[r].phase = "marking" /\ req[r].kind = "apply"
      /\ UNCHANGED <<versions, measurements>> /\ opportunities[o].status \in Live
  BY DEF MarkApplied, MayApply
<1>2. o \in DOMAIN opportunities /\ NamesApply(req[r].version, o)
  BY <1>1, RequestFacts DEF RequestKnowsItsRow, LoopInv, AppliesAreSaved
<1>3. /\ DOMAIN opportunities' = DOMAIN opportunities /\ opportunities'[o].status = "applied"
      /\ \A p \in DOMAIN opportunities :
           p # o => opportunities'[p].status = opportunities[p].status
  BY <1>1, <1>2, SetStatusEffect DEF Statuses
<1>4. /\ OthersKeep(r) /\ req'[r].phase = "freezing" /\ req'[r].version = req[r].version
      /\ req'[r].kind = req[r].kind /\ req'[r].row = o
  BY <1>1, RequestFacts, MoveEffect
<1>5. AppliesAreSaved' /\ RevertsAreSaved'
  <2>1. ASSUME NEW s \in Requests, req'[s].kind = "apply",
               req'[s].phase \in {"marking", "freezing"}
        PROVE  NamesApply(req'[s].version, req'[s].row)
    BY <1>2, <1>4, <2>1 DEF OthersKeep, LoopInv, AppliesAreSaved
  <2>2. ASSUME NEW s \in Requests, req'[s].kind = "revert", req'[s].phase = "marking"
        PROVE  RevertedSince(measurements[req'[s].row].version)
    BY <1>4, <2>2 DEF OthersKeep, LoopInv, RevertsAreSaved
  <2> QED
    BY <1>1, <2>1, <2>2 DEF AppliesAreSaved, RevertsAreSaved, NamesApply, RevertedSince
<1>6. \A m \in DOMAIN measurements : measurements[m].opportunity # o
  BY <1>1 DEF LoopInv, MeasuredAreResolved, Live
<1>7. \A s \in Requests : req[s].phase = "freezing" => req[s].row # o
  BY <1>1 DEF LoopInv, FreezingAreUnmeasured, Live
<1>8. MeasuredAreResolved'
  BY <1>1, <1>3, <1>6 DEF LoopInv, MeasuredAreResolved
<1>9. FreezingAreUnmeasured'
  <2> SUFFICES ASSUME NEW s \in Requests, req'[s].phase = "freezing"
               PROVE  /\ opportunities'[req'[s].row].status = "applied"
                      /\ \A m \in DOMAIN measurements :
                           measurements[m].opportunity # req'[s].row
                      /\ \A t \in Requests :
                           req'[t].phase = "freezing" /\ req'[t].row = req'[s].row => t = s
    BY <1>1 DEF FreezingAreUnmeasured
  <2>1. CASE s = r
    BY <1>3, <1>4, <1>6, <1>7, <2>1 DEF OthersKeep
  <2>2. CASE s # r
    <3>1. req'[s] = req[s] /\ req[s].row \in DOMAIN opportunities /\ req[s].row # o
      BY <1>4, <1>7, <2>2, RequestFacts DEF OthersKeep, RequestKnowsItsRow
    <3>2. /\ opportunities[req[s].row].status = "applied"
          /\ \A m \in DOMAIN measurements : measurements[m].opportunity # req[s].row
          /\ \A t \in Requests : req[t].phase = "freezing" /\ req[t].row = req[s].row => t = s
      BY <3>1 DEF LoopInv, FreezingAreUnmeasured
    <3> QED
      BY <1>3, <1>4, <3>1, <3>2 DEF OthersKeep
  <2> QED
    BY <2>1, <2>2
<1>10. MeasuredAtMostOnce' /\ Measured'
  BY <1>1 DEF LoopInv, MeasuredAtMostOnce, Measured, NamesApply
<1>11. AllBacked'
  <2>1. VersionsGrow
    BY <1>1 DEF VersionsGrow
  <2>2. ASSUME NEW p, p = o
        PROVE  Backed(p)'
    BY <1>1, <1>2, <1>3, <2>2 DEF Backed, NamesApply, Live
  <2>3. \A p \in DOMAIN opportunities : p # o => Backed(p)'
    BY <1>3, <2>1, BackedGrow DEF LoopInv, AllBacked
  <2> QED
    BY <1>3, <2>2, <2>3 DEF AllBacked
<1> QED
  BY <1>5, <1>8, <1>9, <1>10, <1>11 DEF LoopInv

LEMMA FreezeStep ==
  ASSUME TypeInv, LoopInv, NEW r \in Requests, Freeze(r)
  PROVE  LoopInv'
<1> USE TypeFacts
<1> DEFINE o == req[r].row
           m == Len(measurements) + 1
<1>1. /\ Advance(r, "idle") /\ req[r].phase = "freezing"
      /\ UNCHANGED <<versions, opportunities>>
  BY DEF Freeze
<1>2. o \in Nat \ {0} /\ req[r].version \in Nat \ {0} /\ req[r].kind = "apply"
  <2>1. o \in DOMAIN opportunities /\ req[r].kind = "apply" /\ req[r].version > 0
    BY <1>1, RequestFacts DEF RequestKnowsItsRow
  <2> QED
    BY <2>1, RequestFacts
<1>3. /\ DOMAIN measurements' = DOMAIN measurements \cup {m}
      /\ \A n \in DOMAIN measurements : measurements'[n] = measurements[n]
      /\ measurements'[m].opportunity = o /\ measurements'[m].version = req[r].version
  BY <1>2, FreezeEffect
<1>4. OthersKeep(r) /\ req'[r].phase = "idle"
  BY <1>1, RequestFacts, MoveEffect
<1>5. /\ NamesApply(req[r].version, o)
      /\ opportunities[o].status = "applied"
      /\ \A n \in DOMAIN measurements : measurements[n].opportunity # o
      /\ \A s \in Requests : req[s].phase = "freezing" /\ req[s].row = o => s = r
  BY <1>1, <1>2 DEF LoopInv, AppliesAreSaved, FreezingAreUnmeasured
<1> HIDE DEF m
<1>6. AppliesAreSaved'
  BY <1>1, <1>4 DEF LoopInv, AppliesAreSaved, OthersKeep, NamesApply
<1>7. RevertsAreSaved'
  <2> SUFFICES ASSUME NEW s \in Requests, req'[s].kind = "revert",
                      req'[s].phase = "marking"
               PROVE  RevertedSince(measurements'[req'[s].row].version)
    BY <1>1 DEF RevertsAreSaved, RevertedSince
  <2>1. req'[s] = req[s] /\ req[s].row \in DOMAIN measurements
    BY <1>4, RequestFacts DEF OthersKeep, RequestKnowsItsRow
  <2> QED
    BY <1>3, <2>1 DEF LoopInv, RevertsAreSaved
<1>8. MeasuredAreResolved' /\ MeasuredAtMostOnce'
  BY <1>1, <1>3, <1>5 DEF LoopInv, MeasuredAreResolved, MeasuredAtMostOnce
<1>9. Measured'
  BY <1>1, <1>3, <1>5 DEF LoopInv, Measured, NamesApply
<1>10. FreezingAreUnmeasured'
  <2> SUFFICES ASSUME NEW s \in Requests, req'[s].phase = "freezing"
               PROVE  /\ opportunities[req'[s].row].status = "applied"
                      /\ \A n \in DOMAIN measurements' :
                           measurements'[n].opportunity # req'[s].row
                      /\ \A t \in Requests :
                           req'[t].phase = "freezing" /\ req'[t].row = req'[s].row => t = s
    BY <1>1 DEF FreezingAreUnmeasured
  <2>1. s # r /\ req'[s] = req[s] /\ req[s].row # o
    BY <1>4, <1>5 DEF OthersKeep
  <2>2. /\ opportunities[req[s].row].status = "applied"
        /\ \A n \in DOMAIN measurements : measurements[n].opportunity # req[s].row
        /\ \A t \in Requests : req[t].phase = "freezing" /\ req[t].row = req[s].row => t = s
    BY <2>1 DEF LoopInv, FreezingAreUnmeasured
  <2> QED
    BY <1>3, <1>4, <2>1, <2>2 DEF OthersKeep
<1>11. AllBacked'
  BY <1>1 DEF LoopInv, AllBacked, Backed, NamesApply, RevertedSince
<1> QED
  BY <1>6, <1>7, <1>8, <1>9, <1>10, <1>11 DEF LoopInv

LEMMA MarkRevertedStep ==
  ASSUME TypeInv, LoopInv, NEW r \in Requests, MarkReverted(r)
  PROVE  LoopInv'
<1> USE TypeFacts
<1> DEFINE m == req[r].row
           o == measurements[m].opportunity
<1>1. /\ Advance(r, "closing") /\ SetStatus(o, "reverted")
      /\ req[r].phase = "marking" /\ req[r].kind = "revert"
      /\ UNCHANGED <<versions, measurements>>
  BY DEF MarkReverted
<1>2. /\ m \in DOMAIN measurements /\ o \in DOMAIN opportunities
      /\ RevertedSince(measurements[m].version)
      /\ NamesApply(measurements[m].version, o)
  BY <1>1, RequestFacts DEF RequestKnowsItsRow, LoopInv, RevertsAreSaved, Measured
<1>3. /\ DOMAIN opportunities' = DOMAIN opportunities /\ opportunities'[o].status = "reverted"
      /\ \A p \in DOMAIN opportunities :
           p # o => opportunities'[p].status = opportunities[p].status
  BY <1>1, <1>2, SetStatusEffect DEF Statuses
<1>4. OthersKeep(r) /\ req'[r].phase = "closing"
  BY <1>1, RequestFacts, MoveEffect
<1>5. AppliesAreSaved' /\ RevertsAreSaved'
  BY <1>1, <1>4 DEF LoopInv, AppliesAreSaved, RevertsAreSaved, OthersKeep, NamesApply,
                    RevertedSince
<1>6. MeasuredAreResolved' /\ MeasuredAtMostOnce' /\ Measured'
  BY <1>1, <1>3 DEF LoopInv, MeasuredAreResolved, MeasuredAtMostOnce, Measured, NamesApply
<1>7. FreezingAreUnmeasured'
  <2> SUFFICES ASSUME NEW s \in Requests, req'[s].phase = "freezing"
               PROVE  /\ opportunities'[req'[s].row].status = "applied"
                      /\ \A n \in DOMAIN measurements :
                           measurements[n].opportunity # req'[s].row
                      /\ \A t \in Requests :
                           req'[t].phase = "freezing" /\ req'[t].row = req'[s].row => t = s
    BY <1>1 DEF FreezingAreUnmeasured
  <2>1. s # r /\ req'[s] = req[s] /\ req[s].row \in DOMAIN opportunities
    BY <1>4, RequestFacts DEF OthersKeep, RequestKnowsItsRow
  <2>2. /\ opportunities[req[s].row].status = "applied"
        /\ \A n \in DOMAIN measurements : measurements[n].opportunity # req[s].row
        /\ \A t \in Requests : req[t].phase = "freezing" /\ req[t].row = req[s].row => t = s
    BY <2>1 DEF LoopInv, FreezingAreUnmeasured
  <2> QED
    BY <1>2, <1>3, <1>4, <2>1, <2>2 DEF OthersKeep
<1>8. AllBacked'
  <2>1. VersionsGrow
    BY <1>1 DEF VersionsGrow
  <2>2. ASSUME NEW p, p = o
        PROVE  Backed(p)'
    BY <1>1, <1>2, <2>2 DEF Backed, NamesApply, RevertedSince
  <2>3. \A p \in DOMAIN opportunities : p # o => Backed(p)'
    BY <1>3, <2>1, BackedGrow DEF LoopInv, AllBacked
  <2> QED
    BY <1>3, <2>2, <2>3 DEF AllBacked
<1> QED
  BY <1>5, <1>6, <1>7, <1>8 DEF LoopInv

LEMMA LoopStep == TypeInv /\ LoopInv /\ [Next]_vars => LoopInv'
<1> SUFFICES ASSUME TypeInv, LoopInv, [Next]_vars PROVE LoopInv'
  OBVIOUS
<1> USE TypeFacts
<1>1. CASE UNCHANGED vars
  BY <1>1, QuietStep DEF vars, VersionsGrow, SameMeasured, NothingResolves, NothingWritten
<1>2. CASE Tick
  BY <1>2, QuietStep DEF Tick, VersionsGrow, SameMeasured, NothingResolves, NothingWritten
<1>3. CASE Detect
  <2>1. NothingResolves
    BY <1>3, DetectEffect DEF NothingResolves
  <2> QED
    BY <1>3, <2>1, QuietStep DEF Detect, VersionsGrow, SameMeasured, NothingWritten
<1>4. CASE User
  <2>1. UNCHANGED <<versions, measurements, req>>
    BY <1>4 DEF User, Review, Dismiss, Simulate
  <2>2. NothingResolves
    <3>1. ASSUME NEW o \in DOMAIN opportunities, NEW status \in {"reviewed", "dismissed"},
                 SetStatus(o, status), opportunities[o].status \in Live
          PROVE  NothingResolves
      BY <3>1, SetStatusEffect DEF NothingResolves, Live, Statuses
    <3>2. CASE UNCHANGED opportunities
      BY <3>2 DEF NothingResolves
    <3> QED
      BY <1>4, <3>1, <3>2 DEF User, Review, Dismiss, CanDismiss, Simulate, Live
  <2> QED
    BY <2>1, <2>2, QuietStep DEF VersionsGrow, SameMeasured, NothingWritten
<1>5. CASE EditPolicy
  <2>1. VersionsGrow
    BY <1>5, SaveVersionEffect DEF EditPolicy, NoRow
  <2> QED
    BY <1>5, <2>1, QuietStep DEF EditPolicy, SameMeasured, NothingResolves, NothingWritten
<1>6. ASSUME NEW r \in Requests, Request(r)
      PROVE  LoopInv'
  <2>1. ASSUME \E o \in DOMAIN opportunities : LoadApply(r, o)
        PROVE  LoopInv'
    <3>1. \E o \in Nat : Begin(r, "apply", o)
      BY <2>1 DEF LoadApply
    <3>2. NothingWritten
      BY <3>1, BeginEffect DEF OthersKeep, NothingWritten
    <3> QED
      BY <3>1, <3>2, QuietStep DEF Begin, VersionsGrow, SameMeasured, NothingResolves
  <2>2. ASSUME \E m \in DOMAIN measurements : LoadRevert(r, m)
        PROVE  LoopInv'
    <3>1. \E m \in Nat : Begin(r, "revert", m)
      BY <2>2 DEF LoadRevert
    <3>2. NothingWritten
      BY <3>1, BeginEffect DEF OthersKeep, NothingWritten
    <3> QED
      BY <3>1, <3>2, QuietStep DEF Begin, VersionsGrow, SameMeasured, NothingResolves
  <2>3. CASE CloseMeasurement(r)
    <3>1. /\ Advance(r, "idle") /\ req[r].phase = "closing"
          /\ UNCHANGED <<versions, opportunities>>
      BY <2>3 DEF CloseMeasurement
    <3>2. SameMeasured
      BY <2>3, <3>1, RequestFacts, CloseEffect DEF RequestKnowsItsRow
    <3>3. OthersKeep(r) /\ req'[r].phase = "idle"
      BY <3>1, RequestFacts, MoveEffect
    <3>4. NothingWritten
      BY <3>3 DEF OthersKeep, NothingWritten
    <3> QED
      BY <3>1, <3>2, <3>4, QuietStep DEF VersionsGrow, NothingResolves
  <2>4. CASE Fail(r)
    <3>1. NothingWritten
      BY <2>4, FailEffect DEF OthersKeep, NothingWritten
    <3> QED
      BY <2>4, <3>1, QuietStep DEF Fail, VersionsGrow, SameMeasured, NothingResolves
  <2> QED
    BY <1>6, <2>1, <2>2, <2>3, <2>4, SaveStep, MarkAppliedStep, FreezeStep,
       MarkRevertedStep DEF Request
<1>7. CASE Job
  <2>1. UNCHANGED <<versions, opportunities, req>>
    BY <1>7 DEF Job, StartRun, RecordInterim, Reload, RecordFinal, SkipRow, EndRun,
                CrashRun, PickRow
  <2>2. SameMeasured
    BY <1>7, JobMeasurements
  <2> QED
    BY <2>1, <2>2, QuietStep DEF VersionsGrow, NothingResolves, NothingWritten
<1> QED
  BY <1>1, <1>2, <1>3, <1>4, <1>5, <1>6, <1>7 DEF Next

LEMMA LoopInit == Init => LoopInv
BY DEF Init, LoopInv, AppliesAreSaved, RevertsAreSaved, MeasuredAreResolved,
       FreezingAreUnmeasured, MeasuredAtMostOnce, Measured, AllBacked, IdleRequest

(* Two applies that race, or an apply after a revert, never measure an     *)
(* opportunity a second time, for any number of requests.                  *)
THEOREM MeasuredAtMostOnceCorrect == Spec => []MeasuredAtMostOnce
<1>1. LoopInv => MeasuredAtMostOnce
  BY DEF LoopInv
<1> QED
  BY <1>1, TypeInit, TypeStep, LoopInit, LoopStep, PTL DEF Spec

(* A measurement's version is the one its own opportunity's apply saved,   *)
(* for any number of requests: its revert undoes that apply.               *)
THEOREM MeasurementsNameTheirApplyCorrect == Spec => []MeasurementsNameTheirApply
<1>1. LoopInv => MeasurementsNameTheirApply
  BY DEF LoopInv, Measured, NamesApply, MeasurementsNameTheirApply
<1> QED
  BY <1>1, TypeInit, TypeStep, LoopInit, LoopStep, PTL DEF Spec

(* An opportunity is applied, or reverted, only when the policy's history  *)
(* says so, wherever requests failed in between.                           *)
THEOREM StatusesFollowThePolicyCorrect == Spec => []StatusesFollowThePolicy
<1>1. LoopInv => StatusesFollowThePolicy
  BY DEF LoopInv, AllBacked, Backed, NamesApply, RevertedSince, StatusesFollowThePolicy
<1> QED
  BY <1>1, TypeInit, TypeStep, LoopInit, LoopStep, PTL DEF Spec

-----------------------------------------------------------------------------
(* Attributable verdicts.  Inductive with them: no time lies in the        *)
(* future, and a verdict the job carries was reached after the end of its  *)
(* window, when every version that could disturb it had been committed.    *)

VersionsArePast ==
  \A v \in DOMAIN versions :
    versions[v].changedAt <= versions[v].committedAt /\ versions[v].committedAt <= clock

(* A conclusive verdict over the versions after this one, up to end. *)
Attributable(version, end) == end <= clock /\ ~CommittedBefore(version, end)

JobIsAttributable ==
  /\ job.now <= clock
  /\ job.phase = "interim" /\ job.verdict = "conclusive" =>
       Attributable(measurements[job.row].version, InterimEnd(job.row))
  /\ job.phase = "final" /\ job.verdict = "conclusive" =>
       Attributable(measurements[job.row].version, FinalEnd(job.row))

RowsAreAttributable ==
  \A m \in DOMAIN measurements :
    measurements[m].verdict = "conclusive" =>
      Attributable(measurements[m].version, measurements[m].observedEnd)

TimeInv == VersionsArePast /\ JobIsAttributable /\ RowsAreAttributable

(* Versions are only added, by transactions that commit now. *)
VersionsAdded ==
  /\ VersionsGrow
  /\ \A v \in DOMAIN versions' \ DOMAIN versions :
       versions'[v].changedAt <= clock /\ versions'[v].committedAt = clock

LEMMA TimeFacts ==
  ASSUME TypeInv
  PROVE  /\ clock \in Nat
         /\ \A v \in DOMAIN versions :
              versions[v].changedAt \in Nat /\ versions[v].committedAt \in Nat
         /\ \A m \in DOMAIN measurements :
              measurements[m].version \in Nat /\ measurements[m].observedEnd \in Nat
<1>1. /\ clock \in Nat
      /\ \A v \in DOMAIN versions : versions[v] \in Versions
      /\ \A m \in DOMAIN measurements : measurements[m] \in Measurements
  BY TypeFacts, BoundAssumption, RowFact
<1> QED
  BY <1>1 DEF Versions, Measurements

LEMMA StaysAttributable ==
  ASSUME TypeInv, TypeInv', VersionsAdded, clock' >= clock,
         NEW version \in Nat, NEW end \in Nat, Attributable(version, end)
  PROVE  Attributable(version, end)'
<1>1. end <= clock' /\ clock \in Nat /\ clock' \in Nat
  BY TimeFacts DEF Attributable, TypeInv, TypeOK
<1>2. ASSUME NEW v \in DOMAIN versions', v > version
      PROVE  ~(versions'[v].committedAt < end)
  <2>1. CASE v \in DOMAIN versions
    BY <1>2, <2>1 DEF VersionsAdded, VersionsGrow, Attributable, CommittedBefore
  <2>2. CASE v \notin DOMAIN versions
    BY <1>1, <2>2 DEF VersionsAdded, Attributable
  <2> QED
    BY <2>1, <2>2
<1> QED
  BY <1>1, <1>2 DEF Attributable, CommittedBefore

(* Every step but the job's: the rows with a verdict stay as they are. *)
ResultsKept ==
  /\ \A m \in DOMAIN measurements :
       /\ m \in DOMAIN measurements'
       /\ measurements'[m].version = measurements[m].version
       /\ measurements'[m].appliedAt = measurements[m].appliedAt
  /\ \A m \in DOMAIN measurements' : measurements'[m].verdict = "conclusive" =>
       /\ m \in DOMAIN measurements
       /\ measurements[m].verdict = "conclusive"
       /\ measurements'[m].observedEnd = measurements[m].observedEnd

LEMMA TimeFrame ==
  ASSUME TypeInv, TypeInv', TimeInv, VersionsAdded, clock' >= clock, UNCHANGED job,
         ResultsKept
  PROVE  TimeInv'
<1>1. VersionsArePast'
  <2> SUFFICES ASSUME NEW v \in DOMAIN versions'
               PROVE  /\ versions'[v].changedAt <= versions'[v].committedAt
                      /\ versions'[v].committedAt <= clock'
    BY DEF VersionsArePast
  <2>1. clock \in Nat /\ clock' \in Nat
    BY TimeFacts, BoundAssumption DEF TypeInv, TypeOK
  <2>2. CASE v \in DOMAIN versions
    <3>1. /\ versions[v].changedAt <= versions[v].committedAt
          /\ versions[v].committedAt <= clock /\ versions'[v] = versions[v]
          /\ versions[v].committedAt \in Nat
      BY <2>2, TimeFacts DEF TimeInv, VersionsArePast, VersionsAdded, VersionsGrow
    <3> QED
      BY <2>1, <3>1
  <2>3. CASE v \notin DOMAIN versions
    BY <2>1, <2>3 DEF VersionsAdded
  <2> QED
    BY <2>2, <2>3
<1>2. JobIsAttributable'
  <2>1. job'.now <= clock'
    BY TimeFacts, JobFacts, BoundAssumption DEF TimeInv, JobIsAttributable, TypeInv, TypeOK
  <2>2. ASSUME job.phase \in {"interim", "final"}
        PROVE  /\ job.row \in DOMAIN measurements
               /\ measurements[job.row].version \in Nat
               /\ InterimEnd(job.row) \in Nat /\ FinalEnd(job.row) \in Nat
               /\ measurements'[job.row].version = measurements[job.row].version
               /\ InterimEnd(job.row)' = InterimEnd(job.row)
               /\ FinalEnd(job.row)' = FinalEnd(job.row)
    <3>1. job.row \in DOMAIN measurements
      BY <2>2, TypeFacts
    <3> QED
      BY <3>1, TimeFacts, JobFacts DEF ResultsKept, InterimEnd, FinalEnd
  <2>3. ASSUME job.phase = "interim", job.verdict = "conclusive"
        PROVE  Attributable(measurements[job.row].version, InterimEnd(job.row))'
    <3>1. Attributable(measurements[job.row].version, InterimEnd(job.row))
      BY <2>3 DEF TimeInv, JobIsAttributable
    <3> QED
      BY <2>2, <2>3, <3>1, StaysAttributable DEF Attributable, CommittedBefore
  <2>4. ASSUME job.phase = "final", job.verdict = "conclusive"
        PROVE  Attributable(measurements[job.row].version, FinalEnd(job.row))'
    <3>1. Attributable(measurements[job.row].version, FinalEnd(job.row))
      BY <2>4 DEF TimeInv, JobIsAttributable
    <3> QED
      BY <2>2, <2>4, <3>1, StaysAttributable DEF Attributable, CommittedBefore
  <2> QED
    BY <2>1, <2>3, <2>4 DEF JobIsAttributable
<1>3. RowsAreAttributable'
  <2> SUFFICES ASSUME NEW m \in DOMAIN measurements', measurements'[m].verdict = "conclusive"
               PROVE  Attributable(measurements[m].version, measurements[m].observedEnd)'
    BY DEF RowsAreAttributable
  <2>1. /\ m \in DOMAIN measurements
        /\ measurements'[m].version = measurements[m].version
        /\ measurements'[m].observedEnd = measurements[m].observedEnd
        /\ Attributable(measurements[m].version, measurements[m].observedEnd)
    BY DEF ResultsKept, TimeInv, RowsAreAttributable
  <2> QED
    BY <2>1, TimeFacts, StaysAttributable DEF Attributable, CommittedBefore
<1> QED
  BY <1>1, <1>2, <1>3 DEF TimeInv

(* The test a verdict passed: no second change before the window's end.    *)
LEMMA CheckIsAttributable ==
  ASSUME TypeInv, TimeInv, NEW version \in Nat, NEW end \in Nat,
         end <= job.now, ~ChangedSince(version, end)
  PROVE  Attributable(version, end)
<1>1. end <= clock
  BY TimeFacts, JobFacts DEF TimeInv, JobIsAttributable
<1>2. ASSUME NEW v \in DOMAIN versions, v > version, versions[v].committedAt < end
      PROVE  FALSE
  <2>1. versions[v].changedAt <= versions[v].committedAt
    BY DEF TimeInv, VersionsArePast
  <2>2. versions[v].changedAt < end
    BY <1>2, <2>1, TimeFacts
  <2> QED
    BY <1>2, <2>2 DEF ChangedSince
<1> QED
  BY <1>1, <1>2 DEF Attributable, CommittedBefore

(* The job's steps: what it carries from a check is attributable, and so   *)
(* is what it records.                                                     *)
LEMMA JobStep ==
  ASSUME TypeInv, TypeInv', TimeInv, Job
  PROVE  TimeInv'
<1>0. UNCHANGED <<clock, versions>> /\ SameMeasured
  BY JobMeasurements
     DEF Job, StartRun, RecordInterim, Reload, RecordFinal, SkipRow, EndRun, CrashRun,
         PickRow
<1>1. VersionsArePast'
  BY <1>0 DEF TimeInv, VersionsArePast
<1>2. RowsAreAttributable'
  <2>1. ASSUME NEW end \in Nat, NEW status \in Pending \cup {"final", "reverted"},
               Record(job.row, status, end), job.row \in DOMAIN measurements,
               job.verdict = "conclusive" =>
                 Attributable(measurements[job.row].version, end)
        PROVE  RowsAreAttributable'
    <3>1. /\ measurements'[job.row].verdict = job.verdict
          /\ measurements'[job.row].observedEnd = end
          /\ \A n \in DOMAIN measurements : n # job.row => measurements'[n] = measurements[n]
      BY <2>1, RecordEffect, TypeFacts
    <3> SUFFICES ASSUME NEW m \in DOMAIN measurements',
                        measurements'[m].verdict = "conclusive"
                 PROVE  Attributable(measurements'[m].version, measurements'[m].observedEnd)
      BY <1>0 DEF RowsAreAttributable, Attributable, CommittedBefore
    <3>2. m \in DOMAIN measurements /\ measurements'[m].version = measurements[m].version
      BY <1>0 DEF SameMeasured
    <3>3. CASE m = job.row
      BY <2>1, <3>1, <3>2, <3>3
    <3>4. CASE m # job.row
      BY <3>1, <3>2, <3>4 DEF TimeInv, RowsAreAttributable
    <3> QED
      BY <3>3, <3>4
  <2>2. CASE RecordInterim
    <3>1. /\ job.row \in DOMAIN measurements /\ InterimEnd(job.row) \in Nat
          /\ Record(job.row, "interim", InterimEnd(job.row)) /\ job.phase = "interim"
      BY <2>2, TypeFacts, JobFacts DEF RecordInterim
    <3> QED
      BY <2>1, <3>1 DEF Pending, TimeInv, JobIsAttributable
  <2>3. CASE RecordFinal
    <3>1. /\ job.row \in DOMAIN measurements /\ FinalEnd(job.row) \in Nat
          /\ Record(job.row, "final", FinalEnd(job.row)) /\ job.phase = "final"
      BY <2>3, TypeFacts, JobFacts DEF RecordFinal
    <3> QED
      BY <2>1, <3>1 DEF TimeInv, JobIsAttributable
  <2>4. CASE UNCHANGED measurements
    BY <1>0, <2>4 DEF TimeInv, RowsAreAttributable, Attributable, CommittedBefore
  <2> QED
    BY <2>2, <2>3, <2>4 DEF Job, StartRun, Reload, SkipRow, EndRun, CrashRun, PickRow
<1>3. JobIsAttributable'
  <2>0. job \in JobStates /\ job.now <= clock /\ clock \in Nat
    BY TypeFacts, JobFacts DEF TimeInv, JobIsAttributable
  <2>1. ASSUME job'.now <= clock, job'.phase \notin {"interim", "final"}
        PROVE  JobIsAttributable'
    BY <1>0, <2>1 DEF JobIsAttributable
  <2>2. CASE StartRun
    BY <2>0, <2>1, <2>2 DEF StartRun
  <2>3. ASSUME NEW m \in DOMAIN measurements, PickRow(m)
        PROVE  JobIsAttributable'
    <3>1. PICK entry \in job.todo :
            \/ /\ Due(InterimEnd(m))
               /\ \E v \in PossibleVerdicts(m, InterimEnd(m)) :
                    job' = [job EXCEPT !.phase = "interim", !.row = m, !.verdict = v,
                                       !.todo = @ \ {entry}]
            \/ job' = [job EXCEPT !.phase = "reloading", !.row = m, !.todo = @ \ {entry}]
      BY <2>3 DEF PickRow
    <3>2. CASE job' = [job EXCEPT !.phase = "reloading", !.row = m, !.todo = @ \ {entry}]
      <4>1. job'.now = job.now /\ job'.phase = "reloading"
        BY <2>0, <3>2 DEF JobStates
      <4> QED
        BY <2>0, <2>1, <4>1
    <3>3. ASSUME Due(InterimEnd(m)), NEW v \in PossibleVerdicts(m, InterimEnd(m)),
                 job' = [job EXCEPT !.phase = "interim", !.row = m, !.verdict = v,
                                    !.todo = @ \ {entry}]
          PROVE  JobIsAttributable'
      <4>1. /\ job'.phase = "interim" /\ job'.row = m /\ job'.verdict = v
            /\ job'.now = job.now
        BY <2>0, <3>3 DEF JobStates
      <4>2. v = "conclusive" => Attributable(measurements[m].version, InterimEnd(m))
        BY <3>3, TimeFacts, JobFacts, CheckIsAttributable DEF PossibleVerdicts, Due
      <4>3. /\ InterimEnd(m)' = InterimEnd(m)
            /\ measurements'[m].version = measurements[m].version
        BY <1>0 DEF SameMeasured, InterimEnd
      <4>4. measurements'[job'.row].version = measurements[m].version
            /\ InterimEnd(job.row)' = InterimEnd(m)
        BY <4>1, <4>3 DEF InterimEnd
      <4> QED
        BY <1>0, <2>0, <4>1, <4>2, <4>4
           DEF JobIsAttributable, Attributable, CommittedBefore
    <3> QED
      BY <3>1, <3>2, <3>3
  <2>4. CASE Reload
    <3> DEFINE m == job.row
    <3>1. m \in DOMAIN measurements
      BY <2>4, TypeFacts DEF Reload
    <3>2. CASE job' = [job EXCEPT !.phase = "scanning", !.row = NoRow]
      <4>1. job'.now = job.now /\ job'.phase = "scanning"
        BY <2>0, <3>2 DEF JobStates
      <4> QED
        BY <2>0, <2>1, <4>1
    <3>3. ASSUME Due(FinalEnd(m)), NEW v \in PossibleVerdicts(m, FinalEnd(m)),
                 job' = [job EXCEPT !.phase = "final", !.verdict = v]
          PROVE  JobIsAttributable'
      <4>1. /\ job'.phase = "final" /\ job'.row = m /\ job'.verdict = v
            /\ job'.now = job.now
        BY <2>0, <3>3 DEF JobStates
      <4>2. v = "conclusive" => Attributable(measurements[m].version, FinalEnd(m))
        BY <3>1, <3>3, TimeFacts, JobFacts, CheckIsAttributable DEF PossibleVerdicts, Due
      <4>3. /\ measurements'[job'.row].version = measurements[m].version
            /\ FinalEnd(job.row)' = FinalEnd(m)
        BY <1>0, <3>1, <4>1 DEF SameMeasured, FinalEnd
      <4> QED
        BY <1>0, <2>0, <4>1, <4>2, <4>3
           DEF JobIsAttributable, Attributable, CommittedBefore
    <3>4. \/ /\ Due(FinalEnd(m))
             /\ \E v \in PossibleVerdicts(m, FinalEnd(m)) :
                  job' = [job EXCEPT !.phase = "final", !.verdict = v]
          \/ job' = [job EXCEPT !.phase = "scanning", !.row = NoRow]
      BY <2>4 DEF Reload
    <3> QED
      BY <3>2, <3>3, <3>4
  <2>5. CASE RecordInterim
    <3>1. job' = [job EXCEPT !.phase = "reloading", !.verdict = NoVerdict]
      BY <2>5 DEF RecordInterim
    <3>2. job'.now = job.now /\ job'.phase = "reloading"
      BY <2>0, <3>1 DEF JobStates
    <3> QED
      BY <2>0, <2>1, <3>2
  <2>6. CASE RecordFinal \/ SkipRow
    <3>1. job' = [job EXCEPT !.phase = "scanning", !.row = NoRow, !.verdict = NoVerdict]
      BY <2>6 DEF RecordFinal, SkipRow
    <3>2. job'.now = job.now /\ job'.phase = "scanning"
      BY <2>0, <3>1 DEF JobStates
    <3> QED
      BY <2>0, <2>1, <3>2
  <2>7. CASE EndRun \/ CrashRun
    BY <2>0, <2>1, <2>7 DEF EndRun, CrashRun, IdleJob
  <2> QED
    BY <2>2, <2>3, <2>4, <2>5, <2>6, <2>7 DEF Job
<1> QED
  BY <1>1, <1>2, <1>3 DEF TimeInv

LEMMA TimeStep == TypeInv /\ TimeInv /\ [Next]_vars => TimeInv'
<1> SUFFICES ASSUME TypeInv, TimeInv, [Next]_vars PROVE TimeInv'
  OBVIOUS
<1>0. TypeInv' /\ clock \in Nat
  BY TypeStep, TimeFacts
<1>a. ASSUME UNCHANGED versions
      PROVE  VersionsAdded
  BY <1>a DEF VersionsAdded, VersionsGrow
<1>b. ASSUME NEW source \in {"user", "opportunity", "revert"}, NEW o \in Nat,
             SaveVersion(source, o)
      PROVE  VersionsAdded
  BY <1>b, SaveVersionEffect, TypeFacts DEF VersionsAdded
<1>c. ASSUME UNCHANGED measurements
      PROVE  ResultsKept
  BY <1>c DEF ResultsKept
<1>1. CASE UNCHANGED vars
  BY <1>0, <1>1, <1>a, <1>c, TimeFrame DEF vars
<1>2. CASE Tick
  BY <1>0, <1>2, <1>a, <1>c, TimeFrame DEF Tick
<1>3. CASE Detect \/ User
  <2>1. UNCHANGED <<clock, versions, measurements, job>>
    BY <1>3 DEF Detect, User, Review, Dismiss, Simulate
  <2> QED
    BY <1>0, <1>a, <1>c, <2>1, TimeFrame
<1>4. CASE EditPolicy
  BY <1>0, <1>4, <1>b, <1>c, TimeFrame DEF EditPolicy, NoRow
<1>5. ASSUME NEW r \in Requests, Request(r)
      PROVE  TimeInv'
  <2>1. CASE SaveApply(r) \/ SaveRevert(r)
    <3>1. \E source \in {"opportunity", "revert"}, o \in Nat : SaveVersion(source, o)
      BY <2>1, RequestFacts DEF SaveApply, SaveRevert, NoRow
    <3> QED
      BY <1>0, <1>b, <1>c, <2>1, <3>1, TimeFrame DEF SaveApply, SaveRevert
  <2>2. CASE Freeze(r)
    <3>1. req[r].row \in DOMAIN opportunities /\ req[r].version > 0
      BY <2>2, RequestFacts DEF RequestKnowsItsRow, Freeze
    <3>2. req[r].row \in Nat \ {0} /\ req[r].version \in Nat \ {0}
      BY <3>1, RequestFacts, TypeFacts
    <3>3. ResultsKept
      BY <2>2, <3>2, FreezeEffect, TypeFacts DEF ResultsKept, NoVerdict
    <3> QED
      BY <1>0, <1>a, <2>2, <3>3, TimeFrame DEF Freeze
  <2>3. CASE CloseMeasurement(r)
    <3>1. req[r].row \in DOMAIN measurements
      BY <2>3, RequestFacts DEF RequestKnowsItsRow, CloseMeasurement
    <3>2. ResultsKept
      BY <2>3, <3>1, CloseEffect, TypeFacts DEF ResultsKept, SameMeasured
    <3> QED
      BY <1>0, <1>a, <2>3, <3>2, TimeFrame DEF CloseMeasurement
  <2>4. CASE UNCHANGED <<clock, versions, measurements, job>>
    BY <1>0, <1>a, <1>c, <2>4, TimeFrame
  <2> QED
    BY <1>5, <2>1, <2>2, <2>3, <2>4
       DEF Request, LoadApply, LoadRevert, Begin, MarkApplied, MarkReverted, Fail
<1>6. CASE Job
  BY <1>0, <1>6, JobStep
<1> QED
  BY <1>1, <1>2, <1>3, <1>4, <1>5, <1>6 DEF Next

LEMMA TimeInit == Init => TimeInv
BY DEF Init, TimeInv, VersionsArePast, JobIsAttributable, RowsAreAttributable, IdleJob

(* A conclusive verdict is attributable to the change it is about: no      *)
(* later version took effect before the end of its window, however long    *)
(* the windows, whenever the job runs, crashes and runs again, and however *)
(* many policy changes race with it.                                       *)
THEOREM VerdictsAreAttributableCorrect == Spec => []VerdictsAreAttributable
<1>1. TimeInv => VerdictsAreAttributable
  BY DEF TimeInv, RowsAreAttributable, Attributable, VerdictsAreAttributable
<1> QED
  BY <1>1, TypeInit, TypeStep, TimeInit, TimeStep, PTL DEF Spec

=============================================================================
