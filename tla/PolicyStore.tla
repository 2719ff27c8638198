----------------------------- MODULE PolicyStore -----------------------------
(***************************************************************************)
(* One application's rows in policies and policy_history, and the requests *)
(* that write them (internal/policy, internal/api/handler_policy.go).      *)
(*                                                                         *)
(* Store.Save is one Postgres transaction and so one step.  Everything     *)
(* else a request does is not: it reads the document it starts from, then  *)
(* the current row, then saves under an expected version, and any other    *)
(* request may run in between.  Four requests write:                       *)
(*                                                                         *)
(*   user         PUT of the editor's document under the editor's version  *)
(*   opportunity  Applier.Apply, the current document with a new routing   *)
(*   revert       handleRevertPolicy, a document out of the history        *)
(*   revert       Reverter.Revert, the document before an apply            *)
(*                                                                         *)
(* The opportunity and measurement rows that Apply and Revert also write   *)
(* are in module ChangeLoop, the cached copies that every writer           *)
(* invalidates in module PolicySnapshot.                                   *)
(***************************************************************************)
EXTENDS PolicyDocument, Integers, Sequences

CONSTANTS
  Requests,     \* request goroutines of the control-plane API
  Pipelining,   \* may a client send the version its unanswered PUT would make?
  MaxVersion    \* bound on the number of saves

ASSUME StoreAssumption == Pipelining \in BOOLEAN /\ MaxVersion \in Nat

VARIABLES
  policy,    \* the policies row: version and document, version 0 if no row
  history,   \* the policy_history rows in the order they were committed
  req        \* what each request holds

vars == <<policy, history, req>>

Sources == {"user", "opportunity", "revert"}

(***************************************************************************)
(* What a request carries between its steps.  seen is the document its     *)
(* change was made from, base the one its diff was computed against:       *)
(* different reads for a PUT, the same read for the others.                *)
(***************************************************************************)
Idle == [phase |-> "idle", source |-> "user", expected |-> 0,
         seen |-> EmptyDocument, base |-> EmptyDocument,
         target |-> EmptyDocument]

RequestStates ==
  [phase : {"idle", "editing", "loading", "saving"}, source : Sources,
   expected : Nat, seen : Documents, base : Documents, target : Documents]

HistoryEntries ==
  [version : Nat, document : Documents, source : Sources,
   diff : {Diff(old, new) : old, new \in Documents}]

Init ==
  /\ policy = [version |-> 0, document |-> EmptyDocument]
  /\ history = <<>>
  /\ req = [r \in Requests |-> Idle]

-----------------------------------------------------------------------------
(* Store *)

HasVersion(v) == \E i \in DOMAIN history : history[i].version = v

(* Store.AtVersion reads whichever row has the version. *)
AtVersion(v) == history[CHOOSE i \in DOMAIN history : history[i].version = v].document

(* The version test of Save's two statements: the insert finds no row, the *)
(* update a row still at the expected version.                             *)
VersionMatches_Unchecked(expected) == TRUE
VersionMatches_NotOlder(expected) == policy.version >= expected
VersionMatches(expected) == policy.version = expected

NextVersion_Down(expected) == expected - 1
NextVersion(expected) == expected + 1

Save_LatestRowOnly(expected, doc, source, diff) ==
  /\ policy' = [version |-> NextVersion(expected), document |-> doc]
  /\ history' = <<[version |-> NextVersion(expected), document |-> doc,
                   source |-> source, diff |-> diff]>>
Save(expected, doc, source, diff) ==
  /\ policy' = [version |-> NextVersion(expected), document |-> doc]
  /\ history' = Append(history, [version |-> NextVersion(expected), document |-> doc,
                                 source |-> source, diff |-> diff])

-----------------------------------------------------------------------------
(* Requests *)

Set(r, state) == req' = [req EXCEPT ![r] = state]

(* handleGetPolicy: the policy editor fetches the document and version it  *)
(* will edit.                                                              *)
OpenEditor(r) ==
  /\ req[r].phase = "idle"
  /\ Set(r, [Idle EXCEPT !.phase = "editing", !.expected = policy.version,
                         !.seen = policy.document])
  /\ UNCHANGED <<policy, history>>

(* Both callers of Validate. *)
PassesValidation_Skipped(doc) == TRUE
PassesValidation(doc) == Valid(doc)

ExpectedVersions_OneAhead(seen) == {seen + 1}
ExpectedVersions(seen) == IF Pipelining THEN {seen, seen + 1} ELSE {seen}

(* handlePutPolicy accepts the edited document. *)
SubmitEdit(r) ==
  /\ req[r].phase = "editing"
  /\ \E doc \in Documents, expected \in ExpectedVersions(req[r].expected) :
       /\ PassesValidation(doc)
       /\ Set(r, [req[r] EXCEPT !.phase = "loading", !.expected = expected,
                                !.target = doc])
  /\ UNCHANGED <<policy, history>>

(* handlePutPolicy reads the current row, but only for the diff: the save  *)
(* stays under the version the client sent.                                *)
LoadForEdit(r) ==
  /\ req[r].phase = "loading" /\ req[r].source = "user"
  /\ Set(r, [req[r] EXCEPT !.phase = "saving", !.base = policy.document])
  /\ UNCHANGED <<policy, history>>

(* Applier.Apply up to its Save: the current document, its routing         *)
(* replaced.                                                               *)
LoadForApply(r) ==
  /\ req[r].phase = "idle"
  /\ \E setting \in Settings :
       /\ PassesValidation(WithRouting(policy.document, setting))
       /\ Set(r, [phase |-> "saving", source |-> "opportunity",
                  expected |-> policy.version, seen |-> policy.document,
                  base |-> policy.document,
                  target |-> WithRouting(policy.document, setting)])
  /\ UNCHANGED <<policy, history>>

(* handleRevertPolicy looks the requested version up. *)
BeginRestore(r) ==
  /\ req[r].phase = "idle"
  /\ \E i \in DOMAIN history :
       Set(r, [Idle EXCEPT !.phase = "loading", !.source = "revert",
                           !.target = AtVersion(history[i].version)])
  /\ UNCHANGED <<policy, history>>

(* Reverter.Revert looks up the document before the apply it undoes: the   *)
(* one a version earlier, or the empty one if the apply made version 1.    *)
BeginUndo(r) ==
  /\ req[r].phase = "idle"
  /\ \E i \in DOMAIN history :
       LET prior == history[i].version - 1 IN
       /\ history[i].source = "opportunity"
       /\ prior > 0 => HasVersion(prior)
       /\ Set(r, [Idle EXCEPT !.phase = "loading", !.source = "revert",
                              !.target = IF prior > 0 THEN AtVersion(prior)
                                                      ELSE EmptyDocument])
  /\ UNCHANGED <<policy, history>>

(* Both reverts then read the row whose version they save under. *)
LoadForRevert(r) ==
  /\ req[r].phase = "loading" /\ req[r].source = "revert"
  /\ Set(r, [req[r] EXCEPT !.phase = "saving", !.expected = policy.version,
                           !.seen = policy.document, !.base = policy.document])
  /\ UNCHANGED <<policy, history>>

(* Save's transaction commits. *)
CommitSave(r) ==
  /\ req[r].phase = "saving"
  /\ VersionMatches(req[r].expected)
  /\ policy.version < MaxVersion
  /\ Save(req[r].expected, req[r].target, req[r].source, Diff(req[r].base, req[r].target))
  /\ Set(r, Idle)

(* Save finds another version and answers ErrVersionConflict. *)
ConflictSave(r) ==
  /\ req[r].phase = "saving"
  /\ ~VersionMatches(req[r].expected)
  /\ Set(r, Idle)
  /\ UNCHANGED <<policy, history>>

(* The editor is closed, the client disconnects, Postgres fails and rolls  *)
(* back, or the process dies: nothing of the request remains.              *)
Abandon(r) ==
  /\ req[r].phase # "idle"
  /\ Set(r, Idle)
  /\ UNCHANGED <<policy, history>>

Step(r) ==
  \/ OpenEditor(r) \/ SubmitEdit(r) \/ LoadForEdit(r)
  \/ LoadForApply(r) \/ BeginRestore(r) \/ BeginUndo(r) \/ LoadForRevert(r)
  \/ CommitSave(r) \/ ConflictSave(r) \/ Abandon(r)

Next == \E r \in Requests : Step(r)

Spec == Init /\ [][Next]_vars

-----------------------------------------------------------------------------
(* Properties *)

(* Every variable has its type. *)
TypeOK ==
  /\ policy \in [version : Nat, document : Documents]
  /\ history \in Seq(HistoryEntries)
  /\ req \in [Requests -> RequestStates]

(* The document of version v, 0 being the application without a row. *)
DocumentAt(v) == IF v = 0 THEN EmptyDocument ELSE history[v].document

(***************************************************************************)
(* The history holds each version from 1 to the current one once, in       *)
(* order, and ends in the current document.  The table has no unique key   *)
(* on (app_id, version): that AtVersion finds one row, and that a          *)
(* measurement's policy_version - 1 names the document before its apply,   *)
(* rests on the version test of Save alone.                                *)
(***************************************************************************)
HistoryIsTheVersions ==
  /\ Len(history) = policy.version
  /\ \A i \in 1 .. Len(history) : history[i].version = i
  /\ policy.document = DocumentAt(policy.version)

(* Each history row's diff is the difference between the document it       *)
(* replaced and the one it installed, whoever else was writing when Diff   *)
(* was computed.                                                           *)
DiffsDescribeTheChange ==
  \A i \in 1 .. Len(history) :
    history[i].diff = Diff(DocumentAt(i - 1), history[i].document)

(* An apply never undoes a concurrent edit of another control: its row     *)
(* differs from the version before it in the routing alone.                *)
AppliesKeepOtherControls ==
  \A i \in 1 .. Len(history) :
    history[i].source = "opportunity" =>
      Changed(DocumentAt(i - 1), history[i].document) \subseteq {Routing}

(* Every stored document passes Validate, although neither revert calls    *)
(* it: they can only bring back what a validated save stored.              *)
StoredDocumentsAreValid == \A v \in 0 .. Len(history) : Valid(DocumentAt(v))

(* ErrVersionConflict is only ever answered to a request that another save *)
(* overtook.                                                               *)
ConflictsAreReal ==
  \A r \in Requests :
    req[r].phase = "saving" /\ ~VersionMatches(req[r].expected) =>
      req[r].expected < policy.version

(***************************************************************************)
(* What a request holds between its steps stays true of the history,       *)
(* whatever is saved meanwhile: the version and document it saw belong     *)
(* together, the base of its diff is current if its save can still commit, *)
(* and its target is what its kind of change makes of that base.           *)
(***************************************************************************)
SawAVersion(state) ==
  /\ state.expected <= policy.version
  /\ state.seen = DocumentAt(state.expected)

TargetIsLegal(state) ==
  CASE state.source = "user" -> Valid(state.target)
    [] state.source = "opportunity" ->
         /\ Valid(state.target)
         /\ state.target = WithRouting(state.seen, state.target[Routing])
    [] state.source = "revert" ->
         \E v \in 0 .. Len(history) : state.target = DocumentAt(v)

HoldsCommittedDocuments(state) ==
  CASE state.phase = "idle" -> TRUE
    [] state.phase = "editing" -> state.source = "user" /\ SawAVersion(state)
    [] state.phase = "loading" ->
         /\ state.source \in {"user", "revert"}
         /\ state.source = "user" => SawAVersion(state)
         /\ TargetIsLegal(state)
    [] state.phase = "saving" ->
         /\ SawAVersion(state)
         /\ state.expected = policy.version => state.base = policy.document
         /\ TargetIsLegal(state)

RequestsHoldCommittedDocuments ==
  \A r \in Requests : HoldsCommittedDocuments(req[r])

(* A save never replaces a document its author did not see: Save's comment *)
(* says a write that landed first is never silently clobbered.             *)
NothingUnseenIsReplaced ==
  [][\A r \in Requests :
       req[r].phase = "saving" /\ history' # history /\ req'[r] # req[r] =>
         req[r].seen = policy.document]_vars

(* History rows are never rewritten and the version never goes back.       *)
HistoryOnlyGrows ==
  [][/\ Len(history') \in {Len(history), Len(history) + 1}
     /\ SubSeq(history', 1, Len(history)) = history
     /\ policy'.version >= policy.version]_vars

(* The store and its requests implement the atomic log of changes.         *)
Log == INSTANCE PolicyLog WITH log <- history
ImplementsPolicyLog == Log!Spec
=============================================================================
