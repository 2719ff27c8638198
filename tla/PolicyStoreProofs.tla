-------------------------- MODULE PolicyStoreProofs --------------------------
(***************************************************************************)
(* Proofs about PolicyStore, for every set of controls, settings and       *)
(* requests and every bound on the saves.  What needs the expected version *)
(* of a PUT to be one its client read assumes ~Pipelining.                 *)
(***************************************************************************)
EXTENDS PolicyStore, TLAPS

-----------------------------------------------------------------------------
(* Lemmas about documents *)

LEMMA EmptyDocumentType == EmptyDocument \in Documents /\ Valid(EmptyDocument)
BY DocumentAssumption DEF EmptyDocument, Documents, Valid

LEMMA WithRoutingType ==
  ASSUME NEW doc \in Documents, NEW setting \in Settings
  PROVE  /\ WithRouting(doc, setting) \in Documents
         /\ WithRouting(doc, setting)[Routing] = setting
         /\ Changed(doc, WithRouting(doc, setting)) \subseteq {Routing}
BY DocumentAssumption DEF WithRouting, Documents, Changed

LEMMA IdleType == Idle \in RequestStates
BY EmptyDocumentType DEF Idle, RequestStates, Sources

-----------------------------------------------------------------------------
(* Lemmas about the history *)

LEMMA AtVersionReadsARow ==
  ASSUME NEW v, HasVersion(v)
  PROVE  \E i \in DOMAIN history :
           history[i].version = v /\ AtVersion(v) = history[i].document
BY DEF HasVersion, AtVersion

LEMMA DocumentAtType ==
  ASSUME TypeOK, NEW v \in 0 .. Len(history)
  PROVE  DocumentAt(v) \in Documents
<1>1. CASE v = 0
  BY <1>1, EmptyDocumentType DEF DocumentAt
<1>2. CASE v # 0
  <2>1. v \in DOMAIN history
    BY <1>2 DEF TypeOK
  <2>2. history[v] \in HistoryEntries
    BY <2>1 DEF TypeOK
  <2> QED
    BY <1>2, <2>2 DEF DocumentAt, HistoryEntries
<1> QED
  BY <1>1, <1>2

LEMMA AtVersionType ==
  ASSUME TypeOK, NEW v, HasVersion(v)
  PROVE  AtVersion(v) \in Documents
<1>1. PICK i \in DOMAIN history : AtVersion(v) = history[i].document
  BY AtVersionReadsARow
<1>2. history[i] \in HistoryEntries
  BY DEF TypeOK
<1> QED
  BY <1>1, <1>2 DEF HistoryEntries

(* With a contiguous history, AtVersion reads the row of that version. *)
LEMMA AtVersionIsDocumentAt ==
  ASSUME TypeOK, HistoryIsTheVersions, NEW v \in Nat \ {0}, HasVersion(v)
  PROVE  v \in 1 .. Len(history) /\ AtVersion(v) = DocumentAt(v)
<1>1. PICK i \in DOMAIN history :
        history[i].version = v /\ AtVersion(v) = history[i].document
  BY AtVersionReadsARow
<1>2. i \in 1 .. Len(history) /\ i = v
  BY <1>1 DEF TypeOK, HistoryIsTheVersions
<1> QED
  BY <1>1, <1>2 DEF DocumentAt

-----------------------------------------------------------------------------
(* Type correctness *)

LEMMA TypeInit == Init => TypeOK
BY EmptyDocumentType, IdleType DEF Init, TypeOK

(* A committed save installs its target under the next version and appends *)
(* one well-typed row.                                                     *)
LEMMA CommitSaveEffect ==
  ASSUME TypeOK, NEW r \in Requests, CommitSave(r)
  PROVE  /\ policy' \in [version : Nat, document : Documents]
         /\ policy'.version = policy.version + 1
         /\ policy'.document = req[r].target
         /\ history' \in Seq(HistoryEntries)
         /\ Len(history') = Len(history) + 1
         /\ \A i \in 1 .. Len(history) : history'[i] = history[i]
         /\ history'[Len(history) + 1].version = policy.version + 1
         /\ history'[Len(history) + 1].document = req[r].target
         /\ history'[Len(history) + 1].source = req[r].source
         /\ history'[Len(history) + 1].diff = Diff(req[r].base, req[r].target)
<1> DEFINE entry == [version |-> policy.version + 1, document |-> req[r].target,
                     source |-> req[r].source,
                     diff |-> Diff(req[r].base, req[r].target)]
<1>1. req[r] \in RequestStates /\ policy.version \in Nat
  BY DEF TypeOK
<1>2. entry \in HistoryEntries
  <2>1. Diff(req[r].base, req[r].target) \in {Diff(old, new) : old, new \in Documents}
    BY <1>1 DEF RequestStates
  <2> QED
    BY <1>1, <2>1 DEF RequestStates, HistoryEntries
<1>3. /\ policy' = [version |-> policy.version + 1, document |-> req[r].target]
      /\ history' = Append(history, entry)
  BY DEF CommitSave, Save, VersionMatches, NextVersion
<1>4. history \in Seq(HistoryEntries)
  BY DEF TypeOK
<1>5. /\ entry.version = policy.version + 1 /\ entry.document = req[r].target
      /\ entry.source = req[r].source /\ entry.diff = Diff(req[r].base, req[r].target)
  OBVIOUS
<1>6. /\ policy' \in [version : Nat, document : Documents]
      /\ policy'.version = policy.version + 1 /\ policy'.document = req[r].target
  BY <1>1, <1>3 DEF RequestStates
<1> HIDE DEF entry
<1>7. /\ history' \in Seq(HistoryEntries)
      /\ Len(history') = Len(history) + 1
      /\ \A i \in 1 .. Len(history) : history'[i] = history[i]
      /\ history'[Len(history) + 1] = entry
  BY <1>2, <1>3, <1>4
<1> QED
  BY <1>5, <1>6, <1>7

LEMMA TypeStep == TypeOK /\ [Next]_vars => TypeOK'
<1> SUFFICES ASSUME TypeOK, [Next]_vars PROVE TypeOK'
  OBVIOUS
<1>1. CASE UNCHANGED vars
  BY <1>1 DEF vars, TypeOK
<1>2. ASSUME NEW r \in Requests, Step(r) PROVE TypeOK'
  <2>0. /\ req \in [Requests -> RequestStates] /\ req[r] \in RequestStates
        /\ policy \in [version : Nat, document : Documents]
        /\ history \in Seq(HistoryEntries)
    BY DEF TypeOK
  <2>1. CASE OpenEditor(r)
    <3>1. [Idle EXCEPT !.phase = "editing", !.expected = policy.version,
                       !.seen = policy.document] \in RequestStates
      BY <2>0, IdleType DEF RequestStates
    <3> QED
      BY <2>0, <2>1, <3>1 DEF OpenEditor, Set, TypeOK
  <2>2. CASE SubmitEdit(r)
    <3>1. PICK doc \in Documents, expected \in ExpectedVersions(req[r].expected) :
            Set(r, [req[r] EXCEPT !.phase = "loading", !.expected = expected,
                                  !.target = doc])
      BY <2>2 DEF SubmitEdit
    <3>2. expected \in Nat
      BY <2>0 DEF ExpectedVersions, RequestStates
    <3>3. [req[r] EXCEPT !.phase = "loading", !.expected = expected, !.target = doc]
            \in RequestStates
      BY <2>0, <3>2 DEF RequestStates
    <3> QED
      BY <2>0, <2>2, <3>1, <3>3 DEF SubmitEdit, Set, TypeOK
  <2>3. CASE LoadForEdit(r)
    <3>1. [req[r] EXCEPT !.phase = "saving", !.base = policy.document] \in RequestStates
      BY <2>0 DEF RequestStates
    <3> QED
      BY <2>0, <2>3, <3>1 DEF LoadForEdit, Set, TypeOK
  <2>4. CASE LoadForApply(r)
    <3>1. PICK setting \in Settings :
            Set(r, [phase |-> "saving", source |-> "opportunity",
                    expected |-> policy.version, seen |-> policy.document,
                    base |-> policy.document,
                    target |-> WithRouting(policy.document, setting)])
      BY <2>4 DEF LoadForApply
    <3>2. WithRouting(policy.document, setting) \in Documents
      BY <2>0, WithRoutingType
    <3>3. [phase |-> "saving", source |-> "opportunity",
           expected |-> policy.version, seen |-> policy.document,
           base |-> policy.document,
           target |-> WithRouting(policy.document, setting)] \in RequestStates
      BY <2>0, <3>2 DEF RequestStates, Sources
    <3> QED
      BY <2>0, <2>4, <3>1, <3>3 DEF LoadForApply, Set, TypeOK
  <2>5. CASE BeginRestore(r)
    <3>1. PICK i \in DOMAIN history :
            Set(r, [Idle EXCEPT !.phase = "loading", !.source = "revert",
                                !.target = AtVersion(history[i].version)])
      BY <2>5 DEF BeginRestore
    <3>2. AtVersion(history[i].version) \in Documents
      BY <3>1, AtVersionType DEF HasVersion
    <3>3. [Idle EXCEPT !.phase = "loading", !.source = "revert",
                       !.target = AtVersion(history[i].version)] \in RequestStates
      BY <3>2, IdleType DEF RequestStates, Sources
    <3> QED
      BY <2>0, <2>5, <3>1, <3>3 DEF BeginRestore, Set, TypeOK
  <2>6. CASE BeginUndo(r)
    <3>1. PICK i \in DOMAIN history :
            LET prior == history[i].version - 1 IN
            /\ prior > 0 => HasVersion(prior)
            /\ Set(r, [Idle EXCEPT !.phase = "loading", !.source = "revert",
                                   !.target = IF prior > 0 THEN AtVersion(prior)
                                                           ELSE EmptyDocument])
      BY <2>6 DEF BeginUndo
    <3> DEFINE prior == history[i].version - 1
               target == IF prior > 0 THEN AtVersion(prior) ELSE EmptyDocument
    <3>2. target \in Documents
      BY <3>1, AtVersionType, EmptyDocumentType
    <3>3. [Idle EXCEPT !.phase = "loading", !.source = "revert", !.target = target]
            \in RequestStates
      BY <3>2, IdleType DEF RequestStates, Sources
    <3> QED
      BY <2>0, <2>6, <3>1, <3>3 DEF BeginUndo, Set, TypeOK
  <2>7. CASE LoadForRevert(r)
    <3>1. [req[r] EXCEPT !.phase = "saving", !.expected = policy.version,
                         !.seen = policy.document, !.base = policy.document]
            \in RequestStates
      BY <2>0 DEF RequestStates
    <3> QED
      BY <2>0, <2>7, <3>1 DEF LoadForRevert, Set, TypeOK
  <2>8. CASE CommitSave(r)
    <3>1. /\ policy' \in [version : Nat, document : Documents]
          /\ history' \in Seq(HistoryEntries)
      BY <2>8, CommitSaveEffect
    <3> QED
      BY <2>0, <2>8, <3>1, IdleType DEF CommitSave, Set, TypeOK
  <2>9. CASE ConflictSave(r) \/ Abandon(r)
    BY <2>0, <2>9, IdleType DEF ConflictSave, Abandon, Set, TypeOK
  <2> QED
    BY <1>2, <2>1, <2>2, <2>3, <2>4, <2>5, <2>6, <2>7, <2>8, <2>9 DEF Step
<1> QED
  BY <1>1, <1>2 DEF Next

(* Every variable of the store and its requests keeps its type. *)
THEOREM TypeCorrect == Spec => []TypeOK
BY TypeInit, TypeStep, PTL DEF Spec

-----------------------------------------------------------------------------
(* The history is the versions *)

LEMMA HistoryInit == Init => HistoryIsTheVersions
BY DEF Init, HistoryIsTheVersions, DocumentAt

LEMMA HistoryStep ==
  TypeOK /\ HistoryIsTheVersions /\ [Next]_vars => HistoryIsTheVersions'
<1> SUFFICES ASSUME TypeOK, HistoryIsTheVersions, [Next]_vars
             PROVE  HistoryIsTheVersions'
  OBVIOUS
<1>1. CASE UNCHANGED <<policy, history>>
  BY <1>1 DEF HistoryIsTheVersions, DocumentAt
<1>2. ASSUME NEW r \in Requests, CommitSave(r) PROVE HistoryIsTheVersions'
  <2>1. /\ policy'.version = policy.version + 1
        /\ policy'.document = req[r].target
        /\ Len(history') = Len(history) + 1
        /\ \A i \in 1 .. Len(history) : history'[i] = history[i]
        /\ history'[Len(history) + 1].version = policy.version + 1
        /\ history'[Len(history) + 1].document = req[r].target
    BY <1>2, CommitSaveEffect
  <2>2. policy.version \in Nat /\ Len(history) = policy.version
    BY DEF TypeOK, HistoryIsTheVersions
  <2>3. \A i \in 1 .. Len(history') : history'[i].version = i
    BY <2>1, <2>2 DEF HistoryIsTheVersions
  <2>4. policy'.document = DocumentAt(policy.version)'
    BY <2>1, <2>2 DEF DocumentAt
  <2> QED
    BY <2>1, <2>2, <2>3, <2>4 DEF HistoryIsTheVersions
<1> QED
  BY <1>1, <1>2 DEF Next, Step, OpenEditor, SubmitEdit, LoadForEdit, LoadForApply,
     BeginRestore, BeginUndo, LoadForRevert, ConflictSave, Abandon, vars

(* The history holds every version once, in order, whatever the clients    *)
(* send as their expected version.                                         *)
THEOREM HistoryCorrect == Spec => []HistoryIsTheVersions
<1>1. Init => TypeOK /\ HistoryIsTheVersions
  BY TypeInit, HistoryInit
<1>2. TypeOK /\ HistoryIsTheVersions /\ [Next]_vars => (TypeOK /\ HistoryIsTheVersions)'
  BY TypeStep, HistoryStep
<1> QED
  BY <1>1, <1>2, PTL DEF Spec

(* Rows are only appended and the version never goes back. *)
THEOREM HistoryOnlyGrowsCorrect == Spec => HistoryOnlyGrows
<1> DEFINE Grows == /\ Len(history') \in {Len(history), Len(history) + 1}
                    /\ SubSeq(history', 1, Len(history)) = history
                    /\ policy'.version >= policy.version
<1>1. TypeOK /\ [Next]_vars => [Grows]_vars
  <2> SUFFICES ASSUME TypeOK, [Next]_vars PROVE Grows
    OBVIOUS
  <2>0. history \in Seq(HistoryEntries) /\ policy.version \in Nat
    BY DEF TypeOK
  <2>1. CASE UNCHANGED <<policy, history>>
    BY <2>0, <2>1
  <2>2. ASSUME NEW r \in Requests, CommitSave(r) PROVE Grows
    <3>1. /\ policy'.version = policy.version + 1
          /\ history' \in Seq(HistoryEntries)
          /\ Len(history') = Len(history) + 1
          /\ \A i \in 1 .. Len(history) : history'[i] = history[i]
      BY <2>2, CommitSaveEffect
    <3>2. SubSeq(history', 1, Len(history)) = history
      BY <2>0, <3>1
    <3> QED
      BY <2>0, <3>1, <3>2
  <2> QED
    BY <2>1, <2>2 DEF Next, Step, OpenEditor, SubmitEdit, LoadForEdit, LoadForApply,
       BeginRestore, BeginUndo, LoadForRevert, ConflictSave, Abandon, vars
<1> QED
  BY <1>1, TypeCorrect, PTL DEF Spec, HistoryOnlyGrows
-----------------------------------------------------------------------------
(***************************************************************************)
(* The inductive invariant.  The rows say nothing about the requests that  *)
(* are about to write them, so it adds what every request holds.           *)
(***************************************************************************)
IInv ==
  /\ TypeOK
  /\ HistoryIsTheVersions
  /\ RequestsHoldCommittedDocuments
  /\ StoredDocumentsAreValid
  /\ AppliesKeepOtherControls
  /\ DiffsDescribeTheChange

LEMMA InvInit == Init => IInv
<1> SUFFICES ASSUME Init PROVE IInv
  OBVIOUS
<1>1. TypeOK /\ HistoryIsTheVersions
  BY TypeInit, HistoryInit
<1>2. history = <<>> /\ \A r \in Requests : req[r] = Idle
  BY DEF Init
<1>3. RequestsHoldCommittedDocuments
  <2>1. Idle.phase = "idle"
    BY DEF Idle
  <2> QED
    BY <1>2, <2>1 DEF RequestsHoldCommittedDocuments, HoldsCommittedDocuments
<1>4. StoredDocumentsAreValid
  BY <1>2, EmptyDocumentType DEF StoredDocumentsAreValid, DocumentAt
<1>5. AppliesKeepOtherControls /\ DiffsDescribeTheChange
  BY <1>2 DEF AppliesKeepOtherControls, DiffsDescribeTheChange
<1> QED
  BY <1>1, <1>3, <1>4, <1>5 DEF IInv

(* A step that only moves one request to a state that agrees with the rows *)
(* keeps the invariant.                                                    *)
LEMMA RequestStep ==
  ASSUME IInv, TypeOK', NEW r \in Requests, NEW state \in RequestStates,
         HoldsCommittedDocuments(state), Set(r, state), UNCHANGED <<policy, history>>
  PROVE  IInv'
<1>1. HistoryIsTheVersions' /\ StoredDocumentsAreValid'
      /\ AppliesKeepOtherControls' /\ DiffsDescribeTheChange'
  BY DEF IInv, HistoryIsTheVersions, StoredDocumentsAreValid,
     AppliesKeepOtherControls, DiffsDescribeTheChange, DocumentAt
<1>2. ASSUME NEW q \in Requests PROVE HoldsCommittedDocuments(req[q])'
  <2>1. PICK held \in RequestStates : held = req'[q] /\ HoldsCommittedDocuments(held)
    BY DEF IInv, TypeOK, Set, RequestsHoldCommittedDocuments
  <2>2. HoldsCommittedDocuments(held)'
    BY <2>1 DEF HoldsCommittedDocuments, SawAVersion, TargetIsLegal, DocumentAt
  <2> QED
    BY <2>1, <2>2 DEF HoldsCommittedDocuments, SawAVersion, TargetIsLegal, DocumentAt
<1> QED
  BY <1>1, <1>2 DEF IInv, RequestsHoldCommittedDocuments

(* The documents of the versions there were are those there are. *)
LEMMA DocumentsStay ==
  ASSUME TypeOK, HistoryIsTheVersions, NEW r \in Requests, CommitSave(r)
  PROVE  /\ policy.version \in Nat /\ Len(history) = policy.version
         /\ Len(history)' = policy.version + 1
         /\ \A v \in 0 .. policy.version : DocumentAt(v)' = DocumentAt(v)
         /\ DocumentAt(policy.version) = policy.document
         /\ \A v : v = policy.version + 1 => DocumentAt(v)' = req[r].target
<1>1. /\ policy.version \in Nat /\ Len(history) = policy.version
      /\ DocumentAt(policy.version) = policy.document
  BY DEF TypeOK, HistoryIsTheVersions
<1>2. /\ Len(history') = Len(history) + 1
      /\ \A i \in 1 .. Len(history) : history'[i] = history[i]
      /\ history'[Len(history) + 1].document = req[r].target
  BY CommitSaveEffect
<1> QED
  BY <1>1, <1>2 DEF DocumentAt

(* A save leaves what every other request holds true. *)
LEMMA HoldsAcrossSave ==
  ASSUME IInv, NEW r \in Requests, CommitSave(r), NEW state \in RequestStates,
         HoldsCommittedDocuments(state)
  PROVE  HoldsCommittedDocuments(state)'
<1>1. /\ policy.version \in Nat /\ Len(history) = policy.version
      /\ Len(history)' = policy.version + 1
      /\ \A v \in 0 .. policy.version : DocumentAt(v)' = DocumentAt(v)
  BY DocumentsStay DEF IInv
<1>2. policy'.version = policy.version + 1
  BY CommitSaveEffect DEF IInv
<1>3. state.expected \in Nat
  BY DEF RequestStates
<1>4. SawAVersion(state) => SawAVersion(state)' /\ state.expected # policy'.version
  BY <1>1, <1>2, <1>3 DEF SawAVersion
<1>5. TargetIsLegal(state) => TargetIsLegal(state)'
  <2> SUFFICES ASSUME TargetIsLegal(state) PROVE TargetIsLegal(state)'
    OBVIOUS
  <2>1. CASE state.source = "revert"
    <3>1. PICK v \in 0 .. policy.version : state.target = DocumentAt(v)
      BY <1>1, <2>1 DEF TargetIsLegal
    <3>2. v \in 0 .. Len(history)' /\ state.target = DocumentAt(v)'
      BY <1>1, <3>1
    <3> QED
      BY <2>1, <3>2 DEF TargetIsLegal
  <2>2. CASE state.source \in {"user", "opportunity"}
    BY <2>2 DEF TargetIsLegal
  <2> QED
    BY <2>1, <2>2 DEF RequestStates, Sources
<1> QED
  BY <1>4, <1>5 DEF HoldsCommittedDocuments, RequestStates

LEMMA CommitSaveStep ==
  ASSUME IInv, TypeOK', HistoryIsTheVersions', NEW r \in Requests, CommitSave(r)
  PROVE  IInv'
<1>1. /\ policy.version \in Nat /\ Len(history) = policy.version
      /\ Len(history)' = policy.version + 1
      /\ \A v \in 0 .. policy.version : DocumentAt(v)' = DocumentAt(v)
      /\ DocumentAt(policy.version) = policy.document
      /\ \A v : v = policy.version + 1 => DocumentAt(v)' = req[r].target
  BY DocumentsStay DEF IInv
<1>2. /\ \A i \in 1 .. policy.version : history'[i] = history[i]
      /\ history'[policy.version + 1].document = req[r].target
      /\ history'[policy.version + 1].source = req[r].source
      /\ history'[policy.version + 1].diff = Diff(req[r].base, req[r].target)
  BY <1>1, CommitSaveEffect DEF IInv
<1>3. req[r] \in RequestStates /\ HoldsCommittedDocuments(req[r])
  BY DEF IInv, TypeOK, RequestsHoldCommittedDocuments
<1>4. /\ req[r].seen = policy.document /\ req[r].base = policy.document
      /\ TargetIsLegal(req[r])
  <2>1. req[r].phase = "saving" /\ req[r].expected = policy.version
    BY DEF CommitSave, VersionMatches
  <2> QED
    BY <1>1, <1>3, <2>1 DEF HoldsCommittedDocuments, SawAVersion
<1>5. RequestsHoldCommittedDocuments'
  <2>1. ASSUME NEW q \in Requests, q # r PROVE HoldsCommittedDocuments(req[q])'
    <3>1. PICK held \in RequestStates :
            held = req[q] /\ HoldsCommittedDocuments(held)
      BY DEF IInv, TypeOK, RequestsHoldCommittedDocuments
    <3>2. held = req'[q]
      BY <2>1, <3>1 DEF CommitSave, Set, IInv, TypeOK
    <3>3. HoldsCommittedDocuments(held)'
      BY <3>1, HoldsAcrossSave
    <3> QED
      BY <3>2, <3>3 DEF HoldsCommittedDocuments, SawAVersion, TargetIsLegal, DocumentAt
  <2>2. HoldsCommittedDocuments(req[r])'
    <3>1. req'[r].phase = "idle"
      BY DEF CommitSave, Set, Idle, IInv, TypeOK
    <3> QED
      BY <3>1 DEF HoldsCommittedDocuments
  <2> QED
    BY <2>1, <2>2 DEF RequestsHoldCommittedDocuments
<1>6. StoredDocumentsAreValid'
  <2>1. Valid(req[r].target)
    <3>1. CASE req[r].source = "revert"
      BY <1>1, <1>4, <3>1 DEF TargetIsLegal, IInv, StoredDocumentsAreValid
    <3>2. CASE req[r].source \in {"user", "opportunity"}
      BY <1>4, <3>2 DEF TargetIsLegal
    <3> QED
      BY <1>3, <3>1, <3>2 DEF RequestStates, Sources
  <2>2. ASSUME NEW v \in 0 .. Len(history)' PROVE Valid(DocumentAt(v)')
    <3>1. CASE v = policy.version + 1
      BY <1>1, <2>1, <3>1
    <3>2. CASE v \in 0 .. policy.version
      BY <1>1, <3>2 DEF IInv, StoredDocumentsAreValid
    <3> QED
      BY <1>1, <3>1, <3>2
  <2> QED
    BY <2>2 DEF StoredDocumentsAreValid, Valid, DocumentAt
<1>7. AppliesKeepOtherControls'
  <2> SUFFICES ASSUME NEW i \in 1 .. Len(history)', history'[i].source = "opportunity"
               PROVE  Changed(DocumentAt(i - 1)', history'[i].document) \subseteq {Routing}
    BY DEF AppliesKeepOtherControls, Changed, DocumentAt
  <2>1. i - 1 \in 0 .. policy.version /\ DocumentAt(i - 1)' = DocumentAt(i - 1)
    BY <1>1
  <2>2. CASE i = policy.version + 1
    <3>1. req[r].source = "opportunity"
      BY <1>2, <2>2
    <3>2. req[r].target = WithRouting(policy.document, req[r].target[Routing])
      BY <1>4, <3>1 DEF TargetIsLegal
    <3>3. policy.document \in Documents /\ req[r].target[Routing] \in Settings
      BY <1>3, DocumentAssumption DEF IInv, TypeOK, RequestStates, Documents
    <3>4. Changed(policy.document, req[r].target) \subseteq {Routing}
      BY <3>2, <3>3, WithRoutingType
    <3>5. DocumentAt(i - 1)' = policy.document
      BY <1>1, <2>1, <2>2
    <3> QED
      BY <1>2, <2>2, <3>4, <3>5
  <2>3. CASE i \in 1 .. policy.version
    BY <1>1, <1>2, <2>1, <2>3 DEF IInv, AppliesKeepOtherControls
  <2> QED
    BY <1>1, <2>2, <2>3
<1>8. DiffsDescribeTheChange'
  <2> SUFFICES ASSUME NEW i \in 1 .. Len(history)'
               PROVE  history'[i].diff = Diff(DocumentAt(i - 1)', history'[i].document)
    BY DEF DiffsDescribeTheChange, Diff, Changed, DocumentAt
  <2>1. i - 1 \in 0 .. policy.version /\ DocumentAt(i - 1)' = DocumentAt(i - 1)
    BY <1>1
  <2>2. CASE i = policy.version + 1
    BY <1>1, <1>2, <1>4, <2>1, <2>2
  <2>3. CASE i \in 1 .. policy.version
    BY <1>1, <1>2, <2>1, <2>3 DEF IInv, DiffsDescribeTheChange
  <2> QED
    BY <1>1, <2>2, <2>3
<1> QED
  BY <1>5, <1>6, <1>7, <1>8 DEF IInv

LEMMA InvStep ==
  ASSUME ~Pipelining
  PROVE  IInv /\ [Next]_vars => IInv'
<1> SUFFICES ASSUME IInv, [Next]_vars PROVE IInv'
  OBVIOUS
<1>0. TypeOK' /\ HistoryIsTheVersions'
  BY TypeStep, HistoryStep DEF IInv
<1>1. CASE UNCHANGED vars
  <2>1. ASSUME NEW q \in Requests PROVE HoldsCommittedDocuments(req[q])'
    <3>1. req' = req /\ policy' = policy /\ history' = history
      BY <1>1 DEF vars
    <3>2. HoldsCommittedDocuments(req[q])
      BY DEF IInv, RequestsHoldCommittedDocuments
    <3> QED
      BY <3>1, <3>2 DEF HoldsCommittedDocuments, SawAVersion, TargetIsLegal, DocumentAt
  <2>2. StoredDocumentsAreValid' /\ AppliesKeepOtherControls' /\ DiffsDescribeTheChange'
    BY <1>1 DEF vars, IInv, StoredDocumentsAreValid, AppliesKeepOtherControls,
       DiffsDescribeTheChange, DocumentAt
  <2> QED
    BY <1>0, <2>1, <2>2 DEF IInv, RequestsHoldCommittedDocuments
<1>2. ASSUME NEW r \in Requests, Step(r) PROVE IInv'
  <2>0. /\ req[r] \in RequestStates /\ HoldsCommittedDocuments(req[r])
        /\ policy.version \in Nat /\ policy.document \in Documents
        /\ Len(history) = policy.version /\ policy.document = DocumentAt(policy.version)
    BY DEF IInv, TypeOK, RequestsHoldCommittedDocuments, HistoryIsTheVersions
  <2>1. CASE OpenEditor(r)
    <3> DEFINE state == [Idle EXCEPT !.phase = "editing", !.expected = policy.version,
                                     !.seen = policy.document]
    <3>1. state \in RequestStates
      BY <2>0, IdleType DEF RequestStates
    <3>2. HoldsCommittedDocuments(state)
      BY <2>0 DEF HoldsCommittedDocuments, SawAVersion, Idle
    <3> QED
      BY <1>0, <2>1, <3>1, <3>2, RequestStep DEF OpenEditor
  <2>2. CASE SubmitEdit(r)
    <3>1. PICK doc \in Documents :
            /\ Valid(doc)
            /\ Set(r, [req[r] EXCEPT !.phase = "loading", !.expected = req[r].expected,
                                     !.target = doc])
      BY <2>2 DEF SubmitEdit, ExpectedVersions, PassesValidation
    <3> DEFINE state == [req[r] EXCEPT !.phase = "loading", !.expected = req[r].expected,
                                       !.target = doc]
    <3>2. state \in RequestStates
      BY <2>0 DEF RequestStates
    <3>3. HoldsCommittedDocuments(state)
      BY <2>0, <2>2, <3>1 DEF SubmitEdit, HoldsCommittedDocuments, SawAVersion,
         TargetIsLegal, RequestStates
    <3> QED
      BY <1>0, <2>2, <3>1, <3>2, <3>3, RequestStep DEF SubmitEdit
  <2>3. CASE LoadForEdit(r)
    <3> DEFINE state == [req[r] EXCEPT !.phase = "saving", !.base = policy.document]
    <3>1. state \in RequestStates
      BY <2>0 DEF RequestStates
    <3>2. HoldsCommittedDocuments(state)
      BY <2>0, <2>3 DEF LoadForEdit, HoldsCommittedDocuments, SawAVersion,
         TargetIsLegal, RequestStates
    <3> QED
      BY <1>0, <2>3, <3>1, <3>2, RequestStep DEF LoadForEdit
  <2>4. CASE LoadForApply(r)
    <3>1. PICK setting \in Settings :
            /\ Valid(WithRouting(policy.document, setting))
            /\ Set(r, [phase |-> "saving", source |-> "opportunity",
                       expected |-> policy.version, seen |-> policy.document,
                       base |-> policy.document,
                       target |-> WithRouting(policy.document, setting)])
      BY <2>4 DEF LoadForApply, PassesValidation
    <3> DEFINE target == WithRouting(policy.document, setting)
               state == [phase |-> "saving", source |-> "opportunity",
                         expected |-> policy.version, seen |-> policy.document,
                         base |-> policy.document, target |-> target]
    <3>2. target \in Documents /\ target[Routing] = setting
      BY <2>0, WithRoutingType
    <3>3. target = WithRouting(policy.document, target[Routing]) /\ Valid(target)
      BY <3>1, <3>2
    <3> HIDE DEF target
    <3>4. state \in RequestStates
      BY <2>0, <3>2 DEF RequestStates, Sources
    <3>5. HoldsCommittedDocuments(state)
      BY <2>0, <3>3 DEF HoldsCommittedDocuments, SawAVersion, TargetIsLegal
    <3>6. Set(r, state)
      BY <3>1 DEF target
    <3> QED
      BY <1>0, <2>4, <3>4, <3>5, <3>6, RequestStep DEF LoadForApply
  <2>5. CASE BeginRestore(r)
    <3>1. PICK i \in DOMAIN history :
            Set(r, [Idle EXCEPT !.phase = "loading", !.source = "revert",
                                !.target = AtVersion(history[i].version)])
      BY <2>5 DEF BeginRestore
    <3> DEFINE target == AtVersion(history[i].version)
               state == [Idle EXCEPT !.phase = "loading", !.source = "revert",
                                     !.target = target]
    <3>2. i \in 1 .. Len(history) /\ history[i].version = i
      BY <3>1 DEF IInv, TypeOK, HistoryIsTheVersions
    <3>3. i \in Nat \ {0} /\ HasVersion(i)
      BY <2>0, <3>2 DEF HasVersion, IInv, TypeOK
    <3>4. target \in Documents /\ i \in 0 .. Len(history) /\ target = DocumentAt(i)
      BY <2>0, <3>2, <3>3, AtVersionType, AtVersionIsDocumentAt DEF IInv
    <3> HIDE DEF target
    <3>5. state \in RequestStates
      BY <3>4, IdleType DEF RequestStates, Sources
    <3>6. HoldsCommittedDocuments(state)
      BY <3>4 DEF HoldsCommittedDocuments, TargetIsLegal, Idle
    <3>7. Set(r, state)
      BY <3>1 DEF target
    <3> QED
      BY <1>0, <2>5, <3>5, <3>6, <3>7, RequestStep DEF BeginRestore
  <2>6. CASE BeginUndo(r)
    <3>1. PICK i \in DOMAIN history :
            LET prior == history[i].version - 1 IN
            /\ prior > 0 => HasVersion(prior)
            /\ Set(r, [Idle EXCEPT !.phase = "loading", !.source = "revert",
                                   !.target = IF prior > 0 THEN AtVersion(prior)
                                                           ELSE EmptyDocument])
      BY <2>6 DEF BeginUndo
    <3> DEFINE prior == history[i].version - 1
               target == IF prior > 0 THEN AtVersion(prior) ELSE EmptyDocument
               state == [Idle EXCEPT !.phase = "loading", !.source = "revert",
                                     !.target = target]
    <3>2. i \in 1 .. Len(history) /\ history[i].version = i /\ prior = i - 1
      BY <3>1 DEF IInv, TypeOK, HistoryIsTheVersions
    <3>3. target \in Documents /\ prior \in 0 .. Len(history) /\ target = DocumentAt(prior)
      <4>1. CASE prior > 0
        BY <2>0, <3>1, <3>2, <4>1, AtVersionType, AtVersionIsDocumentAt DEF IInv
      <4>2. CASE prior = 0
        BY <2>0, <4>2, EmptyDocumentType DEF DocumentAt
      <4>3. prior = 0 \/ prior > 0
        BY <2>0, <3>2
      <4> HIDE DEF prior, target
      <4> QED
        BY <4>1, <4>2, <4>3
    <3>4. Set(r, state)
      BY <3>1
    <3> HIDE DEF target, prior
    <3>5. state \in RequestStates
      BY <3>3, IdleType DEF RequestStates, Sources
    <3>6. HoldsCommittedDocuments(state)
      BY <3>3 DEF HoldsCommittedDocuments, TargetIsLegal, Idle
    <3> QED
      BY <1>0, <2>6, <3>4, <3>5, <3>6, RequestStep DEF BeginUndo
  <2>7. CASE LoadForRevert(r)
    <3> DEFINE state == [req[r] EXCEPT !.phase = "saving", !.expected = policy.version,
                                       !.seen = policy.document,
                                       !.base = policy.document]
    <3>1. state \in RequestStates
      BY <2>0 DEF RequestStates
    <3>2. PICK v \in 0 .. Len(history) : req[r].target = DocumentAt(v)
      BY <2>0, <2>7 DEF LoadForRevert, HoldsCommittedDocuments, TargetIsLegal
    <3>3. /\ state.phase = "saving" /\ state.source = "revert"
          /\ state.expected = policy.version /\ state.seen = policy.document
          /\ state.base = policy.document /\ state.target = req[r].target
      BY <2>0, <2>7 DEF LoadForRevert, RequestStates
    <3> HIDE DEF state
    <3>4. SawAVersion(state) /\ TargetIsLegal(state)
      BY <2>0, <3>2, <3>3 DEF SawAVersion, TargetIsLegal
    <3>5. HoldsCommittedDocuments(state)
      BY <3>3, <3>4 DEF HoldsCommittedDocuments
    <3>6. Set(r, state)
      BY <2>7 DEF LoadForRevert, state
    <3> QED
      BY <1>0, <2>7, <3>1, <3>5, <3>6, RequestStep DEF LoadForRevert
  <2>8. CASE CommitSave(r)
    BY <1>0, <2>8, CommitSaveStep
  <2>9. CASE ConflictSave(r) \/ Abandon(r)
    <3>1. HoldsCommittedDocuments(Idle)
      BY DEF HoldsCommittedDocuments, Idle
    <3> QED
      BY <1>0, <2>9, <3>1, IdleType, RequestStep DEF ConflictSave, Abandon
  <2> QED
    BY <1>2, <2>1, <2>2, <2>3, <2>4, <2>5, <2>6, <2>7, <2>8, <2>9 DEF Step
<1> QED
  BY <1>1, <1>2 DEF Next

THEOREM InvCorrect ==
  ASSUME ~Pipelining
  PROVE  Spec => []IInv
<1>1. IInv /\ [Next]_vars => IInv'
  BY InvStep
<1> QED
  BY <1>1, InvInit, PTL DEF Spec

(* Every history row's diff describes its change, if no client sends a     *)
(* version it has not read.                                                *)
THEOREM DiffsCorrect ==
  ASSUME ~Pipelining
  PROVE  Spec => []DiffsDescribeTheChange
<1>1. IInv => DiffsDescribeTheChange
  BY DEF IInv
<1> QED
  BY <1>1, InvCorrect, PTL

(* No apply undoes a concurrent edit of another control. *)
THEOREM AppliesKeepOtherControlsCorrect ==
  ASSUME ~Pipelining
  PROVE  Spec => []AppliesKeepOtherControls
<1>1. IInv => AppliesKeepOtherControls
  BY DEF IInv
<1> QED
  BY <1>1, InvCorrect, PTL

(* Whatever is stored, by a revert too, is valid. *)
THEOREM StoredDocumentsAreValidCorrect ==
  ASSUME ~Pipelining
  PROVE  Spec => []StoredDocumentsAreValid
<1>1. IInv => StoredDocumentsAreValid
  BY DEF IInv
<1> QED
  BY <1>1, InvCorrect, PTL

(* A save replaces the very document its author saw. *)
THEOREM NothingUnseenIsReplacedCorrect ==
  ASSUME ~Pipelining
  PROVE  Spec => NothingUnseenIsReplaced
<1> DEFINE Seen == \A r \in Requests :
                     req[r].phase = "saving" /\ history' # history /\ req'[r] # req[r] =>
                       req[r].seen = policy.document
<1>1. IInv /\ [Next]_vars => [Seen]_vars
  <2> SUFFICES ASSUME IInv, [Next]_vars PROVE Seen
    OBVIOUS
  <2>1. CASE UNCHANGED history
    BY <2>1
  <2>2. ASSUME NEW r \in Requests, CommitSave(r) PROVE Seen
    <3>1. req[r].seen = policy.document
      <4>1. req[r].phase = "saving" /\ req[r].expected = policy.version
        BY <2>2 DEF CommitSave, VersionMatches
      <4>2. req[r].seen = DocumentAt(policy.version)
        BY <4>1 DEF IInv, RequestsHoldCommittedDocuments, HoldsCommittedDocuments, SawAVersion
      <4> QED
        BY <4>2 DEF IInv, HistoryIsTheVersions
    <3>2. \A q \in Requests : q # r => req'[q] = req[q]
      BY <2>2 DEF CommitSave, Set, IInv, TypeOK
    <3> QED
      BY <3>1, <3>2
  <2> QED
    BY <2>1, <2>2 DEF Next, Step, OpenEditor, SubmitEdit, LoadForEdit, LoadForApply,
       BeginRestore, BeginUndo, LoadForRevert, ConflictSave, Abandon, vars
<1> QED
  BY <1>1, InvCorrect, PTL DEF Spec, NothingUnseenIsReplaced

-----------------------------------------------------------------------------
(* Refinement: a save is the atomic change of PolicyLog, every other step  *)
(* leaves the log alone.                                                   *)

LEMMA LogAppends ==
  ASSUME IInv, NEW r \in Requests, CommitSave(r)
  PROVE  /\ req[r].seen = Log!Latest
         /\ Log!Append1(req[r].source, req[r].target)
<1>1. req[r].phase = "saving" /\ req[r].expected = policy.version
  BY DEF CommitSave, VersionMatches
<1>2. /\ req[r].base = policy.document /\ req[r].seen = DocumentAt(policy.version)
  BY <1>1 DEF IInv, RequestsHoldCommittedDocuments, HoldsCommittedDocuments, SawAVersion
<1>3. /\ policy.version = Len(history) /\ policy.document = DocumentAt(policy.version)
  BY DEF IInv, HistoryIsTheVersions
<1>4. Log!Latest = policy.document
  BY <1>3 DEF Log!Latest, Log!DocumentAt, DocumentAt, Log!EmptyDocument, EmptyDocument
<1>5. history' = Append(history,
        [version |-> Len(history) + 1, document |-> req[r].target,
         source |-> req[r].source, diff |-> Diff(policy.document, req[r].target)])
  BY <1>1, <1>2, <1>3 DEF CommitSave, Save, NextVersion
<1>6. Diff(policy.document, req[r].target) = Log!Diff(Log!Latest, req[r].target)
  BY <1>4 DEF Diff, Changed, Log!Diff, Log!Changed
<1> QED
  BY <1>2, <1>3, <1>4, <1>5, <1>6 DEF Log!Append1

LEMMA SaveIsAChange ==
  ASSUME IInv, NEW r \in Requests, CommitSave(r)
  PROVE  Log!Next
<1>1. /\ req[r].seen = Log!Latest
      /\ Log!Append1(req[r].source, req[r].target)
  BY LogAppends
<1>2. req[r] \in RequestStates /\ TargetIsLegal(req[r])
  BY DEF IInv, TypeOK, RequestsHoldCommittedDocuments, HoldsCommittedDocuments, CommitSave
<1>3. CASE req[r].source = "user"
  <2>1. req[r].target \in Log!Documents /\ Log!Valid(req[r].target)
    BY <1>2, <1>3 DEF RequestStates, Documents, Log!Documents, TargetIsLegal, Valid, Log!Valid
  <2> QED
    BY <1>1, <1>3, <2>1 DEF Log!Next, Log!Edit
<1>4. CASE req[r].source = "opportunity"
  <2>1. /\ Valid(req[r].target)
        /\ req[r].target = WithRouting(req[r].seen, req[r].target[Routing])
    BY <1>2, <1>4 DEF TargetIsLegal
  <2>2. req[r].target[Routing] \in Settings
    BY <1>2, DocumentAssumption DEF RequestStates, Documents
  <2>3. /\ req[r].target = Log!WithRouting(Log!Latest, req[r].target[Routing])
        /\ Log!Valid(req[r].target)
    BY <1>1, <2>1 DEF WithRouting, Log!WithRouting, Valid, Log!Valid
  <2> QED
    BY <1>1, <1>4, <2>2, <2>3 DEF Log!Next, Log!ApplyRouting
<1>5. CASE req[r].source = "revert"
  <2>1. PICK v \in 0 .. Len(history) : req[r].target = DocumentAt(v)
    BY <1>2, <1>5 DEF TargetIsLegal
  <2>2. req[r].target = Log!DocumentAt(v)
    BY <2>1 DEF DocumentAt, Log!DocumentAt, EmptyDocument, Log!EmptyDocument
  <2> QED
    BY <1>1, <1>5, <2>2 DEF Log!Next, Log!Restore
<1> QED
  BY <1>2, <1>3, <1>4, <1>5 DEF RequestStates, Sources

(* The store with its requests implements the atomic log. *)
THEOREM PolicyLogImplemented ==
  ASSUME ~Pipelining
  PROVE  Spec => ImplementsPolicyLog
<1>1. Init => Log!Init
  BY DEF Init, Log!Init
<1>2. IInv /\ [Next]_vars => [Log!Next]_history
  BY SaveIsAChange DEF Next, Step, OpenEditor, SubmitEdit, LoadForEdit, LoadForApply,
     BeginRestore, BeginUndo, LoadForRevert, ConflictSave, Abandon, vars
<1> QED
  BY <1>1, <1>2, InvCorrect, PTL DEF Spec, ImplementsPolicyLog, Log!Spec
(* What a request holds between its steps is a document the history has. *)
THEOREM RequestsHoldCommittedDocumentsCorrect ==
  ASSUME ~Pipelining
  PROVE  Spec => []RequestsHoldCommittedDocuments
<1>1. IInv => RequestsHoldCommittedDocuments
  BY DEF IInv
<1> QED
  BY <1>1, InvCorrect, PTL

(* A client is only told of a conflict if another save came first. *)
THEOREM ConflictsAreRealCorrect ==
  ASSUME ~Pipelining
  PROVE  Spec => []ConflictsAreReal
<1>1. IInv => ConflictsAreReal
  <2> SUFFICES ASSUME IInv, NEW r \in Requests, req[r].phase = "saving",
                      ~VersionMatches(req[r].expected)
               PROVE  req[r].expected < policy.version
    BY DEF ConflictsAreReal
  <2>1. req[r] \in RequestStates /\ policy.version \in Nat
    BY DEF IInv, TypeOK
  <2>2. SawAVersion(req[r])
    BY DEF IInv, RequestsHoldCommittedDocuments, HoldsCommittedDocuments
  <2> QED
    BY <2>1, <2>2 DEF SawAVersion, RequestStates, VersionMatches
<1> QED
  BY <1>1, InvCorrect, PTL
=============================================================================
