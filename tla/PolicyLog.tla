------------------------------ MODULE PolicyLog ------------------------------
(***************************************************************************)
(* What the policy store promises its callers: the policy of an            *)
(* application is a log of changes, and every change happens at once.  The *)
(* current policy is the last document of the log; an edit, an apply and a *)
(* restore each read it and append to it in one step, so no change is ever *)
(* computed from a document that is no longer the current one.             *)
(***************************************************************************)
EXTENDS PolicyDocument, Integers, Sequences

VARIABLE log

(* The document of version v; version 0 is the application with no row. *)
DocumentAt(v) == IF v = 0 THEN EmptyDocument ELSE log[v].document

Latest == DocumentAt(Len(log))

Append1(source, doc) ==
  log' = Append(log, [version |-> Len(log) + 1, document |-> doc,
                      source |-> source, diff |-> Diff(Latest, doc)])

Edit == \E doc \in Documents : Valid(doc) /\ Append1("user", doc)

ApplyRouting ==
  \E setting \in Settings :
    /\ Valid(WithRouting(Latest, setting))
    /\ Append1("opportunity", WithRouting(Latest, setting))

Restore == \E v \in 0 .. Len(log) : Append1("revert", DocumentAt(v))

Init == log = <<>>
Next == Edit \/ ApplyRouting \/ Restore
Spec == Init /\ [][Next]_log
=============================================================================
