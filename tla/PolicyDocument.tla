--------------------------- MODULE PolicyDocument ---------------------------
(***************************************************************************)
(* A PolicyDocument is five optional sections (pkg/policy/document.go).    *)
(* Nothing that stores, compares or restores documents looks inside a      *)
(* section, so a section is a value of Settings, and a document assigns    *)
(* one to every control.  Validate judges each section by itself: Rejected *)
(* is the set of section values it refuses.                                *)
(***************************************************************************)
CONSTANTS
  Controls,   \* routing, caching, budget, rate_limit, model_restriction
  Routing,    \* the section an opportunity's apply replaces
  Settings,   \* the values a section can have
  Unset,      \* the nil section
  Rejected    \* the section values Validate refuses

ASSUME DocumentAssumption ==
  /\ Routing \in Controls
  /\ Rejected \subseteq Settings
  /\ Unset \in Settings \ Rejected

Documents == [Controls -> Settings]

(* What an application without a row behaves as. *)
EmptyDocument == [c \in Controls |-> Unset]

Valid(doc) == \A c \in Controls : doc[c] \notin Rejected

(* The document an apply saves: the current one with its routing replaced. *)
WithRouting_FromScratch(doc, setting) == [EmptyDocument EXCEPT ![Routing] = setting]
WithRouting(doc, setting) == [doc EXCEPT ![Routing] = setting]

Changed(old, new) == {c \in Controls : old[c] # new[c]}

(* policy_history.diff: old value next to new, for each changed control. *)
Diff(old, new) ==
  [c \in Changed(old, new) |-> [old |-> old[c], new |-> new[c]]]
=============================================================================
