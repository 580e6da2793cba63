------------------------ MODULE ControlFlowContract -------------------------
(***************************************************************************)
(* What the control-flow verifier promises about one function, as a        *)
(* specification: the verdict comes in a single step and depends on the    *)
(* function alone, never on the order in which its blocks are visited; an  *)
(* accepted function carries exact metadata, and no other function gets    *)
(* any.  cf_verify.rs is shown to implement it by CFVerifier.              *)
(***************************************************************************)
EXTENDS ControlFlow

CONSTANT Functions

VARIABLES fn, meta, verdict

Init ==
  /\ fn \in Functions
  /\ meta = [parent |-> EmptyMap, dist |-> EmptyMap]
  /\ verdict = "none"

HasOrphans(f) == \E c \in OfTag(f, "IfElse") : Orphan(f, c)

Accepts(f) == WellFormed(f) /\ ~Knotted(f) /\ ~HasOrphans(f)

Panics(f) == Dangling(f) \/ HasOrphans(f)

\* A regular function in which every chain of branches ends is accepted.
Accept ==
  /\ verdict = "none" /\ Accepts(fn)
  /\ verdict' = "accepted"
  /\ DOMAIN meta' = {"parent", "dist"}
  /\ ParentMap(fn, meta'.parent)
  /\ LoopDistances(fn, meta'.dist)
  /\ UNCHANGED fn

\* Only an irregular function is rejected.
Reject ==
  /\ verdict = "none" /\ ~WellFormed(fn)
  /\ verdict' = "rejected"
  /\ UNCHANGED <<fn, meta>>

\* Only a dangling reference or an IfElse block without parent panics.
Panic ==
  /\ verdict = "none" /\ Panics(fn)
  /\ verdict' = "panicked"
  /\ UNCHANGED <<fn, meta>>

Next == Accept \/ Reject \/ Panic

Spec == Init /\ [][Next]_<<fn, meta, verdict>>
=============================================================================
