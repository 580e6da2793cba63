-------------------------- MODULE VerifierContract --------------------------
(***************************************************************************)
(* What the type verifier promises about one function, as a specification: *)
(* the verdict comes in a single step.  Which types fit is left open, but  *)
(* an accepted function has no reference without a block, no Break in a    *)
(* block without a loop distance, and exactly the notes that the emitter   *)
(* needs on the instructions that can be reached.  verify.rs is shown to   *)
(* implement it by TypedEmission.                                          *)
(***************************************************************************)
EXTENDS ControlFlow

VARIABLES
  fn,       \* the function, with the loop distances retrieved from its blocks
  notes,    \* for every kind of note the instructions it is recorded at
  verdict

\* The kinds of notes the verifier records for an instruction: those that the
\* emitter needs, and one for a conversion that names its type itself.
Notes(i) == IF i.op = "Ftoi" THEN {"bws"} ELSE Needs(i)

\* Nothing in front of instruction n of block b diverges.
Reached(f, b, n) == \A k \in 1 .. n - 1 : ~IsDiverging(f.body[b][k])

NotedAt(f, kind) ==
  UNION { { <<b, n>> : n \in { n \in 1 .. Len(f.body[b]) :
                                 Reached(f, b, n) /\ kind \in Notes(f.body[b][n]) } }
            : b \in Blocks(f) }

\* What types do not decide.
MayAccept(f) ==
  \A b \in Blocks(f) : \A n \in 1 .. Len(f.body[b]) :
    Reached(f, b, n) =>
      /\ f.body[b][n].op = "Break" => b \in DOMAIN f.dist
      /\ \A a \in 1 .. Len(Refs(f.body[b][n])) : Refs(f.body[b][n])[a].block \in Blocks(f)

Returns(f) ==
  \E b \in Blocks(f) : \E n \in 1 .. Len(f.body[b]) : f.body[b][n].op = "Return"

Kinds == {"bws", "from", "ty"}

Init ==
  /\ verdict = "none"
  /\ DOMAIN notes = Kinds /\ \A kind \in Kinds : DOMAIN notes[kind] = {}

Accept ==
  /\ verdict = "none" /\ MayAccept(fn)
  /\ verdict' = "accepted"
  /\ DOMAIN notes' = Kinds
  /\ \A kind \in Kinds : DOMAIN notes'[kind] = NotedAt(fn, kind)
  /\ UNCHANGED fn

\* The types may not fit; nothing is recorded.
Reject ==
  /\ verdict = "none"
  /\ verdict' = "rejected"
  /\ UNCHANGED <<fn, notes>>

\* Only the comparison of returned types may overflow.
Panic ==
  /\ verdict = "none" /\ Returns(fn)
  /\ verdict' = "panicked"
  /\ UNCHANGED <<fn, notes>>

Next == Accept \/ Reject \/ Panic

Spec == Init /\ [][Next]_<<fn, notes, verdict>>
=============================================================================
