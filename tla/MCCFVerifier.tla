--------------------------- MODULE MCCFVerifier -----------------------------
(***************************************************************************)
(* Small families of functions for TLC to run the control-flow verifier    *)
(* on.  The parser can build every one of them, and FunctionBuilder those  *)
(* with the tag Main on their entry block.                                 *)
(***************************************************************************)
EXTENDS CFVerifier, Shapes

\* Bodies of a block among blocks 0, 1 and 2: no, one or two referring
\* instructions, whose references may dangle (there is no block 3).
Bodies ==
  { << >>, << Op("Fail") >> }
    \cup { << If(x) >> : x \in 0 .. 3 } \cup { << Loop(x) >> : x \in 0 .. 3 }
    \cup { << IfElse(1, 2) >>, << IfElse(2, 1) >>, << IfElse(2, 2) >>,
           << If(1), Loop(2) >>, << Loop(2), Op("Fail"), Loop(1) >> }

\* Three blocks with any tags and any of these bodies.
AllSmall ==
  [tag  : { t \in [0 .. 2 -> Tags] : t[0] \in {"Main", "Loop"} /\ t[1] # "Main" },
   body : [0 .. 2 -> Bodies]]

\* All ways to nest three blocks in each other, cycles included.
AllNestings ==
  { Shaped(3, p, k, FALSE, NoSuffix(3)) : p \in [1 .. 3 -> 0 .. 3], k \in Kinds(3) }

\* A branch that is one of its own branches.
AllKnots == { f \in AllNestings : Knotted(f) }

\* Trees of four blocks under the entry.
Trees == { Shaped(4, p, k, TRUE, NoSuffix(4)) : p \in TreesOf(4), k \in Kinds(4) }

AllShapes == AllSmall \cup Trees \cup AllNestings
=============================================================================
