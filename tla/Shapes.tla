------------------------------- MODULE Shapes -------------------------------
(***************************************************************************)
(* Families of functions for the model-checking modules.  FunctionBuilder  *)
(* can build every one of them.                                            *)
(***************************************************************************)
EXTENDS ControlFlow, SequencesExt, FiniteSetsExt

Kinds(n) == [1 .. n -> {"IfElse", "Loop"}]

Kids(n, parent, b) == SetToSortSeq({ c \in 1 .. n : parent[c] = b }, <)

(***************************************************************************)
(* The instructions that use the blocks of kids one after the other.  When *)
(* paired, two successive branches become the then and the else of one     *)
(* instruction; otherwise each branch has an instruction of its own.       *)
(***************************************************************************)
Uses(kids, kind, paired) ==
  LET from[m \in 1 .. Len(kids) + 1] ==
        IF m > Len(kids) THEN << >>
        ELSE IF kind[kids[m]] = "Loop"
          THEN << Loop(kids[m]) >> \o from[m + 1]
        ELSE IF paired /\ m < Len(kids) /\ kind[kids[m + 1]] = "IfElse"
          THEN << IfElse(kids[m], kids[m + 1]) >> \o from[m + 2]
        ELSE << If(kids[m]) >> \o from[m + 1]
  IN  from[1]

(***************************************************************************)
(* The function in which block b > 0 is a branch or a loop body, as        *)
(* kind[b] says, of block parent[b].  The body of b ends with suffix[b].   *)
(***************************************************************************)
Shaped(n, parent, kind, paired, suffix) ==
  [tag  |-> [b \in 0 .. n |-> IF b = 0 THEN "Main" ELSE kind[b]],
   body |-> [b \in 0 .. n |-> Uses(Kids(n, parent, b), kind, paired) \o suffix[b]]]

NoSuffix(n) == [b \in 0 .. n |-> << >>]

\* Parents under which the blocks 1 .. n form trees rooted at the entry.
TreesOf(n) == { p \in [1 .. n -> 0 .. n - 1] : \A b \in 1 .. n : p[b] < b }

\* The loop distances of a tree, by their definition.
Distances(n, parent, kind) ==
  LET d[b \in 0 .. n] == CASE b = 0 -> -1
                           [] b > 0 /\ kind[b] = "Loop" -> 0
                           [] OTHER -> IF d[parent[b]] = -1 THEN -1 ELSE d[parent[b]] + 1
  IN  [b \in { b \in 0 .. n : d[b] # -1 } |-> d[b]]
=============================================================================
