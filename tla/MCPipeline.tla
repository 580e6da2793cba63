----------------------------- MODULE MCPipeline -----------------------------
(***************************************************************************)
(* Modules of one to three functions.  Trees of three and four blocks, one *)
(* with a Break at the end of any block, are compiled as they are; those   *)
(* of two blocks are also verified, edited and verified again.             *)
(***************************************************************************)
EXTENDS Pipeline, Shapes

\* Instructions whose code needs notes, a call that can be made direct, and one
\* that may have no code.
Noted == << OpNamed("LdGlobalFunc", "g"), Op("CallIndirect"), Op("IAdd"), OpOn("Bitcast", Ptr) >>

\* The blocks in breaks end with a Break, the entry with the noted code.
Tree(n, p, k, paired, breaks) ==
  Fresh(Shaped(n, p, k, paired,
    [b \in 0 .. n |-> (IF b = 0 THEN Noted ELSE << >>) \o (IF b \in breaks THEN << Op("Break") >> ELSE << >>)]))

Trees(n, breaks) ==
  { Tree(n, p, k, paired, s) : p \in TreesOf(n), k \in Kinds(n), paired \in BOOLEAN, s \in breaks }

SmallTrees == Trees(3, SUBSET (0 .. 3))
DeepTrees  == Trees(4, {{4}})
Editable   == Trees(2, SUBSET (1 .. 2))

\* A branch in a branch in a loop, which is edited too.
Chain == Fresh(Shaped(3, [b \in 1 .. 3 |-> b - 1], [b \in 1 .. 3 |-> IF b = 1 THEN "Loop" ELSE "IfElse"],
                      FALSE, [b \in 0 .. 3 |-> IF b = 3 THEN << Op("Break") >> ELSE << >>]))

\* Functions that the verifiers may refuse: a branch without a block, a cycle.
Irregular == { Fresh(Shaped(2, p, k, FALSE, NoSuffix(2))) : p \in [1 .. 2 -> 1 .. 3], k \in Kinds(2) }

Plain == Tree(1, [b \in 1 .. 1 |-> 0], [b \in 1 .. 1 |-> "Loop"], FALSE, {1})

AllModules ==
  { << f >> : f \in SmallTrees \cup DeepTrees \cup Editable \cup {Chain} }
    \cup { << Extern, Plain, f >> : f \in Irregular \cup {Plain} }

\* Instruction n of block b, with its metadata, is moved to the start or to the
\* end of block c.
Cut(f, b, n) == [f EXCEPT !.body[b] = RemoveAt(@, n), !.notes[b] = RemoveAt(@, n)]

Moved(f, b, n, c, start) ==
  LET i == << f.body[b][n] >>  m == << f.notes[b][n] >>  g == Cut(f, b, n)
  IN  IF start THEN [g EXCEPT !.body[c] = i \o @, !.notes[c] = m \o @]
               ELSE [g EXCEPT !.body[c] = @ \o i, !.notes[c] = @ \o m]

Moves(f) ==
  IF Cardinality(Blocks(f)) > 3 /\ f.body # Chain.body THEN {}
  ELSE UNION { UNION { { Moved(f, b, n, c, start) : c \in Blocks(f), start \in BOOLEAN }
                       : n \in 1 .. Len(f.body[b]) } : b \in Blocks(f) }
=============================================================================
