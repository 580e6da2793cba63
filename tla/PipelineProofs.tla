--------------------------- MODULE PipelineProofs ---------------------------
(***************************************************************************)
(* What holds whenever a module goes through the pipelines, however often  *)
(* it is verified and whatever a pass of the client's own makes of it: the *)
(* functions the emitter meets are regular and carry the metadata of their *)
(* last verification, and their code is what the emitter promises.         *)
(*                                                                         *)
(* The invariant says what every pass may rely on: what the passes before  *)
(* it have made of the functions they have visited.                        *)
(***************************************************************************)
EXTENDS Pipeline, ControlFlowProofs, SequenceTheorems

CodeProofs == INSTANCE EmitterProofs WITH fn <- Seen(This)

-----------------------------------------------------------------------------
(* What a pass that moves or removes instructions keeps *)

\* Every reference of g is one of f: in the same block, to the same block.
Embeds(f, g, m) ==
  /\ f.tag = g.tag
  /\ m \in [Positions(g) -> Positions(f)]
  /\ \A p \in Positions(g) : m[p].block = p.block /\ RefAt(g, p) = RefAt(f, m[p])
  /\ \A p, q \in Positions(g) : m[p] = m[q] => p = q

Covers(f, g, m) == \A q \in Positions(f) : \E p \in Positions(g) : m[p] = q

\* f and g have the same blocks, and the same blocks are within one another.
SameTree(f, g) == f.tag = g.tag /\ \A b, c : IsParent(f, b, c) <=> IsParent(g, b, c)

LEMMA EmbedKeeps ==
  ASSUME NEW f, NEW g, NEW m, Embeds(f, g, m)
  PROVE  /\ WellFormed(f) => WellFormed(g)
         /\ \A b, c : IsParent(g, b, c) => IsParent(f, b, c)
         /\ Covers(f, g, m) => SameTree(f, g)
<1>1. ASSUME NEW b, NEW c, IsParent(g, b, c)
      PROVE  IsParent(f, b, c)
  BY <1>1 DEF Embeds, IsParent
<1>2. ASSUME Covers(f, g, m), NEW b, NEW c, IsParent(f, b, c)
      PROVE  IsParent(g, b, c)
  <2>1. PICK q \in Positions(f) : q.block = b /\ RefAt(f, q).block = c
    BY <1>2 DEF IsParent
  <2>2. PICK p \in Positions(g) : m[p] = q
    BY <1>2 DEF Covers
  <2> QED
    BY <2>1, <2>2 DEF Embeds, IsParent
<1>3. ASSUME WellFormed(f) PROVE WellFormed(g)
  <2>1. \A p \in Positions(g) : m[p] \in Positions(f) /\ RefAt(g, p) = RefAt(f, m[p])
    BY DEF Embeds
  <2>2. EntryIsMain(g) /\ RefsResolve(g) /\ EntryUnused(g)
    BY <1>3, <2>1 DEF Embeds, WellFormed, EntryIsMain, RefsResolve, EntryUnused, Blocks
  <2>3. SingleUse(g)
    <3> SUFFICES ASSUME NEW p \in Positions(g), NEW q \in Positions(g), RefAt(g, p).block = RefAt(g, q).block
                 PROVE  p = q
      BY DEF SingleUse
    <3>1. m[p] = m[q]
      BY <1>3, <2>1 DEF WellFormed, SingleUse
    <3> QED
      BY <3>1 DEF Embeds
  <2> QED
    BY <2>2, <2>3 DEF WellFormed
<1> QED
  BY <1>1, <1>2, <1>3 DEF SameTree, Embeds

\* Functions of the same code embed in one another.
LEMMA SameCode ==
  ASSUME NEW f, NEW g, f.tag = g.tag, f.body = g.body
  PROVE  /\ Positions(f) = Positions(g) /\ \A p : RefAt(f, p) = RefAt(g, p)
         /\ IsFunction(f) <=> IsFunction(g)
         /\ WellFormed(f) <=> WellFormed(g)
         /\ Corrected(f) <=> Corrected(g)
         /\ SameTree(f, g)
<1>1. Blocks(f) = Blocks(g)
  BY DEF Blocks
<1>2. Positions(f) = Positions(g)
  BY <1>1 DEF Positions
<1>3. \A p : RefAt(f, p) = RefAt(g, p)
  BY DEF RefAt
<1>4. \A b, c : IsParent(f, b, c) <=> IsParent(g, b, c)
  BY <1>2, <1>3 DEF IsParent
<1>5. IsFunction(f) <=> IsFunction(g)
  BY <1>1 DEF IsFunction
<1>6. Corrected(f) <=> Corrected(g)
  BY <1>1 DEF Corrected
<1>7. WellFormed(f) <=> WellFormed(g)
  BY <1>1, <1>2, <1>3 DEF WellFormed, EntryIsMain, RefsResolve, SingleUse, EntryUnused
<1> QED
  BY <1>2, <1>3, <1>4, <1>5, <1>6, <1>7 DEF SameTree

Regular(f) == WellFormed(f) /\ ~Knotted(f) /\ \A c \in OfTag(f, "IfElse") : ~Orphan(f, c)

\* The contract of the control-flow verifier speaks of the same things.
LEMMA AcceptsRegular ==
  /\ \A f : ControlFlowPass!Accepts(f) <=> Regular(f)
  /\ \A f : RefsResolve(f) => ~ControlFlowPass!Dangling(f)
  /\ \A f : ControlFlowPass!HasOrphans(f) <=> \E c \in OfTag(f, "IfElse") : Orphan(f, c)
<1>1. \A i : ControlFlowPass!Refs(i) = Refs(i)
  BY DEF ControlFlowPass!Refs, ControlFlowPass!Ref, ControlFlowPass!NoBlock, Refs, Ref, NoBlock
<1>2. \A f : ControlFlowPass!Blocks(f) = Blocks(f)
  BY DEF ControlFlowPass!Blocks, Blocks
<1>3. \A f : ControlFlowPass!Positions(f) = Positions(f)
  BY <1>1, <1>2 DEF ControlFlowPass!Positions, Positions, ControlFlowPass!Pos, Pos
<1>4. \A f, p : ControlFlowPass!RefAt(f, p) = RefAt(f, p)
  BY <1>1 DEF ControlFlowPass!RefAt, RefAt
<1>5. \A f : ControlFlowPass!WellFormed(f) <=> WellFormed(f)
  BY <1>2, <1>3, <1>4
  DEF ControlFlowPass!WellFormed, ControlFlowPass!EntryIsMain, ControlFlowPass!RefsResolve,
      ControlFlowPass!SingleUse, ControlFlowPass!EntryUnused, ControlFlowPass!Entry,
      WellFormed, EntryIsMain, RefsResolve, SingleUse, EntryUnused, Entry
<1>6. \A f, b, c : ControlFlowPass!IsParent(f, b, c) <=> IsParent(f, b, c)
  BY <1>3, <1>4 DEF ControlFlowPass!IsParent, IsParent
<1>7. \A f, t : ControlFlowPass!OfTag(f, t) = OfTag(f, t)
  BY <1>2 DEF ControlFlowPass!OfTag, OfTag
<1>8. \A f : ControlFlowPass!Knotted(f) <=> Knotted(f)
  BY <1>6, <1>7 DEF ControlFlowPass!Knotted, ControlFlowPass!Knot, Knotted, Knot
<1>9. \A f : ControlFlowPass!HasOrphans(f) <=> \E c \in OfTag(f, "IfElse") : Orphan(f, c)
  BY <1>2, <1>6, <1>7 DEF ControlFlowPass!HasOrphans, ControlFlowPass!Orphan, Orphan
<1>10. \A f : RefsResolve(f) => ~ControlFlowPass!Dangling(f)
  BY <1>2, <1>3, <1>4 DEF ControlFlowPass!Dangling, RefsResolve
<1> QED
  BY <1>5, <1>8, <1>9, <1>10 DEF ControlFlowPass!Accepts, Regular

\* In the same tree there are the same cycles, orphans and distances.
LEMMA TreeKeeps ==
  ASSUME NEW f, NEW g, SameTree(f, g)
  PROVE  /\ Knotted(f) <=> Knotted(g)
         /\ \A c : Orphan(f, c) <=> Orphan(g, c)
         /\ \A d : LoopDistances(f, d) <=> LoopDistances(g, d)
         /\ \A t : OfTag(f, t) = OfTag(g, t)
<1>1. Blocks(f) = Blocks(g) /\ f.tag = g.tag /\ \A b, c : IsParent(f, b, c) <=> IsParent(g, b, c)
  BY DEF Blocks, SameTree
<1>2. \A t : OfTag(f, t) = OfTag(g, t)
  BY <1>1 DEF OfTag
<1>3. \A S : Knot(f, S) <=> Knot(g, S)
  BY <1>1 DEF Knot
<1>4. Knotted(f) <=> Knotted(g)
  BY <1>2, <1>3 DEF Knotted
<1>5. \A c : Orphan(f, c) <=> Orphan(g, c)
  BY <1>1 DEF Orphan
<1>6. \A d : LoopDistances(f, d) <=> LoopDistances(g, d)
  BY <1>1, <1>2 DEF LoopDistances
<1> QED
  BY <1>2, <1>4, <1>5, <1>6

LEMMA LoopsOfRegular ==
  ASSUME NEW f, Regular(f)
  PROVE  /\ LoopDistances(f, InnermostLoops(f)) /\ InLoops(f) \subseteq Blocks(f)
         /\ \A b \in InLoops(f) : InnermostLoops(f)[b] \in Nat
<1>1. LoopDistances(f, InnermostLoops(f))
  BY InnermostLoopsAreRight DEF Regular, WellFormed
<1>2. \A b \in DOMAIN InnermostLoops(f) : InnermostLoops(f)[b] \in Nat
  BY <1>1, DistancesAreUnique DEF Regular, WellFormed
<1>3. DOMAIN InnermostLoops(f) \subseteq Blocks(f)
  BY <1>1 DEF LoopDistances, OfTag
<1> QED
  BY <1>1, <1>2, <1>3 DEF InLoops

LEMMA SameLoops ==
  ASSUME NEW f, NEW g, Regular(f), Regular(g), SameTree(f, g)
  PROVE  InLoops(g) = InLoops(f) /\ \A b \in InLoops(f) : InnermostLoops(g)[b] = InnermostLoops(f)[b]
<1>1. LoopDistances(f, InnermostLoops(f)) /\ LoopDistances(f, InnermostLoops(g))
  BY LoopsOfRegular, TreeKeeps
<1> QED
  BY <1>1, DistancesAreUnique DEF Regular, WellFormed, InLoops

-----------------------------------------------------------------------------
(* Metadata *)

\* What is inserted is what is retrieved, and nothing else changes.
LEMMA Newest ==
  ASSUME NEW meta \in Seq(Nodes), NEW key, NEW value, Node(key, value) \in Nodes
  PROVE  /\ InsertMeta(meta, key, value) \in Seq(Nodes)
         /\ Has(InsertMeta(meta, key, value), key)
         /\ Retrieve(InsertMeta(meta, key, value), key) = value
<1> DEFINE new == InsertMeta(meta, key, value)
           S == { n \in 1 .. Len(new) : new[n].key = key }
<1>1. new \in Seq(Nodes) /\ Len(new) = Len(meta) + 1 /\ new[1] = Node(key, value)
  <2>1. << Node(key, value) >> \in Seq(Nodes) /\ Len(<< Node(key, value) >>) = 1
        /\ << Node(key, value) >>[1] = Node(key, value)
    OBVIOUS
  <2>2. 1 \in 1 .. 1 + Len(meta)
    OBVIOUS
  <2> HIDE DEF Node
  <2> QED
    BY <2>1, <2>2, ConcatProperties DEF InsertMeta
<1>2. Node(key, value).key = key /\ Node(key, value).value = value
  BY DEF Node
<1> HIDE DEF new
<1>3. 1 \in S /\ S \subseteq Nat \ {0}
  BY <1>1, <1>2
<1>4. Min(S) = 1
  <2> HIDE DEF S
  <2>1. \A x \in S : (\A y \in S : x <= y) <=> x = 1
    BY <1>3
  <2> QED
    BY <1>3, <2>1 DEF Min
<1>5. Has(new, key)
  BY <1>3 DEF Has
<1>6. Retrieve(new, key) = value
  BY <1>1, <1>2, <1>4 DEF Retrieve
<1> QED
  BY <1>1, <1>5, <1>6 DEF new

-----------------------------------------------------------------------------
(* The correction pass *)

Cut(f) ==
  Local(f.tag, [b \in Blocks(f) |-> SubSeq(f.body[b], 1, Kept(f.body[b]))],
        f.meta, [b \in Blocks(f) |-> SubSeq(f.notes[b], 1, Kept(f.body[b]))])

LEMMA CorrectCuts == Correct => Becomes(Cut(This)) /\ passed' = passed
BY DEF Correct, Cut

LEMMA KeptFacts ==
  ASSUME NEW body, Len(body) \in Nat
  PROVE  /\ Kept(body) \in 0 .. Len(body)
         /\ \A n \in 1 .. Kept(body) - 1 : ~IsDiverging(body[n])
         /\ (\A n \in 1 .. Len(body) - 1 : ~IsDiverging(body[n])) => Kept(body) = Len(body)
<1> DEFINE D == { n \in 1 .. Len(body) : IsDiverging(body[n]) }
<1>1. Kept(body) = IF D = {} THEN Len(body) ELSE Min(D)
  BY DEF Kept
<1>2. CASE D = {}
  <2>1. Kept(body) = Len(body)
    BY <1>1, <1>2
  <2>2. \A n \in 1 .. Len(body) - 1 : n \in 1 .. Len(body)
    OBVIOUS
  <2>3. \A n \in 1 .. Len(body) : ~IsDiverging(body[n])
    BY <1>2
  <2> QED
    BY <2>1, <2>2, <2>3
<1>3. CASE D # {}
  <2>1. PICK m \in D : \A k \in D : m <= k
    <3>1. D \in SUBSET Nat
      OBVIOUS
    <3> HIDE DEF D
    <3> QED
      BY <1>3, <3>1, LeastNumber
  <2>2. \A x \in D : (\A y \in D : x <= y) <=> x = m
    BY <2>1
  <2>3. Min(D) = m
    <3> HIDE DEF D
    <3> QED
      BY <2>1, <2>2 DEF Min
  <2>4. Kept(body) = m /\ m \in 1 .. Len(body) /\ IsDiverging(body[m])
    BY <1>1, <1>3, <2>3
  <2>5. ASSUME NEW n \in 1 .. m - 1 PROVE ~IsDiverging(body[n])
    <3>1. n \in 1 .. Len(body) /\ ~ (m <= n)
      BY <2>4
    <3> QED
      BY <2>1, <3>1
  <2>6. m \notin 1 .. Len(body) - 1 => m = Len(body)
    BY <2>4
  <2> QED
    BY <2>4, <2>5, <2>6
<1> QED
  BY <1>2, <1>3

-----------------------------------------------------------------------------
(* The shape of a function *)

Instrs(f) == UNION { ToSet(f.body[b]) : b \in Blocks(f) }

\* A sequence is one of its own elements.
LEMMA OwnElements ==
  ASSUME NEW S, NEW s \in Seq(S), NEW T, ToSet(s) \subseteq T
  PROVE  s \in Seq(T)
<1>1. Len(s) \in Nat /\ s = [n \in 1 .. Len(s) |-> s[n]]
  OBVIOUS
<1>2. \A n \in 1 .. Len(s) : s[n] \in T
  BY DEF ToSet
<1> QED
  BY <1>1, <1>2, SeqDef

LEMMA LocalFields ==
  ASSUME NEW tag, NEW body, NEW meta, NEW notes
  PROVE  LET f == Local(tag, body, meta, notes) IN
         /\ f.kind = "local" /\ f.tag = tag /\ f.body = body /\ f.meta = meta /\ f.notes = notes
         /\ \A m : [f EXCEPT !.meta = m] = Local(tag, body, m, notes)
         /\ \A n : [f EXCEPT !.notes = n] = Local(tag, body, meta, n)
         /\ f = Local(f.tag, f.body, f.meta, f.notes)
BY DEF Local

LEMMA ShapeFacts ==
  ASSUME NEW f, IsLocalFunction(f)
  PROVE  /\ f.kind = "local" /\ f # Extern /\ IsFunction(f)
         /\ f.body \in [Blocks(f) -> Seq(Instrs(f))]
         /\ f.meta \in [Blocks(f) -> Seq(Nodes)] /\ f.notes \in [Blocks(f) -> Seq(Seq(Nodes))]
         /\ \A b \in Blocks(f) :
              /\ f.body[b] \in Seq(Instrs(f)) /\ Len(f.body[b]) \in Nat
              /\ f.notes[b] \in Seq(Seq(Nodes)) /\ Len(f.notes[b]) = Len(f.body[b])
              /\ \A n \in 1 .. Len(f.body[b]) : f.notes[b][n] \in Seq(Nodes)
<1>1. f = Local(f.tag, f.body, f.meta, f.notes)
  BY DEF IsLocalFunction
<1>2. f.kind = "local" /\ f # Extern
  BY <1>1 DEF Local, Extern
<1>3. /\ f.body \in [Blocks(f) -> Seq(Instrs(f))] /\ IsFunction(f)
      /\ f.meta \in [Blocks(f) -> Seq(Nodes)] /\ f.notes \in [Blocks(f) -> Seq(Seq(Nodes))]
      /\ \A b \in Blocks(f) : Len(f.notes[b]) = Len(f.body[b])
  BY DEF IsLocalFunction, Instrs
<1>4. \A b \in Blocks(f) : f.body[b] \in Seq(Instrs(f)) /\ f.notes[b] \in Seq(Seq(Nodes))
  BY <1>3
<1> QED
  BY <1>2, <1>3, <1>4

LEMMA MakesFunction ==
  ASSUME NEW tag, NEW body, NEW meta, NEW notes, IsFunction(Local(tag, body, meta, notes)),
         body = [b \in DOMAIN tag |-> body[b]], meta \in [DOMAIN tag -> Seq(Nodes)],
         notes = [b \in DOMAIN tag |-> notes[b]],
         \A b \in DOMAIN tag : /\ \E S : body[b] \in Seq(S)
                               /\ notes[b] \in Seq(Seq(Nodes)) /\ Len(notes[b]) = Len(body[b])
  PROVE  IsLocalFunction(Local(tag, body, meta, notes))
<1> DEFINE f == Local(tag, body, meta, notes)
<1>1. f.tag = tag /\ f.body = body /\ f.meta = meta /\ f.notes = notes
      /\ f = Local(f.tag, f.body, f.meta, f.notes)
  BY LocalFields
<1> HIDE DEF f
<1>2. Blocks(f) = DOMAIN tag
  BY <1>1 DEF Blocks
<1>3. \A b \in DOMAIN tag : ToSet(body[b]) \subseteq Instrs(f)
  BY <1>1, <1>2 DEF Instrs
<1>4. \A b \in DOMAIN tag : body[b] \in Seq(Instrs(f))
  BY <1>3, OwnElements
<1>5. body \in [DOMAIN tag -> Seq(Instrs(f))] /\ notes \in [DOMAIN tag -> Seq(Seq(Nodes))]
  BY <1>4
<1>6. IsLocalFunction(f)
  BY <1>1, <1>2, <1>5 DEF IsLocalFunction, Instrs, f
<1> QED
  BY <1>6 DEF f

-----------------------------------------------------------------------------
(* What the correction pass leaves *)

LEMMA CutBlock ==
  ASSUME NEW S, NEW s \in Seq(S), NEW k \in 0 .. Len(s)
  PROVE  /\ SubSeq(s, 1, k) \in Seq(S) /\ Len(SubSeq(s, 1, k)) = k
         /\ \A n \in 1 .. k : SubSeq(s, 1, k)[n] = s[n]
         /\ k = Len(s) => SubSeq(s, 1, k) = s
OBVIOUS

LEMMA CutFacts ==
  ASSUME NEW f, IsLocalFunction(f)
  PROVE  /\ IsLocalFunction(Cut(f)) /\ Cut(f).tag = f.tag /\ Cut(f).meta = f.meta
         /\ Corrected(Cut(f))
         /\ Corrected(f) => Cut(f) = f
         /\ \A p : p \in Positions(Cut(f)) <=> p \in Positions(f) /\ p.ip <= Kept(f.body[p.block])
         /\ Embeds(f, Cut(f), [p \in Positions(Cut(f)) |-> p])
<1> DEFINE k(b) == Kept(f.body[b])
           body == [b \in Blocks(f) |-> SubSeq(f.body[b], 1, k(b))]
           notes == [b \in Blocks(f) |-> SubSeq(f.notes[b], 1, k(b))]
           g == Local(f.tag, body, f.meta, notes)
<1>1. g = Cut(f)
  BY DEF Cut
<1>2. /\ IsFunction(f) /\ f.meta \in [Blocks(f) -> Seq(Nodes)] /\ f.body \in [Blocks(f) -> Seq(Instrs(f))]
      /\ f.notes \in [Blocks(f) -> Seq(Seq(Nodes))]
      /\ \A b \in Blocks(f) : /\ f.body[b] \in Seq(Instrs(f)) /\ Len(f.body[b]) \in Nat
                               /\ f.notes[b] \in Seq(Seq(Nodes)) /\ Len(f.notes[b]) = Len(f.body[b])
  BY ShapeFacts
<1>3. /\ g.tag = f.tag /\ g.body = body /\ g.meta = f.meta /\ g.notes = notes /\ Blocks(g) = Blocks(f)
  <2> HIDE DEF body, notes
  <2> QED
    BY DEF Local, Blocks
<1>4. ASSUME NEW b \in Blocks(f)
      PROVE  /\ k(b) \in 0 .. Len(f.body[b])
             /\ body[b] \in Seq(Instrs(f)) /\ Len(body[b]) = k(b)
             /\ \A n \in 1 .. k(b) : body[b][n] = f.body[b][n]
             /\ notes[b] \in Seq(Seq(Nodes)) /\ Len(notes[b]) = k(b)
             /\ k(b) = Len(f.body[b]) => body[b] = f.body[b] /\ notes[b] = f.notes[b]
  <2>1. k(b) \in 0 .. Len(f.body[b]) /\ k(b) \in 0 .. Len(f.notes[b])
    BY <1>2, KeptFacts
  <2>2. body[b] = SubSeq(f.body[b], 1, k(b)) /\ notes[b] = SubSeq(f.notes[b], 1, k(b))
    OBVIOUS
  <2> HIDE DEF body, notes, k
  <2>3. f.body[b] \in Seq(Instrs(f)) /\ f.notes[b] \in Seq(Seq(Nodes)) /\ Len(f.notes[b]) = Len(f.body[b])
    BY <1>2
  <2>4. /\ body[b] \in Seq(Instrs(f)) /\ Len(body[b]) = k(b)
        /\ \A n \in 1 .. k(b) : body[b][n] = f.body[b][n]
        /\ k(b) = Len(f.body[b]) => body[b] = f.body[b]
    BY <2>1, <2>2, <2>3, CutBlock
  <2>5. /\ notes[b] \in Seq(Seq(Nodes)) /\ Len(notes[b]) = k(b)
        /\ k(b) = Len(f.notes[b]) => notes[b] = f.notes[b]
    BY <2>1, <2>2, <2>3, CutBlock
  <2> QED
    BY <2>1, <2>3, <2>4, <2>5
<1>5. ASSUME NEW b \in Blocks(f)
      PROVE  /\ \A n \in 1 .. k(b) - 1 : ~IsDiverging(f.body[b][n])
             /\ (\A n \in 1 .. Len(f.body[b]) - 1 : ~IsDiverging(f.body[b][n])) => k(b) = Len(f.body[b])
  BY <1>2, KeptFacts
<1>6. body = [b \in Blocks(f) |-> body[b]] /\ notes = [b \in Blocks(f) |-> notes[b]]
  OBVIOUS
<1> HIDE DEF body, notes, k
<1>7. \A b \in Blocks(f) : \A n \in 1 .. k(b) : n \in 1 .. Len(f.body[b])
  BY <1>2, <1>4
<1>8. IsFunction(g)
  <2> DEFINE RefsAre(i) == /\ Len(Refs(i)) \in Nat
                           /\ \A a \in 1 .. Len(Refs(i)) : Refs(i)[a].block \in Nat /\ Refs(i)[a].tag \in Tags
  <2>1. g.tag \in [Blocks(g) -> Tags] /\ Blocks(g) \subseteq Nat /\ Entry \in Blocks(g)
    BY <1>2, <1>3 DEF IsFunction
  <2>2. DOMAIN g.body = Blocks(g)
    BY <1>3, <1>6
  <2>3. ASSUME NEW b \in Blocks(g)
        PROVE  /\ Len(g.body[b]) \in Nat
               /\ \A n \in 1 .. Len(g.body[b]) : RefsAre(g.body[b][n])
    <3>1. b \in Blocks(f) /\ g.body[b] = body[b]
      BY <1>3
    <3>2. /\ Len(body[b]) = k(b) /\ k(b) \in 0 .. Len(f.body[b]) /\ Len(f.body[b]) \in Nat
          /\ \A n \in 1 .. k(b) : body[b][n] = f.body[b][n]
      BY <1>2, <1>4, <3>1
    <3>3. \A n \in 1 .. k(b) : RefsAre(f.body[b][n])
      BY <1>2, <1>7, <3>1 DEF IsFunction
    <3>4. k(b) \in Nat
      BY <3>2
    <3> HIDE DEF RefsAre
    <3> QED
      BY <3>1, <3>2, <3>3, <3>4
  <2> HIDE DEF g
  <2> QED
    BY <2>1, <2>2, <2>3 DEF IsFunction
<1>9. IsLocalFunction(g)
  BY <1>2, <1>4, <1>6, <1>8, MakesFunction DEF Blocks
<1>10. Corrected(g)
  <2> SUFFICES ASSUME NEW b \in Blocks(f), NEW n \in 1 .. k(b) - 1 PROVE ~IsDiverging(body[b][n])
    BY <1>3, <1>4 DEF Corrected
  <2>1. n \in 1 .. k(b)
    BY <1>4
  <2> QED
    BY <1>4, <1>5, <2>1
<1>11. ASSUME Corrected(f) PROVE g = f
  <2>1. \A b \in Blocks(f) : k(b) = Len(f.body[b])
    BY <1>5, <1>11 DEF Corrected
  <2>2. \A b \in Blocks(f) : body[b] = f.body[b] /\ notes[b] = f.notes[b]
    BY <1>4, <2>1
  <2>3. body = f.body /\ notes = f.notes
    BY <1>2, <1>6, <2>2
  <2>4. f = Local(f.tag, f.body, f.meta, f.notes)
    BY DEF IsLocalFunction
  <2> QED
    BY <2>3, <2>4
<1>12. ASSUME NEW p
       PROVE  /\ p \in Positions(g) <=> p \in Positions(f) /\ p.ip <= k(p.block)
              /\ p \in Positions(g) => RefAt(g, p) = RefAt(f, p)
  <2>1. ASSUME p \in Positions(g)
        PROVE  p \in Positions(f) /\ p.ip <= k(p.block) /\ RefAt(g, p) = RefAt(f, p)
    <3>1. PICK b \in Blocks(g) : \E n \in 1 .. Len(g.body[b]) : \E a \in 1 .. Len(Refs(g.body[b][n])) : p = Pos(b, n, a)
      BY <2>1, PositionsDef
    <3>2. PICK n \in 1 .. Len(g.body[b]) : \E a \in 1 .. Len(Refs(g.body[b][n])) : p = Pos(b, n, a)
      BY <3>1
    <3>3. PICK a \in 1 .. Len(Refs(g.body[b][n])) : p = Pos(b, n, a)
      BY <3>2
    <3>4. n \in 1 .. k(b) /\ b \in Blocks(f) /\ g.body[b][n] = f.body[b][n] /\ n <= k(b)
      BY <1>3, <1>4
    <3>5. n \in 1 .. Len(f.body[b]) /\ a \in 1 .. Len(Refs(f.body[b][n]))
      BY <1>7, <3>4
    <3>6. p \in Positions(f)
      BY <3>3, <3>4, <3>5, PositionsDef
    <3>7. p.block = b /\ p.ip = n /\ p.arm = a
      BY <3>3 DEF Pos
    <3> QED
      BY <3>4, <3>6, <3>7 DEF RefAt
  <2>2. ASSUME p \in Positions(f), p.ip <= k(p.block)
        PROVE  p \in Positions(g)
    <3>1. /\ p.block \in Blocks(f) /\ p.ip \in 1 .. Len(f.body[p.block])
          /\ p.arm \in 1 .. Len(Refs(f.body[p.block][p.ip])) /\ p = Pos(p.block, p.ip, p.arm)
      BY <1>2, <2>2, PositionFacts
    <3>2. p.ip \in 1 .. k(p.block)
      BY <1>2, <1>4, <2>2, <3>1
    <3>3. p.ip \in 1 .. Len(g.body[p.block]) /\ g.body[p.block][p.ip] = f.body[p.block][p.ip]
      BY <1>3, <1>4, <3>1, <3>2
    <3> QED
      BY <1>3, <3>1, <3>3, PositionsDef
  <2> QED
    BY <2>1, <2>2
<1>13. Embeds(f, g, [p \in Positions(g) |-> p])
  BY <1>3, <1>12 DEF Embeds
<1> HIDE DEF g
<1> QED
  BY <1>1, <1>3, <1>9, <1>10, <1>11, <1>12, <1>13 DEF k

\* The references of tag IfElse are those of IfElse instructions.
LEMMA RefsOfIfElse ==
  ASSUME NEW i
  PROVE  /\ i.op = "IfElse" => /\ Len(Refs(i)) \in {1, 2}
                              /\ Refs(i)[1].block = i.then /\ Refs(i)[1].tag = "IfElse"
         /\ \A a \in 1 .. Len(Refs(i)) : Refs(i)[a].tag = "IfElse" => i.op = "IfElse"
         /\ i.op \notin {"IfElse", "Loop"} => Refs(i) = << >>
<1>1. CASE i.op = "IfElse"
  <2>1. CASE i.else = NoBlock
    <3>1. Refs(i) = << Ref(i.then, "IfElse") >>
      BY <1>1, <2>1 DEF Refs
    <3> QED
      BY <1>1, <3>1 DEF Ref
  <2>2. CASE i.else # NoBlock
    <3>1. Refs(i) = << Ref(i.then, "IfElse"), Ref(i.else, "IfElse") >>
      BY <1>1, <2>2 DEF Refs
    <3> QED
      BY <1>1, <3>1 DEF Ref
  <2> QED
    BY <2>1, <2>2
<1>2. CASE i.op = "Loop"
  <2>1. Refs(i) = << Ref(i.block, "Loop") >>
    BY <1>2 DEF Refs
  <2>2. Len(Refs(i)) = 1 /\ Refs(i)[1].tag = "Loop"
    BY <2>1 DEF Ref
  <2>3. \A a \in 1 .. Len(Refs(i)) : a = 1
    BY <2>2
  <2> QED
    BY <1>2, <2>2, <2>3
<1>3. CASE i.op \notin {"IfElse", "Loop"}
  <2>1. Refs(i) = << >>
    BY <1>3 DEF Refs
  <2> QED
    BY <1>3, <2>1
<1> QED
  BY <1>1, <1>2, <1>3

LEMMA CutRegular ==
  ASSUME NEW f, IsLocalFunction(f), Regular(f)
  PROVE  Regular(Cut(f)) <=> ~UnreachableBranch(f)
<1> DEFINE g == Cut(f)
<1>1. /\ IsFunction(f) /\ g.tag = f.tag /\ Blocks(g) = Blocks(f)
      /\ \A p : p \in Positions(g) <=> p \in Positions(f) /\ p.ip <= Kept(f.body[p.block])
      /\ Embeds(f, g, [p \in Positions(g) |-> p])
  BY CutFacts, ShapeFacts DEF Blocks
<1> HIDE DEF g
<1>2. /\ WellFormed(g) /\ WellFormed(f) /\ ~Knotted(f)
      /\ \A b, c : IsParent(g, b, c) => IsParent(f, b, c)
  BY <1>1, EmbedKeeps DEF Regular
<1>3. \A t : OfTag(g, t) = OfTag(f, t)
  BY <1>1 DEF OfTag
<1>4. ~Knotted(g)
  BY <1>2, <1>3 DEF Knotted, Knot
<1>5. \A p \in Positions(g) : RefAt(g, p) = RefAt(f, p)
  BY <1>1 DEF Embeds
<1>6. ASSUME ~UnreachableBranch(f), NEW c \in OfTag(f, "IfElse")
      PROVE  ~Orphan(g, c)
  <2>1. ~Orphan(f, c) /\ f.tag[c] = "IfElse"
    BY DEF Regular, OfTag
  <2>2. PICK b \in Blocks(f) : IsParent(f, b, c)
    BY <2>1 DEF Orphan
  <2>3. PICK p \in Positions(f) : p.block = b /\ RefAt(f, p).block = c
    BY <2>2 DEF IsParent
  <2>4. /\ p.ip \in 1 .. Len(f.body[b]) /\ p.arm \in 1 .. Len(Refs(f.body[b][p.ip]))
        /\ RefAt(f, p) = Refs(f.body[b][p.ip])[p.arm]
    BY <1>1, <2>3, PositionFacts DEF RefAt
  <2>5. RefAt(f, p).tag = "IfElse"
    BY <1>2, <2>1, <2>3 DEF WellFormed, RefsResolve
  <2>6. f.body[b][p.ip].op = "IfElse"
    BY <2>4, <2>5, RefsOfIfElse
  <2>7. p.ip <= Kept(f.body[b])
    <3>1. Len(f.body[b]) \in Nat
      BY <1>1 DEF IsFunction
    <3>2. Kept(f.body[b]) \in 0 .. Len(f.body[b])
      BY <3>1, KeptFacts
    <3>3. p.ip \notin Kept(f.body[b]) + 1 .. Len(f.body[b])
      BY <1>6, <2>6 DEF UnreachableBranch
    <3> QED
      BY <2>4, <3>1, <3>2, <3>3
  <2>8. p \in Positions(g) /\ RefAt(g, p).block = c
    BY <1>1, <1>5, <2>3, <2>7
  <2>9. IsParent(g, b, c)
    BY <2>3, <2>8 DEF IsParent
  <2> QED
    BY <1>1, <2>9 DEF Orphan
<1>7. ASSUME UnreachableBranch(f)
      PROVE  \E c \in OfTag(f, "IfElse") : Orphan(g, c)
  <2>1. PICK b \in Blocks(f) : \E n \in Kept(f.body[b]) + 1 .. Len(f.body[b]) : f.body[b][n].op = "IfElse"
    BY <1>7 DEF UnreachableBranch
  <2>2. PICK n \in Kept(f.body[b]) + 1 .. Len(f.body[b]) : f.body[b][n].op = "IfElse"
    BY <2>1
  <2>3. Len(f.body[b]) \in Nat /\ Kept(f.body[b]) \in 0 .. Len(f.body[b])
    BY <1>1, KeptFacts DEF IsFunction
  <2>4. n \in 1 .. Len(f.body[b]) /\ ~ (n <= Kept(f.body[b]))
    BY <2>3
  <2>5. /\ 1 \in 1 .. Len(Refs(f.body[b][n])) /\ Refs(f.body[b][n])[1].tag = "IfElse"
    BY <2>2, RefsOfIfElse
  <2> DEFINE p == Pos(b, n, 1)  c == RefAt(f, p).block
  <2>6. p \in Positions(f) /\ p.block = b /\ p.ip = n /\ RefAt(f, p).tag = "IfElse"
    BY <2>4, <2>5, PositionsDef DEF Pos, RefAt
  <2>7. c \in OfTag(f, "IfElse")
    BY <1>2, <2>6 DEF WellFormed, RefsResolve, OfTag
  <2>8. p \notin Positions(g)
    BY <1>1, <2>4, <2>6
  <2>9. ASSUME NEW q \in Positions(g), RefAt(g, q).block = c
        PROVE  FALSE
    <3>1. q \in Positions(f) /\ RefAt(f, q).block = c
      BY <1>1, <1>5, <2>9
    <3>2. q = p
      BY <1>2, <2>6, <3>1 DEF WellFormed, SingleUse
    <3> QED
      BY <2>8, <3>2
  <2>10. Orphan(g, c)
    BY <2>9 DEF Orphan, IsParent
  <2> QED
    BY <2>7, <2>10
<1>8. Regular(g) <=> ~UnreachableBranch(f)
  BY <1>2, <1>3, <1>4, <1>6, <1>7 DEF Regular
<1> QED
  BY <1>8 DEF g

-----------------------------------------------------------------------------
(* The optimiser: instructions that are left keep their order *)

Rank(S, n) == Cardinality({ m \in S : m <= n })

LEMMA InOrderFacts ==
  ASSUME NEW l \in Nat, NEW S \in SUBSET (1 .. l)
  PROVE  /\ InOrder(S) \in Seq(S)
         /\ \A j, k \in 1 .. Len(InOrder(S)) : j < k => InOrder(S)[j] < InOrder(S)[k]
         /\ \A n \in S : \E k \in 1 .. Len(InOrder(S)) : InOrder(S)[k] = n
<1> DEFINE c == Cardinality(S)  B(n) == { m \in S : m <= n }
           f == [n \in S |-> Rank(S, n)]
           o == [k \in 1 .. c |-> CHOOSE n \in S : Rank(S, n) = k]
<1>1. IsFiniteSet(S) /\ c \in Nat
  <2>1. 1 \in Int /\ l \in Int
    OBVIOUS
  <2>2. IsFiniteSet(1 .. l)
    BY <2>1, FS_Interval
  <2> QED
    BY <2>2, FS_Subset, FS_CardinalityType
<1>2. ASSUME NEW n \in S
      PROVE  IsFiniteSet(B(n)) /\ Rank(S, n) \in 1 .. c /\ Rank(S, n) \in Nat
  <2>1. B(n) \in SUBSET S /\ n \in B(n)
    OBVIOUS
  <2>2. IsFiniteSet(B(n)) /\ Cardinality(B(n)) <= c
    BY <1>1, <2>1, FS_Subset
  <2>3. Cardinality(B(n)) \in Nat /\ Cardinality(B(n)) # 0
    <3> HIDE DEF B
    <3> QED
      BY <2>1, <2>2, FS_CardinalityType, FS_EmptySet
  <2> QED
    BY <1>1, <2>2, <2>3 DEF Rank
<1>3. ASSUME NEW m \in S, NEW n \in S, m < n
      PROVE  Rank(S, m) < Rank(S, n)
  <2>1. B(m) \in SUBSET B(n) /\ n \in B(n) /\ n \notin B(m)
    <3>1. m \in Nat /\ n \in Nat /\ ~ (n <= m) /\ n <= n
      BY <1>3
    <3>2. \A x \in S : x \in Nat /\ (x <= m => x <= n)
      BY <1>3, <3>1
    <3> QED
      BY <3>1, <3>2
  <2>2. IsFiniteSet(B(n)) /\ Rank(S, m) \in Nat /\ Rank(S, n) \in Nat
    <3> HIDE DEF B, c
    <3> QED
      BY <1>2
  <2>3. Cardinality(B(m)) <= Cardinality(B(n)) /\ Cardinality(B(n)) # Cardinality(B(m))
    <3> HIDE DEF B
    <3> QED
      BY <2>1, <2>2, FS_Subset
  <2> QED
    BY <2>2, <2>3 DEF Rank
<1>4. \A m, n \in S : Rank(S, m) = Rank(S, n) => m = n
  <2> SUFFICES ASSUME NEW m \in S, NEW n \in S, m # n PROVE Rank(S, m) # Rank(S, n)
    OBVIOUS
  <2>1. m < n \/ n < m
    OBVIOUS
  <2>2. Rank(S, m) \in Nat /\ Rank(S, n) \in Nat
    <3> HIDE DEF B, c
    <3> QED
      BY <1>2
  <2> QED
    BY <1>3, <2>1, <2>2
<1>5. f \in Injection(S, 1 .. c)
  BY <1>2, <1>4 DEF Injection, IsInjective
<1>6. IsFiniteSet(1 .. c) /\ Cardinality(1 .. c) = c
  <2>1. 1 \in Int /\ c \in Int
    BY <1>1
  <2>2. IsFiniteSet(1 .. c) /\ Cardinality(1 .. c) = IF 1 > c THEN 0 ELSE c - 1 + 1
    BY <2>1, FS_Interval
  <2> QED
    BY <1>1, <2>2
<1>7. f \in Surjection(S, 1 .. c)
  <2> HIDE DEF f
  <2> QED
    BY <1>5, <1>6, FS_Injection
<1>8. \A k \in 1 .. c : \E n \in S : Rank(S, n) = k
  BY <1>7 DEF Surjection
<1>9. o \in [1 .. c -> S] /\ \A k \in 1 .. c : Rank(S, o[k]) = k
  <2> HIDE DEF c
  <2> QED
    BY <1>8
<1>10. InOrder(S) = o
  BY DEF InOrder, Rank
<1> HIDE DEF o
<1>11. o \in Seq(S) /\ Len(o) = c
  BY <1>1, <1>9, SeqDef
<1>12. ASSUME NEW j \in 1 .. c, NEW k \in 1 .. c, j < k
       PROVE  o[j] < o[k]
  <2>1. o[j] \in S /\ o[k] \in S /\ Rank(S, o[j]) = j /\ Rank(S, o[k]) = k
    BY <1>9
  <2>2. ~ (o[k] < o[j]) /\ o[k] # o[j]
    <3>1. ~ (k < j) /\ k # j
      BY <1>12
    <3> HIDE DEF c
    <3> QED
      BY <1>3, <2>1, <3>1
  <2>3. \A x \in S : x \in Nat
    OBVIOUS
  <2>4. o[j] \in Nat /\ o[k] \in Nat
    BY <2>1, <2>3
  <2> QED
    BY <2>2, <2>4
<1>13. ASSUME NEW n \in S PROVE \E k \in 1 .. c : o[k] = n
  <2>1. Rank(S, n) \in 1 .. c
    BY <1>2
  <2>2. o[Rank(S, n)] \in S /\ Rank(S, o[Rank(S, n)]) = Rank(S, n)
    BY <1>9, <2>1
  <2> QED
    BY <1>4, <2>1, <2>2
<1> QED
  BY <1>10, <1>11, <1>12, <1>13

\* Only a call by way of a function pointer is replaced, and by a direct call.
LEMMA NewInstrFacts ==
  ASSUME NEW body, Len(body) \in Nat, NEW n \in 1 .. Len(body)
  PROVE  \/ NewInstr(body, n) = body[n]
         \/ /\ body[n].op = "CallIndirect"
            /\ Refs(NewInstr(body, n)) = << >> /\ Needs(NewInstr(body, n)) = {}
            /\ ~IsDiverging(NewInstr(body, n))
<1>1. CASE n > 1 /\ Direct(body, n - 1)
  <2>1. n - 1 + 1 = n
    OBVIOUS
  <2>2. body[n].op = "CallIndirect"
    BY <1>1, <2>1 DEF Direct
  <2>3. NewInstr(body, n).op = "CallDirect"
    BY <1>1 DEF NewInstr, OpNamed
  <2>4. Refs(NewInstr(body, n)) = << >> /\ ~IsDiverging(NewInstr(body, n))
    BY <2>3, RefsOfIfElse DEF IsDiverging
  <2>5. Needs(NewInstr(body, n)) = {}
    BY <2>3 DEF Needs
  <2> QED
    BY <2>2, <2>4, <2>5
<1>2. CASE ~ (n > 1 /\ Direct(body, n - 1))
  BY <1>2 DEF NewInstr
<1> QED
  BY <1>1, <1>2

LEMMA LeftFacts ==
  ASSUME NEW body, Len(body) \in Nat
  PROVE  /\ Left(body) \in Seq(1 .. Len(body)) /\ Len(Left(body)) \in Nat
         /\ \A j, k \in 1 .. Len(Left(body)) : j < k => Left(body)[j] < Left(body)[k]
         /\ \A k \in 1 .. Len(Left(body)) : Left(body)[k] \in 1 .. Len(body)
         /\ \A n \in 1 .. Len(body) :
              body[n].op \in {"IfElse", "Loop"} =>
                NewInstr(body, n) = body[n] /\ \E k \in 1 .. Len(Left(body)) : Left(body)[k] = n
<1> DEFINE S == { n \in 1 .. Len(body) : ~Direct(body, n) }
<1>1. S \in SUBSET (1 .. Len(body)) /\ Left(body) = InOrder(S)
  BY DEF Left
<1>2. ASSUME NEW n \in 1 .. Len(body), body[n].op \in {"IfElse", "Loop"}
      PROVE  n \in S /\ NewInstr(body, n) = body[n]
  BY <1>2, NewInstrFacts DEF Direct
<1> HIDE DEF S
<1>3. /\ InOrder(S) \in Seq(S)
      /\ \A j, k \in 1 .. Len(InOrder(S)) : j < k => InOrder(S)[j] < InOrder(S)[k]
      /\ \A n \in S : \E k \in 1 .. Len(InOrder(S)) : InOrder(S)[k] = n
  BY <1>1, InOrderFacts
<1>4. InOrder(S) \in Seq(1 .. Len(body)) /\ Len(InOrder(S)) \in Nat
      /\ \A k \in 1 .. Len(InOrder(S)) : InOrder(S)[k] \in 1 .. Len(body)
  <2> DEFINE T == 1 .. Len(body)  o == InOrder(S)
  <2>1. o \in Seq(S) /\ S \subseteq T
    BY <1>1, <1>3
  <2> HIDE DEF T, o
  <2>2. Len(o) \in Nat /\ \A k \in 1 .. Len(o) : o[k] \in T
    BY <2>1
  <2>3. o \in Seq(T)
    BY <2>1
  <2> QED
    BY <2>2, <2>3 DEF T, o
<1> QED
  BY <1>1, <1>2, <1>3, <1>4

Opt(f) ==
  LET left(b) == Left(f.body[b]) IN
  Local(f.tag,
    [b \in Blocks(f) |-> [k \in 1 .. Len(left(b)) |-> NewInstr(f.body[b], left(b)[k])]],
    f.meta,
    [b \in Blocks(f) |-> [k \in 1 .. Len(left(b)) |-> f.notes[b][left(b)[k]]]])

LEMMA OptimiseOpts == Optimise => Becomes(Opt(This)) /\ passed' = passed
BY DEF Optimise, Opt

\* Every note the emitter needs is there, and from call c.
NotesOf(f, c) ==
  \A b \in Blocks(f) : \A n \in 1 .. Len(f.body[b]) : \A k \in Needs(f.body[b][n]) :
    Has(f.notes[b][n], k) /\ Retrieve(f.notes[b][n], k) = c

\* Where the instructions of the optimised function were.
Was(f, p) == Pos(p.block, Left(f.body[p.block])[p.ip], p.arm)

LEMMA OptFacts ==
  ASSUME NEW f, IsLocalFunction(f)
  PROVE  /\ IsLocalFunction(Opt(f)) /\ Opt(f).tag = f.tag /\ Opt(f).meta = f.meta
         /\ Corrected(f) => Corrected(Opt(f))
         /\ \A c : NotesOf(f, c) => NotesOf(Opt(f), c)
         /\ LET m == [p \in Positions(Opt(f)) |-> Was(f, p)] IN
            Embeds(f, Opt(f), m) /\ Covers(f, Opt(f), m)
<1> DEFINE L(b) == Left(f.body[b])
           body == [b \in Blocks(f) |-> [k \in 1 .. Len(L(b)) |-> NewInstr(f.body[b], L(b)[k])]]
           notes == [b \in Blocks(f) |-> [k \in 1 .. Len(L(b)) |-> f.notes[b][L(b)[k]]]]
           g == Local(f.tag, body, f.meta, notes)
           m == [p \in Positions(g) |-> Was(f, p)]
<1>1. g = Opt(f)
  BY DEF Opt
<1>2. /\ IsFunction(f) /\ f.meta \in [Blocks(f) -> Seq(Nodes)]
      /\ \A b \in Blocks(f) : /\ Len(f.body[b]) \in Nat
                               /\ \A n \in 1 .. Len(f.body[b]) : f.notes[b][n] \in Seq(Nodes)
  BY ShapeFacts
<1>3. /\ g.tag = f.tag /\ g.body = body /\ g.meta = f.meta /\ g.notes = notes /\ Blocks(g) = Blocks(f)
  <2> HIDE DEF body, notes
  <2> QED
    BY DEF Local, Blocks
<1>4. ASSUME NEW b \in Blocks(f)
      PROVE  /\ Len(L(b)) \in Nat
             /\ \A j, k \in 1 .. Len(L(b)) : j < k => L(b)[j] < L(b)[k]
             /\ \A k \in 1 .. Len(L(b)) : L(b)[k] \in 1 .. Len(f.body[b])
             /\ \A n \in 1 .. Len(f.body[b]) :
                  f.body[b][n].op \in {"IfElse", "Loop"} =>
                    NewInstr(f.body[b], n) = f.body[b][n] /\ \E k \in 1 .. Len(L(b)) : L(b)[k] = n
  BY <1>2, LeftFacts
<1>5. ASSUME NEW b \in Blocks(f)
      PROVE  /\ body[b] = [k \in 1 .. Len(L(b)) |-> NewInstr(f.body[b], L(b)[k])]
             /\ notes[b] = [k \in 1 .. Len(L(b)) |-> f.notes[b][L(b)[k]]]
  OBVIOUS
<1>6. body = [b \in Blocks(f) |-> body[b]] /\ notes = [b \in Blocks(f) |-> notes[b]]
  OBVIOUS
<1> HIDE DEF body, notes, L
<1>7. ASSUME NEW b \in Blocks(f)
      PROVE  /\ \E S : body[b] \in Seq(S)
             /\ Len(body[b]) = Len(L(b)) /\ Len(notes[b]) = Len(body[b])
             /\ notes[b] \in Seq(Seq(Nodes))
             /\ \A k \in 1 .. Len(L(b)) :
                  body[b][k] = NewInstr(f.body[b], L(b)[k]) /\ notes[b][k] = f.notes[b][L(b)[k]]
  <2> DEFINE N == Len(L(b))
  <2>1. N \in Nat /\ \A k \in 1 .. N : f.notes[b][L(b)[k]] \in Seq(Nodes)
    BY <1>2, <1>4
  <2>2. /\ body[b] = [k \in 1 .. N |-> NewInstr(f.body[b], L(b)[k])]
        /\ notes[b] = [k \in 1 .. N |-> f.notes[b][L(b)[k]]]
    BY <1>5
  <2> HIDE DEF N
  <2>3. notes[b] \in Seq(Seq(Nodes)) /\ Len(notes[b]) = N
    <3>1. notes[b] \in [1 .. N -> Seq(Nodes)]
      BY <2>1, <2>2
    <3> QED
      BY <2>1, <3>1, SeqDef
  <2>4. body[b] \in Seq({ NewInstr(f.body[b], L(b)[k]) : k \in 1 .. N }) /\ Len(body[b]) = N
    <3> DEFINE S == { NewInstr(f.body[b], L(b)[k]) : k \in 1 .. N }
    <3>1. body[b] \in [1 .. N -> S]
      BY <2>2
    <3> HIDE DEF S
    <3>2. body[b] \in Seq(S) /\ Len(body[b]) = N
      BY <2>1, <3>1, SeqDef
    <3> QED
      BY <3>2 DEF S
  <2> QED
    BY <2>2, <2>3, <2>4 DEF N
<1>8. ASSUME NEW b \in Blocks(f), NEW k \in 1 .. Len(L(b))
      PROVE  \/ body[b][k] = f.body[b][L(b)[k]]
             \/ /\ Refs(body[b][k]) = << >> /\ Needs(body[b][k]) = {} /\ ~IsDiverging(body[b][k])
  BY <1>2, <1>4, <1>7, NewInstrFacts
<1>9. IsFunction(g)
  <2>1. \A b \in Blocks(f) : \A n \in 1 .. Len(body[b]) :
          /\ Len(Refs(body[b][n])) \in Nat
          /\ \A a \in 1 .. Len(Refs(body[b][n])) :
               /\ Refs(body[b][n])[a].block \in Nat
               /\ Refs(body[b][n])[a].tag \in Tags
    <3> SUFFICES ASSUME NEW b \in Blocks(f), NEW n \in 1 .. Len(body[b])
                 PROVE  /\ Len(Refs(body[b][n])) \in Nat
                        /\ \A a \in 1 .. Len(Refs(body[b][n])) :
                             /\ Refs(body[b][n])[a].block \in Nat
                             /\ Refs(body[b][n])[a].tag \in Tags
      OBVIOUS
    <3>1. n \in 1 .. Len(L(b)) /\ L(b)[n] \in 1 .. Len(f.body[b])
      BY <1>4, <1>7
    <3>2. CASE body[b][n] = f.body[b][L(b)[n]]
      BY <1>2, <3>1, <3>2 DEF IsFunction
    <3>3. CASE Refs(body[b][n]) = << >>
      BY <3>3
    <3> QED
      BY <1>8, <3>1, <3>2, <3>3
  <2>2. DOMAIN body = Blocks(f) /\ \A b \in Blocks(f) : Len(body[b]) \in Nat
    BY <1>4, <1>6, <1>7
  <2> QED
    BY <1>2, <1>3, <2>1, <2>2 DEF IsFunction
<1>10. IsLocalFunction(g)
  BY <1>2, <1>6, <1>7, <1>9, MakesFunction DEF Blocks
<1>11. ASSUME Corrected(f) PROVE Corrected(g)
  <2> SUFFICES ASSUME NEW b \in Blocks(f), NEW k \in 1 .. Len(body[b]) - 1 PROVE ~IsDiverging(body[b][k])
    BY <1>3 DEF Corrected
  <2>1. k \in 1 .. Len(L(b)) /\ k + 1 \in 1 .. Len(L(b)) /\ k < k + 1
    BY <1>4, <1>7
  <2>2. L(b)[k] < L(b)[k + 1] /\ L(b)[k] \in 1 .. Len(f.body[b]) /\ L(b)[k + 1] \in 1 .. Len(f.body[b])
    BY <1>4, <2>1
  <2>3. L(b)[k] \in 1 .. Len(f.body[b]) - 1
    BY <1>2, <2>2
  <2>4. ~IsDiverging(f.body[b][L(b)[k]])
    BY <1>11, <2>3 DEF Corrected
  <2> QED
    BY <1>8, <2>1, <2>4
<1>12. ASSUME NEW c, NotesOf(f, c) PROVE NotesOf(g, c)
  <2> SUFFICES ASSUME NEW b \in Blocks(f), NEW n \in 1 .. Len(body[b]), NEW k \in Needs(body[b][n])
               PROVE  Has(notes[b][n], k) /\ Retrieve(notes[b][n], k) = c
    BY <1>3 DEF NotesOf
  <2>1. n \in 1 .. Len(L(b)) /\ L(b)[n] \in 1 .. Len(f.body[b]) /\ notes[b][n] = f.notes[b][L(b)[n]]
    BY <1>4, <1>7
  <2>2. body[b][n] = f.body[b][L(b)[n]]
    BY <1>8, <2>1
  <2> QED
    BY <1>12, <2>1, <2>2 DEF NotesOf
<1>13. ASSUME NEW p \in Positions(g)
       PROVE  /\ p.block \in Blocks(f) /\ p.ip \in 1 .. Len(L(p.block)) /\ p = Pos(p.block, p.ip, p.arm)
              /\ m[p] \in Positions(f) /\ m[p].block = p.block /\ m[p].arm = p.arm
              /\ m[p].ip = L(p.block)[p.ip] /\ RefAt(g, p) = RefAt(f, m[p])
  <2>1. /\ p.block \in Blocks(g) /\ p.ip \in 1 .. Len(g.body[p.block])
        /\ p.arm \in 1 .. Len(Refs(g.body[p.block][p.ip])) /\ p = Pos(p.block, p.ip, p.arm)
    BY <1>9, PositionFacts
  <2>2. p.block \in Blocks(f) /\ p.ip \in 1 .. Len(L(p.block)) /\ p.arm \in 1 .. Len(Refs(body[p.block][p.ip]))
    BY <1>3, <1>7, <2>1
  <2>3. body[p.block][p.ip] = f.body[p.block][L(p.block)[p.ip]]
    <3>1. Refs(body[p.block][p.ip]) # << >>
      BY <2>2
    <3> QED
      BY <1>8, <2>2, <3>1
  <2>4. m[p] = Pos(p.block, L(p.block)[p.ip], p.arm)
    BY DEF Was, L
  <2>5. m[p] \in Positions(f)
    BY <1>4, <2>2, <2>3, <2>4, PositionsDef
  <2>6. m[p].block = p.block /\ m[p].arm = p.arm /\ m[p].ip = L(p.block)[p.ip]
    BY <2>4 DEF Pos
  <2>7. RefAt(g, p) = RefAt(f, m[p])
    BY <1>3, <2>3, <2>6 DEF RefAt
  <2> QED
    BY <2>1, <2>2, <2>5, <2>6, <2>7
<1>14. ASSUME NEW p \in Positions(g), NEW q \in Positions(g), m[p] = m[q]
       PROVE  p = q
  <2>1. /\ p.block \in Blocks(f) /\ p.block = q.block /\ p.arm = q.arm
        /\ L(p.block)[p.ip] = L(p.block)[q.ip]
        /\ p.ip \in 1 .. Len(L(p.block)) /\ q.ip \in 1 .. Len(L(p.block))
        /\ p = Pos(p.block, p.ip, p.arm) /\ q = Pos(q.block, q.ip, q.arm)
    <3> HIDE DEF m
    <3>1. /\ p.block \in Blocks(f) /\ m[p].block = p.block /\ m[p].arm = p.arm
          /\ m[p].ip = L(p.block)[p.ip] /\ p.ip \in 1 .. Len(L(p.block)) /\ p = Pos(p.block, p.ip, p.arm)
      BY <1>13
    <3>2. /\ m[q].block = q.block /\ m[q].arm = q.arm
          /\ m[q].ip = L(q.block)[q.ip] /\ q.ip \in 1 .. Len(L(q.block)) /\ q = Pos(q.block, q.ip, q.arm)
      BY <1>13
    <3> QED
      BY <1>14, <3>1, <3>2
  <2>2. ~ (L(p.block)[p.ip] < L(p.block)[q.ip]) /\ ~ (L(p.block)[q.ip] < L(p.block)[p.ip])
    <3>1. L(p.block)[p.ip] \in 1 .. Len(f.body[p.block])
      BY <1>4, <2>1
    <3> QED
      BY <2>1, <3>1
  <2>3. ~ (p.ip < q.ip) /\ ~ (q.ip < p.ip)
    BY <1>4, <2>1, <2>2
  <2>4. p.ip = q.ip
    BY <2>1, <2>3
  <2> QED
    BY <2>1, <2>4
<1>15. ASSUME NEW q \in Positions(f) PROVE \E p \in Positions(g) : m[p] = q
  <2>1. /\ q.block \in Blocks(f) /\ q.ip \in 1 .. Len(f.body[q.block])
        /\ q.arm \in 1 .. Len(Refs(f.body[q.block][q.ip])) /\ q = Pos(q.block, q.ip, q.arm)
    BY <1>2, PositionFacts
  <2>2. f.body[q.block][q.ip].op \in {"IfElse", "Loop"}
    <3>1. Refs(f.body[q.block][q.ip]) # << >>
      BY <2>1
    <3> QED
      BY <3>1, RefsOfIfElse
  <2>3. NewInstr(f.body[q.block], q.ip) = f.body[q.block][q.ip]
    BY <1>4, <2>1, <2>2
  <2>4. PICK k \in 1 .. Len(L(q.block)) : L(q.block)[k] = q.ip
    BY <1>4, <2>1, <2>2
  <2>5. g.body[q.block][k] = f.body[q.block][q.ip] /\ k \in 1 .. Len(g.body[q.block])
    BY <1>3, <1>7, <2>1, <2>3, <2>4
  <2> DEFINE p == Pos(q.block, k, q.arm)
  <2>6. p \in Positions(g)
    BY <1>3, <2>1, <2>5, PositionsDef
  <2>7. p.block = q.block /\ p.ip = k /\ p.arm = q.arm
    BY DEF Pos
  <2> HIDE DEF p
  <2>8. m[p] = q
    BY <2>1, <2>4, <2>6, <2>7 DEF Was, L
  <2> QED
    BY <2>6, <2>8
<1>16. Embeds(f, g, m) /\ Covers(f, g, m)
  <2>1. m \in [Positions(g) -> Positions(f)]
    <3>1. \A p \in Positions(g) : m[p] \in Positions(f)
      BY <1>13
    <3> QED
      BY <3>1
  <2> HIDE DEF m
  <2>2. Embeds(f, g, m)
    BY <1>3, <1>13, <1>14, <2>1 DEF Embeds
  <2>3. Covers(f, g, m)
    BY <1>15 DEF Covers
  <2> QED
    BY <2>2, <2>3
<1> HIDE DEF g
<1> QED
  BY <1>1, <1>3, <1>10, <1>11, <1>12, <1>16

-----------------------------------------------------------------------------
(* What the verifiers store *)

\* A function as the control-flow verifier leaves it.
Right(f) ==
  /\ Regular(f) /\ Corrected(f)
  /\ \A b \in InLoops(f) : Has(f.meta[b], "dist") /\ Retrieve(f.meta[b], "dist") = InnermostLoops(f)[b]

\* Distances stay right when the tree of blocks stays as it is.
LEMMA RightMoves ==
  ASSUME NEW f, NEW g, Right(f), SameTree(f, g), WellFormed(g), Corrected(g), g.meta = f.meta
  PROVE  Right(g) /\ InLoops(g) = InLoops(f)
<1>1. Regular(f) /\ Regular(g)
  BY TreeKeeps DEF Right, Regular
<1>2. InLoops(g) = InLoops(f) /\ \A b \in InLoops(f) : InnermostLoops(g)[b] = InnermostLoops(f)[b]
  BY <1>1, SameLoops
<1> QED
  BY <1>1, <1>2 DEF Right

LEMMA StoredDistances ==
  ASSUME IsLocalFunction(This), Regular(This), Corrected(This)
  PROVE  LET g == [This EXCEPT !.meta = StoreDistances] IN
         /\ IsLocalFunction(g) /\ g.tag = This.tag /\ g.body = This.body /\ Right(g)
         /\ InLoops(g) = InLoops(This)
         /\ \A b \in Blocks(This) \ InLoops(This) : g.meta[b] = This.meta[b]
         /\ \A b \in InLoops(This) :
              Right(This) => Has(This.meta[b], "dist") /\ Retrieve(g.meta[b], "dist") = Retrieve(This.meta[b], "dist")
<1> DEFINE f == This  m == StoreDistances  g == [f EXCEPT !.meta = m]
           h == Local(f.tag, f.body, m, f.notes)
<1>1. /\ IsFunction(f) /\ f.meta \in [Blocks(f) -> Seq(Nodes)] /\ f = Local(f.tag, f.body, f.meta, f.notes)
  BY ShapeFacts DEF IsLocalFunction
<1>2. g = h
  <2> HIDE DEF f, m
  <2> QED
    BY <1>1 DEF Local
<1>3. h.tag = f.tag /\ h.body = f.body /\ h.meta = m /\ h.notes = f.notes /\ Blocks(h) = Blocks(f)
  <2> HIDE DEF f, m
  <2> QED
    BY DEF Local, Blocks
<1>4. InLoops(f) \subseteq Blocks(f) /\ \A b \in InLoops(f) : InnermostLoops(f)[b] \in Nat
  BY LoopsOfRegular
<1>5. m = [b \in Blocks(f) |-> IF b \in InLoops(f) THEN InsertMeta(f.meta[b], "dist", InnermostLoops(f)[b]) ELSE f.meta[b]]
  BY DEF StoreDistances, InLoops
<1> HIDE DEF f, m
<1>6. ASSUME NEW b \in InLoops(f)
      PROVE  m[b] \in Seq(Nodes) /\ Has(m[b], "dist") /\ Retrieve(m[b], "dist") = InnermostLoops(f)[b]
  <2>1. Node("dist", InnermostLoops(f)[b]) \in Nodes /\ f.meta[b] \in Seq(Nodes)
    BY <1>1, <1>4 DEF Node, Nodes
  <2>2. m[b] = InsertMeta(f.meta[b], "dist", InnermostLoops(f)[b])
    BY <1>4, <1>5
  <2> QED
    BY <2>1, <2>2, Newest
<1>7. \A b \in Blocks(f) \ InLoops(f) : m[b] = f.meta[b]
  BY <1>5
<1>8. m \in [Blocks(f) -> Seq(Nodes)]
  BY <1>1, <1>5, <1>6, <1>7
<1>9. IsLocalFunction(f) /\ Regular(f) /\ Corrected(f)
  BY DEF f
<1>10. IsFunction(h) /\ WellFormed(h) /\ Corrected(h) /\ SameTree(f, h)
  BY <1>1, <1>3, <1>9, SameCode DEF Regular
<1>11. IsLocalFunction(h)
  <2>1. h = Local(h.tag, h.body, h.meta, h.notes)
    BY <1>3
  <2> HIDE DEF h
  <2> QED
    BY <1>3, <1>8, <1>9, <1>10, <2>1 DEF IsLocalFunction
<1>12. InLoops(h) = InLoops(f) /\ \A b \in InLoops(f) : InnermostLoops(h)[b] = InnermostLoops(f)[b]
  BY <1>9, <1>10, TreeKeeps, SameLoops DEF Regular
<1>13. Regular(h)
  BY <1>9, <1>10, TreeKeeps DEF Regular
<1>14. Right(h)
  BY <1>3, <1>6, <1>10, <1>12, <1>13 DEF Right
<1>15. \A b \in InLoops(f) : Right(f) => Has(f.meta[b], "dist") /\ Retrieve(m[b], "dist") = Retrieve(f.meta[b], "dist")
  BY <1>6 DEF Right
<1> HIDE DEF h
<1> QED
  BY <1>2, <1>3, <1>7, <1>11, <1>12, <1>14, <1>15 DEF f, m

\* An instruction that can be reached is noted what the emitter needs of it.
LEMMA NotedKind ==
  ASSUME NEW f, NEW b \in Blocks(f), NEW n \in 1 .. Len(f.body[b]),
         \A j \in 1 .. n - 1 : ~IsDiverging(f.body[b][j]), NEW k \in Needs(f.body[b][n])
  PROVE  { x \in TypePass!Kinds : <<b, n>> \in TypePass!NotedAt(f, x) } = {k}
<1> DEFINE i == f.body[b][n]
<1>1. TypePass!Needs(i) = Needs(i)
  BY DEF TypePass!Needs, Needs
<1>2. Needs(i) = {k} /\ k \in TypePass!Kinds /\ i.op # "Ftoi"
  BY DEF Needs, TypePass!Kinds
<1>3. TypePass!Notes(i) = {k}
  BY <1>1, <1>2 DEF TypePass!Notes
<1>4. TypePass!Reached(f, b, n)
  BY DEF TypePass!Reached, TypePass!IsDiverging, IsDiverging
<1>5. \A x : <<b, n>> \in TypePass!NotedAt(f, x) <=> x \in TypePass!Notes(i)
  <2>1. \A x : <<b, n>> \in TypePass!NotedAt(f, x) <=>
           \E c \in Blocks(f) : \E l \in 1 .. Len(f.body[c]) :
             TypePass!Reached(f, c, l) /\ x \in TypePass!Notes(f.body[c][l]) /\ <<b, n>> = <<c, l>>
    BY DEF TypePass!NotedAt, TypePass!Blocks, Blocks
  <2> QED
    BY <1>4, <2>1
<1> QED
  BY <1>2, <1>3, <1>5

LEMMA StoredNotes ==
  ASSUME IsLocalFunction(This), Corrected(This), calls \in Nat
  PROVE  LET g == [This EXCEPT !.notes = StoreNotes] IN
         /\ IsLocalFunction(g) /\ g.tag = This.tag /\ g.body = This.body /\ g.meta = This.meta
         /\ NotesOf(g, calls)
<1> DEFINE f == This  m == StoreNotes  g == [f EXCEPT !.notes = m]
           h == Local(f.tag, f.body, f.meta, m)
           kinds(b, n) == { k \in TypePass!Kinds : <<b, n>> \in TypePass!NotedAt(f, k) }
<1>1. /\ IsFunction(f) /\ f = Local(f.tag, f.body, f.meta, f.notes)
      /\ \A b \in Blocks(f) :
           /\ Len(f.body[b]) \in Nat
           /\ \A n \in 1 .. Len(f.body[b]) : f.notes[b][n] \in Seq(Nodes)
  BY ShapeFacts DEF IsLocalFunction
<1>2. g = h
  <2> HIDE DEF f, m
  <2> QED
    BY <1>1 DEF Local
<1>3. h.tag = f.tag /\ h.body = f.body /\ h.meta = f.meta /\ h.notes = m /\ Blocks(h) = Blocks(f)
  <2> HIDE DEF f, m
  <2> QED
    BY DEF Local, Blocks
<1>4. m = [b \in Blocks(f) |-> [n \in 1 .. Len(f.body[b]) |-> Noting(b, n)]]
  BY DEF StoreNotes
<1>5. \A b, n : Noting(b, n) = IF kinds(b, n) = {} THEN f.notes[b][n]
                               ELSE InsertMeta(f.notes[b][n], CHOOSE k \in kinds(b, n) : TRUE, calls)
  BY DEF Noting
<1>6. ASSUME NEW b \in Blocks(f), NEW n \in 1 .. Len(f.body[b])
      PROVE  \A k \in Needs(f.body[b][n]) : kinds(b, n) = {k}
  <2>1. \A j \in 1 .. n - 1 : ~IsDiverging(f.body[b][j])
    <3>1. \A j \in 1 .. n - 1 : j \in 1 .. Len(f.body[b]) - 1
      BY <1>1
    <3> QED
      BY <3>1 DEF Corrected
  <2> QED
    BY <2>1, NotedKind
<1>7. \A b, n : kinds(b, n) \subseteq {"bws", "from", "ty"}
  BY DEF TypePass!Kinds
<1>8. IsLocalFunction(f) /\ calls \in Nat
  BY DEF f
<1> HIDE DEF f, m, kinds
<1>9. ASSUME NEW b \in Blocks(f), NEW n \in 1 .. Len(f.body[b])
      PROVE  /\ Noting(b, n) \in Seq(Nodes)
             /\ \A k \in Needs(f.body[b][n]) : Has(Noting(b, n), k) /\ Retrieve(Noting(b, n), k) = calls
  <2>1. CASE kinds(b, n) = {}
    BY <1>1, <1>5, <1>6, <2>1
  <2>2. CASE kinds(b, n) # {}
    <3>1. PICK k : k = (CHOOSE x \in kinds(b, n) : TRUE) /\ k \in kinds(b, n)
      BY <2>2
    <3>2. Noting(b, n) = InsertMeta(f.notes[b][n], k, calls)
      BY <1>5, <2>2, <3>1
    <3>3. Node(k, calls) \in Nodes
      BY <1>7, <1>8, <3>1 DEF Node, Nodes
    <3>4. f.notes[b][n] \in Seq(Nodes)
      BY <1>1
    <3>5. /\ Noting(b, n) \in Seq(Nodes) /\ Has(Noting(b, n), k) /\ Retrieve(Noting(b, n), k) = calls
      BY <3>2, <3>3, <3>4, Newest
    <3>6. \A x \in Needs(f.body[b][n]) : x = k
      BY <1>6, <3>1
    <3> QED
      BY <3>5, <3>6
  <2> QED
    BY <2>1, <2>2
<1>10. ASSUME NEW b \in Blocks(f)
       PROVE  m[b] \in Seq(Seq(Nodes)) /\ Len(m[b]) = Len(f.body[b])
              /\ \A n \in 1 .. Len(f.body[b]) : m[b][n] = Noting(b, n)
  <2>1. m[b] = [n \in 1 .. Len(f.body[b]) |-> Noting(b, n)]
    BY <1>4
  <2>2. m[b] \in [1 .. Len(f.body[b]) -> Seq(Nodes)] /\ Len(f.body[b]) \in Nat
    BY <1>1, <1>9, <2>1
  <2>3. m[b] \in Seq(Seq(Nodes)) /\ Len(m[b]) = Len(f.body[b])
    BY <2>2, SeqDef
  <2> QED
    BY <2>1, <2>3
<1>11. m \in [Blocks(f) -> Seq(Seq(Nodes))]
  BY <1>4, <1>10
<1>12. IsFunction(h)
  BY <1>1, <1>3, SameCode
<1>13. IsLocalFunction(h)
  <2>1. h = Local(h.tag, h.body, h.meta, h.notes)
    BY <1>3
  <2> HIDE DEF h
  <2>2. /\ h.body \in [Blocks(h) -> Seq(UNION { ToSet(h.body[b]) : b \in Blocks(h) })]
        /\ h.meta \in [Blocks(h) -> Seq(Nodes)]
    BY <1>3, <1>8 DEF IsLocalFunction
  <2>3. h.notes \in [Blocks(h) -> Seq(Seq(Nodes))] /\ \A b \in Blocks(h) : Len(h.notes[b]) = Len(h.body[b])
    BY <1>3, <1>10, <1>11
  <2> QED
    BY <1>12, <2>1, <2>2, <2>3 DEF IsLocalFunction
<1>14. NotesOf(h, calls)
  BY <1>3, <1>9, <1>10 DEF NotesOf
<1> HIDE DEF h
<1> QED
  BY <1>2, <1>3, <1>13, <1>14 DEF f, m

-----------------------------------------------------------------------------
(* The invariant *)

Passes == {"correct", "control_flow", "types", "optimise", "emit"}

\* What may be left of a pipeline.
Plans ==
  { << "correct", "control_flow", "types" >>, << "control_flow", "types" >>, << "types" >>,
    << "correct", "control_flow", "types", "emit" >>, << "control_flow", "types", "emit" >>,
    << "types", "emit" >>, << "emit" >>,
    << "correct", "control_flow", "types", "optimise", "emit" >>,
    << "control_flow", "types", "optimise", "emit" >>, << "types", "optimise", "emit" >>,
    << "optimise", "emit" >> }

After(pass) ==
  CASE pass = "correct"      -> {"control_flow", "types", "optimise", "emit"}
    [] pass = "control_flow" -> {"types", "optimise", "emit"}
    [] pass = "types"        -> {"optimise", "emit"}

\* In the call at hand the pass has visited function i.
Visited(pass, i) ==
  turn = "pipeline" /\ (Head(plan) \in After(pass) \/ (Head(plan) = pass /\ i < at))

ShapeInv ==
  /\ at \in Nat /\ at > 0 /\ calls \in Nat
  /\ defs \in Seq(ToSet(defs))
  /\ \A i \in 1 .. Len(defs) : defs[i] = Extern \/ IsLocalFunction(defs[i])

PlanInv == turn = "pipeline" => plan \in Plans

FunctionInv(i) ==
  /\ i \in passed => Right(defs[i])
  /\ i \notin edited => \A b \in Blocks(defs[i]) :
                          Has(defs[i].meta[b], "dist") => i \in passed /\ b \in InLoops(defs[i])
  /\ Visited("correct", i) => Corrected(defs[i])
  /\ Visited("control_flow", i) => i \in passed
  /\ Visited("types", i) => NotesOf(defs[i], calls)

PassesInv == \A i \in Locals : FunctionInv(i)

EmitterInv ==
  IF Emitting /\ AtLocal
    THEN /\ CodeProofs!EmitInv /\ out \in Seq(CodeProofs!CodeOf(Seen(This)))
         /\ Outdated(This) = {} => CodeProofs!NestInv
    ELSE pc = "idle" /\ frames = << >> /\ labels = << >> /\ out = << >>

PipelineInv == ShapeInv /\ PlanInv /\ PassesInv /\ EmitterInv

-----------------------------------------------------------------------------
(* The plan *)

\* A pass is followed by the next one of its pipeline.
Follows(pass, next) ==
  \/ pass = "correct" /\ next = "control_flow"
  \/ pass = "control_flow" /\ next = "types"
  \/ pass = "types" /\ next \in {"optimise", "emit"}
  \/ pass = "optimise" /\ next = "emit"

LEMMA PlanFacts ==
  ASSUME NEW p \in Plans
  PROVE  /\ p # << >> /\ Head(p) \in Passes
         /\ Tail(p) = << >> \/ (Tail(p) \in Plans /\ Follows(Head(p), Head(Tail(p))))
<1>1. CASE p = << "correct", "control_flow", "types" >>
  BY <1>1 DEF Plans, Passes, Follows
<1>2. CASE p = << "control_flow", "types" >>
  BY <1>2 DEF Plans, Passes, Follows
<1>3. CASE p = << "types" >>
  BY <1>3 DEF Passes
<1>4. CASE p = << "correct", "control_flow", "types", "emit" >>
  BY <1>4 DEF Plans, Passes, Follows
<1>5. CASE p = << "control_flow", "types", "emit" >>
  BY <1>5 DEF Plans, Passes, Follows
<1>6. CASE p = << "types", "emit" >>
  BY <1>6 DEF Plans, Passes, Follows
<1>7. CASE p = << "emit" >>
  BY <1>7 DEF Passes
<1>8. CASE p = << "correct", "control_flow", "types", "optimise", "emit" >>
  BY <1>8 DEF Plans, Passes, Follows
<1>9. CASE p = << "control_flow", "types", "optimise", "emit" >>
  BY <1>9 DEF Plans, Passes, Follows
<1>10. CASE p = << "types", "optimise", "emit" >>
  BY <1>10 DEF Plans, Passes, Follows
<1>11. CASE p = << "optimise", "emit" >>
  BY <1>11 DEF Plans, Passes, Follows
<1> QED
  BY Zenon, <1>1, <1>2, <1>3, <1>4, <1>5, <1>6, <1>7, <1>8, <1>9, <1>10, <1>11 DEF Plans

LEMMA NewPlans ==
  /\ VerifyPasses \in Plans /\ Head(VerifyPasses) = "correct"
  /\ \A opt \in BOOLEAN : CompilePasses(opt) \in Plans /\ Head(CompilePasses(opt)) = "correct"
BY DEF VerifyPasses, CompilePasses, Plans

LEMMA AfterFacts ==
  /\ After("correct") = {"control_flow", "types", "optimise", "emit"}
  /\ After("control_flow") = {"types", "optimise", "emit"}
  /\ After("types") = {"optimise", "emit"}
BY DEF After

-----------------------------------------------------------------------------
(* The functions of a module *)

LEMMA LocalsAre ==
  ASSUME ShapeInv
  PROVE  /\ Len(defs) \in Nat /\ Locals = { i \in 1 .. Len(defs) : IsLocalFunction(defs[i]) }
         /\ AtLocal => at \in Locals /\ This = defs[at] /\ IsLocalFunction(This)
<1>1. Len(defs) \in Nat
  BY DEF ShapeInv
<1>2. Extern.kind # "local"
  BY DEF Extern
<1>3. Locals = { i \in 1 .. Len(defs) : IsLocalFunction(defs[i]) }
  BY <1>2, ShapeFacts DEF ShapeInv, Locals, IsLocal
<1>4. AtLocal => at \in Locals
  BY DEF AtLocal, Locals, ShapeInv
<1> QED
  BY <1>1, <1>3, <1>4 DEF This

\* One function is replaced by another.
LEMMA ChangeOne ==
  ASSUME ShapeInv, NEW i \in Locals, NEW f, IsLocalFunction(f), defs' = [defs EXCEPT ![i] = f]
  PROVE  /\ defs' \in Seq(ToSet(defs')) /\ Len(defs') = Len(defs) /\ defs'[i] = f
         /\ \A j \in 1 .. Len(defs) : j # i => defs'[j] = defs[j]
         /\ \A j \in 1 .. Len(defs') : defs'[j] = Extern \/ IsLocalFunction(defs'[j])
         /\ Locals' = Locals
<1> DEFINE S == ToSet(defs) \cup {f}
<1>1. i \in 1 .. Len(defs) /\ Len(defs) \in Nat /\ defs \in Seq(S)
  <2>1. ToSet(defs) \subseteq S /\ defs \in Seq(ToSet(defs))
    BY DEF ShapeInv
  <2> QED
    BY <2>1, OwnElements DEF Locals
<1>2. /\ defs' \in Seq(S) /\ Len(defs') = Len(defs) /\ defs'[i] = f
      /\ \A j \in 1 .. Len(defs) : j # i => defs'[j] = defs[j]
  <2> HIDE DEF S
  <2>1. f \in S
    BY DEF S
  <2> QED
    BY <1>1, <2>1
<1>3. defs' \in Seq(ToSet(defs'))
  BY <1>2, OwnElements
<1>4. \A j \in 1 .. Len(defs') : defs'[j] = Extern \/ IsLocalFunction(defs'[j])
  BY <1>2 DEF ShapeInv
<1>5. Locals' = Locals
  <2>1. f.kind = "local" /\ defs[i].kind = "local"
    BY ShapeFacts DEF Locals, IsLocal
  <2>2. \A j \in 1 .. Len(defs) : defs'[j].kind = defs[j].kind
    BY <1>2, <2>1
  <2> QED
    BY <1>2, <2>2 DEF Locals, IsLocal
<1> QED
  BY <1>2, <1>3, <1>4, <1>5

\* The functions a pass is not at stay as they are.
LEMMA OthersStay ==
  ASSUME ShapeInv, PassesInv, AtLocal, turn = "pipeline", NEW f, IsLocalFunction(f), Becomes(f),
         passed' \in {passed, passed \cup {at}}, NEW n, n = at, FunctionInv(n)'
  PROVE  ShapeInv' /\ PassesInv' /\ plan' = plan /\ turn' = turn
<1>1. /\ n \in Locals /\ n \in Nat /\ n > 0 /\ Len(defs) \in Nat
  BY LocalsAre DEF ShapeInv
<1>2. /\ defs' = [defs EXCEPT ![n] = f] /\ at' = n + 1
      /\ turn' = turn /\ plan' = plan /\ calls' = calls /\ edited' = edited
  BY DEF Becomes, client
<1>3. /\ defs' \in Seq(ToSet(defs')) /\ Len(defs') = Len(defs) /\ defs'[n] = f
      /\ \A j \in 1 .. Len(defs) : j # n => defs'[j] = defs[j]
      /\ \A j \in 1 .. Len(defs') : defs'[j] = Extern \/ IsLocalFunction(defs'[j])
      /\ Locals' = Locals
  BY <1>1, <1>2, ChangeOne
<1>4. ShapeInv'
  BY <1>1, <1>2, <1>3 DEF ShapeInv
<1>5. ASSUME NEW i \in Locals, i # n PROVE FunctionInv(i)'
  <2>1. defs'[i] = defs[i] /\ i \in Nat /\ FunctionInv(i)
    BY <1>3, <1>5 DEF Locals, PassesInv
  <2>2. i < at' <=> i < at
    BY <1>1, <1>2, <1>5, <2>1
  <2>3. \A p : Visited(p, i)' <=> Visited(p, i)
    BY <1>2, <2>2 DEF Visited
  <2>4. i \in passed' <=> i \in passed
    BY <1>5
  <2> QED
    BY <1>2, <2>1, <2>3, <2>4 DEF FunctionInv
<1>6. \A i \in Locals : FunctionInv(i)'
  <2>1. \A i \in Locals : i # n => FunctionInv(i)'
    BY <1>5
  <2>2. FunctionInv(n)'
    OBVIOUS
  <2> HIDE DEF FunctionInv
  <2> QED
    BY <2>1, <2>2
<1>7. PassesInv'
  BY <1>3, <1>6 DEF PassesInv
<1> QED
  BY <1>2, <1>4, <1>7

\* A step that changes no function.
LEMMA FunctionsStay ==
  ASSUME ShapeInv, PassesInv, UNCHANGED <<defs, edited, passed>>, at' \in Nat, at' > 0, calls' \in Nat,
         calls' = calls \/ \A i \in Locals : ~Visited("types", i)',
         \A p \in {"correct", "control_flow", "types"} : \A i \in Locals : Visited(p, i)' => Visited(p, i)
  PROVE  ShapeInv' /\ PassesInv'
<1>1. ShapeInv' /\ Locals' = Locals
  BY DEF ShapeInv, Locals, IsLocal
<1>2. ASSUME NEW i \in Locals PROVE FunctionInv(i)'
  <2>1. FunctionInv(i)
    BY DEF PassesInv
  <2>2. Visited("types", i)' => calls' = calls
    OBVIOUS
  <2> QED
    BY <2>1, <2>2 DEF FunctionInv
<1> QED
  BY <1>1, <1>2 DEF PassesInv

LEMMA IdleEmitter ==
  ASSUME pc' = "idle", frames' = << >>, labels' = << >>, out' = << >>
  PROVE  EmitterInv'
BY DEF EmitterInv, CodeProofs!EmitInv, CodeProofs!NestInv

-----------------------------------------------------------------------------
(* The steps of the pipeline, as to the functions *)

LEMMA StartsRight == Init => ShapeInv /\ PlanInv /\ PassesInv
<1> SUFFICES ASSUME Init PROVE ShapeInv /\ PlanInv /\ PassesInv
  OBVIOUS
<1>1. defs \in Modules /\ turn = "client" /\ at = 1 /\ calls = 0 /\ edited = {} /\ passed = {}
  BY DEF Init
<1>2. /\ defs \in Seq(ToSet(defs))
      /\ \A i \in 1 .. Len(defs) : defs[i] = Extern \/ (IsLocalFunction(defs[i]) /\ defs[i] = Fresh(defs[i]))
  <2>1. \A i \in 1 .. Len(defs) : defs[i] \in ToSet(defs)
    BY DEF ToSet
  <2> QED
    BY <1>1, <2>1, ModulesAssumption
<1>3. ShapeInv /\ PlanInv
  BY <1>1, <1>2 DEF ShapeInv, PlanInv
<1>4. ASSUME NEW i \in Locals PROVE FunctionInv(i)
  <2>1. IsLocalFunction(defs[i]) /\ defs[i] = Fresh(defs[i])
    BY <1>2, <1>3, LocalsAre, ShapeFacts
  <2>2. \A b \in Blocks(defs[i]) : ~Has(defs[i].meta[b], "dist")
    <3> DEFINE f == defs[i]
    <3>1. f.meta = [b \in Blocks(f) |-> NoMetadata]
      <4>1. f = Fresh(f)
        BY <2>1
      <4> HIDE DEF f
      <4> QED
        BY <4>1 DEF Fresh, Local
    <3> HIDE DEF f
    <3>2. \A b \in Blocks(f) : Len(f.meta[b]) = 0
      BY <3>1 DEF NoMetadata
    <3>3. \A b \in Blocks(f) : ~Has(f.meta[b], "dist")
      BY <3>2 DEF Has
    <3> QED
      BY <3>3 DEF f
  <2> QED
    BY <1>1, <2>2 DEF FunctionInv, Visited
<1> QED
  BY <1>3, <1>4 DEF PassesInv

LEMMA ClientKeeps ==
  ASSUME ShapeInv, PlanInv, PassesInv, Call \/ Edit
  PROVE  ShapeInv' /\ PlanInv' /\ PassesInv'
<1>1. CASE Call
  <2>1. /\ turn' = "pipeline" /\ plan' \in Plans /\ Head(plan') = "correct" /\ at' = 1
        /\ calls' = calls + 1 /\ UNCHANGED <<defs, edited, passed>>
    BY <1>1, NewPlans DEF Call
  <2>2. ASSUME NEW p \in {"correct", "control_flow", "types"}, NEW i \in Locals
        PROVE  ~Visited(p, i)'
    <3>1. i \in 1 .. Len(defs) /\ ~ (i < at')
      BY <2>1, LocalsAre DEF Locals
    <3>2. Head(plan') \notin After(p)
      BY <2>1, AfterFacts
    <3> QED
      BY <3>1, <3>2 DEF Visited
  <2>3. at' \in Nat /\ at' > 0 /\ calls' \in Nat
    BY <2>1 DEF ShapeInv
  <2>4. ShapeInv' /\ PassesInv'
    BY <2>1, <2>2, <2>3, FunctionsStay
  <2> QED
    BY <2>1, <2>4 DEF PlanInv
<1>2. CASE Edit
  <2>1. PICK i \in Locals : \E f \in Edits(defs[i]) :
          /\ IsLocalFunction(f) /\ defs' = [defs EXCEPT ![i] = f]
          /\ edited' = {i} /\ passed' = passed \ {i}
    BY <1>2 DEF Edit
  <2>2. PICK f : /\ IsLocalFunction(f) /\ defs' = [defs EXCEPT ![i] = f]
                 /\ edited' = {i} /\ passed' = passed \ {i}
    BY <2>1
  <2>3. turn = "client" /\ edited = {} /\ UNCHANGED <<turn, plan, at, calls>>
    BY <1>2 DEF Edit
  <2>4. /\ defs' \in Seq(ToSet(defs')) /\ Len(defs') = Len(defs)
        /\ \A j \in 1 .. Len(defs) : j # i => defs'[j] = defs[j]
        /\ \A j \in 1 .. Len(defs') : defs'[j] = Extern \/ IsLocalFunction(defs'[j])
        /\ Locals' = Locals
    BY <2>2, ChangeOne
  <2>5. ShapeInv' /\ PlanInv'
    BY <2>3, <2>4 DEF ShapeInv, PlanInv
  <2>6. ASSUME NEW j \in Locals PROVE FunctionInv(j)'
    <3>1. \A p : ~Visited(p, j)'
      BY <2>3 DEF Visited
    <3>2. CASE j = i
      BY <2>2, <3>1, <3>2 DEF FunctionInv
    <3>3. CASE j # i
      <4>1. defs'[j] = defs[j] /\ (j \in passed' <=> j \in passed) /\ j \notin edited /\ FunctionInv(j)
        BY <2>2, <2>3, <2>4, <3>3 DEF Locals, PassesInv
      <4> QED
        BY <3>1, <4>1 DEF FunctionInv
    <3> QED
      BY <3>2, <3>3
  <2> QED
    BY <2>4, <2>5, <2>6 DEF PassesInv
<1> QED
  BY <1>1, <1>2

\* The steps between the functions.
LEMMA PassesKeep ==
  ASSUME ShapeInv, PlanInv, PassesInv,
         \/ SkipExtern \/ EndPass \/ EndFunction \/ Emit
         \/ turn = "pipeline" /\ (Fails \/ Panics) /\ UNCHANGED passed
         \/ UNCHANGED vars
  PROVE  ShapeInv' /\ PlanInv' /\ PassesInv'
<1>1. at \in Nat /\ at > 0 /\ calls \in Nat
  BY DEF ShapeInv
<1>2. \A i \in Locals : i \in 1 .. Len(defs) /\ IsLocal(i) /\ Len(defs) \in Nat
  BY LocalsAre DEF Locals
<1>3. CASE SkipExtern
  <2>1. /\ turn' = turn /\ plan' = plan /\ at' = at + 1 /\ ~IsLocal(at)
        /\ UNCHANGED <<defs, edited, passed, calls>>
    BY <1>3 DEF SkipExtern, client
  <2>2. \A i \in Locals : i < at' => i < at
    BY <1>1, <1>2, <2>1
  <2>3. \A p : \A i \in Locals : Visited(p, i)' => Visited(p, i)
    BY <2>1, <2>2 DEF Visited
  <2>4. ShapeInv' /\ PassesInv'
    BY <1>1, <2>1, <2>3, FunctionsStay
  <2> QED
    BY <2>1, <2>4 DEF PlanInv
<1>4. CASE EndPass
  <2>1. /\ turn = "pipeline" /\ plan # << >> /\ at > Len(defs) /\ plan' = Tail(plan) /\ at' = 1
        /\ UNCHANGED <<defs, edited, passed, calls>>
        /\ \/ turn' = CASE plan' # << >> -> turn [] plan = << "emit" >> -> "compiled" [] OTHER -> "client"
           \/ plan' = << "emit" >> /\ turn' = "unsupported"
    BY <1>4 DEF EndPass, ModuleUnsupported, client
  <2> DEFINE left == plan' # << >>  emitted == plan = << "emit" >>
  <2>2. \/ turn' = CASE left -> turn [] emitted -> "compiled" [] OTHER -> "client"
        \/ left /\ turn' = "unsupported"
    BY <2>1
  <2>3. emitted => ~left
    BY <2>1
  <2> HIDE DEF left, emitted
  <2>4. (left => turn' \in {turn, "unsupported"}) /\ (~left => turn' \in {"client", "compiled"})
    BY <2>2, <2>3
  <2>5. plan' = << >> \/ (plan' \in Plans /\ Follows(Head(plan), Head(plan')))
    BY <2>1, PlanFacts DEF PlanInv
  <2>6. ASSUME NEW p \in {"correct", "control_flow", "types"}, NEW i \in Locals, Visited(p, i)'
        PROVE  Visited(p, i)
    <3>1. i < at /\ ~ (i < at')
      BY <1>1, <1>2, <2>1
    <3>2. turn' = "pipeline" /\ Head(plan') \in After(p)
      BY <2>6, <3>1 DEF Visited
    <3>3. Follows(Head(plan), Head(plan'))
      BY <2>5, <2>4, <3>2 DEF left
    <3>4. Head(plan) \in After(p) \/ Head(plan) = p
      BY <3>2, <3>3, AfterFacts DEF Follows
    <3> QED
      BY <2>1, <3>1, <3>4 DEF Visited
  <2>7. ShapeInv' /\ PassesInv'
    BY <1>1, <2>1, <2>6, FunctionsStay
  <2>8. PlanInv'
    BY <2>5, <2>4 DEF PlanInv, left
  <2> QED
    BY <2>7, <2>8
<1>5. CASE EndFunction
  <2>1. /\ turn = "pipeline" /\ Head(plan) = "emit" /\ plan' = plan /\ at' \in {at, at + 1}
        /\ turn' \in {turn, "failed", "unsupported"} /\ UNCHANGED <<defs, edited, passed, calls>>
    BY <1>5 DEF EndFunction, Running, client
  <2>2. ASSUME NEW p \in {"correct", "control_flow", "types"}, NEW i \in Locals
        PROVE  Visited(p, i)
    <3>1. Head(plan) \in After(p)
      BY <2>1, AfterFacts
    <3> QED
      BY <2>1, <3>1 DEF Visited
  <2>3. ShapeInv' /\ PassesInv'
    BY <1>1, <2>1, <2>2, FunctionsStay
  <2> QED
    BY <2>1, <2>3 DEF PlanInv
<1>6. CASE turn = "pipeline" /\ (Fails \/ Panics) /\ UNCHANGED passed
  <2>1. turn' # "pipeline" /\ at' = at /\ UNCHANGED <<defs, edited, passed, calls>>
    BY <1>6 DEF Fails, Panics, client
  <2>2. \A p, i : ~Visited(p, i)'
    BY <2>1 DEF Visited
  <2>3. ShapeInv' /\ PassesInv'
    BY <1>1, <2>1, <2>2, FunctionsStay
  <2> QED
    BY <2>1, <2>3 DEF PlanInv
<1>7. CASE Emit \/ UNCHANGED vars
  <2>1. UNCHANGED <<defs, turn, plan, at, calls, edited, passed>>
    BY <1>7 DEF Emit, vars, client
  <2>2. \A p, i : Visited(p, i)' <=> Visited(p, i)
    BY <2>1 DEF Visited
  <2>3. ShapeInv' /\ PassesInv'
    BY <1>1, <2>1, <2>2, FunctionsStay
  <2> QED
    BY <2>1, <2>3 DEF PlanInv
<1> QED
  BY <1>3, <1>4, <1>5, <1>6, <1>7

LEMMA CorrectKeeps ==
  ASSUME ShapeInv, PlanInv, PassesInv, Correct
  PROVE  ShapeInv' /\ PlanInv' /\ PassesInv'
<1> DEFINE g == Cut(This)
<1>1. turn = "pipeline" /\ Head(plan) = "correct" /\ AtLocal /\ Becomes(g) /\ passed' = passed
  BY CorrectCuts DEF Correct, Running
<1>2. PICK n : n = at
  OBVIOUS
<1>3. IsLocalFunction(This) /\ n \in Locals /\ This = defs[n] /\ FunctionInv(n)
  BY <1>1, <1>2, LocalsAre DEF PassesInv
<1>4. /\ IsLocalFunction(g) /\ Corrected(g) /\ g.tag = This.tag /\ g.meta = This.meta
      /\ Right(This) => g = This
  BY <1>3, CutFacts DEF Right
<1>5. /\ defs'[n] = g /\ turn' = turn /\ plan' = plan /\ edited' = edited /\ calls' = calls
  BY <1>1, <1>2, <1>3, <1>4, ChangeOne DEF Becomes, client
<1>6. ~Visited("control_flow", n)' /\ ~Visited("types", n)'
  BY <1>1, <1>5, AfterFacts DEF Visited
<1> HIDE DEF g
<1>7. FunctionInv(n)'
  <2>1. n \in passed' => Right(defs'[n])
    BY <1>1, <1>3, <1>4, <1>5 DEF FunctionInv
  <2>2. ASSUME n \notin edited', NEW b \in Blocks(defs'[n]), Has(defs'[n].meta[b], "dist")
        PROVE  n \in passed' /\ b \in InLoops(defs'[n])
    <3>1. b \in Blocks(This) /\ Has(This.meta[b], "dist") /\ n \notin edited
      BY <1>4, <1>5, <2>2 DEF Blocks
    <3>2. n \in passed /\ b \in InLoops(This)
      BY <1>3, <3>1 DEF FunctionInv
    <3>3. Right(This)
      BY <1>3, <3>2 DEF FunctionInv
    <3> QED
      BY <1>1, <1>4, <1>5, <3>2, <3>3
  <2>3. Corrected(defs'[n])
    BY <1>4, <1>5
  <2> QED
    BY <1>6, <2>1, <2>2, <2>3 DEF FunctionInv
<1>8. ShapeInv' /\ PassesInv' /\ plan' = plan /\ turn' = turn
  BY <1>1, <1>2, <1>4, <1>7, OthersStay
<1> QED
  BY <1>8 DEF PlanInv

LEMMA ControlFlowKeeps ==
  ASSUME ShapeInv, PlanInv, PassesInv, VerifyControlFlow
  PROVE  ShapeInv' /\ PlanInv' /\ PassesInv'
<1>1. turn = "pipeline" /\ Head(plan) = "control_flow" /\ AtLocal
  BY DEF VerifyControlFlow, Running
<1>2. CASE (Fails \/ Panics) /\ UNCHANGED passed
  BY <1>1, <1>2, PassesKeep
<1>3. CASE /\ ControlFlowPass!Accepts(This)
           /\ Becomes([This EXCEPT !.meta = StoreDistances])
           /\ passed' = passed \cup {at}
  <2> DEFINE g == [This EXCEPT !.meta = StoreDistances]
  <2>1. PICK n : n = at
    OBVIOUS
  <2>2. IsLocalFunction(This) /\ n \in Locals /\ This = defs[n] /\ FunctionInv(n)
    BY <1>1, <2>1, LocalsAre DEF PassesInv
  <2>3. Visited("correct", n)
    BY <1>1, AfterFacts DEF Visited
  <2>4. Regular(This) /\ Corrected(This)
    BY <1>3, <2>2, <2>3, AcceptsRegular DEF FunctionInv
  <2>5. /\ IsLocalFunction(g) /\ g.tag = This.tag /\ Right(g)
        /\ InLoops(g) = InLoops(This)
        /\ \A b \in Blocks(This) \ InLoops(This) : g.meta[b] = This.meta[b]
    BY <2>2, <2>4, StoredDistances
  <2>6. Becomes(g) /\ passed' = passed \cup {n}
    BY <1>3, <2>1
  <2> HIDE DEF g
  <2>7. defs'[n] = g /\ turn' = turn /\ plan' = plan /\ edited' = edited /\ calls' = calls
    BY <2>1, <2>2, <2>5, <2>6, ChangeOne DEF Becomes, client
  <2>8. ~Visited("types", n)'
    BY <1>1, <2>7, AfterFacts DEF Visited
  <2>9. FunctionInv(n)'
    <3>1. ASSUME n \notin edited', NEW b \in Blocks(defs'[n]), Has(defs'[n].meta[b], "dist")
          PROVE  b \in InLoops(defs'[n])
      <4>1. CASE b \in InLoops(This)
        BY <2>5, <2>7, <4>1
      <4>2. CASE b \notin InLoops(This)
        <5>1. b \in Blocks(This) /\ Has(This.meta[b], "dist") /\ n \notin edited
          BY <2>5, <2>7, <3>1, <4>2 DEF Blocks
        <5> QED
          BY <2>2, <4>2, <5>1 DEF FunctionInv
      <4> QED
        BY <4>1, <4>2
    <3>2. Right(defs'[n]) /\ Corrected(defs'[n]) /\ n \in passed'
      BY <2>5, <2>6, <2>7 DEF Right
    <3> QED
      BY <2>8, <3>1, <3>2 DEF FunctionInv
  <2>10. ShapeInv' /\ PassesInv' /\ plan' = plan /\ turn' = turn
    BY <1>1, <2>1, <2>5, <2>6, <2>9, OthersStay
  <2> QED
    BY <2>10 DEF PlanInv
<1> QED
  BY <1>2, <1>3 DEF VerifyControlFlow

LEMMA TypesKeep ==
  ASSUME ShapeInv, PlanInv, PassesInv, VerifyTypes
  PROVE  ShapeInv' /\ PlanInv' /\ PassesInv'
<1>1. turn = "pipeline" /\ Head(plan) = "types" /\ AtLocal /\ passed' = passed
  BY DEF VerifyTypes, Running
<1>2. CASE Fails \/ Panics
  BY <1>1, <1>2, PassesKeep
<1>3. CASE Becomes([This EXCEPT !.notes = StoreNotes])
  <2> DEFINE g == [This EXCEPT !.notes = StoreNotes]
  <2>1. PICK n : n = at
    OBVIOUS
  <2>2. IsLocalFunction(This) /\ n \in Locals /\ This = defs[n] /\ FunctionInv(n) /\ calls \in Nat
    BY <1>1, <2>1, LocalsAre DEF PassesInv, ShapeInv
  <2>3. Visited("correct", n) /\ Visited("control_flow", n)
    BY <1>1, AfterFacts DEF Visited
  <2>4. n \in passed /\ Right(This)
    BY <2>2, <2>3 DEF FunctionInv
  <2>5. /\ IsLocalFunction(g) /\ g.tag = This.tag /\ g.body = This.body /\ g.meta = This.meta
        /\ NotesOf(g, calls)
    BY <2>2, <2>4, StoredNotes DEF Right
  <2>6. Becomes(g)
    BY <1>3
  <2> HIDE DEF g
  <2>7. defs'[n] = g /\ turn' = turn /\ plan' = plan /\ edited' = edited /\ calls' = calls
    BY <2>1, <2>2, <2>5, <2>6, ChangeOne DEF Becomes, client
  <2>8. Right(g) /\ InLoops(g) = InLoops(This)
    <3>1. SameTree(This, g) /\ WellFormed(g) /\ Corrected(g)
      BY <2>4, <2>5, SameCode DEF Right, Regular
    <3> QED
      BY <2>4, <2>5, <3>1, RightMoves
  <2>9. FunctionInv(n)'
    <3>1. ASSUME n \notin edited', NEW b \in Blocks(defs'[n]), Has(defs'[n].meta[b], "dist")
          PROVE  b \in InLoops(defs'[n])
      <4>1. b \in Blocks(This) /\ Has(This.meta[b], "dist") /\ n \notin edited
        BY <2>5, <2>7, <3>1 DEF Blocks
      <4> QED
        BY <2>2, <2>7, <2>8, <4>1 DEF FunctionInv
    <3>2. Right(defs'[n]) /\ Corrected(defs'[n]) /\ n \in passed' /\ NotesOf(defs'[n], calls')
      BY <1>1, <2>4, <2>5, <2>7, <2>8 DEF Right
    <3> QED
      BY <3>1, <3>2 DEF FunctionInv
  <2>10. ShapeInv' /\ PassesInv' /\ plan' = plan /\ turn' = turn
    BY <1>1, <2>1, <2>5, <2>6, <2>9, OthersStay
  <2> QED
    BY <2>10 DEF PlanInv
<1> QED
  BY <1>2, <1>3 DEF VerifyTypes

LEMMA OptimiseKeeps ==
  ASSUME ShapeInv, PlanInv, PassesInv, Optimise
  PROVE  ShapeInv' /\ PlanInv' /\ PassesInv'
<1> DEFINE g == Opt(This)
<1>1. turn = "pipeline" /\ Head(plan) = "optimise" /\ AtLocal /\ Becomes(g) /\ passed' = passed
  BY OptimiseOpts DEF Optimise, Running
<1>2. PICK n : n = at
  OBVIOUS
<1>3. IsLocalFunction(This) /\ n \in Locals /\ This = defs[n] /\ FunctionInv(n)
  BY <1>1, <1>2, LocalsAre DEF PassesInv
<1>4. Visited("correct", n) /\ Visited("control_flow", n) /\ Visited("types", n)
  BY <1>1, AfterFacts DEF Visited
<1>5. n \in passed /\ Right(This) /\ NotesOf(This, calls)
  BY <1>3, <1>4 DEF FunctionInv
<1>6. /\ IsLocalFunction(g) /\ g.tag = This.tag /\ g.meta = This.meta
      /\ Corrected(This) => Corrected(g)
      /\ NotesOf(g, calls)
      /\ LET m == [p \in Positions(g) |-> Was(This, p)] IN
         Embeds(This, g, m) /\ Covers(This, g, m)
  BY <1>3, <1>5, OptFacts
<1> HIDE DEF g
<1>7. SameTree(This, g) /\ WellFormed(g) /\ Corrected(g)
  BY <1>5, <1>6, EmbedKeeps DEF Right, Regular
<1>8. Right(g) /\ InLoops(g) = InLoops(This)
  BY <1>5, <1>6, <1>7, RightMoves
<1>9. defs'[n] = g /\ turn' = turn /\ plan' = plan /\ edited' = edited /\ calls' = calls
  BY <1>1, <1>2, <1>3, <1>6, ChangeOne DEF Becomes, client
<1>10. FunctionInv(n)'
  <2>1. ASSUME n \notin edited', NEW b \in Blocks(defs'[n]), Has(defs'[n].meta[b], "dist")
        PROVE  b \in InLoops(defs'[n])
    <3>1. b \in Blocks(This) /\ Has(This.meta[b], "dist") /\ n \notin edited
      BY <1>6, <1>9, <2>1 DEF Blocks
    <3> QED
      BY <1>3, <1>8, <1>9, <3>1 DEF FunctionInv
  <2>2. Right(defs'[n]) /\ Corrected(defs'[n]) /\ n \in passed' /\ NotesOf(defs'[n], calls')
    BY <1>1, <1>5, <1>6, <1>8, <1>9 DEF Right
  <2> QED
    BY <2>1, <2>2 DEF FunctionInv
<1>11. ShapeInv' /\ PassesInv' /\ plan' = plan /\ turn' = turn
  BY <1>1, <1>2, <1>6, <1>10, OthersStay
<1> QED
  BY <1>11 DEF PlanInv

LEMMA FunctionsKeep ==
  ASSUME ShapeInv, PlanInv, PassesInv, [Next]_vars
  PROVE  ShapeInv' /\ PlanInv' /\ PassesInv'
<1>1. ChaseForEver \/ Finished => UNCHANGED vars
  BY DEF ChaseForEver, Finished
<1> QED
  BY <1>1, ClientKeeps, PassesKeep, CorrectKeeps, ControlFlowKeeps, TypesKeep, OptimiseKeeps
  DEF Next, Step

-----------------------------------------------------------------------------
(* The steps of the pipeline, as to the emitter *)

\* The emitter of the pipeline and the one the lemmas are about are the same.
LEMMA SameNotions ==
  /\ \A f : CodeProofs!IsFunction(f) <=> IsFunction(f)
  /\ \A f : CodeProofs!WellFormed(f) <=> WellFormed(f)
  /\ \A f, d : CodeProofs!LoopDistances(f, d) <=> LoopDistances(f, d)
<1>1. \A i : CodeProofs!Refs(i) = Refs(i)
  BY DEF CodeProofs!Refs, CodeProofs!Ref, CodeProofs!NoBlock, Refs, Ref, NoBlock
<1>2. \A f : CodeProofs!Blocks(f) = Blocks(f)
  BY DEF CodeProofs!Blocks, Blocks
<1>3. \A f : CodeProofs!Positions(f) = Positions(f)
  BY <1>1, <1>2 DEF CodeProofs!Positions, Positions, CodeProofs!Pos, Pos
<1>4. \A f, p : CodeProofs!RefAt(f, p) = RefAt(f, p)
  BY <1>1 DEF CodeProofs!RefAt, RefAt
<1>5. \A f, b, c : CodeProofs!IsParent(f, b, c) <=> IsParent(f, b, c)
  BY <1>3, <1>4 DEF CodeProofs!IsParent, IsParent
<1>6. \A f, t : CodeProofs!OfTag(f, t) = OfTag(f, t)
  BY <1>2 DEF CodeProofs!OfTag, OfTag
<1>7. \A f : CodeProofs!IsFunction(f) <=> IsFunction(f)
  BY <1>1, <1>2 DEF CodeProofs!IsFunction, CodeProofs!Entry, CodeProofs!Tags, IsFunction, Entry, Tags
<1>8. \A f : CodeProofs!WellFormed(f) <=> WellFormed(f)
  BY <1>2, <1>3, <1>4
  DEF CodeProofs!WellFormed, CodeProofs!EntryIsMain, CodeProofs!RefsResolve,
      CodeProofs!SingleUse, CodeProofs!EntryUnused, CodeProofs!Entry,
      WellFormed, EntryIsMain, RefsResolve, SingleUse, EntryUnused, Entry
<1>9. \A f, d : CodeProofs!LoopDistances(f, d) <=> LoopDistances(f, d)
  BY <1>2, <1>5, <1>6 DEF CodeProofs!LoopDistances, LoopDistances
<1> QED
  BY <1>7, <1>8, <1>9

LEMMA SameEmitter == Code!Next <=> CodeProofs!Next
<1>1. Code!Top = CodeProofs!Top /\ Code!Instr = CodeProofs!Instr /\ Code!Advance = CodeProofs!Advance
  BY DEF Code!Top, Code!Instr, Code!Advance, CodeProofs!Top, CodeProofs!Instr, CodeProofs!Advance
<1>2. Code!AtInstr <=> CodeProofs!AtInstr
  BY <1>1 DEF Code!AtInstr, CodeProofs!AtInstr
<1>3. /\ \A op : Code!W(op) = CodeProofs!W(op)
      /\ \A i : Code!Plain(i) = CodeProofs!Plain(i) /\ Code!Needs(i) = CodeProofs!Needs(i)
      /\ \A n : Code!Br(n) = CodeProofs!Br(n)
      /\ \A s : Code!Front(s) = CodeProofs!Front(s)
      /\ Code!NoBlock = CodeProofs!NoBlock /\ Code!Entry = CodeProofs!Entry
  BY DEF Code!W, Code!Plain, Code!Br, Code!Needs, Code!Front, Code!NoBlock, Code!Entry,
         CodeProofs!W, CodeProofs!Plain, CodeProofs!Br, CodeProofs!Needs, CodeProofs!Front,
         CodeProofs!NoBlock, CodeProofs!Entry
<1>4. \A b, h : Code!Frame(b, h) = CodeProofs!Frame(b, h)
  BY DEF Code!Frame, CodeProofs!Frame
<1>5. \A b, ls : Code!Call(b, ls) = CodeProofs!Call(b, ls)
  BY <1>4 DEF Code!Call, CodeProofs!Call
<1>6. Code!CompileFunc <=> CodeProofs!CompileFunc
  BY <1>3, <1>4 DEF Code!CompileFunc, CodeProofs!CompileFunc
<1>7. Code!EmitPlain <=> CodeProofs!EmitPlain
  BY <1>1, <1>2, <1>3 DEF Code!EmitPlain, CodeProofs!EmitPlain, Code!MayLackCode, CodeProofs!MayLackCode
<1>8. Code!EnterThen <=> CodeProofs!EnterThen
  BY <1>1, <1>2, <1>3, <1>5 DEF Code!EnterThen, CodeProofs!EnterThen
<1>9. Code!EnterElse <=> CodeProofs!EnterElse
  BY <1>1, <1>2, <1>3, <1>5 DEF Code!EnterElse, CodeProofs!EnterElse
<1>10. Code!EndIf <=> CodeProofs!EndIf
  BY <1>1, <1>2, <1>3 DEF Code!EndIf, CodeProofs!EndIf
<1>11. Code!EnterLoop <=> CodeProofs!EnterLoop
  BY <1>1, <1>2, <1>3, <1>5 DEF Code!EnterLoop, CodeProofs!EnterLoop
<1>12. Code!EndLoop <=> CodeProofs!EndLoop
  BY <1>1, <1>2, <1>3 DEF Code!EndLoop, CodeProofs!EndLoop
<1>13. Code!EmitBreak <=> CodeProofs!EmitBreak
  BY <1>1, <1>2, <1>3 DEF Code!EmitBreak, CodeProofs!EmitBreak
<1>14. Code!EndBlock <=> CodeProofs!EndBlock
  BY <1>1, <1>3 DEF Code!EndBlock, CodeProofs!EndBlock
<1>15. Code!EndFunc <=> CodeProofs!EndFunc
  BY <1>3 DEF Code!EndFunc, CodeProofs!EndFunc
<1> QED
  BY <1>6, <1>7, <1>8, <1>9, <1>10, <1>11, <1>12, <1>13, <1>14, <1>15 DEF Code!Next, CodeProofs!Next

\* The distances that the emitter retrieves.
LEMMA SeenDistances ==
  ASSUME NEW f, Right(f)
  PROVE  /\ LoopDistances(f, [b \in InLoops(f) |-> Seen(f).dist[b]])
         /\ Outdated(f) = {} => LoopDistances(f, Seen(f).dist)
<1> DEFINE d == [b \in InLoops(f) |-> Seen(f).dist[b]]  D == InnermostLoops(f)
           stored == { b \in Blocks(f) : Has(f.meta[b], "dist") }
           found == [b \in stored |-> Retrieve(f.meta[b], "dist")]
<1>1. Seen(f).dist = found
  BY DEF Seen
<1>2. /\ LoopDistances(f, D) /\ InLoops(f) = DOMAIN D /\ InLoops(f) \subseteq stored
      /\ \A b \in InLoops(f) : found[b] = D[b]
  BY LoopsOfRegular DEF Right, InLoops
<1> HIDE DEF found, stored, D
<1>3. DOMAIN d = DOMAIN D /\ \A b \in DOMAIN D : d[b] = D[b]
  BY <1>1, <1>2
<1> HIDE DEF d
<1>4. LoopDistances(f, d)
  BY <1>2, <1>3 DEF LoopDistances
<1>5. ASSUME Outdated(f) = {} PROVE LoopDistances(f, Seen(f).dist)
  <2>1. DOMAIN found = DOMAIN D
    BY <1>1, <1>2, <1>5 DEF Outdated, found
  <2> QED
    BY <1>1, <1>2, <2>1 DEF LoopDistances
<1> QED
  BY <1>4, <1>5 DEF d

\* What the emitter finds.
LEMMA EmitterFinds ==
  ASSUME PipelineInv, Emitting, AtLocal
  PROVE  /\ Right(This) /\ NotesOf(This, calls)
         /\ IsFunction(Seen(This)) /\ WellFormed(Seen(This)) /\ CodeProofs!Compilable(Seen(This))
         /\ CodeProofs!EmitInv /\ out \in Seq(CodeProofs!CodeOf(Seen(This)))
         /\ Outdated(This) = {} => CodeProofs!NestInv /\ CodeProofs!LoopDistances(Seen(This), Seen(This).dist)
<1>1. ShapeInv /\ at \in Locals /\ This = defs[at] /\ IsLocalFunction(This) /\ FunctionInv(at)
  BY LocalsAre DEF PipelineInv, PassesInv
<1>2. Visited("control_flow", at) /\ Visited("types", at)
  BY AfterFacts DEF Emitting, Running, Visited
<1>3. Right(This) /\ NotesOf(This, calls)
  BY <1>1, <1>2 DEF FunctionInv
<1> DEFINE f == This  s == Seen(f)
<1>4. s.tag = f.tag /\ s.body = f.body
  BY DEF Seen
<1> HIDE DEF s
<1>5. IsFunction(s) /\ WellFormed(s) /\ SameTree(f, s)
  BY <1>1, <1>3, <1>4, ShapeFacts, SameCode DEF Right, Regular
<1>6. CodeProofs!Compilable(s)
  BY <1>5, SameNotions DEF CodeProofs!Compilable
<1>7. Outdated(This) = {} => CodeProofs!LoopDistances(s, Seen(This).dist)
  BY <1>3, <1>5, SeenDistances, TreeKeeps, SameNotions
<1>8. /\ CodeProofs!EmitInv /\ out \in Seq(CodeProofs!CodeOf(Seen(This)))
      /\ Outdated(This) = {} => CodeProofs!NestInv
  BY DEF PipelineInv, EmitterInv
<1> QED
  BY <1>3, <1>5, <1>6, <1>7, <1>8 DEF s

LEMMA EmitKeeps ==
  ASSUME PipelineInv, Emit
  PROVE  EmitterInv'
<1>1. Emitting /\ AtLocal /\ UNCHANGED <<defs, turn, plan, at>> /\ CodeProofs!Next
  BY SameEmitter DEF Emit, Emitting
<1>2. Emitting' /\ AtLocal' /\ This' = This /\ Outdated(This)' = Outdated(This) /\ Seen(This)' = Seen(This)
  BY <1>1 DEF Emitting, Running, AtLocal, IsLocal, This
<1>3. CodeProofs!EmitInv'
  BY <1>1, EmitterFinds, CodeProofs!EmitStep
<1>4. out' \in Seq(CodeProofs!CodeOf(Seen(This)))
  BY <1>1, EmitterFinds, CodeProofs!CodeGrows
<1>5. Outdated(This) = {} => CodeProofs!NestInv'
  BY <1>1, EmitterFinds, CodeProofs!NestStep
<1> QED
  BY <1>2, <1>3, <1>4, <1>5 DEF EmitterInv

LEMMA EmitterKeeps ==
  ASSUME PipelineInv, [Next]_vars
  PROVE  EmitterInv'
<1>1. CASE Emit
  BY <1>1, EmitKeeps
<1>2. CASE EndFunction
  BY <1>2, IdleEmitter DEF EndFunction
<1>3. ASSUME ~ (Emitting /\ AtLocal), UNCHANGED emitter
      PROVE  EmitterInv'
  BY <1>3, IdleEmitter DEF PipelineInv, EmitterInv, emitter
<1>4. CASE Call \/ Edit
  BY <1>3, <1>4 DEF Call, Edit, Emitting, Running
<1>5. CASE SkipExtern
  BY <1>3, <1>5 DEF SkipExtern, AtLocal
<1>6. CASE EndPass
  <2>1. ~AtLocal
    BY <1>6, LocalsAre DEF EndPass, AtLocal, PipelineInv, ShapeInv
  <2> QED
    BY <1>3, <1>6, <2>1 DEF EndPass
<1>7. CASE Correct \/ Optimise
  BY <1>3, <1>7 DEF Correct, Optimise, Emitting, Running, Becomes
<1>8. CASE VerifyControlFlow
  BY <1>3, <1>8 DEF VerifyControlFlow, Emitting, Running, Becomes, Fails, Panics
<1>9. CASE VerifyTypes
  BY <1>3, <1>9 DEF VerifyTypes, Emitting, Running, Becomes, Fails, Panics
<1>10. CASE UNCHANGED vars
  <2>1. UNCHANGED <<defs, turn, plan, at, emitter>>
    BY <1>10 DEF vars
  <2>2. This' = This /\ (Emitting' <=> Emitting) /\ (AtLocal' <=> AtLocal)
    BY <2>1 DEF This, Emitting, Running, AtLocal, IsLocal
  <2>3. Seen(This)' = Seen(This) /\ Outdated(This)' = Outdated(This)
    BY <2>2
  <2>4. (CodeProofs!EmitInv' <=> CodeProofs!EmitInv) /\ (CodeProofs!NestInv' <=> CodeProofs!NestInv)
    BY <2>1, <2>3 DEF CodeProofs!EmitInv, CodeProofs!NestInv, emitter
  <2> QED
    BY <2>1, <2>2, <2>3, <2>4 DEF PipelineInv, EmitterInv, emitter
<1>11. ChaseForEver \/ Finished => UNCHANGED vars
  BY DEF ChaseForEver, Finished
<1> QED
  BY <1>1, <1>2, <1>4, <1>5, <1>6, <1>7, <1>8, <1>9, <1>10, <1>11 DEF Next, Step

-----------------------------------------------------------------------------
(* The theorems *)

LEMMA PipelineInvHolds == Spec => []PipelineInv
<1>1. Init => PipelineInv
  <2> SUFFICES ASSUME Init PROVE PipelineInv
    OBVIOUS
  <2>1. pc = "idle" /\ frames = << >> /\ labels = << >> /\ out = << >> /\ turn = "client"
    BY DEF Init, Code!Init
  <2>2. EmitterInv
    BY <2>1 DEF EmitterInv, Emitting, Running
  <2> QED
    BY <2>2, StartsRight DEF PipelineInv
<1>2. PipelineInv /\ [Next]_vars => PipelineInv'
  BY FunctionsKeep, EmitterKeeps DEF PipelineInv
<1> QED
  BY <1>1, <1>2, PTL DEF Spec

(***************************************************************************)
(* Whatever the module was when it was last verified, and whatever a pass  *)
(* of the client's own has made of it since: when the emitter of emit.rs   *)
(* runs, every function is regular and the distances that                  *)
(* mutate_function of cf_verify.rs has stored are those of its loops.      *)
(***************************************************************************)
THEOREM EmitterMeetsVerified == Spec => []EmitsVerified
<1>1. PipelineInv => EmitsVerified
  <2> SUFFICES ASSUME PipelineInv, Emitting, NEW i \in Locals
               PROVE  /\ WellFormed(defs[i]) /\ ~Knotted(defs[i])
                      /\ \A b \in InLoops(defs[i]) : Has(defs[i].meta[b], "dist")
                      /\ LoopDistances(defs[i], [b \in InLoops(defs[i]) |-> Seen(defs[i]).dist[b]])
                      /\ Outdated(defs[i]) # {} => i \in edited
    BY DEF EmitsVerified
  <2>1. FunctionInv(i) /\ Visited("control_flow", i)
    BY AfterFacts DEF PipelineInv, PassesInv, Visited, Emitting, Running
  <2>2. Right(defs[i])
    BY <2>1 DEF FunctionInv
  <2>3. LoopDistances(defs[i], [b \in InLoops(defs[i]) |-> Seen(defs[i]).dist[b]])
    BY <2>2, SeenDistances
  <2>4. DOMAIN Seen(defs[i]).dist = { b \in Blocks(defs[i]) : Has(defs[i].meta[b], "dist") }
    BY DEF Seen
  <2>5. Outdated(defs[i]) # {} => i \in edited
    BY <2>1, <2>4 DEF FunctionInv, Outdated
  <2> QED
    BY <2>2, <2>3, <2>5 DEF Right, Regular
<1> QED
  BY <1>1, PipelineInvHolds, PTL

(***************************************************************************)
(* Every type note that emit.rs unwraps at an instruction was made by      *)
(* verify.rs in the same call of the pipeline and for that instruction,    *)
(* although the optimiser has moved it since and older notes are below.    *)
(***************************************************************************)
THEOREM NotesAreOfThisCall == Spec => []NotesAreFresh
<1>1. PipelineInv => NotesAreFresh
  <2> SUFFICES ASSUME PipelineInv, Emitting, NEW i \in Locals PROVE NotesOf(defs[i], calls)
    BY DEF NotesAreFresh, NotesOf
  <2>1. FunctionInv(i) /\ Visited("types", i)
    BY AfterFacts DEF PipelineInv, PassesInv, Visited, Emitting, Running
  <2> QED
    BY <2>1 DEF FunctionInv
<1> QED
  BY <1>1, PipelineInvHolds, PTL

(***************************************************************************)
(* No active call of compile_block is for a block that another one is for, *)
(* whatever was made of the module before it was compiled: the recursion   *)
(* of emit.rs is never deeper than the function has blocks.                *)
(***************************************************************************)
THEOREM RecursionIsBounded == Spec => []NoBlockInItself
<1>1. PipelineInv => NoBlockInItself
  <2> SUFFICES ASSUME PipelineInv, Emitting, AtLocal PROVE Code!NoBlockInItself
    BY DEF NoBlockInItself
  <2> DEFINE s == Seen(This)
  <2>1. CodeProofs!EmitInv /\ CodeProofs!Compilable(s)
    BY EmitterFinds
  <2>2. CASE pc \in {"idle", "done"}
    <3>1. frames = << >>
      BY <2>1, <2>2 DEF CodeProofs!EmitInv
    <3> QED
      BY <3>1 DEF Code!NoBlockInItself
  <2>3. CASE pc \in {"emit", "panicked", "unsupported"}
    <3>1. CodeProofs!Stack(s, frames, labels)
      BY <2>1, <2>3 DEF CodeProofs!EmitInv
    <3>2. CodeProofs!IsFunction(s) /\ CodeProofs!SingleUse(s) /\ CodeProofs!EntryUnused(s)
      BY <2>1 DEF CodeProofs!Compilable, CodeProofs!WellFormed
    <3>3. \A j, k \in 1 .. Len(frames) : frames[j].block = frames[k].block => j = k
      BY <3>1, <3>2, CodeProofs!CallsDiffer
    <3> QED
      BY <3>3 DEF Code!NoBlockInItself
  <2> QED
    BY <2>1, <2>2, <2>3 DEF CodeProofs!EmitInv
<1> QED
  BY <1>1, PipelineInvHolds, PTL

(***************************************************************************)
(* The code that emit.rs finishes for a function whose distances are those *)
(* of its last verification closes what it opens and no more, has each     *)
(* else inside of an if, and each br names a construct that is open.       *)
(***************************************************************************)
THEOREM FinishedCodeNests == Spec => []CodeNests
<1>1. CodeProofs!CodeNests <=> Code!CodeNests
  <2>1. /\ \A open, w : CodeProofs!OpenOn(open, w) = Code!OpenOn(open, w)
        /\ \A s : CodeProofs!Last(s) = Code!Last(s)
    BY DEF CodeProofs!OpenOn, Code!OpenOn, CodeProofs!Front, Code!Front, CodeProofs!Last, Code!Last
  <2>2. \A code : CodeProofs!OpenAfter(code) = Code!OpenAfter(code)
    BY <2>1 DEF CodeProofs!OpenAfter, Code!OpenAfter
  <2> QED
    BY <2>1, <2>2 DEF CodeProofs!CodeNests, Code!CodeNests
<1>2. PipelineInv => CodeNests
  <2> SUFFICES ASSUME PipelineInv, Emitting, AtLocal, Outdated(This) = {} PROVE Code!CodeNests
    BY DEF CodeNests
  <2>1. CodeProofs!NestInv
    BY EmitterFinds
  <2> QED
    BY <1>1, <2>1, CodeProofs!NestedCode
<1> QED
  BY <1>2, PipelineInvHolds, PTL

\* While code is emitted the emitter takes a step, or what it has emitted for
\* the function is stored and nothing more is added.
LEMMA EmittingSteps ==
  ASSUME PipelineInv, Next, Emitting, AtLocal
  PROVE  CodeProofs!Next \/ pc \in {"done", "panicked", "unsupported"}
<1>1. turn = "pipeline" /\ Head(plan) = "emit" /\ at \in Nat /\ Len(defs) \in Nat
  BY LocalsAre DEF Emitting, Running, PipelineInv, ShapeInv
<1>2. Emit \/ EndFunction
  BY <1>1 DEF Next, Step, Call, Edit, SkipExtern, EndPass, Correct, VerifyControlFlow, VerifyTypes,
              Optimise, ChaseForEver, Finished, Running, AtLocal
<1> QED
  BY <1>2, SameEmitter DEF Emit, EndFunction

(***************************************************************************)
(* The br that emit.rs makes of a Break leaves the block construct around  *)
(* the innermost loop, for a function whose distances are those of its     *)
(* last verification, however often it was verified and optimised.         *)
(***************************************************************************)
THEOREM BreaksLeaveTheirLoop == Spec => BreakLeavesInnermostLoop
<1>1. ASSUME PipelineInv, Next, Emitting, AtLocal, Outdated(This) = {}
      PROVE  Code!BreakLeaves
  <2>1. CASE CodeProofs!Next
    <3>1. CodeProofs!BreakLeaves
      BY <1>1, <2>1, EmitterFinds, CodeProofs!BreakStep
    <3>2. Code!Top = CodeProofs!Top /\ Code!Instr = CodeProofs!Instr
      BY DEF Code!Top, Code!Instr, CodeProofs!Top, CodeProofs!Instr
    <3>3. Code!AtInstr <=> CodeProofs!AtInstr
      BY <3>2 DEF Code!AtInstr, CodeProofs!AtInstr
    <3>4. \A br : Code!LeavesInnermostLoop(br) <=> CodeProofs!LeavesInnermostLoop(br)
      BY DEF Code!LeavesInnermostLoop, CodeProofs!LeavesInnermostLoop, Code!LoopFrame, CodeProofs!LoopFrame
    <3>5. \A s : Code!Last(s) = CodeProofs!Last(s)
      BY DEF Code!Last, CodeProofs!Last
    <3> QED
      BY <3>1, <3>2, <3>3, <3>4, <3>5 DEF Code!BreakLeaves, CodeProofs!BreakLeaves
  <2>2. CASE pc \in {"done", "panicked", "unsupported"}
    BY <2>2 DEF Code!BreakLeaves, Code!AtInstr
  <2> QED
    BY <1>1, <2>1, <2>2, EmittingSteps
<1>2. PipelineInv /\ [Next]_vars => [Emitting /\ AtLocal /\ Outdated(This) = {} => Code!BreakLeaves]_vars
  BY <1>1
<1> QED
  BY <1>2, PipelineInvHolds, PTL DEF Spec, BreakLeavesInnermostLoop

\* The br at the end of a loop body repeats the loop that emit.rs opened for it.
THEOREM LoopsAreRepeated == Spec => RepeatsItsLoop
<1>1. ASSUME PipelineInv, Next, Emitting, AtLocal
      PROVE  Code!LoopRepeats
  <2>1. CASE CodeProofs!Next
    <3>1. CodeProofs!LoopRepeats
      BY <1>1, <2>1, EmitterFinds, CodeProofs!LoopStep
    <3>2. Code!Top = CodeProofs!Top /\ Code!Instr = CodeProofs!Instr
      BY DEF Code!Top, Code!Instr, CodeProofs!Top, CodeProofs!Instr
    <3>3. Code!AtInstr <=> CodeProofs!AtInstr
      BY <3>2 DEF Code!AtInstr, CodeProofs!AtInstr
    <3> QED
      BY <3>1, <3>2, <3>3 DEF Code!LoopRepeats, CodeProofs!LoopRepeats
  <2>2. CASE pc \in {"done", "panicked", "unsupported"}
    BY <2>2 DEF Code!LoopRepeats, Code!AtInstr
  <2> QED
    BY <1>1, <2>1, <2>2, EmittingSteps
<1>2. PipelineInv /\ [Next]_vars => [Emitting /\ AtLocal => Code!LoopRepeats]_vars
  BY <1>1
<1> QED
  BY <1>2, PipelineInvHolds, PTL DEF Spec, RepeatsItsLoop

(***************************************************************************)
(* A function that cf_verify.rs has accepted, and that was not edited      *)
(* since, is accepted again by every later verification or compilation,    *)
(* and the distances retrieved from it stay the same.                      *)
(***************************************************************************)
THEOREM VerifiesAgain == Spec => AcceptsAgain
<1>1. ASSUME PipelineInv, Next, Running("control_flow"), AtLocal, at \in passed
      PROVE  turn' = turn /\ Seen(defs'[at]).dist = Seen(defs[at]).dist
  <2>1. turn = "pipeline" /\ Head(plan) = "control_flow" /\ at \in Nat /\ Len(defs) \in Nat
    BY <1>1, LocalsAre DEF Running, PipelineInv, ShapeInv
  <2>2. /\ ShapeInv /\ at \in Locals /\ This = defs[at] /\ IsLocalFunction(This) /\ Right(This)
    BY <1>1, LocalsAre DEF PipelineInv, PassesInv, FunctionInv
  <2>3. VerifyControlFlow \/ ChaseForEver
    BY <1>1, <2>1 DEF Next, Step, Call, Edit, SkipExtern, EndPass, Correct, VerifyTypes,
                      Optimise, Emit, EndFunction, Finished, Running, AtLocal
  <2>4. CASE ChaseForEver
    BY <2>4 DEF ChaseForEver, vars
  <2>5. CASE VerifyControlFlow
    <3> DEFINE g == [This EXCEPT !.meta = StoreDistances]
    <3>1. Becomes(g)
      <4>1. WellFormed(This) /\ ~ControlFlowPass!Panics(This)
        BY <2>2, AcceptsRegular DEF Right, Regular, WellFormed, ControlFlowPass!Panics
      <4> QED
        BY <2>5, <4>1 DEF VerifyControlFlow
    <3>2. /\ IsLocalFunction(g) /\ g.tag = This.tag /\ Right(g) /\ InLoops(g) = InLoops(This)
          /\ \A b \in Blocks(This) \ InLoops(This) : g.meta[b] = This.meta[b]
          /\ \A b \in InLoops(This) : /\ Has(This.meta[b], "dist")
                                      /\ Retrieve(g.meta[b], "dist") = Retrieve(This.meta[b], "dist")
      BY <2>2, StoredDistances DEF Right
    <3> HIDE DEF g
    <3>3. turn' = turn /\ defs'[at] = g
      BY <2>2, <3>1, <3>2, ChangeOne DEF Becomes
    <3>4. Blocks(g) = Blocks(This) /\ \A b \in InLoops(g) : Has(g.meta[b], "dist")
      BY <3>2 DEF Blocks, Right
    <3>5. \A b \in Blocks(g) : /\ Has(g.meta[b], "dist") <=> Has(This.meta[b], "dist")
                               /\ Retrieve(g.meta[b], "dist") = Retrieve(This.meta[b], "dist")
      BY <3>2, <3>4
    <3>6. Seen(g).dist = Seen(This).dist
      BY <3>4, <3>5 DEF Seen
    <3> QED
      BY <2>2, <3>3, <3>6
  <2> QED
    BY <2>3, <2>4, <2>5
<1>2. PipelineInv /\ [Next]_vars
        => [Running("control_flow") /\ AtLocal /\ at \in passed
              => turn' = turn /\ Seen(defs'[at]).dist = Seen(defs[at]).dist]_vars
  BY <1>1
<1> QED
  BY <1>2, PipelineInvHolds, PTL DEF Spec, AcceptsAgain

(***************************************************************************)
(* CorrectionPass keeps a regular function regular, exactly unless an      *)
(* IfElse was behind a diverging instruction: with the branch removed, its *)
(* blocks are orphans, on which cf_verify.rs panics.                       *)
(***************************************************************************)
THEOREM CorrectionRemovesBranches == Spec => CorrectionKeepsRegular
<1>1. ASSUME PipelineInv, Next, Running("correct"), AtLocal, ControlFlowPass!Accepts(This)
      PROVE  ControlFlowPass!Accepts(defs'[at]) <=> ~UnreachableBranch(This)
  <2>1. turn = "pipeline" /\ Head(plan) = "correct" /\ at \in Nat /\ Len(defs) \in Nat
    BY <1>1, LocalsAre DEF Running, PipelineInv, ShapeInv
  <2>2. ShapeInv /\ at \in Locals /\ IsLocalFunction(This) /\ Regular(This)
    BY <1>1, LocalsAre, AcceptsRegular DEF PipelineInv
  <2>3. Correct
    BY <1>1, <2>1 DEF Next, Step, Call, Edit, SkipExtern, EndPass, VerifyControlFlow, VerifyTypes,
                      Optimise, Emit, EndFunction, ChaseForEver, Finished, Running, AtLocal
  <2>4. Becomes(Cut(This)) /\ IsLocalFunction(Cut(This))
    BY <2>2, <2>3, CorrectCuts, CutFacts
  <2>5. defs'[at] = Cut(This)
    BY <2>2, <2>4, ChangeOne DEF Becomes
  <2> QED
    BY <2>2, <2>5, CutRegular, AcceptsRegular
<1>2. PipelineInv /\ [Next]_vars
        => [Running("correct") /\ AtLocal /\ ControlFlowPass!Accepts(This)
              => (ControlFlowPass!Accepts(defs'[at]) <=> ~UnreachableBranch(This))]_vars
  BY <1>1
<1> QED
  BY <1>2, PipelineInvHolds, PTL DEF Spec, CorrectionKeepsRegular
=============================================================================
