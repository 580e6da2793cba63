-------------------------- MODULE ControlFlowProofs -------------------------
(***************************************************************************)
(* Facts about the control flow of a function: what is found by following  *)
(* parents from a block upwards, as long as blocks are branches.           *)
(***************************************************************************)
EXTENDS ControlFlow, FiniteSetTheorems, WellFoundedInduction, TLAPS

\* A set of natural numbers that is not empty has a least element: the sets
\* 0 .. k are finite, and being a subset is a well-founded order of these.
LEMMA LeastNumber ==
  ASSUME NEW S \in SUBSET Nat, NEW x \in S
  PROVE  \E m \in S : \A k \in S : m <= k
<1> DEFINE T == { 0 .. k : k \in S }
<1>1. T \subseteq FiniteSubsetsOf(Nat)
  <2> SUFFICES ASSUME NEW k \in S PROVE 0 .. k \in FiniteSubsetsOf(Nat)
    OBVIOUS
  <2>1. k \in Int /\ 0 \in Int /\ 0 .. k \subseteq Nat
    OBVIOUS
  <2>2. IsFiniteSet(0 .. k)
    BY <2>1, FS_Interval
  <2> QED
    BY <2>1, <2>2 DEF FiniteSubsetsOf
<1>2. T # {}
  OBVIOUS
<1>3. \E t \in T : \A u \in T : ~ (<<u, t>> \in StrictSubsetOrdering(Nat))
  <2> HIDE DEF T
  <2> QED
    BY <1>1, <1>2, FS_StrictSubsetOrderingWellFounded, WFMin
<1>4. PICK m \in S : \A k \in S : ~ (<<0 .. k, 0 .. m>> \in StrictSubsetOrdering(Nat))
  BY <1>3
<1>5. ASSUME NEW k \in S, k < m
      PROVE  <<0 .. k, 0 .. m>> \in StrictSubsetOrdering(Nat)
  <2>1. 0 .. k \subseteq 0 .. m /\ 0 .. m \subseteq Nat
    BY <1>5
  <2>2. m \in 0 .. m /\ m \notin 0 .. k
    BY <1>5
  <2> QED
    BY <2>1, <2>2 DEF StrictSubsetOrdering
<1>6. \A k \in S : ~ (k < m)
  BY <1>4, <1>5
<1> QED
  BY <1>6

-----------------------------------------------------------------------------
(* Positions *)

\* A position in terms of its three coordinates.
LEMMA PositionsDef ==
  ASSUME NEW f, NEW p
  PROVE  p \in Positions(f) <=>
           \E b \in Blocks(f) : \E n \in 1 .. Len(f.body[b]) :
             \E a \in 1 .. Len(Refs(f.body[b][n])) : p = Pos(b, n, a)
BY DEF Positions

\* What is known of a position of a function and of the reference at it.
LEMMA PositionFacts ==
  ASSUME NEW f, IsFunction(f), NEW p \in Positions(f)
  PROVE  /\ p.block \in Blocks(f)
         /\ p.ip \in 1 .. Len(f.body[p.block])
         /\ p.arm \in 1 .. Len(Refs(f.body[p.block][p.ip]))
         /\ p.ip \in Nat /\ p.arm \in Nat
         /\ p = Pos(p.block, p.ip, p.arm)
         /\ RefAt(f, p).block \in Nat
<1>1. PICK b \in Blocks(f) : \E n \in 1 .. Len(f.body[b]) :
              \E a \in 1 .. Len(Refs(f.body[b][n])) : p = Pos(b, n, a)
  BY PositionsDef
<1>a. PICK n \in 1 .. Len(f.body[b]) :
              \E a \in 1 .. Len(Refs(f.body[b][n])) : p = Pos(b, n, a)
  BY <1>1
<1>b. PICK a \in 1 .. Len(Refs(f.body[b][n])) : p = Pos(b, n, a)
  BY <1>a
<1>c. p.block = b /\ p.ip = n /\ p.arm = a
  BY <1>b DEF Pos
<1> QED
  BY <1>b, <1>c DEF IsFunction, RefAt

-----------------------------------------------------------------------------
(* Climbing from branches to the blocks they are branches of *)

\* The blocks p[0], ..., p[n] are each the parent of the one before, and all
\* but the last are branches.
Chain(f, n, p) ==
  /\ p \in [0 .. n -> Blocks(f)]
  /\ \A i \in 0 .. n - 1 : f.tag[p[i]] = "IfElse" /\ IsParent(f, p[i + 1], p[i])

\* n steps from c lead to e.
Climbs(f, c, n, e) == \E p : Chain(f, n, p) /\ p[0] = c /\ p[n] = e

\* The climb ends: e is no branch.
ClimbsOut(f, c, n, e) == Climbs(f, c, n, e) /\ f.tag[e] # "IfElse"

\* No step leads to the block itself.
LEMMA ClimbNone ==
  ASSUME NEW f, NEW c \in Blocks(f)
  PROVE  Climbs(f, c, 0, c)
<1> DEFINE p == [i \in 0 .. 0 |-> c]
<1>1. Chain(f, 0, p)
  BY DEF Chain
<1>2. p[0] = c
  OBVIOUS
<1> QED
  BY <1>1, <1>2 DEF Climbs

LEMMA ClimbTypes ==
  ASSUME NEW f, NEW c, NEW n \in Nat, NEW e, Climbs(f, c, n, e)
  PROVE  c \in Blocks(f) /\ e \in Blocks(f)
<1>1. PICK p : Chain(f, n, p) /\ p[0] = c /\ p[n] = e
  BY DEF Climbs
<1> QED
  BY <1>1 DEF Chain

\* A part of a chain is a chain.
LEMMA PartOfChain ==
  ASSUME NEW f, NEW n \in Nat, NEW p, Chain(f, n, p), NEW i \in 0 .. n
  PROVE  Climbs(f, p[i], n - i, p[n])
<1> DEFINE q == [k \in 0 .. n - i |-> p[k + i]]
<1>1. \A k \in 0 .. n - i : k + i \in 0 .. n
  OBVIOUS
<1>2. q \in [0 .. n - i -> Blocks(f)]
  BY <1>1 DEF Chain
<1>3. ASSUME NEW k \in 0 .. (n - i) - 1
      PROVE  f.tag[q[k]] = "IfElse" /\ IsParent(f, q[k + 1], q[k])
  <2>1. k + i \in 0 .. n - 1 /\ k \in 0 .. n - i /\ k + 1 \in 0 .. n - i /\ (k + 1) + i = (k + i) + 1
    OBVIOUS
  <2>2. q[k] = p[k + i] /\ q[k + 1] = p[(k + i) + 1]
    BY <2>1
  <2> QED
    BY <2>1, <2>2 DEF Chain
<1>4. q[0] = p[i] /\ q[n - i] = p[n]
  OBVIOUS
<1> HIDE DEF q
<1> QED
  BY <1>2, <1>3, <1>4 DEF Climbs, Chain

\* One step more at the end.
LEMMA ClimbOn ==
  ASSUME NEW f, NEW c, NEW n \in Nat, NEW e, Climbs(f, c, n, e),
         f.tag[e] = "IfElse", NEW b \in Blocks(f), IsParent(f, b, e)
  PROVE  Climbs(f, c, n + 1, b)
<1>1. PICK p : Chain(f, n, p) /\ p[0] = c /\ p[n] = e
  BY DEF Climbs
<1> DEFINE q == [i \in 0 .. n + 1 |-> IF i <= n THEN p[i] ELSE b]
<1>2. q \in [0 .. n + 1 -> Blocks(f)]
  BY <1>1 DEF Chain
<1>3. ASSUME NEW i \in 0 .. (n + 1) - 1
      PROVE  f.tag[q[i]] = "IfElse" /\ IsParent(f, q[i + 1], q[i])
  <2>1. CASE i < n
    <3>1. q[i] = p[i] /\ q[i + 1] = p[i + 1] /\ i \in 0 .. n - 1
      BY <2>1
    <3> QED
      BY <1>1, <3>1 DEF Chain
  <2>2. CASE i = n
    <3>1. q[i] = e /\ q[i + 1] = b
      BY <1>1, <2>2
    <3> QED
      BY <3>1
  <2> QED
    BY <2>1, <2>2
<1>4. q[0] = c /\ q[n + 1] = b
  BY <1>1
<1> HIDE DEF q
<1> QED
  BY <1>2, <1>3, <1>4 DEF Climbs, Chain

\* One step more at the start.
LEMMA ClimbFrom ==
  ASSUME NEW f, NEW c \in Blocks(f), f.tag[c] = "IfElse",
         NEW b, IsParent(f, b, c), NEW n \in Nat, NEW e, Climbs(f, b, n, e)
  PROVE  Climbs(f, c, n + 1, e)
<1>1. PICK p : Chain(f, n, p) /\ p[0] = b /\ p[n] = e
  BY DEF Climbs
<1> DEFINE q == [i \in 0 .. n + 1 |-> IF i = 0 THEN c ELSE p[i - 1]]
<1>2. q \in [0 .. n + 1 -> Blocks(f)]
  BY <1>1 DEF Chain
<1>3. ASSUME NEW i \in 0 .. (n + 1) - 1
      PROVE  f.tag[q[i]] = "IfElse" /\ IsParent(f, q[i + 1], q[i])
  <2>1. CASE i = 0
    <3>1. q[i] = c /\ q[i + 1] = b
      BY <1>1, <2>1
    <3> QED
      BY <3>1
  <2>2. CASE i > 0
    <3>1. q[i] = p[i - 1] /\ q[i + 1] = p[(i - 1) + 1] /\ i - 1 \in 0 .. n - 1
      BY <2>2
    <3> QED
      BY <1>1, <3>1 DEF Chain
  <2> QED
    BY <2>1, <2>2
<1>4. q[0] = c /\ q[n + 1] = e
  BY <1>1
<1> HIDE DEF q
<1> QED
  BY <1>2, <1>3, <1>4 DEF Climbs, Chain

\* The first step of a climb is to a parent.
LEMMA ClimbFirst ==
  ASSUME NEW f, NEW c, NEW n \in Nat, NEW e, Climbs(f, c, n, e)
  PROVE  \/ n = 0 /\ c = e
         \/ /\ n > 0 /\ f.tag[c] = "IfElse"
            /\ \E b \in Blocks(f) : IsParent(f, b, c) /\ Climbs(f, b, n - 1, e)
<1>1. PICK p : Chain(f, n, p) /\ p[0] = c /\ p[n] = e
  BY DEF Climbs
<1>2. CASE n = 0
  BY <1>1, <1>2
<1>3. CASE n > 0
  <2>1. 0 \in 0 .. n - 1 /\ 1 \in 0 .. n
    BY <1>3
  <2>2. f.tag[c] = "IfElse" /\ IsParent(f, p[1], c) /\ p[1] \in Blocks(f)
    BY <1>1, <2>1 DEF Chain
  <2>3. Climbs(f, p[1], n - 1, e)
    BY <1>1, <2>1, PartOfChain
  <2> QED
    BY <1>3, <2>2, <2>3
<1> QED
  BY <1>2, <1>3

\* A block that is used once has one parent.
LEMMA OneParent ==
  ASSUME NEW f, SingleUse(f), NEW c, NEW a, IsParent(f, a, c), NEW b, IsParent(f, b, c)
  PROVE  a = b
BY DEF SingleUse, IsParent

\* All climbs from a block that end do so at the same block, after as many
\* steps: the shortest of the climbs that do not has no first step.
LEMMA ClimbsOutOnce ==
  ASSUME NEW f, SingleUse(f), NEW c, NEW n \in Nat, NEW m \in Nat, NEW e, NEW d,
         ClimbsOut(f, c, n, e), ClimbsOut(f, c, m, d)
  PROVE  n = m /\ e = d
<1> DEFINE Differs(k) == \E x, l, y, z : /\ l \in Nat /\ ClimbsOut(f, x, k, y) /\ ClimbsOut(f, x, l, z)
                                         /\ ~ (k = l /\ y = z)
           S == { k \in Nat : Differs(k) }
<1>1. ASSUME NEW k \in S, \A j \in S : k <= j
      PROVE  FALSE
  <2>1. PICK x, l, y, z : /\ l \in Nat /\ ClimbsOut(f, x, k, y) /\ ClimbsOut(f, x, l, z)
                          /\ ~ (k = l /\ y = z)
    OBVIOUS
  <2>2. k \in Nat /\ Climbs(f, x, k, y) /\ Climbs(f, x, l, z)
        /\ f.tag[y] # "IfElse" /\ f.tag[z] # "IfElse"
    BY <2>1 DEF ClimbsOut
  <2>3. CASE f.tag[x] # "IfElse"
    <3>1. k = 0 /\ x = y /\ l = 0 /\ x = z
      BY <2>1, <2>2, <2>3, ClimbFirst
    <3> QED
      BY <2>1, <3>1
  <2>4. CASE f.tag[x] = "IfElse"
    <3>1. k > 0 /\ \E b \in Blocks(f) : IsParent(f, b, x) /\ Climbs(f, b, k - 1, y)
      BY <2>2, <2>4, ClimbFirst
    <3>2. l > 0 /\ \E b \in Blocks(f) : IsParent(f, b, x) /\ Climbs(f, b, l - 1, z)
      BY <2>1, <2>2, <2>4, ClimbFirst
    <3>3. PICK b \in Blocks(f) : Climbs(f, b, k - 1, y) /\ Climbs(f, b, l - 1, z)
      BY <3>1, <3>2, OneParent
    <3>4. k - 1 \in Nat /\ l - 1 \in Nat /\ ~ (k - 1 = l - 1 /\ y = z) /\ ~ (k <= k - 1)
      BY <2>1, <2>2, <3>1, <3>2
    <3>5. Differs(k - 1)
      BY <2>2, <3>3, <3>4 DEF ClimbsOut
    <3> QED
      BY <1>1, <3>4, <3>5
  <2> QED
    BY <2>3, <2>4
<1>2. S = {}
  <2> HIDE DEF S
  <2>1. S \in SUBSET Nat
    BY DEF S
  <2> QED
    BY <1>1, <2>1, LeastNumber
<1> QED
  BY <1>2

\* A climb that ends visits no block twice.
LEMMA ClimbIsBounded ==
  ASSUME NEW f, SingleUse(f), IsFiniteSet(Blocks(f)),
         NEW c, NEW n \in Nat, NEW e, ClimbsOut(f, c, n, e)
  PROVE  n + 1 <= Cardinality(Blocks(f))
<1>1. PICK p : Chain(f, n, p) /\ p[0] = c /\ p[n] = e
  BY DEF ClimbsOut, Climbs
<1>2. ASSUME NEW i \in 0 .. n, NEW j \in 0 .. n, p[i] = p[j]
      PROVE  i = j
  <2>1. ClimbsOut(f, p[i], n - i, e) /\ ClimbsOut(f, p[i], n - j, e)
    BY <1>1, <1>2, PartOfChain DEF ClimbsOut
  <2>2. n - i \in Nat /\ n - j \in Nat
    OBVIOUS
  <2>3. n - i = n - j
    BY <2>1, <2>2, ClimbsOutOnce
  <2> QED
    BY <2>3
<1>3. p \in Injection(0 .. n, Blocks(f))
  BY <1>1, <1>2 DEF Injection, IsInjective, Chain
<1>4. Cardinality(0 .. n) <= Cardinality(Blocks(f))
  BY <1>3, FS_Injection
<1>5. Cardinality(0 .. n) = n + 1
  <2>1. 0 \in Int /\ n \in Int /\ ~ (0 > n)
    OBVIOUS
  <2> QED
    BY <2>1, FS_Interval
<1> QED
  BY <1>4, <1>5

\* Where every climb ends there is no cycle of branches.
LEMMA OutOfKnots ==
  ASSUME NEW f, SingleUse(f),
         \A c \in OfTag(f, "IfElse") : \E n \in Nat : \E e : ClimbsOut(f, c, n, e)
  PROVE  ~Knotted(f)
<1> SUFFICES ASSUME NEW K \in SUBSET OfTag(f, "IfElse"), Knot(f, K)
             PROVE  FALSE
  BY DEF Knotted
<1> DEFINE S == { n \in Nat : \E c \in K : \E e : ClimbsOut(f, c, n, e) }
<1>1. PICK x : x \in S
  BY DEF Knot
<1>2. PICK n \in S : \A k \in S : n <= k
  <2> HIDE DEF S
  <2>1. S \in SUBSET Nat
    BY DEF S
  <2> QED
    BY <1>1, <2>1, LeastNumber
<1>3. PICK c \in K : \E e : ClimbsOut(f, c, n, e)
  OBVIOUS
<1>4. PICK e : ClimbsOut(f, c, n, e)
  BY <1>3
<1>5. n \in Nat /\ Climbs(f, c, n, e) /\ f.tag[e] # "IfElse" /\ f.tag[c] = "IfElse"
  BY <1>4 DEF ClimbsOut, OfTag
<1>6. n > 0 /\ \E b \in Blocks(f) : IsParent(f, b, c) /\ Climbs(f, b, n - 1, e)
  BY <1>5, ClimbFirst
<1>7. PICK b \in K : Climbs(f, b, n - 1, e)
  BY <1>6, OneParent DEF Knot
<1>8. n - 1 \in Nat /\ ~ (n <= n - 1)
  BY <1>5, <1>6
<1>9. n - 1 \in S
  BY <1>5, <1>7, <1>8 DEF ClimbsOut
<1> QED
  BY <1>2, <1>8, <1>9

-----------------------------------------------------------------------------
(* The distances of a regular function *)

\* Where there is neither a cycle nor an orphan every climb ends: branches from
\* which none does would be a cycle.
LEMMA EveryClimbEnds ==
  ASSUME NEW f, ~Knotted(f), \A c \in OfTag(f, "IfElse") : ~Orphan(f, c), NEW x \in Blocks(f)
  PROVE  \E n \in Nat : \E e : ClimbsOut(f, x, n, e)
<1> DEFINE Ends(c) == \E n \in Nat : \E e : ClimbsOut(f, c, n, e)
           K == { c \in OfTag(f, "IfElse") : ~Ends(c) }
<1>1. ASSUME NEW c \in Blocks(f), c \notin OfTag(f, "IfElse")
      PROVE  Ends(c)
  BY <1>1, ClimbNone DEF ClimbsOut, OfTag
<1>2. ASSUME NEW c \in K
      PROVE  \E b \in K : IsParent(f, b, c)
  <2>1. PICK b \in Blocks(f) : IsParent(f, b, c)
    BY DEF Orphan
  <2>2. c \in Blocks(f) /\ f.tag[c] = "IfElse"
    BY DEF OfTag
  <2>3. ASSUME Ends(b) PROVE Ends(c)
    <3>1. PICK n, e : n \in Nat /\ ClimbsOut(f, b, n, e)
      BY <2>3
    <3>2. ClimbsOut(f, c, n + 1, e)
      BY <2>1, <2>2, <3>1, ClimbFrom DEF ClimbsOut
    <3> QED
      BY <3>1, <3>2
  <2>4. b \in K
    BY <1>1, <2>3
  <2> QED
    BY <2>1, <2>4
<1>3. ~Knot(f, K)
  BY DEF Knotted
<1>4. K = {}
  BY <1>2, <1>3 DEF Knot
<1> QED
  BY <1>1, <1>4

\* The climb from b ends at a loop, after n steps.
LoopAbove(f, b, n) == \E e : ClimbsOut(f, b, n, e) /\ f.tag[e] = "Loop"

\* One step of a climb.
LEMMA LoopAboveParent ==
  ASSUME NEW f, SingleUse(f), NEW c \in Blocks(f), f.tag[c] = "IfElse", NEW b, IsParent(f, b, c),
         NEW n \in Nat
  PROVE  /\ LoopAbove(f, b, n) => LoopAbove(f, c, n + 1)
         /\ LoopAbove(f, c, n) => n > 0 /\ LoopAbove(f, b, n - 1)
<1>1. ASSUME NEW e, ClimbsOut(f, b, n, e)
      PROVE  ClimbsOut(f, c, n + 1, e)
  BY <1>1, ClimbFrom DEF ClimbsOut
<1>2. ASSUME NEW e, ClimbsOut(f, c, n, e)
      PROVE  n > 0 /\ ClimbsOut(f, b, n - 1, e)
  <2>1. n > 0 /\ \E a \in Blocks(f) : IsParent(f, a, c) /\ Climbs(f, a, n - 1, e)
    BY <1>2, ClimbFirst DEF ClimbsOut
  <2> QED
    BY <1>2, <2>1, OneParent DEF ClimbsOut
<1> QED
  BY <1>1, <1>2 DEF LoopAbove

LEMMA LoopAboveNone ==
  ASSUME NEW f, NEW c \in Blocks(f), f.tag[c] # "IfElse", NEW n \in Nat
  PROVE  LoopAbove(f, c, n) <=> n = 0 /\ f.tag[c] = "Loop"
<1>1. ClimbsOut(f, c, 0, c)
  BY ClimbNone DEF ClimbsOut
<1>2. ASSUME NEW e, ClimbsOut(f, c, n, e)
      PROVE  n = 0 /\ c = e
  BY <1>2, ClimbFirst DEF ClimbsOut
<1> QED
  BY <1>1, <1>2 DEF LoopAbove

\* Distances are what climbs count, whichever way they are found.
LEMMA DistancesCount ==
  ASSUME NEW f, SingleUse(f), ~Knotted(f), \A c \in OfTag(f, "IfElse") : ~Orphan(f, c),
         NEW d, LoopDistances(f, d), NEW b \in Blocks(f)
  PROVE  /\ b \in DOMAIN d <=> \E n \in Nat : LoopAbove(f, b, n)
         /\ \A n \in Nat : LoopAbove(f, b, n) => d[b] = n
<1> DEFINE Counts(c, k) == /\ c \in DOMAIN d <=> \E n \in Nat : LoopAbove(f, c, n)
                           /\ \A n \in Nat : LoopAbove(f, c, n) => d[c] = n
           S == { k \in Nat : \E c \in Blocks(f) : \E e : ClimbsOut(f, c, k, e) /\ ~Counts(c, k) }
<1>1. ASSUME NEW k \in S, \A j \in S : k <= j
      PROVE  FALSE
  <2>1. PICK c, e : c \in Blocks(f) /\ ClimbsOut(f, c, k, e) /\ ~Counts(c, k)
    OBVIOUS
  <2>2. k \in Nat /\ Climbs(f, c, k, e) /\ f.tag[e] # "IfElse"
    BY <2>1 DEF ClimbsOut
  <2>3. CASE f.tag[c] # "IfElse"
    <3>1. c \in DOMAIN d <=> f.tag[c] = "Loop"
      BY <2>1, <2>3 DEF LoopDistances, OfTag
    <3>2. f.tag[c] = "Loop" => d[c] = 0
      BY <2>1 DEF LoopDistances, OfTag
    <3>3. \A n \in Nat : LoopAbove(f, c, n) <=> n = 0 /\ f.tag[c] = "Loop"
      BY <2>1, <2>3, LoopAboveNone
    <3> QED
      BY <2>1, <3>1, <3>2, <3>3
  <2>4. CASE f.tag[c] = "IfElse"
    <3>1. k > 0 /\ \E a \in Blocks(f) : IsParent(f, a, c) /\ Climbs(f, a, k - 1, e)
      BY <2>2, <2>4, ClimbFirst
    <3>2. PICK a \in Blocks(f) : IsParent(f, a, c) /\ Climbs(f, a, k - 1, e)
      BY <3>1
    <3>3. k - 1 \in Nat /\ ~ (k <= k - 1) /\ ClimbsOut(f, a, k - 1, e)
      BY <2>1, <2>2, <3>1, <3>2 DEF ClimbsOut
    <3>4. Counts(a, k - 1)
      BY <1>1, <3>3
    <3>5. /\ c \in DOMAIN d <=> a \in DOMAIN d
          /\ c \in DOMAIN d => d[c] = d[a] + 1
      BY <2>1, <2>4, <3>2 DEF LoopDistances, OfTag
    <3>6. \A n \in Nat : LoopAbove(f, a, n) => n + 1 \in Nat /\ LoopAbove(f, c, n + 1)
      BY <2>1, <2>4, <3>2, LoopAboveParent
    <3>7. \A n \in Nat : LoopAbove(f, c, n) => n > 0 /\ n - 1 \in Nat /\ LoopAbove(f, a, n - 1)
      BY <2>1, <2>4, <3>2, LoopAboveParent
    <3>8. c \in DOMAIN d <=> \E n \in Nat : LoopAbove(f, c, n)
      BY <3>4, <3>5, <3>6, <3>7
    <3>9. ASSUME NEW n \in Nat, LoopAbove(f, c, n)
          PROVE  d[c] = n
      <4>1. n - 1 \in Nat /\ LoopAbove(f, a, n - 1)
        BY <3>7, <3>9
      <4>2. d[a] = n - 1
        BY <3>4, <4>1
      <4>3. c \in DOMAIN d
        BY <3>8, <3>9
      <4> QED
        BY <3>5, <4>2, <4>3
    <3> QED
      BY <2>1, <3>8, <3>9
  <2> QED
    BY <2>3, <2>4
<1>2. S = {}
  <2> HIDE DEF S
  <2>1. S \in SUBSET Nat
    BY DEF S
  <2> QED
    BY <1>1, <2>1, LeastNumber
<1>3. PICK n, e : n \in Nat /\ ClimbsOut(f, b, n, e)
  BY EveryClimbEnds
<1>4. Counts(b, n)
  BY <1>2, <1>3
<1> QED
  BY <1>4

\* A regular function has one map of distances.
LEMMA DistancesAreUnique ==
  ASSUME NEW f, SingleUse(f), ~Knotted(f), \A c \in OfTag(f, "IfElse") : ~Orphan(f, c),
         NEW d, LoopDistances(f, d), NEW e, LoopDistances(f, e)
  PROVE  DOMAIN d = DOMAIN e /\ \A b \in DOMAIN d : d[b] = e[b] /\ d[b] \in Nat
<1>1. DOMAIN d \subseteq Blocks(f) /\ DOMAIN e \subseteq Blocks(f)
  BY DEF LoopDistances, OfTag
<1>2. \A b \in Blocks(f) : /\ b \in DOMAIN d <=> \E n \in Nat : LoopAbove(f, b, n)
                           /\ \A n \in Nat : LoopAbove(f, b, n) => d[b] = n
  BY DistancesCount
<1>3. \A b \in Blocks(f) : /\ b \in DOMAIN e <=> \E n \in Nat : LoopAbove(f, b, n)
                           /\ \A n \in Nat : LoopAbove(f, b, n) => e[b] = n
  BY DistancesCount
<1>4. DOMAIN d = DOMAIN e
  <2>1. \A b \in Blocks(f) : b \in DOMAIN d <=> b \in DOMAIN e
    BY <1>2, <1>3
  <2> QED
    BY <1>1, <2>1
<1>5. ASSUME NEW b \in DOMAIN d
      PROVE  d[b] = e[b] /\ d[b] \in Nat
  <2>1. PICK n \in Nat : LoopAbove(f, b, n)
    BY <1>1, <1>2
  <2> QED
    BY <1>1, <1>2, <1>3, <2>1
<1> QED
  BY <1>4, <1>5

\* The distances InnermostLoops computes from the parents are these.
LEMMA InnermostLoopsAreRight ==
  ASSUME NEW f, SingleUse(f), ~Knotted(f), \A c \in OfTag(f, "IfElse") : ~Orphan(f, c)
  PROVE  LoopDistances(f, InnermostLoops(f))
<1> DEFINE parent(c) == CHOOSE b \in Blocks(f) : IsParent(f, b, c)
           Step(h, b) == IF f.tag[b] = "Loop" THEN 0
                         ELSE IF f.tag[b] # "IfElse" \/ Orphan(f, b) \/ h[parent(b)] = -1 THEN -1
                         ELSE h[parent(b)] + 1
           IsDist(h) == h = [b \in Blocks(f) |-> Step(h, b)]
           d == CHOOSE h : IsDist(h)
           Found(b) == \E n \in Nat : LoopAbove(f, b, n)
           g == [b \in Blocks(f) |-> IF Found(b) THEN CHOOSE n \in Nat : LoopAbove(f, b, n) ELSE -1]
<1>1. InnermostLoops(f) = [b \in { b \in Blocks(f) : d[b] # -1 } |-> d[b]]
  BY DEF InnermostLoops
<1>2. ASSUME NEW b, NEW n \in Nat, NEW m \in Nat, LoopAbove(f, b, n), LoopAbove(f, b, m)
      PROVE  n = m
  BY <1>2, ClimbsOutOnce DEF LoopAbove
<1>3. ASSUME NEW b \in Blocks(f)
      PROVE  /\ Found(b) => g[b] \in Nat /\ LoopAbove(f, b, g[b])
             /\ ~Found(b) => g[b] = -1
  <2>1. g[b] = IF Found(b) THEN CHOOSE n \in Nat : LoopAbove(f, b, n) ELSE -1
    OBVIOUS
  <2>2. Found(b) => LET n == CHOOSE n \in Nat : LoopAbove(f, b, n) IN n \in Nat /\ LoopAbove(f, b, n)
    OBVIOUS
  <2> HIDE DEF g
  <2> QED
    BY <2>1, <2>2
<1>4. g = [b \in Blocks(f) |-> g[b]]
  OBVIOUS
<1> HIDE DEF g
<1>5. ASSUME NEW b \in Blocks(f), f.tag[b] = "IfElse"
      PROVE  parent(b) \in Blocks(f) /\ IsParent(f, parent(b), b) /\ ~Orphan(f, b)
  <2>1. ~Orphan(f, b)
    BY <1>5 DEF OfTag
  <2>2. \E a \in Blocks(f) : IsParent(f, a, b)
    BY <2>1 DEF Orphan
  <2> QED
    BY <2>1, <2>2
<1> HIDE DEF parent
<1>6. ASSUME NEW b \in Blocks(f) PROVE g[b] = Step(g, b)
  <2>1. CASE f.tag[b] # "IfElse"
    <3>1. \A n \in Nat : LoopAbove(f, b, n) <=> n = 0 /\ f.tag[b] = "Loop"
      BY <2>1, LoopAboveNone
    <3> QED
      BY <1>3, <2>1, <3>1
  <2>2. CASE f.tag[b] = "IfElse"
    <3>1. parent(b) \in Blocks(f) /\ IsParent(f, parent(b), b) /\ ~Orphan(f, b)
      BY <1>5, <2>2
    <3>2. \A n \in Nat : /\ LoopAbove(f, parent(b), n) => n + 1 \in Nat /\ LoopAbove(f, b, n + 1)
                         /\ LoopAbove(f, b, n) => n > 0 /\ n - 1 \in Nat /\ LoopAbove(f, parent(b), n - 1)
      BY <2>2, <3>1, LoopAboveParent
    <3>3. CASE Found(parent(b))
      <4>1. g[parent(b)] \in Nat /\ LoopAbove(f, parent(b), g[parent(b)])
        BY <1>3, <3>1, <3>3
      <4>2. g[parent(b)] + 1 \in Nat /\ LoopAbove(f, b, g[parent(b)] + 1)
        BY <3>2, <4>1
      <4>3. g[b] \in Nat /\ LoopAbove(f, b, g[b])
        BY <1>3, <4>2
      <4>4. g[b] = g[parent(b)] + 1
        BY <1>2, <4>2, <4>3
      <4>5. g[parent(b)] # -1
        BY <4>1
      <4> QED
        BY <2>2, <3>1, <4>4, <4>5
    <3>4. CASE ~Found(parent(b))
      <4>1. ~Found(b)
        BY <3>2, <3>4
      <4>2. g[b] = -1 /\ g[parent(b)] = -1
        BY <1>3, <3>1, <3>4, <4>1
      <4> QED
        BY <2>2, <4>2
    <3> QED
      BY <3>3, <3>4
  <2> QED
    BY <2>1, <2>2
<1>7. IsDist(g)
  BY <1>4, <1>6
<1>8. IsDist(d)
  <2> HIDE DEF IsDist
  <2> QED
    BY <1>7
<1> HIDE DEF d
<1>9. \A b \in Blocks(f) : d[b] = Step(d, b)
  BY <1>8
<1> DEFINE S == { n \in Nat : \E c \in Blocks(f) : \E e : ClimbsOut(f, c, n, e) /\ d[c] # g[c] }
<1>10. ASSUME NEW n \in S, \A k \in S : n <= k
       PROVE  FALSE
  <2>1. PICK c, e : c \in Blocks(f) /\ ClimbsOut(f, c, n, e) /\ d[c] # g[c]
    OBVIOUS
  <2>2. n \in Nat /\ Climbs(f, c, n, e) /\ f.tag[e] # "IfElse"
    BY <2>1 DEF ClimbsOut
  <2>3. d[c] = Step(d, c) /\ g[c] = Step(g, c)
    BY <1>6, <1>9, <2>1
  <2>4. f.tag[c] = "IfElse"
    BY <2>1, <2>3
  <2>5. n > 0 /\ \E a \in Blocks(f) : IsParent(f, a, c) /\ Climbs(f, a, n - 1, e)
    BY <2>2, <2>4, ClimbFirst
  <2>6. parent(c) \in Blocks(f) /\ IsParent(f, parent(c), c)
    BY <1>5, <2>1, <2>4
  <2>7. Climbs(f, parent(c), n - 1, e)
    BY <2>5, <2>6, OneParent
  <2>8. n - 1 \in Nat /\ ~ (n <= n - 1) /\ ClimbsOut(f, parent(c), n - 1, e)
    BY <2>2, <2>5, <2>7 DEF ClimbsOut
  <2>9. d[parent(c)] = g[parent(c)]
    BY <1>10, <2>6, <2>8
  <2> QED
    BY <2>1, <2>3, <2>4, <2>9
<1>11. S = {}
  <2> HIDE DEF S
  <2>1. S \in SUBSET Nat
    BY DEF S
  <2> QED
    BY <1>10, <2>1, LeastNumber
<1>12. ASSUME NEW b \in Blocks(f) PROVE d[b] = g[b]
  <2>1. PICK n, e : n \in Nat /\ ClimbsOut(f, b, n, e)
    BY EveryClimbEnds
  <2> QED
    BY <1>11, <2>1
<1> DEFINE D == { b \in Blocks(f) : d[b] # -1 }  l == [b \in D |-> d[b]]
<1>13. \A b \in Blocks(f) : /\ g[b] = Step(g, b) /\ g[b] \in Nat \cup {-1}
                            /\ b \in D <=> g[b] # -1
  BY <1>3, <1>6, <1>12
<1>14. DOMAIN l = D /\ \A b \in D : l[b] = g[b]
  BY <1>12
<1> HIDE DEF l, D
<1>15. DOMAIN l \subseteq OfTag(f, "IfElse") \cup OfTag(f, "Loop")
  <2>1. D \subseteq Blocks(f)
    BY DEF D
  <2>2. \A b \in D : f.tag[b] \in {"IfElse", "Loop"}
    BY <1>13, <2>1
  <2> QED
    BY <1>14, <2>1, <2>2 DEF OfTag
<1>16. ASSUME NEW b \in OfTag(f, "Loop")
       PROVE  b \in DOMAIN l /\ l[b] = 0
  <2>1. b \in Blocks(f) /\ f.tag[b] = "Loop"
    BY DEF OfTag
  <2>2. g[b] = 0
    BY <1>13, <2>1
  <2> QED
    BY <1>13, <1>14, <2>1, <2>2
<1>17. ASSUME NEW c \in OfTag(f, "IfElse"), NEW b \in Blocks(f), IsParent(f, b, c)
       PROVE  /\ c \in DOMAIN l <=> b \in DOMAIN l
              /\ c \in DOMAIN l => l[c] = l[b] + 1
  <2>1. c \in Blocks(f) /\ f.tag[c] = "IfElse"
    BY DEF OfTag
  <2>2. parent(c) = b /\ ~Orphan(f, c)
    BY <1>5, <1>17, <2>1, OneParent
  <2>3. g[c] = IF g[b] = -1 THEN -1 ELSE g[b] + 1
    BY <1>13, <2>1, <2>2
  <2>4. g[b] \in Nat \cup {-1}
    BY <1>13
  <2>5. (g[c] = -1) <=> (g[b] = -1)
    BY <2>3, <2>4
  <2>6. c \in D <=> b \in D
    BY <1>13, <2>1, <2>5
  <2> QED
    BY <1>13, <1>14, <2>1, <2>3, <2>6
<1>18. LoopDistances(f, l)
  BY <1>15, <1>16, <1>17 DEF LoopDistances
<1> QED
  BY <1>1, <1>18 DEF l, D
=============================================================================
