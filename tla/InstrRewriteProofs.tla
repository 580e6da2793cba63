------------------------- MODULE InstrRewriteProofs -------------------------
(***************************************************************************)
(* What InstrRewritePass replaces is replaced once, and applying changes   *)
(* from the back of the block is applying them at once; the changes of     *)
(* PeepholeOpt are never refused and never out of bounds, and keep the     *)
(* calls of the block.                                                     *)
(***************************************************************************)
EXTENDS InstrRewrite, ControlFlowProofs, FiniteSetTheorems, SequenceTheorems, TLAPS

-----------------------------------------------------------------------------
(* Sequences of sequences: FlattenSeq is recursive, so what it returns is  *)
(* described by the function it is the last element of.                    *)

\* f[n] is what the first n sequences of ss make one after the other.
JoinsTo(ss, n, f) == f = [k \in 1 .. n |-> IF k = 1 THEN ss[k] ELSE f[k - 1] \o ss[k]]

\* Such a function is there for every n.
LEMMA JoinsExist ==
  ASSUME NEW ss, NEW n \in Nat
  PROVE  \E f : JoinsTo(ss, n, f)
<1> DEFINE Bad == { k \in Nat : ~ \E f : JoinsTo(ss, k, f) }
<1>1. SUFFICES ASSUME n \in Bad PROVE FALSE
  OBVIOUS
<1>2. PICK m \in Bad : \A k \in Bad : m <= k
  <2>1. Bad \in SUBSET Nat
    OBVIOUS
  <2> HIDE DEF Bad
  <2> QED
    BY <1>1, <2>1, LeastNumber
<1>3. CASE m = 0
  <2> DEFINE g == [k \in 1 .. 0 |-> << >>]
  <2>1. g = [k \in 1 .. 0 |-> IF k = 1 THEN ss[k] ELSE g[k - 1] \o ss[k]]
    OBVIOUS
  <2>2. JoinsTo(ss, 0, g)
    BY <2>1 DEF JoinsTo
  <2> QED
    BY <1>2, <1>3, <2>2
<1>4. CASE m # 0
  <2>1. m - 1 \in Nat /\ m - 1 \notin Bad
    BY <1>2, <1>4
  <2>2. PICK f : JoinsTo(ss, m - 1, f)
    BY <2>1
  <2> DEFINE g == [k \in 1 .. m |-> IF k = 1 THEN ss[k] ELSE f[k - 1] \o ss[k]]
  <2>3. \A k \in 1 .. m - 1 : g[k] = f[k]
    <3> SUFFICES ASSUME NEW k \in 1 .. m - 1 PROVE g[k] = f[k]
      OBVIOUS
    <3>1. k \in 1 .. m
      BY <2>1
    <3>2. g[k] = IF k = 1 THEN ss[k] ELSE f[k - 1] \o ss[k]
      BY <3>1
    <3>3. f[k] = IF k = 1 THEN ss[k] ELSE f[k - 1] \o ss[k]
      BY <2>2, Zenon DEF JoinsTo
    <3> QED
      BY <3>2, <3>3
  <2>4. \A k \in 1 .. m : (IF k = 1 THEN ss[k] ELSE f[k - 1] \o ss[k]) = (IF k = 1 THEN ss[k] ELSE g[k - 1] \o ss[k])
    <3> SUFFICES ASSUME NEW k \in 1 .. m, k # 1 PROVE f[k - 1] = g[k - 1]
      BY Zenon
    <3>1. k - 1 \in 1 .. m - 1
      BY <2>1
    <3> QED
      BY <2>3, <3>1
  <2>5. g = [k \in 1 .. m |-> IF k = 1 THEN ss[k] ELSE g[k - 1] \o ss[k]]
    <3> DEFINE h == [k \in 1 .. m |-> IF k = 1 THEN ss[k] ELSE g[k - 1] \o ss[k]]
    <3>1. g = h
      BY <2>4, Zenon
    <3> QED
      BY <3>1
  <2>6. JoinsTo(ss, m, g)
    BY <2>5, Zenon DEF JoinsTo
  <2> QED
    BY <1>2, <2>6
<1> QED
  BY <1>3, <1>4

Agree(ss, tt, n) == \A k \in 1 .. n : ss[k] = tt[k]

\* What is made of the first n sequences depends on these only.
LEMMA JoinsAgree ==
  ASSUME NEW ss, NEW tt, NEW l \in Nat, NEW n \in Nat, n <= l, NEW f, NEW g,
         JoinsTo(ss, l, f), JoinsTo(tt, n, g), Agree(ss, tt, n)
  PROVE  Agree(f, g, n)
<1> DEFINE Bad == { k \in 1 .. n : f[k] # g[k] }
<1> SUFFICES ASSUME NEW x \in Bad PROVE FALSE
  BY DEF Agree
<1>1. Bad \in SUBSET Nat
  OBVIOUS
<1>2. PICK k \in Bad : \A j \in Bad : k <= j
  <2> HIDE DEF Bad
  <2> QED
    BY <1>1, LeastNumber
<1>3. k \in 1 .. n /\ k \in 1 .. l /\ f[k] # g[k]
  BY <1>2
<1>4. f[k] = IF k = 1 THEN ss[k] ELSE f[k - 1] \o ss[k]
  BY <1>3, Zenon DEF JoinsTo
<1>5. g[k] = IF k = 1 THEN tt[k] ELSE g[k - 1] \o tt[k]
  BY <1>3, Zenon DEF JoinsTo
<1>6. ss[k] = tt[k]
  BY <1>3 DEF Agree
<1>7. k # 1 => f[k - 1] = g[k - 1]
  <2> SUFFICES ASSUME k # 1 PROVE f[k - 1] = g[k - 1]
    OBVIOUS
  <2>1. k - 1 \in 1 .. n /\ ~ (k <= k - 1)
    BY <1>3
  <2> QED
    BY <1>2, <2>1
<1> QED
  BY <1>3, <1>4, <1>5, <1>6, <1>7, Zenon

\* FlattenSeq is the last element of such a function.
LEMMA FlattenJoins ==
  ASSUME NEW ss, Len(ss) \in Nat \ {0}
  PROVE  \E f : JoinsTo(ss, Len(ss), f) /\ FlattenSeq(ss) = f[Len(ss)]
<1> DEFINE f == CHOOSE f : JoinsTo(ss, Len(ss), f)
<1>1. JoinsTo(ss, Len(ss), f)
  BY JoinsExist
<1>2. FlattenSeq(ss) = f[Len(ss)]
  BY Zenon DEF FlattenSeq, JoinsTo
<1> QED
  BY <1>1, <1>2

LEMMA FlattenNothing ==
  ASSUME NEW ss, Len(ss) = 0
  PROVE  FlattenSeq(ss) = ss
BY Zenon DEF FlattenSeq

\* The last sequence comes behind what the others make.
LEMMA FlattenLast ==
  ASSUME NEW S, NEW ss \in Seq(Seq(S)), NEW tt \in Seq(Seq(S)),
         NEW n \in Nat, NEW l \in Nat, l = n + 1, Len(ss) = l, Len(tt) = n,
         \A k \in 1 .. n : tt[k] = ss[k]
  PROVE  FlattenSeq(ss) = FlattenSeq(tt) \o ss[l]
<1>0. l \in 1 .. l /\ l # 0 /\ l - 1 = n /\ (l = 1 <=> n = 0)
  OBVIOUS
<1>1. PICK f : JoinsTo(ss, l, f) /\ FlattenSeq(ss) = f[l]
  BY <1>0, FlattenJoins
<1>2. f[l] = IF l = 1 THEN ss[l] ELSE f[l - 1] \o ss[l]
  <2>1. JoinsTo(ss, l, f) /\ l \in 1 .. l
    BY <1>0, <1>1
  <2> QED
    BY <2>1, Zenon DEF JoinsTo
<1>3. ss[l] \in Seq(S)
  BY <1>0
<1>4. CASE n = 0
  <2>1. tt = << >>
    BY <1>4
  <2>2. FlattenSeq(tt) = << >>
    BY <1>4, <2>1, FlattenNothing
  <2>3. FlattenSeq(ss) = ss[l]
    BY <1>0, <1>1, <1>2, <1>4
  <2>4. << >> \o ss[l] = ss[l]
    BY <1>3, ConcatEmptySeq
  <2> QED
    BY <2>2, <2>3, <2>4
<1>5. CASE n # 0
  <2>1. PICK g : JoinsTo(tt, n, g) /\ FlattenSeq(tt) = g[n]
    BY <1>5, FlattenJoins
  <2>2. Agree(f, g, n)
    <3>1. n <= l /\ n <= n
      OBVIOUS
    <3>2. Agree(ss, tt, n)
      BY DEF Agree
    <3>3. JoinsTo(ss, l, f) /\ JoinsTo(tt, n, g)
      BY <1>1, <2>1
    <3>4. l \in Nat /\ n \in Nat
      OBVIOUS
    <3> QED
      BY <3>1, <3>2, <3>3, <3>4, JoinsAgree
  <2>3. f[n] = g[n]
    BY <1>5, <2>2 DEF Agree
  <2>4. FlattenSeq(ss) = f[n] \o ss[l]
    BY <1>0, <1>1, <1>2, <1>5
  <2> QED
    BY <2>1, <2>3, <2>4, Zenon
<1> QED
  BY <1>4, <1>5

\* The first n of a sequence of sequences.
LEMMA Firsts ==
  ASSUME NEW T, NEW ss \in Seq(T), NEW n \in 0 .. Len(ss)
  PROVE  /\ SubSeq(ss, 1, n) \in Seq(T) /\ Len(SubSeq(ss, 1, n)) = n
         /\ \A k \in 1 .. n : SubSeq(ss, 1, n)[k] = ss[k]
OBVIOUS

LEMMA FlattenType ==
  ASSUME NEW S, NEW ss \in Seq(Seq(S))
  PROVE  FlattenSeq(ss) \in Seq(S)
<1> DEFINE Bad == { n \in Nat : \E tt \in Seq(Seq(S)) : Len(tt) = n /\ FlattenSeq(tt) \notin Seq(S) }
<1> SUFFICES ASSUME NEW x \in Bad PROVE FALSE
  BY LenProperties
<1>1. PICK m \in Bad : \A k \in Bad : m <= k
  <2>1. Bad \in SUBSET Nat
    OBVIOUS
  <2> HIDE DEF Bad
  <2> QED
    BY <2>1, LeastNumber
<1>2. PICK tt \in Seq(Seq(S)) : Len(tt) = m /\ FlattenSeq(tt) \notin Seq(S)
  BY <1>1
<1>3. CASE m = 0
  <2>1. FlattenSeq(tt) = tt /\ tt = << >>
    BY <1>2, <1>3, FlattenNothing
  <2>2. << >> \in Seq(S)
    OBVIOUS
  <2> QED
    BY <1>2, <2>1, <2>2
<1>4. CASE m # 0
  <2>1. PICK n \in Nat : m = n + 1 /\ n \notin Bad /\ n \in 0 .. Len(tt)
    <3>1. m \in Nat /\ m - 1 \in Nat /\ m = (m - 1) + 1 /\ ~ (m <= m - 1) /\ m - 1 \in 0 .. Len(tt)
      BY <1>1, <1>2, <1>4
    <3> QED
      BY <1>1, <3>1
  <2> DEFINE uu == SubSeq(tt, 1, n)
  <2>2. uu \in Seq(Seq(S)) /\ Len(uu) = n /\ \A k \in 1 .. n : uu[k] = tt[k]
    BY <1>2, <2>1, Firsts
  <2> HIDE DEF uu
  <2>3. FlattenSeq(uu) \in Seq(S)
    BY <2>1, <2>2
  <2>4. FlattenSeq(tt) = FlattenSeq(uu) \o tt[m]
    <3>1. /\ tt \in Seq(Seq(S)) /\ uu \in Seq(Seq(S)) /\ n \in Nat /\ m \in Nat /\ m = n + 1
          /\ Len(tt) = m /\ Len(uu) = n /\ \A k \in 1 .. n : uu[k] = tt[k]
      BY <1>1, <1>2, <2>1, <2>2
    <3> QED
      BY <3>1, FlattenLast, Zenon
  <2>5. tt[m] \in Seq(S)
    BY <1>2, <2>1
  <2>6. FlattenSeq(uu) \o tt[m] \in Seq(S)
    BY <2>3, <2>5, ConcatProperties
  <2> QED
    BY <1>2, <2>4, <2>6
<1> QED
  BY <1>3, <1>4

\* Three sequences joined from the front, and from the back.
Joined(S, a, b, c, d, e, f) ==
  /\ a \in Seq(S) /\ b \in Seq(S) /\ c \in Seq(S)
  /\ d = a \o b /\ e = d \o c /\ f = b \o c

LEMMA JoinLast ==
  ASSUME NEW S, NEW a, NEW b, NEW c, NEW d, NEW e, NEW f, Joined(S, a, b, c, d, e, f)
  PROVE  e = a \o f
BY ConcatAssociative DEF Joined

\* Two parts of a sequence of sequences can be joined on their own.
LEMMA FlattenParts ==
  ASSUME NEW S, NEW ss \in Seq(Seq(S)), NEW tt \in Seq(Seq(S)), NEW uu \in Seq(Seq(S)),
         Len(ss) = Len(tt) + Len(uu),
         \A k \in 1 .. Len(tt) : ss[k] = tt[k],
         \A k \in 1 .. Len(uu) : ss[Len(tt) + k] = uu[k]
  PROVE  FlattenSeq(ss) = FlattenSeq(tt) \o FlattenSeq(uu)
<1> DEFINE Part(n) == SubSeq(uu, 1, n)
           All(n)  == SubSeq(ss, 1, Len(tt) + n)
           Bad == { n \in 0 .. Len(uu) : FlattenSeq(All(n)) # FlattenSeq(tt) \o FlattenSeq(Part(n)) }
<1>0. Len(tt) \in Nat /\ Len(uu) \in Nat /\ Len(ss) \in Nat
  OBVIOUS
<1>1. SUFFICES Bad = {}
  <2>1. All(Len(uu)) = ss /\ Part(Len(uu)) = uu
    BY <1>0, SubSeqFull
  <2>2. Len(uu) \in 0 .. Len(uu)
    BY <1>0
  <2> HIDE DEF All, Part
  <2> QED
    BY <2>1, <2>2
<1> SUFFICES ASSUME NEW x \in Bad PROVE FALSE
  OBVIOUS
<1>2. PICK m \in Bad : \A k \in Bad : m <= k
  <2>1. Bad \in SUBSET Nat
    OBVIOUS
  <2> HIDE DEF Bad
  <2> QED
    BY <2>1, LeastNumber
<1>3. m \in 0 .. Len(uu) /\ FlattenSeq(All(m)) # FlattenSeq(tt) \o FlattenSeq(Part(m))
  BY <1>2
<1>4. ASSUME NEW n \in 0 .. Len(uu)
      PROVE  /\ Part(n) \in Seq(Seq(S)) /\ Len(Part(n)) = n
             /\ \A k \in 1 .. n : Part(n)[k] = uu[k]
             /\ All(n) \in Seq(Seq(S)) /\ Len(All(n)) = Len(tt) + n
             /\ \A k \in 1 .. Len(tt) + n : All(n)[k] = ss[k]
  <2>1. Len(tt) + n \in 0 .. Len(ss)
    BY <1>0
  <2> QED
    BY <2>1, Firsts
<1>5. FlattenSeq(tt) \in Seq(S)
  BY FlattenType
<1>6. CASE m = 0
  <2>1. 0 \in 0 .. Len(uu)
    BY <1>0
  <2>2. Part(0) = << >> /\ All(0) = tt
    <3>1. Part(0) \in Seq(Seq(S)) /\ Len(Part(0)) = 0
      BY <1>4, <2>1
    <3>2. All(0) \in Seq(Seq(S)) /\ Len(All(0)) = Len(tt) + 0 /\ \A k \in 1 .. Len(tt) + 0 : All(0)[k] = ss[k]
      BY <1>4, <2>1
    <3> HIDE DEF All, Part
    <3>3. Part(0) = << >>
      BY <3>1
    <3>4. Len(All(0)) = Len(tt) /\ \A k \in 1 .. Len(All(0)) : All(0)[k] = tt[k]
      <4>1. Len(tt) + 0 = Len(tt)
        BY <1>0
      <4> QED
        BY <3>2, <4>1
    <3>5. All(0) = tt
      BY <3>2, <3>4, SeqEqual
    <3> QED
      BY <3>3, <3>5
  <2>3. FlattenSeq(<< >>) = << >>
    <3>1. Len(<< >>) = 0
      OBVIOUS
    <3> QED
      BY <3>1, FlattenNothing
  <2>4. FlattenSeq(tt) \o << >> = FlattenSeq(tt)
    BY <1>5, ConcatEmptySeq
  <2> HIDE DEF All, Part
  <2> QED
    BY <1>3, <1>6, <2>2, <2>3, <2>4, Zenon
<1>7. CASE m # 0
  <2>1. PICK n \in 0 .. Len(uu) : m = n + 1 /\ n \notin Bad
    <3>1. m \in Nat /\ m - 1 \in 0 .. Len(uu) /\ m = (m - 1) + 1 /\ ~ (m <= m - 1)
      BY <1>0, <1>3, <1>7
    <3> QED
      BY <1>2, <3>1
  <2>2. FlattenSeq(All(n)) = FlattenSeq(tt) \o FlattenSeq(Part(n))
    BY <2>1
  <2>3. n \in Nat /\ m \in Nat /\ m \in 0 .. Len(uu) /\ m \in 1 .. Len(uu) /\ m \in 1 .. m
    BY <1>0, <1>3, <2>1
  <2>4. FlattenSeq(Part(m)) = FlattenSeq(Part(n)) \o uu[m]
    <3>1. Part(m) \in Seq(Seq(S)) /\ Len(Part(m)) = m /\ \A k \in 1 .. m : Part(m)[k] = uu[k]
      BY <1>4, <2>3
    <3>2. Part(n) \in Seq(Seq(S)) /\ Len(Part(n)) = n /\ \A k \in 1 .. n : Part(n)[k] = uu[k]
      BY <1>4, <2>3
    <3> DEFINE p == Part(m)  q == Part(n)
    <3> HIDE DEF Part
    <3>3. \A k \in 1 .. n : k \in 1 .. m
      BY <2>1, <2>3
    <3>4. p[m] = uu[m] /\ \A k \in 1 .. n : q[k] = p[k]
      BY <2>3, <3>1, <3>2, <3>3, Zenon
    <3>5. p \in Seq(Seq(S)) /\ q \in Seq(Seq(S)) /\ Len(p) = m /\ Len(q) = n
      BY <3>1, <3>2
    <3> HIDE DEF p, q
    <3>6. FlattenSeq(p) = FlattenSeq(q) \o p[m]
      <4>1. n \in Nat /\ m \in Nat /\ m = n + 1
        BY <2>1, <2>3
      <4> QED
        BY <3>4, <3>5, <4>1, FlattenLast, Zenon
    <3> QED
      BY <3>4, <3>6 DEF p, q
  <2>5. FlattenSeq(All(m)) = FlattenSeq(All(n)) \o uu[m]
    <3> DEFINE l == Len(tt) + n
               o == Len(tt) + m
               p == All(m)
               q == All(n)
    <3>1. l \in Nat /\ o \in Nat /\ o = l + 1 /\ o \in 1 .. o
      <4>1. Len(tt) \in Nat /\ n \in Nat /\ m = n + 1
        BY <1>0, <2>1, <2>3
      <4> HIDE DEF All, Part, Bad, p, q
      <4> QED
        BY <4>1
    <3>2. p \in Seq(Seq(S)) /\ Len(p) = o /\ \A k \in 1 .. o : p[k] = ss[k]
      BY <1>4, <2>3
    <3>3. q \in Seq(Seq(S)) /\ Len(q) = l /\ \A k \in 1 .. l : q[k] = ss[k]
      BY <1>4, <2>3
    <3>4. ss[o] = uu[m]
      BY <2>3
    <3> HIDE DEF All, l, o, p, q
    <3>5. \A k \in 1 .. l : k \in 1 .. o
      BY <3>1
    <3>6. p[o] = uu[m] /\ \A k \in 1 .. l : q[k] = p[k]
      BY <3>1, <3>2, <3>3, <3>4, <3>5, Zenon
    <3>7. FlattenSeq(p) = FlattenSeq(q) \o p[o]
      <4>1. /\ p \in Seq(Seq(S)) /\ q \in Seq(Seq(S)) /\ Len(p) = o /\ Len(q) = l
            /\ l \in Nat /\ o \in Nat /\ o = l + 1 /\ \A k \in 1 .. l : q[k] = p[k]
        BY <3>1, <3>2, <3>3, <3>6, Zenon
      <4> QED
        BY <4>1, FlattenLast, Zenon
    <3> QED
      BY <3>6, <3>7 DEF p, q
  <2>6. FlattenSeq(Part(n)) \in Seq(S)
    BY <1>4, <2>3, FlattenType
  <2>7. uu[m] \in Seq(S)
    BY <2>3
  <2> DEFINE a == FlattenSeq(tt)  b == FlattenSeq(Part(n))  c == uu[m]
             d == FlattenSeq(All(n))  e == FlattenSeq(All(m))  f == FlattenSeq(Part(m))
  <2>8. Joined(S, a, b, c, d, e, f)
    BY <1>5, <2>2, <2>4, <2>5, <2>6, <2>7, Zenon DEF Joined
  <2> HIDE DEF All, Part, a, b, c, d, e, f
  <2>9. e = a \o f
    BY <2>8, JoinLast, Zenon
  <2> QED
    BY <1>3, <2>1, <2>9 DEF a, e, f
<1> QED
  BY <1>6, <1>7

LEMMA FlattenOne ==
  ASSUME NEW S, NEW s \in Seq(S)
  PROVE  FlattenSeq(<< s >>) = s
<1>1. << s >> \in Seq(Seq(S)) /\ Len(<< s >>) = 1 /\ << s >>[1] = s
  OBVIOUS
<1>2. << >> \in Seq(Seq(S)) /\ Len(<< >>) = 0
  OBVIOUS
<1>3. FlattenSeq(<< s >>) = FlattenSeq(<< >>) \o << s >>[1]
  <2>1. 0 \in Nat /\ 1 \in Nat /\ 1 = 0 + 1 /\ \A k \in 1 .. 0 : << >>[k] = << s >>[k]
    OBVIOUS
  <2> QED
    BY <1>1, <1>2, <2>1, FlattenLast, Zenon
<1>4. FlattenSeq(<< >>) = << >>
  BY <1>2, FlattenNothing
<1>5. << >> \o s = s
  BY ConcatEmptySeq
<1> QED
  BY <1>1, <1>3, <1>4, <1>5

\* Sequences of one element make the sequence of these.
LEMMA FlattenSingles ==
  ASSUME NEW S, NEW a \in Seq(S), NEW ss, ss \in Seq(Seq(S)), Len(ss) = Len(a),
         \A k \in 1 .. Len(a) : ss[k] = << a[k] >>
  PROVE  FlattenSeq(ss) = a
<1> DEFINE All(n) == SubSeq(ss, 1, n)
           Part(n) == SubSeq(a, 1, n)
           Bad == { n \in 0 .. Len(a) : FlattenSeq(All(n)) # Part(n) }
<1>0. Len(a) \in Nat
  OBVIOUS
<1>1. SUFFICES Bad = {}
  <2>1. All(Len(a)) = ss /\ Part(Len(a)) = a
    BY <1>0, SubSeqFull
  <2>2. Len(a) \in 0 .. Len(a)
    BY <1>0
  <2> HIDE DEF All, Part
  <2> QED
    BY <2>1, <2>2
<1> SUFFICES ASSUME NEW x \in Bad PROVE FALSE
  OBVIOUS
<1>2. PICK m \in Bad : \A k \in Bad : m <= k
  <2>1. Bad \in SUBSET Nat
    OBVIOUS
  <2> HIDE DEF Bad
  <2> QED
    BY <2>1, LeastNumber
<1>3. m \in 0 .. Len(a) /\ FlattenSeq(All(m)) # Part(m)
  BY <1>2
<1>4. ASSUME NEW n \in 0 .. Len(a)
      PROVE  /\ Part(n) \in Seq(S) /\ Len(Part(n)) = n /\ \A k \in 1 .. n : Part(n)[k] = a[k]
             /\ All(n) \in Seq(Seq(S)) /\ Len(All(n)) = n /\ \A k \in 1 .. n : All(n)[k] = ss[k]
  BY Firsts
<1>5. CASE m = 0
  <2>1. Part(0) = << >> /\ Len(All(0)) = 0 /\ All(0) = << >>
    <3>1. Part(0) \in Seq(S) /\ Len(Part(0)) = 0 /\ All(0) \in Seq(Seq(S)) /\ Len(All(0)) = 0
      BY <1>3, <1>4, <1>5
    <3> HIDE DEF All, Part
    <3> QED
      BY <3>1
  <2> HIDE DEF All, Part
  <2> QED
    BY <1>3, <1>5, <2>1, FlattenNothing
<1>6. CASE m # 0
  <2>1. PICK n \in 0 .. Len(a) : m = n + 1 /\ n \notin Bad
    <3>1. m \in Nat /\ m - 1 \in 0 .. Len(a) /\ m = (m - 1) + 1 /\ ~ (m <= m - 1)
      BY <1>0, <1>3, <1>6
    <3> QED
      BY <1>2, <3>1
  <2>2. FlattenSeq(All(n)) = Part(n)
    BY <2>1
  <2>3. n \in Nat /\ m \in Nat /\ m \in 0 .. Len(a) /\ m \in 1 .. Len(a) /\ m \in 1 .. m
        /\ \A k \in 1 .. n : k \in 1 .. m
    BY <1>0, <1>3, <2>1
  <2> DEFINE p == Part(m)  q == Part(n)  f == All(m)  g == All(n)
  <2>4. /\ p \in Seq(S) /\ Len(p) = m /\ \A k \in 1 .. m : p[k] = a[k]
        /\ f \in Seq(Seq(S)) /\ Len(f) = m /\ \A k \in 1 .. m : f[k] = ss[k]
    BY <1>4, <2>3
  <2>5. /\ q \in Seq(S) /\ Len(q) = n /\ \A k \in 1 .. n : q[k] = a[k]
        /\ g \in Seq(Seq(S)) /\ Len(g) = n /\ \A k \in 1 .. n : g[k] = ss[k]
    BY <1>4, <2>3
  <2> HIDE DEF All, Part, p, q, f, g
  <2>6. f[m] = << a[m] >> /\ a[m] \in S
    <3>1. f[m] = ss[m] /\ m \in 1 .. Len(a)
      BY <2>3, <2>4
    <3>2. a[m] \in S
      BY <3>1, ElementOfSeq
    <3> QED
      BY <3>1, <3>2
  <2>7. FlattenSeq(f) = FlattenSeq(g) \o << a[m] >>
    <3>1. \A k \in 1 .. n : g[k] = f[k]
      BY <2>3, <2>4, <2>5, Zenon
    <3>2. FlattenSeq(f) = FlattenSeq(g) \o f[m]
      BY <2>1, <2>3, <2>4, <2>5, <3>1, FlattenLast
    <3> QED
      BY <2>6, <3>2
  <2>8. q \o << a[m] >> = p
    <3>1. q \o << a[m] >> = Append(q, a[m])
      BY <2>5, <2>6, AppendIsConcat
    <3> DEFINE t == Append(q, a[m])
    <3>2. t \in Seq(S) /\ Len(t) = m /\ t[m] = a[m] /\ \A k \in 1 .. n : t[k] = q[k]
      <4>1. /\ t \in Seq(S) /\ Len(t) = Len(q) + 1 /\ t[Len(q) + 1] = a[m]
            /\ \A k \in 1 .. Len(q) : t[k] = q[k]
        BY <2>5, <2>6, AppendProperties
      <4> HIDE DEF t
      <4> QED
        BY <2>1, <2>5, <4>1
    <3> HIDE DEF t
    <3>3. ASSUME NEW k \in 1 .. m PROVE t[k] = p[k]
      <4>1. k \in 1 .. n \/ k = m
        BY <2>1, <2>3
      <4> QED
        BY <2>3, <2>4, <2>5, <3>2, <4>1
    <3>4. t = p
      BY <2>4, <3>2, <3>3, SeqEqual
    <3> QED
      BY <3>1, <3>4 DEF t
  <2> QED
    BY <1>3, <2>1, <2>2, <2>7, <2>8 DEF p, q, f, g
<1> QED
  BY <1>5, <1>6

\* Two sequences one after the other.
LEMMA TwoParts ==
  ASSUME NEW S, NEW a \in Seq(S), NEW b \in Seq(S)
  PROVE  /\ a \o b \in Seq(S) /\ Len(a \o b) = Len(a) + Len(b) /\ Len(a) \in Nat /\ Len(b) \in Nat
         /\ \A n \in 1 .. Len(a) : (a \o b)[n] = a[n]
         /\ \A n \in 1 .. Len(b) : (a \o b)[Len(a) + n] = b[n]
BY ConcatProperties

\* What is behind an instruction.
LEMMA Lasts ==
  ASSUME NEW S, NEW b \in Seq(S), NEW to \in 0 .. Len(b)
  PROVE  /\ SubSeq(b, to + 1, Len(b)) \in Seq(S) /\ Len(SubSeq(b, to + 1, Len(b))) = Len(b) - to
         /\ \A k \in 1 .. Len(b) - to : SubSeq(b, to + 1, Len(b))[k] = b[to + k]
OBVIOUS

\* A function from 1 .. n is a sequence.
LEMMA FunIsSeq ==
  ASSUME NEW T, NEW n \in Nat, NEW f \in [1 .. n -> T]
  PROVE  f \in Seq(T) /\ Len(f) = n
OBVIOUS

\* A sequence comes in front of what the others make.
LEMMA FlattenFirst ==
  ASSUME NEW S, NEW s \in Seq(S), NEW ss \in Seq(Seq(S)), NEW tt \in Seq(Seq(S)),
         Len(ss) = 1 + Len(tt), ss[1] = s, \A k \in 1 .. Len(tt) : ss[1 + k] = tt[k]
  PROVE  FlattenSeq(ss) = s \o FlattenSeq(tt)
<1> DEFINE one == << s >>
<1>1. one \in Seq(Seq(S)) /\ Len(one) = 1 /\ one[1] = s
  OBVIOUS
<1>2. FlattenSeq(one) = s
  BY FlattenOne
<1> HIDE DEF one
<1>3. \A k \in 1 .. Len(one) : ss[k] = one[k]
  BY <1>1
<1>4. Len(ss) = Len(one) + Len(tt) /\ \A k \in 1 .. Len(tt) : ss[Len(one) + k] = tt[k]
  BY <1>1
<1>5. FlattenSeq(ss) = FlattenSeq(one) \o FlattenSeq(tt)
  BY <1>1, <1>3, <1>4, FlattenParts
<1> QED
  BY <1>2, <1>5

AllEmpty(ss) == \A k \in 1 .. Len(ss) : ss[k] = << >>

\* Empty sequences make the empty sequence.
LEMMA FlattenEmpties ==
  ASSUME NEW S, NEW ss \in Seq(Seq(S)), AllEmpty(ss)
  PROVE  FlattenSeq(ss) = << >>
<1> DEFINE Bad == { n \in Nat : \E tt \in Seq(Seq(S)) : Len(tt) = n /\ AllEmpty(tt) /\ FlattenSeq(tt) # << >> }
<1> SUFFICES ASSUME NEW x \in Bad PROVE FALSE
  BY LenProperties
<1>1. PICK m \in Bad : \A k \in Bad : m <= k
  <2>1. Bad \in SUBSET Nat
    OBVIOUS
  <2> HIDE DEF Bad
  <2> QED
    BY <2>1, LeastNumber
<1>2. PICK tt \in Seq(Seq(S)) : Len(tt) = m /\ AllEmpty(tt) /\ FlattenSeq(tt) # << >>
  BY <1>1
<1>3. CASE m = 0
  <2>1. FlattenSeq(tt) = tt /\ tt = << >>
    BY <1>2, <1>3, FlattenNothing
  <2> QED
    BY <1>2, <2>1
<1>4. CASE m # 0
  <2>1. PICK n \in Nat : m = n + 1 /\ n \notin Bad /\ n \in 0 .. Len(tt) /\ m \in 1 .. Len(tt) /\ \A k \in 1 .. n : k \in 1 .. Len(tt)
    <3>1. m \in Nat /\ m - 1 \in Nat /\ m = (m - 1) + 1 /\ ~ (m <= m - 1) /\ m - 1 \in 0 .. Len(tt) /\ m \in 1 .. Len(tt)
          /\ \A k \in 1 .. m - 1 : k \in 1 .. Len(tt)
      BY <1>1, <1>2, <1>4
    <3> QED
      BY <1>1, <3>1
  <2> DEFINE uu == SubSeq(tt, 1, n)
  <2>2. uu \in Seq(Seq(S)) /\ Len(uu) = n /\ \A k \in 1 .. n : uu[k] = tt[k]
    BY <1>2, <2>1, Firsts
  <2> HIDE DEF uu
  <2>3. AllEmpty(uu)
    BY <1>2, <2>1, <2>2 DEF AllEmpty
  <2>4. FlattenSeq(uu) = << >>
    BY <2>1, <2>2, <2>3
  <2>5. FlattenSeq(tt) = FlattenSeq(uu) \o tt[m]
    <3>1. /\ tt \in Seq(Seq(S)) /\ uu \in Seq(Seq(S)) /\ n \in Nat /\ m \in Nat /\ m = n + 1
          /\ Len(tt) = m /\ Len(uu) = n /\ \A k \in 1 .. n : uu[k] = tt[k]
      BY <1>1, <1>2, <2>1, <2>2
    <3> QED
      BY <3>1, FlattenLast, Zenon
  <2>6. tt[m] = << >>
    BY <1>2, <2>1 DEF AllEmpty
  <2>7. << >> \o << >> = << >>
    BY ConcatEmptySeq, EmptySeq
  <2> QED
    BY <1>2, <2>4, <2>5, <2>6, <2>7
<1> QED
  BY <1>3, <1>4

\* Cutting a sequence where two parts meet.
LEMMA CutParts ==
  ASSUME NEW S, NEW u \in Seq(S), NEW v \in Seq(S), NEW f \in 0 .. Len(u)
  PROVE  /\ SubSeq(u \o v, 1, f) = SubSeq(u, 1, f)
         /\ SubSeq(u \o v, Len(u) + 1, Len(u \o v)) = v
<1> DEFINE w == u \o v
           x == SubSeq(w, 1, f)
           y == SubSeq(u, 1, f)
           z == SubSeq(w, Len(u) + 1, Len(w))
<1>1. /\ w \in Seq(S) /\ Len(w) = Len(u) + Len(v) /\ Len(u) \in Nat /\ Len(v) \in Nat
      /\ \A n \in 1 .. Len(u) : w[n] = u[n]
      /\ \A n \in 1 .. Len(v) : w[Len(u) + n] = v[n]
  BY TwoParts
<1> HIDE DEF w
<1>2. f \in 0 .. Len(w) /\ Len(u) \in 0 .. Len(w) /\ Len(w) - Len(u) = Len(v)
      /\ \A n \in 1 .. f : n \in 1 .. Len(u)
  BY <1>1
<1>3. x \in Seq(S) /\ Len(x) = f /\ \A n \in 1 .. f : x[n] = w[n]
  BY <1>1, <1>2, Firsts
<1>4. y \in Seq(S) /\ Len(y) = f /\ \A n \in 1 .. f : y[n] = u[n]
  BY Firsts
<1>5. z \in Seq(S) /\ Len(z) = Len(v) /\ \A n \in 1 .. Len(v) : z[n] = w[Len(u) + n]
  <2>1. /\ z \in Seq(S) /\ Len(z) = Len(w) - Len(u)
        /\ \A n \in 1 .. Len(w) - Len(u) : z[n] = w[Len(u) + n]
    BY <1>1, <1>2, Lasts
  <2> HIDE DEF z
  <2> QED
    BY <1>2, <2>1
<1> HIDE DEF x, y, z
<1>6. x = y
  <2>1. \A n \in 1 .. Len(x) : x[n] = y[n]
    BY <1>1, <1>2, <1>3, <1>4
  <2> QED
    BY <1>3, <1>4, <2>1, SeqEqual
<1>7. z = v
  <2>1. \A n \in 1 .. Len(z) : z[n] = v[n]
    BY <1>1, <1>5
  <2> QED
    BY <1>5, <2>1, SeqEqual
<1> QED
  BY <1>6, <1>7 DEF w, x, y, z

\* Behind the first of a sequence of sequences.
LEMMA RestOf ==
  ASSUME NEW S, NEW ss \in Seq(Seq(S)), Len(ss) # 0
  PROVE  \E tt \in Seq(Seq(S)) :
           Len(ss) = 1 + Len(tt) /\ ss[1] \in Seq(S) /\ \A n \in 1 .. Len(tt) : ss[1 + n] = tt[n] /\ 1 + n \in 1 .. Len(ss)
<1> DEFINE tt == SubSeq(ss, 1 + 1, Len(ss))
<1>1. 1 \in 0 .. Len(ss) /\ Len(ss) \in Nat /\ ss[1] \in Seq(S)
  OBVIOUS
<1>2. tt \in Seq(Seq(S)) /\ Len(tt) = Len(ss) - 1 /\ \A n \in 1 .. Len(ss) - 1 : tt[n] = ss[1 + n]
  BY <1>1, Lasts
<1> HIDE DEF tt
<1>3. Len(ss) = 1 + Len(tt) /\ \A n \in 1 .. Len(tt) : ss[1 + n] = tt[n] /\ 1 + n \in 1 .. Len(ss)
  BY <1>1, <1>2
<1> QED
  BY <1>1, <1>2, <1>3

\* What is put in front of the first of some sequences is in front of them all.
LEMMA FrontGrows ==
  ASSUME NEW S, NEW s \in Seq(S), NEW ss \in Seq(Seq(S)), NEW tt \in Seq(Seq(S)),
         Len(ss) = Len(tt), Len(ss) # 0, ss[1] = s \o tt[1],
         \A n \in 1 .. Len(ss) : n # 1 => ss[n] = tt[n]
  PROVE  FlattenSeq(ss) = s \o FlattenSeq(tt)
<1>1. PICK uu \in Seq(Seq(S)) :
        Len(tt) = 1 + Len(uu) /\ tt[1] \in Seq(S) /\ \A n \in 1 .. Len(uu) : tt[1 + n] = uu[n] /\ 1 + n \in 1 .. Len(tt)
  BY RestOf
<1>2. FlattenSeq(tt) = tt[1] \o FlattenSeq(uu)
  BY <1>1, FlattenFirst
<1>3. FlattenSeq(ss) = ss[1] \o FlattenSeq(uu)
  <2>1. \A n \in 1 .. Len(uu) : ss[1 + n] = uu[n]
    <3>1. \A n \in 1 .. Len(uu) : 1 + n # 1 /\ 1 + n \in 1 .. Len(ss)
      BY <1>1
    <3> QED
      BY <1>1, <3>1
  <2>2. ss[1] \in Seq(S) /\ Len(ss) = 1 + Len(uu)
    <3>1. 1 \in 1 .. Len(ss)
      OBVIOUS
    <3> QED
      BY <1>1, <3>1, ElementOfSeq
  <2> QED
    BY <1>1, <2>1, <2>2, FlattenFirst
<1>4. FlattenSeq(uu) \in Seq(S)
  BY <1>1, FlattenType
<1>5. Joined(S, s, tt[1], FlattenSeq(uu), ss[1], FlattenSeq(ss), FlattenSeq(tt))
  BY <1>1, <1>2, <1>3, <1>4, Zenon DEF Joined
<1> QED
  BY <1>5, JoinLast

\* A sequence with nothing behind it.
LEMMA FirstOnly ==
  ASSUME NEW S, NEW ss \in Seq(Seq(S)), Len(ss) # 0, \A n \in 1 .. Len(ss) : n # 1 => ss[n] = << >>
  PROVE  FlattenSeq(ss) = ss[1]
<1>1. PICK tt \in Seq(Seq(S)) :
        Len(ss) = 1 + Len(tt) /\ ss[1] \in Seq(S) /\ \A n \in 1 .. Len(tt) : ss[1 + n] = tt[n] /\ 1 + n \in 1 .. Len(ss)
  BY RestOf
<1>2. AllEmpty(tt)
  <2>1. \A n \in 1 .. Len(tt) : 1 + n # 1
    BY <1>1
  <2> QED
    BY <1>1, <2>1 DEF AllEmpty
<1>3. FlattenSeq(tt) = << >>
  BY <1>1, <1>2, FlattenEmpties
<1>4. FlattenSeq(ss) = ss[1] \o FlattenSeq(tt)
  <2>1. ss[1] \in Seq(S) /\ tt \in Seq(Seq(S)) /\ Len(ss) = 1 + Len(tt) /\ \A n \in 1 .. Len(tt) : ss[1 + n] = tt[n]
    BY <1>1
  <2> QED
    BY <2>1, FlattenFirst
<1>5. ss[1] \o << >> = ss[1]
  BY <1>1, ConcatEmptySeq
<1> QED
  BY <1>3, <1>4, <1>5

-----------------------------------------------------------------------------
(* The sort: every place is taken by one change *)

\* A change has the place behind the changes that come before it.
LEMMA PlaceType ==
  ASSUME NEW cs, Len(cs) \in Nat, \A n \in 1 .. Len(cs) : cs[n].from \in Nat,
         NEW k \in 1 .. Len(cs)
  PROVE  Place(cs, k) \in 1 .. Len(cs)
<1> DEFINE S == { j \in 1 .. Len(cs) : ComesBefore(cs, j, k) }
           T == 1 .. Len(cs)
<1>1. IsFiniteSet(T) /\ Cardinality(T) = Len(cs)
  <2>1. 1 \in Int /\ Len(cs) \in Int
    OBVIOUS
  <2>2. IsFiniteSet(1 .. Len(cs)) /\ Cardinality(1 .. Len(cs)) = IF 1 > Len(cs) THEN 0 ELSE Len(cs) - 1 + 1
    BY <2>1, FS_Interval
  <2> QED
    BY <2>2
<1>2. IsFiniteSet(S) /\ Cardinality(S) <= Len(cs) /\ (Cardinality(S) = Len(cs) => S = T)
  <2>1. S \in SUBSET T
    OBVIOUS
  <2> QED
    BY <1>1, <2>1, FS_Subset
<1>3. k \in T /\ k \notin S
  BY DEF ComesBefore
<1>4. Cardinality(S) \in Nat
  BY <1>2, FS_CardinalityType
<1>5. Cardinality(S) # Len(cs)
  <2> HIDE DEF S, T
  <2> QED
    BY <1>2, <1>3
<1>6. Place(cs, k) = Cardinality(S) + 1
  BY DEF Place
<1> QED
  BY <1>2, <1>4, <1>5, <1>6

\* Of two changes the one that comes before the other has the lower place.
LEMMA PlaceGrows ==
  ASSUME NEW cs, Len(cs) \in Nat, \A n \in 1 .. Len(cs) : cs[n].from \in Nat,
         NEW j \in 1 .. Len(cs), NEW k \in 1 .. Len(cs), ComesBefore(cs, j, k)
  PROVE  Place(cs, j) < Place(cs, k)
<1> DEFINE S(x) == { m \in 1 .. Len(cs) : ComesBefore(cs, m, x) }
<1>1. IsFiniteSet(S(k))
  <2>1. S(k) \in SUBSET (1 .. Len(cs)) /\ 1 \in Int /\ Len(cs) \in Int
    OBVIOUS
  <2>2. IsFiniteSet(1 .. Len(cs))
    BY <2>1, FS_Interval
  <2> QED
    BY <2>1, <2>2, FS_Subset
<1>2. S(j) \subseteq S(k)
  BY DEF ComesBefore
<1>3. j \in S(k) /\ j \notin S(j)
  BY DEF ComesBefore
<1>4. IsFiniteSet(S(j)) /\ Cardinality(S(j)) <= Cardinality(S(k)) /\ Cardinality(S(k)) # Cardinality(S(j))
  <2> HIDE DEF S
  <2>1. S(j) \in SUBSET S(k)
    BY <1>2
  <2> QED
    BY <1>1, <1>3, <2>1, FS_Subset
<1>5. Cardinality(S(j)) \in Nat /\ Cardinality(S(k)) \in Nat
  BY <1>1, <1>4, FS_CardinalityType
<1>6. Place(cs, j) = Cardinality(S(j)) + 1 /\ Place(cs, k) = Cardinality(S(k)) + 1
  BY DEF Place
<1> HIDE DEF S
<1> QED
  BY <1>4, <1>5, <1>6

\* Sorting permutes the changes so that their starts do not grow.
LEMMA SortedIsSorted ==
  ASSUME NEW cs, Len(cs) \in Nat, \A n \in 1 .. Len(cs) : cs[n].from \in Nat
  PROVE  /\ Len(Sorted(cs)) = Len(cs)
         /\ \E p \in [1 .. Len(cs) -> 1 .. Len(cs)] :
              /\ \A n \in 1 .. Len(cs) : Sorted(cs)[n] = cs[p[n]]
              /\ \A m, n \in 1 .. Len(cs) : m < n => p[m] # p[n] /\ cs[p[m]].from >= cs[p[n]].from
              /\ \A k \in 1 .. Len(cs) : \E n \in 1 .. Len(cs) : p[n] = k
<1> DEFINE T == 1 .. Len(cs)
           f == [k \in T |-> Place(cs, k)]
           p == [n \in T |-> CHOOSE k \in T : Place(cs, k) = n]
<1>1. f \in [T -> T]
  BY PlaceType
<1>2. \A j, k \in T : j # k => Place(cs, j) # Place(cs, k)
  <2> SUFFICES ASSUME NEW j \in T, NEW k \in T, j # k
               PROVE  Place(cs, j) # Place(cs, k)
    OBVIOUS
  <2>1. ComesBefore(cs, j, k) \/ ComesBefore(cs, k, j)
    BY DEF ComesBefore
  <2>2. Place(cs, j) \in Int /\ Place(cs, k) \in Int
    BY PlaceType
  <2> QED
    BY <2>1, <2>2, PlaceGrows
<1>3. f \in Injection(T, T)
  BY <1>1, <1>2 DEF Injection, IsInjective
<1>4. IsFiniteSet(T)
  <2>1. 1 \in Int /\ Len(cs) \in Int
    OBVIOUS
  <2> QED
    BY <2>1, FS_Interval
<1>5. f \in Surjection(T, T)
  <2> HIDE DEF T, f
  <2> QED
    BY <1>3, <1>4, FS_Injection
<1>6. \A n \in T : \E k \in T : Place(cs, k) = n
  BY <1>5 DEF Surjection
<1>7. p \in [T -> T] /\ \A n \in T : Place(cs, p[n]) = n
  <2> HIDE DEF T
  <2> QED
    BY <1>6
<1>8. Sorted(cs) = [n \in T |-> cs[p[n]]]
  BY DEF Sorted
<1>9. Len(Sorted(cs)) = Len(cs)
  BY <1>8
<1>10. ASSUME NEW m \in T, NEW n \in T, m < n
       PROVE  p[m] # p[n] /\ cs[p[m]].from >= cs[p[n]].from
  <2> HIDE DEF p
  <2>1. p[m] \in T /\ p[n] \in T /\ Place(cs, p[m]) = m /\ Place(cs, p[n]) = n
    BY <1>7
  <2>2. ~ComesBefore(cs, p[n], p[m])
    <3>1. SUFFICES ASSUME ComesBefore(cs, p[n], p[m]) PROVE FALSE
      OBVIOUS
    <3>2. Place(cs, p[n]) < Place(cs, p[m])
      BY <2>1, <3>1, PlaceGrows
    <3> QED
      BY <1>10, <2>1, <3>2
  <2>3. p[m] # p[n]
    BY <1>10, <2>1
  <2> QED
    BY <2>1, <2>2, <2>3 DEF ComesBefore
<1>11. \A n \in T : Sorted(cs)[n] = cs[p[n]]
  BY <1>8
<1>12. \A k \in T : \E n \in T : p[n] = k
  <2> SUFFICES ASSUME NEW k \in T PROVE \E n \in T : p[n] = k
    OBVIOUS
  <2>1. Place(cs, k) \in T
    BY PlaceType
  <2>2. p[Place(cs, k)] \in T /\ Place(cs, p[Place(cs, k)]) = Place(cs, k)
    BY <1>7, <2>1
  <2> HIDE DEF p, T
  <2> QED
    BY <1>2, <2>1, <2>2
<1> HIDE DEF p
<1> QED
  BY <1>7, <1>9, <1>10, <1>11, <1>12

-----------------------------------------------------------------------------
(* Ranges that do not overlap *)

Disjoint(cs) ==
  \A j, k \in 1 .. Len(cs) : j # k => Indices(cs[j]) \cap Indices(cs[k]) = {}

\* The bit set holds every index of the changes before.
LEMMA NotTwice ==
  ASSUME NEW cs, Len(cs) \in Nat, ~InsertedTwice(cs)
  PROVE  Disjoint(cs)
<1> SUFFICES ASSUME NEW j \in 1 .. Len(cs), NEW k \in 1 .. Len(cs), j < k
             PROVE  Indices(cs[j]) \cap Indices(cs[k]) = {}
  <2>1. \A j, k \in 1 .. Len(cs) : j # k => j < k \/ k < j
    OBVIOUS
  <2> QED
    BY <2>1 DEF Disjoint
<1>1. j \in 1 .. k - 1
  OBVIOUS
<1>2. Indices(cs[k]) \cap UNION { Indices(cs[i1]) : i1 \in 1 .. k - 1 } = {}
  BY DEF InsertedTwice
<1> QED
  BY <1>1, <1>2

\* Sorting keeps ranges apart.
LEMMA SortKeepsDisjoint ==
  ASSUME NEW cs, Len(cs) \in Nat, \A n \in 1 .. Len(cs) : cs[n].from \in Nat, Disjoint(cs)
  PROVE  Disjoint(Sorted(cs))
<1>1. PICK p \in [1 .. Len(cs) -> 1 .. Len(cs)] :
            /\ \A n \in 1 .. Len(cs) : Sorted(cs)[n] = cs[p[n]]
            /\ \A m, n \in 1 .. Len(cs) :
                 m < n => p[m] # p[n] /\ cs[p[m]].from >= cs[p[n]].from
  BY SortedIsSorted
<1>2. Len(Sorted(cs)) = Len(cs)
  BY SortedIsSorted
<1>3. ASSUME NEW j \in 1 .. Len(cs), NEW k \in 1 .. Len(cs), j # k
      PROVE  Indices(Sorted(cs)[j]) \cap Indices(Sorted(cs)[k]) = {}
  <2>1. p[j] # p[k] /\ p[j] \in 1 .. Len(cs) /\ p[k] \in 1 .. Len(cs)
    BY <1>1, <1>3
  <2> QED
    BY <1>1, <2>1 DEF Disjoint
<1> QED
  BY <1>2, <1>3 DEF Disjoint

\* Changes are ranges of instructions; those that are applied are disjoint.
ChangesInv ==
  /\ Len(changes) \in Nat
  /\ \A n \in 1 .. Len(changes) : changes[n].from \in Nat /\ changes[n].to \in Nat
  /\ pc \in {"splice", "done"} => Disjoint(changes)

\* PeepholeOpt counts up to the end of the body.
CountInv == i \in Nat

LEMMA ChangesInit == Init => ChangesInv /\ CountInv
BY RequestAssumption DEF Init, ChangesInv, CountInv

LEMMA ChangesNext == ChangesInv /\ CountInv /\ [Next]_vars => ChangesInv' /\ CountInv'
<1> SUFFICES ASSUME ChangesInv, CountInv, [Next]_vars
             PROVE  ChangesInv' /\ CountInv'
  OBVIOUS
<1>1. CASE Scan
  <2>1. i' \in Nat
    BY <1>1 DEF Scan, CountInv
  <2>2. CASE changes' = changes
    BY <1>1, <2>1, <2>2 DEF Scan, ChangesInv, CountInv
  <2>3. CASE changes' = Append(changes, Range2(i))
    <3>1. Range2(i).from \in Nat /\ Range2(i).to \in Nat
      BY DEF Range2, Change, CountInv
    <3>2. Len(changes') = Len(changes) + 1
          /\ \A n \in 1 .. Len(changes') : changes'[n] = IF n <= Len(changes) THEN changes[n] ELSE Range2(i)
      BY <2>3 DEF ChangesInv
    <3> QED
      BY <1>1, <2>1, <3>1, <3>2 DEF Scan, ChangesInv, CountInv
  <2> QED
    BY <1>1, <2>2, <2>3 DEF Scan
<1>2. CASE EndScan
  BY <1>2 DEF EndScan, ChangesInv, CountInv
<1>3. CASE New
  <2>1. CASE pc' = "refused" /\ changes' = changes
    BY <1>3, <2>1 DEF New, ChangesInv, CountInv
  <2>2. CASE ~InsertedTwice(changes) /\ pc' = "splice" /\ changes' = Sorted(changes)
    <3>1. \A n \in 1 .. Len(changes) : changes[n].from \in Nat
      BY DEF ChangesInv
    <3>2. Disjoint(changes')
      BY <2>2, <3>1, NotTwice, SortKeepsDisjoint DEF ChangesInv
    <3>3. Len(changes') \in Nat /\ \A n \in 1 .. Len(changes') : changes'[n].from \in Nat /\ changes'[n].to \in Nat
      <4>1. Len(changes) \in Nat /\ \A n \in 1 .. Len(changes) : changes[n].from \in Nat /\ changes[n].to \in Nat
        BY DEF ChangesInv
      <4>2. PICK p \in [1 .. Len(changes) -> 1 .. Len(changes)] :
              \A n \in 1 .. Len(changes) : Sorted(changes)[n] = changes[p[n]]
        BY <3>1, <4>1, SortedIsSorted
      <4>3. Len(Sorted(changes)) = Len(changes)
        BY <3>1, <4>1, SortedIsSorted
      <4> QED
        BY <2>2, <4>1, <4>2, <4>3
    <3>4. (Disjoint(changes))'
      BY <3>2 DEF Disjoint
    <3> QED
      BY <1>3, <2>2, <3>3, <3>4 DEF New, ChangesInv, CountInv
  <2> QED
    BY <1>3, <2>1, <2>2 DEF New
<1>4. CASE Splice
  BY <1>4 DEF Splice, ChangesInv, CountInv, Disjoint
<1>5. CASE EndSplice
  BY <1>5 DEF EndSplice, ChangesInv, CountInv, Disjoint
<1>6. CASE UNCHANGED vars
  BY <1>6 DEF vars, ChangesInv, CountInv, Disjoint
<1> QED
  BY <1>1, <1>2, <1>3, <1>4, <1>5, <1>6 DEF Next, Finished

\* Whoever asks for the changes of a block: those that are applied replace no
\* instruction twice, as the bit set of InstrRewritePass::new is to guarantee.
THEOREM ReplacesOnce == Spec => []NoneReplacedTwice
<1>1. ChangesInv => NoneReplacedTwice
  BY DEF ChangesInv, NoneReplacedTwice, Disjoint, Indices
<1> QED
  BY <1>1, ChangesInit, ChangesNext, PTL DEF Spec

-----------------------------------------------------------------------------
(* The changes of PeepholeOpt *)

Items == UNION { ToSet(b) : b \in Bodies }

\* What a body is made of, before and after.
Instrs == Items \cup { OpNamed("CallDirect", x.name) : x \in Items }

\* The change is that of a call found before instruction i.
FoundCall(c) ==
  /\ c.from \in Nat /\ c.to = c.from + 2 /\ c.to <= Len(body)
  /\ body[c.from + 1].op = "LdGlobalFunc" /\ body[c.from + 2].op = "CallIndirect"
  /\ c.from < i
  /\ c.new \in Seq(Instrs)

\* While PeepholeOpt scans, each change it has found ends before the next.
ScanInv ==
  /\ body \in Seq(Items) /\ i \in 0 .. Len(body)
  /\ Len(changes) \in Nat
  /\ \A n \in 1 .. Len(changes) : FoundCall(changes[n])
  /\ \A m, n \in 1 .. Len(changes) : m < n => changes[m].to <= changes[n].from

\* When a change is applied, those still to come are further to the front, and
\* what is there has not moved.
SpliceInv ==
  /\ body \in Seq(Instrs)
  /\ Len(changes) \in Nat /\ next \in 1 .. Len(changes) + 1
  /\ \A n \in next .. Len(changes) :
       /\ changes[n].from \in Nat /\ changes[n].to \in Nat
       /\ changes[n].from <= changes[n].to /\ changes[n].to <= Len(body)
       /\ changes[n].new \in Seq(Instrs)
  /\ \A m, n \in next .. Len(changes) : m < n => changes[n].to <= changes[m].from

PeepholeInv ==
  ~asked =>
    /\ pc \in {"scan", "new", "splice", "done"}
    /\ next = 1 \/ pc \notin {"scan", "new"}
    /\ pc \in {"scan", "new"} => ScanInv
    /\ pc = "splice" => SpliceInv

LEMMA BodiesOfItems == \A b \in Bodies : b \in Seq(Items)
<1> SUFFICES ASSUME NEW b \in Bodies PROVE b \in Seq(Items)
  OBVIOUS
<1>1. b \in Seq(ToSet(b)) /\ ToSet(b) \subseteq Items
  BY BodyAssumption DEF Items
<1> HIDE DEF Items
<1> QED
  BY <1>1

LEMMA PeepholeInit == Init => PeepholeInv
<1> SUFFICES ASSUME Init, ~asked PROVE PeepholeInv
  BY DEF PeepholeInv
<1>1. pc = "scan" /\ changes = << >> /\ i = 0 /\ next = 1 /\ body \in Bodies
  BY DEF Init
<1>2. body \in Seq(Items)
  BY <1>1, BodiesOfItems
<1>3. Len(changes) = 0 /\ i \in 0 .. Len(body)
  BY <1>1, <1>2
<1>4. ScanInv
  BY <1>2, <1>3 DEF ScanInv
<1> QED
  BY <1>1, <1>4 DEF PeepholeInv

\* A call found at i ends before any other: instruction i + 1 loads a function,
\* where a call that was found earlier ends with the call itself.
LEMMA ScanFinds == ScanInv /\ Scan => ScanInv'
<1> SUFFICES ASSUME ScanInv, Scan PROVE ScanInv'
  OBVIOUS
<1>1. body' = body /\ i' = i + 1 /\ i < Len(body) /\ body \in Seq(Items)
      /\ i \in 0 .. Len(body) /\ Len(body) \in Nat /\ Len(changes) \in Nat
  BY DEF Scan, ScanInv
<1>2. i' \in 0 .. Len(body')
  BY <1>1
<1>3. \A n \in 1 .. Len(changes) : FoundCall(changes[n])
      /\ (changes[n].from < i')
  BY <1>1 DEF ScanInv, FoundCall
<1>4. CASE changes' = changes
  BY <1>1, <1>2, <1>3, <1>4 DEF ScanInv, FoundCall
<1>5. CASE i + 1 < Len(body) /\ Matches(body[i + 1], body[i + 2]) /\ changes' = Append(changes, Range2(i))
  <2>1. Len(changes') = Len(changes) + 1
        /\ \A n \in 1 .. Len(changes') : changes'[n] = IF n <= Len(changes) THEN changes[n] ELSE Range2(i)
    BY <1>1, <1>5
  <2>2. Range2(i).from = i /\ Range2(i).to = i + 2 /\ Range2(i).new = Replacement(body[i + 1])
    BY DEF Range2, Change
  <2>3. body[i + 1] \in Items
    BY <1>1
  <2>4. Replacement(body[i + 1]) \in Seq(Instrs)
    BY <2>3 DEF Replacement, Instrs
  <2>5. body[i + 1].op = "LdGlobalFunc" /\ body[i + 2].op = "CallIndirect" /\ i + 2 <= Len(body)
    BY <1>1, <1>5 DEF Matches
  <2>6. \A n \in 1 .. Len(changes) : changes[n].to <= i
    <3> SUFFICES ASSUME NEW n \in 1 .. Len(changes) PROVE changes[n].to <= i
      OBVIOUS
    <3>1. FoundCall(changes[n])
      BY <1>3
    <3>2. changes[n].from + 2 # i + 1
      BY <2>5, <3>1 DEF FoundCall
    <3> QED
      BY <1>1, <3>1, <3>2 DEF FoundCall
  <2>7. \A n \in 1 .. Len(changes') : FoundCall(changes[n])'
    <3> SUFFICES ASSUME NEW n \in 1 .. Len(changes') PROVE FoundCall(changes[n])'
      OBVIOUS
    <3>1. CASE n <= Len(changes)
      <4>1. changes'[n] = changes[n] /\ n \in 1 .. Len(changes)
        BY <1>1, <2>1, <3>1
      <4>2. FoundCall(changes[n]) /\ changes[n].from < i'
        BY <1>3, <4>1
      <4> QED
        BY <1>1, <4>1, <4>2 DEF FoundCall
    <3>2. CASE n > Len(changes)
      <4>1. changes'[n] = Range2(i)
        BY <1>1, <2>1, <3>2
      <4> QED
        BY <1>1, <2>2, <2>4, <2>5, <4>1 DEF FoundCall
    <3> QED
      BY <1>1, <2>1, <3>1, <3>2
  <2>8. \A m, n \in 1 .. Len(changes') : m < n => changes'[m].to <= changes'[n].from
    BY <1>1, <2>1, <2>2, <2>6 DEF ScanInv
  <2> QED
    BY <1>1, <1>2, <2>1, <2>7, <2>8 DEF ScanInv
<1> QED
  BY <1>4, <1>5 DEF Scan

\* The changes found do not overlap, so none is refused; sorted they come from
\* the back to the front.
LEMMA NewAccepts ==
  ScanInv /\ New /\ next = 1 => pc' = "splice" /\ SpliceInv'
<1> SUFFICES ASSUME ScanInv, New, next = 1 PROVE pc' = "splice" /\ SpliceInv'
  OBVIOUS
<1>1. /\ Len(changes) \in Nat /\ body \in Seq(Items)
      /\ \A n \in 1 .. Len(changes) : FoundCall(changes[n])
      /\ \A m, n \in 1 .. Len(changes) : m < n => changes[m].to <= changes[n].from
  BY DEF ScanInv
<1>2. \A n \in 1 .. Len(changes) : changes[n].from \in Nat /\ changes[n].to = changes[n].from + 2
  BY <1>1 DEF FoundCall
<1>3. \A n \in 1 .. Len(changes) : \A k \in 1 .. n - 1 :
        k \in 1 .. Len(changes) /\ Indices(changes[n]) \cap Indices(changes[k]) = {}
  BY <1>1, <1>2 DEF Indices
<1>4. ~InsertedTwice(changes)
  BY <1>3 DEF InsertedTwice
<1>5. pc' = "splice" /\ changes' = Sorted(changes) /\ body' = body /\ next' = next
  BY <1>4 DEF New
<1>6. PICK p \in [1 .. Len(changes) -> 1 .. Len(changes)] :
         /\ \A n \in 1 .. Len(changes) : Sorted(changes)[n] = changes[p[n]]
         /\ \A m, n \in 1 .. Len(changes) :
              m < n => p[m] # p[n] /\ changes[p[m]].from >= changes[p[n]].from
  BY <1>1, <1>2, SortedIsSorted
<1>7. Len(changes') = Len(changes)
  BY <1>1, <1>2, <1>5, SortedIsSorted
<1>8. \A n \in 1 .. Len(changes') :
        /\ changes'[n].from \in Nat /\ changes'[n].to \in Nat
        /\ changes'[n].from <= changes'[n].to /\ changes'[n].to <= Len(body')
        /\ changes'[n].new \in Seq(Instrs)
  <2> SUFFICES ASSUME NEW n \in 1 .. Len(changes)
               PROVE  /\ changes'[n].from \in Nat /\ changes'[n].to \in Nat
                      /\ changes'[n].from <= changes'[n].to /\ changes'[n].to <= Len(body')
                      /\ changes'[n].new \in Seq(Instrs)
    BY <1>7
  <2>1. p[n] \in 1 .. Len(changes) /\ changes'[n] = changes[p[n]]
    BY <1>5, <1>6
  <2>2. FoundCall(changes[p[n]])
    BY <1>1, <2>1
  <2> QED
    BY <1>5, <2>1, <2>2 DEF FoundCall
<1>9. ASSUME NEW m \in 1 .. Len(changes), NEW n \in 1 .. Len(changes), m < n
      PROVE  changes'[n].to <= changes'[m].from
  <2>1. /\ p[m] \in 1 .. Len(changes) /\ p[n] \in 1 .. Len(changes) /\ p[m] # p[n]
        /\ changes[p[m]].from >= changes[p[n]].from
        /\ changes'[m] = changes[p[m]] /\ changes'[n] = changes[p[n]]
    BY <1>5, <1>6, <1>9
  <2>2. ~ (p[m] < p[n])
    <3>1. p[m] < p[n] => changes[p[m]].to <= changes[p[n]].from
      BY <1>1, <2>1
    <3> QED
      BY <1>2, <2>1, <3>1
  <2>3. p[n] < p[m]
    BY <2>1, <2>2
  <2> QED
    BY <1>1, <2>1, <2>3
<1>10. body' \in Seq(Instrs) /\ Len(changes') \in Nat /\ next' \in 1 .. Len(changes') + 1
  <2>1. body \in Seq(Instrs)
    BY <1>1 DEF Instrs
  <2> QED
    BY <1>1, <1>5, <1>7, <2>1
<1> QED
  BY <1>5, <1>7, <1>8, <1>9, <1>10 DEF SpliceInv

\* A splice is never out of bounds and moves nothing in front of its range.
LEMMA SpliceFits == SpliceInv /\ Splice => pc' = "splice" /\ SpliceInv'
<1> SUFFICES ASSUME SpliceInv, Splice PROVE pc' = "splice" /\ SpliceInv'
  OBVIOUS
<1> DEFINE c == changes[next]
<1>1. /\ next \in 1 .. Len(changes) /\ Len(changes) \in Nat /\ changes' = changes
      /\ c.from \in Nat /\ c.to \in Nat /\ c.from <= c.to /\ c.to <= Len(body)
      /\ c.new \in Seq(Instrs) /\ body \in Seq(Instrs)
  BY DEF SpliceInv, Splice
<1>2. ~OutOfBounds(c)
  BY <1>1 DEF OutOfBounds
<1>3. /\ body' = SubSeq(body, 1, c.from) \o c.new \o SubSeq(body, c.to + 1, Len(body))
      /\ next' = next + 1 /\ pc' = "splice"
  BY <1>2 DEF Splice
<1> HIDE DEF c
<1>4. SubSeq(body, 1, c.from) \in Seq(Instrs) /\ Len(SubSeq(body, 1, c.from)) = c.from
      /\ SubSeq(body, c.to + 1, Len(body)) \in Seq(Instrs)
  BY <1>1
<1>5. body' \in Seq(Instrs) /\ c.from <= Len(body')
  <2> DEFINE before == SubSeq(body, 1, c.from)
             after  == SubSeq(body, c.to + 1, Len(body))
  <2>1. before \in Seq(Instrs) /\ after \in Seq(Instrs) /\ Len(before) = c.from
    BY <1>4
  <2>2. body' = before \o c.new \o after
    BY <1>3
  <2> HIDE DEF before, after
  <2> QED
    BY <1>1, <2>1, <2>2
<1>6. \A n \in next + 1 .. Len(changes) : changes[n].to <= c.from
  BY <1>1 DEF SpliceInv, c
<1>7. ASSUME NEW n \in next' .. Len(changes')
      PROVE  /\ changes'[n].from \in Nat /\ changes'[n].to \in Nat
             /\ changes'[n].from <= changes'[n].to /\ changes'[n].to <= Len(body')
             /\ changes'[n].new \in Seq(Instrs)
  <2>1. n \in next .. Len(changes) /\ n \in next + 1 .. Len(changes)
    BY <1>1, <1>3
  <2>2. Len(body') \in Nat
    BY <1>5
  <2> QED
    BY <1>1, <1>5, <1>6, <2>1, <2>2 DEF SpliceInv
<1>8. \A m, n \in next' .. Len(changes') : m < n => changes'[n].to <= changes'[m].from
  <2>1. changes' = changes /\ \A n \in next' .. Len(changes) : n \in next .. Len(changes)
    BY <1>1, <1>3
  <2>2. \A m, n \in next .. Len(changes) : m < n => changes[n].to <= changes[m].from
    BY DEF SpliceInv
  <2> QED
    BY <2>1, <2>2
<1> QED
  BY <1>1, <1>3, <1>5, <1>7, <1>8 DEF SpliceInv

LEMMA PeepholeNext == PeepholeInv /\ [Next]_vars => PeepholeInv'
<1> SUFFICES ASSUME PeepholeInv, [Next]_vars, ~asked'
             PROVE  PeepholeInv'
  BY DEF PeepholeInv
<1>0. ~asked
  BY DEF Next, vars, Scan, EndScan, New, Splice, EndSplice, Finished
<1>1. CASE Scan
  BY <1>0, <1>1, ScanFinds DEF PeepholeInv, Scan
<1>2. CASE EndScan
  <2>1. ScanInv
    BY <1>0, <1>2 DEF PeepholeInv, EndScan
  <2>2. ScanInv'
    BY <1>2, <2>1 DEF EndScan, ScanInv, FoundCall
  <2> QED
    BY <1>0, <1>2, <2>2 DEF PeepholeInv, EndScan
<1>3. CASE New
  BY <1>0, <1>3, NewAccepts DEF PeepholeInv, New
<1>4. CASE Splice
  BY <1>0, <1>4, SpliceFits DEF PeepholeInv, Splice
<1>5. CASE EndSplice
  BY <1>0, <1>5 DEF PeepholeInv, EndSplice
<1>6. CASE UNCHANGED vars
  BY <1>0, <1>6 DEF vars, PeepholeInv, ScanInv, SpliceInv, FoundCall
<1> QED
  BY <1>1, <1>2, <1>3, <1>4, <1>5, <1>6 DEF Next, Finished

\* The changes PeepholeOpt finds are never refused, and applied without a
\* panic: the unwraps of the pipeline cannot fail.
THEOREM PeepholeNeverFails == Spec => []PeepholeIsApplied
<1>1. PeepholeInv => PeepholeIsApplied
  BY DEF PeepholeInv, PeepholeIsApplied
<1> QED
  BY <1>1, PeepholeInit, PeepholeNext, PTL DEF Spec

-----------------------------------------------------------------------------
(* What the changes of PeepholeOpt make of the block *)

\* What an instruction is expanded to.
Expansion(x) ==
  IF x.op = "CallDirect" THEN << OpNamed("LdGlobalFunc", x.name), Op("CallIndirect") >> ELSE << x >>

Expansions(b) == [n \in 1 .. Len(b) |-> Expansion(b[n])]

\* What expanded instructions of S are made of.
Parts(S) == S \cup { OpNamed("LdGlobalFunc", x.name) : x \in S } \cup { Op("CallIndirect") }

LEMMA ExpansionsType ==
  ASSUME NEW S, NEW b \in Seq(S)
  PROVE  /\ Expansions(b) \in Seq(Seq(Parts(S))) /\ Len(Expansions(b)) = Len(b)
         /\ \A n \in 1 .. Len(b) : Expansions(b)[n] = Expansion(b[n])
         /\ Expanded(b) = FlattenSeq(Expansions(b))
<1>1. \A x \in S : Expansion(x) \in Seq(Parts(S))
  <2> SUFFICES ASSUME NEW x \in S PROVE Expansion(x) \in Seq(Parts(S))
    OBVIOUS
  <2>1. OpNamed("LdGlobalFunc", x.name) \in Parts(S) /\ Op("CallIndirect") \in Parts(S) /\ x \in Parts(S)
    BY DEF Parts
  <2> HIDE DEF Parts
  <2> QED
    BY <2>1 DEF Expansion
<1>2. \A n \in 1 .. Len(b) : Expansion(b[n]) \in Seq(Parts(S))
  BY <1>1
<1>3. Expansions(b) \in [1 .. Len(b) -> Seq(Parts(S))]
  BY <1>2 DEF Expansions
<1>4. Len(b) \in Nat
  OBVIOUS
<1>5. Expansions(b) \in Seq(Seq(Parts(S))) /\ Len(Expansions(b)) = Len(b)
  BY <1>3, <1>4
<1>6. Expanded(b) = FlattenSeq(Expansions(b))
  BY Zenon DEF Expanded, Expansions, Expansion
<1> QED
  BY <1>5, <1>6 DEF Expansions

\* Blocks are expanded one after the other.
LEMMA ExpandedParts ==
  ASSUME NEW S, NEW a \in Seq(S), NEW b \in Seq(S)
  PROVE  Expanded(a \o b) = Expanded(a) \o Expanded(b)
<1> DEFINE c == a \o b
<1>1. /\ c \in Seq(S) /\ Len(c) = Len(a) + Len(b) /\ Len(a) \in Nat /\ Len(b) \in Nat
      /\ \A n \in 1 .. Len(a) : c[n] = a[n]
      /\ \A n \in 1 .. Len(b) : c[Len(a) + n] = b[n]
  BY TwoParts
<1> HIDE DEF c
<1> DEFINE ss == Expansions(c)  tt == Expansions(a)  uu == Expansions(b)
<1>2. /\ ss \in Seq(Seq(Parts(S))) /\ Len(ss) = Len(c) /\ \A n \in 1 .. Len(c) : ss[n] = Expansion(c[n])
      /\ Expanded(c) = FlattenSeq(ss)
  BY <1>1, ExpansionsType
<1>3. /\ tt \in Seq(Seq(Parts(S))) /\ Len(tt) = Len(a) /\ \A n \in 1 .. Len(a) : tt[n] = Expansion(a[n])
      /\ Expanded(a) = FlattenSeq(tt)
  BY ExpansionsType
<1>4. /\ uu \in Seq(Seq(Parts(S))) /\ Len(uu) = Len(b) /\ \A n \in 1 .. Len(b) : uu[n] = Expansion(b[n])
      /\ Expanded(b) = FlattenSeq(uu)
  BY ExpansionsType
<1> HIDE DEF ss, tt, uu
<1>5. \A n \in 1 .. Len(tt) : ss[n] = tt[n]
  BY <1>1, <1>2, <1>3
<1>6. \A n \in 1 .. Len(uu) : ss[Len(tt) + n] = uu[n]
  BY <1>1, <1>2, <1>3, <1>4
<1>7. Len(ss) = Len(tt) + Len(uu)
  BY <1>1, <1>2, <1>3, <1>4
<1>8. FlattenSeq(ss) = FlattenSeq(tt) \o FlattenSeq(uu)
  BY <1>2, <1>3, <1>4, <1>5, <1>6, <1>7, FlattenParts
<1> QED
  BY <1>2, <1>3, <1>4, <1>8 DEF c

LEMMA ExpandedType ==
  ASSUME NEW S, NEW b \in Seq(S)
  PROVE  Expanded(b) \in Seq(Parts(S))
BY ExpansionsType, FlattenType

\* The call and what it replaces expand to the same.
LEMMA ExpandedCall ==
  ASSUME NEW name
  PROVE  Expanded(<< OpNamed("CallDirect", name) >>)
           = Expanded(<< OpNamed("LdGlobalFunc", name), Op("CallIndirect") >>)
<1> DEFINE x == OpNamed("LdGlobalFunc", name)  y == Op("CallIndirect")  z == OpNamed("CallDirect", name)
           b == << x, y >>  c == << z >>
           S == { x, y, z }
<1>1. Expansion(x) = << x >> /\ Expansion(y) = << y >> /\ Expansion(z) = << x, y >>
  BY DEF Expansion, Op, OpNamed
<1> HIDE DEF x, y, z
<1>2. b \in Seq(S) /\ c \in Seq(S) /\ Len(b) = 2 /\ Len(c) = 1 /\ b[1] = x /\ b[2] = y /\ c[1] = z
  OBVIOUS
<1>3. Expanded(b) = b
  <2>1. \A n \in 1 .. Len(b) : n = 1 \/ n = 2
    BY <1>2
  <2> HIDE DEF b, c, S
  <2>2. /\ Expansions(b) \in Seq(Seq(Parts(S))) /\ Len(Expansions(b)) = Len(b)
        /\ \A n \in 1 .. Len(b) : Expansions(b)[n] = Expansion(b[n])
        /\ Expanded(b) = FlattenSeq(Expansions(b))
    BY <1>2, ExpansionsType
  <2>3. \A n \in 1 .. Len(b) : Expansions(b)[n] = << b[n] >>
    BY <1>1, <1>2, <2>1, <2>2, Zenon
  <2>4. b \in Seq(Parts(S))
    BY <1>2 DEF Parts
  <2> QED
    BY <2>2, <2>3, <2>4, FlattenSingles, Zenon
<1>4. Expanded(c) = b
  <2>1. b \in Seq(Parts(S))
    BY <1>2 DEF Parts
  <2>2. 1 \in 1 .. Len(c)
    BY <1>2
  <2> HIDE DEF c, S
  <2>3. /\ Expansions(c) \in Seq(Seq(Parts(S))) /\ Len(Expansions(c)) = Len(c)
        /\ \A n \in 1 .. Len(c) : Expansions(c)[n] = Expansion(c[n])
        /\ Expanded(c) = FlattenSeq(Expansions(c))
    BY <1>2, ExpansionsType
  <2>4. Expansions(c)[1] = b
    BY <1>1, <1>2, <2>2, <2>3, Zenon
  <2> HIDE DEF b
  <2>5. Expansions(c) = << b >>
    BY <1>2, <2>3, <2>4
  <2> QED
    BY <2>1, <2>3, <2>5, FlattenOne
<1> QED
  BY <1>3, <1>4 DEF x, y, z

-----------------------------------------------------------------------------
(* A splice *)

Spliced(b, from, to, new) == SubSeq(b, 1, from) \o new \o SubSeq(b, to + 1, Len(b))

\* The sequence s has b up to from, then new, then b behind to.
IsSpliced(s, b, from, to, new) ==
  /\ Len(s) = from + Len(new) + (Len(b) - to)
  /\ \A k \in 1 .. from : s[k] = b[k]
  /\ \A k \in 1 .. Len(new) : s[from + k] = new[k]
  /\ \A k \in 1 .. Len(b) - to : s[from + Len(new) + k] = b[to + k]

LEMMA SplicedIs ==
  ASSUME NEW S, NEW b \in Seq(S), NEW to \in 0 .. Len(b), NEW from \in 0 .. to, NEW new \in Seq(S)
  PROVE  Spliced(b, from, to, new) \in Seq(S) /\ IsSpliced(Spliced(b, from, to, new), b, from, to, new)
<1> DEFINE before == SubSeq(b, 1, from)
           after  == SubSeq(b, to + 1, Len(b))
           half   == before \o new
           s      == half \o after
<1>0. from \in 0 .. Len(b) /\ from \in Nat /\ to \in Nat /\ Len(b) \in Nat /\ Len(new) \in Nat /\ to <= Len(b)
  OBVIOUS
<1>1. before \in Seq(S) /\ Len(before) = from /\ \A k \in 1 .. from : before[k] = b[k]
  BY <1>0, Firsts
<1>2. after \in Seq(S) /\ Len(after) = Len(b) - to /\ \A k \in 1 .. Len(b) - to : after[k] = b[to + k]
  BY Lasts
<1>3. Spliced(b, from, to, new) = s
  BY DEF Spliced
<1> HIDE DEF before, after
<1>a. before \in Seq(S) /\ after \in Seq(S)
  BY <1>1, <1>2
<1>4. /\ half \in Seq(S) /\ Len(half) = from + Len(new)
      /\ \A k \in 1 .. from : half[k] = b[k]
      /\ \A k \in 1 .. Len(new) : half[from + k] = new[k]
  <2>1. /\ half \in Seq(S) /\ Len(half) = Len(before) + Len(new)
        /\ \A k \in 1 .. Len(before) : half[k] = before[k]
        /\ \A k \in 1 .. Len(new) : half[Len(before) + k] = new[k]
    BY <1>a, TwoParts
  <2> HIDE DEF half
  <2> QED
    BY <1>0, <1>1, <2>1
<1>b. half \in Seq(S)
  BY <1>4
<1> HIDE DEF half
<1>5. /\ s \in Seq(S) /\ Len(s) = Len(half) + Len(after)
      /\ \A k \in 1 .. Len(half) : s[k] = half[k]
      /\ \A k \in 1 .. Len(after) : s[Len(half) + k] = after[k]
  BY <1>a, <1>b, TwoParts
<1> HIDE DEF s
<1>6. IsSpliced(s, b, from, to, new)
  <2>1. Len(s) = from + Len(new) + (Len(b) - to)
    BY <1>0, <1>2, <1>4, <1>5
  <2>2. /\ \A k \in 1 .. from : k \in 1 .. Len(half)
        /\ \A k \in 1 .. Len(new) : from + k \in 1 .. Len(half)
    BY <1>0, <1>4
  <2>3. \A k \in 1 .. from : s[k] = b[k]
    BY <1>4, <1>5, <2>2
  <2>4. \A k \in 1 .. Len(new) : s[from + k] = new[k]
    BY <1>4, <1>5, <2>2
  <2>5. \A k \in 1 .. Len(b) - to : s[from + Len(new) + k] = b[to + k]
    BY <1>2, <1>4, <1>5
  <2> QED
    BY <2>1, <2>3, <2>4, <2>5 DEF IsSpliced
<1> QED
  BY <1>3, <1>5, <1>6

\* The block expands to the same when a range is replaced by what expands to
\* the same.
LEMMA ExpandedSplice ==
  ASSUME NEW S, NEW b \in Seq(S), NEW to \in 0 .. Len(b), NEW from \in 0 .. to, NEW new \in Seq(S),
         NEW old \in Seq(S), Len(old) = to - from, \A k \in 1 .. Len(old) : b[from + k] = old[k],
         Expanded(old) = Expanded(new)
  PROVE  Expanded(Spliced(b, from, to, new)) = Expanded(b)
<1> DEFINE before == SubSeq(b, 1, from)
           after  == SubSeq(b, to + 1, Len(b))
           half   == before \o new
           first  == before \o old
<1>0. from \in 0 .. Len(b) /\ from \in Nat /\ to \in Nat /\ Len(b) \in Nat /\ to <= Len(b)
  OBVIOUS
<1>1. before \in Seq(S) /\ Len(before) = from /\ \A k \in 1 .. from : before[k] = b[k]
  BY <1>0, Firsts
<1>2. after \in Seq(S) /\ Len(after) = Len(b) - to /\ \A k \in 1 .. Len(b) - to : after[k] = b[to + k]
  BY Lasts
<1>3. Spliced(b, from, to, new) = half \o after
  BY DEF Spliced
<1> HIDE DEF before, after
<1>a. before \in Seq(S) /\ after \in Seq(S)
  BY <1>1, <1>2
<1>4. half \in Seq(S) /\ first \in Seq(S)
  BY <1>a
<1>5. b = first \o after
  <2>1. /\ Len(first) = to
        /\ \A k \in 1 .. from : first[k] = b[k]
        /\ \A k \in 1 .. Len(old) : first[from + k] = old[k]
    <3>1. /\ Len(first) = Len(before) + Len(old)
          /\ \A k \in 1 .. Len(before) : first[k] = before[k]
          /\ \A k \in 1 .. Len(old) : first[Len(before) + k] = old[k]
      BY <1>1, TwoParts
    <3> HIDE DEF first
    <3> QED
      BY <1>0, <1>1, <3>1
  <2> DEFINE s == first \o after
  <2> HIDE DEF first
  <2>2. /\ s \in Seq(S) /\ Len(s) = Len(b)
        /\ \A k \in 1 .. to : s[k] = first[k]
        /\ \A k \in 1 .. Len(b) - to : s[to + k] = after[k]
    <3>1. /\ s \in Seq(S) /\ Len(s) = Len(first) + Len(after)
          /\ \A k \in 1 .. Len(first) : s[k] = first[k]
          /\ \A k \in 1 .. Len(after) : s[Len(first) + k] = after[k]
      BY <1>a, <1>4, TwoParts
    <3> HIDE DEF s
    <3> QED
      BY <1>0, <1>2, <2>1, <3>1
  <2> HIDE DEF s
  <2>3. ASSUME NEW k \in 1 .. Len(s) PROVE s[k] = b[k]
    <3>1. CASE k <= from
      BY <1>0, <2>1, <2>2, <3>1
    <3>2. CASE k > from /\ k <= to
      <4>1. k \in 1 .. to /\ k - from \in 1 .. Len(old) /\ from + (k - from) = k
        BY <1>0, <3>2
      <4>2. s[k] = first[k]
        BY <2>2, <4>1
      <4>3. first[from + (k - from)] = old[k - from] /\ b[from + (k - from)] = old[k - from]
        BY <2>1, <4>1
      <4> QED
        BY <4>1, <4>2, <4>3
    <3>3. CASE k > to
      <4>1. k - to \in 1 .. Len(b) - to /\ to + (k - to) = k
        BY <1>0, <2>2, <3>3
      <4>2. s[to + (k - to)] = after[k - to] /\ after[k - to] = b[to + (k - to)]
        BY <1>2, <2>2, <4>1
      <4> QED
        BY <4>1, <4>2
    <3> QED
      BY <1>0, <3>1, <3>2, <3>3
  <2>4. s = b
    BY <2>2, <2>3, SeqEqual
  <2> QED
    BY <2>4 DEF s
<1>6. Expanded(half) = Expanded(first)
  <2>1. Expanded(half) = Expanded(before) \o Expanded(new)
    BY <1>1, ExpandedParts
  <2>2. Expanded(first) = Expanded(before) \o Expanded(old)
    BY <1>1, ExpandedParts
  <2> QED
    BY <2>1, <2>2, Zenon
<1> HIDE DEF half, first
<1>7. Expanded(half \o after) = Expanded(half) \o Expanded(after)
  BY <1>2, <1>4, ExpandedParts
<1>8. Expanded(first \o after) = Expanded(first) \o Expanded(after)
  BY <1>2, <1>4, ExpandedParts
<1> QED
  BY <1>3, <1>5, <1>6, <1>7, <1>8, Zenon

-----------------------------------------------------------------------------
(* PeepholeOpt keeps the calls of the block *)

\* The change is the call in b at its start made direct.
MakesDirect(c, b) ==
  /\ c.from \in Nat /\ c.to = c.from + 2 /\ c.to <= Len(b)
  /\ b[c.from + 1] = OpNamed("LdGlobalFunc", b[c.from + 1].name)
  /\ b[c.from + 2] = Op("CallIndirect")
  /\ c.new = Replacement(b[c.from + 1])

\* Every call among the first m instructions of b that could be made direct has
\* one of the changes from n on.
AllFound(b, m, cs, n) ==
  \A k \in 1 .. m : k < Len(b) /\ Matches(b[k], b[k + 1]) =>
    \E j \in n .. Len(cs) : cs[j].from = k - 1

CallsInv ==
  ~asked =>
    /\ pc = "scan" => AllFound(body, i, changes, 1)
    /\ pc = "new" => AllFound(body, Len(body), changes, 1)
    /\ pc \in {"scan", "new"} => body = original /\ original \in Bodies
    /\ pc \in {"scan", "new"} => \A n \in 1 .. Len(changes) : MakesDirect(changes[n], body)
    /\ pc = "splice" => \A n \in next .. Len(changes) : MakesDirect(changes[n], body)
    /\ pc = "splice" => AllFound(body, Len(body), changes, next)
    /\ pc \in {"splice", "done"} => Expanded(body) = Expanded(original)
    /\ pc = "done" => \A n \in 1 .. Len(body) - 1 : ~Matches(body[n], body[n + 1])

LEMMA CallsInit == Init => CallsInv
<1> SUFFICES ASSUME Init, ~asked PROVE CallsInv
  BY DEF CallsInv
<1>1. pc = "scan" /\ changes = << >> /\ i = 0 /\ body = original /\ original \in Bodies
  BY DEF Init
<1>2. AllFound(body, i, changes, 1) /\ \A n \in 1 .. Len(changes) : MakesDirect(changes[n], body)
  BY <1>1 DEF AllFound
<1> QED
  BY <1>1, <1>2 DEF CallsInv

\* PeepholeOpt misses no call.
LEMMA ScanMissesNone ==
  ASSUME ScanInv, ~asked, pc = "scan", CallsInv, Scan
  PROVE  AllFound(body, i, changes, 1)' /\ \A n \in 1 .. Len(changes') : MakesDirect(changes'[n], body')
<1>1. /\ body' = body /\ i' = i + 1 /\ i < Len(body) /\ body \in Bodies /\ body \in Seq(Items)
      /\ i \in 0 .. Len(body) /\ Len(body) \in Nat /\ Len(changes) \in Nat
      /\ AllFound(body, i, changes, 1)
      /\ \A n \in 1 .. Len(changes) : MakesDirect(changes[n], body)
  BY DEF Scan, ScanInv, CallsInv
<1> DEFINE Found == i + 1 < Len(body) /\ Matches(body[i + 1], body[i + 2])
<1>2. changes' = IF Found THEN Append(changes, Range2(i)) ELSE changes
  BY DEF Scan
<1>3. CASE ~Found
  <2>1. changes' = changes
    BY <1>2, <1>3
  <2>2. \A k \in 1 .. i + 1 : k \in 1 .. i \/ k = i + 1
    BY <1>1
  <2>3. AllFound(body, i + 1, changes, 1)
    <3> SUFFICES ASSUME NEW k \in 1 .. i + 1, k < Len(body), Matches(body[k], body[k + 1])
                 PROVE  \E j \in 1 .. Len(changes) : changes[j].from = k - 1
      BY DEF AllFound
    <3>1. k # i + 1
      BY <1>1, <1>3
    <3>2. k \in 1 .. i
      BY <2>2, <3>1
    <3> QED
      BY <1>1, <3>2 DEF AllFound
  <2> QED
    BY <1>1, <2>1, <2>3 DEF AllFound
<1>4. CASE Found
  <2>1. Len(changes') = Len(changes) + 1
        /\ \A n \in 1 .. Len(changes') : changes'[n] = IF n <= Len(changes) THEN changes[n] ELSE Range2(i)
    BY <1>1, <1>2, <1>4
  <2>2. Range2(i).from = i /\ Range2(i).to = i + 2 /\ Range2(i).new = Replacement(body[i + 1])
    BY DEF Range2, Change
  <2>3. MakesDirect(Range2(i), body)
    <3>1. i + 1 \in 1 .. Len(body) /\ i + 2 \in 1 .. Len(body)
      BY <1>1, <1>4
    <3>2. body[i + 1].op = "LdGlobalFunc" /\ body[i + 2].op = "CallIndirect"
      BY <1>4 DEF Matches
    <3>3. body[i + 1] = OpNamed("LdGlobalFunc", body[i + 1].name) /\ body[i + 2] = Op("CallIndirect")
      BY <1>1, <3>1, <3>2, BodyAssumption
    <3>4. i \in Nat /\ i + 2 <= Len(body)
      BY <1>1, <3>1
    <3> HIDE DEF Found
    <3> QED
      BY <2>2, <3>3, <3>4 DEF MakesDirect
  <2>4. ASSUME NEW n \in 1 .. Len(changes') PROVE MakesDirect(changes'[n], body)
    <3>1. n \in 1 .. Len(changes) \/ n > Len(changes)
      BY <1>1, <2>1
    <3> QED
      BY <1>1, <2>1, <2>3, <3>1
  <2>5. AllFound(body, i + 1, changes', 1)
    <3> SUFFICES ASSUME NEW k \in 1 .. i + 1, k < Len(body), Matches(body[k], body[k + 1])
                 PROVE  \E j \in 1 .. Len(changes') : changes'[j].from = k - 1
      BY DEF AllFound
    <3>1. CASE k = i + 1
      <4>1. Len(changes') \in 1 .. Len(changes') /\ changes'[Len(changes')] = Range2(i)
        BY <1>1, <2>1
      <4> QED
        BY <1>1, <2>2, <3>1, <4>1
    <3>2. CASE k \in 1 .. i
      <4>1. PICK j \in 1 .. Len(changes) : changes[j].from = k - 1
        BY <1>1, <3>2 DEF AllFound
      <4>2. j \in 1 .. Len(changes') /\ changes'[j] = changes[j]
        BY <1>1, <2>1
      <4> QED
        BY <4>1, <4>2
    <3> QED
      BY <1>1, <3>1, <3>2
  <2>6. (AllFound(body, i, changes, 1))'
    BY <1>1, <2>5 DEF AllFound
  <2> QED
    BY <1>1, <2>4, <2>6
<1> QED
  BY <1>3, <1>4

\* Sorting keeps all the changes.
LEMMA NewKeepsAll ==
  ASSUME ScanInv, ~asked, next = 1, CallsInv, New
  PROVE  CallsInv'
<1>1. /\ Len(changes) \in Nat /\ pc = "new" /\ body = original
      /\ AllFound(body, Len(body), changes, 1)
      /\ \A n \in 1 .. Len(changes) : MakesDirect(changes[n], body)
  BY DEF ScanInv, CallsInv, New
<1>2. pc' = "splice" /\ changes' = Sorted(changes) /\ body' = body /\ next' = 1 /\ original' = original /\ asked' = asked
  <2>1. pc' = "splice"
    BY NewAccepts
  <2> QED
    BY <2>1 DEF New
<1>3. \A n \in 1 .. Len(changes) : changes[n].from \in Nat
  BY <1>1 DEF MakesDirect
<1>4. PICK p \in [1 .. Len(changes) -> 1 .. Len(changes)] :
        /\ \A n \in 1 .. Len(changes) : Sorted(changes)[n] = changes[p[n]]
        /\ \A k \in 1 .. Len(changes) : \E n \in 1 .. Len(changes) : p[n] = k
  BY <1>1, <1>3, SortedIsSorted
<1>5. Len(changes') = Len(changes)
  BY <1>1, <1>2, <1>3, SortedIsSorted
<1>6. \A n \in 1 .. Len(changes') : MakesDirect(changes'[n], body)
  BY <1>1, <1>2, <1>4, <1>5
<1>7. AllFound(body, Len(body), changes', 1)
  <2> SUFFICES ASSUME NEW k \in 1 .. Len(body), k < Len(body), Matches(body[k], body[k + 1])
               PROVE  \E j \in 1 .. Len(changes') : changes'[j].from = k - 1
    BY DEF AllFound
  <2>1. PICK j \in 1 .. Len(changes) : changes[j].from = k - 1
    BY <1>1 DEF AllFound
  <2>2. PICK n \in 1 .. Len(changes) : p[n] = j
    BY <1>4
  <2>3. changes'[n] = changes[j]
    BY <1>2, <1>4, <2>2
  <2> QED
    BY <1>5, <2>1, <2>3
<1>8. (AllFound(body, Len(body), changes, next))'
  BY <1>2, <1>7 DEF AllFound
<1>9. \A n \in next' .. Len(changes') : MakesDirect(changes'[n], body')
  BY <1>2, <1>6
<1> QED
  BY <1>1, <1>2, <1>8, <1>9 DEF CallsInv
\* A splice puts a direct call where the call was, and makes no new pair of
\* instructions that could be made direct.
LEMMA SpliceKeepsCalls ==
  ASSUME SpliceInv, ~asked, CallsInv, Splice
  PROVE  CallsInv'
<1> DEFINE c == changes[next]
           name == body[c.from + 1].name
           old == << OpNamed("LdGlobalFunc", name), Op("CallIndirect") >>
           new == << OpNamed("CallDirect", name) >>
           s == Spliced(body, c.from, c.to, new)
           S == Instrs \cup ToSet(old) \cup ToSet(new)
<1>1. /\ pc = "splice" /\ next \in 1 .. Len(changes) /\ Len(changes) \in Nat /\ body \in Seq(Instrs)
      /\ AllFound(body, Len(body), changes, next)
      /\ \A n \in next .. Len(changes) : MakesDirect(changes[n], body)
      /\ \A m, n \in next .. Len(changes) : m < n => changes[n].to <= changes[m].from
      /\ Expanded(body) = Expanded(original)
      /\ Len(body) \in Nat
  <2>1. pc = "splice" /\ next <= Len(changes)
    BY DEF Splice
  <2>2. /\ Len(changes) \in Nat /\ body \in Seq(Instrs) /\ next \in 1 .. Len(changes) + 1
        /\ \A m, n \in next .. Len(changes) : m < n => changes[n].to <= changes[m].from
    BY DEF SpliceInv
  <2>3. /\ AllFound(body, Len(body), changes, next)
        /\ \A n \in next .. Len(changes) : MakesDirect(changes[n], body)
        /\ Expanded(body) = Expanded(original)
    BY <2>1 DEF CallsInv
  <2>4. next \in 1 .. Len(changes)
    BY <2>1, <2>2
  <2>5. Len(body) \in Nat
    BY <2>2, LenProperties
  <2> QED
    BY <2>1, <2>2, <2>3, <2>4, <2>5
<1>2. MakesDirect(c, body)
  BY <1>1
<1>3. /\ c.from \in Nat /\ c.to = c.from + 2 /\ c.to <= Len(body)
      /\ body[c.from + 1] = OpNamed("LdGlobalFunc", name)
      /\ body[c.from + 2] = Op("CallIndirect")
      /\ c.new = new
  BY <1>2 DEF MakesDirect, Replacement
<1>4. ~OutOfBounds(c)
  BY <1>1, <1>3 DEF OutOfBounds
<1>5. /\ body' = s /\ next' = next + 1 /\ pc' = "splice"
      /\ changes' = changes /\ original' = original /\ asked' = asked
  BY <1>1, <1>3, <1>4 DEF Splice, Spliced
<1>6. /\ old \in Seq(S) /\ new \in Seq(S) /\ Len(old) = 2 /\ Len(new) = 1 /\ body \in Seq(S)
      /\ old[1] = OpNamed("LdGlobalFunc", name) /\ old[2] = Op("CallIndirect")
      /\ new[1] = OpNamed("CallDirect", name)
  <2> DEFINE x == OpNamed("LdGlobalFunc", name)  y == Op("CallIndirect")  z == OpNamed("CallDirect", name)
  <2>1. << x, y >> \in Seq(ToSet(<< x, y >>)) /\ << z >> \in Seq(ToSet(<< z >>))
    <3> HIDE DEF x, y, z
    <3> QED
      BY DEF ToSet
  <2>2. old \in Seq(ToSet(old)) /\ new \in Seq(ToSet(new))
    BY <2>1
  <2>3. ToSet(old) \subseteq S /\ ToSet(new) \subseteq S /\ Instrs \subseteq S
    OBVIOUS
  <2>4. Len(old) = 2 /\ Len(new) = 1 /\ old[1] = x /\ old[2] = y /\ new[1] = z
    <3>1. Len(<< x, y >>) = 2 /\ Len(<< z >>) = 1 /\ << x, y >>[1] = x /\ << x, y >>[2] = y /\ << z >>[1] = z
      <4> HIDE DEF x, y, z
      <4> QED
        OBVIOUS
    <3> QED
      BY <3>1
  <2> HIDE DEF S, old, new
  <2> QED
    BY <1>1, <2>2, <2>3, <2>4, SeqMonotonic DEF x, y, z
<1>7. Expanded(old) = Expanded(new)
  BY ExpandedCall
<1> HIDE DEF c, name, old, new, S
<1>8. c.to \in 0 .. Len(body) /\ c.from \in 0 .. c.to /\ Len(old) = c.to - c.from
      /\ \A k \in 1 .. Len(old) : body[c.from + k] = old[k]
  <2>1. c.to \in 0 .. Len(body) /\ c.from \in 0 .. c.to /\ Len(old) = c.to - c.from
    BY <1>1, <1>3, <1>6
  <2>2. \A k \in 1 .. Len(old) : k = 1 \/ k = 2
    BY <1>6
  <2> QED
    BY <1>3, <1>6, <2>1, <2>2
<1>9. Expanded(s) = Expanded(original)
  <2>1. Expanded(s) = Expanded(body)
    BY <1>6, <1>7, <1>8, ExpandedSplice
  <2> QED
    BY <1>1, <2>1
<1>10. s \in Seq(S) /\ IsSpliced(s, body, c.from, c.to, new)
  BY <1>6, <1>8, SplicedIs
<1> HIDE DEF s
<1> DEFINE f == c.from
<1>11. /\ f \in Nat /\ f + 2 <= Len(body) /\ Len(s) = Len(body) - 1 /\ Len(s) \in Nat
       /\ \A k \in 1 .. f : s[k] = body[k]
       /\ s[f + 1] = OpNamed("CallDirect", name)
       /\ \A k \in f + 2 .. Len(s) : s[k] = body[k + 1]
  <2>1. \A k \in f + 2 .. Len(s) :
          k - (f + 1) \in 1 .. Len(body) - c.to /\ f + Len(new) + (k - (f + 1)) = k /\ c.to + (k - (f + 1)) = k + 1
    <3>1. c.to = f + 2 /\ Len(new) = 1 /\ f \in Nat /\ Len(s) = f + Len(new) + (Len(body) - c.to) /\ Len(body) \in Nat
      BY <1>1, <1>3, <1>6, <1>10 DEF IsSpliced
    <3> HIDE DEF f
    <3> QED
      BY <3>1
  <2>2. Len(s) = Len(body) - 1 /\ \A k \in 1 .. f : s[k] = body[k]
    BY <1>1, <1>3, <1>6, <1>10 DEF IsSpliced
  <2>3. 1 \in 1 .. Len(new)
    BY <1>6
  <2>4. s[f + 1] = new[1]
    BY <1>10, <2>3 DEF IsSpliced
  <2>5. ASSUME NEW k \in f + 2 .. Len(s) PROVE s[k] = body[k + 1]
    <3>1. s[f + Len(new) + (k - (f + 1))] = body[c.to + (k - (f + 1))]
      BY <1>10, <2>1 DEF IsSpliced
    <3> QED
      BY <2>1, <3>1
  <2> QED
    BY <1>1, <1>3, <1>6, <2>2, <2>4, <2>5
<1>12. ASSUME NEW n \in next + 1 .. Len(changes)
       PROVE  changes[n].to <= f /\ MakesDirect(changes[n], body) /\ n \in next .. Len(changes)
  <2>1. next \in next .. Len(changes) /\ n \in next .. Len(changes) /\ next < n
    BY <1>1
  <2> QED
    BY <1>1, <2>1 DEF c
<1>13. ASSUME NEW n \in next + 1 .. Len(changes) PROVE MakesDirect(changes[n], s)
  <2>1. /\ changes[n].from \in Nat /\ changes[n].to = changes[n].from + 2 /\ changes[n].to <= f
        /\ changes[n].from + 1 \in 1 .. f /\ changes[n].from + 2 \in 1 .. f
        /\ changes[n].to <= Len(s)
    <3> DEFINE e == changes[n]
    <3>1. /\ e.from \in Nat /\ e.to = e.from + 2 /\ e.to <= f
          /\ f \in Nat /\ f + 2 <= Len(body) /\ Len(s) = Len(body) - 1 /\ Len(body) \in Nat
      BY <1>1, <1>11, <1>12 DEF MakesDirect
    <3> HIDE DEF e, f
    <3>2. /\ e.from + 1 \in 1 .. f /\ e.from + 2 \in 1 .. f /\ e.to <= Len(s)
      BY <3>1
    <3> QED
      BY <3>1, <3>2 DEF e, f
  <2>2. s[changes[n].from + 1] = body[changes[n].from + 1] /\ s[changes[n].from + 2] = body[changes[n].from + 2]
    BY <1>11, <2>1
  <2> QED
    BY <1>12, <2>1, <2>2 DEF MakesDirect
<1>14. AllFound(s, Len(s), changes, next + 1)
  <2> SUFFICES ASSUME NEW k \in 1 .. Len(s), k < Len(s), Matches(s[k], s[k + 1])
               PROVE  \E j \in next + 1 .. Len(changes) : changes[j].from = k - 1
    BY DEF AllFound
  <2>1. s[k].op = "LdGlobalFunc" /\ s[k + 1].op = "CallIndirect"
    BY DEF Matches
  <2>2. k # f + 1 /\ k # f
    <3>1. s[f + 1].op = "CallDirect"
      BY <1>11 DEF OpNamed
    <3> QED
      BY <1>11, <2>1, <3>1
  <2>3. PICK m \in 1 .. Len(body) :
          m < Len(body) /\ s[k] = body[m] /\ s[k + 1] = body[m + 1] /\ ((m = k /\ k < f) \/ (m = k + 1 /\ k > f + 1))
    <3>1. CASE k < f
      <4>1. k \in 1 .. f /\ k + 1 \in 1 .. f /\ k \in 1 .. Len(body) /\ k < Len(body)
        BY <1>1, <1>11, <3>1
      <4>2. s[k] = body[k] /\ s[k + 1] = body[k + 1]
        BY <1>11, <4>1
      <4> QED
        BY <3>1, <4>1, <4>2
    <3>2. CASE k > f + 1
      <4>1. k \in f + 2 .. Len(s) /\ k + 1 \in f + 2 .. Len(s) /\ k + 1 \in 1 .. Len(body) /\ k + 1 < Len(body)
        BY <1>1, <1>11, <3>2
      <4>2. s[k] = body[k + 1] /\ s[k + 1] = body[(k + 1) + 1]
        BY <1>11, <4>1
      <4> QED
        BY <3>2, <4>1, <4>2
    <3> QED
      BY <1>11, <2>2, <3>1, <3>2
  <2>4. PICK j \in next .. Len(changes) : changes[j].from = m - 1
    <3>1. Matches(body[m], body[m + 1])
      BY <2>3
    <3> QED
      BY <1>1, <2>3, <3>1 DEF AllFound
  <2>5. j # next
    <3>1. changes[next].from = f
      BY DEF c
    <3> QED
      BY <1>11, <2>3, <2>4, <3>1
  <2>6. j \in next + 1 .. Len(changes)
    BY <1>1, <2>4, <2>5
  <2>7. changes[j].to <= f /\ changes[j].to = changes[j].from + 2
    BY <1>12, <2>6 DEF MakesDirect
  <2>8. m = k
    BY <1>11, <2>3, <2>4, <2>7
  <2> QED
    BY <2>4, <2>6, <2>8
<1>15. (AllFound(body, Len(body), changes, next))'
  BY <1>5, <1>14 DEF AllFound
<1>16. (\A n \in next .. Len(changes) : MakesDirect(changes[n], body))'
  BY <1>5, <1>13
<1>17. (Expanded(body) = Expanded(original))'
  BY <1>5, <1>9
<1> QED
  BY <1>5, <1>15, <1>16, <1>17 DEF CallsInv

LEMMA CallsNext == PeepholeInv /\ CallsInv /\ [Next]_vars => CallsInv'
<1> SUFFICES ASSUME PeepholeInv, CallsInv, [Next]_vars, ~asked'
             PROVE  CallsInv'
  BY DEF CallsInv
<1>0. ~asked
  BY DEF Next, vars, Scan, EndScan, New, Splice, EndSplice, Finished
<1>1. CASE Scan
  <2>1. ScanInv /\ pc = "scan"
    BY <1>0, <1>1 DEF PeepholeInv, Scan
  <2>2. AllFound(body, i, changes, 1)' /\ \A n \in 1 .. Len(changes') : MakesDirect(changes'[n], body')
    BY <1>0, <1>1, <2>1, ScanMissesNone
  <2>3. body = original /\ original \in Bodies
    BY <1>0, <2>1 DEF CallsInv
  <2> QED
    BY <1>1, <2>2, <2>3 DEF Scan, CallsInv
<1>2. CASE EndScan
  <2>1. /\ pc' = "new" /\ UNCHANGED <<original, asked, i, changes, next, body>>
        /\ AllFound(body, Len(body), changes, 1) /\ body = original /\ original \in Bodies
        /\ \A n \in 1 .. Len(changes) : MakesDirect(changes[n], body)
    BY <1>0, <1>2 DEF EndScan, CallsInv
  <2>2. (AllFound(body, Len(body), changes, 1))'
    BY <2>1 DEF AllFound
  <2> QED
    BY <2>1, <2>2 DEF CallsInv
<1>3. CASE New
  <2>1. ScanInv /\ next = 1
    BY <1>0, <1>3 DEF PeepholeInv, New
  <2> QED
    BY <1>0, <1>3, <2>1, NewKeepsAll
<1>4. CASE Splice
  <2>1. SpliceInv
    BY <1>0, <1>4 DEF PeepholeInv, Splice
  <2> QED
    BY <1>0, <1>4, <2>1, SpliceKeepsCalls
<1>5. CASE EndSplice
  <2>1. /\ pc = "splice" /\ pc' = "done" /\ UNCHANGED <<original, asked, i, changes, next, body>>
        /\ next > Len(changes) /\ SpliceInv
    BY <1>0, <1>5 DEF EndSplice, PeepholeInv
  <2>2. AllFound(body, Len(body), changes, next) /\ Expanded(body) = Expanded(original)
    BY <1>0, <2>1 DEF CallsInv
  <2>3. ASSUME NEW n \in 1 .. Len(body) - 1, Matches(body[n], body[n + 1])
        PROVE  FALSE
    <3>1. Len(body) \in Nat /\ Len(changes) \in Nat /\ next \in Nat
      BY <2>1 DEF SpliceInv
    <3>2. n \in 1 .. Len(body) /\ n < Len(body)
      BY <3>1
    <3>3. \E j \in next .. Len(changes) : changes[j].from = n - 1
      BY <2>2, <2>3, <3>2 DEF AllFound
    <3> QED
      BY <2>1, <3>1, <3>3
  <2>4. (\A n \in 1 .. Len(body) - 1 : ~Matches(body[n], body[n + 1]))'
    BY <2>1, <2>3
  <2> QED
    BY <2>1, <2>2, <2>4 DEF CallsInv
<1>6. CASE UNCHANGED vars
  BY <1>0, <1>6 DEF vars, CallsInv, AllFound
<1> QED
  BY <1>1, <1>2, <1>3, <1>4, <1>5, <1>6 DEF Next, Finished

\* PeepholeOpt changes how calls are made and nothing else: with every direct
\* call written as the load of the function and the indirect call it stands for,
\* the block is the one it was, and no such pair is left.
THEOREM PeepholeIsTransparent == Spec => []PeepholeKeepsCalls
<1>1. CallsInv => PeepholeKeepsCalls
  BY DEF CallsInv, PeepholeKeepsCalls
<1> QED
  BY <1>1, PeepholeInit, PeepholeNext, CallsInit, CallsNext, PTL DEF Spec

-----------------------------------------------------------------------------
(* The changes of a block made at once *)

\* What is inserted before instruction n by a change, and put in the place of
\* the range that starts there.
Ins(c, n) == IF c.from = n /\ c.to = n THEN c.new ELSE << >>
Put(c, n) == IF c.from = n /\ c.to > n THEN c.new ELSE << >>

\* Changes of a block of instructions of S.
Changing(S, b, cs) ==
  /\ b \in Seq(S) /\ Len(cs) \in Nat
  /\ \A n \in 1 .. Len(cs) : cs[n].from \in Nat /\ cs[n].to \in Nat /\ cs[n].new \in Seq(S)

InsRow(cs, n, k) == [j \in 1 .. k |-> Ins(cs[k + 1 - j], n)]
PutRow(cs, n, k) == [j \in 1 .. k |-> Put(cs[j], n)]

LEMMA Rows ==
  ASSUME NEW S, NEW b, NEW cs, Changing(S, b, cs), NEW k \in 0 .. Len(cs), NEW n
  PROVE  /\ InsRow(cs, n, k) \in Seq(Seq(S)) /\ Len(InsRow(cs, n, k)) = k
         /\ \A j \in 1 .. k : InsRow(cs, n, k)[j] = Ins(cs[k + 1 - j], n)
         /\ PutRow(cs, n, k) \in Seq(Seq(S)) /\ Len(PutRow(cs, n, k)) = k
         /\ \A j \in 1 .. k : PutRow(cs, n, k)[j] = Put(cs[j], n)
         /\ InsertedAt(cs, n, k) = FlattenSeq(InsRow(cs, n, k)) /\ InsertedAt(cs, n, k) \in Seq(S)
         /\ PutAt(cs, n, k) = FlattenSeq(PutRow(cs, n, k)) /\ PutAt(cs, n, k) \in Seq(S)
<1>1. \A j \in 1 .. Len(cs) : Ins(cs[j], n) \in Seq(S) /\ Put(cs[j], n) \in Seq(S)
  BY DEF Changing, Ins, Put
<1>2. k \in Nat /\ \A j \in 1 .. k : j \in 1 .. Len(cs) /\ k + 1 - j \in 1 .. Len(cs)
  BY DEF Changing
<1>3. InsRow(cs, n, k) \in [1 .. k -> Seq(S)]
  BY <1>1, <1>2 DEF InsRow
<1>4. PutRow(cs, n, k) \in [1 .. k -> Seq(S)]
  BY <1>1, <1>2 DEF PutRow
<1>5. InsRow(cs, n, k) \in Seq(Seq(S)) /\ Len(InsRow(cs, n, k)) = k
  BY <1>2, <1>3, FunIsSeq
<1>6. PutRow(cs, n, k) \in Seq(Seq(S)) /\ Len(PutRow(cs, n, k)) = k
  BY <1>2, <1>4, FunIsSeq
<1>7. InsertedAt(cs, n, k) = FlattenSeq(InsRow(cs, n, k))
  BY Zenon DEF InsertedAt, InsRow, Ins
<1>8. PutAt(cs, n, k) = FlattenSeq(PutRow(cs, n, k))
  BY Zenon DEF PutAt, PutRow, Put
<1>9. InsertedAt(cs, n, k) \in Seq(S) /\ PutAt(cs, n, k) \in Seq(S)
  BY <1>5, <1>6, <1>7, <1>8, FlattenType
<1>10. /\ \A j \in 1 .. k : InsRow(cs, n, k)[j] = Ins(cs[k + 1 - j], n)
       /\ \A j \in 1 .. k : PutRow(cs, n, k)[j] = Put(cs[j], n)
  BY DEF InsRow, PutRow
<1> QED
  BY <1>5, <1>6, <1>7, <1>8, <1>9, <1>10

LEMMA KeptType ==
  ASSUME NEW S, NEW b \in Seq(S), NEW cs, NEW k, NEW n \in 0 .. Len(b)
  PROVE  KeptAt(b, cs, n, k) \in Seq(S)
<1>1. << >> \in Seq(S) /\ (n # Len(b) => << b[n + 1] >> \in Seq(S))
  OBVIOUS
<1> QED
  BY <1>1 DEF KeptAt

LEMMA BecomesType ==
  ASSUME NEW S, NEW b, NEW cs, Changing(S, b, cs), NEW k \in 0 .. Len(cs), NEW n \in 0 .. Len(b)
  PROVE  Becomes(b, cs, n, k) \in Seq(S)
<1>1. InsertedAt(cs, n, k) \in Seq(S) /\ PutAt(cs, n, k) \in Seq(S)
  BY Rows
<1>2. KeptAt(b, cs, n, k) \in Seq(S)
  BY KeptType DEF Changing
<1>3. InsertedAt(cs, n, k) \o PutAt(cs, n, k) \in Seq(S)
  BY <1>1, ConcatProperties
<1>4. (InsertedAt(cs, n, k) \o PutAt(cs, n, k)) \o KeptAt(b, cs, n, k) \in Seq(S)
  BY <1>2, <1>3, ConcatProperties
<1> QED
  BY <1>4 DEF Becomes
\* What one more change makes of an instruction: it is applied last, so what it
\* inserts is in front.
LEMMA OneMore ==
  ASSUME NEW S, NEW b, NEW cs, Changing(S, b, cs), NEW k \in Nat, NEW m \in 1 .. Len(cs), m = k + 1,
         NEW n \in 0 .. Len(b)
  PROVE  /\ InsertedAt(cs, n, m) = Ins(cs[m], n) \o InsertedAt(cs, n, k)
         /\ PutAt(cs, n, m) = PutAt(cs, n, k) \o Put(cs[m], n)
         /\ KeptAt(b, cs, n, m) = IF n \in Indices(cs[m]) THEN << >> ELSE KeptAt(b, cs, n, k)
<1>0. /\ k \in 0 .. Len(cs) /\ m \in 0 .. Len(cs) /\ k \in Nat /\ m \in Nat /\ 1 \in 1 .. m /\ m \in 1 .. m
      /\ m + 1 - 1 = m /\ m = 1 + k
      /\ \A j \in 1 .. k : 1 + j \in 1 .. m /\ j \in 1 .. m /\ m + 1 - (1 + j) = k + 1 - j
  BY DEF Changing
<1>1. Ins(cs[m], n) \in Seq(S) /\ Put(cs[m], n) \in Seq(S)
  BY DEF Changing, Ins, Put
<1> DEFINE x == InsRow(cs, n, k)  y == InsRow(cs, n, m)  p == PutRow(cs, n, k)  q == PutRow(cs, n, m)
<1>2. /\ x \in Seq(Seq(S)) /\ Len(x) = k /\ \A j \in 1 .. k : x[j] = Ins(cs[k + 1 - j], n)
      /\ p \in Seq(Seq(S)) /\ Len(p) = k /\ \A j \in 1 .. k : p[j] = Put(cs[j], n)
      /\ InsertedAt(cs, n, k) = FlattenSeq(x) /\ PutAt(cs, n, k) = FlattenSeq(p)
  BY <1>0, Rows
<1>3. /\ y \in Seq(Seq(S)) /\ Len(y) = m /\ \A j \in 1 .. m : y[j] = Ins(cs[m + 1 - j], n)
      /\ q \in Seq(Seq(S)) /\ Len(q) = m /\ \A j \in 1 .. m : q[j] = Put(cs[j], n)
      /\ InsertedAt(cs, n, m) = FlattenSeq(y) /\ PutAt(cs, n, m) = FlattenSeq(q)
  BY <1>0, Rows
<1> HIDE DEF x, y, p, q
<1>4. FlattenSeq(y) = Ins(cs[m], n) \o FlattenSeq(x)
  <2>1. y[1] = Ins(cs[m], n)
    BY <1>0, <1>3
  <2>2. ASSUME NEW j \in 1 .. Len(x) PROVE y[1 + j] = x[j]
    <3>1. j \in 1 .. k /\ 1 + j \in 1 .. m /\ m + 1 - (1 + j) = k + 1 - j
      BY <1>0, <1>2
    <3>2. y[1 + j] = Ins(cs[m + 1 - (1 + j)], n) /\ x[j] = Ins(cs[k + 1 - j], n)
      BY <1>2, <1>3, <3>1
    <3> QED
      BY <3>1, <3>2
  <2>3. Len(y) = 1 + Len(x)
    BY <1>0, <1>2, <1>3
  <2>4. x \in Seq(Seq(S)) /\ y \in Seq(Seq(S))
    BY <1>2, <1>3
  <2> QED
    BY <1>1, <2>1, <2>2, <2>3, <2>4, FlattenFirst
<1>5. FlattenSeq(q) = FlattenSeq(p) \o Put(cs[m], n)
  <2>1. q[m] = Put(cs[m], n) /\ \A j \in 1 .. k : p[j] = q[j]
    BY <1>0, <1>2, <1>3
  <2>2. FlattenSeq(q) = FlattenSeq(p) \o q[m]
    BY <1>0, <1>2, <1>3, <2>1, FlattenLast
  <2> QED
    BY <2>1, <2>2
<1>6. KeptAt(b, cs, n, m) = IF n \in Indices(cs[m]) THEN << >> ELSE KeptAt(b, cs, n, k)
  <2>1. (\E j \in 1 .. m : n \in Indices(cs[j])) <=> n \in Indices(cs[m]) \/ \E j \in 1 .. k : n \in Indices(cs[j])
    <3>1. \A j \in 1 .. m : j = m \/ j \in 1 .. k
      BY <1>0
    <3> QED
      BY <1>0, <3>1
  <2> QED
    BY <2>1 DEF KeptAt
<1> QED
  BY <1>2, <1>3, <1>4, <1>5, <1>6

\* The first k changes do nothing to instruction n.
Quiet(cs, n, k) ==
  \A j \in 1 .. k : Ins(cs[j], n) = << >> /\ Put(cs[j], n) = << >> /\ n \notin Indices(cs[j])

LEMMA QuietBecomes ==
  ASSUME NEW S, NEW b, NEW cs, Changing(S, b, cs), NEW k \in 0 .. Len(cs), NEW n \in 0 .. Len(b), Quiet(cs, n, k)
  PROVE  Becomes(b, cs, n, k) = IF n = Len(b) THEN << >> ELSE << b[n + 1] >>
<1> DEFINE x == InsRow(cs, n, k)  p == PutRow(cs, n, k)
<1>1. /\ x \in Seq(Seq(S)) /\ Len(x) = k /\ \A j \in 1 .. k : x[j] = Ins(cs[k + 1 - j], n)
      /\ p \in Seq(Seq(S)) /\ Len(p) = k /\ \A j \in 1 .. k : p[j] = Put(cs[j], n)
      /\ InsertedAt(cs, n, k) = FlattenSeq(x) /\ PutAt(cs, n, k) = FlattenSeq(p)
  BY Rows
<1> HIDE DEF x, p
<1>2. \A j \in 1 .. k : k + 1 - j \in 1 .. k
  BY DEF Changing
<1>3. AllEmpty(x) /\ AllEmpty(p)
  BY <1>1, <1>2 DEF AllEmpty, Quiet
<1>4. FlattenSeq(x) = << >> /\ FlattenSeq(p) = << >>
  BY <1>1, <1>3, FlattenEmpties
<1>5. KeptAt(b, cs, n, k) = IF n = Len(b) THEN << >> ELSE << b[n + 1] >>
  BY DEF KeptAt, Quiet
<1>6. KeptAt(b, cs, n, k) \in Seq(S)
  BY KeptType DEF Changing
<1>7. << >> \o << >> = << >> /\ << >> \o KeptAt(b, cs, n, k) = KeptAt(b, cs, n, k)
  BY <1>6, ConcatEmptySeq, EmptySeq
<1> QED
  BY <1>1, <1>4, <1>5, <1>7 DEF Becomes

-----------------------------------------------------------------------------
(* What the instructions of a block become, in a row *)

Row(b, cs, k) == [n \in 1 .. Len(b) + 1 |-> Becomes(b, cs, n - 1, k)]

LEMMA RowType ==
  ASSUME NEW S, NEW b, NEW cs, Changing(S, b, cs), NEW k \in 0 .. Len(cs)
  PROVE  /\ Row(b, cs, k) \in Seq(Seq(S)) /\ Len(Row(b, cs, k)) = Len(b) + 1
         /\ \A n \in 1 .. Len(b) + 1 : Row(b, cs, k)[n] = Becomes(b, cs, n - 1, k)
         /\ ReplacedAtOnce(b, cs, k) = FlattenSeq(Row(b, cs, k))
<1>1. \A n \in 1 .. Len(b) + 1 : n - 1 \in 0 .. Len(b)
  BY DEF Changing
<1>2. \A n \in 1 .. Len(b) + 1 : Becomes(b, cs, n - 1, k) \in Seq(S)
  BY <1>1, BecomesType
<1>3. Row(b, cs, k) \in [1 .. Len(b) + 1 -> Seq(S)]
  BY <1>2 DEF Row
<1>4. Len(b) + 1 \in Nat
  BY DEF Changing
<1>5. Row(b, cs, k) \in Seq(Seq(S)) /\ Len(Row(b, cs, k)) = Len(b) + 1
  BY <1>3, <1>4, FunIsSeq
<1>6. ReplacedAtOnce(b, cs, k) = FlattenSeq(Row(b, cs, k))
  BY Zenon DEF ReplacedAtOnce, Row
<1> QED
  BY <1>5, <1>6 DEF Row

\* The first t instructions stay what they are when nothing is done to them.
LEMMA QuietFirst ==
  ASSUME NEW S, NEW b, NEW cs, Changing(S, b, cs), NEW k \in 0 .. Len(cs), NEW t \in 0 .. Len(b),
         \A n \in 0 .. t - 1 : Quiet(cs, n, k)
  PROVE  FlattenSeq(SubSeq(Row(b, cs, k), 1, t)) = SubSeq(b, 1, t)
<1> DEFINE r == Row(b, cs, k)
           first == SubSeq(r, 1, t)
           a == SubSeq(b, 1, t)
<1>0. Len(b) \in Nat /\ t \in Nat /\ b \in Seq(S)
  BY DEF Changing
<1>1. r \in Seq(Seq(S)) /\ Len(r) = Len(b) + 1 /\ \A n \in 1 .. Len(b) + 1 : r[n] = Becomes(b, cs, n - 1, k)
  BY RowType
<1> HIDE DEF r
<1>2. first \in Seq(Seq(S)) /\ Len(first) = t /\ \A n \in 1 .. t : first[n] = r[n]
  <2>1. t \in 0 .. Len(r)
    BY <1>0, <1>1
  <2> QED
    BY <1>1, <2>1, Firsts
<1>3. a \in Seq(S) /\ Len(a) = t /\ \A n \in 1 .. t : a[n] = b[n]
  BY <1>0, Firsts
<1> HIDE DEF first, a
<1>4. ASSUME NEW n \in 1 .. Len(a) PROVE first[n] = << a[n] >>
  <2>1. n \in 1 .. t /\ n - 1 \in 0 .. t - 1 /\ n - 1 \in 0 .. Len(b) /\ n \in 1 .. Len(b) + 1 /\ n - 1 # Len(b) /\ (n - 1) + 1 = n
    BY <1>0, <1>3
  <2>2. Becomes(b, cs, n - 1, k) = << b[(n - 1) + 1] >>
    BY <2>1, QuietBecomes
  <2>3. r[n] = << b[n] >>
    BY <1>1, <2>1, <2>2
  <2> QED
    BY <1>2, <1>3, <2>1, <2>3
<1>5. FlattenSeq(first) = a
  BY <1>2, <1>3, <1>4, FlattenSingles
<1> QED
  BY <1>5 DEF first, a, r
LEMMA AllQuiet ==
  ASSUME NEW S, NEW b, NEW cs, Changing(S, b, cs), NEW k \in 0 .. Len(cs),
         \A n \in 0 .. Len(b) : Quiet(cs, n, k)
  PROVE  ReplacedAtOnce(b, cs, k) = b
<1> DEFINE r == Row(b, cs, k)
           l == Len(b)
           o == Len(b) + 1
           first == SubSeq(r, 1, l)
<1>0. l \in Nat /\ o \in Nat /\ o = l + 1 /\ o \in 1 .. o /\ o - 1 = l /\ l \in 0 .. l /\ l \in 0 .. o /\ b \in Seq(S)
  BY DEF Changing
<1>1. /\ r \in Seq(Seq(S)) /\ Len(r) = o /\ \A n \in 1 .. o : r[n] = Becomes(b, cs, n - 1, k)
      /\ ReplacedAtOnce(b, cs, k) = FlattenSeq(r)
  BY RowType
<1>2. FlattenSeq(first) = b
  <2>1. \A n \in 0 .. l - 1 : Quiet(cs, n, k)
    <3>1. \A n \in 0 .. l - 1 : n \in 0 .. Len(b)
      BY <1>0
    <3> QED
      BY <3>1
  <2>2. FlattenSeq(first) = SubSeq(b, 1, l)
    BY <1>0, <2>1, QuietFirst
  <2>3. SubSeq(b, 1, l) = b
    BY <1>0, SubSeqFull
  <2> QED
    BY <2>2, <2>3
<1>3. r[o] = << >>
  <2>1. Becomes(b, cs, l, k) = << >>
    BY <1>0, QuietBecomes
  <2> HIDE DEF r, l
  <2> QED
    BY <1>0, <1>1, <2>1
<1> HIDE DEF r, o
<1>4. first \in Seq(Seq(S)) /\ Len(first) = l /\ \A n \in 1 .. l : first[n] = r[n]
  BY <1>0, <1>1, Firsts
<1> HIDE DEF first, l
<1>5. FlattenSeq(r) = FlattenSeq(first) \o r[o]
  BY <1>0, <1>1, <1>4, FlattenLast
<1>6. b \o << >> = b
  BY <1>0, ConcatEmptySeq
<1> QED
  BY <1>1, <1>2, <1>3, <1>5, <1>6

\* Change m can be applied after the k before it: these start where it starts or
\* behind, replace nothing that it replaces, and insert nothing into its range.
Applicable(cs, k, m) ==
  \A j \in 1 .. k :
    /\ cs[m].from <= cs[j].from /\ cs[j].from <= cs[j].to
    /\ Indices(cs[j]) \cap Indices(cs[m]) = {}
    /\ ~Overwrites(cs, m, j)

\* So none of these does anything in front of the end of its range.
LEMMA QuietUpTo ==
  ASSUME NEW S, NEW b, NEW cs, Changing(S, b, cs), NEW k \in Nat, NEW m \in 1 .. Len(cs), m = k + 1,
         Applicable(cs, k, m), NEW n \in Nat, n < cs[m].to, cs[m].from <= cs[m].to
  PROVE  Quiet(cs, n, k)
<1> SUFFICES ASSUME NEW j \in 1 .. k
             PROVE  Ins(cs[j], n) = << >> /\ Put(cs[j], n) = << >> /\ n \notin Indices(cs[j])
  BY DEF Quiet
<1>1. j \in 1 .. Len(cs) /\ j < m
  BY DEF Changing
<1> DEFINE c == cs[m]  d == cs[j]
<1>2. /\ c.from \in Nat /\ c.to \in Nat /\ d.from \in Nat /\ d.to \in Nat
      /\ c.from <= d.from /\ d.from <= d.to /\ n < c.to
      /\ Indices(d) \cap Indices(c) = {}
  BY <1>1 DEF Changing, Applicable
<1>3. ~ (d.from = d.to /\ d.new # << >> /\ d.from < c.to)
  <2>1. ~Overwrites(cs, m, j)
    BY DEF Applicable
  <2>2. c.from < d.from \/ c.from = d.from
    BY <1>2
  <2> QED
    BY <1>1, <2>1, <2>2 DEF Overwrites
<1> HIDE DEF c, d
<1>4. n \notin Indices(d)
  BY <1>2 DEF Indices
<1>5. Put(d, n) = << >>
  BY <1>2, <1>4 DEF Put, Indices
<1>6. Ins(d, n) = << >>
  BY <1>2, <1>3 DEF Ins
<1> QED
  BY <1>4, <1>5, <1>6 DEF d

\* What one more change does to the row of what the instructions become.
LEMMA RowSteps ==
  ASSUME NEW S, NEW b, NEW cs, Changing(S, b, cs), NEW k \in Nat, NEW m \in 1 .. Len(cs), m = k + 1,
         Applicable(cs, k, m), cs[m].from <= cs[m].to, NEW n \in 0 .. Len(b)
  PROVE  /\ n < cs[m].from => Quiet(cs, n, m)
         /\ n = cs[m].from /\ cs[m].from < cs[m].to => Becomes(b, cs, n, m) = cs[m].new
         /\ n = cs[m].from /\ cs[m].from = cs[m].to =>
              Becomes(b, cs, n, m) = cs[m].new \o Becomes(b, cs, n, k)
         /\ n > cs[m].from /\ n < cs[m].to => Becomes(b, cs, n, m) = << >>
         /\ n > cs[m].from /\ n >= cs[m].to => Becomes(b, cs, n, m) = Becomes(b, cs, n, k)
<1> DEFINE c == cs[m]
           x == InsertedAt(cs, n, k)
           p == PutAt(cs, n, k)
           h == KeptAt(b, cs, n, k)
<1>1. /\ c.from \in Nat /\ c.to \in Nat /\ c.new \in Seq(S) /\ c.from <= c.to
      /\ n \in Nat /\ k \in 0 .. Len(cs) /\ b \in Seq(S)
  BY DEF Changing
<1>2. x \in Seq(S) /\ p \in Seq(S) /\ h \in Seq(S)
  BY <1>1, Rows, KeptType
<1>3. Becomes(b, cs, n, k) = (x \o p) \o h
  BY DEF Becomes
<1>4. Becomes(b, cs, n, m) =
        ((Ins(c, n) \o x) \o (p \o Put(c, n))) \o (IF n \in Indices(c) THEN << >> ELSE h)
  <2>1. /\ InsertedAt(cs, n, m) = Ins(c, n) \o x
        /\ PutAt(cs, n, m) = p \o Put(c, n)
        /\ KeptAt(b, cs, n, m) = IF n \in Indices(c) THEN << >> ELSE h
    BY OneMore, SMTT(60)
  <2>2. Becomes(b, cs, n, m) = (InsertedAt(cs, n, m) \o PutAt(cs, n, m)) \o KeptAt(b, cs, n, m)
    BY DEF Becomes
  <2> QED
    BY <2>1, <2>2, Zenon
<1>5. n < c.to => Quiet(cs, n, k)
  BY <1>1, QuietUpTo
<1>6. n < c.to => x = << >> /\ p = << >>
  <2> SUFFICES ASSUME n < c.to PROVE x = << >> /\ p = << >>
    OBVIOUS
  <2>1. Quiet(cs, n, k)
    BY <1>5
  <2> DEFINE y == InsRow(cs, n, k)  q == PutRow(cs, n, k)
  <2>2. /\ y \in Seq(Seq(S)) /\ Len(y) = k /\ \A j \in 1 .. k : y[j] = Ins(cs[k + 1 - j], n)
        /\ q \in Seq(Seq(S)) /\ Len(q) = k /\ \A j \in 1 .. k : q[j] = Put(cs[j], n)
        /\ x = FlattenSeq(y) /\ p = FlattenSeq(q)
    BY <1>1, Rows
  <2> HIDE DEF y, q, x, p
  <2>3. \A j \in 1 .. k : k + 1 - j \in 1 .. k
    OBVIOUS
  <2>4. AllEmpty(y) /\ AllEmpty(q)
    BY <2>1, <2>2, <2>3 DEF AllEmpty, Quiet
  <2> QED
    BY <2>2, <2>4, FlattenEmpties
<1>7. << >> \in Seq(S) /\ \A s \in Seq(S) : << >> \o s = s /\ s \o << >> = s
  BY ConcatEmptySeq
<1>8. ASSUME n < c.from PROVE Quiet(cs, n, m)
  <2>1. n < c.to
    BY <1>1, <1>8
  <2>2. Ins(c, n) = << >> /\ Put(c, n) = << >> /\ n \notin Indices(c)
    BY <1>1, <1>8 DEF Ins, Put, Indices
  <2>3. \A j \in 1 .. m : j = m \/ j \in 1 .. k
    OBVIOUS
  <2> QED
    BY <1>5, <2>1, <2>2, <2>3 DEF Quiet
<1> HIDE DEF x, p, h, c
<1>9. ASSUME n = c.from, c.from < c.to PROVE Becomes(b, cs, n, m) = c.new
  <2>1. Ins(c, n) = << >> /\ Put(c, n) = c.new /\ n \in Indices(c) /\ n < c.to
    BY <1>1, <1>9 DEF Ins, Put, Indices
  <2>2. Becomes(b, cs, n, m) = ((<< >> \o << >>) \o (<< >> \o c.new)) \o << >>
    BY <1>4, <1>6, <2>1, Zenon
  <2> QED
    BY <1>1, <1>7, <2>2, Zenon
<1>10. ASSUME n > c.from, n < c.to PROVE Becomes(b, cs, n, m) = << >>
  <2>1. Ins(c, n) = << >> /\ Put(c, n) = << >> /\ n \in Indices(c)
    BY <1>1, <1>10 DEF Ins, Put, Indices
  <2>2. Becomes(b, cs, n, m) = ((<< >> \o << >>) \o (<< >> \o << >>)) \o << >>
    BY <1>4, <1>6, <1>10, <2>1, Zenon
  <2> QED
    BY <1>1, <1>7, <2>2, Zenon
<1>11. ASSUME n > c.from, n >= c.to PROVE Becomes(b, cs, n, m) = Becomes(b, cs, n, k)
  <2>1. Ins(c, n) = << >> /\ Put(c, n) = << >> /\ n \notin Indices(c)
    BY <1>1, <1>11 DEF Ins, Put, Indices
  <2>2. Becomes(b, cs, n, m) = ((<< >> \o x) \o (p \o << >>)) \o h
    BY <1>4, <2>1, Zenon
  <2> QED
    BY <1>2, <1>3, <1>7, <2>2, Zenon
<1>12. ASSUME n = c.from, c.from = c.to PROVE Becomes(b, cs, n, m) = c.new \o Becomes(b, cs, n, k)
  <2>1. Ins(c, n) = c.new /\ Put(c, n) = << >> /\ n \notin Indices(c)
    BY <1>1, <1>12 DEF Ins, Put, Indices
  <2>2. Becomes(b, cs, n, m) = ((c.new \o x) \o (p \o << >>)) \o h
    BY <1>4, <2>1, Zenon
  <2>3. Becomes(b, cs, n, m) = ((c.new \o x) \o p) \o h
    BY <1>2, <1>7, <2>2, Zenon
  <2> DEFINE xp == x \o p  cx == c.new \o x  cxp == cx \o p  xph == xp \o h  all == cxp \o h
  <2>4. xp \in Seq(S)
    BY <1>2, ConcatProperties
  <2>5. Joined(S, c.new, x, p, cx, cxp, xp)
    BY <1>1, <1>2, Zenon DEF Joined
  <2>6. Becomes(b, cs, n, m) = all /\ Becomes(b, cs, n, k) = xph
    BY <1>3, <2>3
  <2>7. cxp = c.new \o xp
    <3> HIDE DEF xp, cx, cxp
    <3> QED
      BY <2>5, JoinLast
  <2>8. Joined(S, c.new, xp, h, cxp, all, xph)
    <3> HIDE DEF xp, cxp
    <3> QED
      BY <1>1, <1>2, <2>4, <2>7, Zenon DEF Joined
  <2> HIDE DEF xp, cx, cxp, xph, all
  <2>9. all = c.new \o xph
    BY <2>8, JoinLast
  <2> QED
    BY <2>6, <2>9
<1> QED
  BY <1>8, <1>9, <1>10, <1>11, <1>12 DEF c

\* A change that is applied after those before it makes of the block what all of
\* them make at once.
LEMMA OneSplice ==
  ASSUME NEW S, NEW b, NEW cs, Changing(S, b, cs), NEW k \in Nat, NEW m \in 1 .. Len(cs), m = k + 1,
         Applicable(cs, k, m), cs[m].from <= cs[m].to,
         NEW body1, body1 = ReplacedAtOnce(b, cs, k), cs[m].to <= Len(body1)
  PROVE  Spliced(body1, cs[m].from, cs[m].to, cs[m].new) = ReplacedAtOnce(b, cs, m)
<1> DEFINE f == cs[m].from
           t == cs[m].to
           new == cs[m].new
           l == Len(b)
           r == Row(b, cs, k)
           q == Row(b, cs, m)
<1>0. /\ f \in Nat /\ t \in Nat /\ new \in Seq(S) /\ f <= t /\ b \in Seq(S) /\ l \in Nat
      /\ k \in 0 .. Len(cs) /\ m \in 0 .. Len(cs) /\ k \in Nat
  BY DEF Changing
<1>1. \A n \in Nat : n < t => Quiet(cs, n, k)
  BY QuietUpTo
<1>2. t <= l
  <2> SUFFICES ASSUME l < t PROVE FALSE
    BY <1>0
  <2>1. \A n \in 0 .. Len(b) : n \in Nat /\ n < t
    BY <1>0
  <2>2. \A n \in 0 .. Len(b) : Quiet(cs, n, k)
    BY <1>1, <2>1
  <2>3. body1 = b
    BY <1>0, <2>2, AllQuiet
  <2> QED
    BY <1>0, <2>3
<1>3. /\ r \in Seq(Seq(S)) /\ Len(r) = l + 1 /\ \A n \in 1 .. l + 1 : r[n] = Becomes(b, cs, n - 1, k)
      /\ body1 = FlattenSeq(r)
  BY <1>0, RowType
<1>4. /\ q \in Seq(Seq(S)) /\ Len(q) = l + 1 /\ \A n \in 1 .. l + 1 : q[n] = Becomes(b, cs, n - 1, m)
      /\ ReplacedAtOnce(b, cs, m) = FlattenSeq(q)
  BY <1>0, RowType
<1> DEFINE front == SubSeq(b, 1, f)
           upto  == SubSeq(b, 1, t)
           rHead == SubSeq(r, 1, t)
           rTail == SubSeq(r, t + 1, Len(r))
           qHead == SubSeq(q, 1, f)
           qTail == SubSeq(q, f + 1, Len(q))
           tail  == FlattenSeq(rTail)
<1>5. FlattenSeq(rHead) = upto
  <2>1. t \in 0 .. Len(b) /\ \A n \in 0 .. t - 1 : n \in Nat /\ n < t
    BY <1>0, <1>2
  <2>2. \A n \in 0 .. t - 1 : Quiet(cs, n, k)
    BY <1>1, <2>1
  <2> QED
    BY <1>0, <2>1, <2>2, QuietFirst
<1>6. FlattenSeq(qHead) = front
  <2>1. f \in 0 .. Len(b) /\ \A n \in 0 .. f - 1 : n \in 0 .. Len(b) /\ n < f
    BY <1>0, <1>2
  <2>2. \A n \in 0 .. f - 1 : Quiet(cs, n, m)
    BY <1>0, <2>1, RowSteps
  <2> QED
    BY <1>0, <2>1, <2>2, QuietFirst
<1>s. \A n \in 0 .. l :
        /\ n = f /\ f < t => Becomes(b, cs, n, m) = new
        /\ n = f /\ f = t => Becomes(b, cs, n, m) = new \o Becomes(b, cs, n, k)
        /\ n > f /\ n < t => Becomes(b, cs, n, m) = << >>
        /\ n > f /\ n >= t => Becomes(b, cs, n, m) = Becomes(b, cs, n, k)
  <2> SUFFICES ASSUME NEW n \in 0 .. Len(b)
               PROVE  /\ n = f /\ f < t => Becomes(b, cs, n, m) = new
                      /\ n = f /\ f = t => Becomes(b, cs, n, m) = new \o Becomes(b, cs, n, k)
                      /\ n > f /\ n < t => Becomes(b, cs, n, m) = << >>
                      /\ n > f /\ n >= t => Becomes(b, cs, n, m) = Becomes(b, cs, n, k)
    OBVIOUS
  <2>1. /\ n = cs[m].from /\ cs[m].from < cs[m].to => Becomes(b, cs, n, m) = cs[m].new
        /\ n = cs[m].from /\ cs[m].from = cs[m].to =>
             Becomes(b, cs, n, m) = cs[m].new \o Becomes(b, cs, n, k)
        /\ n > cs[m].from /\ n < cs[m].to => Becomes(b, cs, n, m) = << >>
        /\ n > cs[m].from /\ n >= cs[m].to => Becomes(b, cs, n, m) = Becomes(b, cs, n, k)
    BY RowSteps
  <2> QED
    BY <2>1
<1> HIDE DEF r, q
<1>7. /\ rHead \in Seq(Seq(S)) /\ Len(rHead) = t /\ \A n \in 1 .. t : rHead[n] = r[n]
      /\ rTail \in Seq(Seq(S)) /\ Len(rTail) = Len(r) - t /\ \A n \in 1 .. Len(r) - t : rTail[n] = r[t + n]
  <2>1. t \in 0 .. Len(r) /\ r \in Seq(Seq(S))
    BY <1>0, <1>2, <1>3
  <2>2. rHead \in Seq(Seq(S)) /\ Len(rHead) = t /\ \A n \in 1 .. t : rHead[n] = r[n]
    BY <2>1, Firsts
  <2>3. rTail \in Seq(Seq(S)) /\ Len(rTail) = Len(r) - t /\ \A n \in 1 .. Len(r) - t : rTail[n] = r[t + n]
    BY <2>1, Lasts
  <2> QED
    BY <2>2, <2>3
<1>8. /\ qHead \in Seq(Seq(S)) /\ Len(qHead) = f /\ \A n \in 1 .. f : qHead[n] = q[n]
      /\ qTail \in Seq(Seq(S)) /\ Len(qTail) = Len(q) - f /\ \A n \in 1 .. Len(q) - f : qTail[n] = q[f + n]
  <2>1. f \in 0 .. Len(q) /\ q \in Seq(Seq(S))
    BY <1>0, <1>2, <1>4
  <2>2. qHead \in Seq(Seq(S)) /\ Len(qHead) = f /\ \A n \in 1 .. f : qHead[n] = q[n]
    BY <2>1, Firsts
  <2>3. qTail \in Seq(Seq(S)) /\ Len(qTail) = Len(q) - f /\ \A n \in 1 .. Len(q) - f : qTail[n] = q[f + n]
    BY <2>1, Lasts
  <2> QED
    BY <2>2, <2>3
<1>9. front \in Seq(S) /\ upto \in Seq(S) /\ Len(upto) = t /\ SubSeq(upto, 1, f) = front
  <2>1. t \in 0 .. Len(b) /\ f \in 0 .. Len(b) /\ \A n \in 1 .. f : n \in 1 .. t
    BY <1>0, <1>2
  <2>2. front \in Seq(S) /\ Len(front) = f /\ \A n \in 1 .. f : front[n] = b[n]
    BY <1>0, <2>1, Firsts
  <2>3. upto \in Seq(S) /\ Len(upto) = t /\ \A n \in 1 .. t : upto[n] = b[n]
    BY <1>0, <2>1, Firsts
  <2> DEFINE x == SubSeq(upto, 1, f)
  <2> HIDE DEF front, upto
  <2>4. x \in Seq(S) /\ Len(x) = f /\ \A n \in 1 .. f : x[n] = upto[n]
    <3>1. f \in 0 .. Len(upto)
      BY <1>0, <2>3
    <3> QED
      BY <2>3, <3>1, Firsts
  <2> HIDE DEF x
  <2>5. \A n \in 1 .. Len(x) : x[n] = front[n]
    BY <2>1, <2>2, <2>3, <2>4
  <2>6. x = front
    BY <2>2, <2>4, <2>5, SeqEqual
  <2> QED
    BY <2>2, <2>3, <2>6 DEF x
<1> HIDE DEF front, upto, rHead, rTail, qHead, qTail
<1>10. tail \in Seq(S)
  BY <1>7, FlattenType
<1>11. body1 = upto \o tail
  <2>1. Len(r) = Len(rHead) + Len(rTail)
    BY <1>0, <1>3, <1>7
  <2>2. /\ \A n \in 1 .. Len(rHead) : r[n] = rHead[n]
        /\ \A n \in 1 .. Len(rTail) : r[Len(rHead) + n] = rTail[n]
    BY <1>7
  <2>3. FlattenSeq(r) = FlattenSeq(rHead) \o FlattenSeq(rTail)
    BY <1>3, <1>7, <2>1, <2>2, FlattenParts
  <2> QED
    BY <1>3, <1>5, <2>3
<1>12. ReplacedAtOnce(b, cs, m) = front \o FlattenSeq(qTail)
  <2>1. Len(q) = Len(qHead) + Len(qTail)
    BY <1>0, <1>4, <1>8
  <2>2. /\ \A n \in 1 .. Len(qHead) : q[n] = qHead[n]
        /\ \A n \in 1 .. Len(qTail) : q[Len(qHead) + n] = qTail[n]
    BY <1>8
  <2>3. FlattenSeq(q) = FlattenSeq(qHead) \o FlattenSeq(qTail)
    BY <1>4, <1>8, <2>1, <2>2, FlattenParts
  <2> QED
    BY <1>4, <1>6, <2>3
<1> HIDE DEF tail
<1>13. Spliced(body1, f, t, new) = (front \o new) \o tail
  <2>1. f \in 0 .. Len(upto)
    BY <1>0, <1>9
  <2>2. /\ SubSeq(upto \o tail, 1, f) = SubSeq(upto, 1, f)
        /\ SubSeq(upto \o tail, Len(upto) + 1, Len(upto \o tail)) = tail
    BY <1>9, <1>10, <2>1, CutParts
  <2>3. SubSeq(body1, 1, f) = front /\ SubSeq(body1, t + 1, Len(body1)) = tail
    BY <1>9, <1>11, <2>2
  <2> QED
    BY <2>3, Zenon DEF Spliced
<1>14. /\ f \in Nat /\ t \in Nat /\ l \in Nat /\ f <= t /\ t <= l
       /\ Len(qTail) = l + 1 - f /\ Len(rTail) = l + 1 - t /\ Len(q) = l + 1 /\ Len(r) = l + 1
  <2>1. f \in Nat /\ t \in Nat /\ l \in Nat /\ f <= t /\ t <= l /\ Len(q) = l + 1 /\ Len(r) = l + 1
    BY <1>0, <1>2, <1>3, <1>4
  <2>2. Len(rTail) = Len(r) - t /\ Len(qTail) = Len(q) - f
    BY <1>7, <1>8
  <2> HIDE DEF f, t, l
  <2> QED
    BY <2>1, <2>2
<1> HIDE DEF f, t, new, l
<1>15. ASSUME NEW n \in 1 .. Len(qTail) PROVE qTail[n] = Becomes(b, cs, f + n - 1, m) /\ f + n - 1 \in 0 .. l
  <2>1. n \in 1 .. Len(q) - f /\ f + n \in 1 .. l + 1 /\ f + n - 1 \in 0 .. l
    BY <1>14
  <2>2. qTail[n] = q[f + n] /\ q[f + n] = Becomes(b, cs, f + n - 1, m)
    BY <1>4, <1>8, <2>1
  <2> QED
    BY <2>1, <2>2
<1>16. ASSUME NEW n \in 1 .. Len(rTail) PROVE rTail[n] = Becomes(b, cs, t + n - 1, k)
  <2>1. n \in 1 .. Len(r) - t /\ t + n \in 1 .. l + 1
    BY <1>14
  <2>2. rTail[n] = r[t + n] /\ r[t + n] = Becomes(b, cs, t + n - 1, k)
    BY <1>3, <1>7, <2>1
  <2> QED
    BY <2>2
<1>17. FlattenSeq(qTail) = new \o tail
  <2>1. CASE f = t
    <3>1. Len(qTail) = Len(rTail) /\ Len(qTail) # 0 /\ 1 \in 1 .. Len(qTail) /\ 1 \in 1 .. Len(rTail)
          /\ f + 1 - 1 = f /\ t + 1 - 1 = f /\ f \in 0 .. l
      BY <1>14, <2>1
    <3>2. qTail[1] = new \o rTail[1]
      <4>1. qTail[1] = Becomes(b, cs, f + 1 - 1, m) /\ rTail[1] = Becomes(b, cs, t + 1 - 1, k)
        BY <1>15, <1>16, <3>1
      <4> QED
        BY <1>s, <2>1, <3>1, <4>1
    <3>3. ASSUME NEW n \in 1 .. Len(qTail), n # 1 PROVE qTail[n] = rTail[n]
      <4>1. n \in 1 .. Len(rTail) /\ f + n - 1 > f /\ f + n - 1 >= t /\ f + n - 1 = t + n - 1
        BY <1>14, <2>1, <3>3
      <4>2. /\ qTail[n] = Becomes(b, cs, f + n - 1, m) /\ rTail[n] = Becomes(b, cs, t + n - 1, k)
            /\ f + n - 1 \in 0 .. l
        BY <1>15, <1>16, <4>1
      <4>3. Becomes(b, cs, f + n - 1, m) = Becomes(b, cs, f + n - 1, k)
        BY <1>s, <4>1, <4>2
      <4> QED
        BY <4>1, <4>2, <4>3
    <3>4. new \in Seq(S) /\ qTail \in Seq(Seq(S)) /\ rTail \in Seq(Seq(S))
      BY <1>0, <1>7, <1>8
    <3>5. FlattenSeq(qTail) = new \o FlattenSeq(rTail)
      BY <3>1, <3>2, <3>3, <3>4, FrontGrows
    <3> QED
      BY <3>5 DEF tail
  <2>2. CASE f < t
    <3> DEFINE d == t - f
               mid == SubSeq(qTail, 1, d)
    <3>1. /\ d \in Nat /\ d # 0 /\ d \in 0 .. Len(qTail) /\ Len(qTail) = d + Len(rTail)
          /\ 1 \in 1 .. d /\ f + 1 - 1 = f /\ f \in 0 .. l
          /\ \A n \in 1 .. d : n \in 1 .. Len(qTail) /\ f + n - 1 < t /\ (n # 1 => f + n - 1 > f)
          /\ \A n \in 1 .. Len(rTail) :
               d + n \in 1 .. Len(qTail) /\ f + (d + n) - 1 = t + n - 1 /\ t + n - 1 > f /\ t + n - 1 >= t
      BY <1>14, <2>2
    <3> HIDE DEF d
    <3>2. mid \in Seq(Seq(S)) /\ Len(mid) = d /\ \A n \in 1 .. d : mid[n] = qTail[n]
      <4>1. qTail \in Seq(Seq(S)) /\ d \in 0 .. Len(qTail)
        BY <1>8, <3>1
      <4> QED
        BY <4>1, Firsts
    <3> HIDE DEF mid
    <3>3. ASSUME NEW n \in 1 .. d
          PROVE  mid[n] = Becomes(b, cs, f + n - 1, m) /\ f + n - 1 \in 0 .. l
      <4>1. n \in 1 .. Len(qTail) /\ mid[n] = qTail[n]
        BY <3>1, <3>2
      <4> QED
        BY <1>15, <4>1
    <3>4. mid[1] = new
      <4>1. mid[1] = Becomes(b, cs, f + 1 - 1, m)
        BY <3>1, <3>3
      <4> QED
        BY <1>s, <2>2, <3>1, <4>1
    <3>5. ASSUME NEW n \in 1 .. Len(mid), n # 1 PROVE mid[n] = << >>
      <4>1. n \in 1 .. d /\ f + n - 1 > f /\ f + n - 1 < t
        BY <3>1, <3>2, <3>5
      <4> QED
        BY <1>s, <3>3, <4>1
    <3>6. FlattenSeq(mid) = new
      <4>1. Len(mid) # 0 /\ mid \in Seq(Seq(S))
        BY <3>1, <3>2
      <4>2. FlattenSeq(mid) = mid[1]
        BY <3>5, <4>1, FirstOnly
      <4> QED
        BY <3>4, <4>2
    <3>7. ASSUME NEW n \in 1 .. Len(rTail) PROVE qTail[Len(mid) + n] = rTail[n]
      <4>1. d + n \in 1 .. Len(qTail) /\ f + (d + n) - 1 = t + n - 1 /\ t + n - 1 > f /\ t + n - 1 >= t
        BY <3>1
      <4>2. /\ qTail[d + n] = Becomes(b, cs, t + n - 1, m) /\ rTail[n] = Becomes(b, cs, t + n - 1, k)
            /\ t + n - 1 \in 0 .. l
        <5>1. qTail[d + n] = Becomes(b, cs, f + (d + n) - 1, m) /\ f + (d + n) - 1 \in 0 .. l
          BY <1>15, <4>1
        <5> QED
          BY <1>16, <4>1, <5>1
      <4>3. Becomes(b, cs, t + n - 1, m) = Becomes(b, cs, t + n - 1, k)
        BY <1>s, <4>1, <4>2
      <4> QED
        BY <3>2, <4>2, <4>3
    <3>8. Len(qTail) = Len(mid) + Len(rTail) /\ \A n \in 1 .. Len(mid) : qTail[n] = mid[n]
      BY <3>1, <3>2
    <3>9. FlattenSeq(qTail) = FlattenSeq(mid) \o FlattenSeq(rTail)
      <4>1. qTail \in Seq(Seq(S)) /\ mid \in Seq(Seq(S)) /\ rTail \in Seq(Seq(S))
        BY <1>7, <1>8, <3>2
      <4> QED
        BY <3>7, <3>8, <4>1, FlattenParts
    <3> QED
      BY <3>6, <3>9 DEF tail
  <2>3. f = t \/ f < t
    BY <1>14
  <2> QED
    BY <2>1, <2>2, <2>3
<1> DEFINE fn == front \o new
           whole == fn \o tail
           nt == new \o tail
<1>18. Joined(S, front, new, tail, fn, whole, nt)
  BY <1>0, <1>9, <1>10, Zenon DEF Joined
<1> HIDE DEF fn, whole, nt
<1>19. whole = front \o nt
  BY <1>18, JoinLast
<1> QED
  BY <1>12, <1>13, <1>17, <1>19 DEF fn, whole, nt, f, t, new

-----------------------------------------------------------------------------
(* One after the other is at once *)

\* What blocks are made of, whoever asks for the changes.
RequestItems(r) == ToSet(r.body) \cup UNION { ToSet(r.changes[n].new) : n \in 1 .. Len(r.changes) }

Anything == Instrs \cup UNION { RequestItems(r) : r \in Requests }

\* The changes, once sorted, go from the back to the front, and those made so
\* far have made of the block what they make of it at once.
OnceInv ==
  /\ Changing(Anything, original, changes)
  /\ pc = "scan" => original \in Bodies
  /\ pc \in {"scan", "new"} => body = original /\ next = 1
  /\ pc \in {"splice", "done"} =>
       /\ next \in 1 .. Len(changes) + 1
       /\ \A j, n \in 1 .. Len(changes) : j < n => changes[n].from <= changes[j].from
       /\ \A j \in 1 .. next - 1 : changes[j].from <= changes[j].to
  /\ ReplacesAtOnce

LEMMA OnceInit == Init => OnceInv
<1> SUFFICES ASSUME Init PROVE OnceInv
  OBVIOUS
<1>1. body = original /\ next = 1 /\ pc \in {"scan", "new"} /\ (pc = "scan" => original \in Bodies)
  BY DEF Init
<1>2. CASE original \in Bodies /\ changes = << >>
  <2>1. original \in Seq(Items) /\ Items \subseteq Anything
    BY <1>2, BodiesOfItems DEF Instrs, Anything
  <2>2. original \in Seq(Anything)
    <3> HIDE DEF Anything
    <3> QED
      BY <2>1, SeqMonotonic
  <2>3. Changing(Anything, original, changes)
    BY <1>2, <2>2 DEF Changing
  <2> QED
    BY <1>1, <2>3 DEF OnceInv, ReplacesAtOnce
<1>3. CASE \E r \in Requests : original = r.body /\ changes = r.changes
  <2>1. PICK r \in Requests : original = r.body /\ changes = r.changes
    BY <1>3
  <2>2. /\ r.body \in Seq(ToSet(r.body)) /\ Len(r.changes) \in Nat
        /\ \A n \in 1 .. Len(r.changes) :
             /\ r.changes[n].from \in Nat /\ r.changes[n].to \in Nat
             /\ r.changes[n].new \in Seq(ToSet(r.changes[n].new))
    BY RequestAssumption
  <2>3. ToSet(r.body) \subseteq Anything /\ \A n \in 1 .. Len(r.changes) : ToSet(r.changes[n].new) \subseteq Anything
    <3>1. ToSet(r.body) \subseteq RequestItems(r) /\ \A n \in 1 .. Len(r.changes) : ToSet(r.changes[n].new) \subseteq RequestItems(r)
      BY DEF RequestItems
    <3>2. RequestItems(r) \subseteq Anything
      BY DEF Anything
    <3> QED
      BY <3>1, <3>2
  <2>4. original \in Seq(Anything) /\ \A n \in 1 .. Len(changes) : changes[n].new \in Seq(Anything)
    <3> HIDE DEF Anything
    <3>1. original \in Seq(Anything)
      BY <2>1, <2>2, <2>3, SeqMonotonic
    <3>2. ASSUME NEW n \in 1 .. Len(changes) PROVE changes[n].new \in Seq(Anything)
      BY <2>1, <2>2, <2>3, SeqMonotonic
    <3> QED
      BY <3>1, <3>2
  <2>5. Changing(Anything, original, changes)
    BY <2>1, <2>2, <2>4 DEF Changing
  <2> QED
    BY <1>1, <2>5 DEF OnceInv, ReplacesAtOnce
<1> QED
  BY <1>2, <1>3 DEF Init

\* Before any change is made.
LEMMA NothingYet ==
  ASSUME NEW S, NEW b, NEW cs, Changing(S, b, cs)
  PROVE  ReplacedAtOnce(b, cs, 0) = b
<1>1. \A n \in 0 .. Len(b) : Quiet(cs, n, 0)
  BY DEF Quiet
<1>2. 0 \in 0 .. Len(cs)
  BY DEF Changing
<1> QED
  BY <1>1, <1>2, AllQuiet

LEMMA OnceScan ==
  ASSUME OnceInv, i \in Nat, Scan
  PROVE  OnceInv'
<1>1. /\ body = original /\ next = 1 /\ original \in Bodies /\ i < Len(body) /\ body \in Seq(Items)
      /\ UNCHANGED <<original, pc, next, body>> /\ pc = "scan"
      /\ Changing(Anything, original, changes)
  BY BodiesOfItems DEF OnceInv, Scan
<1>2. CASE changes' = changes
  BY <1>1, <1>2 DEF OnceInv, ReplacesAtOnce
<1>3. CASE changes' = Append(changes, Range2(i))
  <2>1. Len(changes) \in Nat
    BY <1>1 DEF Changing
  <2>2. Len(changes') = Len(changes) + 1
        /\ \A n \in 1 .. Len(changes') : changes'[n] = IF n <= Len(changes) THEN changes[n] ELSE Range2(i)
    BY <1>3, <2>1
  <2>3. body[i + 1] \in Items
    BY <1>1
  <2>4. OpNamed("CallDirect", body[i + 1].name) \in Anything
    BY <2>3 DEF Instrs, Anything
  <2>5. Range2(i).new \in Seq(Anything) /\ Range2(i).from \in Nat /\ Range2(i).to \in Nat
    <3> HIDE DEF Anything
    <3> QED
      BY <2>4 DEF Range2, Change, Replacement
  <2>6. \A n \in 1 .. Len(changes') :
          changes'[n].from \in Nat /\ changes'[n].to \in Nat /\ changes'[n].new \in Seq(Anything)
    <3> SUFFICES ASSUME NEW n \in 1 .. Len(changes')
                 PROVE  changes'[n].from \in Nat /\ changes'[n].to \in Nat /\ changes'[n].new \in Seq(Anything)
      OBVIOUS
    <3>1. n \in 1 .. Len(changes) \/ ~ (n <= Len(changes))
      BY <2>1, <2>2
    <3>2. CASE n \in 1 .. Len(changes)
      BY <1>1, <2>1, <2>2, <3>2 DEF Changing
    <3>3. CASE ~ (n <= Len(changes))
      BY <2>2, <2>5, <3>3
    <3> QED
      BY <3>1, <3>2, <3>3
  <2>7. Changing(Anything, original, changes')
    BY <1>1, <2>1, <2>2, <2>6 DEF Changing
  <2>8. Changing(Anything, original, changes)'
    BY <1>1, <2>7
  <2> QED
    BY <1>1, <2>8 DEF OnceInv, ReplacesAtOnce
<1> QED
  BY <1>2, <1>3 DEF Scan

LEMMA OnceNew ==
  ASSUME OnceInv, New
  PROVE  OnceInv'
<1>1. /\ body = original /\ next = 1 /\ UNCHANGED <<original, next, body>>
      /\ Changing(Anything, original, changes)
  BY DEF OnceInv, New
<1>2. CASE pc' = "refused" /\ changes' = changes
  BY <1>1, <1>2 DEF OnceInv, ReplacesAtOnce
<1>3. CASE pc' = "splice" /\ changes' = Sorted(changes)
  <2>1. Len(changes) \in Nat /\ original \in Seq(Anything)
        /\ \A n \in 1 .. Len(changes) :
             changes[n].from \in Nat /\ changes[n].to \in Nat /\ changes[n].new \in Seq(Anything)
    BY <1>1 DEF Changing
  <2>2. PICK p \in [1 .. Len(changes) -> 1 .. Len(changes)] :
          /\ \A n \in 1 .. Len(changes) : Sorted(changes)[n] = changes[p[n]]
          /\ \A m, n \in 1 .. Len(changes) : m < n => p[m] # p[n] /\ changes[p[m]].from >= changes[p[n]].from
    BY <2>1, SortedIsSorted
  <2>3. Len(changes') = Len(changes)
    BY <1>3, <2>1, SortedIsSorted
  <2>4. \A n \in 1 .. Len(changes') :
          changes'[n].from \in Nat /\ changes'[n].to \in Nat /\ changes'[n].new \in Seq(Anything)
    BY <1>3, <2>1, <2>2, <2>3
  <2>5. Changing(Anything, original, changes')
    BY <2>1, <2>3, <2>4 DEF Changing
  <2>6. \A j, n \in 1 .. Len(changes') : j < n => changes'[n].from <= changes'[j].from
    <3> SUFFICES ASSUME NEW j \in 1 .. Len(changes), NEW n \in 1 .. Len(changes), j < n
                 PROVE  changes'[n].from <= changes'[j].from
      BY <2>3
    <3>1. p[j] \in 1 .. Len(changes) /\ p[n] \in 1 .. Len(changes) /\ changes[p[j]].from >= changes[p[n]].from
      BY <2>2
    <3> QED
      BY <1>3, <2>1, <2>2, <3>1
  <2>7. body' = ReplacedAtOnce(original, changes', 0)
    BY <1>1, <2>5, NothingYet
  <2>8. next' = 1 /\ next' \in 1 .. Len(changes') + 1 /\ next' - 1 = 0
    BY <1>1, <2>1, <2>3
  <2>9. \A j \in 1 .. next' - 1 : changes'[j].from <= changes'[j].to
    BY <2>8
  <2>10. body' = ReplacedAtOnce(original', changes', next' - 1)
    BY <1>1, <2>7, <2>8
  <2>11. Changing(Anything, original', changes')
    BY <1>1, <2>5
  <2> QED
    BY <1>1, <1>3, <2>6, <2>8, <2>9, <2>10, <2>11 DEF OnceInv, ReplacesAtOnce
<1> QED
  BY <1>2, <1>3 DEF New

LEMMA OnceSplice ==
  ASSUME OnceInv, ChangesInv, Splice
  PROVE  OnceInv'
<1> DEFINE c == changes[next]
           k == next - 1
<1>1. /\ pc = "splice" /\ next \in 1 .. Len(changes) /\ Len(changes) \in Nat /\ k \in Nat /\ next = k + 1
      /\ UNCHANGED <<original, changes>> /\ Changing(Anything, original, changes)
      /\ \A j, n \in 1 .. Len(changes) : j < n => changes[n].from <= changes[j].from
      /\ \A j \in 1 .. k : changes[j].from <= changes[j].to
      /\ Disjoint(changes)
      /\ ~Overwritten(changes) => body = ReplacedAtOnce(original, changes, k)
  <2>1. pc = "splice" /\ next <= Len(changes) /\ UNCHANGED <<original, changes>>
    BY DEF Splice
  <2>2. Len(changes) \in Nat /\ Disjoint(changes)
    BY <2>1 DEF ChangesInv
  <2>3. /\ next \in 1 .. Len(changes) + 1
        /\ \A j, n \in 1 .. Len(changes) : j < n => changes[n].from <= changes[j].from
        /\ \A j \in 1 .. next - 1 : changes[j].from <= changes[j].to
        /\ Changing(Anything, original, changes)
    BY <2>1 DEF OnceInv
  <2>4. ~Overwritten(changes) => body = ReplacedAtOnce(original, changes, next - 1)
    BY <2>1 DEF OnceInv, ReplacesAtOnce
  <2>5. next \in 1 .. Len(changes) /\ next - 1 \in Nat /\ next = (next - 1) + 1
    BY <2>1, <2>2, <2>3
  <2> QED
    BY <2>1, <2>2, <2>3, <2>4, <2>5
<1>2. CASE OutOfBounds(c) /\ pc' = "panicked" /\ UNCHANGED <<next, body>>
  BY <1>1, <1>2 DEF OnceInv, ReplacesAtOnce
<1>3. CASE /\ ~OutOfBounds(c) /\ next' = next + 1 /\ pc' = "splice"
           /\ body' = Spliced(body, c.from, c.to, c.new)
  <2>1. c.from \in Nat /\ c.to \in Nat
    BY <1>1 DEF Changing
  <2>2. c.from <= c.to /\ (Len(body) \in Nat => c.to <= Len(body))
    <3> HIDE DEF c
    <3> QED
      BY <1>3, <2>1 DEF OutOfBounds
  <2>3. next' \in 1 .. Len(changes') + 1 /\ next' - 1 = next /\ \A j \in 1 .. next : j = next \/ j \in 1 .. k
    BY <1>1, <1>3
  <2>4. \A j \in 1 .. next' - 1 : changes'[j].from <= changes'[j].to
    BY <1>1, <2>2, <2>3
  <2>5. ASSUME ~Overwritten(changes)
        PROVE  body' = ReplacedAtOnce(original, changes, next)
    <3>1. Applicable(changes, k, next)
      <4> SUFFICES ASSUME NEW j \in 1 .. k
                   PROVE  /\ changes[next].from <= changes[j].from /\ changes[j].from <= changes[j].to
                          /\ Indices(changes[j]) \cap Indices(changes[next]) = {}
                          /\ ~Overwrites(changes, next, j)
        BY DEF Applicable
      <4>1. j \in 1 .. Len(changes) /\ j < next /\ j # next
        BY <1>1
      <4>2. Indices(changes[j]) \cap Indices(changes[next]) = {}
        BY <1>1, <4>1 DEF Disjoint
      <4>3. ~Overwrites(changes, next, j)
        BY <1>1, <2>5, <4>1 DEF Overwritten
      <4> QED
        BY <1>1, <4>1, <4>2, <4>3
    <3>2. body = ReplacedAtOnce(original, changes, k)
      BY <1>1, <2>5
    <3>3. Len(body) \in Nat
      <4>1. k \in 0 .. Len(changes)
        BY <1>1
      <4>2. Row(original, changes, k) \in Seq(Seq(Anything))
            /\ ReplacedAtOnce(original, changes, k) = FlattenSeq(Row(original, changes, k))
        BY <1>1, <4>1, RowType
      <4>3. body \in Seq(Anything)
        BY <3>2, <4>2, FlattenType
      <4> QED
        BY <4>3, LenProperties
    <3>4. c.to <= Len(body)
      BY <2>2, <3>3
    <3>5. Spliced(body, c.from, c.to, c.new) = ReplacedAtOnce(original, changes, next)
      <4> HIDE DEF k
      <4> QED
        BY <1>1, <2>2, <3>1, <3>2, <3>4, OneSplice
    <3> QED
      BY <1>3, <3>5
  <2>6. ~Overwritten(changes') => body' = ReplacedAtOnce(original', changes', next' - 1)
    BY <1>1, <2>3, <2>5
  <2>7. Changing(Anything, original', changes')
    BY <1>1
  <2>8. \A j, n \in 1 .. Len(changes') : j < n => changes'[n].from <= changes'[j].from
    BY <1>1
  <2> QED
    BY <1>3, <2>3, <2>4, <2>6, <2>7, <2>8 DEF OnceInv, ReplacesAtOnce
<1> QED
  BY <1>1, <1>2, <1>3 DEF Splice, Spliced

LEMMA OnceNext == OnceInv /\ ChangesInv /\ CountInv /\ [Next]_vars => OnceInv'
<1> SUFFICES ASSUME OnceInv, ChangesInv, CountInv, [Next]_vars
             PROVE  OnceInv'
  OBVIOUS
<1>1. CASE Scan
  BY <1>1, OnceScan DEF CountInv
<1>2. CASE EndScan
  BY <1>2 DEF EndScan, OnceInv, ReplacesAtOnce
<1>3. CASE New
  BY <1>3, OnceNew
<1>4. CASE Splice
  BY <1>4, OnceSplice
<1>5. CASE EndSplice
  BY <1>5 DEF EndSplice, OnceInv, ReplacesAtOnce
<1>6. CASE UNCHANGED vars
  BY <1>6 DEF vars, OnceInv, ReplacesAtOnce
<1> QED
  BY <1>1, <1>2, <1>3, <1>4, <1>5, <1>6 DEF Next, Finished

\* Whoever asks for the changes: making them one after the other from the back
\* of the block is making them all at once, as long as nothing is inserted where
\* a range is replaced later.
THEOREM SplicesAsAtOnce == Spec => []ReplacesAtOnce
<1>1. OnceInv => ReplacesAtOnce
  BY DEF OnceInv
<1> QED
  BY <1>1, OnceInit, OnceNext, ChangesInit, ChangesNext, PTL DEF Spec
=============================================================================
