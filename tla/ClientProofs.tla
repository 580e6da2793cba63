---------------------------- MODULE ClientProofs ----------------------------
(***************************************************************************)
(* What a client of the C interface is promised: its functions are as its  *)
(* calls asked for them, whatever calls of others come in between; and its *)
(* static memory items are aligned, not null and apart from one another,   *)
(* and a compiled program finds in them what the client put there.         *)
(***************************************************************************)
EXTENDS CInterface, StaticMemory, ControlFlowProofs, FiniteSetTheorems, SequenceTheorems, TLAPS

-----------------------------------------------------------------------------
(* Logs that get longer *)

IsList(s) == \E S : s \in Seq(S)

\* What a list is after one more element.
Longer(t, s, x) ==
  /\ IsList(t) /\ t # << >>
  /\ Len(s) \in Nat /\ Len(t) = Len(s) + 1
  /\ \A k \in 1 .. Len(s) : t[k] = s[k]
  /\ t[Len(s) + 1] = x

LEMMA ListAppend ==
  ASSUME NEW s, IsList(s), NEW x
  PROVE  Longer(Append(s, x), s, x)
<1>1. PICK S : s \in Seq(S)
  BY DEF IsList
<1> DEFINE R == S \cup {x}
<1>2. s \in Seq(R) /\ x \in R
  BY <1>1
<1> HIDE DEF R
<1>3. /\ Append(s, x) \in Seq(R) /\ Append(s, x) # << >> /\ Len(Append(s, x)) = Len(s) + 1
      /\ \A k \in 1 .. Len(s) : Append(s, x)[k] = s[k]
      /\ Append(s, x)[Len(s) + 1] = x
  BY <1>2, AppendProperties
<1>4. Len(s) \in Nat
  BY <1>2, LenProperties
<1> QED
  BY <1>3, <1>4 DEF Longer, IsList

\* The positions of a call are finitely many numbers.
LEMMA AsksType ==
  ASSUME NEW log, IsList(log), NEW call
  PROVE  /\ Len(log) \in Nat /\ Asks(log, call) \subseteq 1 .. Len(log)
         /\ IsFiniteSet(Asks(log, call)) /\ Cardinality(Asks(log, call)) \in Nat
<1>1. Len(log) \in Nat
  BY LenProperties DEF IsList
<1>2. Asks(log, call) \subseteq 1 .. Len(log)
  BY DEF Asks
<1>3. IsFiniteSet(1 .. Len(log))
  BY <1>1, FS_Interval
<1>4. IsFiniteSet(Asks(log, call))
  BY <1>2, <1>3, FS_Subset
<1> QED
  BY <1>1, <1>2, <1>4, FS_CardinalityType

\* One more call adds its own position to those of calls like it.
LEMMA AsksMore ==
  ASSUME NEW log, IsList(log), NEW c, NEW call
  PROVE  Asks(Append(log, c), call)
           = Asks(log, call) \cup (IF c.call = call THEN {Len(log) + 1} ELSE {})
<1> DEFINE more == Append(log, c)
<1>1. Longer(more, log, c)
  BY ListAppend
<1> HIDE DEF more
<1>2. /\ Len(log) \in Nat /\ Len(more) = Len(log) + 1
      /\ \A k \in 1 .. Len(log) : more[k] = log[k]
      /\ more[Len(log) + 1] = c
  BY <1>1 DEF Longer
<1>3. 1 .. Len(more) = (1 .. Len(log)) \cup {Len(log) + 1}
  BY <1>2
<1>4. Asks(more, call) = Asks(log, call) \cup (IF c.call = call THEN {Len(log) + 1} ELSE {})
  BY <1>2, <1>3 DEF Asks
<1> QED
  BY <1>4 DEF more

\* What was known before a position of the log stays as it is.
LEMMA BeforeStays ==
  ASSUME NEW log, IsList(log), NEW c, NEW call, NEW n \in 1 .. Len(log) + 1
  PROVE  Before(Asks(Append(log, c), call), n) = Before(Asks(log, call), n)
<1>1. Len(log) \in Nat /\ Asks(log, call) \subseteq 1 .. Len(log)
  BY AsksType
<1>2. ~ (Len(log) + 1 < n)
  BY <1>1
<1>3. Asks(Append(log, c), call) \ {Len(log) + 1} = Asks(log, call) \ {Len(log) + 1}
  BY AsksMore
<1>4. Len(log) + 1 \notin Asks(log, call)
  BY <1>1
<1>5. ~ (Len(log) + 1 < Len(log) + 1) 
  BY <1>1
<1> QED
  BY <1>2, <1>3, <1>4 DEF Before

LEMMA CurrentStays ==
  ASSUME NEW log, IsList(log), NEW c, NEW n \in 1 .. Len(log) + 1, NEW b
  PROVE  IsCurrent(Append(log, c), n, b) <=> IsCurrent(log, n, b)
<1> DEFINE more == Append(log, c)
<1>1. Longer(more, log, c)
  BY ListAppend
<1>2. Before(Asks(more, "switch"), n) = Before(Asks(log, "switch"), n)
  BY BeforeStays
<1>3. \A k \in Before(Asks(log, "switch"), n) : k \in 1 .. Len(log)
  BY AsksType DEF Before
<1> HIDE DEF more
<1>4. \A k \in Before(Asks(log, "switch"), n) : more[k] = log[k]
  BY <1>1, <1>3 DEF Longer
<1>5. IsCurrent(more, n, b) <=> IsCurrent(log, n, b)
  BY <1>2, <1>4 DEF IsCurrent
<1> QED
  BY <1>5 DEF more

\* What a block must be to be current behind the last call of a log.
AtEnd(log, b) == IsCurrent(log, Len(log) + 1, b)

\* There is one current block at a time.
LEMMA OneCurrent ==
  ASSUME NEW log, IsList(log), NEW n, NEW a, NEW b,
         IsCurrent(log, n, a), IsCurrent(log, n, b)
  PROVE  a = b
<1> DEFINE S == Before(Asks(log, "switch"), n)
<1>1. \A k \in S : k \in Nat
  BY AsksType DEF Before
<1> HIDE DEF S
<1>2. \/ S = {} /\ a = Entry
      \/ \E k \in S : log[k].id = a /\ \A j \in S : j <= k
  BY DEF IsCurrent, S
<1>3. \/ S = {} /\ b = Entry
      \/ \E k \in S : log[k].id = b /\ \A j \in S : j <= k
  BY DEF IsCurrent, S
<1>4. CASE S = {}
  BY <1>2, <1>3, <1>4
<1>5. CASE S # {}
  <2>1. PICK k \in S : log[k].id = a /\ \A j \in S : j <= k
    BY <1>2, <1>5
  <2>2. PICK l \in S : log[l].id = b /\ \A j \in S : j <= l
    BY <1>3, <1>5
  <2>3. k \in Nat /\ l \in Nat /\ k <= l /\ l <= k
    BY <1>1, <2>1, <2>2
  <2>4. k = l
    BY <2>3
  <2> QED
    BY <2>1, <2>2, <2>4
<1> QED
  BY <1>4, <1>5

-----------------------------------------------------------------------------
(* Lists of what the calls of a log ask for *)

\* The number of positions before one of finitely many is less than all.
LEMMA BeforeCounts ==
  ASSUME NEW P, IsFiniteSet(P), P \subseteq Nat, NEW n \in P
  PROVE  /\ Cardinality(Before(P, n)) \in Nat /\ Cardinality(P) \in Nat
         /\ Cardinality(Before(P, n)) + 1 <= Cardinality(P)
<1> DEFINE Q == Before(P, n)
<1>1. Q \in SUBSET P /\ n \notin Q
  BY DEF Before
<1> HIDE DEF Q
<1>2. IsFiniteSet(Q) /\ Cardinality(Q) <= Cardinality(P) /\ (Cardinality(Q) = Cardinality(P) => P = Q)
  BY <1>1, FS_Subset
<1>3. Cardinality(Q) \in Nat /\ Cardinality(P) \in Nat
  BY <1>2, FS_CardinalityType
<1>4. Cardinality(Q) # Cardinality(P)
  BY <1>1, <1>2
<1>5. Cardinality(Q) + 1 <= Cardinality(P)
  BY <1>2, <1>3, <1>4
<1> QED
  BY <1>3, <1>5 DEF Q

\* Q has the positions of P and one behind them.
OneBehind(P, Q, next) ==
  /\ Q = P \cup {next} /\ next \notin P
  /\ Before(Q, next) = P
  /\ \A n \in P : Before(Q, n) = Before(P, n)
  /\ IsFiniteSet(P) /\ Cardinality(P) \in Nat /\ Cardinality(Q) = Cardinality(P) + 1

\* A position beyond all others has all of them before it, and is before none.
LEMMA BeforeNext ==
  ASSUME NEW m \in Nat, NEW P \in SUBSET (1 .. m)
  PROVE  OneBehind(P, P \cup {m + 1}, m + 1)
<1> DEFINE Q == P \cup {m + 1}
<1>1. \A n \in P : n \in Nat /\ n < m + 1 /\ ~ (m + 1 < n)
  OBVIOUS
<1>2. ~ (m + 1 < m + 1)
  OBVIOUS
<1>3. Before(Q, m + 1) = P /\ \A n \in P : Before(Q, n) = Before(P, n)
  BY <1>1, <1>2 DEF Before
<1>4. m + 1 \notin P
  BY <1>1
<1>5. IsFiniteSet(1 .. m)
  BY FS_Interval
<1>6. IsFiniteSet(P)
  BY <1>5, FS_Subset
<1>7. Cardinality(Q) = Cardinality(P) + 1
  BY <1>4, <1>6, FS_AddElement
<1> QED
  BY <1>3, <1>4, <1>6, <1>7, FS_CardinalityType DEF OneBehind

\* A list with one more value at its end lists one more position.
LEMMA ListsMore ==
  ASSUME NEW m \in Nat, NEW v, DOMAIN v \subseteq 1 .. m, NEW xs, IsList(xs), Lists(xs, v),
         NEW w, DOMAIN w = DOMAIN v \cup {m + 1}, \A n \in DOMAIN v : w[n] = v[n]
  PROVE  Lists(Append(xs, w[m + 1]), w)
<1> DEFINE ys == Append(xs, w[m + 1])
           P == DOMAIN v
           Q == DOMAIN w
<1>1. Longer(ys, xs, w[m + 1])
  BY ListAppend
<1> HIDE DEF ys
<1>2. /\ Len(xs) \in Nat /\ Len(ys) = Len(xs) + 1
      /\ \A k \in 1 .. Len(xs) : ys[k] = xs[k]
      /\ ys[Len(xs) + 1] = w[m + 1]
  BY <1>1 DEF Longer
<1>3. /\ Len(xs) = Cardinality(P)
      /\ \A n \in P : xs[Cardinality(Before(P, n)) + 1] = v[n]
  BY DEF Lists
<1>4. P \in SUBSET (1 .. m) /\ Q = P \cup {m + 1} /\ \A n \in P : w[n] = v[n]
  OBVIOUS
<1> HIDE DEF P, Q
<1>5. /\ Before(Q, m + 1) = P
      /\ \A n \in P : Before(Q, n) = Before(P, n)
      /\ IsFiniteSet(P) /\ Cardinality(Q) = Cardinality(P) + 1
  <2>1. OneBehind(P, P \cup {m + 1}, m + 1)
    BY <1>4, BeforeNext
  <2>2. OneBehind(P, Q, m + 1)
    BY <1>4, <2>1
  <2> QED
    BY <2>2 DEF OneBehind
<1>6. Len(ys) = Cardinality(Q)
  BY <1>2, <1>3, <1>5
<1>7. ASSUME NEW n \in Q
      PROVE  ys[Cardinality(Before(Q, n)) + 1] = w[n]
  <2>1. CASE n \in P
    <3>1. P \subseteq Nat
      BY <1>4
    <3>2. /\ Cardinality(Before(P, n)) \in Nat
          /\ Cardinality(Before(P, n)) + 1 <= Len(xs)
      BY <1>3, <1>5, <2>1, <3>1, BeforeCounts
    <3>3. ys[Cardinality(Before(P, n)) + 1] = xs[Cardinality(Before(P, n)) + 1]
      BY <1>2, <3>2
    <3> QED
      BY <1>3, <1>4, <1>5, <2>1, <3>3
  <2>2. CASE n = m + 1
    BY <1>2, <1>3, <1>5, <2>2
  <2> QED
    BY <1>4, <2>1, <2>2
<1>8. Lists(ys, w)
  BY <1>6, <1>7 DEF Lists, Q
<1> QED
  BY <1>8 DEF ys

\* The instructions of a block are those of the log, at their positions.
LEMMA WithinType ==
  ASSUME NEW log, IsList(log), NEW b
  PROVE  /\ DOMAIN Within(log, b) = { k \in Asks(log, "instr") : IsCurrent(log, k, b) }
         /\ DOMAIN Within(log, b) \subseteq 1 .. Len(log)
         /\ \A n \in DOMAIN Within(log, b) : Within(log, b)[n] = log[n].instr
BY AsksType DEF Within

\* A call that gives no instruction leaves every block as it is.
LEMMA WithinStays ==
  ASSUME NEW log, IsList(log), NEW c, c.call # "instr", NEW b
  PROVE  Within(Append(log, c), b) = Within(log, b)
<1> DEFINE more == Append(log, c)
           P == { k \in Asks(log, "instr") : IsCurrent(log, k, b) }
           Q == { k \in Asks(more, "instr") : IsCurrent(more, k, b) }
<1>1. Longer(more, log, c)
  BY ListAppend
<1>2. Asks(more, "instr") = Asks(log, "instr")
  <2>1. Asks(more, "instr") = Asks(log, "instr") \cup {}
    BY AsksMore
  <2> QED
    BY <2>1
<1>3. Len(log) \in Nat /\ Asks(log, "instr") \subseteq 1 .. Len(log)
  BY AsksType
<1>4. \A k \in Asks(log, "instr") : IsCurrent(more, k, b) <=> IsCurrent(log, k, b)
  BY <1>3, CurrentStays
<1>5. Q = P
  BY <1>2, <1>4
<1> HIDE DEF more
<1>6. \A k \in P : more[k] = log[k]
  BY <1>1, <1>3 DEF Longer
<1>7. [k \in Q |-> more[k].instr] = [k \in P |-> log[k].instr]
  BY <1>5, <1>6
<1> QED
  BY <1>7 DEF Within, more

\* w has one value more than v, at position n.
Grows(w, v, n, x) ==
  DOMAIN w = DOMAIN v \cup {n} /\ (\A k \in DOMAIN v : w[k] = v[k]) /\ w[n] = x

\* An instruction is one more of the current block.
LEMMA WithinMore ==
  ASSUME NEW log, IsList(log), NEW c, c.call = "instr", NEW current, AtEnd(log, current), NEW b
  PROVE  IF b = current THEN Grows(Within(Append(log, c), b), Within(log, b), Len(log) + 1, c.instr)
                        ELSE Within(Append(log, c), b) = Within(log, b)
<1> DEFINE more == Append(log, c)
           P == { k \in Asks(log, "instr") : IsCurrent(log, k, b) }
           Q == { k \in Asks(more, "instr") : IsCurrent(more, k, b) }
           m == Len(log) + 1
<1>1. Longer(more, log, c)
  BY ListAppend
<1>2. Asks(more, "instr") = Asks(log, "instr") \cup {m}
  BY AsksMore
<1>3. Len(log) \in Nat /\ Asks(log, "instr") \subseteq 1 .. Len(log)
  BY AsksType
<1>4. \A k \in Asks(log, "instr") : IsCurrent(more, k, b) <=> IsCurrent(log, k, b)
  BY <1>3, CurrentStays
<1>5. IsCurrent(more, m, b) <=> IsCurrent(log, m, b)
  BY <1>3, CurrentStays
<1>6. IsCurrent(log, m, b) <=> b = current
  BY OneCurrent DEF AtEnd
<1> HIDE DEF m
<1>7. Q = P \cup (IF b = current THEN {m} ELSE {})
  BY <1>2, <1>4, <1>5, <1>6
<1>8. (\A k \in P : more[k] = log[k]) /\ more[m] = c
  <2> HIDE DEF more
  <2> QED
    BY <1>1, <1>3 DEF Longer, m
<1>9. m \notin P
  BY <1>3 DEF m
<1>10. Within(more, b) = [k \in Q |-> more[k].instr] /\ Within(log, b) = [k \in P |-> log[k].instr]
  BY DEF Within
<1> HIDE DEF more, P, Q
<1>11. CASE b # current
  <2>1. Q = P
    BY <1>7, <1>11
  <2>2. [k \in Q |-> more[k].instr] = [k \in P |-> log[k].instr]
    BY <1>8, <2>1
  <2> QED
    BY <1>10, <1>11, <2>2 DEF more
<1>12. CASE b = current
  <2>1. Q = P \cup {m}
    BY <1>7, <1>12
  <2>2. /\ DOMAIN Within(more, b) = DOMAIN Within(log, b) \cup {m}
        /\ \A n \in DOMAIN Within(log, b) : Within(more, b)[n] = Within(log, b)[n]
        /\ Within(more, b)[m] = c.instr
    BY <1>8, <1>10, <2>1
  <2> QED
    BY <1>12, <2>2 DEF more, m, Grows
<1> QED
  BY <1>11, <1>12

-----------------------------------------------------------------------------
(* The current block after a call *)

\* Behind the last position of a log are all its calls.
LEMMA BeforeEnd ==
  ASSUME NEW log, IsList(log), NEW call
  PROVE  Before(Asks(log, call), Len(log) + 1) = Asks(log, call)
<1>1. \A k \in Asks(log, call) : k < Len(log) + 1
  BY AsksType
<1> QED
  BY <1>1 DEF Before

LEMMA AtEndStays ==
  ASSUME NEW log, IsList(log), NEW c, c.call # "switch", NEW b, AtEnd(log, b)
  PROVE  AtEnd(Append(log, c), b)
<1> DEFINE more == Append(log, c)
           S == Asks(log, "switch")
<1>1. Longer(more, log, c)
  BY ListAppend
<1>2. Asks(more, "switch") = S
  <2>1. Asks(more, "switch") = S \cup {}
    BY AsksMore
  <2> QED
    BY <2>1
<1> HIDE DEF more
<1>3. IsList(more)
  BY <1>1 DEF Longer
<1>4. Before(Asks(more, "switch"), Len(more) + 1) = S /\ Before(Asks(log, "switch"), Len(log) + 1) = S
  BY <1>2, <1>3, BeforeEnd
<1>5. \A k \in S : more[k] = log[k]
  BY <1>1, AsksType DEF Longer
<1>6. AtEnd(more, b)
  BY <1>4, <1>5 DEF AtEnd, IsCurrent
<1> QED
  BY <1>6 DEF more

LEMMA AtEndSwitches ==
  ASSUME NEW log, IsList(log), NEW c, c.call = "switch"
  PROVE  AtEnd(Append(log, c), c.id)
<1> DEFINE more == Append(log, c)
           S == Asks(log, "switch")
           m == Len(log) + 1
<1>1. Longer(more, log, c)
  BY ListAppend
<1>2. Asks(more, "switch") = S \cup {m}
  BY AsksMore
<1> HIDE DEF more
<1>3. IsList(more) /\ more[m] = c
  BY <1>1 DEF Longer
<1>4. Before(Asks(more, "switch"), Len(more) + 1) = S \cup {m}
  BY <1>2, <1>3, BeforeEnd
<1>5. m \in S \cup {m} /\ \A j \in S \cup {m} : j <= m
  BY AsksType
<1> HIDE DEF m, S
<1>6. AtEnd(more, c.id)
  BY <1>3, <1>4, <1>5 DEF AtEnd, IsCurrent
<1> QED
  BY <1>6 DEF more

-----------------------------------------------------------------------------
(* The parts of a function that a call leaves alone *)

SwitchesKnow(log, f) == \A n \in Asks(log, "switch") : log[n].id \in Blocks(f)

StartAsked(log, f) ==
  /\ log # << >> /\ log[1].call = "create"
  /\ f.name = log[1].name /\ f.args = log[1].ty.args /\ f.rets = log[1].ty.ret

BodiesAsked(log, f) == \A b \in Blocks(f) : Lists(f.body[b], Within(log, b))

LEMMA StartStays ==
  ASSUME NEW log, IsList(log), NEW c, NEW f, NEW g, StartAsked(log, f),
         g.name = f.name, g.args = f.args, g.rets = f.rets
  PROVE  StartAsked(Append(log, c), g)
<1> DEFINE more == Append(log, c)
<1>1. Longer(more, log, c)
  BY ListAppend
<1> HIDE DEF more
<1>2. 1 \in 1 .. Len(log)
  <2>1. log # << >>
    BY DEF StartAsked
  <2> QED
    BY <2>1 DEF IsList
<1>3. more # << >> /\ more[1] = log[1]
  BY <1>1, <1>2 DEF Longer
<1>4. StartAsked(more, g)
  BY <1>3 DEF StartAsked
<1> QED
  BY <1>4 DEF more

\* The calls of one kind are the same after one of another kind.
LEMMA OtherCalls ==
  ASSUME NEW log, IsList(log), NEW c, NEW call, c.call # call
  PROVE  /\ Asks(Append(log, c), call) = Asks(log, call)
         /\ \A n \in Asks(log, call) : Append(log, c)[n] = log[n]
<1> DEFINE more == Append(log, c)
<1>1. Longer(more, log, c)
  BY ListAppend
<1>2. Asks(more, call) = Asks(log, call) \cup {}
  BY AsksMore
<1> HIDE DEF more
<1>3. Asks(more, call) = Asks(log, call)
  BY <1>2
<1>4. \A n \in Asks(log, call) : more[n] = log[n]
  BY <1>1, AsksType DEF Longer
<1> QED
  BY <1>3, <1>4 DEF more

\* One more call of a kind, and the others of it as before.
LEMMA OneMoreCall ==
  ASSUME NEW log, IsList(log), NEW c, NEW call, c.call = call
  PROVE  /\ Asks(Append(log, c), call) = Asks(log, call) \cup {Len(log) + 1}
         /\ \A n \in Asks(log, call) : Append(log, c)[n] = log[n]
         /\ Append(log, c)[Len(log) + 1] = c
<1> DEFINE more == Append(log, c)
<1>1. Longer(more, log, c)
  BY ListAppend
<1>2. Asks(more, call) = Asks(log, call) \cup {Len(log) + 1}
  BY AsksMore
<1> HIDE DEF more
<1>3. \A n \in Asks(log, call) : more[n] = log[n]
  BY <1>1, AsksType DEF Longer
<1>4. more[Len(log) + 1] = c
  BY <1>1 DEF Longer
<1> QED
  BY <1>2, <1>3, <1>4 DEF more

LEMMA SwitchesStay ==
  ASSUME NEW log, IsList(log), NEW c, NEW f, NEW g, SwitchesKnow(log, f),
         Blocks(f) \subseteq Blocks(g), c.call = "switch" => c.id \in Blocks(g)
  PROVE  SwitchesKnow(Append(log, c), g)
<1> DEFINE more == Append(log, c)
<1>1. \A n \in Asks(log, "switch") : log[n].id \in Blocks(g)
  BY DEF SwitchesKnow
<1>2. CASE c.call = "switch"
  <2>1. /\ Asks(more, "switch") = Asks(log, "switch") \cup {Len(log) + 1}
        /\ \A n \in Asks(log, "switch") : more[n] = log[n]
        /\ more[Len(log) + 1] = c
    <3>1. \A call : c.call = call =>
            /\ Asks(more, call) = Asks(log, call) \cup {Len(log) + 1}
            /\ \A n \in Asks(log, call) : more[n] = log[n]
            /\ more[Len(log) + 1] = c
      BY OneMoreCall, Zenon
    <3> HIDE DEF more
    <3> QED
      BY <1>2, <3>1
  <2> HIDE DEF more
  <2>2. \A n \in Asks(more, "switch") : more[n].id \in Blocks(g)
    BY <1>1, <1>2, <2>1
  <2> QED
    BY <2>2 DEF SwitchesKnow, more
<1>3. CASE c.call # "switch"
  <2>1. /\ Asks(more, "switch") = Asks(log, "switch")
        /\ \A n \in Asks(log, "switch") : more[n] = log[n]
    BY <1>3, OtherCalls
  <2> HIDE DEF more
  <2>2. \A n \in Asks(more, "switch") : more[n].id \in Blocks(g)
    BY <1>1, <2>1
  <2> QED
    BY <2>2 DEF SwitchesKnow, more
<1> QED
  BY <1>2, <1>3

LEMMA LocalsStay ==
  ASSUME NEW log, IsList(log), NEW c, c.call # "local", NEW f, NEW g, LocalsAsked(log, f),
         g.args = f.args, g.locals = f.locals
  PROVE  LocalsAsked(Append(log, c), g)
<1>1. /\ Asks(Append(log, c), "local") = Asks(log, "local")
      /\ \A n \in Asks(log, "local") : Append(log, c)[n] = log[n]
  BY OtherCalls
<1> QED
  BY <1>1 DEF LocalsAsked

LEMMA BlocksStay ==
  ASSUME NEW log, IsList(log), NEW c, c.call # "block", NEW f, NEW g, BlocksAsked(log, f),
         g.tag = f.tag, g.ret = f.ret, g.rets = f.rets
  PROVE  BlocksAsked(Append(log, c), g)
<1>1. /\ Asks(Append(log, c), "block") = Asks(log, "block")
      /\ \A n \in Asks(log, "block") : Append(log, c)[n] = log[n]
  BY OtherCalls
<1> DEFINE more == Append(log, c)
           S == Asks(log, "block")
<1>2. Asks(more, "block") = S /\ \A n \in S : more[n] = log[n]
  BY <1>1
<1>3. /\ Blocks(f) = {Entry} \cup { log[n].id : n \in S }
      /\ f.tag[Entry] = "Main" /\ f.ret[Entry] = f.rets
      /\ \A n \in S :
           /\ f.tag[log[n].id] = log[n].tag /\ f.ret[log[n].id] = log[n].ret
           /\ log[n].id # Entry /\ \A k \in S : log[k].id = log[n].id => k = n
  BY DEF BlocksAsked
<1>4. Blocks(g) = Blocks(f)
  BY DEF Blocks
<1> HIDE DEF more, S
<1>5. { more[n].id : n \in S } = { log[n].id : n \in S }
  BY <1>2
<1>6. Blocks(g) = {Entry} \cup { more[n].id : n \in S }
  BY <1>3, <1>4, <1>5
<1>7. \A n \in S :
        /\ g.tag[more[n].id] = more[n].tag /\ g.ret[more[n].id] = more[n].ret
        /\ more[n].id # Entry /\ \A k \in S : more[k].id = more[n].id => k = n
  BY <1>2, <1>3
<1>8. BlocksAsked(more, g)
  BY <1>2, <1>3, <1>6, <1>7 DEF BlocksAsked
<1> QED
  BY <1>8 DEF more

LEMMA BodiesStay ==
  ASSUME NEW log, IsList(log), NEW c, c.call # "instr", NEW f, NEW g, BodiesAsked(log, f),
         g.tag = f.tag, g.body = f.body
  PROVE  BodiesAsked(Append(log, c), g)
<1>1. \A b : Within(Append(log, c), b) = Within(log, b)
  BY WithinStays
<1> QED
  BY <1>1 DEF BodiesAsked, Blocks

-----------------------------------------------------------------------------
(* A builder and the log of its calls *)

BuilderFields == {"name", "argc", "locals", "rets", "tag", "ret", "body", "next", "current"}

\* What a builder has in its fields, for the operations on it.
Sound(bd) ==
  /\ DOMAIN bd = BuilderFields
  /\ IsList(bd.locals) /\ bd.argc \in 0 .. Len(bd.locals)
  /\ bd.next \in Nat /\ \A b \in Blocks(bd) : b \in Nat /\ b < bd.next
  /\ DOMAIN bd.ret = Blocks(bd) /\ DOMAIN bd.body = Blocks(bd)
  /\ \A b \in Blocks(bd) : IsList(bd.body[b])
  /\ Entry \in Blocks(bd) /\ bd.current \in Blocks(bd)

\* What has been built is what the calls so far ask for.
Built(log, bd) ==
  /\ IsList(log) /\ Sound(bd)
  /\ AtEnd(log, bd.current) /\ SwitchesKnow(log, bd)
  /\ StartAsked(log, Finished(bd)) /\ LocalsAsked(log, Finished(bd))
  /\ BlocksAsked(log, Finished(bd)) /\ BodiesAsked(log, Finished(bd))

\* The function of a builder has the builder's parts.
LEMMA FinishedParts ==
  ASSUME NEW bd
  PROVE  /\ Finished(bd).name = bd.name /\ Finished(bd).rets = bd.rets
         /\ Finished(bd).args = SubSeq(bd.locals, 1, bd.argc)
         /\ Finished(bd).locals = bd.locals /\ Finished(bd).tag = bd.tag
         /\ Finished(bd).ret = bd.ret /\ Finished(bd).body = bd.body
BY DEF Finished

\* A builder is behind its handle: the handle is neither unused nor taken.
LEMMA SoundIsOpen ==
  ASSUME NEW bd, Sound(bd)
  PROVE  bd # Unused /\ bd # Taken
<1>1. "argc" \in DOMAIN bd
  BY DEF Sound, BuilderFields
<1>2. "argc" \notin DOMAIN Unused /\ "argc" \notin DOMAIN Taken
  BY DEF Unused, Taken
<1> QED
  BY <1>1, <1>2

\* A reference to an argument changes nothing.
LEMMA ArgBuilt ==
  ASSUME NEW log, NEW bd, Built(log, bd), NEW c, c.call = "arg"
  PROVE  Built(Append(log, c), bd)
<1> DEFINE more == Append(log, c)
           f == Finished(bd)
<1>1. IsList(log) /\ IsList(more)
  BY ListAppend DEF Built, Longer
<1>2. c.call # "switch" /\ c.call # "local" /\ c.call # "block" /\ c.call # "instr"
  OBVIOUS
<1>3. AtEnd(more, bd.current)
  BY <1>1, <1>2, AtEndStays DEF Built
<1>4. SwitchesKnow(more, bd)
  BY <1>1, <1>2, SwitchesStay DEF Built
<1>5. StartAsked(more, f)
  BY <1>1, StartStays DEF Built
<1>6. LocalsAsked(more, f)
  BY <1>1, <1>2, LocalsStay DEF Built
<1>7. BlocksAsked(more, f)
  BY <1>1, <1>2, BlocksStay DEF Built
<1>8. BodiesAsked(more, f)
  BY <1>1, <1>2, BodiesStay DEF Built
<1> QED
  BY <1>1, <1>3, <1>4, <1>5, <1>6, <1>7, <1>8 DEF Built

\* The block switched to is current.
LEMMA SwitchBuilt ==
  ASSUME NEW log, NEW bd, Built(log, bd), NEW c, c.call = "switch", HasBlock(bd, c.id)
  PROVE  Built(Append(log, c), Switched(bd, c.id))
<1> DEFINE more == Append(log, c)
           f == Finished(bd)
           bd2 == Switched(bd, c.id)
           g == Finished(bd2)
<1>1. IsList(log) /\ IsList(more)
  BY ListAppend DEF Built, Longer
<1>2. c.call # "local" /\ c.call # "block" /\ c.call # "instr"
  OBVIOUS
<1>3. DOMAIN bd = BuilderFields
  BY DEF Built, Sound
<1>4. /\ DOMAIN bd2 = BuilderFields /\ bd2.current = c.id
      /\ bd2.name = bd.name /\ bd2.argc = bd.argc /\ bd2.locals = bd.locals /\ bd2.rets = bd.rets
      /\ bd2.tag = bd.tag /\ bd2.ret = bd.ret /\ bd2.body = bd.body /\ bd2.next = bd.next
  BY <1>3 DEF Switched, BuilderFields
<1> HIDE DEF bd2
<1>5. /\ g.name = f.name /\ g.args = f.args /\ g.locals = f.locals /\ g.rets = f.rets
      /\ g.tag = f.tag /\ g.ret = f.ret /\ g.body = f.body
  BY <1>4, FinishedParts
<1>6. Blocks(bd2) = Blocks(bd) /\ c.id \in Blocks(bd2)
  BY <1>4 DEF Blocks, HasBlock
<1> HIDE DEF f, g, more
<1>7. Sound(bd2)
  BY <1>4, <1>6 DEF Built, Sound
<1>8. AtEnd(more, bd2.current)
  BY <1>1, <1>4, AtEndSwitches DEF more
<1>9. SwitchesKnow(more, bd2)
  BY <1>1, <1>6, SwitchesStay DEF Built, more
<1>10. StartAsked(more, g)
  BY <1>1, <1>5, StartStays DEF Built, more, f
<1>11. LocalsAsked(more, g)
  BY <1>1, <1>2, <1>5, LocalsStay DEF Built, more, f
<1>12. BlocksAsked(more, g)
  BY <1>1, <1>2, <1>5, BlocksStay DEF Built, more, f
<1>13. BodiesAsked(more, g)
  BY <1>1, <1>2, <1>5, BodiesStay DEF Built, more, f
<1>14. Built(more, bd2)
  BY <1>1, <1>7, <1>8, <1>9, <1>10, <1>11, <1>12, <1>13 DEF Built, g
<1> QED
  BY <1>14 DEF more, bd2

\* An instruction goes to the end of the current block.
LEMMA InstrBuilt ==
  ASSUME NEW log, NEW bd, Built(log, bd), NEW c, c.call = "instr"
  PROVE  Built(Append(log, c), WithInstr(bd, c.instr))
<1> DEFINE more == Append(log, c)
           f == Finished(bd)
           bd2 == WithInstr(bd, c.instr)
           g == Finished(bd2)
           at == bd.current
<1>1. IsList(log) /\ IsList(more)
  BY ListAppend DEF Built, Longer
<1>2. c.call # "switch" /\ c.call # "local" /\ c.call # "block"
  OBVIOUS
<1>3. DOMAIN bd = BuilderFields /\ DOMAIN bd.body = Blocks(bd) /\ at \in Blocks(bd)
  BY DEF Built, Sound
<1>4. /\ DOMAIN bd2 = BuilderFields /\ bd2.current = bd.current
      /\ bd2.name = bd.name /\ bd2.argc = bd.argc /\ bd2.locals = bd.locals /\ bd2.rets = bd.rets
      /\ bd2.tag = bd.tag /\ bd2.ret = bd.ret /\ bd2.next = bd.next
  BY <1>3 DEF WithInstr, BuilderFields
<1>a. bd2.body = [bd.body EXCEPT ![at] = Append(bd.body[at], c.instr)]
  BY <1>3 DEF WithInstr, BuilderFields
<1> HIDE DEF bd2
<1>5. /\ g.name = f.name /\ g.args = f.args /\ g.locals = f.locals /\ g.rets = f.rets
      /\ g.tag = f.tag /\ g.ret = f.ret /\ f.body = bd.body /\ g.body = bd2.body /\ f.tag = bd.tag
  BY <1>4, FinishedParts
<1>6. Blocks(bd2) = Blocks(bd) /\ Blocks(f) = Blocks(bd) /\ Blocks(g) = Blocks(bd)
  BY <1>4, <1>5 DEF Blocks
<1> HIDE DEF f, g, more, at
<1>7. /\ DOMAIN bd2.body = Blocks(bd)
      /\ bd2.body[at] = Append(bd.body[at], c.instr)
      /\ \A b \in Blocks(bd) : b # at => bd2.body[b] = bd.body[b]
  BY <1>3, <1>a
<1>8. \A b \in Blocks(bd) : IsList(bd.body[b])
  BY DEF Built, Sound
<1>b. IsList(bd2.body[at])
  <2>1. IsList(bd.body[at])
    BY <1>3, <1>8
  <2>2. Longer(Append(bd.body[at], c.instr), bd.body[at], c.instr)
    BY <2>1, ListAppend
  <2> QED
    BY <1>7, <2>2 DEF Longer
<1>9. \A b \in Blocks(bd) : IsList(bd2.body[b])
  BY <1>7, <1>8, <1>b
<1>10. Sound(bd2)
  BY <1>4, <1>6, <1>7, <1>9 DEF Built, Sound
<1>11. AtEnd(more, bd2.current)
  BY <1>1, <1>2, <1>4, AtEndStays DEF Built, more
<1>12. SwitchesKnow(more, bd2)
  BY <1>1, <1>2, <1>6, SwitchesStay DEF Built, more
<1>13. StartAsked(more, g)
  BY <1>1, <1>5, StartStays DEF Built, more, f
<1>14. LocalsAsked(more, g)
  BY <1>1, <1>2, <1>5, LocalsStay DEF Built, more, f
<1>15. BlocksAsked(more, g)
  BY <1>1, <1>2, <1>5, BlocksStay DEF Built, more, f
<1>16. \A b \in Blocks(bd) : Lists(bd.body[b], Within(log, b))
  BY <1>5, <1>6 DEF Built, BodiesAsked, f
<1>17. AtEnd(log, at)
  BY DEF Built, at
<1>c. \A b : IF b = at THEN Grows(Within(more, b), Within(log, b), Len(log) + 1, c.instr)
                       ELSE Within(more, b) = Within(log, b)
  BY <1>1, <1>17, WithinMore DEF more
<1>18. ASSUME NEW b \in Blocks(bd)
       PROVE  Lists(bd2.body[b], Within(more, b))
  <2>1. CASE b # at
    <3>1. Within(more, b) = Within(log, b)
      BY <1>c, <2>1
    <3> QED
      BY <1>7, <1>16, <2>1, <3>1
  <2>2. CASE b = at
    <3> DEFINE v == Within(log, at)
               w == Within(more, at)
    <3>1. /\ DOMAIN w = DOMAIN v \cup {Len(log) + 1} /\ \A n \in DOMAIN v : w[n] = v[n]
          /\ w[Len(log) + 1] = c.instr
      BY <1>c DEF Grows
    <3>2. Len(log) \in Nat
      BY <1>1, AsksType
    <3>3. DOMAIN v \subseteq 1 .. Len(log)
      BY <1>1, WithinType
    <3>4. IsList(bd.body[at]) /\ Lists(bd.body[at], v)
      BY <1>3, <1>8, <1>16
    <3> DEFINE l == Len(log)
               xs == bd.body[at]
    <3>7. /\ l \in Nat /\ DOMAIN v \subseteq 1 .. l /\ IsList(xs) /\ Lists(xs, v)
          /\ DOMAIN w = DOMAIN v \cup {l + 1} /\ \A n \in DOMAIN v : w[n] = v[n]
      BY <3>1, <3>2, <3>3, <3>4
    <3> HIDE DEF v, w, l, xs
    <3>5. Lists(Append(xs, w[l + 1]), w)
      BY <3>7, ListsMore, Zenon
    <3>6. Lists(bd2.body[at], w)
      BY <1>7, <3>1, <3>5 DEF l, xs
    <3> QED
      BY <2>2, <3>6 DEF w
  <2> QED
    BY <2>1, <2>2
<1>19. BodiesAsked(more, g)
  BY <1>5, <1>6, <1>18 DEF BodiesAsked
<1>20. Built(more, bd2)
  BY <1>1, <1>10, <1>11, <1>12, <1>13, <1>14, <1>15, <1>19 DEF Built, g
<1> QED
  BY <1>20 DEF more, bd2

\* The beginning of a list is that of a longer one.
LEMMA BeginningStays ==
  ASSUME NEW s, IsList(s), NEW x, NEW n \in 0 .. Len(s)
  PROVE  /\ SubSeq(Append(s, x), 1, n) = SubSeq(s, 1, n)
         /\ Len(SubSeq(s, 1, n)) = n /\ \A k \in 1 .. n : SubSeq(s, 1, n)[k] = s[k]
<1>1. PICK S : s \in Seq(S)
  BY DEF IsList
<1> DEFINE t == Append(s, x)
<1>2. Longer(t, s, x)
  BY ListAppend
<1>3. Len(s) \in Nat /\ n \in Nat /\ n <= Len(s)
  BY <1>1
<1> HIDE DEF t
<1>4. \A k \in 1 .. n : t[k] = s[k]
  BY <1>2, <1>3 DEF Longer
<1>5. SubSeq(t, 1, n) = [k \in 1 .. n |-> t[k]] /\ SubSeq(s, 1, n) = [k \in 1 .. n |-> s[k]]
  BY <1>1, <1>2, <1>3 DEF Longer, IsList
<1>6. SubSeq(t, 1, n) = SubSeq(s, 1, n)
  BY <1>4, <1>5
<1>7. \A k \in 1 .. n : s[k] \in S
  BY <1>1, <1>3
<1>8. Len(SubSeq(s, 1, n)) = n
  BY <1>3, <1>7, SubSeqProperties
<1> QED
  BY <1>5, <1>6, <1>8 DEF t

\* A local is behind those there are, where its reference says.
LEMMA LocalBuilt ==
  ASSUME NEW log, NEW bd, Built(log, bd), NEW c, c.call = "local", c.ref = NextLocal(bd)
  PROVE  Built(Append(log, c), WithLocal(bd, c.ty))
<1> DEFINE more == Append(log, c)
           f == Finished(bd)
           bd2 == WithLocal(bd, c.ty)
           g == Finished(bd2)
           P == Asks(log, "local")
           Q == Asks(more, "local")
           m == Len(log) + 1
<1>1. IsList(log) /\ IsList(more)
  BY ListAppend DEF Built, Longer
<1>2. c.call # "switch" /\ c.call # "instr" /\ c.call # "block"
  OBVIOUS
<1>3. DOMAIN bd = BuilderFields /\ IsList(bd.locals) /\ bd.argc \in 0 .. Len(bd.locals)
  BY DEF Built, Sound
<1>4. /\ DOMAIN bd2 = BuilderFields /\ bd2.current = bd.current
      /\ bd2.name = bd.name /\ bd2.argc = bd.argc /\ bd2.rets = bd.rets
      /\ bd2.tag = bd.tag /\ bd2.ret = bd.ret /\ bd2.next = bd.next /\ bd2.body = bd.body
      /\ bd2.locals = Append(bd.locals, c.ty)
  BY <1>3 DEF WithLocal, BuilderFields
<1> HIDE DEF bd2
<1>5. Longer(bd2.locals, bd.locals, c.ty)
  BY <1>3, <1>4, ListAppend
<1>6. SubSeq(bd2.locals, 1, bd.argc) = SubSeq(bd.locals, 1, bd.argc) /\ Len(SubSeq(bd.locals, 1, bd.argc)) = bd.argc
  BY <1>3, <1>4, BeginningStays
<1>7. /\ g.name = f.name /\ g.args = f.args /\ g.rets = f.rets /\ Len(f.args) = bd.argc
      /\ g.tag = f.tag /\ g.ret = f.ret /\ f.body = g.body
      /\ f.locals = bd.locals /\ g.locals = bd2.locals
  BY <1>4, <1>6, FinishedParts
<1>8. Blocks(bd2) = Blocks(bd)
  BY <1>4 DEF Blocks
<1> HIDE DEF f, g, more, P, Q, m
<1>9. IsList(bd2.locals) /\ bd2.argc \in 0 .. Len(bd2.locals)
  BY <1>3, <1>4, <1>5 DEF Longer
<1>10. Sound(bd2)
  BY <1>4, <1>8, <1>9 DEF Built, Sound
<1>11. AtEnd(more, bd2.current)
  BY <1>1, <1>2, <1>4, AtEndStays DEF Built, more
<1>12. SwitchesKnow(more, bd2)
  BY <1>1, <1>2, <1>8, SwitchesStay DEF Built, more
<1>13. StartAsked(more, g)
  BY <1>1, <1>7, StartStays DEF Built, more, f
<1>14. BlocksAsked(more, g)
  BY <1>1, <1>2, <1>7, BlocksStay DEF Built, more, f
<1>15. BodiesAsked(more, g)
  BY <1>1, <1>2, <1>7, BodiesStay DEF Built, more, f
<1>a. \A call : c.call = call =>
        /\ Asks(more, call) = Asks(log, call) \cup {m}
        /\ \A n \in Asks(log, call) : more[n] = log[n]
        /\ more[m] = c
  BY <1>1, OneMoreCall, Zenon DEF more, m
<1>16. /\ Q = P \cup {m} /\ \A n \in P : more[n] = log[n]
       /\ more[m] = c
  BY <1>a DEF P, Q
<1>17. Len(log) \in Nat /\ P \subseteq 1 .. Len(log)
  BY <1>1, AsksType DEF P
<1>18. /\ Before(Q, m) = P /\ \A n \in P : Before(Q, n) = Before(P, n)
       /\ IsFiniteSet(P) /\ Cardinality(P) \in Nat /\ Cardinality(Q) = Cardinality(P) + 1
  <2> DEFINE l == Len(log)
  <2>1. l \in Nat /\ P \in SUBSET (1 .. l) /\ Q = P \cup {l + 1} /\ m = l + 1
    BY <1>16, <1>17 DEF m
  <2> HIDE DEF l
  <2>2. /\ Before(Q, l + 1) = P /\ \A n \in P : Before(Q, n) = Before(P, n)
        /\ IsFiniteSet(P) /\ Cardinality(P) \in Nat /\ Cardinality(Q) = Cardinality(P) + 1
    BY <2>1, BeforeNext DEF OneBehind
  <2> QED
    BY <2>1, <2>2
<1>19. /\ Len(f.locals) = Len(f.args) + Cardinality(P)
       /\ \A n \in 1 .. Len(f.args) : f.locals[n] = f.args[n]
       /\ \A n \in P : log[n].ref = Len(f.args) + Cardinality(Before(P, n)) /\ f.locals[log[n].ref + 1] = log[n].ty
  BY DEF Built, LocalsAsked, f, P
<1>20. /\ Len(f.args) \in Nat /\ Len(f.locals) \in Nat /\ Len(g.locals) = Len(f.locals) + 1
       /\ g.locals[Len(f.locals) + 1] = c.ty
       /\ \A k \in 1 .. Len(f.locals) : g.locals[k] = f.locals[k]
  BY <1>3, <1>5, <1>7 DEF Longer
<1>21. Len(g.locals) = Len(g.args) + Cardinality(Q)
  BY <1>7, <1>18, <1>19, <1>20
<1>22. \A n \in 1 .. Len(g.args) : g.locals[n] = g.args[n]
  <2>1. Len(f.args) <= Len(f.locals)
    BY <1>18, <1>19, <1>20
  <2> QED
    BY <1>7, <1>19, <1>20, <2>1
<1>23. ASSUME NEW n \in Q
       PROVE  more[n].ref = Len(g.args) + Cardinality(Before(Q, n)) /\ g.locals[more[n].ref + 1] = more[n].ty
  <2>1. CASE n \in P
    <3>1. P \subseteq Nat
      BY <1>17
    <3>2. /\ Cardinality(Before(P, n)) \in Nat
          /\ Cardinality(Before(P, n)) + 1 <= Cardinality(P)
      BY <1>18, <2>1, <3>1, BeforeCounts
    <3>3. more[n] = log[n] /\ Before(Q, n) = Before(P, n)
      BY <1>16, <1>18, <2>1
    <3>4. log[n].ref = Len(f.args) + Cardinality(Before(P, n)) /\ f.locals[log[n].ref + 1] = log[n].ty
      BY <1>19, <2>1
    <3> DEFINE a == Len(f.args)
               k == Cardinality(Before(P, n))
               p == Cardinality(P)
    <3>6. a \in Nat /\ k \in Nat /\ p \in Nat /\ k + 1 <= p /\ Len(f.locals) = a + p /\ log[n].ref = a + k
      BY <1>18, <1>19, <1>20, <3>2, <3>4
    <3> HIDE DEF a, k, p
    <3>5. log[n].ref + 1 \in 1 .. Len(f.locals)
      BY <3>6
    <3> QED
      BY <1>7, <1>20, <3>3, <3>4, <3>5
  <2>2. CASE n = m
    <3>1. c.ref = Len(f.locals)
      BY <1>7 DEF NextLocal
    <3> QED
      BY <1>7, <1>16, <1>18, <1>19, <1>20, <2>2, <3>1
  <2> QED
    BY <1>16, <2>1, <2>2
<1>24. LocalsAsked(more, g)
  BY <1>21, <1>22, <1>23 DEF LocalsAsked, Q
<1>25. Built(more, bd2)
  BY <1>1, <1>10, <1>11, <1>12, <1>13, <1>14, <1>15, <1>24 DEF Built, g
<1> QED
  BY <1>25 DEF more, bd2

\* No instruction is given to a block that there is not yet.
LEMMA NothingWithin ==
  ASSUME NEW log, NEW bd, Built(log, bd), NEW id, id \notin Blocks(bd)
  PROVE  Within(log, id) = [n \in {} |-> log[n].instr]
<1> DEFINE P == { k \in Asks(log, "instr") : IsCurrent(log, k, id) }
<1>1. \A n \in Asks(log, "switch") : log[n].id \in Blocks(bd)
  BY DEF Built, SwitchesKnow
<1>2. Entry # id
  BY DEF Built, Sound
<1>3. ASSUME NEW k \in P
      PROVE  FALSE
  <2>1. IsCurrent(log, k, id)
    OBVIOUS
  <2>2. \A n \in Before(Asks(log, "switch"), k) : log[n].id # id
    BY <1>1 DEF Before
  <2> QED
    BY <1>2, <2>1, <2>2 DEF IsCurrent
<1>4. P = {}
  BY <1>3
<1> QED
  BY <1>4 DEF Within

\* A block is new, empty and not the current one.
LEMMA BlockBuilt ==
  ASSUME NEW log, NEW bd, Built(log, bd), NEW c, c.call = "block", c.id = NextBlock(bd)
  PROVE  Built(Append(log, c), WithBlock(bd, c.ret, c.tag))
<1> DEFINE more == Append(log, c)
           f == Finished(bd)
           bd2 == WithBlock(bd, c.ret, c.tag)
           g == Finished(bd2)
           P == Asks(log, "block")
           Q == Asks(more, "block")
           m == Len(log) + 1
           B == Blocks(bd)
<1>1. IsList(log) /\ IsList(more)
  BY ListAppend DEF Built, Longer
<1>2. c.call # "switch" /\ c.call # "instr" /\ c.call # "local"
  OBVIOUS
<1>3. /\ DOMAIN bd = BuilderFields /\ DOMAIN bd.ret = B /\ DOMAIN bd.body = B /\ DOMAIN bd.tag = B
      /\ bd.next \in Nat /\ \A b \in B : b \in Nat /\ b < bd.next
  BY DEF Built, Sound, Blocks
<1>4. /\ DOMAIN bd2 = BuilderFields /\ bd2.current = bd.current
      /\ bd2.name = bd.name /\ bd2.argc = bd.argc /\ bd2.rets = bd.rets
      /\ bd2.locals = bd.locals /\ bd2.next = bd.next + 1
  BY <1>3 DEF WithBlock, BuilderFields
<1>5. bd2.tag = Insert(bd.tag, c.id, c.tag) /\ bd2.ret = Insert(bd.ret, c.id, c.ret)
      /\ bd2.body = Insert(bd.body, c.id, << >>)
  BY <1>3 DEF WithBlock, BuilderFields, NextBlock
<1> HIDE DEF bd2
<1>6. c.id \notin B /\ c.id \in Nat /\ c.id = bd.next
  BY <1>3 DEF NextBlock
<1>7. /\ DOMAIN bd2.tag = B \cup {c.id} /\ bd2.tag[c.id] = c.tag /\ \A b \in B : bd2.tag[b] = bd.tag[b]
      /\ DOMAIN bd2.ret = B \cup {c.id} /\ bd2.ret[c.id] = c.ret /\ \A b \in B : bd2.ret[b] = bd.ret[b]
      /\ DOMAIN bd2.body = B \cup {c.id} /\ bd2.body[c.id] = << >> /\ \A b \in B : bd2.body[b] = bd.body[b]
  <2> HIDE DEF B
  <2> QED
    BY <1>3, <1>5, <1>6 DEF Insert
<1>8. Blocks(bd2) = B \cup {c.id}
  BY <1>7 DEF Blocks
<1>9. /\ g.name = f.name /\ g.args = f.args /\ g.rets = f.rets /\ g.locals = f.locals
      /\ g.tag = bd2.tag /\ g.ret = bd2.ret /\ g.body = bd2.body
      /\ f.tag = bd.tag /\ f.ret = bd.ret /\ f.body = bd.body
  BY <1>4, FinishedParts
<1>10. Blocks(g) = B \cup {c.id} /\ Blocks(f) = B
  BY <1>7, <1>9 DEF Blocks
<1> HIDE DEF f, g, more, P, Q, m
<1>11. Sound(bd2)
  <2>1. \A b \in B : IsList(bd2.body[b])
    BY <1>7 DEF Built, Sound
  <2>2. IsList(bd2.body[c.id])
    <3>1. << >> \in Seq({})
      OBVIOUS
    <3> QED
      BY <1>7, <3>1 DEF IsList
  <2>3. \A b \in Blocks(bd2) : IsList(bd2.body[b])
    BY <1>8, <2>1, <2>2
  <2>4. bd2.next \in Nat /\ \A b \in Blocks(bd2) : b \in Nat /\ b < bd2.next
    BY <1>3, <1>4, <1>6, <1>8
  <2>5. Entry \in Blocks(bd2) /\ bd2.current \in Blocks(bd2)
    BY <1>4, <1>8 DEF Built, Sound
  <2>6. IsList(bd2.locals) /\ bd2.argc \in 0 .. Len(bd2.locals)
    BY <1>4 DEF Built, Sound
  <2> HIDE DEF B
  <2> QED
    BY <1>4, <1>7, <1>8, <2>3, <2>4, <2>5, <2>6 DEF Sound
<1>12. AtEnd(more, bd2.current)
  BY <1>1, <1>2, <1>4, AtEndStays DEF Built, more
<1>13. SwitchesKnow(more, bd2)
  <2>1. Blocks(bd) \subseteq Blocks(bd2)
    BY <1>8
  <2> QED
    BY <1>1, <1>2, <2>1, SwitchesStay DEF Built, more
<1>14. StartAsked(more, g)
  BY <1>1, <1>9, StartStays DEF Built, more, f
<1>15. LocalsAsked(more, g)
  BY <1>1, <1>2, <1>9, LocalsStay DEF Built, more, f
<1>16. BodiesAsked(more, g)
  <2>1. \A b : Within(more, b) = Within(log, b)
    BY <1>1, <1>2, WithinStays DEF more
  <2>2. \A b \in B : Lists(bd.body[b], Within(log, b))
    BY <1>9, <1>10 DEF Built, BodiesAsked, f
  <2>3. Within(log, c.id) = [n \in {} |-> log[n].instr]
    BY <1>6, NothingWithin
  <2>4. Lists(<< >>, Within(log, c.id))
    <3>1. DOMAIN Within(log, c.id) = {}
      BY <2>3
    <3>2. Len(<< >>) = 0 /\ Cardinality({}) = 0
      BY FS_EmptySet
    <3> QED
      BY <3>1, <3>2 DEF Lists
  <2>5. \A b \in B \cup {c.id} : Lists(g.body[b], Within(more, b))
    <3> HIDE DEF B
    <3> QED
      BY <1>7, <1>9, <2>1, <2>2, <2>4
  <2> QED
    BY <1>10, <2>5 DEF BodiesAsked
<1>17. BlocksAsked(more, g)
  <2>a. \A call : c.call = call =>
          /\ Asks(more, call) = Asks(log, call) \cup {m}
          /\ \A n \in Asks(log, call) : more[n] = log[n]
          /\ more[m] = c
    BY <1>1, OneMoreCall, Zenon DEF more, m
  <2>1. /\ Q = P \cup {m} /\ \A n \in P : more[n] = log[n]
        /\ more[m] = c
    BY <2>a DEF P, Q
  <2>2. /\ B = {Entry} \cup { log[n].id : n \in P }
        /\ f.tag[Entry] = "Main" /\ f.ret[Entry] = f.rets
        /\ \A n \in P :
             /\ f.tag[log[n].id] = log[n].tag /\ f.ret[log[n].id] = log[n].ret
             /\ log[n].id # Entry /\ \A k \in P : log[k].id = log[n].id => k = n
    BY <1>10 DEF Built, BlocksAsked, f, P
  <2> HIDE DEF B
  <2>3. \A n \in P : log[n].id \in B
    BY <2>2
  <2>4. Entry \in B
    BY <2>2
  <2>5. { more[n].id : n \in Q } = { log[n].id : n \in P } \cup {c.id}
    BY <2>1
  <2>6. Blocks(g) = {Entry} \cup { more[n].id : n \in Q }
    BY <1>10, <2>2, <2>5
  <2>7. g.tag[Entry] = "Main" /\ g.ret[Entry] = g.rets
    BY <1>7, <1>9, <2>2, <2>4
  <2>8. ASSUME NEW n \in Q
        PROVE  /\ g.tag[more[n].id] = more[n].tag /\ g.ret[more[n].id] = more[n].ret
               /\ more[n].id # Entry
    <3>1. CASE n \in P
      BY <1>7, <1>9, <2>1, <2>2, <2>3, <3>1
    <3>2. CASE n = m
      BY <1>6, <1>7, <1>9, <2>1, <2>4, <3>2
    <3> QED
      BY <2>1, <3>1, <3>2
  <2>9. ASSUME NEW n \in Q, NEW k \in Q, more[k].id = more[n].id
        PROVE  k = n
    <3>1. \A j \in P : more[j].id \in B /\ more[j].id # c.id
      BY <1>6, <2>1, <2>3
    <3>2. CASE n \in P /\ k \in P
      BY <2>1, <2>2, <2>9, <3>2
    <3> QED
      BY <2>1, <2>9, <3>1, <3>2
  <2> QED
    BY <2>6, <2>7, <2>8, <2>9 DEF BlocksAsked, Q
<1>18. Built(more, bd2)
  BY <1>1, <1>11, <1>12, <1>13, <1>14, <1>15, <1>16, <1>17 DEF Built, g
<1> QED
  BY <1>18 DEF more, bd2

\* A new builder has the arguments, and the entry block with nothing in it.
LEMMA CreateBuilt ==
  ASSUME NEW c, c.call = "create", IsList(c.ty.args)
  PROVE  Built(<< c >>, NewBuilder(c.name, c.ty.args, c.ty.ret))
<1> DEFINE log == << c >>
           args == c.ty.args
           bd == NewBuilder(c.name, args, c.ty.ret)
           f == Finished(bd)
<1>1. /\ DOMAIN bd = BuilderFields /\ bd.current = Entry /\ bd.next = 1
      /\ bd.name = c.name /\ bd.argc = Len(args) /\ bd.rets = c.ty.ret /\ bd.locals = args
  BY DEF NewBuilder, BuilderFields
<1>2. bd.tag = [b \in {Entry} |-> "Main"] /\ bd.ret = [b \in {Entry} |-> c.ty.ret]
      /\ bd.body = [b \in {Entry} |-> << >>]
  BY DEF NewBuilder
<1>3. log \in Seq({c}) /\ Len(log) = 1 /\ log[1] = c /\ log # << >>
  OBVIOUS
<1>4. IsList(log)
  BY <1>3 DEF IsList
<1>5. IsList(args) /\ Len(args) \in Nat
  BY DEF IsList
<1> HIDE DEF log, bd, args
<1>6. f.args = SubSeq(args, 1, Len(args)) /\ SubSeq(args, 1, Len(args)) = args
  <2>1. PICK S : args \in Seq(S)
    BY <1>5 DEF IsList
  <2>2. SubSeq(args, 1, Len(args)) = args
    BY <2>1, SubSeqFull
  <2> QED
    BY <1>1, <2>2, FinishedParts
<1>7. /\ f.name = c.name /\ f.rets = c.ty.ret /\ f.args = args /\ f.locals = args
      /\ f.tag = bd.tag /\ f.ret = bd.ret /\ f.body = bd.body
  BY <1>1, <1>6, FinishedParts
<1> HIDE DEF f
<1>8. Blocks(bd) = {Entry} /\ Blocks(f) = {Entry}
  BY <1>2, <1>7 DEF Blocks
<1>9. \A call : call # "create" => Asks(log, call) = {}
  <2> SUFFICES ASSUME NEW call, call # "create", NEW n \in 1 .. Len(log)
               PROVE  log[n].call # call
    BY DEF Asks
  <2>1. n = 1
    BY <1>3
  <2> QED
    BY <1>3, <2>1
<1>10. Sound(bd)
  <2>1. IsList(<< >>)
    <3>1. << >> \in Seq({})
      OBVIOUS
    <3> QED
      BY <3>1 DEF IsList
  <2>2. \A b \in Blocks(bd) : IsList(bd.body[b])
    BY <1>2, <1>8, <2>1
  <2>3. \A b \in Blocks(bd) : b \in Nat /\ b < bd.next
    BY <1>1, <1>8 DEF Entry
  <2>4. DOMAIN bd.ret = Blocks(bd) /\ DOMAIN bd.body = Blocks(bd)
    BY <1>2, <1>8
  <2>5. IsList(bd.locals) /\ bd.argc \in 0 .. Len(bd.locals)
    BY <1>1, <1>5
  <2> QED
    BY <1>1, <1>8, <2>2, <2>3, <2>4, <2>5 DEF Sound
<1>11. AtEnd(log, bd.current)
  <2>1. Before(Asks(log, "switch"), Len(log) + 1) = {}
    BY <1>9 DEF Before
  <2> QED
    BY <1>1, <2>1 DEF AtEnd, IsCurrent
<1>12. SwitchesKnow(log, bd)
  BY <1>9 DEF SwitchesKnow
<1>13. StartAsked(log, f)
  BY <1>3, <1>7 DEF StartAsked, args
<1>14. LocalsAsked(log, f)
  <2>1. Asks(log, "local") = {} /\ Cardinality({}) = 0
    BY <1>9, FS_EmptySet
  <2>2. Len(f.args) \in Nat /\ f.locals = f.args
    BY <1>5, <1>7
  <2>a. Cardinality(Asks(log, "local")) = 0
    BY <2>1, Zenon
  <2>3. Len(f.locals) = Len(f.args) + Cardinality(Asks(log, "local"))
    BY <2>2, <2>a
  <2> QED
    BY <2>1, <2>2, <2>3 DEF LocalsAsked
<1>15. BlocksAsked(log, f)
  <2>1. Asks(log, "block") = {}
    BY <1>9
  <2>2. { log[n].id : n \in Asks(log, "block") } = {}
    BY <2>1
  <2>3. f.tag[Entry] = "Main" /\ f.ret[Entry] = f.rets
    BY <1>2, <1>7
  <2> QED
    BY <1>8, <2>1, <2>2, <2>3 DEF BlocksAsked
<1>16. BodiesAsked(log, f)
  <2>1. DOMAIN Within(log, Entry) = {}
    BY <1>9 DEF Within
  <2>2. f.body[Entry] = << >> /\ Len(<< >>) = 0 /\ Cardinality({}) = 0
    BY <1>2, <1>7, FS_EmptySet
  <2>3. Lists(f.body[Entry], Within(log, Entry))
    BY <2>1, <2>2 DEF Lists
  <2> QED
    BY <1>8, <2>3 DEF BodiesAsked
<1>17. Built(log, bd)
  BY <1>4, <1>10, <1>11, <1>12, <1>13, <1>14, <1>15, <1>16 DEF Built, f
<1> QED
  BY <1>17 DEF log, bd, args

-----------------------------------------------------------------------------
(* Several builders *)

\* What the calls of a handle ask for is under construction or in the module.
HandleInv(bd, log, made) ==
  \/ bd = Unused /\ log = << >>
  \/ Built(log, bd)
  \/ bd = Taken /\ \E n \in 1 .. Len(made) : AskedFor(log, made[n])

ApiInv ==
  /\ menu \in Menus
  /\ DOMAIN builder = Handles /\ DOMAIN history = Handles
  /\ IsList(functions)
  /\ \A h \in Handles : HandleInv(builder[h], history[h], functions)

LEMMA ApiInitInv == ApiInit => ApiInv
<1> SUFFICES ASSUME ApiInit PROVE ApiInv
  OBVIOUS
<1>1. functions \in Seq({})
  BY DEF ApiInit
<1>2. IsList(functions)
  BY <1>1 DEF IsList
<1> QED
  BY <1>2 DEF ApiInit, ApiInv, HandleInv

\* A handle that is open has a builder made by the calls of its history.
LEMMA OpenIsBuilt ==
  ASSUME ApiInv, NEW h \in Open
  PROVE  h \in Handles /\ Built(history[h], builder[h])
<1>1. h \in Handles /\ builder[h] # Unused /\ builder[h] # Taken
  BY DEF Open
<1> QED
  BY <1>1 DEF ApiInv, HandleInv

\* A call through h, answered, leaves the other handles alone.
LEMMA AnswerInv ==
  ASSUME ApiInv, NEW h \in Handles, NEW c, NEW bd, Answer(h, c, bd),
         Built(Append(history[h], c), bd)
  PROVE  ApiInv'
<1>1. /\ builder' = [builder EXCEPT ![h] = bd]
      /\ history' = [history EXCEPT ![h] = Append(history[h], c)]
      /\ menu' = menu /\ functions' = functions
  BY DEF Answer
<1>2. DOMAIN builder = Handles /\ DOMAIN history = Handles
  BY DEF ApiInv
<1>3. DOMAIN builder' = Handles /\ DOMAIN history' = Handles
  BY <1>1, <1>2
<1>4. ASSUME NEW k \in Handles
      PROVE  HandleInv(builder'[k], history'[k], functions')
  <2>1. CASE k = h
    <3>1. builder'[k] = bd /\ history'[k] = Append(history[h], c)
      BY <1>1, <1>2, <2>1
    <3> QED
      BY <3>1 DEF HandleInv
  <2>2. CASE k # h
    <3>1. builder'[k] = builder[k] /\ history'[k] = history[k]
      BY <1>1, <1>2, <2>2
    <3>2. HandleInv(builder[k], history[k], functions)
      BY DEF ApiInv
    <3> QED
      BY <1>1, <3>1, <3>2
  <2> QED
    BY <2>1, <2>2
<1> QED
  BY <1>1, <1>3, <1>4 DEF ApiInv

\* The function of a builder stays in the module, as it was asked for.
LEMMA FinishInv ==
  ASSUME ApiInv, NEW h \in Open, process' = process,
         functions' = Append(functions, Finished(builder[h])),
         builder' = [builder EXCEPT ![h] = Taken], menu' = menu, history' = history
  PROVE  ApiInv'
<1> DEFINE f == Finished(builder[h])
<1>1. h \in Handles /\ Built(history[h], builder[h])
  BY OpenIsBuilt
<1>2. AskedFor(history[h], f)
  BY <1>1 DEF Built, AskedFor, StartAsked, BodiesAsked
<1>3. DOMAIN builder = Handles /\ DOMAIN history = Handles /\ IsList(functions)
  BY DEF ApiInv
<1>4. Longer(functions', functions, f)
  BY <1>3, ListAppend
<1> HIDE DEF f
<1>5. IsList(functions') /\ Len(functions) \in Nat /\ Len(functions') = Len(functions) + 1
      /\ functions'[Len(functions')] = f
      /\ \A n \in 1 .. Len(functions) : functions'[n] = functions[n] /\ n \in 1 .. Len(functions')
  BY <1>4 DEF Longer
<1>6. Len(functions') \in 1 .. Len(functions')
  BY <1>5
<1>7. DOMAIN builder' = Handles /\ DOMAIN history' = Handles
  BY <1>3
<1>8. ASSUME NEW k \in Handles
      PROVE  HandleInv(builder'[k], history'[k], functions')
  <2>1. CASE k = h
    <3>1. builder'[k] = Taken /\ history'[k] = history[h]
      BY <1>3, <2>1
    <3> QED
      BY <1>2, <1>5, <1>6, <3>1 DEF HandleInv
  <2>2. CASE k # h
    <3>1. builder'[k] = builder[k] /\ history'[k] = history[k]
      BY <1>3, <2>2
    <3>2. HandleInv(builder[k], history[k], functions)
      BY DEF ApiInv
    <3>3. ASSUME \E n \in 1 .. Len(functions) : AskedFor(history[k], functions[n])
          PROVE  \E n \in 1 .. Len(functions') : AskedFor(history[k], functions'[n])
      BY <1>5, <3>3
    <3> QED
      BY <3>1, <3>2, <3>3 DEF HandleInv
  <2> QED
    BY <2>1, <2>2
<1> QED
  BY <1>5, <1>7, <1>8 DEF ApiInv

LEMMA BuildInv == ApiInv /\ Build => ApiInv'
<1> SUFFICES ASSUME ApiInv, Build PROVE ApiInv'
  OBVIOUS
<1>1. PICK h \in menu.handles :
        \/ \E f \in menu.starts : CreateFunctionBuilder(h, f.name, f.ty)
        \/ \E n \in menu.args : GetArg(h, n)
        \/ \E t \in menu.types : NewLocal(h, t)
        \/ \E r \in menu.rets, t \in menu.tags : NewBlock(h, r, t)
        \/ \E b \in BlockIds \cup {Entry} : SwitchBlock(h, b)
        \/ \E i \in Offered : BuildInstr(h, i)
        \/ FinishFunctionBuilder(h)
  BY DEF Build
<1>2. h \in Handles
  BY MenusAssumption DEF ApiInv
<1>3. ASSUME Abort PROVE ApiInv'
  BY <1>3 DEF Abort, ApiInv
<1>4. ASSUME NEW f \in menu.starts, CreateFunctionBuilder(h, f.name, f.ty)
      PROVE  ApiInv'
  <2>1. CASE IsFunc(f.ty)
    <3> DEFINE c == [call |-> "create", name |-> f.name, ty |-> f.ty]
    <3>1. builder[h] = Unused /\ Answer(h, c, NewBuilder(f.name, f.ty.args, f.ty.ret))
      BY <1>4, <2>1 DEF CreateFunctionBuilder
    <3>2. history[h] = << >>
      <4>1. HandleInv(Unused, history[h], functions)
        BY <1>2, <3>1 DEF ApiInv
      <4>2. ~ Built(history[h], Unused)
        BY SoundIsOpen DEF Built
      <4>3. Unused # Taken
        BY DEF Unused, Taken
      <4> QED
        BY <4>1, <4>2, <4>3 DEF HandleInv
    <3>3. f.ty.args \in Seq(ToSet(f.ty.args))
      BY <2>1, MenusAssumption DEF ApiInv
    <3>4. c.call = "create" /\ c.name = f.name /\ c.ty = f.ty
      OBVIOUS
    <3> HIDE DEF c
    <3>5. IsList(c.ty.args)
      BY <3>3, <3>4 DEF IsList
    <3>6. Built(<< c >>, NewBuilder(c.name, c.ty.args, c.ty.ret))
      BY <3>4, <3>5, CreateBuilt
    <3>7. Append(history[h], c) = << c >>
      BY <3>2
    <3>8. Built(Append(history[h], c), NewBuilder(f.name, f.ty.args, f.ty.ret))
      BY <3>4, <3>6, <3>7
    <3> QED
      BY <1>2, <3>1, <3>8, AnswerInv
  <2> QED
    BY <1>3, <1>4, <2>1 DEF CreateFunctionBuilder
<1>5. ASSUME NEW n \in menu.args, GetArg(h, n)
      PROVE  ApiInv'
  <2>1. CASE n \in Args(builder[h])
    <3> DEFINE c == [call |-> "arg", ref |-> n]
    <3>1. h \in Open /\ Answer(h, c, builder[h])
      BY <1>5, <2>1 DEF GetArg, MayCall
    <3>2. c.call = "arg"
      OBVIOUS
    <3> HIDE DEF c
    <3>3. Built(Append(history[h], c), builder[h])
      BY <3>1, <3>2, OpenIsBuilt, ArgBuilt
    <3> QED
      BY <1>2, <3>1, <3>3, AnswerInv
  <2> QED
    BY <1>3, <1>5, <2>1 DEF GetArg
<1>6. ASSUME NEW t \in menu.types, NewLocal(h, t)
      PROVE  ApiInv'
  <2> DEFINE c == [call |-> "local", ty |-> t, ref |-> NextLocal(builder[h])]
  <2>1. h \in Open /\ Answer(h, c, WithLocal(builder[h], t))
    BY <1>6 DEF NewLocal, MayCall
  <2>2. c.call = "local" /\ c.ty = t /\ c.ref = NextLocal(builder[h])
    OBVIOUS
  <2> HIDE DEF c
  <2>3. Built(Append(history[h], c), WithLocal(builder[h], c.ty))
    BY <2>1, <2>2, OpenIsBuilt, LocalBuilt
  <2> QED
    BY <1>2, <2>1, <2>2, <2>3, AnswerInv
<1>7. ASSUME NEW r \in menu.rets, NEW t \in menu.tags, NewBlock(h, r, t)
      PROVE  ApiInv'
  <2> DEFINE c == [call |-> "block", ret |-> r, tag |-> t, id |-> NextBlock(builder[h])]
  <2>1. h \in Open /\ Answer(h, c, WithBlock(builder[h], r, t))
    BY <1>7 DEF NewBlock, MayCall
  <2>2. c.call = "block" /\ c.ret = r /\ c.tag = t /\ c.id = NextBlock(builder[h])
    OBVIOUS
  <2> HIDE DEF c
  <2>3. Built(Append(history[h], c), WithBlock(builder[h], c.ret, c.tag))
    BY <2>1, <2>2, OpenIsBuilt, BlockBuilt
  <2> QED
    BY <1>2, <2>1, <2>2, <2>3, AnswerInv
<1>8. ASSUME NEW b \in BlockIds \cup {Entry}, SwitchBlock(h, b)
      PROVE  ApiInv'
  <2>1. CASE HasBlock(builder[h], b)
    <3> DEFINE c == [call |-> "switch", id |-> b]
    <3>1. h \in Open /\ Answer(h, c, Switched(builder[h], b))
      BY <1>8, <2>1 DEF SwitchBlock, MayCall
    <3>2. c.call = "switch" /\ c.id = b
      OBVIOUS
    <3> HIDE DEF c
    <3>3. Built(Append(history[h], c), Switched(builder[h], c.id))
      BY <2>1, <3>1, <3>2, OpenIsBuilt, SwitchBuilt
    <3> QED
      BY <1>2, <3>1, <3>2, <3>3, AnswerInv
  <2> QED
    BY <1>3, <1>8, <2>1 DEF SwitchBlock
<1>9. ASSUME NEW i \in Offered, BuildInstr(h, i)
      PROVE  ApiInv'
  <2> DEFINE c == [call |-> "instr", instr |-> i]
  <2>1. h \in Open /\ Answer(h, c, WithInstr(builder[h], i))
    BY <1>9 DEF BuildInstr, MayCall
  <2>2. c.call = "instr" /\ c.instr = i
    OBVIOUS
  <2> HIDE DEF c
  <2>3. Built(Append(history[h], c), WithInstr(builder[h], c.instr))
    BY <2>1, <2>2, OpenIsBuilt, InstrBuilt
  <2> QED
    BY <1>2, <2>1, <2>2, <2>3, AnswerInv
<1>10. ASSUME FinishFunctionBuilder(h)
       PROVE  ApiInv'
  BY <1>3, <1>10, FinishInv DEF FinishFunctionBuilder
<1> QED
  BY <1>1, <1>4, <1>5, <1>6, <1>7, <1>8, <1>9, <1>10

\* Whoever builds functions in the module, and in whatever order the calls of
\* several builders come, a finished function is the one asked for.
THEOREM FunctionsAsAsked == ApiSpec => []BuiltAsAsked
<1>1. ApiInv /\ [Build \/ Dump]_api => ApiInv'
  <2> SUFFICES ASSUME ApiInv, [Build \/ Dump]_api PROVE ApiInv'
    OBVIOUS
  <2>1. CASE Build
    BY <2>1, BuildInv
  <2>2. CASE Dump
    BY <2>2 DEF Dump, ApiInv
  <2>3. CASE UNCHANGED api
    BY <2>3 DEF api, ApiInv
  <2> QED
    BY <2>1, <2>2, <2>3
<1>2. ApiInv => BuiltAsAsked
  <2> SUFFICES ASSUME ApiInv, NEW h \in Handles, builder[h] = Taken
               PROVE  \E n \in 1 .. Len(functions) : AskedFor(history[h], functions[n])
    BY DEF BuiltAsAsked
  <2>1. HandleInv(Taken, history[h], functions)
    BY DEF ApiInv
  <2>2. ~ Built(history[h], Taken)
    BY SoundIsOpen DEF Built
  <2>3. Unused # Taken
    BY DEF Unused, Taken
  <2> QED
    BY <2>1, <2>2, <2>3 DEF HandleInv
<1> QED
  BY ApiInitInv, <1>1, <1>2, PTL DEF ApiSpec

-----------------------------------------------------------------------------
(* Recursive functions *)

\* What F makes of x depends on what f is below x only.
Local(F, D, R, rank) ==
  \A x \in D : \A f, g \in [D -> R] :
    (\A y \in D : rank[y] < rank[x] => f[y] = g[y]) => F[x][f] = F[x][g]

\* f does as F says below n.
Follows(f, F, D, rank, n) == \A x \in D : rank[x] < n => f[x] = F[x][f]

\* Two functions that follow F are the same as far as both do.
LEMMA FollowersAgree ==
  ASSUME NEW D, NEW R, NEW rank \in [D -> Nat], NEW F, Local(F, D, R, rank), NEW n \in Nat,
         NEW f \in [D -> R], NEW g \in [D -> R],
         Follows(f, F, D, rank, n), Follows(g, F, D, rank, n)
  PROVE  \A x \in D : rank[x] < n => f[x] = g[x]
<1> DEFINE Bad == { rank[x] : x \in { y \in D : rank[y] < n /\ f[y] # g[y] } }
<1> SUFFICES ASSUME NEW x \in D, rank[x] < n, f[x] # g[x]
             PROVE  FALSE
  OBVIOUS
<1>1. Bad \in SUBSET Nat /\ rank[x] \in Bad
  OBVIOUS
<1>2. \E m \in Bad : \A k \in Bad : m <= k
  <2> HIDE DEF Bad
  <2> QED
    BY <1>1, LeastNumber
<1>3. PICK y \in D : rank[y] < n /\ f[y] # g[y] /\ \A k \in Bad : rank[y] <= k
  BY <1>2
<1>4. ASSUME NEW z \in D, rank[z] < rank[y]
      PROVE  f[z] = g[z]
  <2>1. rank[z] \in Nat /\ rank[y] \in Nat /\ rank[z] < n
    BY <1>3, <1>4
  <2>2. f[z] # g[z] => rank[z] \in Bad
    BY <2>1
  <2>3. rank[z] \notin Bad
    BY <1>3, <1>4, <2>1
  <2> QED
    BY <2>2, <2>3
<1>5. F[y][f] = F[y][g]
  BY <1>4 DEF Local
<1> QED
  BY <1>3, <1>5 DEF Follows

\* There are functions that follow F as far as one likes.
LEMMA FollowersExist ==
  ASSUME NEW D, NEW R, R # {}, NEW rank \in [D -> Nat],
         NEW F \in [D -> [[D -> R] -> R]], Local(F, D, R, rank)
  PROVE  \A n \in Nat : \E f \in [D -> R] : Follows(f, F, D, rank, n)
<1> DEFINE Good(n) == \E f \in [D -> R] : Follows(f, F, D, rank, n)
           Bad     == { n \in Nat : ~ Good(n) }
<1> SUFFICES ASSUME NEW x \in Nat, ~ Good(x)
             PROVE  FALSE
  OBVIOUS
<1>1. Good(0)
  <2>1. PICK r \in R : TRUE
    OBVIOUS
  <2>2. [x1 \in D |-> r] \in [D -> R] /\ Follows([x1 \in D |-> r], F, D, rank, 0)
    BY DEF Follows
  <2> QED
    BY <2>2
<1>2. ASSUME NEW n \in Nat, Good(n)
      PROVE  Good(n + 1)
  <2>1. PICK f \in [D -> R] : Follows(f, F, D, rank, n)
    BY <1>2
  <2> DEFINE g == [y \in D |-> IF rank[y] < n THEN f[y] ELSE F[y][f]]
  <2>2. g \in [D -> R]
    OBVIOUS
  <2>3. ASSUME NEW y \in D, rank[y] < n + 1
        PROVE  g[y] = F[y][g]
    <3>1. F[y][f] = F[y][g]
      <4>1. \A z \in D : rank[z] < rank[y] => f[z] = g[z]
        BY <2>3
      <4> HIDE DEF g
      <4> QED
        BY <2>2, <4>1 DEF Local
    <3>2. g[y] = F[y][f]
      BY <2>1 DEF Follows
    <3> QED
      BY <3>1, <3>2
  <2>4. Follows(g, F, D, rank, n + 1)
    BY <2>3 DEF Follows
  <2> QED
    BY <2>2, <2>4
<1> HIDE DEF Good
<1>3. Bad \in SUBSET Nat /\ x \in Bad
  OBVIOUS
<1>4. \E m \in Bad : \A k \in Bad : m <= k
  <2> HIDE DEF Bad
  <2> QED
    BY <1>3, LeastNumber
<1>5. PICK m \in Nat : ~ Good(m) /\ \A k \in Nat : ~ Good(k) => m <= k
  BY <1>4
<1>6. m # 0
  BY <1>1, <1>5
<1>7. PICK k \in Nat : m = k + 1
  BY <1>6
<1>8. Good(k)
  BY <1>5, <1>7
<1> QED
  BY <1>2, <1>5, <1>7, <1>8

\* F is a recursive definition of a function of D into R, and goes down.
GoesDown(F, D, R, rank) ==
  /\ R # {} /\ rank \in [D -> Nat]
  /\ F \in [D -> [[D -> R] -> R]]
  /\ Local(F, D, R, rank)

HasFunction(F, D, R) == \E f \in [D -> R] : \A x \in D : f[x] = F[x][f]

\* There is a function that is as a recursive definition that goes down says.
LEMMA RecursionHasFunction ==
  ASSUME NEW F, NEW D, NEW R, NEW rank, GoesDown(F, D, R, rank)
  PROVE  HasFunction(F, D, R)
<1> USE DEF GoesDown
<1> DEFINE Upto(n) == CHOOSE f \in [D -> R] : Follows(f, F, D, rank, n)
           h       == [x \in D |-> Upto(rank[x] + 1)[x]]
<1>1. ASSUME NEW n \in Nat
      PROVE  Upto(n) \in [D -> R] /\ Follows(Upto(n), F, D, rank, n)
  BY FollowersExist
<1> HIDE DEF Upto
<1>2. h \in [D -> R]
  <2> SUFFICES ASSUME NEW x \in D PROVE Upto(rank[x] + 1)[x] \in R
    OBVIOUS
  <2>1. rank[x] + 1 \in Nat
    OBVIOUS
  <2> QED
    BY <1>1, <2>1
<1>3. ASSUME NEW x \in D
      PROVE  h[x] = F[x][h]
  <2> DEFINE f == Upto(rank[x] + 1)
  <2>1. rank[x] \in Nat /\ rank[x] + 1 \in Nat /\ rank[x] < rank[x] + 1
    OBVIOUS
  <2>2. f \in [D -> R] /\ Follows(f, F, D, rank, rank[x] + 1)
    BY <1>1, <2>1
  <2>3. ASSUME NEW y \in D, rank[y] < rank[x]
        PROVE  h[y] = f[y]
    <3> DEFINE g == Upto(rank[y] + 1)
    <3>1. rank[y] + 1 \in Nat /\ rank[y] < rank[y] + 1 /\ rank[y] + 1 <= rank[x] + 1
      BY <2>3
    <3>2. g \in [D -> R] /\ Follows(g, F, D, rank, rank[y] + 1)
      BY <1>1, <3>1
    <3>3. Follows(f, F, D, rank, rank[y] + 1)
      BY <2>1, <2>2, <3>1 DEF Follows
    <3>4. h[y] = g[y]
      OBVIOUS
    <3> HIDE DEF f, g, h
    <3>5. \A z \in D : rank[z] < rank[y] + 1 => g[z] = f[z]
      BY <2>2, <3>1, <3>2, <3>3, FollowersAgree
    <3> QED
      BY <3>1, <3>4, <3>5
  <2>4. h[x] = f[x]
    OBVIOUS
  <2> HIDE DEF f, h
  <2>5. F[x][h] = F[x][f]
    BY <1>2, <2>2, <2>3 DEF Local
  <2> QED
    BY <2>1, <2>2, <2>4, <2>5 DEF Follows
<1> HIDE DEF h
<1> QED
  BY <1>2, <1>3 DEF HasFunction

\* What a function that goes down has at every place if it has it wherever it
\* has it below.
LEMMA StaysIn ==
  ASSUME NEW D, NEW R, NEW rank \in [D -> Nat], NEW h,
         \A x \in D : (\A y \in D : rank[y] < rank[x] => h[y] \in R) => h[x] \in R
  PROVE  \A x \in D : h[x] \in R
<1> DEFINE Bad == { rank[x] : x \in { y \in D : h[y] \notin R } }
<1> SUFFICES ASSUME NEW x \in D, h[x] \notin R
             PROVE  FALSE
  OBVIOUS
<1>1. Bad \in SUBSET Nat /\ rank[x] \in Bad
  OBVIOUS
<1>2. \E m \in Bad : \A k \in Bad : m <= k
  <2> HIDE DEF Bad
  <2> QED
    BY <1>1, LeastNumber
<1>3. PICK y \in D : h[y] \notin R /\ \A k \in Bad : rank[y] <= k
  BY <1>2
<1>4. ASSUME NEW z \in D, rank[z] < rank[y]
      PROVE  h[z] \in R
  <2>1. rank[z] \in Nat /\ rank[y] \in Nat /\ ~ (rank[y] <= rank[z])
    BY <1>4
  <2>2. h[z] \notin R => rank[z] \in Bad
    OBVIOUS
  <2> HIDE DEF Bad
  <2> QED
    BY <1>3, <2>1, <2>2
<1> QED
  BY <1>3, <1>4

-----------------------------------------------------------------------------
(* Alignments *)

Exponents == 0 .. 2

\* The fields of a struct are types.
LEMMA FieldsAreTypes ==
  ASSUME NEW ty \in Types, IsStruct(ty)
  PROVE  /\ ty.fields \in Seq(Types) /\ Len(ty.fields) \in Nat
         /\ \A n \in 1 .. Len(ty.fields) :
              ty.fields[n] \in Types /\ Nesting[ty.fields[n]] < Nesting[ty]
<1>1. ty.fields \in Seq(Types) /\ \A n \in 1 .. Len(ty.fields) : Nesting[ty.fields[n]] < Nesting[ty]
  BY TypesAssumption
<1>2. Len(ty.fields) \in Nat /\ \A n \in 1 .. Len(ty.fields) : ty.fields[n] \in Types
  BY <1>1
<1> QED
  BY <1>1, <1>2

LEMMA MaxExponent ==
  ASSUME NEW S \in SUBSET Exponents
  PROVE  Max({0} \cup S) \in Exponents /\ \A e \in S : e <= Max({0} \cup S)
<1> DEFINE T == {0} \cup S
<1>1. T \subseteq Nat /\ \A e \in T : e \in {0, 1, 2}
  BY DEF Exponents
<1>2. \E m \in T : \A e \in T : m >= e
  <2>1. CASE 2 \in T
    BY <1>1, <2>1
  <2>2. CASE 2 \notin T /\ 1 \in T
    BY <1>1, <2>2
  <2>3. CASE 2 \notin T /\ 1 \notin T
    BY <1>1, <2>3
  <2> QED
    BY <2>1, <2>2, <2>3
<1>3. Max(T) \in T /\ \A e \in T : Max(T) >= e
  BY <1>2 DEF Max
<1>4. Max(T) \in Exponents
  <2>1. T \subseteq Exponents
    BY DEF Exponents
  <2> HIDE DEF T
  <2> QED
    BY <1>3, <2>1
<1>5. \A e \in S : e \in Nat /\ e <= Max(T)
  BY <1>1, <1>3, <1>4 DEF Exponents
<1> QED
  BY <1>4, <1>5

AlignmentStep(h, ty) ==
  CASE IsStruct(ty)           -> Max({0} \cup { h[ty.fields[n]] : n \in 1 .. Len(ty.fields) })
    [] ty \in {Int8, UInt8}   -> 0
    [] ty \in {Int16, UInt16} -> 1
    [] OTHER                  -> 2

LEMMA AlignmentStepFacts ==
  ASSUME NEW ty \in Types, NEW h
  PROVE  /\ ty \in {Int8, UInt8} => AlignmentStep(h, ty) = 0
         /\ ty \in {Int16, UInt16} => AlignmentStep(h, ty) = 1
         /\ IsStruct(ty) =>
              AlignmentStep(h, ty) = Max({0} \cup { h[ty.fields[n]] : n \in 1 .. Len(ty.fields) })
         /\ ~ (ty \in {Int8, UInt8, Int16, UInt16} \/ IsStruct(ty)) => AlignmentStep(h, ty) = 2
<1>1. ty \in {Int8, UInt8} => ty \notin {Int16, UInt16} /\ ~ IsStruct(ty)
  BY DEF Int8, UInt8, Int16, UInt16, IsStruct
<1>2. ty \in {Int16, UInt16} => ~ IsStruct(ty)
  BY DEF Int16, UInt16, IsStruct
<1> QED
  BY <1>1, <1>2 DEF AlignmentStep

\* A step goes down to the fields.
LEMMA AlignmentStepLocal ==
  ASSUME NEW ty \in Types, NEW f, NEW g,
         \A t \in Types : Nesting[t] < Nesting[ty] => f[t] = g[t]
  PROVE  AlignmentStep(f, ty) = AlignmentStep(g, ty)
<1>1. CASE IsStruct(ty)
  <2>1. \A n \in 1 .. Len(ty.fields) : f[ty.fields[n]] = g[ty.fields[n]]
    BY <1>1, FieldsAreTypes
  <2>2. { f[ty.fields[n]] : n \in 1 .. Len(ty.fields) } = { g[ty.fields[n]] : n \in 1 .. Len(ty.fields) }
    BY <2>1
  <2> QED
    BY <1>1, <2>2, AlignmentStepFacts
<1>2. CASE ~ IsStruct(ty)
  BY <1>2, AlignmentStepFacts
<1> QED
  BY <1>1, <1>2

LEMMA AlignmentStepType ==
  ASSUME NEW ty \in Types, NEW h,
         \A t \in Types : Nesting[t] < Nesting[ty] => h[t] \in Exponents
  PROVE  AlignmentStep(h, ty) \in Exponents
<1>1. CASE IsStruct(ty)
  <2>1. \A n \in 1 .. Len(ty.fields) : h[ty.fields[n]] \in Exponents
    BY <1>1, FieldsAreTypes
  <2>2. { h[ty.fields[n]] : n \in 1 .. Len(ty.fields) } \in SUBSET Exponents
    BY <2>1
  <2> QED
    BY <1>1, <2>2, AlignmentStepFacts, MaxExponent
<1>2. CASE ~ IsStruct(ty)
  <2>1. AlignmentStep(h, ty) \in {0, 1, 2}
    BY <1>2, AlignmentStepFacts
  <2> QED
    BY <2>1 DEF Exponents
<1> QED
  BY <1>1, <1>2

\* What alignment is: every type has an exponent, as its definition says.
LEMMA AlignmentDef ==
  /\ alignment \in [Types -> Exponents]
  /\ \A ty \in Types : alignment[ty] = AlignmentStep(alignment, ty)
<1> DEFINE IsAlignment(h) == h = [ty \in Types |-> AlignmentStep(h, ty)]
           F == [ty \in Types |-> [h \in [Types -> Exponents] |-> AlignmentStep(h, ty)]]
<1>1. alignment = CHOOSE h : IsAlignment(h)
  BY DEF alignment, AlignmentStep
<1>2. Nesting \in [Types -> Nat] /\ Exponents # {}
  BY TypesAssumption DEF Exponents
<1>3. F \in [Types -> [[Types -> Exponents] -> Exponents]]
  <2>1. ASSUME NEW ty \in Types, NEW h \in [Types -> Exponents]
        PROVE  AlignmentStep(h, ty) \in Exponents
    BY AlignmentStepType
  <2> QED
    BY <2>1
<1>4. \A ty \in Types : \A h \in [Types -> Exponents] : F[ty][h] = AlignmentStep(h, ty)
  OBVIOUS
<1> HIDE DEF F
<1>5. Local(F, Types, Exponents, Nesting)
  BY <1>4, AlignmentStepLocal DEF Local
<1>6. PICK f \in [Types -> Exponents] : \A ty \in Types : f[ty] = F[ty][f]
  <2>1. GoesDown(F, Types, Exponents, Nesting)
    BY <1>2, <1>3, <1>5 DEF GoesDown
  <2>2. HasFunction(F, Types, Exponents)
    BY <2>1, RecursionHasFunction
  <2> QED
    BY <2>2 DEF HasFunction
<1>7. f = [ty \in Types |-> AlignmentStep(f, ty)]
  BY <1>4, <1>6
<1>8. IsAlignment(alignment)
  <2>1. \E h : IsAlignment(h)
    BY <1>7
  <2> HIDE DEF IsAlignment
  <2> QED
    BY <1>1, <2>1
<1>9. DOMAIN alignment = Types /\ \A ty \in Types : alignment[ty] = AlignmentStep(alignment, ty)
  BY <1>8
<1>10. \A ty \in Types : alignment[ty] \in Exponents
  <2>1. \A ty \in Types : (\A t \in Types : Nesting[t] < Nesting[ty] => alignment[t] \in Exponents)
                            => alignment[ty] \in Exponents
    BY <1>9, AlignmentStepType
  <2> QED
    BY <1>2, <2>1, StaysIn
<1>11. alignment = [ty \in Types |-> alignment[ty]]
  BY <1>8
<1> QED
  BY <1>9, <1>10, <1>11

\* A struct is aligned at least as its fields are.
LEMMA FieldAlignment ==
  ASSUME NEW ty \in Types, IsStruct(ty), NEW n \in 1 .. Len(ty.fields)
  PROVE  alignment[ty.fields[n]] <= alignment[ty]
<1> DEFINE S == { alignment[ty.fields[k]] : k \in 1 .. Len(ty.fields) }
<1>1. \A k \in 1 .. Len(ty.fields) : alignment[ty.fields[k]] \in Exponents
  BY AlignmentDef, FieldsAreTypes
<1>2. S \in SUBSET Exponents /\ alignment[ty.fields[n]] \in S
  BY <1>1
<1>3. alignment[ty] = Max({0} \cup S)
  BY AlignmentDef, AlignmentStepFacts
<1> HIDE DEF S
<1> QED
  BY <1>2, <1>3, MaxExponent

-----------------------------------------------------------------------------
(* Sizes and offsets *)

\* AlignUp pads as little as it can.
LEMMA AlignUpFacts ==
  ASSUME NEW n \in Nat, NEW a \in Nat \ {0}
  PROVE  /\ AlignUp(n, a) \in Nat /\ AlignUp(n, a) % a = 0
         /\ n <= AlignUp(n, a) /\ AlignUp(n, a) <= n + a - 1
<1>1. AlignUp(n, a) \in Int /\ AlignUp(n, a) % a = 0
  BY DEF AlignUp
<1>2. n <= AlignUp(n, a) /\ AlignUp(n, a) <= n + a - 1
  BY DEF AlignUp
<1> QED
  BY <1>1, <1>2

\* Alignments and sizes of fields.
AreFields(aligns, sizes) ==
  /\ Len(sizes) \in Nat
  /\ \A n \in 1 .. Len(sizes) : aligns[n] \in Nat \ {0} /\ sizes[n] \in Nat

\* ends is where fields end, one behind the other.
EndOneByOne(aligns, sizes, ends) ==
  /\ ends \in [0 .. Len(sizes) -> Nat] /\ ends[0] = 0
  /\ \A n \in 1 .. Len(sizes) : ends[n] = AlignUp(ends[n - 1], aligns[n]) + sizes[n]

\* What Ends is.
LEMMA EndsDef ==
  ASSUME NEW aligns, NEW sizes, AreFields(aligns, sizes)
  PROVE  EndOneByOne(aligns, sizes, Ends(aligns, sizes))
<1> DEFINE D == 0 .. Len(sizes)
           Step(h, n) == IF n = 0 THEN 0 ELSE AlignUp(h[n - 1], aligns[n]) + sizes[n]
           IsEnds(h) == h = [n \in D |-> Step(h, n)]
           rank == [n \in D |-> n]
           F == [n \in D |-> [h \in [D -> Nat] |-> Step(h, n)]]
           ends == Ends(aligns, sizes)
<1>1. ends = CHOOSE h : IsEnds(h)
  BY DEF Ends
<1>2. /\ Nat # {} /\ rank \in [D -> Nat] /\ D \subseteq Nat
      /\ \A n \in D : rank[n] = n /\ n \in Nat
      /\ \A n \in D : n # 0 => n \in 1 .. Len(sizes) /\ n - 1 \in D /\ n - 1 < n
  BY DEF AreFields
<1>3. ASSUME NEW n \in D, NEW h, \A m \in D : m < n => h[m] \in Nat
      PROVE  Step(h, n) \in Nat
  <2>1. CASE n = 0
    BY <2>1
  <2>2. CASE n # 0
    <3>1. h[n - 1] \in Nat /\ aligns[n] \in Nat \ {0} /\ sizes[n] \in Nat
      BY <1>2, <1>3, <2>2 DEF AreFields
    <3>2. AlignUp(h[n - 1], aligns[n]) \in Nat
      BY <3>1, AlignUpFacts
    <3> QED
      BY <2>2, <3>1, <3>2
  <2> QED
    BY <2>1, <2>2
<1>4. ASSUME NEW n \in D, NEW f, NEW g, \A m \in D : m < n => f[m] = g[m]
      PROVE  Step(f, n) = Step(g, n)
  BY <1>2, <1>4
<1> HIDE DEF Step
<1>5. F \in [D -> [[D -> Nat] -> Nat]]
  <2>1. ASSUME NEW n \in D, NEW h \in [D -> Nat]
        PROVE  Step(h, n) \in Nat
    BY <1>3
  <2> QED
    BY <2>1
<1>6. \A n \in D : \A h \in [D -> Nat] : F[n][h] = Step(h, n)
  OBVIOUS
<1> HIDE DEF F, D, rank
<1>7. Local(F, D, Nat, rank)
  <2> SUFFICES ASSUME NEW n \in D, NEW f \in [D -> Nat], NEW g \in [D -> Nat],
                      \A m \in D : rank[m] < rank[n] => f[m] = g[m]
               PROVE  F[n][f] = F[n][g]
    BY DEF Local
  <2>1. \A m \in D : m < n => f[m] = g[m]
    BY <1>2
  <2> QED
    BY <1>4, <1>6, <2>1
<1>8. PICK f \in [D -> Nat] : \A n \in D : f[n] = F[n][f]
  <2>1. GoesDown(F, D, Nat, rank)
    BY <1>2, <1>5, <1>7 DEF GoesDown
  <2>2. HasFunction(F, D, Nat)
    BY <2>1, RecursionHasFunction
  <2> QED
    BY <2>2 DEF HasFunction
<1>9. f = [n \in D |-> Step(f, n)]
  BY <1>6, <1>8
<1> HIDE DEF ends
<1>10. IsEnds(ends)
  <2>1. \E h : IsEnds(h)
    BY <1>9
  <2> HIDE DEF IsEnds
  <2> QED
    BY <1>1, <2>1
<1>11. \A n \in D : ends[n] = Step(ends, n)
  BY <1>10
<1>12. \A n \in D : ends[n] \in Nat
  <2>1. ASSUME NEW n \in D, \A m \in D : rank[m] < rank[n] => ends[m] \in Nat
        PROVE  ends[n] \in Nat
    <3>1. \A m \in D : m < n => ends[m] \in Nat
      BY <1>2, <2>1
    <3> QED
      BY <1>3, <1>11, <3>1
  <2>2. \A n \in D : (\A m \in D : rank[m] < rank[n] => ends[m] \in Nat) => ends[n] \in Nat
    BY <2>1
  <2>3. rank \in [D -> Nat]
    BY <1>2
  <2> HIDE DEF IsEnds
  <2> QED
    BY <2>2, <2>3, StaysIn
<1>13. ends = [n \in D |-> ends[n]]
  BY <1>10
<1>14. ends \in [D -> Nat]
  BY <1>12, <1>13
<1>15. 0 \in D /\ \A n \in 1 .. Len(sizes) : n \in D /\ n # 0
  BY DEF D, AreFields
<1>16. ends[0] = 0 /\ \A n \in 1 .. Len(sizes) : ends[n] = AlignUp(ends[n - 1], aligns[n]) + sizes[n]
  BY <1>11, <1>15 DEF Step
<1> QED
  BY <1>14, <1>16 DEF EndOneByOne, ends, D

\* The fields before a field end before it.
LEMMA EndsGrow ==
  ASSUME NEW aligns, NEW sizes, AreFields(aligns, sizes),
         NEW ends, EndOneByOne(aligns, sizes, ends),
         NEW m \in 0 .. Len(sizes), NEW n \in 0 .. Len(sizes), m <= n
  PROVE  ends[m] <= ends[n]
<1> DEFINE D == m .. Len(sizes)
           R == { e \in Nat : ends[m] <= e }
           rank == [k \in D |-> k]
<1>1. /\ Len(sizes) \in Nat /\ ends[m] \in Nat /\ rank \in [D -> Nat] /\ n \in D
      /\ \A k \in D : rank[k] = k /\ k \in Nat
      /\ \A k \in D : k # m => k \in 1 .. Len(sizes) /\ k - 1 \in D /\ k - 1 < k /\ k - 1 \in 0 .. Len(sizes)
  BY DEF AreFields, EndOneByOne
<1>2. ASSUME NEW k \in D, \A j \in D : rank[j] < rank[k] => ends[j] \in R
      PROVE  ends[k] \in R
  <2>1. CASE k = m
    BY <1>1, <2>1
  <2>2. CASE k # m
    <3>1. ends[k - 1] \in Nat /\ ends[m] <= ends[k - 1]
      BY <1>1, <1>2, <2>2
    <3>2. aligns[k] \in Nat \ {0} /\ sizes[k] \in Nat
      BY <1>1, <2>2 DEF AreFields
    <3>3. ends[k] = AlignUp(ends[k - 1], aligns[k]) + sizes[k]
      BY <1>1, <2>2 DEF EndOneByOne
    <3>4. AlignUp(ends[k - 1], aligns[k]) \in Nat /\ ends[k - 1] <= AlignUp(ends[k - 1], aligns[k])
      BY <3>1, <3>2, AlignUpFacts
    <3> QED
      BY <1>1, <3>1, <3>2, <3>3, <3>4
  <2> QED
    BY <2>1, <2>2
<1>3. ends[n] \in R
  <2>1. \A k \in D : (\A j \in D : rank[j] < rank[k] => ends[j] \in R) => ends[k] \in R
    BY <1>2
  <2>2. rank \in [D -> Nat] /\ n \in D
    BY <1>1
  <2> HIDE DEF R, rank, D
  <2>3. \A k \in D : ends[k] \in R
    BY <2>1, <2>2, StaysIn
  <2> QED
    BY <2>2, <2>3
<1> QED
  BY <1>3

SizeStep(h, ty) ==
  CASE IsStruct(ty)           ->
         Ends(FieldAlignments(ty.fields), [n \in 1 .. Len(ty.fields) |-> h[ty.fields[n]]])[Len(ty.fields)]
    [] ty \in {Int8, UInt8}   -> 1
    [] ty \in {Int16, UInt16} -> 2
    [] OTHER                  -> 4

LEMMA SizeStepFacts ==
  ASSUME NEW ty \in Types, NEW h
  PROVE  /\ ty \in {Int8, UInt8} => SizeStep(h, ty) = 1
         /\ ty \in {Int16, UInt16} => SizeStep(h, ty) = 2
         /\ IsStruct(ty) =>
              SizeStep(h, ty) =
                Ends(FieldAlignments(ty.fields), [n \in 1 .. Len(ty.fields) |-> h[ty.fields[n]]])[Len(ty.fields)]
         /\ ~ (ty \in {Int8, UInt8, Int16, UInt16} \/ IsStruct(ty)) => SizeStep(h, ty) = 4
<1>1. ty \in {Int8, UInt8} => ty \notin {Int16, UInt16} /\ ~ IsStruct(ty)
  BY DEF Int8, UInt8, Int16, UInt16, IsStruct
<1>2. ty \in {Int16, UInt16} => ~ IsStruct(ty)
  BY DEF Int16, UInt16, IsStruct
<1> QED
  BY <1>1, <1>2 DEF SizeStep

LEMMA PowerOfExponent ==
  ASSUME NEW e \in Exponents
  PROVE  2 ^ e \in {1, 2, 4}
<1>1. e = 0 \/ e = 1 \/ e = 2
  BY DEF Exponents
<1>2. 2 ^ 0 = 1 /\ 2 ^ 1 = 2 /\ 2 ^ 2 = 4
  OBVIOUS
<1> QED
  BY <1>1, <1>2

\* A struct's fields have alignments, and sizes if h gives them one.
LEMMA StructHasFields ==
  ASSUME NEW ty \in Types, IsStruct(ty), NEW h,
         \A t \in Types : Nesting[t] < Nesting[ty] => h[t] \in Nat
  PROVE  LET sizes == [n \in 1 .. Len(ty.fields) |-> h[ty.fields[n]]] IN
         Len(sizes) = Len(ty.fields) /\ AreFields(FieldAlignments(ty.fields), sizes)
<1> DEFINE sizes == [n \in 1 .. Len(ty.fields) |-> h[ty.fields[n]]]
<1>1. /\ Len(ty.fields) \in Nat
      /\ \A n \in 1 .. Len(ty.fields) : ty.fields[n] \in Types /\ Nesting[ty.fields[n]] < Nesting[ty]
  BY FieldsAreTypes
<1>2. Len(sizes) = Len(ty.fields)
  BY <1>1
<1>3. \A n \in 1 .. Len(ty.fields) : sizes[n] \in Nat
  BY <1>1
<1>4. ASSUME NEW n \in 1 .. Len(ty.fields)
      PROVE  FieldAlignments(ty.fields)[n] \in Nat \ {0}
  <2>1. 2 ^ AlignmentOf(ty.fields[n]) \in {1, 2, 4}
    BY <1>1, AlignmentDef, PowerOfExponent DEF AlignmentOf
  <2> QED
    BY <2>1 DEF FieldAlignments
<1> QED
  BY <1>1, <1>2, <1>3, <1>4 DEF AreFields

LEMMA SizeStepType ==
  ASSUME NEW ty \in Types, NEW h,
         \A t \in Types : Nesting[t] < Nesting[ty] => h[t] \in Nat
  PROVE  SizeStep(h, ty) \in Nat
<1>1. CASE IsStruct(ty)
  <2> DEFINE sizes  == [n \in 1 .. Len(ty.fields) |-> h[ty.fields[n]]]
             aligns == FieldAlignments(ty.fields)
  <2>1. Len(sizes) = Len(ty.fields) /\ AreFields(aligns, sizes) /\ Len(ty.fields) \in Nat
    BY <1>1, StructHasFields, FieldsAreTypes
  <2>2. SizeStep(h, ty) = Ends(aligns, sizes)[Len(ty.fields)]
    BY <1>1, SizeStepFacts
  <2> HIDE DEF sizes, aligns
  <2>3. Ends(aligns, sizes) \in [0 .. Len(sizes) -> Nat]
    BY <2>1, EndsDef DEF EndOneByOne
  <2> QED
    BY <2>1, <2>2, <2>3
<1>2. CASE ~ IsStruct(ty)
  <2>1. SizeStep(h, ty) \in {1, 2, 4}
    BY <1>2, SizeStepFacts
  <2> QED
    BY <2>1
<1> QED
  BY <1>1, <1>2

LEMMA SizeStepLocal ==
  ASSUME NEW ty \in Types, NEW f, NEW g,
         \A t \in Types : Nesting[t] < Nesting[ty] => f[t] = g[t]
  PROVE  SizeStep(f, ty) = SizeStep(g, ty)
<1>1. CASE IsStruct(ty)
  <2>1. \A n \in 1 .. Len(ty.fields) : f[ty.fields[n]] = g[ty.fields[n]]
    BY <1>1, FieldsAreTypes
  <2>2. [n \in 1 .. Len(ty.fields) |-> f[ty.fields[n]]] = [n \in 1 .. Len(ty.fields) |-> g[ty.fields[n]]]
    BY <2>1
  <2> QED
    BY <1>1, <2>2, SizeStepFacts
<1>2. CASE ~ IsStruct(ty)
  BY <1>2, SizeStepFacts
<1> QED
  BY <1>1, <1>2

\* What size is: every type has a size, as its definition says.
LEMMA SizeDef ==
  /\ size \in [Types -> Nat]
  /\ \A ty \in Types : size[ty] = SizeStep(size, ty)
<1> DEFINE IsSize(h) == h = [ty \in Types |-> SizeStep(h, ty)]
           F == [ty \in Types |-> [h \in [Types -> Nat] |-> SizeStep(h, ty)]]
<1>1. size = CHOOSE h : IsSize(h)
  BY DEF size, SizeStep
<1>2. Nesting \in [Types -> Nat] /\ Nat # {}
  BY TypesAssumption
<1>3. F \in [Types -> [[Types -> Nat] -> Nat]]
  <2>1. ASSUME NEW ty \in Types, NEW h \in [Types -> Nat]
        PROVE  SizeStep(h, ty) \in Nat
    BY SizeStepType
  <2> QED
    BY <2>1
<1>4. \A ty \in Types : \A h \in [Types -> Nat] : F[ty][h] = SizeStep(h, ty)
  OBVIOUS
<1> HIDE DEF F
<1>5. Local(F, Types, Nat, Nesting)
  BY <1>4, SizeStepLocal DEF Local
<1>6. PICK f \in [Types -> Nat] : \A ty \in Types : f[ty] = F[ty][f]
  <2>1. GoesDown(F, Types, Nat, Nesting)
    BY <1>2, <1>3, <1>5 DEF GoesDown
  <2>2. HasFunction(F, Types, Nat)
    BY <2>1, RecursionHasFunction
  <2> QED
    BY <2>2 DEF HasFunction
<1>7. f = [ty \in Types |-> SizeStep(f, ty)]
  BY <1>4, <1>6
<1>8. IsSize(size)
  <2>1. \E h : IsSize(h)
    BY <1>7
  <2> HIDE DEF IsSize
  <2> QED
    BY <1>1, <2>1
<1>9. DOMAIN size = Types /\ \A ty \in Types : size[ty] = SizeStep(size, ty)
  BY <1>8
<1>10. \A ty \in Types : size[ty] \in Nat
  <2>1. \A ty \in Types : (\A t \in Types : Nesting[t] < Nesting[ty] => size[t] \in Nat)
                            => size[ty] \in Nat
    BY <1>9, SizeStepType
  <2> QED
    BY <1>2, <2>1, StaysIn
<1>11. size = [ty \in Types |-> size[ty]]
  BY <1>8
<1> QED
  BY <1>9, <1>10, <1>11

\* Where the first fields of a struct end.
EndsOf(fields) == Ends(FieldAlignments(fields), [n \in 1 .. Len(fields) |-> SizeOf(fields[n])])

\* The fields of a struct are aligned, inside of it and apart from one another.
LEMMA StructLayout ==
  ASSUME NEW ty \in Types, IsStruct(ty), NEW n \in 1 .. Len(ty.fields)
  PROVE  /\ FieldOffset(ty.fields, n) \in Nat
         /\ FieldOffset(ty.fields, n) % (2 ^ AlignmentOf(ty.fields[n])) = 0
         /\ FieldOffset(ty.fields, n) + SizeOf(ty.fields[n]) <= SizeOf(ty)
         /\ \A m \in 1 .. n - 1 :
              FieldOffset(ty.fields, m) + SizeOf(ty.fields[m]) <= FieldOffset(ty.fields, n)
<1> DEFINE fields == ty.fields
           sizes  == [k \in 1 .. Len(fields) |-> SizeOf(fields[k])]
           aligns == FieldAlignments(fields)
           ends   == EndsOf(fields)
<1>1. Len(fields) \in Nat /\ \A k \in 1 .. Len(fields) : fields[k] \in Types
  BY FieldsAreTypes
<1>2. Len(sizes) = Len(fields) /\ AreFields(aligns, sizes)
  <2>1. \A t \in Types : size[t] \in Nat
    BY SizeDef
  <2> QED
    BY <2>1, StructHasFields DEF SizeOf
<1>3. EndOneByOne(aligns, sizes, ends)
  BY <1>2, EndsDef DEF EndsOf
<1>4. SizeOf(ty) = ends[Len(fields)]
  BY SizeDef, SizeStepFacts DEF SizeOf, EndsOf
<1>5. \A k \in 1 .. Len(fields) :
        sizes[k] = SizeOf(fields[k]) /\ aligns[k] = 2 ^ AlignmentOf(fields[k])
  BY DEF FieldAlignments
<1>6. \A k \in 1 .. Len(fields) : FieldOffset(fields, k) = AlignUp(ends[k - 1], aligns[k])
  BY <1>5 DEF FieldOffset, EndsOf
<1> HIDE DEF sizes, aligns, ends, fields
<1>7. ASSUME NEW k \in 1 .. Len(fields)
      PROVE  /\ FieldOffset(fields, k) \in Nat /\ FieldOffset(fields, k) % aligns[k] = 0
             /\ ends[k - 1] <= FieldOffset(fields, k)
             /\ FieldOffset(fields, k) + sizes[k] = ends[k]
  <2>1. k - 1 \in 0 .. Len(sizes) /\ k \in 1 .. Len(sizes)
    BY <1>1, <1>2
  <2>2. ends[k - 1] \in Nat /\ aligns[k] \in Nat \ {0}
    BY <1>2, <1>3, <2>1 DEF EndOneByOne, AreFields
  <2>3. ends[k] = AlignUp(ends[k - 1], aligns[k]) + sizes[k]
    BY <1>3, <2>1 DEF EndOneByOne
  <2> QED
    BY <1>6, <2>2, <2>3, AlignUpFacts
<1>8. \A j, k \in 0 .. Len(fields) : j <= k => ends[j] <= ends[k]
  BY <1>2, <1>3, EndsGrow
<1>9. \A k \in 0 .. Len(fields) : ends[k] \in Nat
  BY <1>2, <1>3 DEF EndOneByOne
<1>10. n \in 1 .. Len(fields)
  BY DEF fields
<1>11. FieldOffset(fields, n) + sizes[n] <= ends[Len(fields)]
  BY <1>1, <1>7, <1>8, <1>10
<1>12. ASSUME NEW m \in 1 .. n - 1
       PROVE  FieldOffset(fields, m) + sizes[m] <= FieldOffset(fields, n)
  <2>1. m \in 1 .. Len(fields) /\ m \in 0 .. Len(fields) /\ n - 1 \in 0 .. Len(fields) /\ m <= n - 1
    BY <1>1, <1>10
  <2>2. ends[m] <= ends[n - 1] /\ ends[m] \in Nat /\ ends[n - 1] \in Nat
    BY <1>8, <1>9, <2>1
  <2>3. /\ FieldOffset(fields, m) + sizes[m] = ends[m]
        /\ ends[n - 1] <= FieldOffset(fields, n) /\ FieldOffset(fields, n) \in Nat
    BY <1>7, <1>10, <2>1
  <2> QED
    BY <2>2, <2>3
<1>13. \A m \in 1 .. n - 1 : m \in 1 .. Len(fields)
  BY <1>1, <1>10
<1> QED
  BY <1>4, <1>5, <1>7, <1>10, <1>11, <1>12, <1>13 DEF fields

-----------------------------------------------------------------------------
(* The types of values *)

HasFields(v) == v.k \in {"Struct", "Blob"}

TypeStep(h, v) ==
  CASE v.k \in {"Struct", "Blob"} -> Struct([n \in 1 .. Len(FieldsOf(v)) |-> h[FieldsOf(v)[n]]])
    [] v.k = "PtrTo" -> Ptr
    [] OTHER         -> v.ty

\* The fields of a value are values.
LEMMA FieldsAreParts ==
  ASSUME NEW v \in Parts
  PROVE  /\ FieldsOf(v) \in Seq(Parts) /\ Len(FieldsOf(v)) \in Nat
         /\ \A n \in 1 .. Len(FieldsOf(v)) :
              FieldsOf(v)[n] \in Parts /\ Depth[FieldsOf(v)[n]] < Depth[v]
<1>1. FieldsOf(v) \in Seq(Parts) /\ \A n \in 1 .. Len(FieldsOf(v)) : Depth[FieldsOf(v)[n]] < Depth[v]
  BY ValuesAssumption
<1>2. Len(FieldsOf(v)) \in Nat /\ \A n \in 1 .. Len(FieldsOf(v)) : FieldsOf(v)[n] \in Parts
  BY <1>1
<1> QED
  BY <1>1, <1>2

LEMMA TypeStepLocal ==
  ASSUME NEW v \in Parts, NEW f, NEW g,
         \A w \in Parts : Depth[w] < Depth[v] => f[w] = g[w]
  PROVE  TypeStep(f, v) = TypeStep(g, v)
<1>1. \A n \in 1 .. Len(FieldsOf(v)) : f[FieldsOf(v)[n]] = g[FieldsOf(v)[n]]
  BY FieldsAreParts
<1>2. [n \in 1 .. Len(FieldsOf(v)) |-> f[FieldsOf(v)[n]]] = [n \in 1 .. Len(FieldsOf(v)) |-> g[FieldsOf(v)[n]]]
  BY <1>1
<1> QED
  BY <1>2 DEF TypeStep

\* f is the types of the values less deep than n.
TypesBelow(f, n) == \A v \in Parts : Depth[v] < n => f[v] = TypeStep(f, v)

LEMMA TypesAgree ==
  ASSUME NEW n \in Nat, NEW f, NEW g, TypesBelow(f, n), TypesBelow(g, n)
  PROVE  \A v \in Parts : Depth[v] < n => f[v] = g[v]
<1> DEFINE h == [v \in Parts |-> IF Depth[v] < n /\ f[v] # g[v] THEN 1 ELSE 0]
           R == {0}
<1>1. ASSUME NEW v \in Parts, \A w \in Parts : Depth[w] < Depth[v] => h[w] \in R
      PROVE  h[v] \in R
  <2> SUFFICES ASSUME Depth[v] < n
               PROVE  f[v] = g[v]
    OBVIOUS
  <2>1. Depth \in [Parts -> Nat]
    BY ValuesAssumption
  <2>2. \A w \in Parts : Depth[w] < Depth[v] => Depth[w] < n /\ h[w] = 0
    BY <1>1, <2>1
  <2>3. \A w \in Parts : Depth[w] < Depth[v] => f[w] = g[w]
    BY <2>2
  <2>4. TypeStep(f, v) = TypeStep(g, v)
    BY <2>3, TypeStepLocal
  <2> QED
    BY <2>4 DEF TypesBelow
<1>2. \A v \in Parts : h[v] \in R
  <2>1. \A v \in Parts : (\A w \in Parts : Depth[w] < Depth[v] => h[w] \in R) => h[v] \in R
    BY <1>1
  <2>2. Depth \in [Parts -> Nat]
    BY ValuesAssumption
  <2> HIDE DEF h, R
  <2> QED
    BY <2>1, <2>2, StaysIn
<1> QED
  BY <1>2

LEMMA TypesExist ==
  \A n \in Nat : \E f : TypesBelow(f, n)
<1> DEFINE Good(n) == \E f : TypesBelow(f, n)
           Bad     == { n \in Nat : ~ Good(n) }
<1> SUFFICES ASSUME NEW x \in Nat, ~ Good(x)
             PROVE  FALSE
  OBVIOUS
<1>1. Depth \in [Parts -> Nat]
  BY ValuesAssumption
<1>2. Good(0)
  <2>1. \A v \in Parts : ~ (Depth[v] < 0)
    BY <1>1
  <2>2. TypesBelow(Depth, 0)
    BY <2>1 DEF TypesBelow
  <2> QED
    BY <2>2
<1>3. ASSUME NEW n \in Nat, Good(n)
      PROVE  Good(n + 1)
  <2>1. PICK f : TypesBelow(f, n)
    BY <1>3
  <2> DEFINE g == [v \in Parts |-> IF Depth[v] < n THEN f[v] ELSE TypeStep(f, v)]
  <2>2. ASSUME NEW v \in Parts, Depth[v] < n + 1
        PROVE  g[v] = TypeStep(g, v)
    <3>1. \A w \in Parts : Depth[w] < Depth[v] => f[w] = g[w]
      BY <1>1, <2>2
    <3>2. g[v] = TypeStep(f, v)
      BY <2>1 DEF TypesBelow
    <3> HIDE DEF g
    <3>3. TypeStep(f, v) = TypeStep(g, v)
      BY <3>1, TypeStepLocal
    <3> QED
      BY <3>2, <3>3
  <2> HIDE DEF g
  <2>3. TypesBelow(g, n + 1)
    BY <2>2 DEF TypesBelow
  <2> QED
    BY <2>3
<1> HIDE DEF Good
<1>4. Bad \in SUBSET Nat /\ x \in Bad
  OBVIOUS
<1>5. \E m \in Bad : \A k \in Bad : m <= k
  <2> HIDE DEF Bad
  <2> QED
    BY <1>4, LeastNumber
<1>6. PICK m \in Nat : ~ Good(m) /\ \A k \in Nat : ~ Good(k) => m <= k
  BY <1>5
<1>7. m # 0
  BY <1>2, <1>6
<1>8. PICK k \in Nat : m = k + 1
  BY <1>7
<1>9. Good(k)
  BY <1>6, <1>8
<1> QED
  BY <1>3, <1>6, <1>8, <1>9

\* What type is: every value has the type its definition says.
LEMMA TypeDef == \A v \in Parts : type[v] = TypeStep(type, v)
<1> DEFINE IsType(h) == h = [v \in Parts |-> TypeStep(h, v)]
           Upto(n)   == CHOOSE f : TypesBelow(f, n)
           h         == [v \in Parts |-> Upto(Depth[v] + 1)[v]]
<1>1. type = CHOOSE f : IsType(f)
  BY DEF type, TypeStep
<1>2. Depth \in [Parts -> Nat]
  BY ValuesAssumption
<1>3. \A n \in Nat : TypesBelow(Upto(n), n)
  BY TypesExist
<1>4. \A v \in Parts : h[v] = Upto(Depth[v] + 1)[v]
  OBVIOUS
<1> HIDE DEF Upto
<1>5. h = [v \in Parts |-> h[v]]
  OBVIOUS
<1> HIDE DEF h
<1>6. ASSUME NEW v \in Parts
      PROVE  h[v] = TypeStep(h, v)
  <2> DEFINE f == Upto(Depth[v] + 1)
  <2>1. Depth[v] \in Nat /\ Depth[v] + 1 \in Nat /\ Depth[v] < Depth[v] + 1
    BY <1>2
  <2>2. TypesBelow(f, Depth[v] + 1) /\ h[v] = f[v]
    BY <1>3, <1>4, <2>1
  <2>3. ASSUME NEW w \in Parts, Depth[w] < Depth[v]
        PROVE  h[w] = f[w]
    <3> DEFINE g == Upto(Depth[w] + 1)
    <3>1. Depth[w] + 1 \in Nat /\ Depth[w] < Depth[w] + 1 /\ Depth[w] + 1 <= Depth[v] + 1
      BY <1>2, <2>3
    <3>2. TypesBelow(g, Depth[w] + 1) /\ h[w] = g[w]
      BY <1>3, <1>4, <3>1
    <3> HIDE DEF f, g
    <3>3. TypesBelow(f, Depth[w] + 1)
      BY <1>2, <2>1, <2>2, <3>1 DEF TypesBelow
    <3>4. \A u \in Parts : Depth[u] < Depth[w] + 1 => g[u] = f[u]
      BY <3>1, <3>2, <3>3, TypesAgree
    <3> QED
      BY <3>1, <3>2, <3>4
  <2> HIDE DEF f
  <2>4. TypeStep(h, v) = TypeStep(f, v)
    BY <2>3, TypeStepLocal
  <2> QED
    BY <2>1, <2>2, <2>4 DEF TypesBelow
<1>7. IsType(h)
  BY <1>5, <1>6
<1>8. IsType(type)
  <2>1. \E f : IsType(f)
    BY <1>7
  <2> HIDE DEF IsType
  <2> QED
    BY <1>1, <2>1
<1> QED
  BY <1>8

SizeV(v)     == SizeOf(TypeOf(v))
AlignV(v)    == 2 ^ AlignmentOf(TypeOf(v))
Offset(v, n) == FieldOffset(FieldTypes(v), n)

LEMMA ValueFacts ==
  ASSUME NEW v \in Parts
  PROVE  TypeOf(v) \in Types /\ SizeV(v) \in Nat /\ AlignV(v) \in {1, 2, 4}
<1>1. TypeOf(v) \in Types
  BY TypesOfValues
<1> QED
  BY <1>1, SizeDef, AlignmentDef, PowerOfExponent DEF SizeV, AlignV, SizeOf, AlignmentOf

\* The type of a struct or a blob is the struct of the types of its fields.
LEMMA StructType ==
  ASSUME NEW v \in Parts, HasFields(v)
  PROVE  /\ IsStruct(TypeOf(v)) /\ FieldTypes(v) = TypeOf(v).fields
         /\ Len(FieldTypes(v)) = Len(FieldsOf(v))
         /\ \A n \in 1 .. Len(FieldsOf(v)) : FieldTypes(v)[n] = TypeOf(FieldsOf(v)[n])
<1> DEFINE types == [n \in 1 .. Len(FieldsOf(v)) |-> type[FieldsOf(v)[n]]]
<1>1. TypeOf(v) = Struct(types)
  BY TypeDef DEF TypeStep, HasFields, TypeOf
<1>2. IsStruct(TypeOf(v)) /\ FieldTypes(v) = types
  BY <1>1 DEF Struct, IsStruct, FieldTypes
<1>3. Len(FieldsOf(v)) \in Nat
  BY FieldsAreParts
<1>4. Len(types) = Len(FieldsOf(v))
  BY <1>3
<1> QED
  BY <1>2, <1>4 DEF FieldTypes, TypeOf

\* The fields of a value are aligned, inside of it and apart from one another.
LEMMA FieldFacts ==
  ASSUME NEW v \in Parts, HasFields(v), NEW n \in 1 .. Len(FieldsOf(v))
  PROVE  /\ Offset(v, n) \in Nat /\ Offset(v, n) % AlignV(FieldsOf(v)[n]) = 0
         /\ Offset(v, n) + SizeV(FieldsOf(v)[n]) <= SizeV(v)
         /\ \A m \in 1 .. n - 1 : Offset(v, m) + SizeV(FieldsOf(v)[m]) <= Offset(v, n)
<1>1. TypeOf(v) \in Types /\ n \in 1 .. Len(FieldTypes(v))
  BY ValueFacts, StructType
<1>2. Len(FieldsOf(v)) \in Nat
  BY FieldsAreParts
<1>3. \A m \in 1 .. n - 1 : m \in 1 .. Len(FieldsOf(v))
  BY <1>2
<1>4. FieldTypes(v)[n] = TypeOf(FieldsOf(v)[n]) /\ \A m \in 1 .. n - 1 : FieldTypes(v)[m] = TypeOf(FieldsOf(v)[m])
  BY <1>3, StructType
<1>5. IsStruct(TypeOf(v)) /\ TypeOf(v).fields = FieldTypes(v)
  BY StructType
<1>6. /\ FieldOffset(FieldTypes(v), n) \in Nat
      /\ FieldOffset(FieldTypes(v), n) % (2 ^ AlignmentOf(FieldTypes(v)[n])) = 0
      /\ FieldOffset(FieldTypes(v), n) + SizeOf(FieldTypes(v)[n]) <= SizeOf(TypeOf(v))
      /\ \A m \in 1 .. n - 1 :
           FieldOffset(FieldTypes(v), m) + SizeOf(FieldTypes(v)[m]) <= FieldOffset(FieldTypes(v), n)
  BY <1>1, <1>5, StructLayout
<1> QED
  BY <1>4, <1>6 DEF Offset, SizeV, AlignV

\* Where a struct is aligned, its fields are.
LEMMA FieldIsAligned ==
  ASSUME NEW v \in Parts, HasFields(v), NEW n \in 1 .. Len(FieldsOf(v)),
         NEW pos \in Nat, pos % AlignV(v) = 0
  PROVE  (pos + Offset(v, n)) % AlignV(FieldsOf(v)[n]) = 0
<1> DEFINE f == FieldsOf(v)[n]
<1>1. f \in Parts /\ TypeOf(v) \in Types /\ n \in 1 .. Len(FieldTypes(v))
  BY FieldsAreParts, ValueFacts, StructType
<1>2. TypeOf(f) = TypeOf(v).fields[n] /\ IsStruct(TypeOf(v)) /\ n \in 1 .. Len(TypeOf(v).fields)
  BY <1>1, StructType
<1>3. alignment[TypeOf(f)] <= alignment[TypeOf(v)]
  BY <1>1, <1>2, FieldAlignment
<1>4. alignment[TypeOf(f)] \in 0 .. 2 /\ alignment[TypeOf(v)] \in 0 .. 2
  BY <1>1, ValueFacts, AlignmentDef DEF Exponents
<1> DEFINE a == alignment[TypeOf(f)]  b == alignment[TypeOf(v)]
<1>5. AlignV(f) = 2 ^ a /\ AlignV(v) = 2 ^ b
  BY DEF AlignV, AlignmentOf
<1>6. Offset(v, n) \in Nat /\ Offset(v, n) % AlignV(f) = 0
  BY FieldFacts
<1> HIDE DEF a, b, f
<1>7. a \in {0, 1, 2} /\ b \in {0, 1, 2} /\ a <= b
  BY <1>3, <1>4 DEF a, b
<1>8. 2 ^ 0 = 1 /\ 2 ^ 1 = 2 /\ 2 ^ 2 = 4
  OBVIOUS
<1>9. \/ AlignV(f) = 1
      \/ AlignV(f) = 2 /\ AlignV(v) \in {2, 4}
      \/ AlignV(f) = 4 /\ AlignV(v) = 4
  <2>1. \/ a = 0
        \/ a = 1 /\ b \in {1, 2}
        \/ a = 2 /\ b = 2
    BY <1>7
  <2> QED
    BY <1>5, <1>8, <2>1
<1>10. pos % AlignV(f) = 0
  BY <1>9
<1>11. (pos + Offset(v, n)) % AlignV(f) = 0
  BY <1>6, <1>9, <1>10
<1> QED
  BY <1>11 DEF f

\* A number is as wide as its type, and a pointer has four bytes.
LEMMA ScalarFacts ==
  ASSUME NEW v \in Parts, ~ HasFields(v)
  PROVE  /\ v.k = "PtrTo" => SizeV(v) = 4
         /\ v.k # "PtrTo" => /\ TypeOf(v) = v.ty /\ v.val \in Nat /\ SizeV(v) \in {1, 2, 4}
                             /\ SizeV(v) = SizeOf(v.ty)
                             /\ v.val \div 256 ^ (SizeV(v) - 1) < 256
<1>1. CASE v.k = "PtrTo"
  <2>1. TypeOf(v) = Ptr
    BY <1>1, TypeDef DEF TypeStep, TypeOf
  <2>2. Ptr \in Types /\ Ptr \notin {Int8, UInt8, Int16, UInt16} /\ ~ IsStruct(Ptr)
    BY ValuesAssumption DEF Ptr, Int8, UInt8, Int16, UInt16, IsStruct
  <2>3. size[Ptr] = 4
    BY <2>2, SizeDef, SizeStepFacts
  <2> QED
    BY <1>1, <2>1, <2>3 DEF SizeV, SizeOf
<1>2. CASE v.k # "PtrTo"
  <2>1. TypeOf(v) = v.ty
    BY <1>2, TypeDef DEF TypeStep, TypeOf, HasFields
  <2>2. v.ty \in Scalars /\ v.val \in Nat /\ v.val \div 256 ^ (SizeOf(v.ty) - 1) < 256
    BY <1>2, ValuesAssumption DEF HasFields
  <2>3. v.ty \in Types
    BY <2>2, ValuesAssumption
  <2>4. ~ IsStruct(v.ty)
    BY <2>2 DEF Scalars, Int8, UInt8, Int16, UInt16, Int32, UInt32, Float32, IsStruct
  <2>5. size[v.ty] \in {1, 2, 4}
    BY <2>3, <2>4, SizeDef, SizeStepFacts
  <2> QED
    BY <1>2, <2>1, <2>2, <2>5 DEF SizeV, SizeOf
<1> QED
  BY <1>1, <1>2

\* The bytes of a blob are one behind the other.
LEMMA BlobFacts ==
  ASSUME NEW v \in Parts, v.k = "Blob"
  PROVE  /\ Len(v.bytes) \in Nat /\ Len(FieldsOf(v)) = Len(v.bytes) /\ SizeV(v) = Len(v.bytes)
         /\ \A n \in 1 .. Len(v.bytes) :
              /\ FieldsOf(v)[n].k = "UInt8" /\ FieldsOf(v)[n].ty = UInt8
              /\ FieldsOf(v)[n].val = v.bytes[n] /\ v.bytes[n] \in 0 .. 255
              /\ SizeV(FieldsOf(v)[n]) = 1 /\ Offset(v, n) = n - 1
<1> DEFINE bytes  == v.bytes
           fields == FieldsOf(v)
           sizes  == [k \in 1 .. Len(FieldTypes(v)) |-> SizeOf(FieldTypes(v)[k])]
           aligns == FieldAlignments(FieldTypes(v))
           ends   == EndsOf(FieldTypes(v))
<1>1. HasFields(v)
  BY DEF HasFields
<1>2. fields = [n \in 1 .. Len(bytes) |-> IntVal(UInt8, bytes[n])]
  BY DEF FieldsOf
<1>3. fields \in Seq(Parts) /\ Len(fields) \in Nat
  BY FieldsAreParts
<1>4. DOMAIN fields = 1 .. Len(bytes) /\ DOMAIN fields = 1 .. Len(fields)
  BY <1>2, <1>3
<1>5. \A n \in 1 .. Len(fields) :
        /\ fields[n] \in Parts /\ n \in 1 .. Len(bytes)
        /\ fields[n].k = "UInt8" /\ fields[n].ty = UInt8 /\ fields[n].val = bytes[n]
  BY <1>2, <1>3, <1>4, FieldsAreParts DEF IntVal, UInt8
<1>6. UInt8 \in Types
  BY ValuesAssumption DEF Scalars
<1>7. size[UInt8] = 1 /\ alignment[UInt8] = 0
  <2>1. size[UInt8] = SizeStep(size, UInt8) /\ alignment[UInt8] = AlignmentStep(alignment, UInt8)
    BY <1>6, SizeDef, AlignmentDef
  <2>2. SizeStep(size, UInt8) = 1 /\ AlignmentStep(alignment, UInt8) = 0
    BY <1>6, SizeStepFacts, AlignmentStepFacts
  <2> QED
    BY <2>1, <2>2
<1>8. \A n \in 1 .. Len(fields) : TypeOf(fields[n]) = UInt8 /\ ~ HasFields(fields[n]) /\ fields[n].k # "PtrTo"
  BY <1>5, ScalarFacts DEF HasFields
<1>9. \A n \in 1 .. Len(fields) : SizeV(fields[n]) = 1
  BY <1>7, <1>8 DEF SizeV, SizeOf
<1>10. ASSUME NEW n \in 1 .. Len(fields)
       PROVE  fields[n].val \in 0 .. 255
  <2>1. fields[n].val \in Nat /\ fields[n].val \div 256 ^ (SizeV(fields[n]) - 1) < 256
    BY <1>5, <1>8, ScalarFacts
  <2>2. SizeV(fields[n]) - 1 = 0 /\ 256 ^ 0 = 1
    BY <1>9
  <2>3. fields[n].val \div 1 < 256
    BY <2>1, <2>2
  <2>4. \A x \in Nat : x \div 1 < 256 => x \in 0 .. 255
    OBVIOUS
  <2> QED
    BY <2>1, <2>3, <2>4
<1>11. /\ Len(FieldTypes(v)) = Len(fields)
       /\ \A n \in 1 .. Len(fields) : FieldTypes(v)[n] = UInt8
       /\ FieldTypes(v) = TypeOf(v).fields /\ IsStruct(TypeOf(v)) /\ TypeOf(v) \in Types
  BY <1>1, <1>8, StructType, ValueFacts
<1>12. /\ Len(sizes) = Len(fields) /\ AreFields(aligns, sizes)
       /\ \A n \in 1 .. Len(fields) : sizes[n] = 1 /\ aligns[n] = 1
  <2>1. Len(sizes) = Len(fields)
    BY <1>3, <1>11
  <2>2. 2 ^ 0 = 1
    OBVIOUS
  <2>3. \A n \in 1 .. Len(fields) : sizes[n] = 1 /\ aligns[n] = 1
    BY <1>7, <1>11, <2>2 DEF SizeOf, FieldAlignments, AlignmentOf
  <2> HIDE DEF sizes, aligns
  <2> QED
    BY <1>3, <2>1, <2>3 DEF AreFields
<1>13. EndOneByOne(aligns, sizes, ends)
  BY <1>12, EndsDef DEF EndsOf
<1>14. SizeOf(TypeOf(v)) = ends[Len(fields)]
  BY <1>11, SizeDef, SizeStepFacts DEF SizeOf, EndsOf
<1>15. \A n \in 1 .. Len(fields) : Offset(v, n) = AlignUp(ends[n - 1], aligns[n])
  BY <1>11 DEF Offset, FieldOffset, EndsOf, FieldAlignments
<1> HIDE DEF ends, sizes, aligns, fields, bytes
<1>16. \A n \in 0 .. Len(fields) : ends[n] = n
  <2> DEFINE D == 0 .. Len(fields)
             rank == [n \in D |-> n]
             h == [n \in D |-> ends[n] - n]
             R == {0}
  <2>1. /\ rank \in [D -> Nat] /\ \A n \in D : rank[n] = n /\ n \in Nat
        /\ \A n \in D : n # 0 => n \in 1 .. Len(fields) /\ n - 1 \in D /\ n - 1 < n
    BY <1>3
  <2>2. ASSUME NEW n \in D, \A m \in D : rank[m] < rank[n] => h[m] \in R
        PROVE  h[n] \in R
    <3>1. CASE n = 0
      BY <1>13, <3>1 DEF EndOneByOne
    <3>2. CASE n # 0
      <4>1. h[n - 1] = 0 /\ n \in 1 .. Len(fields) /\ n - 1 \in D
        BY <2>1, <2>2, <3>2
      <4>2. ends[n - 1] \in Nat
        BY <1>12, <1>13, <4>1 DEF EndOneByOne
      <4>3. ends[n - 1] = n - 1
        BY <4>1, <4>2
      <4>4. ends[n] = AlignUp(ends[n - 1], 1) + 1
        BY <1>12, <1>13, <4>1 DEF EndOneByOne
      <4>5. AlignUp(n - 1, 1) = n - 1
        BY <4>1 DEF AlignUp
      <4> QED
        BY <2>1, <4>3, <4>4, <4>5
    <3> QED
      BY <3>1, <3>2
  <2>3. \A n \in D : (\A m \in D : rank[m] < rank[n] => h[m] \in R) => h[n] \in R
    BY <2>2
  <2>4. \A n \in D : h[n] \in R
    <3> HIDE DEF D, rank, h, R
    <3> QED
      BY <2>1, <2>3, StaysIn
  <2>5. \A n \in D : ends[n] \in Nat /\ n \in Nat
    BY <1>12, <1>13, <2>1 DEF EndOneByOne
  <2> QED
    BY <2>4, <2>5
<1>17. ASSUME NEW n \in 1 .. Len(fields)
       PROVE  Offset(v, n) = n - 1
  <2>1. n - 1 \in 0 .. Len(fields)
    BY <1>3
  <2>2. Offset(v, n) = AlignUp(n - 1, 1)
    BY <1>12, <1>15, <1>16, <2>1
  <2>3. AlignUp(n - 1, 1) = n - 1
    BY <2>1 DEF AlignUp
  <2> QED
    BY <2>2, <2>3
<1>18. Len(bytes) \in Nat /\ Len(bytes) = Len(fields)
  <2>1. Len(bytes) \in Nat
    BY ValuesAssumption DEF bytes
  <2> QED
    BY <1>3, <1>4, <2>1
<1>19. SizeV(v) = Len(fields)
  BY <1>3, <1>14, <1>16 DEF SizeV
<1> QED
  BY <1>5, <1>9, <1>10, <1>17, <1>18, <1>19 DEF fields, bytes

-----------------------------------------------------------------------------
(* The references in values *)

RefsStep(h, v) ==
  CASE v.k = "Struct" -> UNION { h[v.fields[n]] : n \in 1 .. Len(v.fields) }
    [] v.k = "PtrTo"  -> {v.ref}
    [] OTHER          -> {}

\* What refs is.
LEMMA RefsDef == \A v \in Parts : refs[v] = RefsStep(refs, v)
<1> DEFINE IsRefs(h) == h = [v \in Parts |-> RefsStep(h, v)]
           R == SUBSET { v.ref : v \in Parts }
           F == [v \in Parts |-> [h \in [Parts -> R] |-> RefsStep(h, v)]]
<1>1. refs = CHOOSE h : IsRefs(h)
  BY DEF refs, RefsStep
<1>2. Depth \in [Parts -> Nat]
  BY ValuesAssumption
<1>3. ASSUME NEW v \in Parts, v.k = "Struct", NEW n \in 1 .. Len(v.fields)
      PROVE  v.fields[n] \in Parts /\ Depth[v.fields[n]] < Depth[v]
  <2>1. FieldsOf(v) = v.fields
    BY <1>3 DEF FieldsOf
  <2> QED
    BY <1>3, <2>1, FieldsAreParts
<1>4. F \in [Parts -> [[Parts -> R] -> R]]
  <2>1. ASSUME NEW v \in Parts, NEW h \in [Parts -> R]
        PROVE  RefsStep(h, v) \in R
    <3>1. CASE v.k = "Struct"
      <4>1. \A n \in 1 .. Len(v.fields) : h[v.fields[n]] \in R
        BY <1>3, <3>1
      <4>2. UNION { h[v.fields[n]] : n \in 1 .. Len(v.fields) } \in R
        BY <4>1
      <4> QED
        BY <3>1, <4>2 DEF RefsStep
    <3>2. CASE v.k = "PtrTo"
      BY <3>2 DEF RefsStep
    <3>3. CASE v.k \notin {"Struct", "PtrTo"}
      BY <3>3 DEF RefsStep
    <3> QED
      BY <3>1, <3>2, <3>3
  <2> HIDE DEF R
  <2> QED
    BY <2>1
<1>5. \A v \in Parts : \A h \in [Parts -> R] : F[v][h] = RefsStep(h, v)
  OBVIOUS
<1>6. R # {}
  OBVIOUS
<1> HIDE DEF F, R
<1>7. ASSUME NEW v \in Parts, NEW f, NEW g, \A w \in Parts : Depth[w] < Depth[v] => f[w] = g[w]
      PROVE  RefsStep(f, v) = RefsStep(g, v)
  <2>1. CASE v.k = "Struct"
    <3>1. \A n \in 1 .. Len(v.fields) : f[v.fields[n]] = g[v.fields[n]]
      BY <1>3, <1>7, <2>1
    <3>2. { f[v.fields[n]] : n \in 1 .. Len(v.fields) } = { g[v.fields[n]] : n \in 1 .. Len(v.fields) }
      BY <3>1
    <3> QED
      BY <2>1, <3>2 DEF RefsStep
  <2>2. CASE v.k # "Struct"
    BY <2>2 DEF RefsStep
  <2> QED
    BY <2>1, <2>2
<1>8. Local(F, Parts, R, Depth)
  BY <1>5, <1>7 DEF Local
<1>9. PICK f \in [Parts -> R] : \A v \in Parts : f[v] = F[v][f]
  <2>1. GoesDown(F, Parts, R, Depth)
    BY <1>2, <1>4, <1>6, <1>8 DEF GoesDown
  <2>2. HasFunction(F, Parts, R)
    BY <2>1, RecursionHasFunction
  <2> QED
    BY <2>2 DEF HasFunction
<1>10. f = [v \in Parts |-> RefsStep(f, v)]
  BY <1>5, <1>9
<1>11. IsRefs(refs)
  <2>1. \E h : IsRefs(h)
    BY <1>10
  <2> HIDE DEF IsRefs
  <2> QED
    BY <1>1, <2>1
<1> QED
  BY <1>11

-----------------------------------------------------------------------------
(* Bytes *)

LEMMA Powers == 256 ^ 0 = 1 /\ 256 ^ 1 = 256 /\ 256 ^ 2 = 65536 /\ 256 ^ 3 = 16777216 /\ 256 ^ 4 = 4294967296
  OBVIOUS

\* A few bytes.
AreBytes(bytes) == Len(bytes) \in 0 .. 4 /\ \A n \in 1 .. Len(bytes) : bytes[n] \in Nat

\* value is the numbers the first bytes stand for.
AddsUp(bytes, value) ==
  /\ value[0] = 0
  /\ \A n \in 1 .. Len(bytes) :
       value[n] \in Nat /\ value[n] = value[n - 1] + bytes[n] * 256 ^ (n - 1)

\* What FromBytes computes, for the widths that are read.
LEMMA FromBytesDef ==
  ASSUME NEW bytes, AreBytes(bytes)
  PROVE  \E value : FromBytes(bytes) = value[Len(bytes)] /\ AddsUp(bytes, value)
<1> USE DEF AreBytes
<1> DEFINE D == 0 .. Len(bytes)
           Step(h, n) == IF n = 0 THEN 0 ELSE h[n - 1] + bytes[n] * 256 ^ (n - 1)
           IsValue(h) == h = [n \in D |-> Step(h, n)]
           value == CHOOSE h : IsValue(h)
           rank == [n \in D |-> n]
           F == [n \in D |-> [h \in [D -> Nat] |-> Step(h, n)]]
<1>1. FromBytes(bytes) = value[Len(bytes)]
  BY DEF FromBytes
<1>2. /\ Nat # {} /\ rank \in [D -> Nat] /\ D \subseteq Nat
      /\ \A n \in D : rank[n] = n /\ n \in Nat
      /\ \A n \in D : n # 0 => n \in 1 .. Len(bytes) /\ n - 1 \in D /\ n - 1 < n /\ n \in {1, 2, 3, 4}
  OBVIOUS
<1>3. ASSUME NEW n \in D, NEW h, \A m \in D : m < n => h[m] \in Nat
      PROVE  Step(h, n) \in Nat
  <2>1. CASE n = 0
    BY <2>1
  <2>2. CASE n # 0
    <3>1. h[n - 1] \in Nat /\ bytes[n] \in Nat
      BY <1>2, <1>3, <2>2
    <3>2. 256 ^ (n - 1) \in {1, 256, 65536, 16777216}
      <4>1. n = 1 \/ n = 2 \/ n = 3 \/ n = 4
        BY <1>2, <2>2
      <4>2. PICK e \in {0, 1, 2, 3} : n - 1 = e
        BY <4>1
      <4>3. e = 0 \/ e = 1 \/ e = 2 \/ e = 3
        OBVIOUS
      <4>4. 256 ^ e \in {1, 256, 65536, 16777216}
        <5>1. CASE e = 0
          BY <5>1, Powers
        <5>2. CASE e = 1
          BY <5>2, Powers
        <5>3. CASE e = 2
          BY <5>3, Powers
        <5>4. CASE e = 3
          BY <5>4, Powers
        <5> QED
          BY <4>3, <5>1, <5>2, <5>3, <5>4
      <4> QED
        BY <4>2, <4>4
    <3>3. bytes[n] * 256 ^ (n - 1) \in Nat
      BY <3>1, <3>2
    <3> QED
      BY <2>2, <3>1, <3>3
  <2> QED
    BY <2>1, <2>2
<1>4. ASSUME NEW n \in D, NEW f, NEW g, \A m \in D : m < n => f[m] = g[m]
      PROVE  Step(f, n) = Step(g, n)
  BY <1>2, <1>4
<1> HIDE DEF Step, value
<1>5. F \in [D -> [[D -> Nat] -> Nat]]
  <2>1. ASSUME NEW n \in D, NEW h \in [D -> Nat]
        PROVE  Step(h, n) \in Nat
    BY <1>3
  <2> QED
    BY <2>1
<1>6. \A n \in D : \A h \in [D -> Nat] : F[n][h] = Step(h, n)
  OBVIOUS
<1> HIDE DEF F, D, rank
<1>7. Local(F, D, Nat, rank)
  <2> SUFFICES ASSUME NEW n \in D, NEW f \in [D -> Nat], NEW g \in [D -> Nat],
                      \A m \in D : rank[m] < rank[n] => f[m] = g[m]
               PROVE  F[n][f] = F[n][g]
    BY DEF Local
  <2>1. \A m \in D : m < n => f[m] = g[m]
    BY <1>2
  <2> QED
    BY <1>4, <1>6, <2>1
<1>8. PICK f \in [D -> Nat] : \A n \in D : f[n] = F[n][f]
  <2>1. GoesDown(F, D, Nat, rank)
    BY <1>2, <1>5, <1>7 DEF GoesDown
  <2>2. HasFunction(F, D, Nat)
    BY <2>1, RecursionHasFunction
  <2> QED
    BY <2>2 DEF HasFunction
<1>9. f = [n \in D |-> Step(f, n)]
  BY <1>6, <1>8
<1>10. IsValue(value)
  <2>1. \E h : IsValue(h)
    BY <1>9
  <2> HIDE DEF IsValue
  <2> QED
    BY <2>1 DEF value
<1>11. \A n \in D : value[n] = Step(value, n)
  BY <1>10
<1>12. \A n \in D : value[n] \in Nat
  <2>1. ASSUME NEW n \in D, \A m \in D : rank[m] < rank[n] => value[m] \in Nat
        PROVE  value[n] \in Nat
    <3>1. \A m \in D : m < n => value[m] \in Nat
      BY <1>2, <2>1
    <3> QED
      BY <1>3, <1>11, <3>1
  <2>2. \A n \in D : (\A m \in D : rank[m] < rank[n] => value[m] \in Nat) => value[n] \in Nat
    BY <2>1
  <2>3. rank \in [D -> Nat]
    BY <1>2
  <2> HIDE DEF IsValue
  <2> QED
    BY <2>2, <2>3, StaysIn
<1>13. 0 \in D /\ \A n \in 1 .. Len(bytes) : n \in D /\ n # 0
  BY DEF D
<1>14. /\ value[0] = 0
       /\ \A n \in 1 .. Len(bytes) :
            value[n] \in Nat /\ value[n] = value[n - 1] + bytes[n] * 256 ^ (n - 1)
  BY <1>11, <1>12, <1>13 DEF Step
<1> QED
  BY <1>1, <1>14 DEF AddsUp

\* A number is read as it was written, if its width is enough.
LEMMA BytesRoundTrip ==
  ASSUME NEW n \in Nat, NEW w \in {1, 2, 4}, n \div 256 ^ (w - 1) < 256
  PROVE  FromBytes(LeBytes(n, w)) = n
<1> DEFINE bytes == LeBytes(n, w)
<1>1. Len(bytes) = w /\ \A i \in 1 .. w : bytes[i] = (n \div (256 ^ (i - 1))) % 256
  BY DEF LeBytes
<1> HIDE DEF bytes
<1>2. CASE w = 1
  <2>1. bytes[1] = (n \div 1) % 256
    BY <1>1, <1>2, Powers
  <2>2. n \div 1 < 256
    BY <1>2, Powers
  <2>3. bytes[1] = n
    BY <2>1, <2>2
  <2>4. \A i \in 1 .. Len(bytes) : bytes[i] \in Nat
    BY <1>1, <1>2, <2>3
  <2>5. PICK value : FromBytes(bytes) = value[Len(bytes)] /\ AddsUp(bytes, value)
    <3>1. AreBytes(bytes)
      BY <1>1, <1>2, <2>4 DEF AreBytes
    <3> QED
      BY <3>1, FromBytesDef
  <2>6. value[1] = 0 + n * 1
    BY <1>1, <1>2, <2>3, <2>5, Powers DEF AddsUp
  <2> QED
    BY <1>1, <1>2, <2>5, <2>6 DEF bytes
<1>3. CASE w = 2
  <2>1. bytes[1] = (n \div 1) % 256 /\ bytes[2] = (n \div 256) % 256
    BY <1>1, <1>3, Powers
  <2>2. n \div 256 < 256
    BY <1>3, Powers
  <2>3. /\ bytes[1] = n % 256 /\ bytes[2] = n \div 256
        /\ bytes[1] \in Nat /\ bytes[2] \in Nat
    BY <2>1, <2>2
  <2>4. \A i \in 1 .. Len(bytes) : bytes[i] \in Nat
    BY <1>1, <1>3, <2>3
  <2>5. PICK value : FromBytes(bytes) = value[Len(bytes)] /\ AddsUp(bytes, value)
    <3>1. AreBytes(bytes)
      BY <1>1, <1>3, <2>4 DEF AreBytes
    <3> QED
      BY <3>1, FromBytesDef
  <2>6. value[1] = 0 + bytes[1] * 1 /\ value[2] = value[1] + bytes[2] * 256
    BY <1>1, <1>3, <2>5, Powers DEF AddsUp
  <2>7. value[2] = n
    BY <2>3, <2>6
  <2> QED
    BY <1>1, <1>3, <2>5, <2>7 DEF bytes
<1>4. CASE w = 4
  <2>1. /\ bytes[1] = (n \div 1) % 256 /\ bytes[2] = (n \div 256) % 256
        /\ bytes[3] = (n \div 65536) % 256 /\ bytes[4] = (n \div 16777216) % 256
    BY <1>1, <1>4, Powers
  <2>2. n \div 16777216 < 256
    BY <1>4, Powers
  <2>3. /\ bytes[1] \in Nat /\ bytes[2] \in Nat /\ bytes[3] \in Nat /\ bytes[4] \in Nat
        /\ bytes[1] + bytes[2] * 256 + bytes[3] * 65536 + bytes[4] * 16777216 = n
    BY <2>1, <2>2
  <2>4. \A i \in 1 .. Len(bytes) : bytes[i] \in Nat
    BY <1>1, <1>4, <2>3
  <2>5. PICK value : FromBytes(bytes) = value[Len(bytes)] /\ AddsUp(bytes, value)
    <3>1. AreBytes(bytes)
      BY <1>1, <1>4, <2>4 DEF AreBytes
    <3> QED
      BY <3>1, FromBytesDef
  <2>6. /\ value[1] = 0 + bytes[1] * 1 /\ value[2] = value[1] + bytes[2] * 256
        /\ value[3] = value[2] + bytes[3] * 65536 /\ value[4] = value[3] + bytes[4] * 16777216
    BY <1>1, <1>4, <2>5, Powers DEF AddsUp
  <2>7. value[4] = n
    BY <2>3, <2>6
  <2> QED
    BY <1>1, <1>4, <2>5, <2>7 DEF bytes
<1> QED
  BY <1>2, <1>3, <1>4

\* A byte is written as it is.
LEMMA ByteFacts ==
  ASSUME NEW b \in 0 .. 255
  PROVE  Len(LeBytes(b, 1)) = 1 /\ LeBytes(b, 1)[1] = b
<1>1. LeBytes(b, 1)[1] = (b \div 1) % 256
  BY Powers DEF LeBytes
<1>2. (b \div 1) % 256 = b
  OBVIOUS
<1> QED
  BY <1>1, <1>2 DEF LeBytes

\* Inside of the buffer a write changes what it writes.
LEMMA WriteInside ==
  ASSUME NEW pos \in Nat, NEW bytes, Len(bytes) \in Nat, Len(buf) \in Nat,
         pos + Len(bytes) <= Len(buf)
  PROVE  /\ Len(WriteAll(pos, bytes)) = Len(buf)
         /\ \A i \in 1 .. Len(buf) :
              WriteAll(pos, bytes)[i] = IF i > pos /\ i <= pos + Len(bytes) THEN bytes[i - pos] ELSE buf[i]
<1> DEFINE n == Len(buf)  e == pos + Len(bytes)
<1>1. n \in Nat /\ e \in Nat /\ e <= n
  OBVIOUS
<1>2. Max({n, e}) = n
  <2> HIDE DEF n, e
  <2>1. \A x \in {n, e} : n >= x
    BY <1>1
  <2>2. Max({n, e}) \in {n, e} /\ \A x \in {n, e} : Max({n, e}) >= x
    BY <2>1 DEF Max
  <2> QED
    BY <1>1, <2>2
<1>3. WriteAll(pos, bytes) =
        [i \in 1 .. n |-> CASE i > pos /\ i <= e -> bytes[i - pos]
                            [] i <= n /\ ~(i > pos /\ i <= e) -> buf[i]
                            [] OTHER -> 0]
  BY <1>2 DEF WriteAll
<1>4. Len(WriteAll(pos, bytes)) = n
  BY <1>1, <1>3
<1>5. ASSUME NEW i \in 1 .. n
      PROVE  WriteAll(pos, bytes)[i] = IF i > pos /\ i <= e THEN bytes[i - pos] ELSE buf[i]
  <2>1. i <= n
    BY <1>1
  <2>2. WriteAll(pos, bytes)[i] = CASE i > pos /\ i <= e -> bytes[i - pos]
                                    [] i <= n /\ ~(i > pos /\ i <= e) -> buf[i]
                                    [] OTHER -> 0
    BY <1>3
  <2> HIDE DEF n, e
  <2> QED
    BY <2>1, <2>2
<1> QED
  BY <1>4, <1>5

-----------------------------------------------------------------------------
(* Where the items are *)

\* What is known of the state whatever is written and read.
StateInv ==
  /\ items \in Seq(Values) /\ addresses \in Seq(Nat) /\ curr \in Nat
  /\ pc \in {"build", "place", "write", "done", "panicked"}
  /\ pc = "build" => addresses = << >>
  /\ pc \in {"build", "place", "write"} => walk = Nowhere

\* The items placed are aligned, not null, one behind the other, and end by curr.
LaidOut ==
  /\ Len(addresses) <= Len(items)
  /\ \A n \in 1 .. Len(addresses) :
       /\ addresses[n] % AlignV(items[n]) = 0 /\ addresses[n] >= 8
       /\ addresses[n] + SizeV(items[n]) <= curr
  /\ \A m, n \in 1 .. Len(addresses) : m < n => addresses[m] + SizeV(items[m]) <= addresses[n]

\* The last item placed ends at curr.
EndsAtCurr ==
  curr = IF addresses = << >> THEN 8
         ELSE addresses[Len(addresses)] + SizeV(items[Len(addresses)])

PlaceInv ==
  /\ pc # "build" => LaidOut
  /\ pc = "place" => EndsAtCurr

\* An item is a value, with a size and an alignment.
LEMMA ItemFacts ==
  ASSUME StateInv
  PROVE  /\ Len(items) \in Nat /\ Len(addresses) \in Nat
         /\ \A n \in 1 .. Len(addresses) : addresses[n] \in Nat
         /\ \A n \in 1 .. Len(items) :
              /\ items[n] \in Values /\ items[n] \in Parts
              /\ SizeV(items[n]) \in Nat /\ AlignV(items[n]) \in {1, 2, 4}
<1>1. /\ items \in Seq(Values) /\ addresses \in Seq(Nat) /\ Values \subseteq Parts
  BY ValuesAssumption DEF StateInv
<1>2. \A n \in 1 .. Len(items) : items[n] \in Values /\ items[n] \in Parts
  BY <1>1
<1> QED
  BY <1>1, <1>2, ValueFacts

\* The step that places an item.
LEMMA PlaceItemFacts ==
  ASSUME StateInv, PlaceInv, PlaceItem
  PROVE  LET n == Len(addresses) + 1 IN
         /\ n \in 1 .. Len(items)
         /\ addresses' = Append(addresses, AlignUp(curr, AlignV(items[n])))
         /\ curr' = AlignUp(curr, AlignV(items[n])) + SizeV(items[n])
         /\ AlignUp(curr, AlignV(items[n])) \in curr .. curr + AlignV(items[n]) - 1
         /\ AlignUp(curr, AlignV(items[n])) % AlignV(items[n]) = 0
         /\ items' = items /\ pc' = pc /\ walk' = walk
<1> DEFINE n == Len(addresses) + 1  a == AlignV(items[n])
<1>1. n \in 1 .. Len(items)
  BY ItemFacts DEF PlaceItem
<1>2. a \in Nat \ {0} /\ curr \in Nat
  BY <1>1, ItemFacts DEF StateInv
<1>3. /\ addresses' = Append(addresses, AlignUp(curr, a))
      /\ curr' = AlignUp(curr, a) + SizeV(items[n])
      /\ items' = items /\ pc' = pc /\ walk' = walk
  BY DEF PlaceItem, AlignV, SizeV
<1> HIDE DEF a, n
<1>4. AlignUp(curr, a) \in curr .. curr + a - 1 /\ AlignUp(curr, a) % a = 0
  BY <1>2, AlignUpFacts
<1> QED
  BY <1>1, <1>3, <1>4 DEF a, n

LEMMA PlaceItemKeeps ==
  ASSUME StateInv, PlaceInv, PlaceItem
  PROVE  StateInv' /\ PlaceInv'
<1> DEFINE n == Len(addresses) + 1  v == items[n]  start == AlignUp(curr, AlignV(v))
<1>1. /\ n \in 1 .. Len(items) /\ addresses' = Append(addresses, start)
      /\ curr' = start + SizeV(v) /\ start \in curr .. curr + AlignV(v) - 1
      /\ start % AlignV(v) = 0 /\ items' = items /\ pc' = pc /\ walk' = walk
  BY PlaceItemFacts
<1> HIDE DEF start
<1>2. /\ addresses \in Seq(Nat) /\ curr \in Nat /\ SizeV(v) \in Nat /\ AlignV(v) \in Nat
      /\ Len(addresses) \in Nat /\ Len(items) \in Nat
      /\ \A k \in 1 .. Len(items) : SizeV(items[k]) \in Nat
      /\ \A k \in 1 .. Len(addresses) : addresses[k] \in Nat /\ k \in 1 .. Len(items)
  <2>1. addresses \in Seq(Nat) /\ curr \in Nat
    BY DEF StateInv
  <2>2. /\ Len(addresses) \in Nat /\ Len(items) \in Nat
        /\ \A k \in 1 .. Len(items) : SizeV(items[k]) \in Nat /\ AlignV(items[k]) \in Nat
        /\ \A k \in 1 .. Len(addresses) : addresses[k] \in Nat
    BY ItemFacts
  <2>3. SizeV(v) \in Nat /\ AlignV(v) \in Nat
    BY <1>1, <2>2
  <2>4. \A k \in 1 .. Len(addresses) : k \in 1 .. Len(items)
    BY <1>1, <2>2
  <2> QED
    BY <2>1, <2>2, <2>3, <2>4
<1> HIDE DEF v
<1>3. pc = "place" /\ LaidOut /\ EndsAtCurr
  BY DEF PlaceItem, PlaceInv
<1>4. start \in Nat /\ curr <= start
  BY <1>1, <1>2
<1>5. /\ Len(addresses') = n /\ addresses' # << >> /\ addresses' \in Seq(Nat) /\ addresses'[n] = start
      /\ \A k \in 1 .. Len(addresses) : addresses'[k] = addresses[k]
      /\ \A k \in 1 .. n : k = n \/ k \in 1 .. Len(addresses)
  <2>1. /\ Len(addresses') = n /\ addresses' # << >> /\ addresses' \in Seq(Nat) /\ addresses'[n] = start
        /\ \A k \in 1 .. Len(addresses) : addresses'[k] = addresses[k]
    <3>1. addresses' = Append(addresses, start) /\ addresses \in Seq(Nat) /\ start \in Nat
      BY <1>1, <1>2, <1>4
    <3> QED
      BY <3>1
  <2>2. \A k \in 1 .. n : k = n \/ k \in 1 .. Len(addresses)
    BY <1>2
  <2> QED
    BY <2>1, <2>2
<1>6. StateInv'
  BY <1>1, <1>2, <1>3, <1>4, <1>5 DEF StateInv
<1>7. start >= 8
  <2>1. CASE addresses = << >>
    BY <1>2, <1>3, <1>4, <2>1 DEF EndsAtCurr
  <2>2. CASE addresses # << >>
    <3>1. Len(addresses) \in 1 .. Len(addresses) /\ Len(addresses) \in 1 .. Len(items)
      BY <1>1, <1>2, <2>2
    <3>2. addresses[Len(addresses)] >= 8
      BY <1>3, <3>1 DEF LaidOut
    <3> QED
      BY <1>2, <1>3, <1>4, <2>2, <3>1, <3>2 DEF EndsAtCurr
  <2> QED
    BY <2>1, <2>2
<1>8. ASSUME NEW k \in 1 .. Len(addresses)
      PROVE  /\ addresses'[k] % AlignV(items[k]) = 0 /\ addresses'[k] >= 8
             /\ addresses'[k] + SizeV(items[k]) <= start
  <2>1. /\ addresses[k] % AlignV(items[k]) = 0 /\ addresses[k] >= 8
        /\ addresses[k] + SizeV(items[k]) <= curr
    BY <1>3 DEF LaidOut
  <2>2. addresses[k] \in Nat /\ SizeV(items[k]) \in Nat /\ addresses'[k] = addresses[k]
    BY <1>2, <1>5
  <2>3. addresses[k] + SizeV(items[k]) <= start
    BY <1>2, <1>4, <2>1, <2>2
  <2> QED
    BY <2>1, <2>2, <2>3
<1>9. LaidOut'
  <2>1. \A k \in 1 .. n :
          /\ addresses'[k] % AlignV(items[k]) = 0 /\ addresses'[k] >= 8
          /\ addresses'[k] + SizeV(items[k]) <= start + SizeV(v)
    <3> SUFFICES ASSUME NEW k \in 1 .. n
                 PROVE  /\ addresses'[k] % AlignV(items[k]) = 0 /\ addresses'[k] >= 8
                        /\ addresses'[k] + SizeV(items[k]) <= start + SizeV(v)
      OBVIOUS
    <3>1. CASE k = n
      <4>1. addresses'[k] = start /\ items[k] = v /\ start % AlignV(v) = 0
        BY <1>1, <1>5, <3>1 DEF v
      <4> QED
        BY <1>2, <1>4, <1>7, <4>1
    <3>2. CASE k \in 1 .. Len(addresses)
      <4>1. addresses'[k] \in Nat /\ SizeV(items[k]) \in Nat
        BY <1>1, <1>2, <1>5, <3>2
      <4> QED
        BY <1>2, <1>4, <1>8, <3>2, <4>1
    <3> QED
      BY <1>5, <3>1, <3>2
  <2>2. \A j, k \in 1 .. n : j < k => addresses'[j] + SizeV(items[j]) <= addresses'[k]
    <3> SUFFICES ASSUME NEW j \in 1 .. n, NEW k \in 1 .. n, j < k
                 PROVE  addresses'[j] + SizeV(items[j]) <= addresses'[k]
      OBVIOUS
    <3>1. j \in 1 .. Len(addresses)
      BY <1>2
    <3>2. CASE k = n
      BY <1>5, <1>8, <3>1, <3>2
    <3>3. CASE k \in 1 .. Len(addresses)
      BY <1>3, <1>5, <3>1, <3>3 DEF LaidOut
    <3> QED
      BY <1>5, <3>2, <3>3
  <2>3. n <= Len(items)
    BY <1>1
  <2> QED
    BY <1>1, <1>5, <2>1, <2>2, <2>3 DEF LaidOut
<1>10. EndsAtCurr'
  <2>1. addresses'[Len(addresses')] = start /\ items'[Len(addresses')] = v
    BY <1>1, <1>5 DEF v
  <2> QED
    BY <1>1, <1>5, <2>1 DEF EndsAtCurr
<1> QED
  BY <1>1, <1>3, <1>6, <1>9, <1>10 DEF PlaceInv

LEMMA LayoutInit == Init => StateInv /\ PlaceInv
  BY DEF Init, StateInv, PlaceInv

\* What the steps do that place nothing.
MovesNoItem ==
  /\ items' = items /\ addresses' = addresses /\ curr' = curr /\ pc # "build"
  /\ \/ pc' = pc
     \/ pc' = "done" /\ pc = "write"
     \/ pc' = "write" /\ pc = "place"
     \/ pc' = "panicked"
  /\ pc' \in {"place", "write"} => walk' = walk

\* A step adds an item, starts to place items, places one, or moves none.
LEMMA StepKinds ==
  ASSUME [Next]_vars
  PROVE  \/ \E v \in Values : AddItem(v)
         \/ StartCompile \/ PlaceItem \/ MovesNoItem \/ UNCHANGED vars
<1>1. CASE Zero
  BY <1>1 DEF Zero, MovesNoItem
<1>2. CASE WriteStruct
  BY <1>2 DEF WriteStruct, AtValue, MovesNoItem
<1>3. CASE WriteScalar
  BY <1>3 DEF WriteScalar, MovesNoItem
<1>4. CASE WritePointer
  BY <1>4 DEF WritePointer, AtValue, MovesNoItem
<1>5. CASE EndCompile
  BY <1>5 DEF EndCompile, MovesNoItem
<1>6. ASSUME NEW ref \in 1 .. MaxItems, LoadAddress(ref)
      PROVE  MovesNoItem
  BY <1>6 DEF LoadAddress, MovesNoItem
<1>7. ASSUME NEW n \in 1 .. Len(FieldsOf(walk.at)), GoToField(n)
      PROVE  MovesNoItem
  BY <1>7 DEF GoToField, MovesNoItem
<1>8. CASE Follow
  BY <1>8 DEF Follow, MovesNoItem
<1>9. CASE Stopped
  BY <1>9 DEF Stopped
<1> QED
  BY <1>1, <1>2, <1>3, <1>4, <1>5, <1>6, <1>7, <1>8, <1>9 DEF Next

LEMMA LayoutStep ==
  ASSUME StateInv, PlaceInv, [Next]_vars
  PROVE  StateInv' /\ PlaceInv'
<1>1. ASSUME NEW v \in Values, AddItem(v)
      PROVE  StateInv' /\ PlaceInv'
  BY <1>1 DEF AddItem, StateInv, PlaceInv
<1>2. CASE StartCompile
  <2>1. curr' \in Nat /\ addresses = << >> /\ addresses' = addresses /\ items' = items /\ walk' = walk /\ walk = Nowhere
    BY <1>2 DEF StartCompile, StateInv
  <2>2. pc' \in {"place", "done"} /\ (pc' = "place" => curr' = 8)
    BY <1>2 DEF StartCompile
  <2>3. StateInv'
    BY <2>1, <2>2 DEF StateInv
  <2>4. LaidOut'
    BY <2>1, ItemFacts DEF LaidOut
  <2> QED
    BY <2>1, <2>2, <2>3, <2>4 DEF PlaceInv, EndsAtCurr
<1>3. CASE PlaceItem
  BY <1>3, PlaceItemKeeps
<1>4. CASE MovesNoItem
  <2>1. items' = items /\ addresses' = addresses /\ curr' = curr
    BY <1>4 DEF MovesNoItem
  <2>2. (LaidOut' <=> LaidOut) /\ (EndsAtCurr' <=> EndsAtCurr)
    BY <2>1 DEF LaidOut, EndsAtCurr
  <2>3. StateInv'
    BY <1>4, <2>1 DEF StateInv, MovesNoItem
  <2>4. PlaceInv'
    BY <1>4, <2>2 DEF PlaceInv, MovesNoItem
  <2> QED
    BY <2>3, <2>4
<1>5. CASE UNCHANGED vars
  <2>1. (LaidOut' <=> LaidOut) /\ (EndsAtCurr' <=> EndsAtCurr)
    BY <1>5 DEF LaidOut, EndsAtCurr, vars
  <2> QED
    BY <1>5, <2>1 DEF StateInv, PlaceInv, vars
<1> QED
  BY <1>1, <1>2, <1>3, <1>4, <1>5, StepKinds

\* What is placed is a list of the items placed.
LEMMA PlacedFacts ==
  ASSUME StateInv, Len(addresses) <= Len(items)
  PROVE  /\ Len(Placed) = Len(addresses)
         /\ \A n \in 1 .. Len(addresses) :
              Placed[n] = [addr |-> addresses[n], size |-> SizeV(items[n]), align |-> AlignV(items[n])]
<1>1. Len(addresses) \in Nat
  BY ItemFacts
<1>2. Len(Placed) = Len(addresses)
  BY <1>1 DEF Placed
<1>3. ASSUME NEW n \in 1 .. Len(addresses)
      PROVE  ItemSize[items[n]] = SizeV(items[n]) /\ ItemAlignment[items[n]] = AlignV(items[n])
  <2>1. n \in 1 .. Len(items)
    BY ItemFacts
  <2>2. items[n] \in Values
    BY <2>1, ItemFacts
  <2> QED
    BY <2>2 DEF ItemSize, ItemAlignment, SizeV, AlignV
<1> QED
  BY <1>2, <1>3 DEF Placed

\* A placed item is one that Placement allows.
LEMMA PlaceItemIsPlace ==
  ASSUME StateInv, PlaceInv, PlaceItem
  PROVE  Promise!Next
<1> DEFINE n == Len(addresses) + 1  v == items[n]  start == AlignUp(curr, AlignV(v))
           new == [addr |-> start, size |-> SizeV(v), align |-> AlignV(v)]
<1>1. /\ n \in 1 .. Len(items) /\ addresses' = Append(addresses, start)
      /\ start \in curr .. curr + AlignV(v) - 1 /\ start % AlignV(v) = 0 /\ items' = items
  BY PlaceItemFacts
<1> HIDE DEF start
<1>2. StateInv' /\ pc = "place" /\ LaidOut /\ EndsAtCurr
  BY PlaceItemKeeps DEF PlaceItem, PlaceInv
<1>3. Len(addresses) \in Nat /\ Len(items) \in Nat /\ v \in Values /\ addresses \in Seq(Nat)
  BY <1>1, ItemFacts DEF StateInv
<1>4. SizeV(v) = ItemSize[v] /\ AlignV(v) = ItemAlignment[v]
  BY <1>3 DEF SizeV, AlignV, ItemSize, ItemAlignment
<1>5. SizeV(v) \in Range(ItemSize) /\ AlignV(v) \in Range(ItemAlignment)
  BY <1>3, <1>4 DEF Range, ItemSize, ItemAlignment
<1>6. Promise!End = curr
  <2>1. /\ Len(Placed) = Len(addresses)
        /\ \A k \in 1 .. Len(addresses) :
             Placed[k] = [addr |-> addresses[k], size |-> SizeV(items[k]), align |-> AlignV(items[k])]
    BY <1>2, PlacedFacts DEF LaidOut
  <2>2. CASE addresses = << >>
    <3>1. Placed = << >>
      BY <2>2 DEF Placed
    <3> QED
      BY <1>2, <2>2, <3>1 DEF EndsAtCurr, Promise!End, Promise!FirstAddress
  <2>3. CASE addresses # << >>
    <3>1. Len(addresses) \in 1 .. Len(addresses)
      BY <1>3, <2>3
    <3>2. Placed # << >>
      BY <2>1, <3>1
    <3>3. Placed[Len(addresses)] = [addr |-> addresses[Len(addresses)], size |-> SizeV(items[Len(addresses)]),
                                     align |-> AlignV(items[Len(addresses)])]
      BY <2>1, <3>1
    <3>4. Placed[Len(Placed)].addr = addresses[Len(addresses)] /\ Placed[Len(Placed)].size = SizeV(items[Len(addresses)])
      BY <2>1, <3>3
    <3> QED
      BY <1>2, <2>3, <3>2, <3>4 DEF EndsAtCurr, Promise!End
  <2> QED
    BY <2>2, <2>3
<1>7. Placed' = Append(Placed, new)
  <2>1. Len(addresses') = n /\ addresses'[n] = start /\ \A k \in 1 .. Len(addresses) : addresses'[k] = addresses[k]
    <3>1. start \in Nat
      <4>1. curr \in Nat /\ AlignV(v) \in Nat
        BY <1>1, ItemFacts DEF StateInv
      <4> HIDE DEF v
      <4> QED
        BY <1>1, <4>1
    <3> QED
      BY <1>1, <1>3, <3>1
  <2> DEFINE bytes(k) == ItemSize[items[k]]
             align(k) == ItemAlignment[items[k]]
  <2>2. /\ Placed' = [k \in 1 .. n |-> [addr |-> addresses'[k], size |-> bytes(k), align |-> align(k)]]
        /\ Placed  = [k \in 1 .. Len(addresses) |-> [addr |-> addresses[k], size |-> bytes(k), align |-> align(k)]]
    BY <1>1, <2>1 DEF Placed, ItemSize, ItemAlignment
  <2>3. new = [addr |-> addresses'[n], size |-> bytes(n), align |-> align(n)]
    BY <1>4, <2>1
  <2> HIDE DEF bytes, align
  <2>4. Append(Placed, new) = [k \in 1 .. n |-> IF k = n THEN new ELSE Placed[k]]
    BY <1>3, <2>2
  <2> QED
    BY <1>3, <2>1, <2>2, <2>3, <2>4
<1>8. Promise!Place(SizeV(v), AlignV(v))
  BY <1>1, <1>6, <1>7 DEF Promise!Place
<1> QED
  BY <1>5, <1>8 DEF Promise!Next

\* Items are placed as Placement says: behind what is placed so far, without a
\* gap longer than their alignment asks for.
THEOREM PlacesItems == Spec => RefinesPlacement
<1>1. Init => Promise!Init
  BY DEF Init, Promise!Init, Placed
<1>2. StateInv /\ PlaceInv /\ [Next]_vars => [Promise!Next]_Placed
  <2> SUFFICES ASSUME StateInv, PlaceInv, [Next]_vars
               PROVE  Promise!Next \/ Placed' = Placed
    OBVIOUS
  <2>1. ASSUME NEW v \in Values, AddItem(v)
        PROVE  Placed' = Placed
    <3>1. addresses = << >> /\ addresses' = << >>
      BY <2>1 DEF AddItem, StateInv
    <3> QED
      BY <3>1 DEF Placed
  <2>2. CASE StartCompile
    <3>1. addresses = << >> /\ addresses' = << >>
      BY <2>2 DEF StartCompile, StateInv
    <3> QED
      BY <3>1 DEF Placed
  <2>3. CASE PlaceItem
    BY <2>3, PlaceItemIsPlace
  <2>4. CASE MovesNoItem
    BY <2>4 DEF MovesNoItem, Placed, ItemSize, ItemAlignment
  <2>5. CASE UNCHANGED vars
    BY <2>5 DEF vars, Placed, ItemSize, ItemAlignment
  <2> QED
    BY <2>1, <2>2, <2>3, <2>4, <2>5, StepKinds
<1> QED
  BY LayoutInit, LayoutStep, <1>1, <1>2, PTL DEF Spec, RefinesPlacement, Promise!Spec

\* What is placed ends before End, so that the next item may go there.
Below == \A k \in 1 .. Len(Placed) : Placed[k].addr + Placed[k].size <= Promise!End

PlacementInv == Promise!TypeOK /\ Below /\ Promise!Ordered /\ Promise!Aligned

\* The address and the size of an item are numbers.
LEMMA ItemFields ==
  ASSUME Promise!PlacementAssumption, NEW i \in Promise!Items
  PROVE  i.addr \in Nat /\ i.size \in Nat
<1>1. i.addr \in Nat /\ i.size \in Range(ItemSize)
  BY DEF Promise!Items
<1> QED
  BY <1>1 DEF Promise!PlacementAssumption

\* The invariant holds before the first item.
LEMMA PlacementInit == Promise!Init => PlacementInv
  BY DEF Promise!Init, PlacementInv, Promise!TypeOK, Below, Promise!Ordered, Promise!Aligned

\* One more item, behind the others, keeps the invariant.
LEMMA PlaceKeepsInv ==
  ASSUME Promise!PlacementAssumption, PlacementInv,
         NEW sz \in Range(ItemSize), NEW align \in Range(ItemAlignment), Promise!Place(sz, align)
  PROVE  PlacementInv'
<1> DEFINE new(addr) == [addr |-> addr, size |-> sz, align |-> align]
<1>1. sz \in Nat /\ align \in Nat \ {0}
  BY DEF Promise!PlacementAssumption
<1>2. Promise!End \in Nat /\ Promise!End >= Promise!FirstAddress
  <2>1. CASE Placed = << >>
    BY <2>1 DEF Promise!End, Promise!FirstAddress
  <2>2. CASE Placed # << >>
    <3>1. Len(Placed) \in 1 .. Len(Placed)
      BY <2>2 DEF PlacementInv, Promise!TypeOK
    <3>2. Placed[Len(Placed)] \in Promise!Items
      BY <3>1, ElementOfSeq DEF PlacementInv, Promise!TypeOK
    <3>3. Placed[Len(Placed)].addr >= Promise!FirstAddress
      BY <3>1 DEF PlacementInv, Promise!Aligned
    <3>4. Placed[Len(Placed)].addr \in Nat /\ Placed[Len(Placed)].size \in Nat
      BY <3>2, ItemFields
    <3> QED
      BY <2>2, <3>3, <3>4 DEF Promise!End, Promise!FirstAddress
  <2> QED
    BY <2>1, <2>2
<1>3. PICK addr \in Promise!End .. Promise!End + align - 1 : addr % align = 0 /\ Placed' = Append(Placed, new(addr))
  BY DEF Promise!Place
<1>4. addr \in Nat /\ addr >= Promise!End /\ addr >= Promise!FirstAddress
  BY <1>1, <1>2, <1>3 DEF Promise!FirstAddress
<1>5. Promise!TypeOK'
  BY <1>3, <1>4 DEF PlacementInv, Promise!TypeOK, Promise!Items
<1>6. /\ Len(Placed') = Len(Placed) + 1 /\ Len(Placed) \in Nat
      /\ Placed'[Len(Placed) + 1] = new(addr)
      /\ \A k \in 1 .. Len(Placed) : Placed'[k] = Placed[k]
  BY <1>3, <1>4 DEF PlacementInv, Promise!TypeOK
<1>7. \A k \in 1 .. Len(Placed) :
        /\ Placed[k].addr \in Nat /\ Placed[k].size \in Nat
        /\ Placed[k].addr + Placed[k].size <= addr
  <2> SUFFICES ASSUME NEW k \in 1 .. Len(Placed)
               PROVE  /\ Placed[k].addr \in Nat /\ Placed[k].size \in Nat
                      /\ Placed[k].addr + Placed[k].size <= addr
    OBVIOUS
  <2>1. Placed[k] \in Promise!Items
    BY ElementOfSeq DEF PlacementInv, Promise!TypeOK
  <2>2. Placed[k].addr + Placed[k].size <= Promise!End
    BY DEF PlacementInv, Below
  <2>3. Placed[k].addr \in Nat /\ Placed[k].size \in Nat
    BY <2>1, ItemFields
  <2> QED
    BY <1>2, <1>4, <2>2, <2>3
<1>8. Promise!End' = addr + sz
  BY <1>6 DEF Promise!End
<1>9. Below'
  BY <1>1, <1>4, <1>6, <1>7, <1>8 DEF Below
<1>10. Promise!Ordered'
  <2> SUFFICES ASSUME NEW j \in 1 .. Len(Placed'), NEW k \in 1 .. Len(Placed'), j < k
               PROVE  Placed'[j].addr + Placed'[j].size <= Placed'[k].addr
    BY DEF Promise!Ordered
  <2>1. CASE k \in 1 .. Len(Placed)
    BY <1>6, <2>1 DEF PlacementInv, Promise!Ordered
  <2>2. CASE k = Len(Placed) + 1
    BY <1>6, <1>7, <2>2
  <2> QED
    BY <1>6, <2>1, <2>2
<1>11. Promise!Aligned'
  BY <1>3, <1>4, <1>6 DEF PlacementInv, Promise!Aligned
<1> QED
  BY <1>5, <1>9, <1>10, <1>11 DEF PlacementInv

\* Items never overlap, whatever their sizes, and are never null or misaligned.
THEOREM ItemsApart ==
  ASSUME Promise!PlacementAssumption
  PROVE  Promise!Spec => [](Promise!TypeOK /\ Promise!Ordered /\ Promise!Aligned)
<1>1. PlacementInv /\ [Promise!Next]_Placed => PlacementInv'
  <2> SUFFICES ASSUME PlacementInv, [Promise!Next]_Placed
               PROVE  PlacementInv'
    OBVIOUS
  <2>1. CASE Promise!Next
    BY <2>1, PlaceKeepsInv DEF Promise!Next
  <2>2. CASE UNCHANGED Placed
    BY <2>2 DEF PlacementInv, Promise!TypeOK, Below, Promise!Ordered, Promise!Aligned, Promise!End
  <2> QED
    BY <2>1, <2>2
<1>2. PlacementInv => Promise!TypeOK /\ Promise!Ordered /\ Promise!Aligned
  BY DEF PlacementInv
<1> QED
  BY PlacementInit, <1>1, <1>2, PTL DEF Promise!Spec

\* Sizes and alignments are what Placement takes them for.
LEMMA SizesAndAlignments == Promise!PlacementAssumption
<1>1. \A v \in Values : ItemSize[v] \in Nat /\ ItemAlignment[v] \in Nat \ {0}
  <2> SUFFICES ASSUME NEW v \in Values
               PROVE  ItemSize[v] \in Nat /\ ItemAlignment[v] \in Nat \ {0}
    OBVIOUS
  <2>1. v \in Parts
    BY ValuesAssumption
  <2>2. SizeV(v) \in Nat /\ AlignV(v) \in Nat \ {0}
    BY <2>1, ValueFacts
  <2> QED
    BY <2>2 DEF ItemSize, ItemAlignment, SizeV, AlignV
<1>2. DOMAIN ItemSize = Values /\ DOMAIN ItemAlignment = Values
  BY DEF ItemSize, ItemAlignment
<1> QED
  BY <1>1, <1>2 DEF Range, Promise!PlacementAssumption

\* compile() keeps the items of static memory apart, aligned and off the null
\* address, because it places them as Placement says.
THEOREM StaticItemsApart == Spec => [](Promise!TypeOK /\ Promise!Ordered /\ Promise!Aligned)
<1>1. Promise!Spec => [](Promise!TypeOK /\ Promise!Ordered /\ Promise!Aligned)
  BY SizesAndAlignments, ItemsApart
<1> QED
  BY <1>1, PlacesItems, PTL DEF RefinesPlacement

-----------------------------------------------------------------------------
(* Values and their places *)

Places == [pos : Nat, value : Parts]

Inside(p, q) == q.pos <= p.pos /\ p.pos + SizeV(p.value) <= q.pos + SizeV(q.value)

Apart(p, q) == p.pos + SizeV(p.value) <= q.pos \/ q.pos + SizeV(q.value) <= p.pos

\* Where a field of the value at p is, and where an item is.
FieldAt(p, n) == At(p.pos + Offset(p.value, n), FieldsOf(p.value)[n])

ItemAt(n) == At(addresses[n], items[n])

LEMMA PlaceFacts ==
  ASSUME NEW p \in Places
  PROVE  /\ p.pos \in Nat /\ p.value \in Parts
         /\ SizeV(p.value) \in Nat /\ AlignV(p.value) \in {1, 2, 4}
<1>1. p.pos \in Nat /\ p.value \in Parts
  BY DEF Places
<1> QED
  BY <1>1, ValueFacts

LEMMA ApartFromInside ==
  ASSUME NEW p \in Places, NEW q \in Places, NEW r \in Places, Inside(p, q)
  PROVE  /\ Apart(q, r) => Apart(p, r)
         /\ Apart(r, q) => Apart(r, p)
<1>1. /\ p.pos \in Nat /\ SizeV(p.value) \in Nat /\ q.pos \in Nat /\ SizeV(q.value) \in Nat
      /\ r.pos \in Nat /\ SizeV(r.value) \in Nat
  BY PlaceFacts
<1> QED
  BY <1>1 DEF Inside, Apart

\* The fields of a value are inside of it, aligned and apart.
LEMMA FieldPlaces ==
  ASSUME NEW p \in Places, HasFields(p.value)
  PROVE  /\ \A n \in 1 .. Len(FieldsOf(p.value)) :
              /\ FieldAt(p, n) \in Places /\ Inside(FieldAt(p, n), p)
              /\ p.pos % AlignV(p.value) = 0 => FieldAt(p, n).pos % AlignV(FieldAt(p, n).value) = 0
         /\ \A m, n \in 1 .. Len(FieldsOf(p.value)) : m < n => Apart(FieldAt(p, m), FieldAt(p, n))
<1> DEFINE v == p.value
<1>1. p.pos \in Nat /\ v \in Parts /\ SizeV(v) \in Nat
  BY PlaceFacts
<1>2. /\ Len(FieldsOf(v)) \in Nat
      /\ \A n \in 1 .. Len(FieldsOf(v)) : FieldsOf(v)[n] \in Parts /\ SizeV(FieldsOf(v)[n]) \in Nat
  BY <1>1, FieldsAreParts, ValueFacts
<1>3. \A n \in 1 .. Len(FieldsOf(v)) :
        /\ Offset(v, n) \in Nat /\ Offset(v, n) + SizeV(FieldsOf(v)[n]) <= SizeV(v)
        /\ \A m \in 1 .. n - 1 : Offset(v, m) + SizeV(FieldsOf(v)[m]) <= Offset(v, n)
  BY <1>1, FieldFacts
<1>4. \A n : FieldAt(p, n).pos = p.pos + Offset(v, n) /\ FieldAt(p, n).value = FieldsOf(v)[n]
  BY DEF FieldAt, At
<1>5. ASSUME NEW n \in 1 .. Len(FieldsOf(v))
      PROVE  FieldAt(p, n) \in Places /\ Inside(FieldAt(p, n), p)
  <2>1. p.pos + Offset(v, n) \in Nat /\ FieldsOf(v)[n] \in Parts
    BY <1>1, <1>2, <1>3
  <2>2. FieldAt(p, n) \in Places
    BY <2>1 DEF FieldAt, At, Places
  <2>3. p.pos <= p.pos + Offset(v, n) /\ p.pos + Offset(v, n) + SizeV(FieldsOf(v)[n]) <= p.pos + SizeV(v)
    BY <1>1, <1>2, <1>3
  <2> QED
    BY <1>4, <2>2, <2>3 DEF Inside
<1>6. ASSUME NEW n \in 1 .. Len(FieldsOf(v)), p.pos % AlignV(v) = 0
      PROVE  FieldAt(p, n).pos % AlignV(FieldAt(p, n).value) = 0
  <2>1. (p.pos + Offset(v, n)) % AlignV(FieldsOf(v)[n]) = 0
    BY <1>1, <1>6, FieldIsAligned
  <2> QED
    BY <1>4, <2>1
<1>7. ASSUME NEW m \in 1 .. Len(FieldsOf(v)), NEW n \in 1 .. Len(FieldsOf(v)), m < n
      PROVE  Apart(FieldAt(p, m), FieldAt(p, n))
  <2>1. m \in 1 .. n - 1
    BY <1>2, <1>7
  <2>2. /\ Offset(v, m) + SizeV(FieldsOf(v)[m]) <= Offset(v, n)
        /\ Offset(v, m) \in Nat /\ Offset(v, n) \in Nat /\ SizeV(FieldsOf(v)[m]) \in Nat
    BY <1>2, <1>3, <2>1
  <2>3. p.pos + Offset(v, m) + SizeV(FieldsOf(v)[m]) <= p.pos + Offset(v, n)
    BY <1>1, <2>2
  <2> QED
    BY <1>4, <2>3 DEF Apart
<1> QED
  BY <1>5, <1>6, <1>7

\* What a number or a pointer is in memory.
BytesOf(v) == IF v.k = "PtrTo" THEN LeBytes(addresses[v.ref], 4) ELSE LeBytes(v.val, SizeV(v))

Written(p) ==
  /\ p.value.k = "PtrTo" => p.value.ref \in 1 .. Len(items)
  /\ \A i \in 1 .. SizeV(p.value) : buf[p.pos + i] = BytesOf(p.value)[i]

Fits(p) ==
  /\ p.pos % AlignV(p.value) = 0
  /\ \E n \in 1 .. Len(items) : Inside(p, ItemAt(n))

\* The places still to be written, and those known altogether if those of D are
\* written.
Pending  == { todo[j] : j \in 1 .. Len(todo) }
Foreseen(D) == D \cup Pending

(***************************************************************************)
(* The places in D are those the writer is through with: the fields of a   *)
(* value with fields are known, and a number or a pointer is in the buffer *)
(* and safe from what is still to be written.                              *)
(***************************************************************************)
Contents(D) ==
  /\ \A n \in 1 .. Len(items) : ItemAt(n) \in Foreseen(D)
  /\ \A p \in Foreseen(D) : Fits(p)
  /\ \A p \in D : HasFields(p.value) => \A n \in 1 .. Len(FieldsOf(p.value)) : FieldAt(p, n) \in Foreseen(D)
  /\ \A p \in D : ~ HasFields(p.value) => Written(p) /\ \A j \in 1 .. Len(todo) : Apart(p, todo[j])

ZeroElsewhere ==
  \A i \in 1 .. Len(buf) :
    (\A n \in 1 .. Len(items) : i \notin addresses[n] + 1 .. addresses[n] + SizeV(items[n])) => buf[i] = 0

MemoryInv ==
  /\ Len(addresses) = Len(items) /\ Len(buf) = curr /\ ZeroElsewhere
  /\ todo \in Seq(Places)
  /\ \A j, k \in 1 .. Len(todo) : j < k => Apart(todo[j], todo[k])
  /\ \E D \in SUBSET Places : Contents(D)

WriteInv ==
  /\ pc = "build" => buf = << >> /\ todo = << >>
  /\ pc \in {"write", "done"} => MemoryInv
  /\ pc = "done" => todo = << >>

\* The places are in the buffer.
LEMMA FitsInBuffer ==
  ASSUME StateInv, LaidOut, Len(addresses) = Len(items), NEW p \in Places, Fits(p)
  PROVE  /\ p.pos + SizeV(p.value) <= curr
         /\ \A i \in Nat : i > p.pos /\ i <= p.pos + SizeV(p.value) =>
              \E n \in 1 .. Len(items) : i \in addresses[n] + 1 .. addresses[n] + SizeV(items[n])
<1>1. PICK n \in 1 .. Len(items) : Inside(p, ItemAt(n))
  BY DEF Fits
<1>2. addresses[n] \in Nat /\ SizeV(items[n]) \in Nat /\ curr \in Nat
  BY ItemFacts DEF StateInv
<1>3. p.pos \in Nat /\ SizeV(p.value) \in Nat
  BY PlaceFacts
<1>4. addresses[n] <= p.pos /\ p.pos + SizeV(p.value) <= addresses[n] + SizeV(items[n])
  BY <1>1 DEF Inside, ItemAt, At
<1>5. addresses[n] + SizeV(items[n]) <= curr
  BY DEF LaidOut
<1>6. p.pos + SizeV(p.value) <= curr
  BY <1>2, <1>3, <1>4, <1>5
<1>7. \A i \in Nat : i > p.pos /\ i <= p.pos + SizeV(p.value) =>
        i \in addresses[n] + 1 .. addresses[n] + SizeV(items[n])
  BY <1>2, <1>3, <1>4
<1> QED
  BY <1>6, <1>7

\* What is in a place that fits, fits.
LEMMA FieldsFit ==
  ASSUME StateInv, Len(addresses) = Len(items), NEW p \in Places, Fits(p), HasFields(p.value),
         NEW n \in 1 .. Len(FieldsOf(p.value))
  PROVE  Fits(FieldAt(p, n))
<1>1. PICK k \in 1 .. Len(items) : Inside(p, ItemAt(k))
  BY DEF Fits
<1>2. FieldAt(p, n) \in Places /\ Inside(FieldAt(p, n), p) /\ FieldAt(p, n).pos % AlignV(FieldAt(p, n).value) = 0
  BY FieldPlaces DEF Fits
<1>3. addresses[k] \in Nat /\ SizeV(items[k]) \in Nat
  BY ItemFacts
<1>4. /\ p.pos \in Nat /\ SizeV(p.value) \in Nat
      /\ FieldAt(p, n).pos \in Nat /\ SizeV(FieldAt(p, n).value) \in Nat
  BY <1>2, PlaceFacts
<1>5. Inside(FieldAt(p, n), ItemAt(k))
  BY <1>1, <1>2, <1>3, <1>4 DEF Inside, ItemAt, At
<1> QED
  BY <1>2, <1>5 DEF Fits

\* The place that is written next, and those after it.
LEMMA HeadFacts ==
  ASSUME MemoryInv, todo # << >>
  PROVE  /\ Len(todo) \in Nat \ {0} /\ Head(todo) = todo[1] /\ Head(todo) \in Places
         /\ \A j \in 1 .. Len(todo) : todo[j] \in Places
         /\ Head(todo) \in Pending
         /\ Tail(todo) \in Seq(Places) /\ Len(Tail(todo)) = Len(todo) - 1
         /\ \A j \in 1 .. Len(todo) - 1 : Tail(todo)[j] = todo[j + 1] /\ j + 1 \in 1 .. Len(todo)
         /\ \A j \in 1 .. Len(todo) - 1 : Apart(Head(todo), Tail(todo)[j])
<1>1. todo \in Seq(Places)
  BY DEF MemoryInv
<1>2. /\ Len(todo) \in Nat \ {0} /\ Head(todo) = todo[1]
      /\ Tail(todo) \in Seq(Places) /\ Len(Tail(todo)) = Len(todo) - 1
      /\ \A j \in 1 .. Len(todo) - 1 : Tail(todo)[j] = todo[j + 1]
  BY <1>1
<1>3. \A j \in 1 .. Len(todo) : todo[j] \in Places
  BY <1>1
<1>4. 1 \in 1 .. Len(todo) /\ \A j \in 1 .. Len(todo) - 1 : j + 1 \in 1 .. Len(todo) /\ 1 < j + 1
  BY <1>2
<1>5. Head(todo) \in Pending /\ Head(todo) \in Places
  BY <1>2, <1>3, <1>4 DEF Pending
<1>6. \A j \in 1 .. Len(todo) - 1 : Apart(todo[1], todo[j + 1])
  BY <1>4 DEF MemoryInv
<1> QED
  BY <1>2, <1>3, <1>4, <1>5, <1>6

\* The writer's steps move no item, so that what fits goes on to fit.
LEMMA SameItems ==
  ASSUME items' = items, addresses' = addresses, NEW p
  PROVE  Fits(p)' <=> Fits(p)
BY DEF Fits, ItemAt, Inside, At

\* What is left to be written when the F fields of a struct at h take its place.
TakePlace(h, F) ==
  /\ F \in Nat /\ HasFields(h.value)
  /\ todo' \in Seq(Places) /\ Len(todo') = F + Len(todo) - 1
  /\ \A j \in 1 .. F : j \in 1 .. Len(todo') /\ todo'[j] = FieldAt(h, j)
  /\ \A j \in 1 .. Len(todo') : j > F => j - F + 1 \in 2 .. Len(todo) /\ todo'[j] = todo[j - F + 1]
  /\ \A k \in 2 .. Len(todo) : k + F - 1 \in 1 .. Len(todo') /\ todo'[k + F - 1] = todo[k]

LEMMA StructTodo ==
  ASSUME MemoryInv, WriteStruct, NEW h \in Places, h = Head(todo), NEW F, F = Len(FieldsOf(h.value))
  PROVE  TakePlace(h, F)
<1>1. todo # << >> /\ h.value.k = "Struct"
  BY DEF WriteStruct, AtValue
<1>2. HasFields(h.value) /\ FieldsOf(h.value) = h.value.fields
  BY <1>1 DEF HasFields, FieldsOf
<1>3. F \in Nat
  BY <1>2, PlaceFacts, FieldsAreParts
<1> DEFINE G == [n \in 1 .. F |-> FieldAt(h, n)]
           H == [n \in 1 .. Len(h.value.fields) |->
                  At(h.pos + FieldOffset(FieldTypes(h.value), n), h.value.fields[n])]
<1>4. todo' = H \o Tail(todo)
  BY DEF WriteStruct
<1>5. H = G
  BY <1>2 DEF FieldAt, Offset
<1>6. \A n \in 1 .. F : FieldAt(h, n) \in Places
  BY <1>2, FieldPlaces
<1>7. G \in Seq(Places) /\ Len(G) = F /\ \A n \in 1 .. F : G[n] = FieldAt(h, n)
  BY <1>3, <1>6
<1> DEFINE T == Tail(todo)
<1>8. /\ T \in Seq(Places) /\ Len(T) = Len(todo) - 1 /\ Len(todo) \in Nat \ {0}
      /\ \A j \in 1 .. Len(todo) - 1 : T[j] = todo[j + 1]
  BY <1>1, HeadFacts
<1>9. todo' = G \o T
  BY <1>4, <1>5
<1> HIDE DEF G, H, T
<1>10. /\ todo' \in Seq(Places) /\ Len(todo') = F + Len(T)
       /\ \A j \in 1 .. F + Len(T) : todo'[j] = IF j <= F THEN G[j] ELSE T[j - F]
  <2>1. /\ G \o T \in Seq(Places) /\ Len(G \o T) = Len(G) + Len(T)
        /\ \A j \in 1 .. Len(G) + Len(T) : (G \o T)[j] = IF j <= Len(G) THEN G[j] ELSE T[j - Len(G)]
    BY <1>7, <1>8, ConcatProperties
  <2> QED
    BY <1>7, <1>9, <2>1
<1>11. ASSUME NEW j \in 1 .. F
       PROVE  j \in 1 .. Len(todo') /\ todo'[j] = FieldAt(h, j)
  <2>1. j <= F /\ j \in 1 .. F + Len(T)
    BY <1>3, <1>8
  <2>2. todo'[j] = G[j]
    BY <1>10, <2>1
  <2>3. G[j] = FieldAt(h, j)
    BY <1>7
  <2>4. j \in 1 .. Len(todo')
    BY <1>10, <2>1
  <2> QED
    BY <2>2, <2>3, <2>4
<1>12. ASSUME NEW j \in 1 .. Len(todo'), j > F
       PROVE  j - F + 1 \in 2 .. Len(todo) /\ todo'[j] = todo[j - F + 1]
  <2>1. j - F \in 1 .. Len(todo) - 1 /\ ~ (j <= F) /\ j \in 1 .. F + Len(T)
    BY <1>3, <1>8, <1>10, <1>12
  <2>2. todo'[j] = T[j - F]
    BY <1>10, <2>1
  <2> QED
    BY <1>3, <1>8, <2>1, <2>2
<1>13. ASSUME NEW k \in 2 .. Len(todo)
       PROVE  k + F - 1 \in 1 .. Len(todo') /\ todo'[k + F - 1] = todo[k]
  <2>1. k + F - 1 \in 1 .. Len(todo') /\ k + F - 1 > F /\ (k + F - 1) - F + 1 = k
    BY <1>3, <1>8, <1>10
  <2> QED
    BY <1>12, <2>1
<1> QED
  BY <1>2, <1>3, <1>8, <1>10, <1>11, <1>12, <1>13 DEF TakePlace

\* The fields of a struct take its place among the places to be written.
LEMMA StructWritten ==
  ASSUME StateInv, LaidOut, MemoryInv, WriteStruct
  PROVE  MemoryInv'
<1>1. todo # << >>
  BY DEF WriteStruct, AtValue
<1>2. PICK h \in Places : h = Head(todo)
  BY <1>1, HeadFacts
<1>3. PICK F : F = Len(FieldsOf(h.value))
  OBVIOUS
<1>4. PICK D \in SUBSET Places : Contents(D)
  BY DEF MemoryInv
<1>5. items' = items /\ addresses' = addresses /\ curr' = curr /\ buf' = buf
  BY DEF WriteStruct
<1>6. /\ F \in Nat /\ HasFields(h.value)
      /\ todo' \in Seq(Places) /\ Len(todo') = F + Len(todo) - 1
      /\ \A j \in 1 .. F : j \in 1 .. Len(todo') /\ todo'[j] = FieldAt(h, j)
      /\ \A j \in 1 .. Len(todo') : j > F => j - F + 1 \in 2 .. Len(todo) /\ todo'[j] = todo[j - F + 1]
      /\ \A k \in 2 .. Len(todo) : k + F - 1 \in 1 .. Len(todo') /\ todo'[k + F - 1] = todo[k]
  <2>1. TakePlace(h, F)
    BY <1>2, <1>3, StructTodo
  <2> QED
    BY <2>1 DEF TakePlace
<1>7. /\ Len(todo) \in Nat \ {0} /\ h = todo[1] /\ h \in Pending
      /\ \A j \in 1 .. Len(todo) : todo[j] \in Places
  BY <1>1, <1>2, HeadFacts
<1>8. \A n \in 1 .. F : /\ FieldAt(h, n) \in Places /\ Inside(FieldAt(h, n), h)
                        /\ \A m \in 1 .. F : m < n => Apart(FieldAt(h, m), FieldAt(h, n))
  BY <1>3, <1>6, FieldPlaces
<1>9. \A k \in 2 .. Len(todo) : Apart(h, todo[k])
  <2>1. \A k \in 2 .. Len(todo) : 1 \in 1 .. Len(todo) /\ k \in 1 .. Len(todo) /\ 1 < k
    BY <1>7
  <2> QED
    BY <1>7, <2>1 DEF MemoryInv
<1>10. \A n \in 1 .. F : \A k \in 2 .. Len(todo) : Apart(FieldAt(h, n), todo[k])
  <2>1. \A k \in 2 .. Len(todo) : k \in 1 .. Len(todo)
    BY <1>7
  <2> QED
    BY <1>7, <1>8, <1>9, <2>1, ApartFromInside
<1>11. ASSUME NEW j \in 1 .. Len(todo'), NEW k \in 1 .. Len(todo'), j < k
       PROVE  Apart(todo'[j], todo'[k])
  <2>1. CASE k <= F
    <3>1. j \in 1 .. F /\ k \in 1 .. F
      BY <1>6, <1>11, <2>1
    <3> QED
      BY <1>6, <1>8, <1>11, <3>1
  <2>2. CASE k > F /\ j <= F
    <3>1. j \in 1 .. F
      BY <1>6, <2>2
    <3> QED
      BY <1>6, <1>10, <2>2, <3>1
  <2>3. CASE j > F
    <3>1. k > F /\ j - F + 1 < k - F + 1
      BY <1>6, <1>11, <2>3
    <3>2. j - F + 1 \in 2 .. Len(todo) /\ k - F + 1 \in 2 .. Len(todo)
      BY <1>6, <2>3, <3>1
    <3>3. j - F + 1 \in 1 .. Len(todo) /\ k - F + 1 \in 1 .. Len(todo)
      BY <1>7, <3>2
    <3>4. Apart(todo[j - F + 1], todo[k - F + 1])
      BY <3>1, <3>3 DEF MemoryInv
    <3> QED
      BY <1>6, <2>3, <3>1, <3>4
  <2> QED
    BY <1>6, <2>1, <2>2, <2>3
<1> DEFINE E == D \cup {h}
<1>12. E \in SUBSET Places
  OBVIOUS
<1>13. ASSUME NEW p \in Foreseen(D)
       PROVE  p \in Foreseen(E)'
  <2>1. CASE p \in D
    BY <2>1 DEF Foreseen
  <2>2. CASE p \notin D
    <3>1. PICK j \in 1 .. Len(todo) : p = todo[j]
      BY <2>2 DEF Foreseen, Pending
    <3>2. CASE j = 1
      BY <1>7, <3>1, <3>2 DEF Foreseen
    <3>3. CASE j # 1
      <4>1. j \in 2 .. Len(todo)
        BY <1>7, <3>3
      <4>2. p \in Pending'
        BY <1>6, <3>1, <4>1 DEF Pending
      <4> QED
        BY <4>2 DEF Foreseen
    <3> QED
      BY <3>2, <3>3
  <2> QED
    BY <2>1, <2>2
<1>14. ASSUME NEW p \in Foreseen(E)'
       PROVE  p \in Foreseen(D) \/ \E n \in 1 .. F : p = FieldAt(h, n)
  <2>1. CASE p \in E
    BY <1>7, <2>1 DEF Foreseen
  <2>2. CASE p \notin E
    <3>1. PICK j \in 1 .. Len(todo') : p = todo'[j]
      BY <2>2 DEF Foreseen, Pending
    <3>2. CASE j <= F
      BY <1>6, <3>1, <3>2
    <3>3. CASE j > F
      <4>1. j - F + 1 \in 1 .. Len(todo) /\ p = todo[j - F + 1]
        BY <1>6, <1>7, <3>1, <3>3
      <4> QED
        BY <4>1 DEF Foreseen, Pending
    <3> QED
      BY <1>6, <3>2, <3>3
  <2> QED
    BY <2>1, <2>2
<1>15. \A n \in 1 .. F : FieldAt(h, n) \in Foreseen(E)'
  <2>1. \A n \in 1 .. F : FieldAt(h, n) \in Pending'
    BY <1>6 DEF Pending
  <2> QED
    BY <2>1 DEF Foreseen
<1>16. h \in Foreseen(D) /\ Fits(h)
  <2>1. h \in Foreseen(D)
    BY <1>7 DEF Foreseen
  <2> QED
    BY <1>4, <2>1 DEF Contents
<1> HIDE DEF E
<1>17. \A n \in 1 .. Len(items) : ItemAt(n)' \in Foreseen(E)'
  <2>1. \A n : ItemAt(n)' = ItemAt(n)
    BY <1>5 DEF ItemAt
  <2> QED
    BY <1>4, <1>13, <2>1 DEF Contents
<1>18. ASSUME NEW p \in Foreseen(E)'
       PROVE  Fits(p)'
  <2>1. CASE p \in Foreseen(D)
    BY <1>4, <1>5, <2>1, SameItems DEF Contents
  <2>2. ASSUME NEW n \in 1 .. F, p = FieldAt(h, n)
        PROVE  Fits(p)'
    <3>1. Fits(FieldAt(h, n))
      BY <1>3, <1>6, <1>16, FieldsFit DEF MemoryInv
    <3> QED
      BY <1>5, <2>2, <3>1, SameItems
  <2> QED
    BY <1>14, <2>1, <2>2
<1>19. ASSUME NEW p \in E, HasFields(p.value), NEW n \in 1 .. Len(FieldsOf(p.value))
       PROVE  FieldAt(p, n) \in Foreseen(E)'
  <2>1. CASE p = h
    BY <1>3, <1>15, <2>1
  <2>2. CASE p # h
    <3>1. p \in D
      BY <2>2 DEF E
    <3>2. FieldAt(p, n) \in Foreseen(D)
      BY <1>4, <1>19, <3>1 DEF Contents
    <3> QED
      BY <1>13, <3>2
  <2> QED
    BY <2>1, <2>2
<1>20. ASSUME NEW p \in E, ~ HasFields(p.value)
       PROVE  Written(p)' /\ \A j \in 1 .. Len(todo') : Apart(p, todo'[j])
  <2>1. p \in D
    BY <1>6, <1>20 DEF E
  <2>2. Written(p) /\ \A j \in 1 .. Len(todo) : Apart(p, todo[j])
    BY <1>4, <1>20, <2>1 DEF Contents
  <2>3. Written(p)'
    BY <1>5, <2>2 DEF Written, BytesOf
  <2>4. ASSUME NEW j \in 1 .. Len(todo')
        PROVE  Apart(p, todo'[j])
    <3>1. CASE j <= F
      <4>1. todo'[j] = FieldAt(h, j) /\ FieldAt(h, j) \in Places /\ Inside(FieldAt(h, j), h)
        BY <1>6, <1>8, <3>1
      <4>2. Apart(p, h)
        <5>1. 1 \in 1 .. Len(todo)
          BY <1>7
        <5> QED
          BY <1>7, <2>2, <5>1
      <4>3. p \in Places
        BY <2>1
      <4> QED
        BY <4>1, <4>2, <4>3, ApartFromInside
    <3>2. CASE j > F
      <4>1. j - F + 1 \in 1 .. Len(todo) /\ todo'[j] = todo[j - F + 1]
        BY <1>6, <1>7, <3>2
      <4> QED
        BY <2>2, <4>1
    <3> QED
      BY <1>6, <3>1, <3>2
  <2> QED
    BY <2>3, <2>4
<1>21. Contents(E)'
  <2>1. \A p \in E : HasFields(p.value) => \A n \in 1 .. Len(FieldsOf(p.value)) : FieldAt(p, n) \in Foreseen(E)'
    BY <1>19
  <2>2. \A p \in E : ~ HasFields(p.value) => Written(p)' /\ \A j \in 1 .. Len(todo') : Apart(p, todo'[j])
    BY <1>20
  <2>3. \A p \in Foreseen(E)' : Fits(p)'
    BY <1>18
  <2>4. items' = items
    BY <1>5
  <2> QED
    BY <1>17, <2>1, <2>2, <2>3, <2>4 DEF Contents
<1>22. Len(addresses') = Len(items') /\ Len(buf') = curr' /\ ZeroElsewhere'
  BY <1>5 DEF MemoryInv, ZeroElsewhere
<1> QED
  BY <1>6, <1>11, <1>12, <1>21, <1>22 DEF MemoryInv

\* The bytes at a place h are those of everything in E, which is inside of h.
AreBytesOf(bytes, h, E) ==
  /\ h \in E /\ Len(bytes) = SizeV(h.value)
  /\ \A p \in E : Fits(p) /\ Inside(p, h)
  /\ \A p \in E : HasFields(p.value) => \A n \in 1 .. Len(FieldsOf(p.value)) : FieldAt(p, n) \in E
  /\ \A p \in E : ~ HasFields(p.value) =>
       /\ p.value.k = "PtrTo" => p.value.ref \in 1 .. Len(items)
       /\ \A i \in 1 .. SizeV(p.value) : bytes[p.pos - h.pos + i] = BytesOf(p.value)[i]

\* The step that writes the bytes of the place that is next.
WritesBytes(h, bytes) ==
  /\ todo # << >> /\ h = Head(todo)
  /\ buf' = WriteAll(h.pos, bytes) /\ todo' = Tail(todo)
  /\ items' = items /\ addresses' = addresses /\ curr' = curr

\* After the bytes at h are written, all places in E are, and those before still are.
LEMMA BytesWritten ==
  ASSUME StateInv, LaidOut, MemoryInv, NEW h \in Places, NEW bytes, WritesBytes(h, bytes),
         NEW E \in SUBSET Places, AreBytesOf(bytes, h, E)
  PROVE  MemoryInv'
<1>1. todo # << >> /\ h = Head(todo) /\ items' = items /\ addresses' = addresses /\ curr' = curr
  BY DEF WritesBytes
<1>2. PICK D \in SUBSET Places : Contents(D)
  BY DEF MemoryInv
<1>3. /\ Len(todo) \in Nat \ {0} /\ h = todo[1] /\ h \in Pending
      /\ \A j \in 1 .. Len(todo) : todo[j] \in Places
      /\ todo' \in Seq(Places) /\ Len(todo') = Len(todo) - 1
      /\ \A j \in 1 .. Len(todo) - 1 : todo'[j] = todo[j + 1] /\ j + 1 \in 1 .. Len(todo)
      /\ \A j \in 1 .. Len(todo) - 1 : Apart(h, todo'[j])
  BY <1>1, HeadFacts DEF WritesBytes
<1>4. h.pos \in Nat /\ SizeV(h.value) \in Nat /\ Len(bytes) = SizeV(h.value)
  BY PlaceFacts DEF AreBytesOf
<1>5. h \in E /\ Fits(h)
  BY DEF AreBytesOf
<1>6. curr \in Nat /\ Len(buf) = curr /\ h.pos + Len(bytes) <= Len(buf) /\ Len(addresses) = Len(items)
  <2>1. h.pos + SizeV(h.value) <= curr
    BY <1>5, FitsInBuffer DEF MemoryInv
  <2> QED
    BY <1>4, <2>1 DEF MemoryInv, StateInv
<1>7. /\ Len(buf') = Len(buf)
      /\ \A i \in 1 .. Len(buf) :
           buf'[i] = IF i > h.pos /\ i <= h.pos + Len(bytes) THEN bytes[i - h.pos] ELSE buf[i]
  <2>1. buf' = WriteAll(h.pos, bytes)
    BY DEF WritesBytes
  <2>2. /\ Len(WriteAll(h.pos, bytes)) = Len(buf)
        /\ \A i \in 1 .. Len(buf) :
             WriteAll(h.pos, bytes)[i] = IF i > h.pos /\ i <= h.pos + Len(bytes) THEN bytes[i - h.pos] ELSE buf[i]
    BY <1>4, <1>6, WriteInside
  <2> QED
    BY <2>1, <2>2
<1>8. ZeroElsewhere'
  <2> SUFFICES ASSUME NEW i \in 1 .. Len(buf),
                      \A n \in 1 .. Len(items) : i \notin addresses[n] + 1 .. addresses[n] + SizeV(items[n])
               PROVE  buf'[i] = 0
    BY <1>1, <1>7 DEF ZeroElsewhere
  <2>1. i \in Nat
    OBVIOUS
  <2>2. ~ (i > h.pos /\ i <= h.pos + SizeV(h.value))
    BY <1>5, <1>6, <2>1, FitsInBuffer
  <2>3. buf'[i] = buf[i]
    BY <1>4, <1>7, <2>2
  <2>4. buf[i] = 0
    BY DEF MemoryInv, ZeroElsewhere
  <2> QED
    BY <2>3, <2>4
<1>9. ASSUME NEW j \in 1 .. Len(todo'), NEW k \in 1 .. Len(todo'), j < k
      PROVE  Apart(todo'[j], todo'[k])
  <2>1. j \in 1 .. Len(todo) - 1 /\ k \in 1 .. Len(todo) - 1 /\ j + 1 < k + 1
    BY <1>3, <1>9
  <2>2. Apart(todo[j + 1], todo[k + 1])
    BY <1>3, <2>1 DEF MemoryInv
  <2> QED
    BY <1>3, <2>1, <2>2
<1> DEFINE C == D \cup E
<1>10. C \in SUBSET Places
  OBVIOUS
<1>11. ASSUME NEW p \in Foreseen(D)
       PROVE  p \in Foreseen(C)'
  <2>1. CASE p \in D
    BY <2>1 DEF Foreseen
  <2>2. CASE p \notin D
    <3>1. PICK j \in 1 .. Len(todo) : p = todo[j]
      BY <2>2 DEF Foreseen, Pending
    <3>2. CASE j = 1
      BY <1>3, <1>5, <3>1, <3>2 DEF Foreseen
    <3>3. CASE j # 1
      <4>1. j - 1 \in 1 .. Len(todo) - 1 /\ (j - 1) + 1 = j
        BY <1>3, <3>3
      <4>2. p \in Pending'
        BY <1>3, <3>1, <4>1 DEF Pending
      <4> QED
        BY <4>2 DEF Foreseen
    <3> QED
      BY <3>2, <3>3
  <2> QED
    BY <2>1, <2>2
<1>12. ASSUME NEW p \in Foreseen(C)'
       PROVE  p \in Foreseen(D) \cup E
  <2>1. CASE p \in C
    BY <2>1 DEF Foreseen
  <2>2. CASE p \notin C
    <3>1. PICK j \in 1 .. Len(todo') : p = todo'[j]
      BY <2>2 DEF Foreseen, Pending
    <3>2. p = todo[j + 1] /\ j + 1 \in 1 .. Len(todo)
      BY <1>3, <3>1
    <3> QED
      BY <3>2 DEF Foreseen, Pending
  <2> QED
    BY <2>1, <2>2
<1>13. \A p \in E : p \in Foreseen(C)'
  BY DEF Foreseen
<1> HIDE DEF C
<1>14. \A n \in 1 .. Len(items) : ItemAt(n)' \in Foreseen(C)'
  <2>1. \A n : ItemAt(n)' = ItemAt(n)
    BY <1>1 DEF ItemAt
  <2> QED
    BY <1>2, <1>11, <2>1 DEF Contents
<1>15. ASSUME NEW p \in Foreseen(C)'
       PROVE  Fits(p)'
  <2>1. Fits(p)
    BY <1>2, <1>12 DEF Contents, AreBytesOf
  <2> QED
    BY <1>1, <2>1, SameItems
<1>16. ASSUME NEW p \in C, HasFields(p.value), NEW n \in 1 .. Len(FieldsOf(p.value))
       PROVE  FieldAt(p, n) \in Foreseen(C)'
  <2>1. CASE p \in E
    BY <1>13, <1>16, <2>1 DEF AreBytesOf
  <2>2. CASE p \in D
    <3>1. FieldAt(p, n) \in Foreseen(D)
      BY <1>2, <1>16, <2>2 DEF Contents
    <3> QED
      BY <1>11, <3>1
  <2> QED
    BY <2>1, <2>2 DEF C
<1>17. \A p : BytesOf(p)' = BytesOf(p)
  BY <1>1 DEF BytesOf
<1>18. ASSUME NEW p \in E, ~ HasFields(p.value)
       PROVE  Written(p)' /\ \A j \in 1 .. Len(todo') : Apart(p, todo'[j])
  <2>1. p \in Places /\ Inside(p, h)
    BY DEF AreBytesOf
  <2>2. p.pos \in Nat /\ SizeV(p.value) \in Nat
    BY <2>1, PlaceFacts
  <2>3. h.pos <= p.pos /\ p.pos + SizeV(p.value) <= h.pos + SizeV(h.value)
    BY <2>1 DEF Inside
  <2>4. /\ p.value.k = "PtrTo" => p.value.ref \in 1 .. Len(items)
        /\ \A i \in 1 .. SizeV(p.value) : bytes[p.pos - h.pos + i] = BytesOf(p.value)[i]
    BY <1>18 DEF AreBytesOf
  <2>5. ASSUME NEW i \in 1 .. SizeV(p.value)
        PROVE  buf'[p.pos + i] = BytesOf(p.value)[i]
    <3>1. p.pos + i \in 1 .. Len(buf) /\ p.pos + i > h.pos /\ p.pos + i <= h.pos + Len(bytes)
      BY <1>4, <1>6, <2>2, <2>3
    <3>2. buf'[p.pos + i] = bytes[(p.pos + i) - h.pos]
      BY <1>7, <3>1
    <3>3. (p.pos + i) - h.pos = p.pos - h.pos + i
      BY <1>4, <2>2
    <3> QED
      BY <2>4, <3>2, <3>3
  <2>6. Written(p)'
    BY <1>1, <1>17, <2>4, <2>5 DEF Written
  <2>7. ASSUME NEW j \in 1 .. Len(todo')
        PROVE  Apart(p, todo'[j])
    <3>1. Apart(h, todo'[j]) /\ todo'[j] \in Places
      BY <1>3
    <3> QED
      BY <2>1, <3>1, ApartFromInside
  <2> QED
    BY <2>6, <2>7
<1>19. ASSUME NEW p \in D, ~ HasFields(p.value)
       PROVE  Written(p)' /\ \A j \in 1 .. Len(todo') : Apart(p, todo'[j])
  <2>1. Written(p) /\ \A j \in 1 .. Len(todo) : Apart(p, todo[j])
    BY <1>2, <1>19 DEF Contents
  <2>2. p \in Places
    OBVIOUS
  <2>3. p.pos \in Nat /\ SizeV(p.value) \in Nat
    BY <2>2, PlaceFacts
  <2>4. Fits(p)
    BY <1>2 DEF Contents, Foreseen
  <2>5. p.pos + SizeV(p.value) <= Len(buf)
    BY <1>6, <2>2, <2>4, FitsInBuffer
  <2>6. Apart(p, h)
    <3>1. 1 \in 1 .. Len(todo)
      BY <1>3
    <3> QED
      BY <1>3, <2>1, <3>1
  <2>7. ASSUME NEW i \in 1 .. SizeV(p.value)
        PROVE  buf'[p.pos + i] = BytesOf(p.value)[i]
    <3>1. p.pos + i \in 1 .. Len(buf) /\ ~ (p.pos + i > h.pos /\ p.pos + i <= h.pos + Len(bytes))
      BY <1>4, <1>6, <2>3, <2>5, <2>6 DEF Apart
    <3>2. buf'[p.pos + i] = buf[p.pos + i]
      BY <1>7, <3>1
    <3> QED
      BY <2>1, <3>2 DEF Written
  <2>8. Written(p)'
    BY <1>1, <1>17, <2>1, <2>7 DEF Written
  <2>9. \A j \in 1 .. Len(todo') : Apart(p, todo'[j])
    BY <1>3, <2>1
  <2> QED
    BY <2>8, <2>9
<1>20. Contents(C)'
  <2>1. \A p \in C : HasFields(p.value) => \A n \in 1 .. Len(FieldsOf(p.value)) : FieldAt(p, n) \in Foreseen(C)'
    BY <1>16
  <2>2. \A p \in C : ~ HasFields(p.value) => Written(p)' /\ \A j \in 1 .. Len(todo') : Apart(p, todo'[j])
    BY <1>18, <1>19 DEF C
  <2>3. \A p \in Foreseen(C)' : Fits(p)'
    BY <1>15
  <2> QED
    BY <1>1, <1>14, <2>1, <2>2, <2>3 DEF Contents
<1>21. Len(addresses') = Len(items') /\ Len(buf') = curr'
  BY <1>1, <1>6, <1>7
<1> QED
  BY <1>3, <1>8, <1>9, <1>10, <1>20, <1>21 DEF MemoryInv

\* A place is inside of itself.
LEMMA InsideItself ==
  ASSUME NEW p \in Places
  PROVE  Inside(p, p)
<1>1. p.pos \in Nat /\ SizeV(p.value) \in Nat
  BY PlaceFacts
<1> QED
  BY <1>1 DEF Inside

\* A number or a pointer is nothing but its bytes.
LEMMA OneValue ==
  ASSUME NEW h \in Places, Fits(h), ~ HasFields(h.value), NEW bytes, Len(bytes) = SizeV(h.value),
         h.value.k = "PtrTo" => h.value.ref \in 1 .. Len(items),
         bytes = BytesOf(h.value)
  PROVE  AreBytesOf(bytes, h, {h})
<1>1. h.pos \in Nat /\ SizeV(h.value) \in Nat /\ Inside(h, h)
  BY PlaceFacts, InsideItself
<1>2. \A i \in 1 .. SizeV(h.value) : h.pos - h.pos + i = i
  BY <1>1
<1> QED
  BY <1>1, <1>2 DEF AreBytesOf

LEMMA ScalarWritten ==
  ASSUME StateInv, LaidOut, MemoryInv, WriteScalar, Head(todo).value.k # "Blob"
  PROVE  MemoryInv'
<1>1. todo # << >> /\ Head(todo).value.k \notin {"Struct", "PtrTo", "Blob"}
  BY DEF WriteScalar, AtValue
<1>2. PICK h \in Places : h = Head(todo)
  BY <1>1, HeadFacts
<1>3. ~ HasFields(h.value) /\ h.value.k # "PtrTo" /\ h.value \in Parts
  BY <1>1, <1>2, PlaceFacts DEF HasFields
<1>4. SizeV(h.value) \in Nat /\ SizeV(h.value) = SizeOf(h.value.ty)
  BY <1>2, <1>3, PlaceFacts, ScalarFacts
<1>5. PICK bytes : bytes = LeBytes(h.value.val, SizeV(h.value))
  OBVIOUS
<1>6. Len(bytes) = SizeV(h.value) /\ bytes = BytesOf(h.value)
  BY <1>3, <1>4, <1>5 DEF LeBytes, BytesOf
<1>7. buf' = WriteAll(h.pos, bytes)
  BY <1>1, <1>2, <1>4, <1>5 DEF WriteScalar
<1>8. WritesBytes(h, bytes)
  BY <1>1, <1>2, <1>7 DEF WriteScalar, WritesBytes
<1>9. Fits(h)
  BY <1>1, <1>2, HeadFacts DEF MemoryInv, Contents, Foreseen
<1>10. AreBytesOf(bytes, h, {h})
  BY <1>3, <1>6, <1>9, OneValue
<1> QED
  BY <1>2, <1>8, <1>10, BytesWritten

LEMMA PointerWritten ==
  ASSUME StateInv, LaidOut, MemoryInv, WritePointer, pc' # "panicked"
  PROVE  MemoryInv'
<1>1. todo # << >> /\ Head(todo).value.k = "PtrTo"
  BY DEF WritePointer, AtValue
<1>2. PICK h \in Places : h = Head(todo)
  BY <1>1, HeadFacts
<1>3. ~ HasFields(h.value) /\ h.value \in Parts /\ h.value.k = "PtrTo"
  BY <1>1, <1>2, PlaceFacts DEF HasFields
<1>4. SizeV(h.value) = 4
  BY <1>3, ScalarFacts
<1>5. h.value.ref \in DOMAIN addresses /\ buf' = WriteAll(h.pos, LeBytes(addresses[h.value.ref], 4))
  BY <1>2 DEF WritePointer
<1>6. h.value.ref \in 1 .. Len(items)
  BY <1>5 DEF MemoryInv, StateInv
<1>7. PICK bytes : bytes = LeBytes(addresses[h.value.ref], 4)
  OBVIOUS
<1>8. Len(bytes) = SizeV(h.value) /\ bytes = BytesOf(h.value)
  BY <1>3, <1>4, <1>7 DEF LeBytes, BytesOf
<1>9. WritesBytes(h, bytes)
  BY <1>1, <1>2, <1>5, <1>7 DEF WritePointer, WritesBytes
<1>10. Fits(h)
  BY <1>1, <1>2, HeadFacts DEF MemoryInv, Contents, Foreseen
<1>11. AreBytesOf(bytes, h, {h})
  BY <1>3, <1>6, <1>8, <1>10, OneValue
<1> QED
  BY <1>2, <1>9, <1>11, BytesWritten

\* The bytes of a blob are those of its fields, too.
LEMMA BlobWritten ==
  ASSUME StateInv, LaidOut, MemoryInv, WriteScalar, Head(todo).value.k = "Blob"
  PROVE  MemoryInv'
<1>1. todo # << >>
  BY DEF WriteScalar
<1>2. PICK h \in Places : h = Head(todo)
  BY <1>1, HeadFacts
<1>3. HasFields(h.value) /\ h.value \in Parts /\ h.value.k = "Blob" /\ h.pos \in Nat
  BY <1>2, PlaceFacts DEF HasFields
<1>4. PICK v : v = h.value
  OBVIOUS
<1>5. /\ Len(v.bytes) \in Nat /\ Len(FieldsOf(v)) = Len(v.bytes) /\ SizeV(v) = Len(v.bytes)
      /\ \A n \in 1 .. Len(v.bytes) :
           /\ FieldsOf(v)[n].k = "UInt8" /\ FieldsOf(v)[n].ty = UInt8
           /\ FieldsOf(v)[n].val = v.bytes[n] /\ v.bytes[n] \in 0 .. 255
           /\ SizeV(FieldsOf(v)[n]) = 1 /\ Offset(v, n) = n - 1
  BY <1>3, <1>4, BlobFacts
<1> DEFINE bytes == v.bytes  E == {h} \cup { FieldAt(h, n) : n \in 1 .. Len(bytes) }
<1>6. Fits(h)
  BY <1>1, <1>2, HeadFacts DEF MemoryInv, Contents, Foreseen
<1>7. ASSUME NEW n \in 1 .. Len(bytes)
      PROVE  /\ FieldAt(h, n) \in Places /\ Inside(FieldAt(h, n), h) /\ Fits(FieldAt(h, n))
             /\ FieldAt(h, n).pos = h.pos + (n - 1) /\ FieldAt(h, n).value = FieldsOf(v)[n]
             /\ ~ HasFields(FieldsOf(v)[n])
  <2>1. n \in 1 .. Len(FieldsOf(h.value))
    BY <1>4, <1>5
  <2>2. FieldAt(h, n) \in Places /\ Inside(FieldAt(h, n), h)
    BY <1>3, <2>1, FieldPlaces
  <2>3. Fits(FieldAt(h, n))
    BY <1>3, <1>6, <2>1, FieldsFit DEF MemoryInv
  <2>4. FieldAt(h, n).pos = h.pos + (n - 1) /\ FieldAt(h, n).value = FieldsOf(v)[n]
    BY <1>4, <1>5 DEF FieldAt, At
  <2>5. ~ HasFields(FieldsOf(v)[n])
    BY <1>5 DEF HasFields
  <2> QED
    BY <2>2, <2>3, <2>4, <2>5
<1>8. E \in SUBSET Places
  BY <1>7
<1>9. AreBytesOf(bytes, h, E)
  <2>1. h \in E /\ Len(bytes) = SizeV(h.value)
    BY <1>4, <1>5
  <2>2. \A p \in E : Fits(p) /\ Inside(p, h)
    BY <1>6, <1>7, InsideItself
  <2>3. ASSUME NEW p \in E, HasFields(p.value), NEW n \in 1 .. Len(FieldsOf(p.value))
        PROVE  FieldAt(p, n) \in E
    <3>1. p = h
      BY <1>7, <2>3
    <3>2. n \in 1 .. Len(bytes)
      BY <1>4, <1>5, <2>3, <3>1
    <3> QED
      BY <3>1, <3>2
  <2>4. ASSUME NEW p \in E, ~ HasFields(p.value)
        PROVE  /\ p.value.k = "PtrTo" => p.value.ref \in 1 .. Len(items)
               /\ \A i \in 1 .. SizeV(p.value) : bytes[p.pos - h.pos + i] = BytesOf(p.value)[i]
    <3>1. PICK n \in 1 .. Len(bytes) : p = FieldAt(h, n)
      BY <1>3, <2>4
    <3>2. p.value = FieldsOf(v)[n] /\ p.pos = h.pos + (n - 1)
      BY <1>7, <3>1
    <3>3. p.value.k = "UInt8" /\ p.value.val = v.bytes[n] /\ SizeV(p.value) = 1 /\ v.bytes[n] \in 0 .. 255
      BY <1>5, <3>2
    <3>4. BytesOf(p.value) = LeBytes(v.bytes[n], 1)
      BY <3>3 DEF BytesOf
    <3>5. LeBytes(v.bytes[n], 1)[1] = v.bytes[n]
      BY <3>3, ByteFacts
    <3>6. p.pos - h.pos + 1 = n
      BY <1>3, <1>5, <3>2
    <3>7. bytes[p.pos - h.pos + 1] = BytesOf(p.value)[1]
      BY <3>4, <3>5, <3>6
    <3>8. \A i \in 1 .. SizeV(p.value) : i = 1
      BY <3>3
    <3> QED
      BY <3>3, <3>7, <3>8
  <2> HIDE DEF E, bytes
  <2> QED
    BY <2>1, <2>2, <2>3, <2>4 DEF AreBytesOf
<1>10. WritesBytes(h, bytes)
  BY <1>1, <1>2, <1>3, <1>4 DEF WriteScalar, WritesBytes
<1> HIDE DEF E, bytes
<1> QED
  BY <1>8, <1>9, <1>10, BytesWritten

\* The items are to be written, and nothing is yet.
LEMMA MemoryZeroed ==
  ASSUME StateInv, LaidOut, Zero
  PROVE  MemoryInv'
<1>1. /\ items' = items /\ addresses' = addresses /\ curr' = curr /\ Len(addresses) = Len(items)
      /\ buf' = [i \in 1 .. curr |-> 0]
      /\ todo' = [n \in 1 .. Len(items) |-> ItemAt(n)]
  BY DEF Zero, ItemAt
<1>2. /\ Len(items) \in Nat /\ curr \in Nat
      /\ \A n \in 1 .. Len(items) :
           addresses[n] \in Nat /\ items[n] \in Parts /\ SizeV(items[n]) \in Nat /\ AlignV(items[n]) \in {1, 2, 4}
  BY <1>1, ItemFacts DEF StateInv
<1>3. \A n \in 1 .. Len(items) : /\ ItemAt(n) \in Places
                                 /\ ItemAt(n).pos = addresses[n] /\ ItemAt(n).value = items[n]
  BY <1>2 DEF ItemAt, At, Places
<1>4. /\ todo' \in Seq(Places) /\ Len(todo') = Len(items)
      /\ \A n \in 1 .. Len(items) : todo'[n] = ItemAt(n)
  BY <1>1, <1>2, <1>3
<1>5. Len(buf') = curr /\ ZeroElsewhere'
  BY <1>1, <1>2 DEF ZeroElsewhere
<1>6. \A m, n \in 1 .. Len(items) : m < n => Apart(ItemAt(m), ItemAt(n))
  BY <1>1, <1>3 DEF Apart, LaidOut
<1>7. \A p : p \in Foreseen({})' <=> \E n \in 1 .. Len(items) : p = ItemAt(n)
  BY <1>4 DEF Foreseen, Pending
<1>8. \A n \in 1 .. Len(items) : Fits(ItemAt(n))
  <2>1. \A n \in 1 .. Len(items) : ItemAt(n).pos % AlignV(ItemAt(n).value) = 0
    BY <1>1, <1>3 DEF LaidOut
  <2> QED
    BY <1>3, <2>1, InsideItself DEF Fits
<1>9. Contents({})'
  <2>1. \A n : ItemAt(n)' = ItemAt(n)
    BY <1>1 DEF ItemAt
  <2>2. \A n \in 1 .. Len(items') : ItemAt(n)' \in Foreseen({})'
    BY <1>1, <1>7, <2>1
  <2>3. \A p \in Foreseen({})' : Fits(p)'
    BY <1>1, <1>7, <1>8, SameItems
  <2> QED
    BY <2>2, <2>3 DEF Contents
<1>10. {} \in SUBSET Places
  OBVIOUS
<1>11. \A j, k \in 1 .. Len(todo') : j < k => Apart(todo'[j], todo'[k])
  BY <1>4, <1>6
<1>12. \E D \in SUBSET Places : Contents(D)'
  BY <1>9, <1>10
<1> QED
  BY <1>1, <1>4, <1>5, <1>11, <1>12 DEF MemoryInv

\* Without items there is no memory.
LEMMA NoMemory ==
  ASSUME StateInv, WriteInv, StartCompile, items = << >>
  PROVE  WriteInv'
<1>1. /\ items' = << >> /\ addresses' = << >> /\ curr' = 0 /\ buf' = << >> /\ todo' = << >> /\ pc' = "done"
  BY DEF StartCompile, StateInv, WriteInv
<1>2. Contents({})'
  <2>1. \A p : p \notin Foreseen({})'
    BY <1>1 DEF Foreseen, Pending
  <2> QED
    BY <1>1, <2>1 DEF Contents
<1>3. todo' \in Seq(Places) /\ Len(todo') = 0 /\ Len(buf') = 0
  BY <1>1
<1>4. {} \in SUBSET Places
  OBVIOUS
<1>5. \E D \in SUBSET Places : Contents(D)'
  BY <1>2, <1>4
<1>6. MemoryInv'
  BY <1>1, <1>3, <1>5 DEF MemoryInv, ZeroElsewhere
<1> QED
  BY <1>1, <1>6 DEF WriteInv

\* What WriteInv says changes only with these.
written == <<items, addresses, curr, todo, buf>>

LEMMA SameMemory ==
  ASSUME UNCHANGED written, MemoryInv
  PROVE  MemoryInv'
<1>1. items' = items /\ addresses' = addresses /\ curr' = curr /\ todo' = todo /\ buf' = buf
  BY DEF written
<1>2. PICK D \in SUBSET Places : Contents(D)
  BY DEF MemoryInv
<1>3. Foreseen(D)' = Foreseen(D) /\ \A n : ItemAt(n)' = ItemAt(n)
  BY <1>1 DEF Foreseen, Pending, ItemAt
<1>4. \A p : Fits(p)' <=> Fits(p)
  BY <1>1, SameItems
<1>5. \A p : Written(p)' <=> Written(p)
  BY <1>1 DEF Written, BytesOf
<1>6. Contents(D)'
  BY <1>1, <1>2, <1>3, <1>4, <1>5 DEF Contents
<1>7. \E C \in SUBSET Places : Contents(C)'
  BY <1>6
<1> QED
  BY <1>1, <1>7 DEF MemoryInv, ZeroElsewhere

LEMMA WriteInit == Init => WriteInv
  BY DEF Init, WriteInv

LEMMA WriteStep ==
  ASSUME StateInv, PlaceInv, WriteInv, [Next]_vars
  PROVE  WriteInv'
<1>1. ASSUME NEW v \in Values, AddItem(v)
      PROVE  WriteInv'
  BY <1>1 DEF AddItem, WriteInv
<1>2. CASE StartCompile
  <2>1. CASE items = << >>
    BY <1>2, <2>1, NoMemory
  <2>2. CASE items # << >>
    BY <1>2, <2>2 DEF StartCompile, WriteInv
  <2> QED
    BY <2>1, <2>2
<1>3. CASE PlaceItem
  BY <1>3 DEF PlaceItem, WriteInv
<1>4. CASE Zero
  <2>1. LaidOut
    BY <1>4 DEF Zero, PlaceInv
  <2>2. MemoryInv'
    BY <1>4, <2>1, MemoryZeroed
  <2> QED
    BY <1>4, <2>2 DEF Zero, WriteInv
<1>5. CASE WriteStruct
  <2>1. LaidOut /\ MemoryInv
    BY <1>5 DEF WriteStruct, AtValue, PlaceInv, WriteInv
  <2>2. MemoryInv'
    BY <1>5, <2>1, StructWritten
  <2> QED
    BY <1>5, <2>2 DEF WriteStruct, AtValue, WriteInv
<1>6. CASE WriteScalar
  <2>1. LaidOut /\ MemoryInv
    BY <1>6 DEF WriteScalar, PlaceInv, WriteInv
  <2>2. MemoryInv'
    BY <1>6, <2>1, ScalarWritten, BlobWritten
  <2> QED
    BY <1>6, <2>2 DEF WriteScalar, WriteInv
<1>7. CASE WritePointer
  <2>1. LaidOut /\ MemoryInv /\ pc = "write"
    BY <1>7 DEF WritePointer, AtValue, PlaceInv, WriteInv
  <2>2. CASE pc' = "panicked"
    BY <2>2 DEF WriteInv
  <2>3. CASE pc' # "panicked"
    <3>1. MemoryInv'
      BY <1>7, <2>1, <2>3, PointerWritten
    <3>2. pc' = "write"
      BY <1>7, <2>1, <2>3 DEF WritePointer
    <3> QED
      BY <3>1, <3>2 DEF WriteInv
  <2> QED
    BY <2>2, <2>3
<1>8. CASE EndCompile
  <2>1. MemoryInv /\ UNCHANGED written /\ pc' = "done" /\ todo' = << >>
    BY <1>8 DEF EndCompile, WriteInv, written
  <2> QED
    BY <2>1, SameMemory DEF WriteInv
<1>9. ASSUME UNCHANGED written, pc = "done" /\ pc' \in {"done", "panicked"}
      PROVE  WriteInv'
  <2>1. MemoryInv /\ todo = << >> /\ todo' = todo
    BY <1>9 DEF WriteInv, written
  <2> QED
    BY <1>9, <2>1, SameMemory DEF WriteInv
<1>10. ASSUME NEW ref \in 1 .. MaxItems, LoadAddress(ref)
       PROVE  WriteInv'
  BY <1>9, <1>10 DEF LoadAddress, written
<1>11. ASSUME NEW n \in 1 .. Len(FieldsOf(walk.at)), GoToField(n)
       PROVE  WriteInv'
  BY <1>9, <1>11 DEF GoToField, written
<1>12. CASE Follow
  BY <1>9, <1>12 DEF Follow, written
<1>13. CASE UNCHANGED vars
  <2>1. UNCHANGED written /\ pc' = pc /\ todo' = todo /\ buf' = buf
    BY <1>13 DEF vars, written
  <2> QED
    BY <2>1, SameMemory DEF WriteInv
<1>14. CASE Stopped
  BY <1>13, <1>14 DEF Stopped
<1> QED
  BY <1>1, <1>2, <1>3, <1>4, <1>5, <1>6, <1>7, <1>8, <1>10, <1>11, <1>12, <1>13, <1>14 DEF Next

\* The memory is laid out, and written as far as the writer is.
StaticInv == StateInv /\ PlaceInv /\ WriteInv

LEMMA StaticInvariant == Spec => []StaticInv
<1>1. Init => StaticInv
  BY LayoutInit, WriteInit DEF StaticInv
<1>2. StaticInv /\ [Next]_vars => StaticInv'
  BY LayoutStep, WriteStep DEF StaticInv
<1> QED
  BY <1>1, <1>2, PTL DEF Spec

\* compile() writes each item where it was laid out, and nothing else: the
\* buffer has the length that was computed before, and everything in front of
\* and between the items is zero.
THEOREM WritesItemsOnly == Spec => []FillsItsBuffer
<1>1. ASSUME StaticInv
      PROVE  FillsItsBuffer
  <2> SUFFICES ASSUME pc \in {"write", "done"}
               PROVE  FillsItsBuffer
    BY DEF FillsItsBuffer
  <2>1. MemoryInv
    BY <1>1 DEF StaticInv, WriteInv
  <2>2. \A n \in 1 .. Len(items) : ItemSize[items[n]] = SizeV(items[n])
    BY <1>1, ItemFacts DEF StaticInv, ItemSize, SizeV
  <2> QED
    BY <2>1, <2>2 DEF MemoryInv, ZeroElsewhere, FillsItsBuffer
<1> QED
  BY <1>1, StaticInvariant, PTL

-----------------------------------------------------------------------------
(* The program walks through what was written *)

\* The walk is at a place that the writer is through with.
WalkInv ==
  pc = "done" /\ walk # Nowhere =>
    \E D \in SUBSET Places : Contents(D) /\ At(walk.ptr, walk.at) \in D

WalksInv == StaticInv /\ WalkInv

\* Addresses fit into the pointers.
Addressable == curr < 256 ^ 4

\* Once everything is written, what is known is what is written.
LEMMA AllWritten ==
  ASSUME StaticInv, pc = "done", NEW D \in SUBSET Places, Contents(D)
  PROVE  /\ \A n \in 1 .. Len(items) : ItemAt(n) \in D
         /\ \A p \in D : Fits(p)
         /\ \A p \in D : HasFields(p.value) => \A n \in 1 .. Len(FieldsOf(p.value)) : FieldAt(p, n) \in D
         /\ \A p \in D : ~ HasFields(p.value) => Written(p)
<1>1. Foreseen(D) = D
  BY DEF StaticInv, WriteInv, Foreseen, Pending
<1> QED
  BY <1>1 DEF Contents

\* A pointer that was written leads to the item it is for.
LEMMA PointerRead ==
  ASSUME StaticInv, pc = "done", Addressable, NEW p \in Places, p.value.k = "PtrTo", Written(p)
  PROVE  /\ p.value.ref \in 1 .. Len(items)
         /\ FromBytes(Fetch(p.pos, 4)) = addresses[p.value.ref]
<1>1. p.value \in Parts /\ ~ HasFields(p.value)
  BY PlaceFacts DEF HasFields
<1>2. SizeV(p.value) = 4
  BY <1>1, ScalarFacts
<1>3. PICK ref : ref = p.value.ref
  OBVIOUS
<1>4. ref \in 1 .. Len(items) /\ \A i \in 1 .. 4 : buf[p.pos + i] = LeBytes(addresses[ref], 4)[i]
  BY <1>2, <1>3 DEF Written, BytesOf
<1>5. Fetch(p.pos, 4) = LeBytes(addresses[ref], 4)
  <2>1. \A i \in 1 .. 4 : buf[p.pos + i] = (addresses[ref] \div (256 ^ (i - 1))) % 256
    BY <1>4 DEF LeBytes
  <2> QED
    BY <2>1 DEF Fetch, LeBytes
<1>6. ref \in 1 .. Len(addresses)
  BY <1>4 DEF StaticInv, WriteInv, MemoryInv
<1>7. addresses[ref] \in Nat /\ SizeV(items[ref]) \in Nat /\ curr \in Nat
  BY <1>4, <1>6, ItemFacts DEF StaticInv, StateInv
<1>8. addresses[ref] + SizeV(items[ref]) <= curr
  BY <1>6 DEF StaticInv, PlaceInv, LaidOut
<1>9. addresses[ref] < 4294967296
  BY <1>7, <1>8, Powers DEF Addressable
<1>10. addresses[ref] \div 256 ^ 3 < 256
  BY <1>7, <1>9, Powers
<1>11. addresses[ref] \div 256 ^ (4 - 1) < 256
  <2>1. 4 - 1 = 3
    OBVIOUS
  <2> QED
    BY <1>10, <2>1
<1>12. FromBytes(LeBytes(addresses[ref], 4)) = addresses[ref]
  <2>1. 4 \in {1, 2, 4}
    OBVIOUS
  <2> QED
    BY <1>7, <1>11, <2>1, BytesRoundTrip
<1> QED
  BY <1>3, <1>4, <1>5, <1>12

\* A number that was written is read again.
LEMMA NumberRead ==
  ASSUME NEW p \in Places, ~ HasFields(p.value), p.value.k # "PtrTo", Written(p)
  PROVE  FromBytes(Fetch(p.pos, SizeOf(p.value.ty))) = p.value.val
<1>1. PICK w, n : w = SizeOf(p.value.ty) /\ n = p.value.val
  OBVIOUS
<1>2. p.value \in Parts
  BY PlaceFacts
<1>3. w = SizeV(p.value) /\ w \in {1, 2, 4} /\ n \in Nat /\ n \div 256 ^ (w - 1) < 256
  BY <1>1, <1>2, ScalarFacts
<1>4. \A i \in 1 .. w : buf[p.pos + i] = LeBytes(n, w)[i]
  BY <1>1, <1>3 DEF Written, BytesOf
<1>5. Fetch(p.pos, w) = LeBytes(n, w)
  <2>1. \A i \in 1 .. w : buf[p.pos + i] = (n \div (256 ^ (i - 1))) % 256
    BY <1>4 DEF LeBytes
  <2> QED
    BY <2>1 DEF Fetch, LeBytes
<1> QED
  BY <1>1, <1>3, <1>5, BytesRoundTrip

LEMMA WalkStep ==
  ASSUME WalksInv, Addressable, [Next]_vars
  PROVE  WalkInv'
<1>1. ASSUME pc \in {"build", "place", "write"}
      PROVE  WalkInv'
  <2>1. walk = Nowhere
    BY <1>1 DEF WalksInv, StaticInv, StateInv
  <2>2. walk' = walk
    BY <1>1 DEF Next, vars, AddItem, StartCompile, PlaceItem, Zero, WriteStruct, WriteScalar, WritePointer,
                EndCompile, LoadAddress, GoToField, Follow, Stopped
  <2>3. Nowhere' = Nowhere
    BY DEF Nowhere
  <2> QED
    BY <2>1, <2>2, <2>3 DEF WalkInv
<1>2. ASSUME UNCHANGED written, NEW D \in SUBSET Places, Contents(D), At(walk'.ptr, walk'.at) \in D
      PROVE  WalkInv'
  <2>1. items' = items /\ addresses' = addresses /\ curr' = curr /\ todo' = todo /\ buf' = buf
    BY <1>2 DEF written
  <2>2. Foreseen(D)' = Foreseen(D) /\ \A n : ItemAt(n)' = ItemAt(n)
    BY <2>1 DEF Foreseen, Pending, ItemAt
  <2>3. \A p : (Fits(p)' <=> Fits(p)) /\ (Written(p)' <=> Written(p))
    <3>1. \A p : Fits(p)' <=> Fits(p)
      BY <2>1, SameItems
    <3>2. \A p : Written(p)' <=> Written(p)
      BY <2>1 DEF Written, BytesOf
    <3> QED
      BY <3>1, <3>2
  <2>4. Contents(D)'
    BY <1>2, <2>1, <2>2, <2>3 DEF Contents
  <2> QED
    BY <1>2, <2>4 DEF WalkInv
<1>3. ASSUME pc = "done", NEW ref \in 1 .. MaxItems, LoadAddress(ref)
      PROVE  WalkInv'
  <2>1. CASE ref \notin DOMAIN addresses
    BY <1>3, <2>1 DEF LoadAddress, WalkInv
  <2>2. CASE ref \in DOMAIN addresses
    <3>1. UNCHANGED written /\ walk' = [ptr |-> addresses[ref], at |-> items[ref]]
      BY <1>3, <2>2 DEF LoadAddress, written
    <3>2. MemoryInv
      BY <1>3 DEF WalksInv, StaticInv, WriteInv
    <3>3. PICK D \in SUBSET Places : Contents(D)
      BY <3>2 DEF MemoryInv
    <3>4. ref \in 1 .. Len(items)
      BY <2>2, <3>2 DEF WalksInv, StaticInv, StateInv, MemoryInv
    <3>5. ItemAt(ref) \in D
      BY <1>3, <3>3, <3>4, AllWritten DEF WalksInv
    <3>6. At(walk'.ptr, walk'.at) = ItemAt(ref)
      BY <3>1 DEF ItemAt
    <3> QED
      BY <1>2, <3>1, <3>3, <3>5, <3>6
  <2> QED
    BY <2>1, <2>2
<1>4. ASSUME pc = "done", NEW n \in 1 .. Len(FieldsOf(walk.at)), GoToField(n)
      PROVE  WalkInv'
  <2>1. walk # Nowhere
    <3>1. ASSUME walk = Nowhere
          PROVE  FALSE
      <4>1. walk.at.k = "Blob" /\ walk.at.bytes = << >>
        BY <3>1 DEF Nowhere, Blob
      <4>2. FieldsOf(walk.at) = [m \in 1 .. 0 |-> IntVal(UInt8, walk.at.bytes[m])]
        BY <4>1 DEF FieldsOf
      <4>3. Len(FieldsOf(walk.at)) = 0
        BY <4>2
      <4> QED
        BY <1>4, <4>3
    <3> QED
      BY <3>1
  <2>2. PICK D \in SUBSET Places : Contents(D) /\ At(walk.ptr, walk.at) \in D
    BY <1>4, <2>1 DEF WalksInv, WalkInv
  <2>3. PICK p \in D : p = At(walk.ptr, walk.at)
    BY <2>2
  <2>4. p.pos = walk.ptr /\ p.value = walk.at /\ p.value \in Parts
    BY <2>3, PlaceFacts DEF At
  <2>5. HasFields(p.value)
    <3>1. ASSUME ~ HasFields(p.value)
          PROVE  FALSE
      <4>1. FieldsOf(walk.at) = << >>
        BY <2>4, <3>1 DEF FieldsOf, HasFields
      <4> QED
        BY <1>4, <4>1
    <3> QED
      BY <3>1
  <2>6. FieldAt(p, n) \in D
    BY <1>4, <2>2, <2>4, <2>5, AllWritten DEF WalksInv
  <2>7. UNCHANGED written /\ At(walk'.ptr, walk'.at) = FieldAt(p, n)
    BY <1>4, <2>4 DEF GoToField, written, FieldAt, Offset
  <2> QED
    BY <1>2, <2>2, <2>6, <2>7
<1>5. ASSUME pc = "done", Follow
      PROVE  WalkInv'
  <2>1. walk # Nowhere
    BY <1>5 DEF Follow, Nowhere, Blob
  <2>2. PICK D \in SUBSET Places : Contents(D) /\ At(walk.ptr, walk.at) \in D
    BY <1>5, <2>1 DEF WalksInv, WalkInv
  <2>3. PICK p \in D : p = At(walk.ptr, walk.at)
    BY <2>2
  <2>4. p.pos = walk.ptr /\ p.value = walk.at /\ p.value.k = "PtrTo" /\ p \in Places
    BY <1>5, <2>3 DEF At, Follow
  <2>5. Written(p)
    BY <1>5, <2>2, <2>4, AllWritten DEF WalksInv, HasFields
  <2>6. p.value.ref \in 1 .. Len(items) /\ FromBytes(Fetch(p.pos, 4)) = addresses[p.value.ref]
    BY <1>5, <2>4, <2>5, PointerRead DEF WalksInv
  <2>7. UNCHANGED written /\ At(walk'.ptr, walk'.at) = ItemAt(p.value.ref)
    BY <1>5, <2>4, <2>6 DEF Follow, written, ItemAt
  <2>8. ItemAt(p.value.ref) \in D
    BY <1>5, <2>2, <2>6, AllWritten DEF WalksInv
  <2> QED
    BY <1>2, <2>2, <2>7, <2>8
<1>6. CASE UNCHANGED vars
  <2>1. UNCHANGED written /\ walk' = walk /\ pc' = pc /\ Nowhere' = Nowhere
    BY <1>6 DEF vars, written, Nowhere
  <2>2. CASE pc = "done" /\ walk # Nowhere
    <3>1. PICK D \in SUBSET Places : Contents(D) /\ At(walk.ptr, walk.at) \in D
      BY <2>2 DEF WalksInv, WalkInv
    <3> QED
      BY <1>2, <2>1, <3>1
  <2>3. CASE ~ (pc = "done" /\ walk # Nowhere)
    BY <2>1, <2>3 DEF WalkInv
  <2> QED
    BY <2>2, <2>3
<1>7. ASSUME pc = "panicked"
      PROVE  UNCHANGED vars
  BY <1>7 DEF Next, AddItem, StartCompile, PlaceItem, Zero, WriteStruct, WriteScalar, WritePointer, AtValue,
              EndCompile, LoadAddress, GoToField, Follow, Stopped
<1>8. ASSUME pc = "done"
      PROVE  WalkInv'
  <2>1. \/ \E ref \in 1 .. MaxItems : LoadAddress(ref)
        \/ \E n \in 1 .. Len(FieldsOf(walk.at)) : GoToField(n)
        \/ Follow \/ UNCHANGED vars
    BY <1>8 DEF Next, AddItem, StartCompile, PlaceItem, Zero, WriteStruct, WriteScalar, WritePointer, AtValue,
                EndCompile, Stopped
  <2> QED
    BY <1>3, <1>4, <1>5, <1>6, <1>8, <2>1
<1>9. pc \in {"build", "place", "write", "done", "panicked"}
  BY DEF WalksInv, StaticInv, StateInv
<1> QED
  BY <1>1, <1>6, <1>7, <1>8, <1>9

LEMMA WalkIsRight ==
  ASSUME WalksInv
  PROVE  WalkFindsItsValue /\ WalkIsAligned
<1>1. CASE pc # "done"
  BY <1>1 DEF WalkFindsItsValue, WalkIsAligned
<1>2. CASE pc = "done" /\ walk = Nowhere
  <2>1. walk.ptr = 0 /\ walk.at = Blob(<< >>) /\ Blob(<< >>) \in Parts
    BY <1>2, ValuesAssumption DEF Nowhere
  <2>2. AlignV(walk.at) \in {1, 2, 4}
    BY <2>1, ValueFacts
  <2>3. walk.ptr % AlignV(walk.at) = 0
    BY <2>1, <2>2
  <2> QED
    BY <1>2, <2>3 DEF WalkFindsItsValue, WalkIsAligned, AlignV
<1>3. CASE pc = "done" /\ walk # Nowhere
  <2>1. PICK D \in SUBSET Places : Contents(D) /\ At(walk.ptr, walk.at) \in D
    BY <1>3 DEF WalksInv, WalkInv
  <2>2. PICK p \in D : p = At(walk.ptr, walk.at)
    BY <2>1
  <2>3. p.pos = walk.ptr /\ p.value = walk.at /\ p \in Places /\ Fits(p)
    BY <1>3, <2>1, <2>2, AllWritten DEF At, WalksInv
  <2>4. ~ HasFields(p.value) => Written(p)
    BY <1>3, <2>1, AllWritten DEF WalksInv
  <2>5. WalkIsAligned
    BY <2>3 DEF WalkIsAligned, Fits, AlignV
  <2>6. CASE walk.at.k = "PtrTo"
    <3>1. Written(p) /\ p.value \in Parts /\ ~ HasFields(p.value)
      BY <2>3, <2>4, <2>6, PlaceFacts DEF HasFields
    <3>2. SizeV(p.value) = 4
      BY <2>3, <2>6, <3>1, ScalarFacts
    <3>3. \A i \in 1 .. 4 : buf[walk.ptr + i] = LeBytes(addresses[walk.at.ref], 4)[i]
      BY <2>3, <2>6, <3>1, <3>2 DEF Written, BytesOf
    <3>4. \A i \in 1 .. 4 : buf[walk.ptr + i] = (addresses[walk.at.ref] \div (256 ^ (i - 1))) % 256
      BY <3>3 DEF LeBytes
    <3>5. Fetch(walk.ptr, 4) = LeBytes(addresses[walk.at.ref], 4)
      BY <3>4 DEF Fetch, LeBytes
    <3> QED
      BY <2>5, <2>6, <3>5 DEF WalkFindsItsValue
  <2>7. CASE walk.at.k \in {"Struct", "Blob"}
    BY <2>5, <2>7 DEF WalkFindsItsValue
  <2>8. CASE walk.at.k \notin {"Struct", "Blob", "PtrTo"}
    <3>1. Written(p) /\ ~ HasFields(p.value) /\ p.value.k # "PtrTo"
      BY <2>3, <2>4, <2>8 DEF HasFields
    <3>2. FromBytes(Fetch(walk.ptr, SizeOf(walk.at.ty))) = walk.at.val
      BY <2>3, <3>1, NumberRead
    <3> QED
      BY <2>5, <2>8, <3>2 DEF WalkFindsItsValue
  <2> QED
    BY <2>6, <2>7, <2>8
<1> QED
  BY <1>1, <1>2, <1>3

\* The walk is somewhere written as long as addresses fit into pointers.
LEMMA WalkInvariant == Spec /\ []Addressable => [](StaticInv /\ WalkInv)
<1>1. Init => WalkInv
  BY DEF Init, WalkInv
<1>2. StaticInv /\ WalkInv /\ Addressable /\ [Next]_vars => WalkInv'
  BY WalkStep DEF WalksInv
<1> QED
  BY <1>1, <1>2, StaticInvariant, PTL DEF Spec

\* As long as the static memory is addressable with 32 bits, a compiled program
\* that goes from items to fields and along pointers finds every value where it
\* looks for it.
THEOREM FindsWhatWasWritten == Spec /\ []Addressable => []WalkFindsItsValue
<1>1. StaticInv /\ WalkInv => WalkFindsItsValue
  BY WalkIsRight DEF WalksInv
<1> QED
  BY <1>1, WalkInvariant, PTL

\* As long as the static memory is addressable with 32 bits, every address at
\* which a compiled program looks for a value is aligned for it.
THEOREM LooksWhereAligned == Spec /\ []Addressable => []WalkIsAligned
<1>1. StaticInv /\ WalkInv => WalkIsAligned
  BY WalkIsRight DEF WalksInv
<1> QED
  BY <1>1, WalkInvariant, PTL

-----------------------------------------------------------------------------
(* Pointers to no item *)

Good(v) == refs[v] \subseteq 1 .. Len(items)

\* The items refer to items only if what is left to be written does.
RefInv ==
  pc = "write" => ((\A n \in 1 .. Len(items) : Good(items[n])) <=> (\A j \in 1 .. Len(todo) : Good(todo[j].value)))

LEMMA RefStep ==
  ASSUME StaticInv, RefInv, [Next]_vars
  PROVE  RefInv'
<1> DEFINE All == \A n \in 1 .. Len(items) : Good(items[n])
<1>1. ASSUME pc' # "write"
      PROVE  RefInv'
  BY <1>1 DEF RefInv
<1>2. ASSUME NEW v \in Values, AddItem(v)
      PROVE  RefInv'
  BY <1>1, <1>2 DEF AddItem
<1>3. CASE StartCompile
  BY <1>1, <1>3 DEF StartCompile
<1>4. CASE PlaceItem
  BY <1>1, <1>4 DEF PlaceItem
<1>5. CASE Zero
  <2>1. items' = items /\ todo' = [n \in 1 .. Len(items) |-> At(addresses[n], items[n])]
    BY <1>5 DEF Zero
  <2>2. Len(items) \in Nat
    BY ItemFacts DEF StaticInv
  <2>3. Len(todo') = Len(items) /\ \A n \in 1 .. Len(items) : todo'[n].value = items[n]
    BY <2>1, <2>2 DEF At
  <2> QED
    BY <2>1, <2>3 DEF RefInv, Good
<1>6. ASSUME todo # << >>, pc = "write", items' = items, pc' = pc
      PROVE  /\ MemoryInv /\ Head(todo) \in Places /\ Head(todo) = todo[1] /\ 1 \in 1 .. Len(todo)
             /\ \A j \in 2 .. Len(todo) : j \in 1 .. Len(todo)
             /\ All <=> Good(Head(todo).value) /\ \A j \in 2 .. Len(todo) : Good(todo[j].value)
  <2>1. MemoryInv
    BY <1>6 DEF StaticInv, WriteInv
  <2>2. Len(todo) \in Nat \ {0} /\ Head(todo) = todo[1] /\ Head(todo) \in Places
    BY <1>6, <2>1, HeadFacts
  <2>3. All <=> \A j \in 1 .. Len(todo) : Good(todo[j].value)
    BY <1>6 DEF RefInv
  <2>4. 1 \in 1 .. Len(todo) /\ \A j \in 2 .. Len(todo) : j \in 1 .. Len(todo)
    BY <2>2
  <2>5. \A j \in 1 .. Len(todo) : j = 1 \/ j \in 2 .. Len(todo)
    BY <2>2
  <2> HIDE DEF All
  <2>6. (\A j \in 1 .. Len(todo) : Good(todo[j].value)) <=>
          Good(Head(todo).value) /\ \A j \in 2 .. Len(todo) : Good(todo[j].value)
    BY <2>2, <2>4, <2>5
  <2> QED
    BY <2>1, <2>2, <2>3, <2>4, <2>6
<1>7. CASE WriteStruct
  <2>1. todo # << >> /\ pc = "write" /\ items' = items /\ pc' = pc /\ Head(todo).value.k = "Struct"
    BY <1>7 DEF WriteStruct, AtValue
  <2>2. PICK h \in Places : h = Head(todo)
    BY <1>6, <2>1
  <2>3. PICK F : F = Len(FieldsOf(h.value))
    OBVIOUS
  <2>4. TakePlace(h, F)
    BY <1>6, <1>7, <2>1, <2>2, <2>3, StructTodo
  <2>5. refs[h.value] = UNION { refs[FieldsOf(h.value)[n]] : n \in 1 .. F }
    <3>1. h.value \in Parts /\ FieldsOf(h.value) = h.value.fields
      BY <2>1, <2>2, PlaceFacts DEF FieldsOf
    <3>2. refs[h.value] = RefsStep(refs, h.value)
      BY <3>1, RefsDef
    <3>3. RefsStep(refs, h.value) = UNION { refs[h.value.fields[n]] : n \in 1 .. Len(h.value.fields) }
      BY <2>1, <2>2 DEF RefsStep
    <3> QED
      BY <2>3, <3>1, <3>2, <3>3
  <2>6. Good(h.value) <=> \A n \in 1 .. F : Good(FieldsOf(h.value)[n])
    BY <2>5 DEF Good
  <2>7. /\ F \in Nat /\ Len(todo') \in Nat
        /\ \A j \in 1 .. F : j \in 1 .. Len(todo') /\ todo'[j].value = FieldsOf(h.value)[j]
        /\ \A j \in 1 .. Len(todo') : j > F => j - F + 1 \in 2 .. Len(todo) /\ todo'[j] = todo[j - F + 1]
        /\ \A k \in 2 .. Len(todo) : k + F - 1 \in 1 .. Len(todo') /\ todo'[k + F - 1] = todo[k]
    <3>1. \A j \in 1 .. F : FieldAt(h, j).value = FieldsOf(h.value)[j]
      BY DEF FieldAt, At
    <3>2. todo' \in Seq(Places)
      BY <2>4 DEF TakePlace
    <3>3. Len(todo') \in Nat
      BY <3>2
    <3> QED
      BY <2>4, <3>1, <3>3 DEF TakePlace
  <2>8. (\A j \in 1 .. Len(todo') : Good(todo'[j].value)) <=>
          (\A n \in 1 .. F : Good(FieldsOf(h.value)[n])) /\ \A j \in 2 .. Len(todo) : Good(todo[j].value)
    <3>1. ASSUME \A j \in 1 .. Len(todo') : Good(todo'[j].value)
          PROVE  (\A n \in 1 .. F : Good(FieldsOf(h.value)[n])) /\ \A j \in 2 .. Len(todo) : Good(todo[j].value)
      BY <2>7, <3>1
    <3>2. ASSUME \A n \in 1 .. F : Good(FieldsOf(h.value)[n]), \A j \in 2 .. Len(todo) : Good(todo[j].value),
                 NEW j \in 1 .. Len(todo')
          PROVE  Good(todo'[j].value)
      <4>1. CASE j <= F
        <5>1. j \in 1 .. F
          BY <2>7, <4>1
        <5> QED
          BY <2>7, <3>2, <5>1
      <4>2. CASE j > F
        BY <2>7, <3>2, <4>2
      <4> QED
        BY <2>7, <4>1, <4>2
    <3> QED
      BY <3>1, <3>2
  <2>9. All <=> \A j \in 1 .. Len(todo') : Good(todo'[j].value)
    BY <1>6, <2>1, <2>2, <2>6, <2>8
  <2>10. \A v : Good(v)' <=> Good(v)
    BY <2>1 DEF Good
  <2>11. All' <=> All
    BY <2>1, <2>10
  <2>12. (\A j \in 1 .. Len(todo') : Good(todo[j].value)') <=> \A j \in 1 .. Len(todo') : Good(todo'[j].value)
    BY <2>10, <2>1 DEF Good
  <2> QED
    BY <2>9, <2>11, <2>12 DEF RefInv
<1>8. ASSUME todo # << >>, pc = "write", items' = items, pc' = pc, todo' = Tail(todo), Good(Head(todo).value)
      PROVE  RefInv'
  <2>1. MemoryInv
    BY <1>6, <1>8
  <2>2. /\ Len(todo) \in Nat \ {0} /\ Len(todo') = Len(todo) - 1
        /\ \A j \in 1 .. Len(todo) - 1 : todo'[j] = todo[j + 1]
    BY <1>8, <2>1, HeadFacts
  <2>3. (\A j \in 2 .. Len(todo) : Good(todo[j].value)) <=> \A j \in 1 .. Len(todo') : Good(todo'[j].value)
    <3>1. \A j \in 2 .. Len(todo) : j - 1 \in 1 .. Len(todo') /\ todo'[j - 1] = todo[j]
      <4>1. \A j \in 2 .. Len(todo) : j - 1 \in 1 .. Len(todo) - 1 /\ (j - 1) + 1 = j
        BY <2>2
      <4> QED
        BY <2>2, <4>1
    <3>2. \A j \in 1 .. Len(todo') : j + 1 \in 2 .. Len(todo) /\ todo'[j] = todo[j + 1]
      BY <2>2
    <3> QED
      BY <3>1, <3>2
  <2>4. All <=> \A j \in 1 .. Len(todo') : Good(todo'[j].value)
    BY <1>6, <1>8, <2>3
  <2> QED
    BY <1>8, <2>4 DEF RefInv, Good
<1>9. CASE WriteScalar
  <2>1. /\ todo # << >> /\ pc = "write" /\ items' = items /\ pc' = pc /\ todo' = Tail(todo)
        /\ Head(todo).value.k \notin {"Struct", "PtrTo"}
    BY <1>9 DEF WriteScalar, AtValue
  <2>2. Head(todo).value \in Parts
    BY <1>6, <2>1, PlaceFacts
  <2>3. refs[Head(todo).value] = {}
    BY <2>1, <2>2, RefsDef DEF RefsStep
  <2> QED
    BY <1>8, <2>1, <2>3 DEF Good
<1>10. CASE WritePointer
  <2>1. todo # << >> /\ pc = "write" /\ items' = items /\ Head(todo).value.k = "PtrTo"
    BY <1>10 DEF WritePointer, AtValue
  <2>2. CASE pc' # pc
    BY <1>1, <2>1, <2>2
  <2>3. CASE pc' = pc
    <3>1. /\ MemoryInv /\ Head(todo).value \in Parts
      BY <1>6, <2>1, <2>3, PlaceFacts
    <3>2. Head(todo).value.ref \in DOMAIN addresses /\ todo' = Tail(todo)
      BY <1>10, <2>1, <2>3 DEF WritePointer
    <3>3. Head(todo).value.ref \in 1 .. Len(items)
      BY <3>1, <3>2 DEF MemoryInv, StaticInv, StateInv
    <3>4. refs[Head(todo).value] = {Head(todo).value.ref}
      BY <2>1, <3>1, RefsDef DEF RefsStep
    <3>5. Good(Head(todo).value)
      BY <3>3, <3>4 DEF Good
    <3> QED
      BY <1>8, <2>1, <2>3, <3>2, <3>5
  <2> QED
    BY <2>2, <2>3
<1>11. CASE EndCompile
  BY <1>1, <1>11 DEF EndCompile
<1>12. ASSUME pc = "done" /\ pc' \in {"done", "panicked"}
       PROVE  RefInv'
  BY <1>1, <1>12
<1>13. ASSUME NEW ref \in 1 .. MaxItems, LoadAddress(ref)
       PROVE  RefInv'
  BY <1>12, <1>13 DEF LoadAddress
<1>14. ASSUME NEW n \in 1 .. Len(FieldsOf(walk.at)), GoToField(n)
       PROVE  RefInv'
  BY <1>12, <1>14 DEF GoToField
<1>15. CASE Follow
  BY <1>12, <1>15 DEF Follow
<1>16. CASE UNCHANGED vars
  BY <1>16 DEF vars, RefInv, Good
<1>17. CASE Stopped
  BY <1>16, <1>17 DEF Stopped
<1> QED
  BY <1>2, <1>3, <1>4, <1>5, <1>7, <1>9, <1>10, <1>11, <1>13, <1>14, <1>15, <1>16, <1>17 DEF Next

\* A step that ends the writing ends it well just if the items refer to items.
LEMMA DanglingStep ==
  ASSUME StaticInv, RefInv, [Next]_vars, pc = "write", pc' # pc
  PROVE  pc' = "done" <=> \A n \in 1 .. Len(items) : RefsIn(items[n]) \subseteq 1 .. Len(items)
<1>1. (\A n \in 1 .. Len(items) : RefsIn(items[n]) \subseteq 1 .. Len(items)) <=>
        \A j \in 1 .. Len(todo) : Good(todo[j].value)
  BY DEF RefInv, Good, RefsIn
<1>2. EndCompile \/ WritePointer
  BY DEF Next, vars, AddItem, StartCompile, PlaceItem, Zero, WriteStruct, WriteScalar, LoadAddress, GoToField,
         Follow, Stopped
<1>3. CASE EndCompile
  <2>1. pc' = "done" /\ todo = << >>
    BY <1>3 DEF EndCompile
  <2> QED
    BY <1>1, <2>1
<1>4. CASE WritePointer
  <2>1. todo # << >> /\ Head(todo).value.k = "PtrTo" /\ MemoryInv
    BY <1>4 DEF WritePointer, AtValue, StaticInv, WriteInv
  <2>2. Head(todo).value \in Parts /\ Head(todo) = todo[1] /\ 1 \in 1 .. Len(todo)
    BY <2>1, HeadFacts, PlaceFacts
  <2>3. pc' = "panicked" /\ Head(todo).value.ref \notin DOMAIN addresses
    BY <1>4 DEF WritePointer
  <2>4. Head(todo).value.ref \notin 1 .. Len(items)
    BY <2>1, <2>3 DEF MemoryInv, StaticInv, StateInv
  <2>5. refs[Head(todo).value] = {Head(todo).value.ref}
    BY <2>1, <2>2, RefsDef DEF RefsStep
  <2>6. ~ Good(todo[1].value)
    BY <2>2, <2>4, <2>5 DEF Good
  <2> QED
    BY <1>1, <2>2, <2>3, <2>6
<1> QED
  BY <1>2, <1>3, <1>4

\* compile() gets through just if every pointer in an item is one to an item,
\* whatever the order of the items and wherever in them the pointers are.
THEOREM PanicsForDanglingOnly == Spec => DanglingOnly
<1>1. Init => RefInv
  BY DEF Init, RefInv
<1>2. StaticInv /\ RefInv /\ [Next]_vars => RefInv'
  BY RefStep
<1>3. StaticInv /\ RefInv /\ [Next]_vars =>
        [pc = "write" /\ pc' # pc =>
           (pc' = "done" <=> \A n \in 1 .. Len(items) : RefsIn(items[n]) \subseteq 1 .. Len(items))]_vars
  BY DanglingStep
<1> QED
  BY <1>1, <1>2, <1>3, StaticInvariant, PTL DEF Spec, DanglingOnly
=============================================================================
