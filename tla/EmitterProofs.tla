---------------------------- MODULE EmitterProofs ---------------------------
(***************************************************************************)
(* What the code emitter makes of a regular function: the recursion over   *)
(* its blocks meets no block twice, and every br names the construct it is *)
(* meant for.                                                              *)
(*                                                                         *)
(* The invariant Stack relates the active calls of compile_block to the    *)
(* constructs that are open.  It is stated for any function f, any frames  *)
(* fs and any labels ls.                                                   *)
(***************************************************************************)
EXTENDS Emitter, ControlFlowProofs, SequenceTheorems

FrameSet(f) == [block : Blocks(f), ip : Nat, calls : Nat, height : Nat]

InstrOf(f, fr) == f.body[fr.block][fr.ip]

\* How many constructs are open for the instruction a call is at.
Opened(f, fr) == IF fr.calls = 0 THEN 0 ELSE IF InstrOf(f, fr).op = "Loop" THEN 2 ELSE 1

Reach(f, fr) == fr.height + Opened(f, fr)

\* A call is inside of its block; once it has called compile_block, it is at
\* an instruction that refers to blocks, and what that opens is open.
FrameOk(f, fr, ls) ==
  /\ fr.ip \in 1 .. Len(f.body[fr.block]) + 1
  /\ fr.calls > 0 =>
       /\ fr.ip <= Len(f.body[fr.block])
       /\ \/ /\ InstrOf(f, fr).op = "Loop" /\ fr.calls = 1
             /\ ls[fr.height + 1] = "block" /\ ls[fr.height + 2] = "loop"
          \/ /\ InstrOf(f, fr).op = "IfElse" /\ fr.calls \in {1, 2}
             /\ ls[fr.height + 1] = "if"

\* The call fr is the one that caller is waiting for.
CalledBy(f, caller, fr) ==
  /\ caller.calls > 0 /\ caller.calls <= Len(Refs(InstrOf(f, caller)))
  /\ Refs(InstrOf(f, caller))[caller.calls].block = fr.block
  /\ fr.height = Reach(f, caller)

Stack(f, fs, ls) ==
  /\ fs \in Seq(FrameSet(f)) /\ ls \in Seq({"func", "if", "block", "loop"})
  /\ Len(fs) > 0 => fs[1].block = Entry /\ fs[1].height = 1
  /\ \A k \in 1 .. Len(fs) : FrameOk(f, fs[k], ls)
  /\ \A k \in 2 .. Len(fs) : CalledBy(f, fs[k - 1], fs[k])
  /\ \A j, k \in 1 .. Len(fs) : j < k => Reach(f, fs[j]) <= fs[k].height
  /\ Len(ls) = IF Len(fs) = 0 THEN 1 ELSE Reach(f, fs[Len(fs)])

-----------------------------------------------------------------------------
(* Changes of the stack *)

LEMMA FrontOf ==
  ASSUME NEW S, NEW s \in Seq(S), Len(s) > 0
  PROVE  /\ Front(s) \in Seq(S) /\ Len(Front(s)) = Len(s) - 1
         /\ \A k \in 1 .. Len(s) - 1 : Front(s)[k] = s[k]
<1> DEFINE n == Len(s) - 1
<1>1. n \in Nat /\ \A k \in 1 .. n : s[k] \in S
  OBVIOUS
<1>2. Front(s) = SubSeq(s, 1, n)
  BY DEF Front
<1> HIDE DEF n
<1>3. 1 \in Int /\ n \in Int /\ n = (IF 1 <= n THEN n - 1 + 1 ELSE 0)
      /\ n - 1 + 1 = n /\ \A k \in 1 .. n : 1 + k - 1 = k
  BY <1>1
<1>4. /\ SubSeq(s, 1, n) \in Seq(S)
      /\ Len(SubSeq(s, 1, n)) = IF 1 <= n THEN n - 1 + 1 ELSE 0
      /\ \A k \in 1 .. n - 1 + 1 : SubSeq(s, 1, n)[k] = s[1 + k - 1]
  BY <1>1, <1>3, SubSeqProperties
<1>5. Front(s) \in Seq(S) /\ Len(Front(s)) = n /\ \A k \in 1 .. n : Front(s)[k] = s[k]
  BY <1>2, <1>3, <1>4
<1> QED
  BY <1>5 DEF n

LEMMA ReachType ==
  ASSUME NEW f, NEW fr \in FrameSet(f)
  PROVE  Reach(f, fr) \in Nat /\ fr.height <= Reach(f, fr)
BY DEF FrameSet, Reach, Opened

\* compile_func calls compile_block for the entry block.
LEMMA StackStarts ==
  ASSUME NEW f, IsFunction(f)
  PROVE  Stack(f, << Frame(Entry, 1) >>, << "func" >>)
<1> DEFINE fr == Frame(Entry, 1)  fs == << fr >>
<1>1. fr \in FrameSet(f) /\ fr.ip = 1 /\ fr.calls = 0 /\ fr.height = 1 /\ fr.block = Entry
  BY DEF Frame, FrameSet, IsFunction
<1>2. Reach(f, fr) = 1 /\ 1 \in 1 .. Len(f.body[Entry]) + 1
  BY <1>1 DEF Reach, Opened, IsFunction
<1> HIDE DEF fr
<1>3. fs \in Seq(FrameSet(f)) /\ Len(fs) = 1 /\ fs[1] = fr
  BY <1>1
<1> HIDE DEF fs
<1>4. \A k \in 1 .. Len(fs) : FrameOk(f, fs[k], << "func" >>)
  BY <1>1, <1>2, <1>3 DEF FrameOk
<1>5. Stack(f, fs, << "func" >>)
  BY <1>1, <1>2, <1>3, <1>4 DEF Stack
<1> QED
  BY <1>5 DEF fs, fr

\* The call at the top goes on, and so do the labels above those it found.
LEMMA StackTop ==
  ASSUME NEW f, NEW fs, NEW ls, Stack(f, fs, ls), Len(fs) > 0,
         NEW t \in FrameSet(f), t.block = fs[Len(fs)].block, t.height = fs[Len(fs)].height,
         NEW ms \in Seq({"func", "if", "block", "loop"}),
         \A n \in 1 .. t.height : ms[n] = ls[n],
         FrameOk(f, t, ms), Len(ms) = Reach(f, t)
  PROVE  Stack(f, [fs EXCEPT ![Len(fs)] = t], ms)
<1> DEFINE L == Len(fs)  gs == [fs EXCEPT ![L] = t]
<1>1. /\ fs \in Seq(FrameSet(f)) /\ L \in Nat /\ L > 0
      /\ \A k \in 1 .. L : fs[k] \in FrameSet(f)
  BY DEF Stack
<1>2. gs \in Seq(FrameSet(f)) /\ Len(gs) = L /\ gs[L] = t /\ \A k \in 1 .. L - 1 : gs[k] = fs[k]
  BY <1>1
<1> HIDE DEF gs
<1>3. ASSUME NEW k \in 1 .. L PROVE FrameOk(f, gs[k], ms)
  <2>1. CASE k = L
    BY <1>2, <2>1
  <2>2. CASE k < L
    <3>1. gs[k] = fs[k] /\ FrameOk(f, fs[k], ls) /\ Reach(f, fs[k]) <= t.height
      BY <1>1, <1>2, <2>2 DEF Stack
    <3>2. fs[k].height \in Nat /\ t.height \in Nat /\ fs[k].calls \in Nat
      BY <1>1 DEF FrameSet
    <3>3. CASE fs[k].calls = 0
      BY <3>1, <3>2, <3>3 DEF FrameOk
    <3>4. CASE fs[k].calls > 0 /\ InstrOf(f, fs[k]).op = "Loop"
      <4>1. fs[k].height + 1 \in 1 .. t.height /\ fs[k].height + 2 \in 1 .. t.height
        BY <3>1, <3>2, <3>4 DEF Reach, Opened
      <4> QED
        BY <3>1, <3>4, <4>1 DEF FrameOk
    <3>5. CASE fs[k].calls > 0 /\ InstrOf(f, fs[k]).op # "Loop"
      <4>1. fs[k].height + 1 \in 1 .. t.height
        BY <3>1, <3>2, <3>5 DEF Reach, Opened
      <4> QED
        BY <3>1, <3>5, <4>1 DEF FrameOk
    <3> QED
      BY <3>2, <3>3, <3>4, <3>5
  <2> QED
    BY <1>1, <2>1, <2>2
<1>4. ASSUME NEW k \in 2 .. L PROVE CalledBy(f, gs[k - 1], gs[k])
  <2>1. gs[k - 1] = fs[k - 1] /\ CalledBy(f, fs[k - 1], fs[k])
    BY <1>1, <1>2 DEF Stack
  <2>2. gs[k].block = fs[k].block /\ gs[k].height = fs[k].height
    BY <1>1, <1>2
  <2> QED
    BY <2>1, <2>2 DEF CalledBy
<1>5. \A j, k \in 1 .. L : j < k => Reach(f, gs[j]) <= gs[k].height
  <2> SUFFICES ASSUME NEW j \in 1 .. L, NEW k \in 1 .. L, j < k
               PROVE  Reach(f, gs[j]) <= gs[k].height
    OBVIOUS
  <2>1. gs[j] = fs[j] /\ gs[k].height = fs[k].height
    BY <1>1, <1>2
  <2>2. Reach(f, fs[j]) <= fs[k].height
    BY DEF Stack
  <2> QED
    BY <2>1, <2>2
<1>6. gs[1].block = Entry /\ gs[1].height = 1
  <2>1. gs[1].block = fs[1].block /\ gs[1].height = fs[1].height
    BY <1>1, <1>2
  <2> QED
    BY <1>1, <2>1 DEF Stack
<1>7. Stack(f, gs, ms)
  BY <1>1, <1>2, <1>3, <1>4, <1>5, <1>6 DEF Stack
<1> QED
  BY <1>7 DEF gs

\* The call at the top calls compile_block for a block it refers to.
LEMMA StackPush ==
  ASSUME NEW f, IsFunction(f), NEW fs, NEW ls, Stack(f, fs, ls), Len(fs) > 0,
         NEW b \in Blocks(f), LET t == fs[Len(fs)] IN
           /\ t.calls > 0 /\ t.calls <= Len(Refs(InstrOf(f, t)))
           /\ Refs(InstrOf(f, t))[t.calls].block = b
  PROVE  Stack(f, Append(fs, Frame(b, Len(ls))), ls)
<1> DEFINE L == Len(fs)  fr == Frame(b, Len(ls))  gs == Append(fs, fr)
<1>1. /\ fs \in Seq(FrameSet(f)) /\ L \in Nat /\ L > 0 /\ Len(ls) \in Nat
      /\ \A k \in 1 .. L : fs[k] \in FrameSet(f)
      /\ Len(ls) = Reach(f, fs[L])
  BY DEF Stack
<1>2. fr \in FrameSet(f) /\ fr.ip = 1 /\ fr.calls = 0 /\ fr.height = Len(ls) /\ fr.block = b
  BY <1>1 DEF Frame, FrameSet
<1> HIDE DEF fr
<1>3. gs \in Seq(FrameSet(f)) /\ Len(gs) = L + 1 /\ gs[L + 1] = fr /\ \A k \in 1 .. L : gs[k] = fs[k]
  BY <1>1, <1>2
<1> HIDE DEF gs
<1>4. Reach(f, fr) = Len(ls)
  BY <1>1, <1>2 DEF Reach, Opened
<1>5. FrameOk(f, fr, ls)
  <2>1. 1 \in 1 .. Len(f.body[b]) + 1
    BY DEF IsFunction
  <2> QED
    BY <1>2, <2>1 DEF FrameOk
<1>6. CalledBy(f, fs[L], fr)
  BY <1>1, <1>2 DEF CalledBy
<1>7. ASSUME NEW k \in 1 .. L + 1 PROVE FrameOk(f, gs[k], ls)
  BY <1>1, <1>3, <1>5 DEF Stack
<1>8. ASSUME NEW k \in 2 .. L + 1 PROVE CalledBy(f, gs[k - 1], gs[k])
  <2>1. CASE k = L + 1
    BY <1>1, <1>3, <1>6, <2>1
  <2>2. CASE k \in 2 .. L
    BY <1>1, <1>3, <2>2 DEF Stack
  <2> QED
    BY <1>1, <2>1, <2>2
<1>9. ASSUME NEW j \in 1 .. L + 1, NEW k \in 1 .. L + 1, j < k
      PROVE  Reach(f, gs[j]) <= gs[k].height
  <2>1. CASE k \in 1 .. L
    <3>1. j \in 1 .. L /\ gs[j] = fs[j] /\ gs[k] = fs[k]
      BY <1>1, <1>3, <1>9, <2>1
    <3>2. Reach(f, fs[j]) <= fs[k].height
      BY <1>9, <2>1, <3>1 DEF Stack
    <3> QED
      BY <3>1, <3>2
  <2>2. CASE k = L + 1
    <3>1. j \in 1 .. L /\ gs[j] = fs[j]
      BY <1>1, <1>3, <1>9, <2>2
    <3>2. Reach(f, fs[j]) <= fs[L].height \/ j = L
      BY <1>1, <3>1 DEF Stack
    <3>3. Reach(f, fs[j]) \in Nat /\ fs[L].height \in Nat /\ fs[L].height <= Reach(f, fs[L])
          /\ Reach(f, fs[L]) \in Nat
      <4>1. fs[j] \in FrameSet(f) /\ fs[L] \in FrameSet(f)
        BY <1>1, <3>1
      <4>2. fs[L].height \in Nat
        BY <4>1 DEF FrameSet
      <4> QED
        BY <4>1, <4>2, ReachType
    <3> QED
      BY <1>1, <1>2, <1>3, <2>2, <3>1, <3>2, <3>3
  <2> QED
    BY <1>1, <2>1, <2>2
<1>10. gs[1].block = Entry /\ gs[1].height = 1
  BY <1>1, <1>3 DEF Stack
<1>11. Stack(f, gs, ls)
  <2>1. ls \in Seq({"func", "if", "block", "loop"}) /\ Len(ls) = Reach(f, gs[Len(gs)])
    BY <1>1, <1>3, <1>4 DEF Stack
  <2> QED
    BY <1>1, <1>3, <1>7, <1>8, <1>9, <1>10, <2>1 DEF Stack
<1> QED
  BY <1>11 DEF gs, fr

\* At the end of its block a call returns, with the labels it found.
LEMMA StackPop ==
  ASSUME NEW f, NEW fs, NEW ls, Stack(f, fs, ls), Len(fs) > 0, fs[Len(fs)].calls = 0
  PROVE  Stack(f, Front(fs), ls)
<1> DEFINE L == Len(fs)  gs == Front(fs)
<1>1. /\ fs \in Seq(FrameSet(f)) /\ L \in Nat /\ L > 0
      /\ \A k \in 1 .. L : fs[k] \in FrameSet(f)
      /\ Len(ls) = Reach(f, fs[L])
  BY DEF Stack
<1>2. gs \in Seq(FrameSet(f)) /\ Len(gs) = L - 1 /\ \A k \in 1 .. L - 1 : gs[k] = fs[k]
  BY <1>1, FrontOf
<1> HIDE DEF gs
<1>3. Reach(f, fs[L]) = fs[L].height
  BY <1>1 DEF Reach, Opened, FrameSet
<1>4. CASE L = 1
  <2>1. Len(ls) = 1 /\ Len(gs) = 0
    BY <1>1, <1>2, <1>3, <1>4 DEF Stack
  <2>2. Stack(f, gs, ls)
    BY <1>2, <2>1 DEF Stack
  <2> QED
    BY <2>2 DEF gs
<1>5. CASE L > 1
  <2>1. fs[L].height = Reach(f, fs[L - 1])
    BY <1>1, <1>5 DEF Stack, CalledBy
  <2>2. Len(ls) = Reach(f, gs[Len(gs)]) /\ Len(gs) > 0
    BY <1>1, <1>2, <1>3, <1>5, <2>1
  <2>3. \A k \in 1 .. Len(gs) : k \in 1 .. L /\ gs[k] = fs[k]
    BY <1>1, <1>2
  <2>4. \A k \in 2 .. Len(gs) : k \in 2 .. L /\ gs[k] = fs[k] /\ gs[k - 1] = fs[k - 1]
    BY <1>1, <1>2
  <2>5. \A k \in 1 .. Len(gs) : FrameOk(f, gs[k], ls)
    BY <2>3 DEF Stack
  <2>6. \A k \in 2 .. Len(gs) : CalledBy(f, gs[k - 1], gs[k])
    BY <2>4 DEF Stack
  <2>7. \A j, k \in 1 .. Len(gs) : j < k => Reach(f, gs[j]) <= gs[k].height
    BY <2>3 DEF Stack
  <2>8. gs[1].block = Entry /\ gs[1].height = 1
    BY <1>1, <2>2, <2>3 DEF Stack
  <2>9. Stack(f, gs, ls)
    BY <1>2, <2>2, <2>5, <2>6, <2>7, <2>8 DEF Stack
  <2> QED
    BY <2>9 DEF gs
<1>6. L = 1 \/ L > 1
  <2>1. L \in Nat /\ L > 0
    BY <1>1
  <2> HIDE DEF L
  <2> QED
    BY <2>1
<1> QED
  BY <1>4, <1>5, <1>6

-----------------------------------------------------------------------------
(* What the stack says of the blocks being compiled *)

\* The place at which the block of call k is referred to.
RefOf(fs, k) == Pos(fs[k - 1].block, fs[k - 1].ip, fs[k - 1].calls)

LEMMA CallerRefers ==
  ASSUME NEW f, IsFunction(f), NEW fs, NEW ls, Stack(f, fs, ls), NEW k \in 2 .. Len(fs)
  PROVE  /\ RefOf(fs, k) \in Positions(f)
         /\ RefAt(f, RefOf(fs, k)).block = fs[k].block
         /\ RefAt(f, RefOf(fs, k)).tag = IF InstrOf(f, fs[k - 1]).op = "Loop" THEN "Loop" ELSE "IfElse"
         /\ fs[k - 1].calls > 0
<1> DEFINE c == fs[k - 1]
<1>1. Len(fs) \in Nat /\ k - 1 \in 1 .. Len(fs) /\ fs \in Seq(FrameSet(f))
  BY DEF Stack
<1>2. c \in FrameSet(f) /\ FrameOk(f, c, ls) /\ CalledBy(f, c, fs[k])
  BY <1>1 DEF Stack
<1> HIDE DEF c
<1>3. /\ c.block \in Blocks(f) /\ c.calls \in Nat /\ c.calls > 0
      /\ c.ip \in 1 .. Len(f.body[c.block]) + 1 /\ c.ip <= Len(f.body[c.block])
      /\ c.calls <= Len(Refs(InstrOf(f, c)))
      /\ Refs(InstrOf(f, c))[c.calls].block = fs[k].block
  BY <1>2 DEF FrameSet, FrameOk, CalledBy
<1>4. Len(f.body[c.block]) \in Nat
  BY <1>3 DEF IsFunction
<1>5. c.ip \in 1 .. Len(f.body[c.block])
  BY <1>3, <1>4
<1>6. Len(Refs(f.body[c.block][c.ip])) \in Nat
  BY <1>3, <1>5 DEF IsFunction
<1>7. c.calls \in 1 .. Len(Refs(f.body[c.block][c.ip]))
  BY <1>3, <1>6 DEF InstrOf
<1>8. Pos(c.block, c.ip, c.calls) \in Positions(f)
  BY <1>3, <1>5, <1>7 DEF Positions
<1>9. RefAt(f, Pos(c.block, c.ip, c.calls)) = Refs(InstrOf(f, c))[c.calls]
  BY DEF RefAt, Pos, InstrOf
<1>10. Refs(InstrOf(f, c))[c.calls].tag = IF InstrOf(f, c).op = "Loop" THEN "Loop" ELSE "IfElse"
  <2>1. CASE InstrOf(f, c).op = "Loop"
    BY <1>2, <1>3, <2>1 DEF Refs, Ref, FrameOk
  <2>2. CASE InstrOf(f, c).op = "IfElse"
    <3>1. CASE InstrOf(f, c).else = NoBlock
      <4>1. Refs(InstrOf(f, c)) = << Ref(InstrOf(f, c).then, "IfElse") >>
        BY <2>2, <3>1 DEF Refs
      <4>2. c.calls = 1
        BY <1>3, <4>1
      <4> QED
        BY <2>2, <4>1, <4>2 DEF Ref
    <3>2. CASE InstrOf(f, c).else # NoBlock
      <4>1. Refs(InstrOf(f, c)) = << Ref(InstrOf(f, c).then, "IfElse"), Ref(InstrOf(f, c).else, "IfElse") >>
        BY <2>2, <3>2 DEF Refs
      <4>2. c.calls = 1 \/ c.calls = 2
        BY <1>3, <4>1
      <4> QED
        BY <2>2, <4>1, <4>2 DEF Ref
    <3> QED
      BY <3>1, <3>2
  <2> QED
    BY <1>2, <1>3, <2>1, <2>2 DEF FrameOk
<1> QED
  BY <1>3, <1>8, <1>9, <1>10 DEF RefOf, c

\* In a function whose blocks are used once no block calls itself: of the
\* calls for one block, their callers would be calls for one block too.
LEMMA CallsDiffer ==
  ASSUME NEW f, IsFunction(f), SingleUse(f), EntryUnused(f),
         NEW fs, NEW ls, Stack(f, fs, ls)
  PROVE  \A j, k \in 1 .. Len(fs) : fs[j].block = fs[k].block => j = k
<1> DEFINE Twice(j) == \E k \in 1 .. Len(fs) : j < k /\ fs[j].block = fs[k].block
           S == { j \in 1 .. Len(fs) : Twice(j) }
<1>1. Len(fs) \in Nat
  BY DEF Stack
<1>2. ASSUME NEW m \in S, \A j \in S : m <= j
      PROVE  FALSE
  <2>1. PICK k \in 1 .. Len(fs) : m < k /\ fs[m].block = fs[k].block
    OBVIOUS
  <2>2. m \in 1 .. Len(fs) /\ k \in 2 .. Len(fs) /\ k - 1 \in 1 .. Len(fs) /\ Len(fs) > 0
    BY <1>1, <2>1
  <2>3. RefOf(fs, k) \in Positions(f) /\ RefAt(f, RefOf(fs, k)).block = fs[k].block
    BY <2>2, CallerRefers
  <2>4. m # 1
    BY <2>1, <2>2, <2>3 DEF EntryUnused, Stack
  <2>5. m \in 2 .. Len(fs) /\ m - 1 \in 1 .. Len(fs) /\ m - 1 < k - 1 /\ ~ (m <= m - 1)
    BY <2>1, <2>2, <2>4
  <2>6. RefOf(fs, m) \in Positions(f) /\ RefAt(f, RefOf(fs, m)).block = fs[m].block
    BY <2>5, CallerRefers
  <2>7. RefOf(fs, m) = RefOf(fs, k)
    BY <2>1, <2>3, <2>6 DEF SingleUse
  <2>8. fs[m - 1].block = fs[k - 1].block
    BY <2>7 DEF RefOf, Pos
  <2>9. m - 1 \in S
    BY <2>2, <2>5, <2>8
  <2> QED
    BY <1>2, <2>5, <2>9
<1>3. S = {}
  <2> HIDE DEF S
  <2>1. S \in SUBSET Nat
    BY <1>1 DEF S
  <2> QED
    BY <1>2, <2>1, LeastNumber
<1>4. \A j \in 1 .. Len(fs) : ~Twice(j)
  BY <1>3
<1>5. SUFFICES ASSUME NEW j \in 1 .. Len(fs), NEW k \in 1 .. Len(fs), fs[j].block = fs[k].block, j # k
               PROVE  FALSE
  OBVIOUS
<1>6. CASE j < k
  BY <1>4, <1>5, <1>6
<1>7. CASE k < j
  BY <1>4, <1>5, <1>7
<1> QED
  BY <1>1, <1>5, <1>6, <1>7

\* The label of the function is open in every call.
LEMMA FuncIsOpen ==
  ASSUME NEW f, NEW fs, NEW ls, Stack(f, fs, ls), NEW k \in 1 .. Len(fs)
  PROVE  fs[k].height \in Nat /\ fs[k].height > 0
<1>1. Len(fs) \in Nat /\ fs \in Seq(FrameSet(f)) /\ 1 \in 1 .. Len(fs)
  BY DEF Stack
<1>2. fs[1] \in FrameSet(f) /\ fs[k] \in FrameSet(f)
  BY <1>1
<1>3. fs[k].height \in Nat /\ fs[1].height = 1
  BY <1>1, <1>2 DEF FrameSet, Stack
<1>4. CASE k = 1
  BY <1>3, <1>4
<1>5. CASE k # 1
  <2>1. 1 < k
    BY <1>5
  <2>2. Reach(f, fs[1]) <= fs[k].height
    BY <1>1, <2>1 DEF Stack
  <2>3. Reach(f, fs[1]) \in Nat /\ 1 <= Reach(f, fs[1])
    BY <1>2, <1>3, ReachType
  <2> QED
    BY <1>3, <2>2, <2>3
<1> QED
  BY <1>4, <1>5

\* Call k is d branches inside of the loop whose body is compiled by call j.
LoopAt(f, fs, ls, k, j, d) ==
  /\ j \in 2 .. k /\ f.tag[fs[j].block] = "Loop"
  /\ \A m \in j + 1 .. k : f.tag[fs[m].block] # "Loop"
  /\ fs[k].height = fs[j].height + d /\ fs[j].height > 2
  /\ ls[fs[j].height - 1] = "block" /\ ls[fs[j].height] = "loop"
  /\ \A n \in fs[j].height + 1 .. fs[k].height : ls[n] = "if"

\* The distance of a block is the number of branches that are open between it
\* and its loop.
LEMMA DistanceIsDepth ==
  ASSUME NEW f, IsFunction(f), WellFormed(f), NEW d, LoopDistances(f, d),
         NEW fs, NEW ls, Stack(f, fs, ls), NEW k \in 1 .. Len(fs), fs[k].block \in DOMAIN d
  PROVE  d[fs[k].block] \in Nat /\ \E j \in 1 .. Len(fs) : LoopAt(f, fs, ls, k, j, d[fs[k].block])
<1> DEFINE Right(m) == d[fs[m].block] \in Nat /\ \E j \in 1 .. Len(fs) : LoopAt(f, fs, ls, m, j, d[fs[m].block])
           S == { m \in 1 .. Len(fs) : fs[m].block \in DOMAIN d /\ ~Right(m) }
<1>1. Len(fs) \in Nat /\ fs \in Seq(FrameSet(f))
  BY DEF Stack
<1>2. ASSUME NEW m \in S, \A i \in S : m <= i
      PROVE  FALSE
  <2> DEFINE b == fs[m].block  a == fs[m - 1].block
  <2>1. m \in 1 .. Len(fs) /\ b \in DOMAIN d /\ ~Right(m)
    OBVIOUS
  <2>2. f.tag[b] = "Loop" \/ f.tag[b] = "IfElse"
    BY <2>1 DEF LoopDistances, OfTag
  <2>3. m # 1
    BY <2>1, <2>2 DEF Stack, WellFormed, EntryIsMain
  <2>4. m \in 2 .. Len(fs) /\ m - 1 \in 1 .. Len(fs) /\ ~ (m <= m - 1)
    BY <1>1, <2>1, <2>3
  <2>5. /\ RefOf(fs, m) \in Positions(f) /\ RefAt(f, RefOf(fs, m)).block = b
        /\ RefAt(f, RefOf(fs, m)).tag = IF InstrOf(f, fs[m - 1]).op = "Loop" THEN "Loop" ELSE "IfElse"
        /\ fs[m - 1].calls > 0
    BY <2>4, CallerRefers
  <2>6. f.tag[b] = IF InstrOf(f, fs[m - 1]).op = "Loop" THEN "Loop" ELSE "IfElse"
    BY <2>5 DEF WellFormed, RefsResolve
  <2>7. fs[m] \in FrameSet(f) /\ fs[m - 1] \in FrameSet(f)
    BY <1>1, <2>4
  <2>8. b \in Blocks(f) /\ a \in Blocks(f) /\ fs[m].height \in Nat /\ fs[m - 1].height \in Nat
        /\ fs[m - 1].calls \in Nat
    BY <2>7 DEF FrameSet
  <2>9. IsParent(f, a, b)
    BY <2>5 DEF IsParent, RefOf, Pos
  <2>10. FrameOk(f, fs[m - 1], ls) /\ fs[m].height = Reach(f, fs[m - 1])
    BY <2>4 DEF Stack, CalledBy
  <2>11. CASE f.tag[b] = "Loop"
    <3>1. InstrOf(f, fs[m - 1]).op = "Loop"
      BY <2>6, <2>11
    <3>2. fs[m].height = fs[m - 1].height + 2 /\ ls[fs[m - 1].height + 1] = "block" /\ ls[fs[m - 1].height + 2] = "loop"
      BY <2>5, <2>8, <2>10, <3>1 DEF FrameOk, Reach, Opened
    <3>3. ls[fs[m].height - 1] = "block" /\ ls[fs[m].height] = "loop"
      <4>1. fs[m].height - 1 = fs[m - 1].height + 1
        BY <2>8, <3>2
      <4> QED
        BY <3>2, <4>1
    <3>6. fs[m].height > 2
      <4>1. fs[m - 1].height > 0
        BY <2>4, FuncIsOpen
      <4> QED
        BY <2>8, <3>2, <4>1
    <3>4. d[b] = 0
      BY <2>8, <2>11 DEF LoopDistances, OfTag
    <3>5. LoopAt(f, fs, ls, m, m, 0)
      BY <1>1, <2>4, <2>8, <2>11, <3>3, <3>6 DEF LoopAt
    <3> QED
      BY <2>1, <3>4, <3>5
  <2>12. CASE f.tag[b] = "IfElse"
    <3>1. InstrOf(f, fs[m - 1]).op # "Loop"
      BY <2>6, <2>12
    <3>2. fs[m].height = fs[m - 1].height + 1 /\ ls[fs[m].height] = "if"
      BY <2>5, <2>8, <2>10, <3>1 DEF FrameOk, Reach, Opened
    <3>3. a \in DOMAIN d /\ d[b] = d[a] + 1
      BY <2>1, <2>8, <2>9, <2>12 DEF LoopDistances, OfTag
    <3>4. Right(m - 1)
      BY <1>2, <2>4, <3>3
    <3>5. PICK j \in 1 .. Len(fs) : LoopAt(f, fs, ls, m - 1, j, d[a])
      BY <3>4
    <3>6. d[a] \in Nat /\ fs[j].height \in Nat
      <4>1. fs[j] \in FrameSet(f)
        BY <1>1
      <4> QED
        BY <3>4, <4>1 DEF FrameSet
    <3>7. /\ j \in 2 .. m - 1 /\ f.tag[fs[j].block] = "Loop"
          /\ \A i \in j + 1 .. m - 1 : f.tag[fs[i].block] # "Loop"
          /\ fs[m - 1].height = fs[j].height + d[a] /\ fs[j].height > 2
          /\ ls[fs[j].height - 1] = "block" /\ ls[fs[j].height] = "loop"
          /\ \A n \in fs[j].height + 1 .. fs[m - 1].height : ls[n] = "if"
      BY <3>5 DEF LoopAt
    <3>8. j \in 2 .. m /\ \A i \in j + 1 .. m : f.tag[fs[i].block] # "Loop"
      <4>1. \A i \in j + 1 .. m : i \in j + 1 .. m - 1 \/ i = m
        BY <2>1, <3>7
      <4> QED
        BY <2>1, <2>12, <3>7, <4>1
    <3>9. fs[m].height = fs[j].height + d[b]
      BY <2>8, <3>2, <3>3, <3>6, <3>7
    <3>10. \A n \in fs[j].height + 1 .. fs[m].height : ls[n] = "if"
      <4>1. \A n \in fs[j].height + 1 .. fs[m].height :
              n \in fs[j].height + 1 .. fs[m - 1].height \/ n = fs[m].height
        BY <2>8, <3>2, <3>6
      <4> QED
        BY <3>2, <3>7, <4>1
    <3>11. LoopAt(f, fs, ls, m, j, d[b]) /\ d[b] \in Nat
      BY <3>3, <3>6, <3>7, <3>8, <3>9, <3>10 DEF LoopAt
    <3> QED
      BY <2>1, <3>11
  <2> QED
    BY <2>2, <2>11, <2>12
<1>3. S = {}
  <2> HIDE DEF S
  <2>1. S \in SUBSET Nat
    BY <1>1 DEF S
  <2> QED
    BY <1>2, <2>1, LeastNumber
<1> QED
  BY <1>3

-----------------------------------------------------------------------------
(* The steps of the emitter *)

Words == {"func", "if", "block", "loop"}

EmitInv ==
  /\ pc \in {"idle", "emit", "done", "panicked", "unsupported"}
  /\ pc \in {"idle", "done"} => frames = << >>
  /\ pc \in {"emit", "panicked", "unsupported"} => Stack(fn, frames, labels)

Compilable(f) == IsFunction(f) /\ WellFormed(f)

\* What is known of the call at the top.
LEMMA TopFacts ==
  ASSUME IsFunction(fn), Stack(fn, frames, labels), Len(frames) > 0
  PROVE  /\ Len(frames) \in Nat /\ frames \in Seq(FrameSet(fn)) /\ labels \in Seq(Words)
         /\ Top \in FrameSet(fn) /\ Top.block \in Blocks(fn)
         /\ Top.ip \in Nat /\ Top.calls \in Nat /\ Top.height \in Nat /\ Top.height > 0
         /\ Len(fn.body[Top.block]) \in Nat /\ Top.ip \in 1 .. Len(fn.body[Top.block]) + 1
         /\ FrameOk(fn, Top, labels) /\ Len(labels) = Reach(fn, Top)
<1>1. Len(frames) \in Nat /\ frames \in Seq(FrameSet(fn)) /\ labels \in Seq(Words)
  BY DEF Stack, Words
<1>2. Len(frames) \in 1 .. Len(frames) /\ 1 \in 1 .. Len(frames)
  BY <1>1
<1>3. Top \in FrameSet(fn) /\ frames[1] \in FrameSet(fn)
  BY <1>1, <1>2 DEF Top
<1>4. /\ Top.block \in Blocks(fn) /\ Top.ip \in Nat /\ Top.calls \in Nat /\ Top.height \in Nat
      /\ FrameOk(fn, Top, labels) /\ Len(labels) = Reach(fn, Top)
  BY <1>2, <1>3 DEF FrameSet, Stack, Top
<1>5. Top.height > 0
  <2>1. CASE Len(frames) = 1
    BY <2>1 DEF Stack, Top
  <2>2. CASE Len(frames) # 1
    <3>1. 1 < Len(frames)
      <4>1. \A l \in Nat : l > 0 /\ l # 1 => 1 < l
        OBVIOUS
      <4> QED
        BY <1>1, <2>2, <4>1
    <3>2. Reach(fn, frames[1]) <= Top.height /\ frames[1].height = 1
      BY <1>2, <3>1 DEF Stack, Top
    <3>3. Reach(fn, frames[1]) \in Nat /\ 1 <= Reach(fn, frames[1])
      BY <1>3, <3>2, ReachType
    <3> QED
      BY <1>4, <3>2, <3>3
  <2> QED
    BY <2>1, <2>2
<1>6. Len(fn.body[Top.block]) \in Nat
  BY <1>4 DEF IsFunction
<1>7. Top.ip \in 1 .. Len(fn.body[Top.block]) + 1
  BY <1>4 DEF FrameOk
<1> QED
  BY <1>1, <1>3, <1>4, <1>5, <1>6, <1>7

\* Every block that an instruction refers to is there.
LEMMA RefIsBlock ==
  ASSUME NEW f, RefsResolve(f), NEW b \in Blocks(f), NEW n \in 1 .. Len(f.body[b]),
         NEW a \in 1 .. Len(Refs(f.body[b][n]))
  PROVE  Refs(f.body[b][n])[a].block \in Blocks(f)
<1>1. Pos(b, n, a) \in Positions(f)
  BY DEF Positions
<1>2. RefAt(f, Pos(b, n, a)) = Refs(f.body[b][n])[a]
  BY DEF RefAt, Pos
<1> QED
  BY <1>1, <1>2 DEF RefsResolve

LEMMA FrameChanges ==
  ASSUME NEW f, NEW fr \in FrameSet(f)
  PROVE  LET t == [fr EXCEPT !.ip = @ + 1, !.calls = 0]  u == [fr EXCEPT !.calls = @ + 1] IN
         /\ t \in FrameSet(f) /\ t.ip = fr.ip + 1 /\ t.calls = 0 /\ t.height = fr.height /\ t.block = fr.block
         /\ u \in FrameSet(f) /\ u.ip = fr.ip /\ u.calls = fr.calls + 1 /\ u.height = fr.height /\ u.block = fr.block
<1>1. /\ fr.block \in Blocks(f) /\ fr.ip \in Nat /\ fr.calls \in Nat /\ fr.height \in Nat
      /\ fr = [block |-> fr.block, ip |-> fr.ip, calls |-> fr.calls, height |-> fr.height]
  BY DEF FrameSet
<1>2. [fr EXCEPT !.ip = @ + 1, !.calls = 0]
        = [block |-> fr.block, ip |-> fr.ip + 1, calls |-> 0, height |-> fr.height]
  <2> DEFINE r == [fr EXCEPT !.ip = @ + 1]
  <2>1. r = [block |-> fr.block, ip |-> fr.ip + 1, calls |-> fr.calls, height |-> fr.height]
    BY <1>1
  <2>2. [fr EXCEPT !.ip = @ + 1, !.calls = 0] = [r EXCEPT !.calls = 0]
    OBVIOUS
  <2> HIDE DEF r
  <2> QED
    BY <2>1, <2>2
<1>3. [fr EXCEPT !.calls = @ + 1]
        = [block |-> fr.block, ip |-> fr.ip, calls |-> fr.calls + 1, height |-> fr.height]
  BY <1>1
<1> QED
  BY <1>1, <1>2, <1>3 DEF FrameSet

\* The call at the top goes on to its next instruction.
LEMMA StackAdvances ==
  ASSUME IsFunction(fn), Stack(fn, frames, labels), AtInstr,
         NEW ms \in Seq(Words), Len(ms) = Top.height,
         \A n \in 1 .. Top.height : ms[n] = labels[n]
  PROVE  Stack(fn, Advance, ms)
<1> DEFINE t == [Top EXCEPT !.ip = @ + 1, !.calls = 0]
<1>1. Len(frames) > 0 /\ Top.ip <= Len(fn.body[Top.block])
  BY DEF AtInstr, Stack
<1>2. /\ Top \in FrameSet(fn) /\ Top.ip \in Nat /\ Top.height \in Nat
      /\ Len(fn.body[Top.block]) \in Nat /\ Top.ip \in 1 .. Len(fn.body[Top.block]) + 1
      /\ frames \in Seq(FrameSet(fn)) /\ Len(frames) \in Nat
  BY <1>1, TopFacts
<1>3. t \in FrameSet(fn) /\ t.ip = Top.ip + 1 /\ t.calls = 0 /\ t.height = Top.height /\ t.block = Top.block
  BY <1>2, FrameChanges
<1>4. Advance = [frames EXCEPT ![Len(frames)] = t]
  BY <1>1, <1>2 DEF Advance, Top
<1> HIDE DEF t
<1>5. FrameOk(fn, t, ms)
  BY <1>1, <1>2, <1>3 DEF FrameOk
<1>6. Reach(fn, t) = Top.height
  BY <1>2, <1>3 DEF Reach, Opened
<1> QED
  BY <1>1, <1>3, <1>4, <1>5, <1>6, StackTop DEF Top, Words

\* The call at the top is at a later reference of its instruction.
LEMMA StackWaits ==
  ASSUME IsFunction(fn), Stack(fn, frames, labels), AtInstr,
         NEW ms \in Seq(Words), \A n \in 1 .. Top.height : ms[n] = labels[n],
         \/ /\ Instr.op = "Loop" /\ Top.calls = 0 /\ Len(ms) = Top.height + 2
            /\ ms[Top.height + 1] = "block" /\ ms[Top.height + 2] = "loop"
         \/ /\ Instr.op = "IfElse" /\ Top.calls \in {0, 1} /\ Len(ms) = Top.height + 1
            /\ ms[Top.height + 1] = "if"
  PROVE  LET fs == [frames EXCEPT ![Len(frames)].calls = @ + 1] IN
         /\ Stack(fn, fs, ms) /\ Len(fs) = Len(frames)
         /\ fs[Len(fs)].calls = Top.calls + 1 /\ InstrOf(fn, fs[Len(fs)]) = Instr
<1> DEFINE t == [Top EXCEPT !.calls = @ + 1]
           fs == [frames EXCEPT ![Len(frames)].calls = @ + 1]
<1>1. Len(frames) > 0 /\ Top.ip <= Len(fn.body[Top.block])
  BY DEF AtInstr, Stack
<1>2. /\ Top \in FrameSet(fn) /\ Top.ip \in Nat /\ Top.height \in Nat /\ Top.calls \in Nat
      /\ Len(fn.body[Top.block]) \in Nat /\ Top.ip \in 1 .. Len(fn.body[Top.block]) + 1
      /\ frames \in Seq(FrameSet(fn)) /\ Len(frames) \in Nat
  BY <1>1, TopFacts
<1>3. t \in FrameSet(fn) /\ t.ip = Top.ip /\ t.calls = Top.calls + 1 /\ t.height = Top.height /\ t.block = Top.block
  BY <1>2, FrameChanges
<1>4. fs = [frames EXCEPT ![Len(frames)] = t]
  BY <1>1, <1>2 DEF Top
<1>5. Len(fs) = Len(frames) /\ fs[Len(frames)] = t
  <2> HIDE DEF t, fs
  <2>1. DOMAIN frames = 1 .. Len(frames) /\ Len(frames) \in 1 .. Len(frames)
    BY <1>1, <1>2
  <2>2. DOMAIN fs = 1 .. Len(frames) /\ fs[Len(frames)] = t
    BY <1>4, <2>1
  <2>3. fs \in Seq(FrameSet(fn))
    BY <1>2, <1>3, <1>4, <2>1
  <2> QED
    BY <1>2, <2>2, <2>3
<1> HIDE DEF t
<1>6. InstrOf(fn, t) = Instr
  BY <1>3 DEF InstrOf, Instr
<1>7. FrameOk(fn, t, ms)
  BY <1>1, <1>2, <1>3, <1>6 DEF FrameOk
<1>8. Reach(fn, t) = Len(ms)
  BY <1>2, <1>3, <1>6 DEF Reach, Opened
<1>9. Stack(fn, fs, ms)
  BY <1>1, <1>3, <1>4, <1>7, <1>8, StackTop DEF Top, Words
<1> QED
  BY <1>3, <1>5, <1>6, <1>9

\* compile_block is called for the next reference.
LEMMA StackCalls ==
  ASSUME Compilable(fn), Stack(fn, frames, labels), AtInstr,
         NEW ms \in Seq(Words), \A n \in 1 .. Top.height : ms[n] = labels[n],
         \/ /\ Instr.op = "Loop" /\ Top.calls = 0 /\ Len(ms) = Top.height + 2
            /\ ms[Top.height + 1] = "block" /\ ms[Top.height + 2] = "loop"
         \/ /\ Instr.op = "IfElse" /\ Top.calls \in {0, 1} /\ Len(ms) = Top.height + 1
            /\ ms[Top.height + 1] = "if",
         Top.calls + 1 <= Len(Refs(Instr)),
         NEW b, b = Refs(Instr)[Top.calls + 1].block
  PROVE  Stack(fn, Call(b, ms), ms)
<1> DEFINE fs == [frames EXCEPT ![Len(frames)].calls = @ + 1]
           t  == fs[Len(fs)]
<1>1. Len(frames) > 0 /\ Top.ip <= Len(fn.body[Top.block]) /\ IsFunction(fn) /\ RefsResolve(fn)
  BY DEF AtInstr, Stack, Compilable, WellFormed
<1>2. /\ Top.ip \in Nat /\ Top.calls \in Nat /\ Top.block \in Blocks(fn)
      /\ Len(fn.body[Top.block]) \in Nat /\ Top.ip \in 1 .. Len(fn.body[Top.block]) + 1
  BY <1>1, TopFacts
<1>3. Stack(fn, fs, ms) /\ Len(fs) = Len(frames) /\ t.calls = Top.calls + 1 /\ InstrOf(fn, t) = Instr
  BY <1>1, StackWaits
<1>4. b \in Blocks(fn)
  <2>1. Top.ip \in 1 .. Len(fn.body[Top.block])
    BY <1>1, <1>2
  <2>2. Len(Refs(Instr)) \in Nat
    BY <1>1, <1>2, <2>1 DEF IsFunction, Instr
  <2>3. Top.calls + 1 \in 1 .. Len(Refs(Instr))
    BY <1>2, <2>2
  <2> QED
    BY <1>1, <1>2, <2>1, <2>3, RefIsBlock DEF Instr
<1> HIDE DEF fs, t
<1>5. t.calls > 0 /\ t.calls <= Len(Refs(InstrOf(fn, t))) /\ Refs(InstrOf(fn, t))[t.calls].block = b
  BY <1>2, <1>3
<1>6. Stack(fn, Append(fs, Frame(b, Len(ms))), ms)
  BY <1>1, <1>3, <1>4, <1>5, StackPush DEF t
<1> QED
  BY <1>6 DEF Call, fs

LEMMA AppendLabel ==
  ASSUME NEW S, NEW s \in Seq(S), NEW e \in S
  PROVE  /\ Append(s, e) \in Seq(S) /\ Len(Append(s, e)) = Len(s) + 1 /\ Append(s, e)[Len(s) + 1] = e
         /\ \A n \in 1 .. Len(s) : Append(s, e)[n] = s[n]
OBVIOUS

LEMMA EmitStep == Compilable(fn) /\ EmitInv /\ Next => EmitInv' /\ fn' = fn
<1> SUFFICES ASSUME Compilable(fn), EmitInv, Next PROVE EmitInv' /\ fn' = fn
  OBVIOUS
<1>1. IsFunction(fn) /\ RefsResolve(fn) /\ fn' = fn
  BY DEF Compilable, WellFormed, Next, CompileFunc, EmitPlain, EnterThen, EnterElse, EndIf,
         EnterLoop, EndLoop, EmitBreak, EndBlock, EndFunc
<1>2. SUFFICES ASSUME TRUE
               PROVE  /\ pc' \in {"idle", "emit", "done", "panicked", "unsupported"}
                      /\ pc' \in {"idle", "done"} => frames' = << >>
                      /\ pc' \in {"emit", "panicked", "unsupported"} => Stack(fn, frames', labels')
  BY <1>1 DEF EmitInv
<1>3. CASE CompileFunc
  BY <1>1, <1>3, StackStarts DEF CompileFunc
<1>4. ASSUME AtInstr
      PROVE  /\ Stack(fn, frames, labels) /\ Len(frames) > 0 /\ Top.height \in Nat /\ Top.calls \in Nat
             /\ labels \in Seq(Words) /\ Len(labels) \in Nat
             /\ Top.calls = 0 => Len(labels) = Top.height
             /\ Top.calls > 0 => \/ /\ Instr.op = "Loop" /\ Len(labels) = Top.height + 2
                                    /\ labels[Top.height + 1] = "block" /\ labels[Top.height + 2] = "loop"
                                 \/ /\ Instr.op = "IfElse" /\ Len(labels) = Top.height + 1
                                    /\ labels[Top.height + 1] = "if"
  <2>1. Stack(fn, frames, labels)
    BY <1>4 DEF EmitInv, AtInstr
  <2>2. Len(frames) > 0
    BY <1>4, <2>1 DEF AtInstr, Stack
  <2>3. /\ labels \in Seq(Words) /\ Top.height \in Nat /\ Top.calls \in Nat
        /\ FrameOk(fn, Top, labels) /\ Len(labels) = Reach(fn, Top)
    BY <1>1, <2>1, <2>2, TopFacts
  <2>4. InstrOf(fn, Top) = Instr
    BY DEF InstrOf, Instr
  <2> QED
    BY <2>1, <2>2, <2>3, <2>4 DEF FrameOk, Reach, Opened
<1>5. CASE EmitPlain
  <2>1. AtInstr /\ Instr.op \notin {"IfElse", "Loop", "Break"} /\ labels' = labels
    BY <1>5 DEF EmitPlain
  <2>2. Stack(fn, Advance, labels)
    BY <1>1, <1>4, <2>1, StackAdvances
  <2> QED
    BY <1>4, <1>5, <2>1, <2>2 DEF EmitPlain, AtInstr
<1>6. CASE EnterThen
  <2>1. AtInstr /\ Instr.op = "IfElse" /\ Top.calls = 0 /\ pc' = pc
        /\ labels' = Append(labels, "if") /\ frames' = Call(Instr.then, labels')
    BY <1>6 DEF EnterThen
  <2>2. labels' \in Seq(Words) /\ Len(labels') = Top.height + 1 /\ labels'[Top.height + 1] = "if"
        /\ \A n \in 1 .. Top.height : labels'[n] = labels[n]
    BY <1>4, <2>1, AppendLabel DEF Words
  <2>3. Top.calls + 1 <= Len(Refs(Instr)) /\ Instr.then = Refs(Instr)[Top.calls + 1].block
    BY <2>1 DEF Refs, Ref
  <2>4. Stack(fn, Call(Instr.then, labels'), labels')
    BY <1>1, <1>4, <2>1, <2>2, <2>3, StackCalls
  <2> QED
    BY <2>1, <2>4 DEF AtInstr
<1>7. CASE EnterElse
  <2>1. AtInstr /\ Instr.op = "IfElse" /\ Top.calls = 1 /\ pc' = pc /\ labels' = labels
        /\ frames' = IF Instr.else # NoBlock THEN Call(Instr.else, labels)
                       ELSE [frames EXCEPT ![Len(frames)].calls = @ + 1]
    BY <1>7 DEF EnterElse
  <2>2. Len(labels) = Top.height + 1 /\ labels[Top.height + 1] = "if" /\ labels \in Seq(Words)
        /\ Stack(fn, frames, labels)
    BY <1>4, <2>1
  <2>3. CASE Instr.else = NoBlock
    <3>1. Stack(fn, [frames EXCEPT ![Len(frames)].calls = @ + 1], labels)
      BY <1>1, <2>1, <2>2, StackWaits
    <3> QED
      BY <2>1, <2>3, <3>1 DEF AtInstr
  <2>4. CASE Instr.else # NoBlock
    <3>1. Top.calls + 1 <= Len(Refs(Instr)) /\ Instr.else = Refs(Instr)[Top.calls + 1].block
      BY <2>1, <2>4 DEF Refs, Ref
    <3>2. Stack(fn, Call(Instr.else, labels), labels)
      BY <1>1, <2>1, <2>2, <3>1, StackCalls
    <3> QED
      BY <2>1, <2>4, <3>2 DEF AtInstr
  <2> QED
    BY <2>3, <2>4
<1>8. CASE EndIf
  <2>1. AtInstr /\ Instr.op = "IfElse" /\ Top.calls = 2 /\ pc' = pc
        /\ labels' = Front(labels) /\ frames' = Advance
    BY <1>8 DEF EndIf
  <2>2. Len(labels) = Top.height + 1 /\ labels \in Seq(Words) /\ Stack(fn, frames, labels) /\ Top.height \in Nat
    BY <1>4, <2>1
  <2>3. labels' \in Seq(Words) /\ Len(labels') = Top.height /\ \A n \in 1 .. Top.height : labels'[n] = labels[n]
    BY <2>1, <2>2, FrontOf
  <2>4. Stack(fn, Advance, labels')
    BY <1>1, <2>1, <2>2, <2>3, StackAdvances
  <2> QED
    BY <2>1, <2>4 DEF AtInstr
<1>9. CASE EnterLoop
  <2>1. AtInstr /\ Instr.op = "Loop" /\ Top.calls = 0 /\ pc' = pc
        /\ labels' = labels \o << "block", "loop" >> /\ frames' = Call(Instr.block, labels')
    BY <1>9 DEF EnterLoop
  <2>2. Len(labels) = Top.height /\ labels \in Seq(Words) /\ Stack(fn, frames, labels) /\ Top.height \in Nat
    BY <1>4, <2>1
  <2>3. << "block", "loop" >> \in Seq(Words) /\ Len(<< "block", "loop" >>) = 2
    BY DEF Words
  <2>4. labels' \in Seq(Words) /\ Len(labels') = Top.height + 2
        /\ labels'[Top.height + 1] = "block" /\ labels'[Top.height + 2] = "loop"
        /\ \A n \in 1 .. Top.height : labels'[n] = labels[n]
    BY <2>1, <2>2, <2>3, ConcatProperties
  <2>5. Top.calls + 1 <= Len(Refs(Instr)) /\ Instr.block = Refs(Instr)[Top.calls + 1].block
    BY <2>1 DEF Refs, Ref
  <2>6. Stack(fn, Call(Instr.block, labels'), labels')
    BY <1>1, <2>1, <2>2, <2>4, <2>5, StackCalls
  <2> QED
    BY <2>1, <2>6 DEF AtInstr
<1>10. CASE EndLoop
  <2>1. AtInstr /\ Instr.op = "Loop" /\ Top.calls = 1 /\ pc' = pc
        /\ labels' = Front(Front(labels)) /\ frames' = Advance
    BY <1>10 DEF EndLoop
  <2>2. Len(labels) = Top.height + 2 /\ labels \in Seq(Words) /\ Stack(fn, frames, labels) /\ Top.height \in Nat
    BY <1>4, <2>1
  <2>3. /\ Front(labels) \in Seq(Words) /\ Len(Front(labels)) = Top.height + 1
        /\ \A n \in 1 .. Top.height : Front(labels)[n] = labels[n]
    BY <2>2, FrontOf
  <2>4. labels' \in Seq(Words) /\ Len(labels') = Top.height /\ \A n \in 1 .. Top.height : labels'[n] = labels[n]
    <3>1. /\ Front(Front(labels)) \in Seq(Words) /\ Len(Front(Front(labels))) = Top.height + 1 - 1
          /\ \A n \in 1 .. Top.height + 1 - 1 : Front(Front(labels))[n] = Front(labels)[n]
      <4> DEFINE l == Front(labels)
      <4>1. l \in Seq(Words) /\ Len(l) = Top.height + 1 /\ Len(l) > 0
        BY <2>2, <2>3
      <4> HIDE DEF l
      <4>2. Front(l) \in Seq(Words) /\ Len(Front(l)) = Len(l) - 1 /\ \A n \in 1 .. Len(l) - 1 : Front(l)[n] = l[n]
        BY <4>1, FrontOf
      <4>3. /\ Front(l) \in Seq(Words) /\ Len(Front(l)) = Top.height + 1 - 1
            /\ \A n \in 1 .. Top.height + 1 - 1 : Front(l)[n] = l[n]
        BY <2>2, <4>1, <4>2
      <4> QED
        BY <4>3 DEF l
    <3>2. Top.height + 1 - 1 = Top.height
      BY <2>2
    <3> QED
      BY <2>1, <2>3, <3>1, <3>2
  <2>5. Stack(fn, Advance, labels')
    BY <1>1, <2>1, <2>2, <2>4, StackAdvances
  <2> QED
    BY <2>1, <2>5 DEF AtInstr
<1>11. CASE EmitBreak
  <2>1. AtInstr /\ Instr.op = "Break" /\ labels' = labels
    BY <1>11 DEF EmitBreak
  <2>2. Stack(fn, Advance, labels)
    BY <1>1, <1>4, <2>1, StackAdvances
  <2> QED
    BY <1>4, <1>11, <2>1, <2>2 DEF EmitBreak, AtInstr
<1>12. CASE EndBlock
  <2>1. pc = "emit" /\ pc' = pc /\ frames # << >> /\ Top.ip > Len(fn.body[Top.block])
        /\ frames' = Front(frames) /\ labels' = labels
    BY <1>12 DEF EndBlock
  <2>2. Stack(fn, frames, labels)
    BY <2>1 DEF EmitInv
  <2>3. Len(frames) > 0
    BY <2>1, <2>2 DEF Stack
  <2>4. Top.calls = 0
    <3>1. FrameOk(fn, Top, labels) /\ Top.calls \in Nat /\ Top.ip \in Nat /\ Len(fn.body[Top.block]) \in Nat
      BY <1>1, <2>2, <2>3, TopFacts
    <3> QED
      BY <2>1, <3>1 DEF FrameOk
  <2>5. Stack(fn, Front(frames), labels)
    BY <2>2, <2>3, <2>4, StackPop DEF Top
  <2> QED
    BY <2>1, <2>5
<1>13. CASE EndFunc
  BY <1>13 DEF EndFunc
<1> QED
  BY <1>3, <1>5, <1>6, <1>7, <1>8, <1>9, <1>10, <1>11, <1>12, <1>13 DEF Next

-----------------------------------------------------------------------------
(* The br instructions *)

CodeOf(f) ==
  { W(op) : op \in {"if", "else", "end", "block", "loop"} } \cup { Br(0) }
    \cup { Br(f.dist[b] + 1) : b \in DOMAIN f.dist }
    \cup { Plain(f.body[b][n]) : b \in Blocks(f), n \in Nat }

\* Instructions are only ever added to the code, and the one of a Break is a br.
LEMMA CodeGrows ==
  ASSUME Compilable(fn), EmitInv, Next, out \in Seq(CodeOf(fn))
  PROVE  out' \in Seq(CodeOf(fn))
<1>1. \A op \in {"if", "else", "end", "block", "loop"} : W(op) \in CodeOf(fn)
  BY DEF CodeOf
<1>2. Br(0) \in CodeOf(fn)
  BY DEF CodeOf
<1>3. CASE EmitPlain
  <2>1. CASE out' = Append(out, Plain(Instr))
    <3>1. AtInstr /\ Stack(fn, frames, labels) /\ IsFunction(fn)
      BY <1>3 DEF EmitPlain, AtInstr, EmitInv, Compilable
    <3>2. Len(frames) > 0
      BY <3>1 DEF AtInstr, Stack
    <3>3. Top.block \in Blocks(fn) /\ Top.ip \in Nat
      BY <3>1, <3>2, TopFacts
    <3>4. Plain(Instr) \in CodeOf(fn)
      BY <3>3 DEF CodeOf, Instr
    <3> QED
      BY <2>1, <3>4, AppendProperties
  <2>2. CASE out' = out
    BY <2>2
  <2> QED
    BY <1>3, <2>1, <2>2 DEF EmitPlain
<1>4. CASE EmitBreak
  <2>1. CASE Top.block \in DOMAIN fn.dist /\ out' = Append(out, Br(fn.dist[Top.block] + 1))
    <3>1. Br(fn.dist[Top.block] + 1) \in CodeOf(fn)
      BY <2>1 DEF CodeOf
    <3> QED
      BY <2>1, <3>1, AppendProperties
  <2>2. CASE out' = out
    BY <2>2
  <2> QED
    BY <1>4, <2>1, <2>2 DEF EmitBreak
<1>5. CASE EnterLoop
  <2>1. << W("block"), W("loop") >> \in Seq(CodeOf(fn))
    BY <1>1
  <2> QED
    BY <1>5, <2>1, ConcatProperties DEF EnterLoop
<1>6. CASE EndLoop
  <2>1. << Br(0), W("end"), W("end") >> \in Seq(CodeOf(fn))
    BY <1>1, <1>2
  <2> QED
    BY <1>6, <2>1, ConcatProperties DEF EndLoop
<1>7. CASE EnterThen \/ EnterElse \/ EndIf \/ EndFunc
  <2>1. \E op \in {"if", "else", "end"} : out' = Append(out, W(op))
    BY <1>7 DEF EnterThen, EnterElse, EndIf, EndFunc
  <2> QED
    BY <1>1, <2>1, AppendProperties
<1>8. CASE CompileFunc \/ EndBlock
  BY <1>8 DEF CompileFunc, EndBlock
<1> QED
  BY <1>3, <1>4, <1>5, <1>6, <1>7, <1>8 DEF Next

\* Where a Break is compiled: its distance, and the loop it is for.
LEMMA BreakIsInLoop ==
  ASSUME Compilable(fn), EmitInv, LoopDistances(fn, fn.dist), AtInstr, Instr.op = "Break",
         Top.block \in DOMAIN fn.dist
  PROVE  /\ fn.dist[Top.block] \in Nat /\ Len(frames) \in Nat
         /\ labels \in Seq(Words) /\ Len(labels) = Top.height
         /\ \E j \in 1 .. Len(frames) : LoopAt(fn, frames, labels, Len(frames), j, fn.dist[Top.block])
<1>1. Stack(fn, frames, labels) /\ IsFunction(fn) /\ WellFormed(fn)
  BY DEF AtInstr, EmitInv, Compilable
<1>2. Len(frames) > 0 /\ Len(frames) \in Nat
  BY <1>1 DEF AtInstr, Stack
<1>3. Len(frames) \in 1 .. Len(frames) /\ frames[Len(frames)] = Top
  BY <1>2 DEF Top
<1>4. /\ labels \in Seq(Words) /\ FrameOk(fn, Top, labels) /\ Len(labels) = Reach(fn, Top)
      /\ Top.calls \in Nat /\ Top.height \in Nat
  BY <1>1, <1>2, TopFacts
<1>5. Top.calls = 0
  BY <1>4 DEF FrameOk, InstrOf, Instr
<1>6. Len(labels) = Top.height
  BY <1>4, <1>5 DEF Reach, Opened
<1> QED
  BY <1>1, <1>2, <1>3, <1>4, <1>6, DistanceIsDepth

LEMMA BreakStep ==
  ASSUME Compilable(fn), EmitInv, LoopDistances(fn, fn.dist), out \in Seq(CodeOf(fn)), Next
  PROVE  BreakLeaves
<1> SUFFICES ASSUME AtInstr, Instr.op = "Break", out' # out
             PROVE  LeavesInnermostLoop(Last(out'))
  BY DEF BreakLeaves
<1>1. /\ Top.block \in DOMAIN fn.dist
      /\ out' = Append(out, Br(fn.dist[Top.block] + 1))
  <2>1. EmitBreak
    <3>1. ~EndBlock
      <4>1. IsFunction(fn) /\ Stack(fn, frames, labels)
        BY DEF AtInstr, EmitInv, Compilable
      <4>2. Len(frames) > 0
        BY <4>1 DEF AtInstr, Stack
      <4>3. Top.ip \in Nat /\ Len(fn.body[Top.block]) \in Nat
        BY <4>1, <4>2, TopFacts
      <4> QED
        BY <4>3 DEF AtInstr, EndBlock
    <3> QED
      BY <3>1 DEF Next, CompileFunc, EmitPlain, EnterThen, EnterElse, EndIf, EnterLoop, EndLoop, EndFunc, AtInstr
  <2> QED
    BY <2>1 DEF EmitBreak
<1> DEFINE d == fn.dist[Top.block]
<1>2. /\ d \in Nat /\ Len(frames) \in Nat /\ labels \in Seq(Words) /\ Len(labels) = Top.height
      /\ \E j \in 1 .. Len(frames) : LoopAt(fn, frames, labels, Len(frames), j, d)
  BY <1>1, BreakIsInLoop
<1>3. PICK j \in 1 .. Len(frames) : LoopAt(fn, frames, labels, Len(frames), j, d)
  BY <1>2
<1>4. Last(out') = Br(d + 1)
  <2>1. Len(out') = Len(out) + 1 /\ out'[Len(out) + 1] = Br(d + 1)
    BY <1>1
  <2> QED
    BY <2>1 DEF Last
<1> HIDE DEF d
<1> DEFINE h == frames[j].height
<1>5. Stack(fn, frames, labels)
  BY DEF AtInstr, EmitInv
<1>6. h \in Nat
  BY <1>5, FuncIsOpen
<1>7. /\ h > 2 /\ Len(labels) = h + d
      /\ labels[h - 1] = "block" /\ labels[h] = "loop"
      /\ \A n \in h + 1 .. Len(labels) : labels[n] = "if"
      /\ fn.tag[frames[j].block] = "Loop"
      /\ \A m \in j + 1 .. Len(frames) : fn.tag[frames[m].block] # "Loop"
  BY <1>2, <1>3 DEF LoopAt, Top
<1>8. LoopFrame = j
  <2>1. \A k \in 1 .. Len(frames) :
          (/\ fn.tag[frames[k].block] = "Loop"
           /\ \A m \in k + 1 .. Len(frames) : fn.tag[frames[m].block] # "Loop")
            => k = j
    <3> SUFFICES ASSUME NEW k \in 1 .. Len(frames), fn.tag[frames[k].block] = "Loop",
                        \A m \in k + 1 .. Len(frames) : fn.tag[frames[m].block] # "Loop"
                 PROVE  k = j
      OBVIOUS
    <3>1. ~ (j < k)
      <4>1. j < k => k \in j + 1 .. Len(frames)
        BY <1>2
      <4> QED
        BY <1>7, <4>1
    <3>2. ~ (k < j)
      <4>1. k < j => j \in k + 1 .. Len(frames)
        BY <1>2
      <4> QED
        BY <1>7, <4>1
    <3> QED
      BY <3>1, <3>2
  <2> QED
    BY <1>7, <2>1 DEF LoopFrame
<1>9. Br(d + 1).to = d + 1
  BY DEF Br
<1> DEFINE target == Len(labels) - (d + 1)
<1>10. target = h - 1 /\ target + 1 = h /\ target + 2 = h + 1 /\ target >= 1
  <2>1. \A l, x, y \in Nat : l = y + x /\ y > 2 =>
          /\ l - (x + 1) = y - 1 /\ (l - (x + 1)) + 1 = y
          /\ (l - (x + 1)) + 2 = y + 1 /\ l - (x + 1) >= 1
    OBVIOUS
  <2>2. Len(labels) \in Nat
    BY <1>2
  <2>3. h \in Nat /\ d \in Nat /\ Len(labels) = h + d /\ h > 2
    BY <1>2, <1>6, <1>7
  <2> HIDE DEF h, d
  <2> QED
    BY <2>1, <2>2, <2>3
<1> QED
  BY <1>4, <1>7, <1>8, <1>9, <1>10 DEF LeavesInnermostLoop

LEMMA LoopStep ==
  ASSUME Compilable(fn), EmitInv, out \in Seq(CodeOf(fn)), Next
  PROVE  LoopRepeats
<1> SUFFICES ASSUME AtInstr, Instr.op = "Loop", Top.calls = 1
             PROVE  LET target == Len(labels) - out'[Len(out) + 1].to IN
                    target = Top.height + 2 /\ labels[target] = "loop"
  BY DEF LoopRepeats
<1>1. IsFunction(fn) /\ Stack(fn, frames, labels)
  BY DEF AtInstr, EmitInv, Compilable
<1>2. Len(frames) > 0
  BY <1>1 DEF AtInstr, Stack
<1>3. /\ FrameOk(fn, Top, labels) /\ Len(labels) = Reach(fn, Top) /\ Top.height \in Nat
      /\ Top.ip \in Nat /\ Len(fn.body[Top.block]) \in Nat
  BY <1>1, <1>2, TopFacts
<1>4. EndLoop
  BY <1>3 DEF Next, CompileFunc, EmitPlain, EnterThen, EnterElse, EndIf, EnterLoop, EmitBreak, EndBlock, EndFunc, AtInstr
<1>5. Len(labels) = Top.height + 2 /\ labels[Top.height + 2] = "loop"
  BY <1>3 DEF FrameOk, Reach, Opened, InstrOf, Instr
<1>6. out'[Len(out) + 1] = Br(0)
  <2>1. << Br(0), W("end"), W("end") >> \in Seq(CodeOf(fn))
        /\ Len(<< Br(0), W("end"), W("end") >>) = 3
    BY DEF CodeOf
  <2>2. \A i \in 1 .. Len(out) + 3 : out'[i] = IF i <= Len(out) THEN out[i] ELSE << Br(0), W("end"), W("end") >>[i - Len(out)]
    BY <1>4, <2>1, ConcatProperties DEF EndLoop
  <2>3. Len(out) + 1 \in 1 .. Len(out) + 3 /\ ~ (Len(out) + 1 <= Len(out)) /\ Len(out) + 1 - Len(out) = 1
    OBVIOUS
  <2> QED
    BY <2>2, <2>3
<1>7. Br(0).to = 0
  BY DEF Br
<1>8. Len(labels) - 0 = Top.height + 2
  BY <1>3, <1>5
<1> QED
  BY <1>5, <1>6, <1>7, <1>8

-----------------------------------------------------------------------------
(* The code nests *)

\* o tells what is open after each instruction of code, and each of them finds
\* open what it needs.
Nested(code, o) ==
  /\ o \in [0 .. Len(code) -> Seq(Words)] /\ o[0] = << "func" >>
  /\ \A n \in 1 .. Len(code) :
       /\ o[n] = OpenOn(o[n - 1], code[n])
       /\ Len(o[n - 1]) > 0
       /\ code[n].w = "else" => Last(o[n - 1]) = "if"
       /\ code[n].w = "br" => code[n].to < Len(o[n - 1])

Reads(code, ls) == \E o : Nested(code, o) /\ o[Len(code)] = ls

\* What is open is computed from the start: the first place at which two
\* answers could differ is not the start, and not after one that agrees.
LEMMA OpenIsUnique ==
  ASSUME NEW S, NEW code \in Seq(S), NEW o, Nested(code, o)
  PROVE  OpenAfter(code) = o
<1> DEFINE IsOpen(g) ==
             g = [n \in 0 .. Len(code) |-> IF n = 0 THEN << "func" >> ELSE OpenOn(g[n - 1], code[n])]
           open == CHOOSE g : IsOpen(g)
<1>1. OpenAfter(code) = open
  BY DEF OpenAfter
<1>2. IsOpen(o)
  <2>1. Len(code) \in Nat
    OBVIOUS
  <2>2. \A n \in 0 .. Len(code) : o[n] = IF n = 0 THEN << "func" >> ELSE OpenOn(o[n - 1], code[n])
    <3>1. \A n \in 0 .. Len(code) : n = 0 \/ n \in 1 .. Len(code)
      BY <2>1
    <3> QED
      BY <3>1 DEF Nested
  <2>3. o = [n \in 0 .. Len(code) |-> o[n]]
    BY DEF Nested
  <2> QED
    BY <2>2, <2>3
<1>3. IsOpen(open)
  <2> HIDE DEF IsOpen
  <2> QED
    BY <1>2
<1> HIDE DEF open
<1> DEFINE T == { n \in 0 .. Len(code) : open[n] # o[n] }
<1>4. ASSUME NEW m \in T, \A n \in T : m <= n
      PROVE  FALSE
  <2>1. m \in 0 .. Len(code) /\ Len(code) \in Nat
    OBVIOUS
  <2>2. m # 0
    BY <1>2, <1>3, <2>1
  <2>3. m - 1 \in 0 .. Len(code) /\ ~ (m <= m - 1)
    BY <2>1, <2>2
  <2>4. open[m - 1] = o[m - 1]
    BY <1>4, <2>3
  <2>5. open[m] = OpenOn(open[m - 1], code[m]) /\ o[m] = OpenOn(o[m - 1], code[m])
    BY <1>2, <1>3, <2>1, <2>2
  <2> QED
    BY <2>4, <2>5
<1>5. T = {}
  <2> HIDE DEF T
  <2>1. T \in SUBSET Nat
    BY DEF T
  <2> QED
    BY <1>4, <2>1, LeastNumber
<1>6. \A n \in 0 .. Len(code) : open[n] = o[n]
  BY <1>5
<1>7. DOMAIN open = 0 .. Len(code) /\ open = [n \in 0 .. Len(code) |-> open[n]]
  BY <1>3
<1>8. o = [n \in 0 .. Len(code) |-> o[n]]
  BY <1>2
<1> QED
  BY <1>1, <1>6, <1>7, <1>8

\* One more instruction.
LEMMA ReadsOn ==
  ASSUME NEW S, NEW code \in Seq(S), NEW ls \in Seq(Words), Reads(code, ls), Len(ls) > 0,
         NEW w \in S, NEW ms \in Seq(Words), ms = OpenOn(ls, w),
         w.w = "else" => Last(ls) = "if", w.w = "br" => w.to < Len(ls)
  PROVE  Append(code, w) \in Seq(S) /\ Reads(Append(code, w), ms)
<1>1. PICK o : Nested(code, o) /\ o[Len(code)] = ls
  BY DEF Reads
<1> DEFINE L == Len(code)  more == Append(code, w)
           p == [n \in 0 .. L + 1 |-> IF n <= L THEN o[n] ELSE ms]
<1>2. /\ L \in Nat /\ more \in Seq(S) /\ Len(more) = L + 1 /\ more[L + 1] = w
      /\ \A n \in 1 .. L : more[n] = code[n]
  OBVIOUS
<1>3. o \in [0 .. L -> Seq(Words)] /\ o[0] = << "func" >> /\ o[L] = ls
  BY <1>1 DEF Nested
<1> HIDE DEF L, more
<1>4. p \in [0 .. L + 1 -> Seq(Words)] /\ p[0] = << "func" >> /\ p[L + 1] = ms
      /\ \A n \in 0 .. L : p[n] = o[n]
  BY <1>2, <1>3
<1> HIDE DEF p
<1>5. ASSUME NEW n \in 1 .. L + 1
      PROVE  /\ p[n] = OpenOn(p[n - 1], more[n])
             /\ Len(p[n - 1]) > 0
             /\ more[n].w = "else" => Last(p[n - 1]) = "if"
             /\ more[n].w = "br" => more[n].to < Len(p[n - 1])
  <2>1. CASE n = L + 1
    <3>1. p[n - 1] = ls /\ more[n] = w /\ p[n] = ms
      BY <1>2, <1>3, <1>4, <2>1
    <3> QED
      BY <3>1
  <2>2. CASE n \in 1 .. L
    <3>1. p[n] = o[n] /\ p[n - 1] = o[n - 1] /\ more[n] = code[n]
      BY <1>2, <1>4, <2>2
    <3>2. n \in 1 .. Len(code)
      BY <2>2 DEF L
    <3> QED
      BY <1>1, <3>1, <3>2 DEF Nested
  <2> QED
    BY <1>2, <2>1, <2>2
<1>6. Nested(more, p)
  BY <1>2, <1>4, <1>5 DEF Nested
<1> QED
  BY <1>2, <1>4, <1>6 DEF Reads, more

NestInv ==
  /\ out \in Seq(CodeOf(fn))
  /\ pc = "idle" => out = << >>
  /\ pc = "emit" => labels \in Seq(Words) /\ Reads(out, labels)
  /\ pc = "done" => Reads(out, << >>)

LEMMA NestStep ==
  ASSUME Compilable(fn), EmitInv, NestInv, LoopDistances(fn, fn.dist), Next
  PROVE  NestInv'
<1>1. out' \in Seq(CodeOf(fn)) /\ fn' = fn /\ IsFunction(fn)
  BY CodeGrows, EmitStep DEF NestInv, Compilable
<1>2. (CodeOf(fn))' = CodeOf(fn)
  BY <1>1 DEF CodeOf
<1>3. SUFFICES ASSUME TRUE
               PROVE  /\ pc' = "idle" => out' = << >>
                      /\ pc' = "emit" => labels' \in Seq(Words) /\ Reads(out', labels')
                      /\ pc' = "done" => Reads(out', << >>)
  BY <1>1, <1>2 DEF NestInv
<1>4. \A op \in {"if", "else", "end", "block", "loop"} : W(op) \in CodeOf(fn) /\ W(op).w = op
  BY DEF CodeOf, W
<1>5. CASE CompileFunc
  <2> DEFINE o == [n \in 0 .. 0 |-> << "func" >>]
  <2>1. out' = << >> /\ labels' = << "func" >> /\ pc' \in {"emit", "unsupported"}
    BY <1>5 DEF CompileFunc, NestInv
  <2>2. << "func" >> \in Seq(Words) /\ Len(<< >>) = 0
    BY DEF Words
  <2>3. Nested(<< >>, o) /\ o[Len(<< >>)] = << "func" >>
    BY <2>2 DEF Nested
  <2> QED
    BY <2>1, <2>2, <2>3 DEF Reads
<1>6. CASE EndFunc
  <2>1. pc = "emit" /\ frames = << >> /\ out' = Append(out, W("end")) /\ pc' = "done"
        /\ labels' = Front(labels)
    BY <1>6 DEF EndFunc
  <2>2. labels \in Seq(Words) /\ Reads(out, labels) /\ out \in Seq(CodeOf(fn))
    BY <2>1 DEF NestInv
  <2>3. Len(labels) = 1
    BY <2>1 DEF EmitInv, Stack
  <2>4. Front(labels) \in Seq(Words) /\ Len(Front(labels)) = 0
    <3>1. Len(labels) > 0 /\ 1 - 1 = 0
      BY <2>3
    <3>2. Front(labels) \in Seq(Words) /\ Len(Front(labels)) = Len(labels) - 1
      BY <2>2, <3>1, FrontOf
    <3> QED
      BY <2>3, <3>1, <3>2
  <2>5. Front(labels) = << >>
    BY <2>4, EmptySeq
  <2>6. << >> = OpenOn(labels, W("end")) /\ << >> \in Seq(Words)
    BY <1>4, <2>4, <2>5 DEF OpenOn
  <2>7. Reads(out', << >>)
    <3>1. W("end") \in CodeOf(fn) /\ Len(labels) > 0 /\ W("end").w # "else" /\ W("end").w # "br"
      BY <1>4, <2>3
    <3> QED
      BY <2>1, <2>2, <2>6, <3>1, ReadsOn
  <2> QED
    BY <2>1, <2>7
<1>7. CASE EndBlock
  BY <1>7 DEF EndBlock, NestInv
<1>8. ASSUME AtInstr
      PROVE  /\ labels \in Seq(Words) /\ Reads(out, labels) /\ out \in Seq(CodeOf(fn))
             /\ Len(labels) \in Nat /\ Len(labels) > 0 /\ Top.height \in Nat /\ Top.height > 0 /\ Top.calls \in Nat
             /\ Top.calls > 0 => \/ /\ Instr.op = "Loop" /\ Len(labels) = Top.height + 2
                                 \/ /\ Instr.op = "IfElse" /\ Len(labels) = Top.height + 1
                                    /\ labels[Top.height + 1] = "if"
  <2>1. Stack(fn, frames, labels) /\ labels \in Seq(Words) /\ Reads(out, labels) /\ out \in Seq(CodeOf(fn))
    BY <1>8 DEF AtInstr, EmitInv, NestInv
  <2>2. Len(frames) > 0
    BY <1>8, <2>1 DEF AtInstr, Stack
  <2>3. /\ FrameOk(fn, Top, labels) /\ Len(labels) = Reach(fn, Top) /\ Top.height \in Nat /\ Top.height > 0
        /\ Top \in FrameSet(fn) /\ Top.calls \in Nat
    BY <1>1, <2>1, <2>2, TopFacts
  <2>4. Top.height <= Reach(fn, Top) /\ Reach(fn, Top) \in Nat
    BY <2>3, ReachType
  <2>5. InstrOf(fn, Top) = Instr
    BY DEF InstrOf, Instr
  <2>6. Top.calls > 0 => \/ /\ Instr.op = "Loop" /\ Len(labels) = Top.height + 2
                         \/ /\ Instr.op = "IfElse" /\ Len(labels) = Top.height + 1
                            /\ labels[Top.height + 1] = "if"
    BY <2>3, <2>5 DEF FrameOk, Reach, Opened
  <2> QED
    BY <2>1, <2>3, <2>4, <2>6
<1>9. CASE EmitPlain
  <2>1. AtInstr /\ labels' = labels
    BY <1>9 DEF EmitPlain
  <2>2. CASE pc' \in {"panicked", "unsupported"}
    BY <2>2
  <2>3. CASE out' = Append(out, Plain(Instr)) /\ pc' = pc
    <3>1. Plain(Instr) \in CodeOf(fn) /\ Plain(Instr).w = "plain"
      <4>1. Stack(fn, frames, labels)
        BY <2>1 DEF AtInstr, EmitInv
      <4>2. Len(frames) > 0
        BY <2>1, <4>1 DEF AtInstr, Stack
      <4>3. Top.block \in Blocks(fn) /\ Top.ip \in Nat
        BY <1>1, <4>1, <4>2, TopFacts
      <4> QED
        BY <4>3 DEF CodeOf, Instr, Plain
    <3>2. labels = OpenOn(labels, Plain(Instr))
      BY <3>1 DEF OpenOn
    <3>3. Reads(out', labels)
      BY <1>8, <2>1, <2>3, <3>1, <3>2, ReadsOn
    <3> QED
      BY <1>8, <2>1, <2>3, <3>3 DEF AtInstr
  <2> QED
    BY <1>9, <2>2, <2>3 DEF EmitPlain
<1>10. CASE EnterThen
  <2>1. AtInstr /\ out' = Append(out, W("if")) /\ labels' = Append(labels, "if") /\ pc' = pc
    BY <1>10 DEF EnterThen
  <2>2. labels' \in Seq(Words) /\ labels' = OpenOn(labels, W("if"))
    BY <1>4, <1>8, <2>1, AppendLabel DEF OpenOn, Words
  <2>3. Reads(out', labels')
    <3>1. W("if") \in CodeOf(fn) /\ W("if").w # "else" /\ W("if").w # "br"
      BY <1>4
    <3> QED
      BY <1>8, <2>1, <2>2, <3>1, ReadsOn
  <2> QED
    BY <2>1, <2>2, <2>3 DEF AtInstr
<1>11. CASE EnterElse
  <2>1. AtInstr /\ Instr.op = "IfElse" /\ Top.calls = 1 /\ out' = Append(out, W("else")) /\ labels' = labels /\ pc' = pc
    BY <1>11 DEF EnterElse
  <2>2. Last(labels) = "if"
    BY <1>8, <2>1 DEF Last
  <2>3. labels = OpenOn(labels, W("else"))
    BY <1>4 DEF OpenOn
  <2>4. Reads(out', labels)
    <3>1. W("else") \in CodeOf(fn) /\ W("else").w # "br"
      BY <1>4
    <3> QED
      BY <1>8, <2>1, <2>2, <2>3, <3>1, ReadsOn
  <2> QED
    BY <1>8, <2>1, <2>4 DEF AtInstr
<1>12. CASE EndIf
  <2>1. AtInstr /\ out' = Append(out, W("end")) /\ labels' = Front(labels) /\ pc' = pc
    BY <1>12 DEF EndIf
  <2>2. labels' \in Seq(Words)
    BY <1>8, <2>1, FrontOf
  <2>3. labels' = OpenOn(labels, W("end"))
    BY <1>4, <2>1 DEF OpenOn
  <2>4. Reads(out', labels')
    <3>1. W("end") \in CodeOf(fn) /\ W("end").w # "br" /\ W("end").w # "else"
      BY <1>4
    <3> QED
      BY <1>8, <2>1, <2>2, <2>3, <3>1, ReadsOn
  <2> QED
    BY <2>1, <2>2, <2>4 DEF AtInstr
<1>13. CASE EnterLoop
  <2> DEFINE code1 == Append(out, W("block"))  ls1 == Append(labels, "block")
             code2 == Append(code1, W("loop"))  ls2 == Append(ls1, "loop")
  <2>1. AtInstr /\ out' = out \o << W("block"), W("loop") >> /\ labels' = labels \o << "block", "loop" >> /\ pc' = pc
    BY <1>13 DEF EnterLoop
  <2>2. W("block") \in CodeOf(fn) /\ W("block").w = "block" /\ W("loop") \in CodeOf(fn) /\ W("loop").w = "loop"
    BY <1>4
  <2>3. ls1 \in Seq(Words) /\ Len(ls1) = Len(labels) + 1 /\ ls1 = OpenOn(labels, W("block"))
    BY <1>8, <2>1, <2>2, AppendLabel DEF OpenOn, Words
  <2>4. code1 \in Seq(CodeOf(fn)) /\ Reads(code1, ls1)
    <3> HIDE DEF ls1
    <3> QED
      BY <1>8, <2>1, <2>2, <2>3, ReadsOn
  <2>5. out' = code2
    BY <1>8, <2>1, <2>2
  <2>6. labels' = ls2
    <3>1. "block" \in Words /\ "loop" \in Words
      BY DEF Words
    <3> QED
      BY <1>8, <2>1, <3>1
  <2> HIDE DEF code1, ls1
  <2>7. ls2 \in Seq(Words) /\ ls2 = OpenOn(ls1, W("loop")) /\ Len(ls1) > 0
    BY <1>8, <2>1, <2>2, <2>3, AppendLabel DEF OpenOn, Words
  <2>8. Reads(code2, ls2)
    <3> HIDE DEF ls2
    <3> QED
      BY <2>2, <2>3, <2>4, <2>7, ReadsOn
  <2> QED
    BY <2>1, <2>5, <2>6, <2>7, <2>8 DEF AtInstr
<1>14. CASE EndLoop
  <2> DEFINE code1 == Append(out, Br(0))
             code2 == Append(code1, W("end"))  ls2 == Front(labels)
             code3 == Append(code2, W("end"))  ls3 == Front(ls2)
  <2>1. AtInstr /\ Instr.op = "Loop" /\ Top.calls = 1 /\ out' = out \o << Br(0), W("end"), W("end") >>
        /\ labels' = ls3 /\ pc' = pc
    BY <1>14 DEF EndLoop
  <2>2. W("end") \in CodeOf(fn) /\ W("end").w = "end" /\ Br(0) \in CodeOf(fn) /\ Br(0).w = "br" /\ Br(0).to = 0
    BY <1>4 DEF CodeOf, Br
  <2>3. Len(labels) = Top.height + 2 /\ labels \in Seq(Words) /\ Reads(out, labels) /\ out \in Seq(CodeOf(fn))
        /\ Top.height \in Nat /\ Len(labels) > 0 /\ 0 < Len(labels)
    BY <1>8, <2>1
  <2>4. labels = OpenOn(labels, Br(0))
    BY <2>2 DEF OpenOn
  <2>5. code1 \in Seq(CodeOf(fn)) /\ Reads(code1, labels)
    BY <2>2, <2>3, <2>4, ReadsOn
  <2>6. out' = code3
    BY <2>1, <2>2, <2>3
  <2> HIDE DEF code1
  <2>7. ls2 \in Seq(Words) /\ Len(ls2) = Top.height + 1 /\ ls2 = OpenOn(labels, W("end"))
    BY <2>2, <2>3, FrontOf DEF OpenOn
  <2>8. code2 \in Seq(CodeOf(fn)) /\ Reads(code2, ls2)
    <3> HIDE DEF ls2
    <3> QED
      BY <2>2, <2>3, <2>5, <2>7, ReadsOn
  <2> HIDE DEF code2, ls2
  <2>9. Len(ls2) > 0
    BY <2>3, <2>7
  <2>10. ls3 \in Seq(Words) /\ ls3 = OpenOn(ls2, W("end"))
    BY <2>2, <2>7, <2>9, FrontOf DEF OpenOn
  <2>11. Reads(code3, ls3)
    <3> HIDE DEF ls3
    <3> QED
      BY <2>2, <2>7, <2>8, <2>9, <2>10, ReadsOn
  <2> QED
    BY <2>1, <2>6, <2>10, <2>11 DEF AtInstr
<1>15. CASE EmitBreak
  <2>1. AtInstr /\ Instr.op = "Break" /\ labels' = labels
    BY <1>15 DEF EmitBreak
  <2>2. CASE pc' = "panicked"
    BY <2>2
  <2>3. CASE Top.block \in DOMAIN fn.dist /\ out' = Append(out, Br(fn.dist[Top.block] + 1)) /\ pc' = pc
    <3> DEFINE d == fn.dist[Top.block]
    <3>1. Br(d + 1) \in CodeOf(fn) /\ Br(d + 1).w = "br" /\ Br(d + 1).to = d + 1
      BY <2>3 DEF CodeOf, Br
    <3>2. /\ d \in Nat /\ Len(frames) \in Nat /\ Len(labels) = Top.height
          /\ \E j \in 1 .. Len(frames) : LoopAt(fn, frames, labels, Len(frames), j, d)
      BY <2>1, <2>3, BreakIsInLoop
    <3> HIDE DEF d
    <3>3. d + 1 < Len(labels)
      <4>1. PICK j \in 1 .. Len(frames) : LoopAt(fn, frames, labels, Len(frames), j, d)
        BY <3>2
      <4>2. Stack(fn, frames, labels)
        BY <2>1 DEF AtInstr, EmitInv
      <4>3. frames[j].height \in Nat
        BY <4>2, FuncIsOpen
      <4>4. Top.height = frames[j].height + d /\ frames[j].height > 2
        BY <4>1 DEF LoopAt, Top
      <4> QED
        BY <3>2, <4>3, <4>4
    <3>4. labels = OpenOn(labels, Br(d + 1))
      BY <3>1 DEF OpenOn
    <3>5. Reads(out', labels)
      <4>1. out' = Append(out, Br(d + 1))
        BY <2>3 DEF d
      <4> QED
        BY <1>8, <2>1, <3>1, <3>3, <3>4, <4>1, ReadsOn
    <3> QED
      BY <1>8, <2>1, <2>3, <3>5 DEF AtInstr
  <2> QED
    BY <1>15, <2>2, <2>3 DEF EmitBreak
<1> QED
  BY <1>5, <1>6, <1>7, <1>9, <1>10, <1>11, <1>12, <1>13, <1>14, <1>15 DEF Next

\* Of the finished code a reader finds everything closed.
LEMMA NestedCode == NestInv => CodeNests
<1> SUFFICES ASSUME NestInv, pc = "done" PROVE CodeNests
  BY DEF CodeNests
<1>1. out \in Seq(CodeOf(fn)) /\ Reads(out, << >>)
  BY DEF NestInv
<1>2. PICK o : Nested(out, o) /\ o[Len(out)] = << >>
  BY <1>1 DEF Reads
<1>3. OpenAfter(out) = o
  BY <1>1, <1>2, OpenIsUnique
<1>4. \A n \in 1 .. Len(out) : o[n - 1] # << >>
  <2> SUFFICES ASSUME NEW n \in 1 .. Len(out) PROVE o[n - 1] # << >>
    OBVIOUS
  <2>1. Len(o[n - 1]) > 0
    BY <1>2 DEF Nested
  <2>2. Len(<< >>) = 0
    BY EmptySeq
  <2> QED
    BY <2>1, <2>2
<1> QED
  BY <1>2, <1>3, <1>4 DEF CodeNests, Nested
=============================================================================
