-------------------------- MODULE CFVerifierProofs --------------------------
(***************************************************************************)
(* Theorems about the control-flow verifier, for every set of functions:   *)
(* its types, that neither of its verdicts depends on the order in which   *)
(* the blocks are scanned, that the distances it measures are right, and   *)
(* with all that, that it implements its contract.                         *)
(*                                                                         *)
(* The invariant behind the verdicts says what a scan knows in the middle: *)
(* every reference it has been past resolves, is the only one to its block *)
(* and is the one block_parents holds for it; and block_parents holds      *)
(* nothing else.                                                           *)
(***************************************************************************)
EXTENDS CFVerifier, ControlFlowProofs

LEMMA FnIsFunction == TypeOK => IsFunction(fn)
BY DEF TypeOK

LEMMA BlocksAreNumbers == TypeOK => Blocks(fn) \subseteq Nat /\ NoBlock \notin Blocks(fn)
BY FnIsFunction DEF IsFunction, NoBlock

-----------------------------------------------------------------------------
(* Type correctness *)

LEMMA TypeInit == Init => TypeOK
BY FunctionsAssumption, MaxDistanceAssumption
   DEF Init, TypeOK, EmptyMap, IsFunction, Terminal

LEMMA TypeNext == TypeOK /\ [Next]_vars => TypeOK'
<1> SUFFICES ASSUME TypeOK, [Next]_vars PROVE TypeOK'
  OBVIOUS
<1> USE FnIsFunction, MaxDistanceAssumption DEF scanVars, chaseVars
<1>1. CASE CheckEntry
  BY <1>1 DEF CheckEntry, TypeOK, Terminal
<1>2. CASE NextBlock
  BY <1>2 DEF NextBlock, TypeOK, Terminal
<1>3. CASE ScanRef
  <2> DEFINE r == Refs(fn.body[cur][ip])[arm]
  <2>1. r.block \in Nat /\ cur \in Blocks(fn)
    <3>1. /\ cur \in Blocks(fn) /\ ip \in Nat \ {0} /\ arm \in Nat \ {0}
          /\ ip <= Len(fn.body[cur]) /\ arm <= Len(Refs(fn.body[cur][ip]))
      BY <1>3 DEF ScanRef, Scanning, AtRef, AtInstr, TypeOK
    <3> QED
      BY <3>1, FnIsFunction DEF IsFunction
  <2>2. CASE SecondParent(r)
    BY <1>3, <2>2 DEF ScanRef, SecondParent, TypeOK, Terminal
  <2>3. CASE FirstParent(r)
    <3>1. parents' = Insert(parents, r.block, cur)
      BY <2>3 DEF FirstParent
    <3>2. /\ parents' \in [DOMAIN parents' -> Blocks(fn)]
          /\ DOMAIN parents' \subseteq Nat
      BY <2>1, <3>1 DEF Insert, TypeOK
    <3>3. pc' \in {"panicked", "rejected", pc} /\ arm' \in {arm, arm + 1}
      BY <2>3 DEF FirstParent
    <3>4. UNCHANGED <<fn, todo, cur, ip, hop, start, distance, distances>>
      BY <1>3 DEF ScanRef
    <3>5. pc = "scan"
      BY <1>3 DEF ScanRef, Scanning
    <3> HIDE DEF r
    <3> QED
      BY <3>2, <3>3, <3>4, <3>5 DEF TypeOK, Terminal
  <2> QED
    BY <1>3, <2>2, <2>3 DEF ScanRef
<1>4. CASE EndInstr
  BY <1>4 DEF EndInstr, TypeOK, Terminal
<1>5. CASE EndBlock
  BY <1>5 DEF EndBlock, TypeOK, Terminal
<1>6. CASE CheckMain
  BY <1>6 DEF CheckMain, TypeOK, Terminal
<1>7. CASE Measure
  <2>1. PICK b \in todo : MeasureOutside(b) \/ MeasureLoop(b) \/ StartChase(b)
    BY <1>7 DEF Measure
  <2>2. CASE MeasureOutside(b)
    BY <1>7, <2>2 DEF Measure, MeasureOutside, TypeOK, Terminal
  <2>3. CASE MeasureLoop(b)
    BY <1>7, <2>1, <2>3 DEF Measure, MeasureLoop, Insert, TypeOK, Terminal
  <2>4. CASE StartChase(b)
    BY <1>7, <2>1, <2>4, BlocksAreNumbers DEF Measure, StartChase, TypeOK, Terminal
  <2> QED
    BY <2>1, <2>2, <2>3, <2>4
<1>8. CASE Chase
  <2>1. CASE ChaseOrphan
    BY <2>1 DEF ChaseOrphan, TypeOK, Terminal
  <2>2. CASE ChaseOutside
    BY <2>2 DEF ChaseOutside, TypeOK, Terminal
  <2>3. CASE ChaseUp
    <3>1. hop' \in Blocks(fn) /\ distance' \in 1 .. MaxDistance
      BY <2>3 DEF ChaseUp, TypeOK
    <3>2. hop' # NoBlock
      BY <3>1 DEF IsFunction, NoBlock
    <3> QED
      BY <2>3, <3>1, <3>2 DEF ChaseUp, TypeOK, Terminal
  <2>4. CASE ChaseLoop
    <3>1. /\ distances' \in [DOMAIN distances' -> 0 .. MaxDistance]
          /\ DOMAIN distances' \subseteq Blocks(fn)
      BY <2>4 DEF ChaseLoop, Insert, TypeOK
    <3> QED
      BY <2>4, <3>1 DEF ChaseLoop, TypeOK, Terminal
  <2> QED
    BY <1>8, <2>1, <2>2, <2>3, <2>4 DEF Chase
<1>9. CASE Mutate
  BY <1>9 DEF Mutate, TypeOK, Terminal
<1>10. CASE Finished \/ UNCHANGED vars
  BY <1>10 DEF Finished, vars, TypeOK
<1> QED
  BY <1>1, <1>2, <1>3, <1>4, <1>5, <1>6, <1>7, <1>8, <1>9, <1>10 DEF Next

\* Every reachable state of the pass is well typed.
THEOREM TypeCorrect == Spec => []TypeOK
BY TypeInit, TypeNext, PTL DEF Spec
-----------------------------------------------------------------------------
(* The inductive invariant *)

\* The scan has been past position p.
Scanned(p) ==
  /\ p.block \notin todo
  /\ \/ p.block # cur
     \/ p.ip < ip
     \/ p.ip = ip /\ p.arm < arm

\* The references at the positions of P resolve, are the only ones to their
\* blocks, and are exactly what block_parents holds.
Recorded(P) ==
  /\ \A p \in P :
       /\ RefAt(fn, p).block \in Blocks(fn)
       /\ fn.tag[RefAt(fn, p).block] = RefAt(fn, p).tag
       /\ RefAt(fn, p).block \in DOMAIN parents
       /\ parents[RefAt(fn, p).block] = p.block
  /\ \A p, q \in P : RefAt(fn, p).block = RefAt(fn, q).block => p = q
  /\ \A c \in DOMAIN parents : \E p \in P : RefAt(fn, p).block = c

ScannedPositions == { p \in Positions(fn) : Scanned(p) }

ScanInv ==
  pc = "scan" => /\ EntryIsMain(fn)
                 /\ cur \notin todo
                 /\ Recorded(ScannedPositions)

PassedInv ==
  Passed => /\ EntryIsMain(fn)
            /\ Entry \notin DOMAIN parents
            /\ Recorded(Positions(fn))

StartInv == pc = "entry" => parents = EmptyMap /\ cur = NoBlock

VerdictInv ==
  TypeOK /\ StartInv /\ ScanInv /\ PassedInv /\ RejectedIsIllFormed

\* The position the scan is at is one of the function's, and not yet scanned.
LEMMA AtRefPosition ==
  ASSUME TypeOK, Scanning, AtRef
  PROVE  /\ Pos(cur, ip, arm) \in Positions(fn)
         /\ RefAt(fn, Pos(cur, ip, arm)) = Refs(fn.body[cur][ip])[arm]
         /\ ~Scanned(Pos(cur, ip, arm))
<1>1. cur \in Blocks(fn) /\ ip \in 1 .. Len(fn.body[cur])
      /\ arm \in 1 .. Len(Refs(fn.body[cur][ip]))
  BY FnIsFunction DEF TypeOK, Scanning, AtRef, AtInstr, IsFunction
<1>2. Pos(cur, ip, arm) \in Positions(fn)
  BY <1>1, PositionsDef
<1> QED
  BY <1>1, <1>2 DEF Pos, RefAt, Scanned, TypeOK

\* Going past that position adds it, and nothing else, to the scanned ones.
LEMMA ScanOne ==
  ASSUME TypeOK, Scanning, AtRef, cur \notin todo,
         arm' = arm + 1, UNCHANGED <<fn, todo, cur, ip>>
  PROVE  ScannedPositions' = ScannedPositions \cup {Pos(cur, ip, arm)}
<1>1. ASSUME NEW p \in Positions(fn)
      PROVE  Scanned(p)' <=> Scanned(p) \/ p = Pos(cur, ip, arm)
  <2>1. /\ p.ip \in Nat /\ p.arm \in Nat
        /\ p = Pos(p.block, p.ip, p.arm)
    BY PositionFacts, FnIsFunction
  <2>2. p = Pos(cur, ip, arm) <=> p.block = cur /\ p.ip = ip /\ p.arm = arm
    BY <2>1 DEF Pos
  <2> QED
    BY <2>1, <2>2 DEF Scanned, TypeOK
<1>2. Pos(cur, ip, arm) \in Positions(fn)
  BY AtRefPosition
<1> QED
  BY <1>1, <1>2 DEF ScannedPositions

\* An initial state satisfies all of the parts: nothing is scanned yet.
LEMMA VerdictInit == Init => VerdictInv
<1> SUFFICES ASSUME Init PROVE VerdictInv
  OBVIOUS
<1> QED
  BY TypeInit DEF Init, VerdictInv, StartInv, ScanInv, PassedInv, Passed,
                  RejectedIsIllFormed

\* One reference scanned: recorded, or a reason to reject the function.
LEMMA ScanRefStep == VerdictInv /\ ScanRef => VerdictInv'
<1> SUFFICES ASSUME VerdictInv, ScanRef PROVE VerdictInv'
  OBVIOUS
<1> DEFINE r == Refs(fn.body[cur][ip])[arm]
           here == Pos(cur, ip, arm)
<1>1. /\ TypeOK /\ Scanning /\ AtRef /\ pc = "scan" /\ cur \notin todo
      /\ EntryIsMain(fn) /\ Recorded(ScannedPositions)
      /\ UNCHANGED <<fn, todo, cur, ip>>
  BY DEF ScanRef, Scanning, VerdictInv, ScanInv
<1>2. /\ here \in Positions(fn) /\ RefAt(fn, here) = r
      /\ here \notin ScannedPositions /\ here.block = cur
  BY <1>1, AtRefPosition DEF ScannedPositions, Pos
<1>3. TypeOK'
  BY <1>1, TypeNext DEF Next
<1>4. SecondParent(r) \/ FirstParent(r)
  BY DEF ScanRef
<1>5. CASE SecondParent(r)
  <2>1. PICK p \in ScannedPositions : RefAt(fn, p).block = r.block
    BY <1>1, <1>5 DEF SecondParent, Recorded
  <2>2. ~SingleUse(fn)
    BY <1>2, <2>1 DEF SingleUse, ScannedPositions
  <2> QED
    BY <1>1, <1>3, <1>5, <2>2
       DEF SecondParent, VerdictInv, StartInv, ScanInv, PassedInv, Passed,
           RejectedIsIllFormed, WellFormed
<1>6. CASE FirstParent(r) /\ ~(r.block \in Blocks(fn) /\ fn.tag[r.block] = r.tag)
  <2>1. pc' \in {"panicked", "rejected"}
    BY <1>6 DEF FirstParent
  <2>2. ~RefsResolve(fn)
    BY <1>2, <1>6 DEF RefsResolve
  <2> QED
    BY <1>1, <1>3, <2>1, <2>2
       DEF VerdictInv, StartInv, ScanInv, PassedInv, Passed,
           RejectedIsIllFormed, WellFormed
<1>7. CASE FirstParent(r) /\ r.block \in Blocks(fn) /\ fn.tag[r.block] = r.tag
  <2>1. /\ pc' = pc /\ arm' = arm + 1 /\ r.block \notin DOMAIN parents
        /\ parents' = Insert(parents, r.block, cur)
    BY <1>7 DEF FirstParent
  <2>2. ScannedPositions' = ScannedPositions \cup {here}
    BY <1>1, <2>1, ScanOne
  <2> HIDE DEF r, here
  <2>c. /\ DOMAIN Insert(parents, r.block, cur) = DOMAIN parents \cup {r.block}
        /\ Insert(parents, r.block, cur)[r.block] = cur
        /\ \A x \in DOMAIN parents :
              x # r.block => Insert(parents, r.block, cur)[x] = parents[x]
    BY DEF Insert
  <2>3. /\ DOMAIN parents' = DOMAIN parents \cup {r.block}
        /\ parents'[r.block] = cur
        /\ \A x \in DOMAIN parents : parents'[x] = parents[x]
    BY <2>1, <2>c
  <2>4. ASSUME NEW p \in ScannedPositions \cup {here}
        PROVE  /\ RefAt(fn, p).block \in Blocks(fn)
               /\ fn.tag[RefAt(fn, p).block] = RefAt(fn, p).tag
               /\ RefAt(fn, p).block \in DOMAIN parents'
               /\ parents'[RefAt(fn, p).block] = p.block
    BY <1>1, <1>2, <1>7, <2>3 DEF Recorded
  <2>5. ASSUME NEW p \in ScannedPositions \cup {here},
               NEW q \in ScannedPositions \cup {here},
               RefAt(fn, p).block = RefAt(fn, q).block
        PROVE  p = q
    BY <1>1, <1>2, <2>1, <2>5 DEF Recorded
  <2>6. ASSUME NEW c \in DOMAIN parents'
        PROVE  \E p \in ScannedPositions \cup {here} : RefAt(fn, p).block = c
    BY <1>1, <1>2, <2>3 DEF Recorded
  <2>7. Recorded(ScannedPositions)'
    BY <1>1, <2>2, <2>4, <2>5, <2>6 DEF Recorded
  <2> QED
    BY <1>1, <1>3, <2>1, <2>7
       DEF VerdictInv, StartInv, ScanInv, PassedInv, Passed,
           RejectedIsIllFormed, EntryIsMain
<1> QED
  BY <1>4, <1>5, <1>6, <1>7

\* Between two references the set of scanned positions stays the same.
LEMMA ScanMoveStep == VerdictInv /\ (NextBlock \/ EndInstr \/ EndBlock) => VerdictInv'
<1> SUFFICES ASSUME VerdictInv, NextBlock \/ EndInstr \/ EndBlock PROVE VerdictInv'
  OBVIOUS
<1>1. /\ TypeOK /\ pc = "scan" /\ pc' = pc /\ cur \notin todo
      /\ EntryIsMain(fn) /\ Recorded(ScannedPositions)
      /\ UNCHANGED <<fn, parents>>
  BY DEF NextBlock, EndInstr, EndBlock, Scanning, VerdictInv, ScanInv
<1>2. TypeOK'
  BY <1>1, TypeNext DEF Next
<1>3. ASSUME NEW p \in Positions(fn) PROVE Scanned(p)' <=> Scanned(p)
  <2>1. /\ p.block \in Blocks(fn) /\ p.ip \in Nat /\ p.arm \in Nat
        /\ p.ip \in 1 .. Len(fn.body[p.block]) /\ p.ip >= 1 /\ p.arm >= 1
        /\ p.arm \in 1 .. Len(Refs(fn.body[p.block][p.ip]))
        /\ p.block # NoBlock
    <3>1. /\ p.block \in Blocks(fn) /\ p.ip \in Nat /\ p.arm \in Nat
          /\ p.ip \in 1 .. Len(fn.body[p.block])
          /\ p.arm \in 1 .. Len(Refs(fn.body[p.block][p.ip]))
      BY PositionFacts, FnIsFunction, <1>1
    <3> QED
      BY <1>1, <3>1, BlocksAreNumbers
  <2>2. CASE NextBlock
    BY <1>1, <2>1, <2>2 DEF NextBlock, Scanned, TypeOK
  <2>3. CASE EndInstr
    <3>1. /\ cur' = cur /\ todo' = todo /\ ip' = ip + 1 /\ arm' = 1
          /\ ip \in Nat /\ arm \in Nat /\ ip <= Len(fn.body[cur])
          /\ ~(arm <= Len(Refs(fn.body[cur][ip])))
      BY <1>1, <2>3 DEF EndInstr, AtRef, AtInstr, TypeOK
    <3>2. p.block = cur /\ p.ip = ip => p.arm < arm
      <4>1. SUFFICES ASSUME p.block = cur, p.ip = ip PROVE p.arm < arm
        OBVIOUS
      <4>2. Len(Refs(fn.body[cur][ip])) \in Nat
        BY <2>1, <4>1, <1>1, FnIsFunction DEF IsFunction
      <4> QED
        BY <2>1, <3>1, <4>1, <4>2
    <3> QED
      BY <2>1, <3>1, <3>2 DEF Scanned
  <2>4. CASE EndBlock
    <3>1. /\ cur' = NoBlock /\ todo' = todo /\ ip \in Nat /\ arm \in Nat
          /\ ~(ip <= Len(fn.body[cur]))
      BY <1>1, <2>4 DEF EndBlock, AtInstr, TypeOK
    <3> QED
      BY <1>1, <2>1, <3>1, FnIsFunction DEF Scanned, IsFunction
  <2> QED
    BY <2>2, <2>3, <2>4
<1>4. ScannedPositions' = ScannedPositions
  BY <1>1, <1>3 DEF ScannedPositions
<1>5. Recorded(ScannedPositions)'
  BY <1>1, <1>4 DEF Recorded
<1>6. cur' \notin todo'
  BY <1>1, FnIsFunction
     DEF NextBlock, EndInstr, EndBlock, TypeOK, IsFunction, NoBlock
<1> QED
  BY <1>1, <1>2, <1>5, <1>6
     DEF VerdictInv, StartInv, ScanInv, PassedInv, Passed,
         RejectedIsIllFormed, EntryIsMain

LEMMA VerdictNext == VerdictInv /\ [Next]_vars => VerdictInv'
<1> SUFFICES ASSUME VerdictInv, [Next]_vars PROVE VerdictInv'
  OBVIOUS
<1>1. TypeOK /\ TypeOK'
  BY TypeNext DEF VerdictInv
<1>2. CASE CheckEntry
  <2>1. pc = "entry" /\ parents = EmptyMap /\ cur = NoBlock
        /\ UNCHANGED <<fn, cur, parents>>
    BY <1>2 DEF CheckEntry, VerdictInv, StartInv, scanVars
  <2>2. CASE EntryIsMain(fn)
    <3>1. pc' = "scan" /\ todo' = Blocks(fn)
      BY <1>2, <2>2 DEF CheckEntry, EntryIsMain
    <3>2. ScannedPositions' = {}
      BY <1>1, <2>1, <3>1, FnIsFunction, PositionFacts DEF ScannedPositions, Scanned
    <3>3. Recorded(ScannedPositions)' /\ cur' \notin todo'
      BY <1>1, <2>1, <3>1, <3>2, FnIsFunction
         DEF Recorded, EmptyMap, IsFunction, NoBlock
    <3> QED
      BY <1>1, <2>1, <2>2, <3>1, <3>3
         DEF VerdictInv, StartInv, ScanInv, PassedInv, Passed,
             RejectedIsIllFormed, EntryIsMain
  <2>3. CASE ~EntryIsMain(fn)
    <3>1. pc' = "rejected"
      BY <1>2, <2>3 DEF CheckEntry, EntryIsMain
    <3> QED
      BY <1>1, <2>1, <2>3, <3>1
         DEF VerdictInv, StartInv, ScanInv, PassedInv, Passed,
             RejectedIsIllFormed, WellFormed
  <2> QED
    BY <2>2, <2>3
<1>3. CASE ScanRef
  BY <1>3, ScanRefStep
<1>4. CASE NextBlock \/ EndInstr \/ EndBlock
  BY <1>4, ScanMoveStep
<1>5. CASE CheckMain
  <2>1. /\ pc = "scan" /\ EntryIsMain(fn) /\ Recorded(ScannedPositions)
        /\ cur = NoBlock /\ todo = {} /\ UNCHANGED <<fn, parents>>
    BY <1>5 DEF CheckMain, VerdictInv, ScanInv
  <2>2. ScannedPositions = Positions(fn)
    <3>1. ASSUME NEW p \in Positions(fn) PROVE Scanned(p)
      <4>1. p.block \in Nat
        BY <1>1, FnIsFunction, PositionFacts DEF IsFunction
      <4> QED
        BY <2>1, <4>1 DEF Scanned, NoBlock
    <3> QED
      BY <3>1 DEF ScannedPositions
  <2>3. CASE Entry \in DOMAIN parents
    <3>1. ~EntryUnused(fn)
      BY <2>1, <2>2, <2>3 DEF EntryUnused, Recorded
    <3>2. pc' = "rejected"
      BY <1>5, <2>3 DEF CheckMain
    <3> QED
      BY <1>1, <2>1, <3>1, <3>2
         DEF VerdictInv, StartInv, ScanInv, PassedInv, Passed,
             RejectedIsIllFormed, WellFormed
  <2>4. CASE Entry \notin DOMAIN parents
    <3>1. pc' = "measure"
      BY <1>5, <2>4 DEF CheckMain
    <3>2. Recorded(Positions(fn))'
      BY <2>1, <2>2 DEF Recorded
    <3> QED
      BY <1>1, <2>1, <2>4, <3>1, <3>2
         DEF VerdictInv, StartInv, ScanInv, PassedInv, Passed,
             RejectedIsIllFormed, EntryIsMain
  <2> QED
    BY <2>3, <2>4
<1>6. CASE Measure \/ Chase \/ Mutate
  <2>1. /\ Passed /\ pc' \in {"measure", "chase", "accepted", "panicked"}
        /\ UNCHANGED <<fn, parents>>
    BY <1>6 DEF Measure, MeasureOutside, MeasureLoop, StartChase, Chase, ChaseOrphan,
                ChaseOutside, ChaseUp, ChaseLoop, Mutate, Passed
  <2>2. Recorded(Positions(fn))'
    BY <2>1 DEF VerdictInv, PassedInv, Recorded
  <2> QED
    BY <1>1, <2>1, <2>2
       DEF VerdictInv, StartInv, ScanInv, PassedInv, Passed,
           RejectedIsIllFormed, EntryIsMain
<1>7. CASE Finished \/ UNCHANGED vars
  <2>1. UNCHANGED <<fn, pc, todo, cur, ip, arm, parents>>
    BY <1>7 DEF Finished, vars, scanVars
  <2>2. ScannedPositions' = ScannedPositions
    BY <2>1 DEF ScannedPositions, Scanned
  <2>3. /\ Recorded(ScannedPositions)' <=> Recorded(ScannedPositions)
        /\ Recorded(Positions(fn))' <=> Recorded(Positions(fn))
    BY <2>1, <2>2 DEF Recorded
  <2> QED
    BY <1>1, <2>1, <2>3
       DEF VerdictInv, StartInv, ScanInv, PassedInv, Passed,
           RejectedIsIllFormed, EntryIsMain, WellFormed
<1> QED
  BY <1>2, <1>3, <1>4, <1>5, <1>6, <1>7 DEF Next

LEMMA VerdictInvariant == Spec => []VerdictInv
BY VerdictInit, VerdictNext, PTL DEF Spec

\* A function that gets past the scan is regular.
LEMMA RecordedIsWellFormed == VerdictInv => PassedIsWellFormed /\ ParentsExact
<1> SUFFICES ASSUME VerdictInv, Passed PROVE WellFormed(fn) /\ ParentMap(fn, parents)
  BY DEF PassedIsWellFormed, ParentsExact
<1>1. /\ TypeOK /\ EntryIsMain(fn) /\ Entry \notin DOMAIN parents
      /\ Recorded(Positions(fn))
  BY DEF VerdictInv, PassedInv
<1>2. RefsResolve(fn) /\ SingleUse(fn) /\ EntryUnused(fn)
  BY <1>1 DEF Recorded, RefsResolve, SingleUse, EntryUnused
<1>3. DOMAIN parents = { RefAt(fn, p).block : p \in Positions(fn) }
  BY <1>1 DEF Recorded
<1>4. \A c \in DOMAIN parents : IsParent(fn, parents[c], c)
  BY <1>1 DEF Recorded, IsParent
<1> QED
  BY <1>1, <1>2, <1>3, <1>4 DEF WellFormed, ParentMap

\* Whatever the order of its blocks, a function that passes is regular.
THEOREM OnlyRegularFunctionsPass == Spec => []PassedIsWellFormed
BY VerdictInvariant, RecordedIsWellFormed, PTL

\* No order of the blocks makes the pass reject a regular function.
THEOREM OnlyIrregularFunctionsAreRejected == Spec => []RejectedIsIllFormed
<1>1. VerdictInv => RejectedIsIllFormed
  BY DEF VerdictInv
<1> QED
  BY VerdictInvariant, <1>1, PTL

\* Chases follow real parents, and every block with a parent has it recorded.
THEOREM ParentsAreExact == Spec => []ParentsExact
BY VerdictInvariant, RecordedIsWellFormed, PTL

-----------------------------------------------------------------------------
(* The distances, and the contract                                         *)
(*                                                                         *)
(* A chase climbs from a branch towards the innermost loop.  The invariant *)
(* says how far it has come, and of each block that is measured where its  *)
(* climb ended; climbs from a branch and from its parent are compared only *)
(* when all of them have ended.                                            *)

\* The distance counter after n steps.
Counted(n) == IF n < MaxDistance THEN n ELSE MaxDistance

\* The chase at hand has come from start to hop.
ChaseInv ==
  pc = "chase" =>
    /\ start \in OfTag(fn, "IfElse") \ todo /\ hop \in OfTag(fn, "IfElse")
    /\ \E n \in Nat : Climbs(fn, start, n, hop) /\ distance = Counted(n + 1)

Measured(b) == b \in Blocks(fn) \ todo /\ ~ (pc = "chase" /\ b = start)

\* What is known of a branch when its chase is over.
Settled(f, d, b) ==
  \E n \in Nat : \E e \in Blocks(f) :
    /\ ClimbsOut(f, b, n, e)
    /\ b \in DOMAIN d <=> f.tag[e] = "Loop"
    /\ b \in DOMAIN d => d[b] = Counted(n)

DistancesInv ==
  pc \in {"measure", "chase"} =>
    /\ \A b \in DOMAIN distances : Measured(b) /\ b \in OfTag(fn, "IfElse") \cup OfTag(fn, "Loop")
    /\ \A b \in OfTag(fn, "Loop") : Measured(b) => b \in DOMAIN distances /\ distances[b] = 0
    /\ \A b \in OfTag(fn, "IfElse") : Measured(b) => Settled(fn, distances, b)

MetaInv ==
  /\ pc # "accepted" => meta = NoMeta
  /\ pc \notin {"measure", "chase", "accepted"} => pc = "panicked" \/ distances = EmptyMap
  /\ pc = "accepted" => /\ ~Knotted(fn)
                        /\ \A c \in OfTag(fn, "IfElse") : ~Orphan(fn, c)
                        /\ DOMAIN meta = {"parent", "dist"}
                        /\ ParentMap(fn, meta.parent)
                        /\ LoopDistances(fn, meta.dist)

DistInv == fn \in Functions /\ VerdictInv /\ ChaseInv /\ DistancesInv /\ MetaInv

-----------------------------------------------------------------------------

\* After the scan parents are those of the function.
LEMMA KnownParents ==
  ASSUME VerdictInv, Passed
  PROVE  /\ WellFormed(fn) /\ SingleUse(fn) /\ ParentMap(fn, parents)
         /\ \A c \in DOMAIN parents : IsParent(fn, parents[c], c) /\ parents[c] \in Blocks(fn)
         /\ \A b, c : IsParent(fn, b, c) => c \in DOMAIN parents /\ parents[c] = b
<1>1. WellFormed(fn) /\ ParentMap(fn, parents) /\ TypeOK
  BY RecordedIsWellFormed DEF PassedIsWellFormed, ParentsExact, VerdictInv
<1>2. SingleUse(fn)
  BY <1>1 DEF WellFormed
<1>3. \A c \in DOMAIN parents : IsParent(fn, parents[c], c) /\ parents[c] \in Blocks(fn)
  BY <1>1 DEF ParentMap, TypeOK
<1>4. ASSUME NEW b, NEW c, IsParent(fn, b, c)
      PROVE  c \in DOMAIN parents /\ parents[c] = b
  <2>1. c \in DOMAIN parents
    BY <1>1, <1>4 DEF ParentMap, IsParent
  <2> QED
    BY <1>2, <1>3, <1>4, <2>1, OneParent
<1> QED
  BY <1>1, <1>2, <1>3, <1>4

\* When all branches are settled the distances agree with one another, no
\* branch is an orphan and there is no cycle.
LEMMA SettledIsRight ==
  ASSUME VerdictInv, Passed, fn \in Functions, NEW d,
         DOMAIN d \subseteq OfTag(fn, "IfElse") \cup OfTag(fn, "Loop"),
         \A b \in OfTag(fn, "Loop") : b \in DOMAIN d /\ d[b] = 0,
         \A b \in OfTag(fn, "IfElse") : Settled(fn, d, b)
  PROVE  /\ LoopDistances(fn, d) /\ ~Knotted(fn)
         /\ \A c \in OfTag(fn, "IfElse") : ~Orphan(fn, c)
<1>1. SingleUse(fn) /\ TypeOK
  BY KnownParents DEF VerdictInv
<1>2. IsFiniteSet(Blocks(fn)) /\ Cardinality(Blocks(fn)) <= MaxDistance + 1
      /\ Cardinality(Blocks(fn)) \in Nat /\ MaxDistance \in Nat
  BY BoundAssumption, MaxDistanceAssumption, FS_CardinalityType
<1>3. ASSUME NEW c, NEW n \in Nat, NEW e, ClimbsOut(fn, c, n, e)
      PROVE  Counted(n) = n
  <2>1. n + 1 <= Cardinality(Blocks(fn))
    BY <1>1, <1>2, <1>3, ClimbIsBounded
  <2> QED
    BY <1>2, <2>1 DEF Counted
<1>4. ~Knotted(fn)
  BY <1>1, OutOfKnots DEF Settled
<1>5. ASSUME NEW c \in OfTag(fn, "IfElse")
      PROVE  ~Orphan(fn, c)
  <2>1. PICK n \in Nat, e \in Blocks(fn) : ClimbsOut(fn, c, n, e)
    BY DEF Settled
  <2>2. \E b \in Blocks(fn) : IsParent(fn, b, c)
    BY <2>1, ClimbFirst DEF ClimbsOut, OfTag
  <2> QED
    BY <2>2 DEF Orphan
<1>6. ASSUME NEW c \in OfTag(fn, "IfElse"), NEW b \in Blocks(fn), IsParent(fn, b, c)
      PROVE  /\ c \in DOMAIN d <=> b \in DOMAIN d
             /\ c \in DOMAIN d => d[c] = d[b] + 1
  <2>1. PICK n \in Nat, e \in Blocks(fn) :
          /\ ClimbsOut(fn, c, n, e)
          /\ c \in DOMAIN d <=> fn.tag[e] = "Loop"
          /\ c \in DOMAIN d => d[c] = n
    BY <1>3 DEF Settled
  <2>2. c \in Blocks(fn) /\ fn.tag[c] = "IfElse"
    BY DEF OfTag
  <2>3. CASE b \in OfTag(fn, "IfElse")
    <3>1. PICK m \in Nat, a \in Blocks(fn) :
            /\ ClimbsOut(fn, b, m, a)
            /\ b \in DOMAIN d <=> fn.tag[a] = "Loop"
            /\ b \in DOMAIN d => d[b] = m
      BY <1>3, <2>3 DEF Settled
    <3>2. ClimbsOut(fn, c, m + 1, a)
      BY <1>6, <2>2, <3>1, ClimbFrom DEF ClimbsOut
    <3>3. n = m + 1 /\ e = a
      BY <1>1, <2>1, <3>2, ClimbsOutOnce
    <3> QED
      BY <2>1, <3>1, <3>3
  <2>4. CASE b \notin OfTag(fn, "IfElse")
    <3>1. fn.tag[b] # "IfElse" /\ Climbs(fn, b, 0, b)
      BY <2>4, ClimbNone DEF OfTag
    <3>2. ClimbsOut(fn, c, 1, b)
      BY <1>6, <2>2, <3>1, ClimbFrom DEF ClimbsOut
    <3>3. n = 1 /\ e = b
      BY <1>1, <2>1, <3>2, ClimbsOutOnce
    <3>4. b \in DOMAIN d <=> fn.tag[b] = "Loop"
      BY <2>4 DEF OfTag
    <3>5. b \in DOMAIN d => d[b] = 0
      BY <3>4 DEF OfTag
    <3> QED
      BY <2>1, <3>3, <3>4, <3>5
  <2> QED
    BY <2>3, <2>4
<1> QED
  BY <1>4, <1>5, <1>6 DEF LoopDistances

-----------------------------------------------------------------------------
(* Every step keeps the invariant *)

LEMMA DistInit == Init => DistInv
<1> SUFFICES ASSUME Init PROVE DistInv
  OBVIOUS
<1> QED
  BY VerdictInit DEF Init, DistInv, ChaseInv, DistancesInv, MetaInv

\* Nothing is measured before the scan is over.
LEMMA ScanDist ==
  ASSUME DistInv, CheckEntry \/ NextBlock \/ ScanRef \/ EndInstr \/ EndBlock \/ CheckMain
  PROVE  ChaseInv' /\ DistancesInv' /\ MetaInv'
<1>1. /\ pc \in {"entry", "scan"} /\ UNCHANGED <<fn, meta, distances>>
      /\ \/ pc' \in {"entry", "scan", "rejected", "panicked"}
         \/ pc' = "measure" /\ todo' = Blocks(fn)
  <2>1. CASE CheckEntry \/ CheckMain
    BY <2>1 DEF CheckEntry, CheckMain
  <2>2. CASE NextBlock \/ EndInstr \/ EndBlock
    BY <2>2 DEF NextBlock, EndInstr, EndBlock, Scanning
  <2>3. CASE ScanRef
    BY <2>3 DEF ScanRef, SecondParent, FirstParent, Scanning
  <2> QED
    BY <2>1, <2>2, <2>3
<1>2. distances = EmptyMap /\ DOMAIN distances = {}
  BY <1>1 DEF DistInv, MetaInv, EmptyMap
<1>3. DistancesInv'
  BY <1>1, <1>2 DEF DistancesInv, Measured, OfTag
<1> QED
  BY <1>1, <1>2, <1>3 DEF DistInv, ChaseInv, MetaInv

LEMMA MeasureDist ==
  ASSUME DistInv, Measure
  PROVE  ChaseInv' /\ DistancesInv' /\ MetaInv'
<1>1. PICK b \in todo : /\ todo' = todo \ {b}
                        /\ MeasureOutside(b) \/ MeasureLoop(b) \/ StartChase(b)
  BY DEF Measure
<1>2. pc = "measure" /\ TypeOK /\ UNCHANGED <<fn, meta, parents>> /\ b \in Blocks(fn)
  BY <1>1 DEF Measure, DistInv, VerdictInv, TypeOK
<1>3. /\ \A c \in DOMAIN distances : Measured(c) /\ c \in OfTag(fn, "IfElse") \cup OfTag(fn, "Loop")
      /\ \A c \in OfTag(fn, "Loop") : Measured(c) => c \in DOMAIN distances /\ distances[c] = 0
      /\ \A c \in OfTag(fn, "IfElse") : Measured(c) => Settled(fn, distances, c)
  BY <1>2 DEF DistInv, DistancesInv
<1>4. b \notin DOMAIN distances
  BY <1>1, <1>3 DEF Measured
<1>5. CASE MeasureOutside(b)
  <2>1. pc' = pc /\ UNCHANGED <<start, distances>> /\ fn.tag[b] \in {"Undefined", "Main"}
    BY <1>5 DEF MeasureOutside, chaseVars
  <2>2. \A c : Measured(c)' <=> Measured(c) \/ c = b
    BY <1>1, <1>2, <2>1 DEF Measured
  <2> QED
    BY <1>2, <1>3, <2>1, <2>2 DEF DistInv, ChaseInv, DistancesInv, MetaInv, OfTag
<1>6. CASE MeasureLoop(b)
  <2>1. /\ pc' = pc /\ UNCHANGED start /\ fn.tag[b] = "Loop"
        /\ distances' = Insert(distances, b, 0)
    BY <1>6 DEF MeasureLoop, chaseVars
  <2>2. \A c : Measured(c)' <=> Measured(c) \/ c = b
    BY <1>1, <1>2, <2>1 DEF Measured
  <2>3. /\ DOMAIN distances' = DOMAIN distances \cup {b} /\ distances'[b] = 0
        /\ \A c \in DOMAIN distances : distances'[c] = distances[c]
    BY <1>4, <2>1 DEF Insert
  <2>4. \A c \in OfTag(fn, "IfElse") : Measured(c) => Settled(fn, distances', c)
    <3> SUFFICES ASSUME NEW c \in OfTag(fn, "IfElse"), Measured(c)
                 PROVE  Settled(fn, distances', c)
      OBVIOUS
    <3>1. Settled(fn, distances, c) /\ c # b
      BY <1>3, <2>1 DEF OfTag
    <3> QED
      BY <2>3, <3>1 DEF Settled
  <2>5. DistancesInv'
    BY <1>2, <1>3, <2>1, <2>2, <2>3, <2>4 DEF DistancesInv, OfTag
  <2> QED
    BY <1>2, <2>1, <2>5 DEF DistInv, ChaseInv, MetaInv
<1>7. CASE StartChase(b)
  <2>1. /\ pc' = "chase" /\ hop' = b /\ start' = b /\ distance' = 1 /\ distances' = distances
        /\ fn.tag[b] = "IfElse"
    BY <1>7 DEF StartChase
  <2>2. \A c : Measured(c)' <=> Measured(c)
    BY <1>1, <1>2, <2>1 DEF Measured
  <2>3. Climbs(fn, b, 0, b) /\ Counted(0 + 1) = 1
    BY <1>2, MaxDistanceAssumption, ClimbNone DEF Counted
  <2>4. b \in OfTag(fn, "IfElse") /\ b \notin todo'
    BY <1>1, <1>2, <2>1 DEF OfTag
  <2>5. ChaseInv'
    BY <1>2, <2>1, <2>3, <2>4 DEF ChaseInv
  <2>6. DistancesInv'
    BY <1>2, <1>3, <2>1, <2>2 DEF DistancesInv
  <2> QED
    BY <1>2, <2>1, <2>5, <2>6 DEF DistInv, MetaInv
<1> QED
  BY <1>1, <1>5, <1>6, <1>7

\* A chase goes up one parent at a time, and settles its branch at the end.
LEMMA ChaseDist ==
  ASSUME DistInv, Chase
  PROVE  ChaseInv' /\ DistancesInv' /\ MetaInv'
<1>1. /\ pc = "chase" /\ TypeOK /\ UNCHANGED <<fn, meta, todo, parents>> /\ VerdictInv /\ Passed
  BY DEF Chase, ChaseOrphan, ChaseOutside, ChaseUp, ChaseLoop, DistInv, VerdictInv, Passed
<1>2. /\ start \in OfTag(fn, "IfElse") \ todo /\ hop \in OfTag(fn, "IfElse")
      /\ start \in Blocks(fn) /\ fn.tag[hop] = "IfElse"
  BY <1>1 DEF DistInv, ChaseInv, OfTag
<1>3. PICK n \in Nat : Climbs(fn, start, n, hop) /\ distance = Counted(n + 1)
  BY <1>1 DEF DistInv, ChaseInv
<1>4. /\ \A c \in DOMAIN distances : Measured(c) /\ c \in OfTag(fn, "IfElse") \cup OfTag(fn, "Loop")
      /\ \A c \in OfTag(fn, "Loop") : Measured(c) => c \in DOMAIN distances /\ distances[c] = 0
      /\ \A c \in OfTag(fn, "IfElse") : Measured(c) => Settled(fn, distances, c)
  BY <1>1 DEF DistInv, DistancesInv
<1>5. start \notin DOMAIN distances
  BY <1>1, <1>4 DEF Measured
<1>6. CASE ChaseOrphan
  BY <1>1, <1>6 DEF ChaseOrphan, DistInv, ChaseInv, DistancesInv, MetaInv
<1>7. ASSUME hop \in DOMAIN parents
      PROVE  /\ parents[hop] \in Blocks(fn) /\ IsParent(fn, parents[hop], hop)
             /\ Climbs(fn, start, n + 1, parents[hop])
  BY <1>1, <1>2, <1>3, <1>7, KnownParents, ClimbOn
<1>8. CASE ChaseOutside
  <2>1. /\ pc' = "measure" /\ distances' = distances /\ UNCHANGED start
        /\ hop \in DOMAIN parents /\ fn.tag[parents[hop]] \in {"Undefined", "Main"}
    BY <1>8 DEF ChaseOutside, chaseVars
  <2>2. \A c : Measured(c)' <=> Measured(c) \/ c = start
    BY <1>1, <1>2, <2>1 DEF Measured
  <2>3. Settled(fn, distances, start)
    <3>1. ClimbsOut(fn, start, n + 1, parents[hop]) /\ n + 1 \in Nat
      BY <1>7, <2>1 DEF ClimbsOut
    <3> QED
      BY <1>5, <1>7, <2>1, <3>1 DEF Settled
  <2>4. start \notin OfTag(fn, "Loop")
    BY <1>2 DEF OfTag
  <2>5. DistancesInv'
    BY <1>1, <1>4, <2>1, <2>2, <2>3, <2>4 DEF DistancesInv
  <2> QED
    BY <1>1, <2>1, <2>5 DEF DistInv, ChaseInv, MetaInv
<1>9. CASE ChaseUp
  <2>1. /\ pc' = pc /\ distances' = distances /\ UNCHANGED start /\ hop' = parents[hop]
        /\ hop \in DOMAIN parents /\ fn.tag[parents[hop]] = "IfElse"
        /\ distance' = IF distance < MaxDistance THEN distance + 1 ELSE distance
    BY <1>9 DEF ChaseUp
  <2>2. \A c : Measured(c)' <=> Measured(c)
    BY <1>1, <2>1 DEF Measured
  <2>3. Climbs(fn, start, n + 1, hop') /\ hop' \in OfTag(fn, "IfElse") /\ n + 1 \in Nat
    BY <1>7, <2>1 DEF OfTag
  <2>4. distance' = Counted((n + 1) + 1)
    BY <1>3, <2>1, MaxDistanceAssumption DEF Counted
  <2>5. ChaseInv'
    BY <1>1, <1>2, <2>1, <2>3, <2>4 DEF ChaseInv
  <2>6. DistancesInv'
    BY <1>1, <1>4, <2>1, <2>2 DEF DistancesInv
  <2> QED
    BY <1>1, <2>1, <2>5, <2>6 DEF DistInv, MetaInv
<1>10. CASE ChaseLoop
  <2>1. /\ pc' = "measure" /\ distances' = Insert(distances, start, distance) /\ UNCHANGED start
        /\ hop \in DOMAIN parents /\ fn.tag[parents[hop]] = "Loop"
    BY <1>10 DEF ChaseLoop, chaseVars
  <2>2. \A c : Measured(c)' <=> Measured(c) \/ c = start
    BY <1>1, <1>2, <2>1 DEF Measured
  <2>3. /\ DOMAIN distances' = DOMAIN distances \cup {start} /\ distances'[start] = distance
        /\ \A c \in DOMAIN distances : distances'[c] = distances[c]
    BY <1>5, <2>1 DEF Insert
  <2>4. Settled(fn, distances', start)
    <3>1. ClimbsOut(fn, start, n + 1, parents[hop]) /\ n + 1 \in Nat
      BY <1>7, <2>1 DEF ClimbsOut
    <3> QED
      BY <1>3, <1>7, <2>1, <2>3, <3>1 DEF Settled
  <2>5. \A c \in OfTag(fn, "IfElse") : Measured(c) => Settled(fn, distances', c)
    <3> SUFFICES ASSUME NEW c \in OfTag(fn, "IfElse"), Measured(c)
                 PROVE  Settled(fn, distances', c)
      OBVIOUS
    <3>1. Settled(fn, distances, c) /\ c # start
      BY <1>1, <1>4 DEF Measured
    <3> QED
      BY <2>3, <3>1 DEF Settled
  <2>6. start \notin OfTag(fn, "Loop")
    BY <1>2 DEF OfTag
  <2>7. DistancesInv'
    BY <1>1, <1>2, <1>4, <2>1, <2>2, <2>3, <2>4, <2>5, <2>6 DEF DistancesInv
  <2> QED
    BY <1>1, <2>1, <2>7 DEF DistInv, ChaseInv, MetaInv
<1> QED
  BY <1>6, <1>8, <1>9, <1>10 DEF Chase

\* At the end all blocks are measured, and the metadata is what was measured.
LEMMA MutateDist ==
  ASSUME DistInv, Mutate
  PROVE  /\ ChaseInv' /\ DistancesInv' /\ MetaInv'
         /\ pc' = "accepted" /\ WellFormed(fn) /\ meta = NoMeta
<1>1. /\ pc = "measure" /\ todo = {} /\ pc' = "accepted" /\ VerdictInv /\ Passed /\ fn \in Functions
      /\ meta = NoMeta /\ UNCHANGED fn
  BY DEF Mutate, DistInv, MetaInv, Passed
<1>2. /\ \A b \in DOMAIN distances : b \in OfTag(fn, "IfElse") \cup OfTag(fn, "Loop")
      /\ \A b \in OfTag(fn, "Loop") : b \in DOMAIN distances /\ distances[b] = 0
      /\ \A b \in OfTag(fn, "IfElse") : Settled(fn, distances, b)
  BY <1>1 DEF DistInv, DistancesInv, Measured, OfTag
<1>3. /\ LoopDistances(fn, distances) /\ ~Knotted(fn)
      /\ \A c \in OfTag(fn, "IfElse") : ~Orphan(fn, c)
  BY <1>1, <1>2, SettledIsRight
<1>4. ParentMap(fn, parents) /\ WellFormed(fn)
  BY <1>1, KnownParents
<1>5. /\ DOMAIN meta' = {"parent", "dist"}
      /\ meta'.parent = Overlay(parents, EmptyMap) /\ meta'.dist = Overlay(distances, EmptyMap)
  BY <1>1 DEF Mutate, NoMeta
<1>6. Overlay(parents, EmptyMap) = parents /\ Overlay(distances, EmptyMap) = distances
  <2>1. /\ parents = [c \in DOMAIN parents |-> parents[c]]
        /\ distances = [c \in DOMAIN distances |-> distances[c]]
    BY <1>1 DEF VerdictInv, TypeOK
  <2>2. DOMAIN EmptyMap = {}
    BY DEF EmptyMap
  <2> QED
    BY <2>1, <2>2 DEF Overlay
<1> QED
  BY <1>1, <1>3, <1>4, <1>5, <1>6 DEF ChaseInv, DistancesInv, MetaInv

LEMMA DistNext == DistInv /\ [Next]_vars => DistInv'
<1> SUFFICES ASSUME DistInv, [Next]_vars PROVE DistInv'
  OBVIOUS
<1>1. VerdictInv'
  BY VerdictNext DEF DistInv
<1>2. fn' \in Functions
  BY DEF DistInv, Next, CheckEntry, NextBlock, ScanRef, EndInstr, EndBlock, CheckMain, Measure, Chase,
         ChaseOrphan, ChaseOutside, ChaseUp, ChaseLoop, Mutate, Finished, vars
<1>3. CASE CheckEntry \/ NextBlock \/ ScanRef \/ EndInstr \/ EndBlock \/ CheckMain
  BY <1>1, <1>2, <1>3, ScanDist DEF DistInv
<1>4. CASE Measure
  BY <1>1, <1>2, <1>4, MeasureDist DEF DistInv
<1>5. CASE Chase
  BY <1>1, <1>2, <1>5, ChaseDist DEF DistInv
<1>6. CASE Mutate
  BY <1>1, <1>2, <1>6, MutateDist DEF DistInv
<1>7. CASE Finished \/ UNCHANGED vars
  <2>1. UNCHANGED <<fn, meta, pc, todo, parents, hop, start, distance, distances>>
    BY <1>7 DEF Finished, vars, chaseVars
  <2>2. \A b : Measured(b)' <=> Measured(b)
    BY <2>1 DEF Measured
  <2> QED
    BY <1>1, <1>2, <2>1, <2>2 DEF DistInv, ChaseInv, DistancesInv, MetaInv
<1> QED
  BY <1>3, <1>4, <1>5, <1>6, <1>7 DEF Next

LEMMA DistInvariant == Spec => []DistInv
BY DistInit, DistNext, PTL DEF Spec

\* The distances of an accepted function agree with one another.
THEOREM DistancesAreExact == Spec => []DistancesAgree
<1>1. DistInv => DistancesAgree
  BY DEF DistInv, MetaInv, DistancesAgree
<1> QED
  BY DistInvariant, <1>1, PTL

-----------------------------------------------------------------------------
(* The contract *)

verdict == IF pc \in Terminal THEN pc ELSE "none"

\* The contract's words for control flow are those of the pass.
LEMMA SameWords ==
  ASSUME NEW f
  PROVE  /\ Contract!EmptyMap = EmptyMap
         /\ Contract!WellFormed(f) <=> WellFormed(f)
         /\ Contract!Dangling(f) <=> Dangling(f)
         /\ Contract!Knotted(f) <=> Knotted(f)
         /\ \A t : Contract!OfTag(f, t) = OfTag(f, t)
         /\ \A c : Contract!Orphan(f, c) <=> Orphan(f, c)
         /\ \A m : Contract!ParentMap(f, m) <=> ParentMap(f, m)
         /\ \A d : Contract!LoopDistances(f, d) <=> LoopDistances(f, d)
<1>1. Contract!EmptyMap = EmptyMap /\ Contract!Entry = Entry /\ Contract!Blocks(f) = Blocks(f)
  BY DEF Contract!EmptyMap, EmptyMap, Contract!Entry, Entry, Contract!NoBlock, NoBlock,
         Contract!Blocks, Blocks
<1>2. \A i : Contract!Refs(i) = Refs(i)
  BY DEF Contract!Refs, Refs, Contract!Ref, Ref, Contract!NoBlock, NoBlock
<1>3. Contract!Positions(f) = Positions(f)
  BY <1>1, <1>2 DEF Contract!Positions, Positions, Contract!Pos, Pos
<1>4. \A q : Contract!RefAt(f, q) = RefAt(f, q)
  BY <1>2 DEF Contract!RefAt, RefAt
<1>5. \A b, c : Contract!IsParent(f, b, c) <=> IsParent(f, b, c)
  BY <1>3, <1>4 DEF Contract!IsParent, IsParent
<1>6. Contract!WellFormed(f) <=> WellFormed(f)
  BY <1>1, <1>3, <1>4
     DEF Contract!WellFormed, WellFormed, Contract!EntryIsMain, EntryIsMain, Contract!RefsResolve,
         RefsResolve, Contract!SingleUse, SingleUse, Contract!EntryUnused, EntryUnused
<1>7. Contract!Dangling(f) <=> Dangling(f)
  BY <1>1, <1>3, <1>4 DEF Contract!Dangling, Dangling
<1>8. \A t : Contract!OfTag(f, t) = OfTag(f, t)
  BY <1>1 DEF Contract!OfTag, OfTag
<1>9. Contract!Knotted(f) <=> Knotted(f)
  BY <1>5, <1>8 DEF Contract!Knotted, Knotted, Contract!Knot, Knot
<1>10. \A c : Contract!Orphan(f, c) <=> Orphan(f, c)
  BY <1>1, <1>5 DEF Contract!Orphan, Orphan
<1>11. \A m : Contract!ParentMap(f, m) <=> ParentMap(f, m)
  BY <1>3, <1>4, <1>5 DEF Contract!ParentMap, ParentMap
<1>12. \A d : Contract!LoopDistances(f, d) <=> LoopDistances(f, d)
  BY <1>1, <1>5, <1>8 DEF Contract!LoopDistances, LoopDistances
<1> QED
  BY <1>1, <1>6, <1>7, <1>8, <1>9, <1>10, <1>11, <1>12

LEMMA ContractInit == Init => Contract!Init
BY SameWords DEF Init, NoMeta, Terminal, Contract!Init

\* The step that decides is a step of the contract, and the others are none.
LEMMA ContractNext ==
  DistInv /\ [Next]_vars => [Contract!Next]_<<fn, meta, verdict>>
<1> SUFFICES ASSUME DistInv, [Next]_vars PROVE [Contract!Next]_<<fn, meta, verdict>>
  OBVIOUS
<1> USE DEF verdict, Terminal
<1>1. DistInv'
  BY DistNext
<1>2. UNCHANGED fn
  BY DEF Next, CheckEntry, NextBlock, ScanRef, EndInstr, EndBlock, CheckMain, Measure, Chase,
         ChaseOrphan, ChaseOutside, ChaseUp, ChaseLoop, Mutate, Finished, vars
<1>3. ASSUME pc \notin Terminal, pc' = "rejected", UNCHANGED meta
      PROVE  Contract!Reject
  BY <1>1, <1>2, <1>3, SameWords DEF DistInv, VerdictInv, RejectedIsIllFormed, Contract!Reject
<1>4. CASE CheckEntry \/ CheckMain \/ NextBlock \/ EndInstr \/ EndBlock
  <2>1. /\ pc \notin Terminal /\ UNCHANGED meta
        /\ pc' \notin Terminal \/ pc' = "rejected"
    BY <1>4 DEF CheckEntry, CheckMain, NextBlock, EndInstr, EndBlock, Scanning
  <2> QED
    BY <1>2, <1>3, <2>1 DEF Contract!Next
<1>5. CASE ScanRef
  <2> DEFINE r == Refs(fn.body[cur][ip])[arm]
  <2>1. pc = "scan" /\ UNCHANGED meta /\ (SecondParent(r) \/ FirstParent(r))
    BY <1>5 DEF ScanRef, Scanning
  <2>2. CASE pc' = "panicked"
    <3>1. r.block \notin Blocks(fn)
      BY <2>1, <2>2 DEF SecondParent, FirstParent
    <3>2. Pos(cur, ip, arm) \in Positions(fn) /\ RefAt(fn, Pos(cur, ip, arm)) = r
      BY <1>5, AtRefPosition DEF ScanRef, DistInv, VerdictInv
    <3>3. Dangling(fn)
      BY <3>1, <3>2 DEF Dangling
    <3> QED
      BY <1>2, <2>1, <2>2, <3>3, SameWords DEF Contract!Next, Contract!Panic, Contract!Panics
  <2>3. CASE pc' # "panicked"
    <3>1. pc' \in {"scan", "rejected"}
      BY <2>1, <2>3 DEF SecondParent, FirstParent
    <3> QED
      BY <1>2, <1>3, <2>1, <3>1 DEF Contract!Next
  <2> QED
    BY <2>2, <2>3
<1>6. CASE Measure
  BY <1>2, <1>6 DEF Measure, MeasureOutside, MeasureLoop, StartChase
<1>7. CASE ChaseOrphan
  <2>1. /\ pc = "chase" /\ hop \notin DOMAIN parents /\ pc' = "panicked" /\ UNCHANGED meta
        /\ hop \in OfTag(fn, "IfElse") /\ VerdictInv /\ Passed
    BY <1>7 DEF ChaseOrphan, DistInv, ChaseInv, Passed
  <2>2. Orphan(fn, hop)
    BY <2>1, KnownParents DEF Orphan
  <2> QED
    BY <1>2, <2>1, <2>2, SameWords DEF Contract!Next, Contract!Panic, Contract!Panics, Contract!HasOrphans
<1>8. CASE ChaseOutside \/ ChaseUp \/ ChaseLoop
  BY <1>2, <1>8 DEF ChaseOutside, ChaseUp, ChaseLoop
<1>9. CASE Mutate
  <2>1. pc = "measure" /\ pc' = "accepted" /\ WellFormed(fn) /\ MetaInv'
    BY <1>9, MutateDist DEF Mutate
  <2>2. /\ ~Knotted(fn) /\ \A c \in OfTag(fn, "IfElse") : ~Orphan(fn, c)
        /\ DOMAIN meta' = {"parent", "dist"}
        /\ ParentMap(fn, meta'.parent) /\ LoopDistances(fn, meta'.dist)
    BY <1>2, <2>1 DEF MetaInv
  <2> QED
    BY <1>2, <2>1, <2>2, SameWords DEF Contract!Next, Contract!Accept, Contract!Accepts, Contract!HasOrphans
<1>10. CASE Finished \/ UNCHANGED vars
  BY <1>10 DEF Finished, vars
<1> QED
  BY <1>4, <1>5, <1>6, <1>7, <1>8, <1>9, <1>10 DEF Next, Chase

\* The pass implements its contract: it accepts, rejects and panics as the
\* function alone decides, and leaves exact metadata behind, for every set of
\* functions.
THEOREM ImplementsContract == Spec => RefinesContract
BY DistInvariant, ContractInit, ContractNext, PTL DEF Spec, RefinesContract, Contract!Spec, verdict
=============================================================================
