----------------------------- MODULE CFVerifier -----------------------------
(***************************************************************************)
(* The control-flow verifier, cf_verify.rs: visit_function scans every     *)
(* block of one function, in the arbitrary order of a HashMap, and records *)
(* the parent of each block that is referred to; it then measures how far  *)
(* each block is from its innermost loop by chasing parents; and           *)
(* mutate_function writes both results into the metadata of the blocks.    *)
(*                                                                         *)
(* One behaviour is one run of the pass over one function.  It ends        *)
(* accepted (Ok), rejected (Err) or panicked (an unwrap or an index that   *)
(* fails), or it never ends.                                               *)
(***************************************************************************)
EXTENDS ControlFlow, FiniteSets

CONSTANTS
  Functions,    \* the functions the pass may be run on
  MaxDistance   \* the model's bound on the distance counter of a chase

ASSUME FunctionsAssumption == \A f \in Functions : IsFunction(f)
ASSUME MaxDistanceAssumption == MaxDistance \in Nat \ {0}

\* Only a chase that comes back to a block reaches the bound.
ASSUME BoundAssumption ==
  \A f \in Functions : IsFiniteSet(Blocks(f)) /\ Cardinality(Blocks(f)) <= MaxDistance + 1

VARIABLES
  fn,        \* the function being verified
  meta,      \* block metadata: the keys "parent" and "innermost_loop_distance"
  pc,        \* the phase visit_function is in
  todo,      \* the blocks the current iteration has still to visit
  cur,       \* the block being scanned, or NoBlock between two blocks
  ip, arm,   \* the instruction and the reference of it being scanned
  parents,   \* block_parents
  hop,       \* current_block of a chase
  start,     \* the block a chase measures
  distance,  \* innermost_loop_distance, the local of a chase
  distances  \* innermost_loop_distances

scanVars  == <<cur, ip, arm>>
chaseVars == <<hop, start, distance>>
vars == <<fn, meta, pc, todo, scanVars, parents, chaseVars, distances>>

NoMeta == [parent |-> EmptyMap, dist |-> EmptyMap]

Init ==
  /\ fn \in Functions
  /\ meta = NoMeta
  /\ pc = "entry"
  /\ todo = {}
  /\ cur = NoBlock /\ ip = 1 /\ arm = 1
  /\ parents = EmptyMap
  /\ hop = NoBlock /\ start = NoBlock /\ distance = 1
  /\ distances = EmptyMap

Terminal == {"accepted", "rejected", "panicked"}

-----------------------------------------------------------------------------
(* The entry block's tag, then the scan for parents *)

CheckEntry ==
  /\ pc = "entry"
  /\ IF fn.tag[Entry] = "Main"
       THEN pc' = "scan" /\ todo' = Blocks(fn)
       ELSE pc' = "rejected" /\ todo' = todo
  /\ UNCHANGED <<fn, meta, scanVars, parents, chaseVars, distances>>

\* blocks_iter() yields the blocks in no particular order.
NextBlock ==
  /\ pc = "scan" /\ cur = NoBlock
  /\ \E b \in todo :
       /\ cur' = b /\ ip' = 1 /\ arm' = 1
       /\ todo' = todo \ {b}
  /\ UNCHANGED <<fn, meta, pc, parents, chaseVars, distances>>

Scanning == pc = "scan" /\ cur # NoBlock

AtInstr == ip <= Len(fn.body[cur])

AtRef == AtInstr /\ arm <= Len(Refs(fn.body[cur][ip]))

\* assert_parent fails: the block already has a parent.
SecondParent(r) ==
  /\ r.block \in DOMAIN parents
  /\ pc' = "rejected"
  /\ UNCHANGED <<parents, arm>>

\* Mutant: assert_parent inserts the pair the wrong way round.
FirstParentSwapped(r) ==
  /\ r.block \notin DOMAIN parents
  /\ parents' = Insert(parents, cur, r.block)
  /\ pc' = pc /\ arm' = arm + 1

\* Mutant: assert_tag is not called.
FirstParentAnyTag(r) ==
  /\ r.block \notin DOMAIN parents
  /\ parents' = Insert(parents, r.block, cur)
  /\ \/ r.block \notin Blocks(fn) /\ pc' = "panicked" /\ arm' = arm
     \/ r.block \in Blocks(fn) /\ pc' = pc /\ arm' = arm + 1

\* Mutant: the entry block is recorded as every block's parent.
FirstParentEntry(r) ==
  /\ r.block \notin DOMAIN parents /\ r.block \in Blocks(fn)
  /\ parents' = Insert(parents, r.block, Entry)
  /\ pc' = pc /\ arm' = arm + 1

\* assert_parent succeeds, and assert_tag panics, fails or succeeds.
FirstParent(r) ==
  /\ r.block \notin DOMAIN parents
  /\ parents' = Insert(parents, r.block, cur)
  /\ \/ r.block \notin Blocks(fn) /\ pc' = "panicked" /\ arm' = arm
     \/ /\ r.block \in Blocks(fn) /\ fn.tag[r.block] # r.tag
        /\ pc' = "rejected" /\ arm' = arm
     \/ /\ r.block \in Blocks(fn) /\ fn.tag[r.block] = r.tag
        /\ pc' = pc /\ arm' = arm + 1

ScanRef ==
  /\ Scanning /\ AtRef
  /\ LET r == Refs(fn.body[cur][ip])[arm] IN SecondParent(r) \/ FirstParent(r)
  /\ UNCHANGED <<fn, meta, todo, cur, ip, chaseVars, distances>>

EndInstr ==
  /\ Scanning /\ AtInstr /\ ~AtRef
  /\ ip' = ip + 1 /\ arm' = 1
  /\ UNCHANGED <<fn, meta, pc, todo, cur, parents, chaseVars, distances>>

EndBlock ==
  /\ Scanning /\ ~AtInstr
  /\ cur' = NoBlock
  /\ UNCHANGED <<fn, meta, pc, todo, ip, arm, parents, chaseVars, distances>>

\* Mutant: the test for a parent of the entry block is inverted.
CheckMainInverted ==
  /\ pc = "scan" /\ cur = NoBlock /\ todo = {}
  /\ IF Entry \notin DOMAIN parents
       THEN pc' = "rejected" /\ todo' = todo
       ELSE pc' = "measure" /\ todo' = Blocks(fn)
  /\ UNCHANGED <<fn, meta, scanVars, parents, chaseVars, distances>>

\* Every block is scanned: the entry block must not have got a parent.
CheckMain ==
  /\ pc = "scan" /\ cur = NoBlock /\ todo = {}
  /\ IF Entry \in DOMAIN parents
       THEN pc' = "rejected" /\ todo' = todo
       ELSE pc' = "measure" /\ todo' = Blocks(fn)
  /\ UNCHANGED <<fn, meta, scanVars, parents, chaseVars, distances>>

-----------------------------------------------------------------------------
(* The distance of every block from its innermost loop *)

MeasureOutside(b) ==
  /\ fn.tag[b] \in {"Undefined", "Main"}
  /\ UNCHANGED <<pc, chaseVars, distances>>

MeasureLoop(b) ==
  /\ fn.tag[b] = "Loop"
  /\ distances' = Insert(distances, b, 0)
  /\ UNCHANGED <<pc, chaseVars>>

\* Mutant: the distance of a branch starts at zero, as that of a loop does.
StartChaseAtZero(b) ==
  /\ fn.tag[b] = "IfElse"
  /\ pc' = "chase"
  /\ hop' = b /\ start' = b /\ distance' = 0
  /\ UNCHANGED distances

StartChase(b) ==
  /\ fn.tag[b] = "IfElse"
  /\ pc' = "chase"
  /\ hop' = b /\ start' = b /\ distance' = 1
  /\ UNCHANGED distances

Measure ==
  /\ pc = "measure"
  /\ \E b \in todo :
       /\ todo' = todo \ {b}
       /\ MeasureOutside(b) \/ MeasureLoop(b) \/ StartChase(b)
  /\ UNCHANGED <<fn, meta, scanVars, parents>>

\* block_parents[&current_block] panics on a block nothing refers to.
ChaseOrphan ==
  /\ pc = "chase" /\ hop \notin DOMAIN parents
  /\ pc' = "panicked"
  /\ UNCHANGED <<fn, meta, todo, scanVars, parents, chaseVars, distances>>

ChaseOutside ==
  /\ pc = "chase" /\ hop \in DOMAIN parents
  /\ fn.tag[parents[hop]] \in {"Undefined", "Main"}
  /\ pc' = "measure"
  /\ UNCHANGED <<fn, meta, todo, scanVars, parents, chaseVars, distances>>

\* Mutant: current_block is not updated.
ChaseInPlace ==
  /\ pc = "chase" /\ hop \in DOMAIN parents
  /\ fn.tag[parents[hop]] = "IfElse"
  /\ distance' = IF distance < MaxDistance THEN distance + 1 ELSE distance
  /\ UNCHANGED <<fn, meta, pc, todo, scanVars, parents, hop, start, distances>>

\* The counter stops at MaxDistance; the chase itself goes on.
ChaseUp ==
  /\ pc = "chase" /\ hop \in DOMAIN parents
  /\ fn.tag[parents[hop]] = "IfElse"
  /\ hop' = parents[hop]
  /\ distance' = IF distance < MaxDistance THEN distance + 1 ELSE distance
  /\ UNCHANGED <<fn, meta, pc, todo, scanVars, parents, start, distances>>

ChaseLoop ==
  /\ pc = "chase" /\ hop \in DOMAIN parents
  /\ fn.tag[parents[hop]] = "Loop"
  /\ distances' = Insert(distances, start, distance)
  /\ pc' = "measure"
  /\ UNCHANGED <<fn, meta, todo, scanVars, parents, chaseVars>>

\* Mutant: the distances are not stored.
MutateParents ==
  /\ pc = "measure" /\ todo = {}
  /\ meta' = [meta EXCEPT !.parent = Overlay(parents, @)]
  /\ pc' = "accepted"
  /\ UNCHANGED <<fn, todo, scanVars, parents, chaseVars, distances>>

\* visit_function returns Ok and mutate_function stores what it found.
Mutate ==
  /\ pc = "measure" /\ todo = {}
  /\ meta' = [parent |-> Overlay(parents, meta.parent),
              dist   |-> Overlay(distances, meta.dist)]
  /\ pc' = "accepted"
  /\ UNCHANGED <<fn, todo, scanVars, parents, chaseVars, distances>>

Finished == pc \in Terminal /\ UNCHANGED vars

Chase == ChaseOrphan \/ ChaseOutside \/ ChaseUp \/ ChaseLoop

Next == \/ CheckEntry \/ NextBlock \/ ScanRef \/ EndInstr \/ EndBlock
        \/ CheckMain \/ Measure \/ Chase \/ Mutate \/ Finished

\* The pass is a sequential program: it takes a step whenever it can.
Spec == Init /\ [][Next]_vars /\ WF_vars(Next)

-----------------------------------------------------------------------------
(* Properties *)

\* The variables keep their shapes: maps are keyed by BlockIds, a scan is
\* inside the block it scans and a chase is at a block of the function.
TypeOK ==
  /\ IsFunction(fn)
  /\ pc \in {"entry", "scan", "measure", "chase"} \cup Terminal
  /\ todo \subseteq Blocks(fn)
  /\ cur \in Blocks(fn) \cup {NoBlock}
  /\ ip \in Nat \ {0} /\ arm \in Nat \ {0}
  /\ parents \in [DOMAIN parents -> Blocks(fn)] /\ DOMAIN parents \subseteq Nat
  /\ hop \in Blocks(fn) \cup {NoBlock} /\ start \in Blocks(fn) \cup {NoBlock}
  /\ pc = "chase" => hop # NoBlock /\ start # NoBlock
  /\ distance \in 1 .. MaxDistance
  /\ distances \in [DOMAIN distances -> 0 .. MaxDistance]
  /\ DOMAIN distances \subseteq Blocks(fn)

\* The scan is over and found nothing wrong.
Passed == pc \in {"measure", "chase", "accepted"}

(***************************************************************************)
(* Whatever the order of the blocks, a function that gets past the scan    *)
(* (cf_verify.rs:74-107) is regular: the interleaved checks of parents and *)
(* tags add up to the property of the whole function.                      *)
(***************************************************************************)
PassedIsWellFormed == Passed => WellFormed(fn)

(***************************************************************************)
(* An error is never spurious: no order of the blocks makes the verifier   *)
(* reject a function that another order accepts.                           *)
(***************************************************************************)
RejectedIsIllFormed == pc = "rejected" => ~WellFormed(fn)

(***************************************************************************)
(* After the scan block_parents holds exactly the references of the        *)
(* function, so that a chase that follows it follows real parents.         *)
(***************************************************************************)
ParentsExact == Passed => ParentMap(fn, parents)

(***************************************************************************)
(* The distances of an accepted function, each measured by a chase of its  *)
(* own, agree with one another: a branch is one further from the innermost *)
(* loop than the block it is a branch of, or neither is in a loop.         *)
(***************************************************************************)
DistancesAgree == pc = "accepted" => LoopDistances(fn, meta.dist)

(***************************************************************************)
(* The pass ends on every function without a cycle of IfElse blocks.       *)
(***************************************************************************)
EndsWithoutKnots == ~Knotted(fn) ~> pc \in Terminal

(***************************************************************************)
(* The pass ends on every function it is given.  This is not so: see the   *)
(* run on AllKnots of MCCFVerifier.                                        *)
(***************************************************************************)
AlwaysEnds == <>(pc \in Terminal)

\* The pass implements the one-step contract of ControlFlowContract.
Contract == INSTANCE ControlFlowContract
              WITH verdict <- IF pc \in Terminal THEN pc ELSE "none"

RefinesContract == Contract!Spec
=============================================================================
