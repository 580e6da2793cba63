---------------------------- MODULE InstrRewrite ----------------------------
(***************************************************************************)
(* The optimisation of one block: PeepholeOpt collects replacements while  *)
(* it scans the instructions, and InstrRewritePass, which other callers    *)
(* may use too, applies replacements to a block one after the other.       *)
(*                                                                         *)
(* A change replaces the range from .. to - 1 of instructions, numbered    *)
(* from 0 as in the code, by the sequence new.                             *)
(***************************************************************************)
EXTENDS IR, SequencesExt

CONSTANTS
  Bodies,   \* the bodies of blocks
  Requests  \* blocks with the lists of changes that callers other than
            \* PeepholeOpt may ask for

\* Bodies are sequences, indices are unsigned, and the two instructions that
\* PeepholeOpt looks for have the operands they have in InstrK.
ASSUME BodyAssumption ==
  \A b \in Bodies :
    /\ b \in Seq(ToSet(b))
    /\ \A n \in 1 .. Len(b) :
         /\ b[n].op = "LdGlobalFunc" => b[n] = OpNamed("LdGlobalFunc", b[n].name)
         /\ b[n].op = "CallIndirect" => b[n] = Op("CallIndirect")
ASSUME RequestAssumption ==
  \A r \in Requests :
    /\ r.body \in Seq(ToSet(r.body)) /\ Len(r.changes) \in Nat
    /\ \A n \in 1 .. Len(r.changes) :
         LET c == r.changes[n] IN c.from \in Nat /\ c.to \in Nat /\ c.new \in Seq(ToSet(c.new))

VARIABLES
  original,  \* the block before the passes
  asked,     \* whether the changes come from another caller
  pc,        \* "scan", "new", "splice", or how it ended
  i,         \* the instruction PeepholeOpt is at
  changes,   \* this_block_replacements, then the modifications of the block
  next,      \* the change to be applied next
  body       \* the block

vars == <<original, asked, pc, i, changes, next, body>>

Change(from, to, new) == [from |-> from, to |-> to, new |-> new]

Init ==
  /\ i = 0 /\ next = 1
  /\ \/ /\ asked = FALSE /\ pc = "scan"
        /\ original \in Bodies /\ changes = << >>
     \/ /\ asked = TRUE /\ pc = "new"
        /\ \E r \in Requests : original = r.body /\ changes = r.changes
  /\ body = original

Terminal == {"done", "refused", "panicked"}

-----------------------------------------------------------------------------
(* PeepholeOpt *)

\* Mutant: whatever follows a LdGlobalFunc is taken for its call.
MatchesAny(i1, i2) == i1.op = "LdGlobalFunc"

\* replace_2; replace_3 has no pattern.
Matches(i1, i2) == i1.op = "LdGlobalFunc" /\ i2.op = "CallIndirect"

Replacement(i1) == << OpNamed("CallDirect", i1.name) >>

\* Mutant: the range ends before the second instruction.
RangeShort(from) == Change(from, from + 1, Replacement(body[from + 1]))

Range2(from) == Change(from, from + 2, Replacement(body[from + 1]))

Scan ==
  /\ pc = "scan" /\ i < Len(body)
  /\ i' = i + 1
  /\ changes' = IF i + 1 < Len(body) /\ Matches(body[i + 1], body[i + 2])
                  THEN Append(changes, Range2(i))
                  ELSE changes
  /\ UNCHANGED <<original, asked, pc, next, body>>

EndScan ==
  /\ pc = "scan" /\ i = Len(body)
  /\ pc' = "new"
  /\ UNCHANGED <<original, asked, i, changes, next, body>>

-----------------------------------------------------------------------------
(* InstrRewritePass::new *)

Indices(c) == c.from .. c.to - 1

\* Mutant: the set holds the indices of the change before only.
TwiceInARow(cs) ==
  \E n \in 2 .. Len(cs) : Indices(cs[n - 1]) \cap Indices(cs[n]) # {}

\* Some index is inserted into the bit set a second time.
InsertedTwice(cs) ==
  \E n \in 1 .. Len(cs) :
    Indices(cs[n]) \cap UNION { Indices(cs[k]) : k \in 1 .. n - 1 } # {}

\* sort_by is stable: changes with the same start keep their order.
ComesBefore(cs, j, k) ==
  cs[j].from > cs[k].from \/ (cs[j].from = cs[k].from /\ j < k)

\* Where the sort puts change k: behind all that come before it.
Place(cs, k) == Cardinality({ j \in 1 .. Len(cs) : ComesBefore(cs, j, k) }) + 1

\* Mutant: the first range comes first.
SortedForwards(cs) ==
  [n \in 1 .. Len(cs) |-> cs[CHOOSE k \in 1 .. Len(cs) : Place(cs, k) = Len(cs) + 1 - n]]

Sorted(cs) ==
  [n \in 1 .. Len(cs) |-> cs[CHOOSE k \in 1 .. Len(cs) : Place(cs, k) = n]]

New ==
  /\ pc = "new"
  /\ \/ InsertedTwice(changes) /\ pc' = "refused" /\ changes' = changes
     \/ ~InsertedTwice(changes) /\ pc' = "splice" /\ changes' = Sorted(changes)
  /\ UNCHANGED <<original, asked, i, next, body>>

-----------------------------------------------------------------------------
(* InstrRewritePass::mutate_function *)

\* The test of the end, then those of Vec::splice.
OutOfBounds(c) == c.to > Len(body) \/ c.from > c.to

Splice ==
  /\ pc = "splice" /\ next <= Len(changes)
  /\ LET c == changes[next] IN
     \/ /\ OutOfBounds(c)
        /\ pc' = "panicked" /\ UNCHANGED <<next, body>>
     \/ /\ ~OutOfBounds(c)
        /\ body' = SubSeq(body, 1, c.from) \o c.new \o SubSeq(body, c.to + 1, Len(body))
        /\ next' = next + 1 /\ pc' = pc
  /\ UNCHANGED <<original, asked, i, changes>>

EndSplice ==
  /\ pc = "splice" /\ next > Len(changes)
  /\ pc' = "done"
  /\ UNCHANGED <<original, asked, i, changes, next, body>>

Finished == pc \in Terminal /\ UNCHANGED vars

Next == Scan \/ EndScan \/ New \/ Splice \/ EndSplice \/ Finished

Spec == Init /\ [][Next]_vars

-----------------------------------------------------------------------------
(* Properties *)

(***************************************************************************)
(* What instruction n of a block b becomes when the first k of the changes *)
(* cs are made at once: what is inserted before it, the insertion asked    *)
(* for last in front, then the replacement of the range that starts there, *)
(* and itself unless it is in a range. Behind the last instruction         *)
(* something may be inserted, too.                                         *)
(***************************************************************************)
InsertedAt(cs, n, k) ==
  FlattenSeq([j \in 1 .. k |->
    IF cs[k + 1 - j].from = n /\ cs[k + 1 - j].to = n THEN cs[k + 1 - j].new ELSE << >>])

PutAt(cs, n, k) ==
  FlattenSeq([j \in 1 .. k |-> IF cs[j].from = n /\ cs[j].to > n THEN cs[j].new ELSE << >>])

KeptAt(b, cs, n, k) ==
  IF n = Len(b) \/ \E j \in 1 .. k : n \in Indices(cs[j]) THEN << >> ELSE << b[n + 1] >>

Becomes(b, cs, n, k) == (InsertedAt(cs, n, k) \o PutAt(cs, n, k)) \o KeptAt(b, cs, n, k)

ReplacedAtOnce(b, cs, k) == FlattenSeq([n \in 1 .. Len(b) + 1 |-> Becomes(b, cs, n - 1, k)])

\* Something inserted inside of a range, or where the range starts and asked
\* for before it, which sorts as equal, is there when the range is replaced, and
\* replaced instead of what the range was: new() refuses overlapping ranges, but
\* an insertion has no index that it could find in its bit set.
Overwrites(cs, k, j) ==
  /\ cs[j].from = cs[j].to /\ cs[j].new # << >>
  /\ cs[j].from < cs[k].to
  /\ cs[k].from < cs[j].from \/ (cs[k].from = cs[j].from /\ j < k)

Overwritten(cs) == \E j, k \in 1 .. Len(cs) : Overwrites(cs, k, j)

\* Applying the changes one after the other, in the order of new(), is making
\* them all at once: none moves the range of a later one.  It is so after
\* every change, unless an insertion is overwritten.
ReplacesAtOnce ==
  pc \in {"splice", "done"} /\ ~Overwritten(changes) =>
    body = ReplacedAtOnce(original, changes, next - 1)

\* Changes that are applied replace each instruction at most once: of two that
\* replace something, one ends where the other starts or before.
NoneReplacedTwice ==
  pc \in {"splice", "done"} =>
    \A j, k \in { n \in 1 .. Len(changes) : changes[n].from < changes[n].to } :
      j # k => changes[j].to <= changes[k].from \/ changes[k].to <= changes[j].from

\* The changes of PeepholeOpt are never refused and never out of bounds:
\* nothing makes the unwraps of the pipeline panic.
PeepholeIsApplied == ~asked => pc \notin {"refused", "panicked"}

\* A direct call is the load of a function pointer and a call through it.
Expanded(b) ==
  FlattenSeq([n \in 1 .. Len(b) |->
     IF b[n].op = "CallDirect"
       THEN << OpNamed("LdGlobalFunc", b[n].name), Op("CallIndirect") >>
       ELSE << b[n] >>])

\* After PeepholeOpt the block makes the calls it made before, with the other
\* instructions in their places, and no call is left to be made direct.
PeepholeKeepsCalls ==
  (~asked /\ pc = "done") =>
    /\ Expanded(body) = Expanded(original)
    /\ \A n \in 1 .. Len(body) - 1 : ~Matches(body[n], body[n + 1])
=============================================================================
