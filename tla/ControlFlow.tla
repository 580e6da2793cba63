---------------------------- MODULE ControlFlow -----------------------------
(***************************************************************************)
(* What it means for the control flow of a function to be regular, stated  *)
(* over the whole function at once and independent of any order in which   *)
(* blocks are visited.  This is the reference the control-flow verifier is *)
(* compared with, and what the passes after it may rely on.                *)
(***************************************************************************)
EXTENDS IR

\* The shape every value of type Function has.
IsFunction(f) ==
  /\ Blocks(f) \subseteq Nat
  /\ Entry \in Blocks(f)
  /\ f.tag \in [Blocks(f) -> Tags]
  /\ DOMAIN f.body = Blocks(f)
  /\ \A b \in Blocks(f) :
       /\ Len(f.body[b]) \in Nat
       /\ \A n \in 1 .. Len(f.body[b]) :
            /\ Len(Refs(f.body[b][n])) \in Nat
            /\ \A a \in 1 .. Len(Refs(f.body[b][n])) :
                 /\ Refs(f.body[b][n])[a].block \in Nat
                 /\ Refs(f.body[b][n])[a].tag \in Tags

\* Nothing follows a diverging instruction, as CorrectionPass leaves blocks.
Corrected(f) ==
  \A b \in Blocks(f) : \A n \in 1 .. Len(f.body[b]) - 1 : ~IsDiverging(f.body[b][n])

\* The entry block has the tag Main.
EntryIsMain(f) == f.tag[Entry] = "Main"

\* Every reference names a block of the function, of the tag its role needs.
RefsResolve(f) ==
  \A p \in Positions(f) : LET r == RefAt(f, p) IN
    r.block \in Blocks(f) /\ f.tag[r.block] = r.tag

\* No block is referred to from two places.
SingleUse(f) ==
  \A p, q \in Positions(f) : RefAt(f, p).block = RefAt(f, q).block => p = q

\* Nothing refers to the entry block.
EntryUnused(f) == \A p \in Positions(f) : RefAt(f, p).block # Entry

WellFormed(f) ==
  EntryIsMain(f) /\ RefsResolve(f) /\ SingleUse(f) /\ EntryUnused(f)

\* b is the parent of c: an instruction of b refers to c.
IsParent(f, b, c) ==
  \E p \in Positions(f) : p.block = b /\ RefAt(f, p).block = c

Orphan(f, c) == \A b \in Blocks(f) : ~IsParent(f, b, c)

Dangling(f) == \E p \in Positions(f) : RefAt(f, p).block \notin Blocks(f)

OfTag(f, t) == { b \in Blocks(f) : f.tag[b] = t }

\* A set of IfElse blocks whose parents are all in the set: a cycle.
Knot(f, S) ==
  /\ S # {}
  /\ \A c \in S : \E b \in S : IsParent(f, b, c)

Knotted(f) == \E S \in SUBSET OfTag(f, "IfElse") : Knot(f, S)

(***************************************************************************)
(* d gives every block inside a loop its distance from the innermost one,  *)
(* counted in branches of IfElse instructions; blocks outside of loops are *)
(* not in its domain.  The equations are local to a block and its parent.  *)
(***************************************************************************)
LoopDistances(f, d) ==
  /\ DOMAIN d \subseteq OfTag(f, "IfElse") \cup OfTag(f, "Loop")
  /\ \A b \in OfTag(f, "Loop") : b \in DOMAIN d /\ d[b] = 0
  /\ \A c \in OfTag(f, "IfElse"), b \in Blocks(f) :
       IsParent(f, b, c) => /\ c \in DOMAIN d <=> b \in DOMAIN d
                            /\ c \in DOMAIN d => d[c] = d[b] + 1

\* The distances of a regular function, computed from the blocks' parents.
InnermostLoops(f) ==
  LET parent(c) == CHOOSE b \in Blocks(f) : IsParent(f, b, c)
      d[b \in Blocks(f)] ==
        IF f.tag[b] = "Loop" THEN 0
        ELSE IF f.tag[b] # "IfElse" \/ Orphan(f, b) \/ d[parent(b)] = -1 THEN -1
        ELSE d[parent(b)] + 1
  IN  [b \in { b \in Blocks(f) : d[b] # -1 } |-> d[b]]

\* m maps every block that is referred to, and no other, to its parent.
ParentMap(f, m) ==
  /\ DOMAIN m = { RefAt(f, p).block : p \in Positions(f) }
  /\ \A c \in DOMAIN m : IsParent(f, m[c], c)
=============================================================================
