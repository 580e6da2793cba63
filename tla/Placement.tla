------------------------------ MODULE Placement -----------------------------
(***************************************************************************)
(* What the addresses of static memory items promise, whatever the items   *)
(* are: items are placed one after the other, each at an aligned address   *)
(* behind everything placed so far, and none at the null address.          *)
(***************************************************************************)
EXTENDS Integers, Sequences

CONSTANTS Sizes, Alignments   \* in bytes

\* An alignment is a positive number; an item may have no bytes at all.
PlacementAssumption == Sizes \subseteq Nat /\ Alignments \subseteq Nat \ {0}

VARIABLE placed   \* the items placed, each with its address, size and alignment

FirstAddress == 8

\* The first address behind the items placed.
End == IF placed = << >> THEN FirstAddress
       ELSE placed[Len(placed)].addr + placed[Len(placed)].size

Init == placed = << >>

Place(size, align) ==
  \E addr \in End .. End + align - 1 :
    /\ addr % align = 0
    /\ placed' = Append(placed, [addr |-> addr, size |-> size, align |-> align])

Next == \E size \in Sizes, align \in Alignments : Place(size, align)

Spec == Init /\ [][Next]_placed

-----------------------------------------------------------------------------
(* Properties *)

Items == [addr : Nat, size : Sizes, align : Alignments]

TypeOK == placed \in Seq(Items)

\* An item is behind every item placed before it.
Ordered ==
  \A j, k \in 1 .. Len(placed) : j < k => placed[j].addr + placed[j].size <= placed[k].addr

\* Every address is a multiple of the alignment asked for, and not null.
Aligned ==
  \A k \in 1 .. Len(placed) :
    placed[k].addr % placed[k].align = 0 /\ placed[k].addr >= FirstAddress
=============================================================================
