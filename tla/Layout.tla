------------------------------- MODULE Layout -------------------------------
(***************************************************************************)
(* Sizes, alignments and field offsets of types: Wasm32Abi and its         *)
(* struct_calc_algorithm, abi.rs.  An alignment is an exponent of two.     *)
(***************************************************************************)
EXTENDS IR, SequencesExt

CONSTANTS
  Types,    \* the types there are
  Nesting   \* how deep structs are in a type

\* The fields of a struct are types, too, and were there before it.
ASSUME TypesAssumption ==
  /\ Nesting \in [Types -> Nat]
  /\ \A ty \in Types : IsStruct(ty) =>
       /\ ty.fields \in Seq(Types)
       /\ \A n \in 1 .. Len(ty.fields) : Nesting[ty.fields[n]] < Nesting[ty]

-----------------------------------------------------------------------------
(* Alignments *)

\* A struct is aligned as the field with the greatest alignment is.
alignment[ty \in Types] ==
  CASE IsStruct(ty)           -> Max({0} \cup { alignment[ty.fields[n]] : n \in 1 .. Len(ty.fields) })
    [] ty \in {Int8, UInt8}   -> 0
    [] ty \in {Int16, UInt16} -> 1
    [] OTHER                  -> 2

\* Mutant: a struct is aligned as its last field is.
AlignmentOfLast(ty) ==
  IF IsStruct(ty) /\ ty.fields # << >> THEN alignment[Last(ty.fields)] ELSE alignment[ty]

AlignmentOf(ty) == alignment[ty]

\* The alignments of fields, in bytes.
FieldAlignments(fields) == [n \in 1 .. Len(fields) |-> 2 ^ AlignmentOf(fields[n])]

-----------------------------------------------------------------------------
(* Sizes *)

\* The least multiple of a that is at least n.
AlignUp(n, a) == ((n + a - 1) \div a) * a

(***************************************************************************)
(* struct_calc_algorithm: where the first n of some fields end.  Every     *)
(* field starts at the first aligned offset behind the one before it, and  *)
(* there is no padding behind the last.                                    *)
(***************************************************************************)
Ends(aligns, sizes) ==
  LET end[n \in 0 .. Len(sizes)] ==
        IF n = 0 THEN 0 ELSE AlignUp(end[n - 1], aligns[n]) + sizes[n]
  IN  end

size[ty \in Types] ==
  CASE IsStruct(ty)           ->
         Ends(FieldAlignments(ty.fields), [n \in 1 .. Len(ty.fields) |-> size[ty.fields[n]]])[Len(ty.fields)]
    [] ty \in {Int8, UInt8}   -> 1
    [] ty \in {Int16, UInt16} -> 2
    [] OTHER                  -> 4

SizeOf(ty) == size[ty]

\* struct_field_offset; fields are counted from 1 here.
FieldOffset(fields, n) ==
  AlignUp(Ends(FieldAlignments(fields), [k \in 1 .. Len(fields) |-> SizeOf(fields[k])])[n - 1],
          2 ^ AlignmentOf(fields[n]))
=============================================================================
