--------------------------- MODULE MCStaticMemory ---------------------------
(***************************************************************************)
(* Values of every kind and size, structs that need padding in and between *)
(* them, and pointers to items before, behind and beyond the item.         *)
(***************************************************************************)
EXTENDS StaticMemory

\* Numbers whose bytes are all different.
N16 == 513         \* 0x0201
N32 == 67305985    \* 0x04030201

Small == { IntVal(Int8, 200), IntVal(UInt16, N16), FloatVal(N32), PtrTo(1), PtrTo(3),
           Blob(<< >>), Blob(<<5, 6, 7>>) }

\* { Int8, Int16 } inside of { Int8, ... , Int32 } and others.
Nested ==
  { StructVal(<< IntVal(Int8, 9), v >>) : v \in Small }
  \cup { StructVal(<< StructVal(<< IntVal(Int32, N32), IntVal(UInt8, 255) >>), PtrTo(2) >>),
         StructVal(<< IntVal(UInt8, 1), StructVal(<< IntVal(Int16, N16), Blob(<<4>>) >>), IntVal(UInt32, N32) >>),
         StructVal(<< IntVal(Int32, N32), StructVal(<< >>), IntVal(Int8, 3) >>) }

RECURSIVE Within(_), Deep(_), DeepType(_)

\* The values in a value, those in them, and so on.
Within(v) == {v} \cup UNION { Within(FieldsOf(v)[n]) : n \in 1 .. Len(FieldsOf(v)) }

Deep(v)      == IF FieldsOf(v) = << >> THEN 0 ELSE 1 + Max({ Deep(FieldsOf(v)[n]) : n \in 1 .. Len(FieldsOf(v)) })
DeepType(ty) == IF ~IsStruct(ty) \/ ty.fields = << >> THEN 0
                ELSE 1 + Max({ DeepType(ty.fields[n]) : n \in 1 .. Len(ty.fields) })

AllValues == Small \cup Nested

AllParts == UNION { Within(v) : v \in AllValues \cup {Nowhere.at} }
AllTypes == { TypeOf(v) : v \in AllParts } \cup Scalars
AllDepths   == [v \in AllParts |-> Deep(v)]
AllNestings == [ty \in AllTypes |-> DeepType(ty)]
=============================================================================
