---------------------------- MODULE StaticMemory ----------------------------
(***************************************************************************)
(* Static memory, staticmem.rs: a client adds items, compile() gives every *)
(* item an address and writes its value there, and a compiled program      *)
(* walks what was written: it loads the address of an item                 *)
(* (LdStaticMemPtr), goes to the fields of a struct (GetFieldPtr) and      *)
(* follows pointers (Read).                                                *)
(*                                                                         *)
(* A value is a record whose field k is the constructor of SMValue.  An    *)
(* item reference is an index into the items, counted from 1.  Addresses   *)
(* count from 0, positions in buf from 1.                                  *)
(***************************************************************************)
EXTENDS Layout

CONSTANTS
  Parts,     \* the values there are
  Depth,     \* how deep values are in a value
  Values,    \* those a client may make items of
  MaxItems   \* at most so many items are added

VARIABLES
  items,      \* StaticMemory.items: the values of the items
  pc,         \* "build", "place", "write", "done" or "panicked"
  addresses,  \* the addresses of the items placed so far
  curr,       \* curr_address
  todo,       \* the active calls of write_to_memory: what is left to be written
  buf,        \* the compiled memory
  walk        \* where the program is: at the address ptr, to find the value at

vars == <<items, pc, addresses, curr, todo, buf, walk>>

-----------------------------------------------------------------------------
(* Values *)

IntVal(ty, val) == [k |-> ty.k, ty |-> ty, val |-> val]  \* Int8, Int16, Int32 and signs
FloatVal(bits)  == [k |-> "Float32", ty |-> Float32, val |-> bits]
StructVal(vs)   == [k |-> "Struct", fields |-> vs]
Blob(bytes)     == [k |-> "Blob", bytes |-> bytes]
PtrTo(ref)      == [k |-> "PtrTo", ref |-> ref]

\* The values a struct's or a blob's fields have.
FieldsOf(v) ==
  CASE v.k = "Struct" -> v.fields
    [] v.k = "Blob"   -> [n \in 1 .. Len(v.bytes) |-> IntVal(UInt8, v.bytes[n])]
    [] OTHER          -> << >>

Scalars == {Int8, UInt8, Int16, UInt16, Int32, UInt32, Float32}

\* SMValue: a struct and a blob have values in them, and an integer or a float
\* is as wide as its type.
ASSUME ValuesAssumption ==
  /\ Values \cup {Blob(<< >>)} \subseteq Parts /\ Depth \in [Parts -> Nat]
  /\ Scalars \cup {Ptr} \subseteq Types
  /\ \A v \in Parts :
       /\ FieldsOf(v) \in Seq(Parts)
       /\ \A n \in 1 .. Len(FieldsOf(v)) : Depth[FieldsOf(v)[n]] < Depth[v]
       /\ v.k = "Blob" => v.bytes \in Seq(0 .. 255)
       /\ v.k \notin {"Struct", "Blob", "PtrTo"} =>
            v.ty \in Scalars /\ v.val \in Nat /\ v.val \div 256 ^ (SizeOf(v.ty) - 1) < 256

\* get_item_type: a blob is a struct of bytes.
type[v \in Parts] ==
  CASE v.k \in {"Struct", "Blob"} -> Struct([n \in 1 .. Len(FieldsOf(v)) |-> type[FieldsOf(v)[n]]])
    [] v.k = "PtrTo" -> Ptr
    [] OTHER         -> v.ty

TypeOf(v) == type[v]

\* intern_type makes every type that is asked for.
ASSUME TypesOfValues == \A v \in Parts : TypeOf(v) \in Types

FieldTypes(v) == TypeOf(v).fields

\* Mutant: the most significant byte comes first.
LeBytesReversed(n, width) == [i \in 1 .. width |-> (n \div (256 ^ (width - i))) % 256]

\* to_le_bytes
LeBytes(n, width) == [i \in 1 .. width |-> (n \div (256 ^ (i - 1))) % 256]

\* Cursor::write_all at position pos: a write past the end grows the buffer.
WriteAll(pos, bytes) ==
  LET end == pos + Len(bytes) IN
  [i \in 1 .. Max({Len(buf), end}) |->
     CASE i > pos /\ i <= end -> bytes[i - pos]
       [] i <= Len(buf) /\ ~(i > pos /\ i <= end) -> buf[i]
       [] OTHER -> 0]

-----------------------------------------------------------------------------
(* Actions *)

Nowhere == [ptr |-> 0, at |-> Blob(<< >>)]

Init ==
  /\ items = << >> /\ pc = "build"
  /\ addresses = << >> /\ curr = 0 /\ todo = << >> /\ buf = << >>
  /\ walk = Nowhere

\* add_static_mem_item.  References are plain numbers: v may hold one of an
\* item of another module, which is an index into these items all the same.
AddItem(v) ==
  /\ pc = "build" /\ Len(items) < MaxItems
  /\ items' = Append(items, v)
  /\ UNCHANGED <<pc, addresses, curr, todo, buf, walk>>

\* compile_static_memory: without items there is no memory to compile.
StartCompile ==
  /\ pc = "build"
  /\ pc' = IF items = << >> THEN "done" ELSE "place"
  /\ curr' = IF items = << >> THEN 0 ELSE 8
  /\ UNCHANGED <<items, addresses, todo, buf, walk>>

\* Mutant: the exponent is used where the alignment in bytes is meant.
PlaceItemUnaligned ==
  /\ pc = "place" /\ Len(addresses) < Len(items)
  /\ LET ty == TypeOf(items[Len(addresses) + 1]) IN
       /\ addresses' = Append(addresses, AlignUp(curr, Max({1, AlignmentOf(ty)})))
       /\ curr' = AlignUp(curr, Max({1, AlignmentOf(ty)})) + SizeOf(ty)
  /\ UNCHANGED <<items, pc, todo, buf, walk>>

PlaceItem ==
  /\ pc = "place" /\ Len(addresses) < Len(items)
  /\ LET ty    == TypeOf(items[Len(addresses) + 1])
         start == AlignUp(curr, 2 ^ AlignmentOf(ty)) IN
       /\ addresses' = Append(addresses, start)
       /\ curr' = start + SizeOf(ty)
  /\ UNCHANGED <<items, pc, todo, buf, walk>>

At(pos, v) == [pos |-> pos, value |-> v]

\* Mutant: the buffer does not count the first, unused addresses.
ZeroShort ==
  /\ pc = "place" /\ Len(addresses) = Len(items)
  /\ buf' = [i \in 1 .. curr - 8 |-> 0]
  /\ todo' = [n \in 1 .. Len(items) |-> At(addresses[n], items[n])]
  /\ pc' = "write"
  /\ UNCHANGED <<items, addresses, curr, walk>>

\* The buffer of zeros, and the items to be written into it one by one.
Zero ==
  /\ pc = "place" /\ Len(addresses) = Len(items)
  /\ buf' = [i \in 1 .. curr |-> 0]
  /\ todo' = [n \in 1 .. Len(items) |-> At(addresses[n], items[n])]
  /\ pc' = "write"
  /\ UNCHANGED <<items, addresses, curr, walk>>

AtValue(kinds) == pc = "write" /\ todo # << >> /\ Head(todo).value.k \in kinds

\* The fields of a struct, each where it is supposed to be.
WriteStruct ==
  /\ AtValue({"Struct"})
  /\ LET v == Head(todo).value IN
     todo' = [n \in 1 .. Len(v.fields) |->
                At(Head(todo).pos + FieldOffset(FieldTypes(v), n), v.fields[n])]
             \o Tail(todo)
  /\ UNCHANGED <<items, pc, addresses, curr, buf, walk>>

\* An integer or a float in as many bytes as its type has, or a blob.
WriteScalar ==
  /\ pc = "write" /\ todo # << >> /\ ~AtValue({"Struct", "PtrTo"})
  /\ LET v == Head(todo).value IN
     buf' = WriteAll(Head(todo).pos,
                     IF v.k = "Blob" THEN v.bytes ELSE LeBytes(v.val, SizeOf(v.ty)))
  /\ todo' = Tail(todo)
  /\ UNCHANGED <<items, pc, addresses, curr, walk>>

\* Mutant: an item may only refer to the items that are written already.
WritePointerBackwards ==
  /\ AtValue({"PtrTo"})
  /\ LET ref == Head(todo).value.ref IN
     IF ref \in DOMAIN addresses /\ addresses[ref] < Head(todo).pos
       THEN buf' = WriteAll(Head(todo).pos, LeBytes(addresses[ref], 4)) /\ todo' = Tail(todo) /\ pc' = pc
       ELSE pc' = "panicked" /\ UNCHANGED <<buf, todo>>
  /\ UNCHANGED <<items, addresses, curr, walk>>

\* addresses[item_ref] panics for a reference to no item.
WritePointer ==
  /\ AtValue({"PtrTo"})
  /\ LET ref == Head(todo).value.ref IN
     IF ref \in DOMAIN addresses
       THEN buf' = WriteAll(Head(todo).pos, LeBytes(addresses[ref], 4)) /\ todo' = Tail(todo) /\ pc' = pc
       ELSE pc' = "panicked" /\ UNCHANGED <<buf, todo>>
  /\ UNCHANGED <<items, addresses, curr, walk>>

EndCompile ==
  /\ pc = "write" /\ todo = << >>
  /\ pc' = "done"
  /\ UNCHANGED <<items, addresses, curr, todo, buf, walk>>

-----------------------------------------------------------------------------
(* The compiled program *)

\* LdStaticMemPtr: the emitter panics for a reference to no item.
LoadAddress(ref) ==
  /\ pc = "done"
  /\ IF ref \in DOMAIN addresses
       THEN walk' = [ptr |-> addresses[ref], at |-> items[ref]] /\ pc' = pc
       ELSE pc' = "panicked" /\ walk' = walk
  /\ UNCHANGED <<items, addresses, curr, todo, buf>>

\* GetFieldPtr with the type of the value at hand.
GoToField(n) ==
  /\ pc = "done" /\ n \in 1 .. Len(FieldsOf(walk.at))
  /\ walk' = [ptr |-> walk.ptr + FieldOffset(FieldTypes(walk.at), n),
              at  |-> FieldsOf(walk.at)[n]]
  /\ UNCHANGED <<items, pc, addresses, curr, todo, buf>>

\* What a Read of a value of so many bytes finds at address a.
Fetch(a, width) == [i \in 1 .. width |-> buf[a + i]]

FromBytes(bytes) ==
  LET value[n \in 0 .. Len(bytes)] ==
        IF n = 0 THEN 0 ELSE value[n - 1] + bytes[n] * 256 ^ (n - 1)
  IN  value[Len(bytes)]

\* Read of a pointer: the program goes where the pointer says.
Follow ==
  /\ pc = "done" /\ walk.at.k = "PtrTo"
  /\ walk' = [ptr |-> FromBytes(Fetch(walk.ptr, 4)), at |-> items[walk.at.ref]]
  /\ UNCHANGED <<items, pc, addresses, curr, todo, buf>>

Stopped == pc \in {"done", "panicked"} /\ UNCHANGED vars

Next ==
  \/ \E v \in Values : AddItem(v)
  \/ StartCompile \/ PlaceItem \/ Zero
  \/ WriteStruct \/ WriteScalar \/ WritePointer \/ EndCompile
  \/ \E ref \in 1 .. MaxItems : LoadAddress(ref)
  \/ \E n \in 1 .. Len(FieldsOf(walk.at)) : GoToField(n)
  \/ Follow \/ Stopped

\* Building, compiling and running are sequential.
Spec == Init /\ [][Next]_vars

-----------------------------------------------------------------------------
(* Properties *)

\* The addresses of the items are those of an allocator that only knows sizes
\* and alignments.
ItemSize      == [v \in Values |-> SizeOf(TypeOf(v))]
ItemAlignment == [v \in Values |-> 2 ^ AlignmentOf(TypeOf(v))]

Placed == [n \in 1 .. Len(addresses) |->
             [addr  |-> addresses[n],
              size  |-> ItemSize[items[n]],
              align |-> ItemAlignment[items[n]]]]

Promise == INSTANCE Placement
             WITH placed <- Placed, Sizes <- Range(ItemSize), Alignments <- Range(ItemAlignment)

(***************************************************************************)
(* compile() places its items as Placement says, which makes their         *)
(* addresses aligned, apart from one another and never null.               *)
(***************************************************************************)
RefinesPlacement == Promise!Spec

(***************************************************************************)
(* Wherever the program walks, it finds the value it is looking for: the   *)
(* offsets that the writer adds up field by field, those of GetFieldPtr,   *)
(* the bytes of a blob taken for fields, and the addresses in pointers all *)
(* agree.                                                                  *)
(***************************************************************************)
WalkFindsItsValue ==
  LET v == walk.at IN
  pc = "done" /\ walk # Nowhere =>
    CASE v.k = "PtrTo"              -> Fetch(walk.ptr, 4) = LeBytes(addresses[v.ref], 4)
      [] v.k \in {"Struct", "Blob"} -> TRUE
      [] OTHER                      -> FromBytes(Fetch(walk.ptr, SizeOf(v.ty))) = v.val

\* Every access on the way is aligned as the code of Read and Write says: the
\* alignment of a struct is enough for the fields of structs inside of it.
WalkIsAligned ==
  pc = "done" => walk.ptr % (2 ^ AlignmentOf(TypeOf(walk.at))) = 0

(***************************************************************************)
(* The writer stays within the buffer that was laid out before, and writes *)
(* nothing but the items: what is in front of and between them stays zero. *)
(***************************************************************************)
FillsItsBuffer ==
  pc \in {"write", "done"} =>
    /\ Len(buf) = curr
    /\ \A i \in 1 .. Len(buf) :
         (\A n \in 1 .. Len(items) :
            i \notin addresses[n] + 1 .. addresses[n] + ItemSize[items[n]])
         => buf[i] = 0

\* The references in a value.
refs[v \in Parts] ==
  CASE v.k = "Struct" -> UNION { refs[v.fields[n]] : n \in 1 .. Len(v.fields) }
    [] v.k = "PtrTo"  -> {v.ref}
    [] OTHER          -> {}

RefsIn(v) == refs[v]

\* compile() goes through for items in any order, pointers to later items and
\* to the item itself included, and panics only for a pointer to no item.
DanglingOnly ==
  [][pc = "write" /\ pc' # pc =>
       (pc' = "done" <=> \A n \in 1 .. Len(items) : RefsIn(items[n]) \subseteq 1 .. Len(items))]_vars

=============================================================================
