--------------------------------- MODULE IR ---------------------------------
(***************************************************************************)
(* The data every pass of swarm-ir works on: types, instructions, blocks   *)
(* and functions.                                                          *)
(*                                                                         *)
(* A type is a record whose field k is the constructor of Type; two types  *)
(* are the same interned Ty exactly when the records are equal.  An        *)
(* instruction is a record whose field op is the constructor of InstrK and *)
(* whose other fields are its operands.  A BlockId is a natural number and *)
(* the entry block has number 0.  Names are strings.                       *)
(***************************************************************************)
EXTENDS Integers, Sequences

-----------------------------------------------------------------------------
(* Types *)

Int8    == [k |-> "Int8"]
UInt8   == [k |-> "UInt8"]
Int16   == [k |-> "Int16"]
UInt16  == [k |-> "UInt16"]
Int32   == [k |-> "Int32"]
UInt32  == [k |-> "UInt32"]
Float32 == [k |-> "Float32"]
Ptr     == [k |-> "Ptr"]
Func(args, ret) == [k |-> "Func", args |-> args, ret |-> ret]
Struct(fields)  == [k |-> "Struct", fields |-> fields]

IsInt(t)    == t \in {Int8, UInt8, Int16, UInt16, Int32, UInt32}
IsFloat(t)  == t.k = "Float32"
IsFunc(t)   == t.k = "Func"
IsPtr(t)    == t.k = "Ptr"
IsStruct(t) == t.k = "Struct"

-----------------------------------------------------------------------------
(* Blocks and the instructions that refer to them *)

Entry   == 0       \* BlockId::entry_block_id()
NoBlock == -1      \* an absent else block, or no block at hand

Tags == {"Undefined", "Main", "IfElse", "Loop"}

Op(name)    == [op |-> name]
LdInt(val, ty)       == [op |-> "LdInt", val |-> val, ty |-> ty]
OpOn(name, ty)       == [op |-> name, ty |-> ty]        \* Read, Write, Bitcast, ...
OpNamed(name, n)     == [op |-> name, name |-> n]       \* calls and globals
OpLocal(name, idx)   == [op |-> name, idx |-> idx]
GetFieldPtr(ty, idx) == [op |-> "GetFieldPtr", ty |-> ty, idx |-> idx]
If(then)    == [op |-> "IfElse", then |-> then, else |-> NoBlock]
IfElse(then, else) == [op |-> "IfElse", then |-> then, else |-> else]
Loop(body)  == [op |-> "Loop", block |-> body]

\* The instructions after which the rest of a block is unreachable.
IsDiverging(i) == i.op \in {"Return", "Fail", "Break"}

\* The metadata keys compile_block unwraps from an instruction.
Needs(i) ==
  CASE i.op \in {"IAdd", "ISub", "IMul", "IDiv", "Itof", "ICmp", "IConv"} -> {"bws"}
    [] i.op = "CallIndirect" -> {"ty"}
    [] i.op = "Bitcast"      -> {"from"}
    [] OTHER                 -> {}

Ref(b, tag) == [block |-> b, tag |-> tag]

(***************************************************************************)
(* The blocks an instruction refers to, in the order the passes visit      *)
(* them, each with the tag a block in that role must have.                 *)
(***************************************************************************)
Refs(i) ==
  CASE i.op = "IfElse" -> IF i.else = NoBlock
                            THEN << Ref(i.then, "IfElse") >>
                            ELSE << Ref(i.then, "IfElse"), Ref(i.else, "IfElse") >>
    [] i.op = "Loop"   -> << Ref(i.block, "Loop") >>
    [] OTHER           -> << >>

-----------------------------------------------------------------------------
(* Functions.  f.tag and f.body are indexed by the function's BlockIds.    *)

Blocks(f) == DOMAIN f.tag

\* HashMap::insert: the map m with v at key k.
Insert(m, k, v) ==
  [x \in DOMAIN m \cup {k} |-> IF x = k THEN v ELSE m[x]]

EmptyMap == [x \in {} |-> NoBlock]

\* The entries of n take precedence over those of m.
Overlay(n, m) ==
  [x \in DOMAIN n \cup DOMAIN m |-> IF x \in DOMAIN n THEN n[x] ELSE m[x]]

\* A place of f at which a block is referred to: reference number arm of
\* instruction number ip of block.
Pos(block, ip, arm) == [block |-> block, ip |-> ip, arm |-> arm]

Positions(f) ==
  UNION { UNION { { Pos(b, n, a) : a \in 1 .. Len(Refs(f.body[b][n])) }
                    : n \in 1 .. Len(f.body[b]) } : b \in Blocks(f) }

RefAt(f, p) == Refs(f.body[p.block][p.ip])[p.arm]
=============================================================================
