------------------------------- MODULE MCTyped -------------------------------
(***************************************************************************)
(* Small functions for the verifier and the emitter: every instruction on  *)
(* every stack of a few types, every end of a block, and blocks in blocks. *)
(***************************************************************************)
EXTENDS TypedEmission, Shapes

Pair   == Struct(<< Int32, UInt8 >>)
Mixed  == Func(<< Int32, Float32 >>, << Float32 >>)
Twins  == Func(<< UInt8, UInt8 >>, << >>)
Source == Func(<< >>, << Ptr, Int32 >>)

MCTypes == {Int8, UInt8, Int16, UInt16, Int32, UInt32, Float32, Ptr, Pair, Mixed, Twins, Source}

MCFuncTypes == [mixed |-> Mixed, twins |-> Twins, source |-> Source]
MCGlobalTypes == [count |-> Int32, ratio |-> Float32]

StackTypes == {Int32, UInt8, Float32, Ptr}

\* A function whose only block loads its arguments, one of every type of ts,
\* and then runs code.
Loads(ts) == [n \in 1 .. Len(ts) |-> OpLocal("LdLocal", n - 1)]

OneBlock(ts, code_, rets, ret) ==
  [args |-> ts, rets |-> rets, locals |-> Append(ts, Float32),
   tag |-> [b \in {Entry} |-> "Main"], ret |-> [b \in {Entry} |-> ret],
   body |-> [b \in {Entry} |-> Loads(ts) \o code_], dist |-> EmptyMap]

UpToThree == UNION { [1 .. n -> StackTypes] : n \in 0 .. 2 }
               \cup { << a, b, c >> : a \in {Int32, Float32, Ptr}, b \in {Int32, Float32},
                                      c \in {Mixed, Twins, Source, Int32} }
               \cup { << UInt8, UInt8, Twins >>, << Int32, Mixed >>, << Source >> }

Instructions ==
  { Op(o) : o \in {"IAdd", "ICmp", "FAdd", "FCmp", "Itof", "Not", "BitAnd", "CallIndirect",
                   "Discard", "MemorySize", "MemoryGrow", "Fail", "LdFloat",
                   "LdStaticMemPtr", "Offset", "Break", "Return"} }
    \cup { OpOn(o, t) : o \in {"Ftoi", "IConv", "Read", "Write", "Bitcast"},
                        t \in {UInt8, Float32, Ptr, Pair} }
    \cup { OpNamed(o, n) : o \in {"CallDirect", "LdGlobalFunc"}, n \in {"mixed", "twins", "source", "none"} }
    \cup { OpNamed(o, n) : o \in {"LdGlobal", "StGlobal"}, n \in {"count", "ratio", "none"} }
    \cup { OpLocal(o, n) : o \in {"LdLocal", "StLocal"}, n \in 0 .. 3 }
    \cup { LdInt(v, t) : v \in {-1, 128, 65535, 65536}, t \in {Int8, UInt16, Int32, Float32} }
    \cup { GetFieldPtr(t, n) : t \in {Pair, Int32}, n \in 1 .. 3 }

\* Every instruction on every stack.
EveryInstruction ==
  { OneBlock(ts, << i >>, << >>, << >>) : ts \in UpToThree, i \in Instructions }

Results2 == UNION { [1 .. n -> {Int32, Float32, Ptr}] : n \in 0 .. 2 }

\* Every end of a block, by falling through or by returning.
EveryEnd ==
  { OneBlock(ts, code_, rets, ret) :
      ts \in Results2, code_ \in {<< >>, << Op("Return") >>},
      rets \in Results2 \cup {<< Pair >>}, ret \in Results2 }

\* Entry, a branch 1, a branch 2 and a loop 3 that holds a branch 4 ending in
\* Break.  Block 5 does not exist.
Nested(first, second, rets, r1, r2) ==
  [args |-> << Int32 >>, rets |-> rets, locals |-> << Int32, Float32 >>,
   tag  |-> [b \in 0 .. 4 |-> CASE b = 0 -> "Main" [] b = 3 -> "Loop" [] OTHER -> "IfElse"],
   ret  |-> [b \in 0 .. 4 |-> CASE b = 0 -> rets [] b = 1 -> r1 [] b = 2 -> r2 [] OTHER -> << >>],
   body |-> [b \in 0 .. 4 |->
      CASE b = 0 -> << OpLocal("LdLocal", 0), first >>
        [] b = 1 -> << OpLocal("LdLocal", 0), Op("Itof"), OpOn("Bitcast", Int32) >>
        [] b = 2 -> second
        [] b = 3 -> << OpLocal("LdLocal", 0), OpLocal("LdLocal", 0), If(4) >>
        [] b = 4 -> << Op("Break") >>],
   dist |-> [b \in {3, 4} |-> b - 3]]

Branches ==
  { Nested(first, second, rets, r1, r2) :
      first  \in { If(1), If(5), IfElse(1, 2), IfElse(1, 5), Loop(3), Loop(1), Loop(5) },
      second \in { << OpLocal("LdLocal", 0) >>, << Op("Fail") >>, << Op("Break") >> },
      rets \in {<< >>, << Int32 >>},
      r1 \in {<< >>, << Int32 >>, << Float32 >>}, r2 \in {<< >>, << Int32 >>, << Pair >>} }

All == EveryInstruction \cup EveryEnd \cup Branches
=============================================================================
