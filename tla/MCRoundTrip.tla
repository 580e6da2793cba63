---------------------------- MODULE MCRoundTrip -----------------------------
(***************************************************************************)
(* Menus that give every instruction to one builder, and the same few      *)
(* calls to two.                                                           *)
(***************************************************************************)
EXTENDS RoundTrip

CONSTANTS h1, h2

Pair    == Struct(<< Int32, UInt8 >>)
Boxed   == Struct(<< Pair, Ptr >>)
Unary   == Func(<< Int32 >>, << Int32 >>)
Maker   == Func(<< >>, << Unary >>)
Twice   == Func(<< Unary, Float32 >>, << Int32, Int16 >>)

Start(name, ty) == [name |-> name, ty |-> ty]

Menu == [handles |-> {h1}, calls |-> 3, starts |-> {Start("f", Unary)}, args |-> {}, types |-> {}, rets |-> {}, tags |-> {},
         instrs |-> {}, locals |-> {}, jumps |-> {}, layouts |-> {"printed"}]

Plains == { Op(o) : o \in {"IAdd", "ISub", "IMul", "IDiv", "FAdd", "FSub", "FMul", "FDiv", "Itof", "ICmp",
                           "FCmp", "Not", "BitAnd", "BitOr", "Discard", "Return", "MemorySize",
                           "MemoryGrow", "Fail", "Break", "LdFloat", "LdStaticMemPtr", "CallIndirect"} }
Named  == { OpNamed(o, "g") : o \in {"CallDirect", "LdGlobalFunc", "LdGlobal", "StGlobal"} }
Ints   == { LdInt(7, t) : t \in {Int8, UInt8, Int16, UInt16, Int32, UInt32} }
Typed  == { OpOn(o, Unary) : o \in {"Ftoi", "IConv", "Bitcast", "Read", "Write", "Offset"} }
OnTypes == { OpOn("Read", t) : t \in {Ptr, Pair, Boxed, Maker, Twice, Func(<< Pair >>, << >>),
                                      Func(<< >>, << Pair >>), Func(<< >>, << Boxed, Int8 >>)} }
             \cup { GetFieldPtr(t, 1) : t \in {Pair, Boxed} }

\* Every instruction, in the entry block or in another, beside a Break.
OneInstr ==
  { [Menu EXCEPT !.instrs = {i, Op("Break")}, !.rets = {<< >>}, !.tags = {"Loop"}] :
      i \in Plains \cup Named \cup Ints \cup Typed \cup OnTypes }

\* Every type where a type can be.
Types == {UInt8, Pair, Boxed, Maker, Twice, Float32}
OneType ==
  { [Menu EXCEPT !.types = {t, Int8}, !.locals = {"StLocal"}, !.layouts = {"printed", "cut", "locals"}] : t \in Types }
    \cup { [Menu EXCEPT !.rets = {<< t >>, << t, Int8 >>}, !.tags = {"IfElse", "Undefined"}] : t \in Types }
    \cup { [Menu EXCEPT !.starts = {Start("f", ty)}, !.types = {Int8}, !.args = {0, 1}] :
             ty \in {Int32, Pair} \cup UNION { { Func(<< t >>, << >>), Func(<< >>, << t >>), Func(<< t, Ptr >>, << t, t >>) }
                                               : t \in Types } }

\* Two builders, whose functions may have the same name; what one builder
\* alone can make of the same calls is also printed and read.
Basic == [Menu EXCEPT !.starts = {Start("f", Unary), Start("g", Func(<< >>, << >>))}, !.args = {0},
                       !.types = {Int16}, !.rets = {<< >>}, !.tags = {"IfElse"}, !.locals = {"LdLocal"},
                       !.jumps = {"If", "Loop", "IfElse"}, !.layouts = {"printed", "blocks", "locals"}]

Two == { [Basic EXCEPT !.handles = Handles, !.calls = 4, !.layouts = {}],
         [Basic EXCEPT !.handles = Handles, !.calls = 2], Basic }

\* Texts that break off anywhere.
Cut == { [Menu EXCEPT !.instrs = {OpOn("Read", t), GetFieldPtr(t, 1), OpNamed("CallDirect", "g")},
                      !.rets = {<< t, Int8 >>}, !.tags = {"IfElse"}, !.jumps = {"IfElse"},
                      !.layouts = {"cut", "blocks"}] : t \in {Boxed, Twice} }

AllMenus == OneInstr \cup OneType \cup Two \cup Cut
=============================================================================
