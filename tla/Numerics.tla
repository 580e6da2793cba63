------------------------------ MODULE Numerics ------------------------------
(***************************************************************************)
(* The code emitted for integers.  All of them are WebAssembly i32 values: *)
(* an Int16 or a UInt8 is the word that represents the same integer, and   *)
(* what is computed on words is brought back to the type after each        *)
(* instruction.  Here a sequence of IR instructions works on one integer:  *)
(* on the word by the emitted code, and on the integer by the meaning of   *)
(* the instruction, and the two are compared.                              *)
(*                                                                         *)
(* The widths 32, 16 and 8 are constants: every literal of numerics.rs     *)
(* stands for an expression of them.  A float is a mathematical integer.   *)
(*                                                                         *)
(* What an instruction means follows the sign of its type, as numerics.rs  *)
(* and drafts/numerics_1.md have it.  The comments of instr.rs know signed *)
(* integers only: of IDiv (line 17), Itof (35), Ftoi (39) and ICmp (45).   *)
(***************************************************************************)
EXTENDS IR, SequencesExt, Bitwise

CONSTANTS
  Word, Half, Quarter,  \* the widths of the integer types
  Floats,               \* the floats, which are all integral
  Pages                 \* the results of memory.grow

ASSUME WidthsAssumption ==
  /\ {Word, Half, Quarter} \subseteq Nat
  /\ 1 < Quarter /\ Quarter < Half /\ Half < Word

VARIABLES
  saturating,  \* module.conf.use_saturating_ftoi
  ty,          \* the type of the value on the IR's stack
  exact,       \* the value, << >> if computing it must trap
  stack,       \* the operands of the emitted code
  trapped,     \* whether it has trapped
  last         \* the instruction executed last, with the type it works in

vars == <<saturating, ty, exact, stack, trapped, last>>

-----------------------------------------------------------------------------
(* Types *)

Ints == {Int8, UInt8, Int16, UInt16, Int32, UInt32}

\* 8 times type_sizeof.
Bits(t) == CASE t \in {Int8, UInt8}   -> Quarter
             [] t \in {Int16, UInt16} -> Half
             [] t \in {Int32, UInt32} -> Word

IsUnsigned(t) == t \in {UInt8, UInt16, UInt32}

Least(t) == IF IsUnsigned(t) THEN 0 ELSE -(2^(Bits(t) - 1))
Values(t) == Least(t) .. Least(t) + 2^Bits(t) - 1

\* The value of t that n is congruent to, and the one that it is nearest to.
WrapTo(t, n) == ((n - Least(t)) % 2^Bits(t)) + Least(t)
ClipTo(t, n) == CASE n \in Values(t) -> n
                  [] n < Least(t)    -> Least(t)
                  [] OTHER           -> Least(t) + 2^Bits(t) - 1

Words == 0 .. 2^Word - 1
ToWord(n) == n % 2^Word
Signed(w) == WrapTo(Int32, w)

-----------------------------------------------------------------------------
(* WebAssembly *)

Wasm(name)     == [op |-> name, n |-> 0]
Const(n)       == [op |-> "const", n |-> n]
Access(op, b)  == [op |-> op, n |-> b]   \* a store or a load of b bits

\* Integer division rounds towards zero.
Quotient(x, y) ==
  LET abs(n) == IF n < 0 THEN -n ELSE n
      q == abs(x) \div abs(y)
  IN  IF (x < 0) = (y < 0) THEN q ELSE -q

Truth(b) == IF b THEN 1 ELSE 0

\* Where an instruction traps, x being below y on the stack.
Traps(op, x, y) ==
  \/ op \in {"div_s", "div_u"} /\ y = 0
  \/ op = "div_s" /\ Quotient(Signed(x), Signed(y)) \notin Values(Int32)

Binary(op, x, y) ==
  CASE op = "add"   -> ToWord(x + y)
    [] op = "sub"   -> ToWord(x - y)
    [] op = "mul"   -> ToWord(x * y)
    [] op = "div_u" -> x \div y
    [] op = "div_s" -> ToWord(Quotient(Signed(x), Signed(y)))
    [] op = "shl"   -> ToWord(x * 2^y)
    [] op = "shr_s" -> ToWord(Signed(x) \div 2^y)
    [] op = "and"   -> x & y
    [] op = "or"    -> x | y
    [] op = "eq"    -> Truth(x = y)
    [] op = "ne"    -> Truth(x # y)
    [] op = "lt_u"  -> Truth(x < y)
    [] op = "le_u"  -> Truth(x <= y)
    [] op = "gt_u"  -> Truth(x > y)
    [] op = "ge_u"  -> Truth(x >= y)
    [] op = "lt_s"  -> Truth(Signed(x) < Signed(y))
    [] op = "le_s"  -> Truth(Signed(x) <= Signed(y))
    [] op = "gt_s"  -> Truth(Signed(x) > Signed(y))
    [] op = "ge_s"  -> Truth(Signed(x) >= Signed(y))

\* The instructions with one operand; memory is a word, cell, of which a
\* store replaces and a load takes the low bits.
Unary(op, n, x) ==
  CASE op = "eqz"       -> Truth(x = 0)
    [] op = "convert_u" -> x
    [] op = "convert_s" -> Signed(x)
    [] op \in {"trunc_u", "trunc_sat_u"} -> ClipTo(UInt32, x)
    [] op \in {"trunc_s", "trunc_sat_s"} -> ToWord(ClipTo(Int32, x))
    [] op = "load_u"    -> x % 2^n
    [] op = "load_s"    -> LET low == x % 2^n IN
                           ToWord(IF low < 2^(n - 1) THEN low ELSE low - 2^n)

UnaryTraps(op, x) ==
  \/ op = "trunc_u" /\ x \notin Values(UInt32)
  \/ op = "trunc_s" /\ x \notin Values(Int32)

Unaries == {"eqz", "convert_u", "convert_s", "trunc_u", "trunc_s", "trunc_sat_u",
            "trunc_sat_s", "load_u", "load_s"}

\* One instruction of the machine m, a stack that may have trapped.
Step(m, i) ==
  LET s == m.stack
      top == s[Len(s)]
      under == s[Len(s) - 1]
      Put(k, v) == [m EXCEPT !.stack = Append(SubSeq(s, 1, Len(s) - k), v)]
      Trap == [m EXCEPT !.trapped = TRUE, !.stack = << >>]
  IN  CASE m.trapped -> m
        [] ~m.trapped /\ i.op = "const" -> Put(0, i.n)
        [] ~m.trapped /\ i.op = "store" -> Put(2, under - (under % 2^i.n) + (top % 2^i.n))
        [] ~m.trapped /\ i.op \in Unaries ->
             IF UnaryTraps(i.op, top) THEN Trap ELSE Put(1, Unary(i.op, i.n, top))
        [] OTHER -> IF Traps(i.op, under, top) THEN Trap ELSE Put(2, Binary(i.op, under, top))

Execute(operands, code) == FoldLeft(Step, [stack |-> operands, trapped |-> FALSE], code)

-----------------------------------------------------------------------------
(* emit_numeric_instr *)

\* Mutant: the mask is left on the stack.
MaskUnused(core, n) == core \o << Const(n) >>

Masked(core, n)   == core \o << Const(n), Wasm("and") >>

Shifted(core, n) == core \o << Const(n), Wasm("shl"), Const(n), Wasm("shr_s") >>

\* The code for IAdd, ISub and IMul.  65536 is 2^Half, 255 is 2^Quarter - 1.
Arithmetic(core, t) ==
  CASE t \in {Int32, UInt32} -> core
    [] t = UInt16 -> Masked(core, 2^Half)
    [] t = Int16  -> Shifted(core, Word - Half)
    [] t = UInt8  -> Masked(core, 2^Quarter - 1)
    [] t = Int8   -> Shifted(core, Word - Quarter)

\* Mutant: quotients are taken to be in range.
DivisionPlain(t) == << Wasm(IF IsUnsigned(t) THEN "div_u" ELSE "div_s") >>

Division(t) ==
  CASE IsUnsigned(t) -> << Wasm("div_u") >>
    [] t = Int32     -> << Wasm("div_s") >>
    [] t = Int16     -> Shifted(<< Wasm("div_s") >>, Word - Half)
    [] t = Int8      -> Shifted(<< Wasm("div_s") >>, Word - Quarter)

Comparison(cmp, t) ==
  CASE cmp \in {"eq", "ne"} -> << Wasm(cmp) >>
    [] cmp = "lt" -> << Wasm(IF IsUnsigned(t) THEN "lt_u" ELSE "lt_s") >>
    [] cmp = "le" -> << Wasm(IF IsUnsigned(t) THEN "le_u" ELSE "le_s") >>
    [] cmp = "gt" -> << Wasm(IF IsUnsigned(t) THEN "gt_u" ELSE "gt_s") >>
    [] cmp = "ge" -> << Wasm(IF IsUnsigned(t) THEN "ge_u" ELSE "ge_s") >>

Itof(t) == << Wasm(IF IsUnsigned(t) THEN "convert_u" ELSE "convert_s") >>

Ftoi(t) ==
  IF saturating THEN << Wasm(IF IsUnsigned(t) THEN "trunc_sat_u" ELSE "trunc_sat_s") >>
                ELSE << Wasm(IF IsUnsigned(t) THEN "trunc_u" ELSE "trunc_s") >>

WriteCode(t) == << Access("store", Bits(t)) >>
ReadCode(t)  == << Access(IF IsUnsigned(t) THEN "load_u" ELSE "load_s", Bits(t)) >>

Conversion(from, to) ==
  CASE to \in {Int32, UInt32} -> << >>
    [] to = Int16  -> IF from \in {Int16, UInt8, Int8} THEN << >> ELSE Shifted(<< >>, Word - Half)
    [] to = UInt16 -> IF from \in {UInt8, UInt16} THEN << >> ELSE Masked(<< >>, 2^Half)
    [] to = Int8   -> IF from = Int8 THEN << >> ELSE Shifted(<< >>, Word - Quarter)
    [] to = UInt8  -> IF from = UInt8 THEN << >> ELSE Masked(<< >>, 2^Quarter - 1)

-----------------------------------------------------------------------------
(* The instructions, executed by the emitted code and by their meaning *)

\* The operands that represent the value n of type t.
Represents(t, n) == IF IsFloat(t) THEN n ELSE ToWord(n)

\* The emitted code computes what the instructions mean, traps included.
Agrees ==
  IF exact = << >> THEN trapped
                   ELSE ~trapped /\ stack = << Represents(ty, exact[1]) >>

\* An integer that is as it should be is at hand, its value being x.
Ready == Agrees /\ exact # << >>
x == exact[1]

\* The code is executed on operands, and the value of type t becomes v.
Do(op, in, operands, code, t, v) ==
  LET m == Execute(operands, code) IN
  /\ stack' = m.stack /\ trapped' = m.trapped
  /\ ty' = t /\ exact' = v
  /\ last' = OpOn(op, in)
  /\ UNCHANGED saturating

Init ==
  /\ saturating \in BOOLEAN
  /\ ty = Int32 /\ exact = << 0 >> /\ stack = << 0 >>
  /\ trapped = FALSE
  /\ last = OpOn("LdInt", Int32)

\* verify.rs: the u32 constant is compared as an i32.
FitsType(c, t) ==
  CASE t \in {Int8, Int16}   -> Signed(c) \in Values(t)
    [] t \in {UInt8, UInt16} -> Signed(c) <= Least(t) + 2^Bits(t) - 1
    [] OTHER -> TRUE

LoadInt ==
  /\ Ready
  /\ \E t \in Ints, c \in Words :
       /\ FitsType(c, t)
       /\ Do("LdInt", t, << >>, << Const(c) >>, t, << WrapTo(t, c) >>)

\* IAdd, ISub and IMul with y, which is on top of the value.
BinaryOp ==
  /\ Ready /\ IsInt(ty)
  /\ \E y \in Values(ty) :
       LET operands == stack \o << Represents(ty, y) >>
           Ar(op, core, v) ==
             Do(op, ty, operands, Arithmetic(<< Wasm(core) >>, ty), ty, << WrapTo(ty, v) >>)
       IN  Ar("IAdd", "add", x + y) \/ Ar("ISub", "sub", x - y) \/ Ar("IMul", "mul", x * y)

IDiv ==
  /\ Ready /\ IsInt(ty)
  /\ \E y \in Values(ty) :
       Do("IDiv", ty, stack \o << Represents(ty, y) >>, Division(ty), ty,
          IF y = 0 THEN << >> ELSE << WrapTo(ty, Quotient(x, y)) >>)

ICmp ==
  /\ Ready /\ IsInt(ty)
  /\ \E y \in Values(ty) :
       LET Cmp(cmp, b) ==
             Do("ICmp", ty, stack \o << Represents(ty, y) >>, Comparison(cmp, ty), Int32,
                << Truth(b) >>)
       IN  \/ Cmp("eq", x = y) \/ Cmp("ne", x # y) \/ Cmp("lt", x < y)
           \/ Cmp("le", x <= y) \/ Cmp("gt", x > y) \/ Cmp("ge", x >= y)

IsZero ==
  /\ Ready /\ IsInt(ty)
  /\ Do("Not", ty, stack, << Wasm("eqz") >>, ty, << Truth(x = 0) >>)

\* The meaning is that of the bits of the type.
BitwiseOp ==
  /\ Ready /\ IsInt(ty)
  /\ \E y \in Values(ty) :
       LET operands == stack \o << Represents(ty, y) >>
           xs == x % 2^Bits(ty)
           ys == y % 2^Bits(ty)
       IN  \/ Do("BitAnd", ty, operands, << Wasm("and") >>, ty, << WrapTo(ty, xs & ys) >>)
           \/ Do("BitOr", ty, operands, << Wasm("or") >>, ty, << WrapTo(ty, xs | ys) >>)

IConv ==
  /\ Ready /\ IsInt(ty)
  /\ \E t \in Ints : Do("IConv", t, stack, Conversion(ty, t), t, << WrapTo(t, x) >>)

\* Between integers a Bitcast has no code at all.
Bitcast ==
  /\ Ready /\ IsInt(ty)
  /\ \E t \in Ints : Do("Bitcast", t, stack, << >>, t, << WrapTo(t, x) >>)

IntToFloat ==
  /\ Ready /\ IsInt(ty)
  /\ Do("Itof", ty, stack, Itof(ty), Float32, << x >>)

LoadFloat ==
  /\ Ready
  /\ \E f \in Floats : Do("LdFloat", Float32, << >>, << Const(f) >>, Float32, << f >>)

\* What is out of range is clipped, or else it traps.
FloatToInt ==
  /\ Ready /\ IsFloat(ty)
  /\ \E t \in Ints :
       Do("Ftoi", t, stack, Ftoi(t), t,
          CASE x \in Values(t) -> << x >>
            [] x \notin Values(t) /\ saturating  -> << ClipTo(t, x) >>
            [] x \notin Values(t) /\ ~saturating -> << >>)

\* The value is written to memory, and read as a type that is not larger.
WriteRead ==
  /\ Ready /\ IsInt(ty)
  /\ \E t \in { t \in Ints : Bits(t) <= Bits(ty) }, cell \in {0, 2^Word - 1} :
       Do("Read", t, << cell >> \o stack, WriteCode(ty) \o ReadCode(t), t, << WrapTo(t, x) >>)

\* The number of pages, or -1, has the type of the operand.
MemoryGrow ==
  /\ Ready /\ IsInt(ty)
  /\ \E p \in Pages :
       Do("MemoryGrow", ty, << >>, << Const(ToWord(p)) >>, ty, << WrapTo(ty, p) >>)

\* The code has trapped or gone wrong.
Stopped == ~Ready /\ UNCHANGED vars

Next ==
  \/ LoadInt \/ BinaryOp \/ IDiv \/ ICmp \/ IsZero \/ BitwiseOp \/ IConv \/ Bitcast
  \/ IntToFloat \/ LoadFloat \/ FloatToInt \/ WriteRead \/ MemoryGrow \/ Stopped

Spec == Init /\ [][Next]_vars

-----------------------------------------------------------------------------
(* Properties *)

\* The code leaves one operand, a word unless it is a float.
TypeOK ==
  /\ ty \in Ints \cup {Float32} /\ trapped \in BOOLEAN
  /\ Len(exact) <= 1 /\ exact # << >> /\ IsInt(ty) => exact[1] \in Values(ty)
  /\ Len(stack) = (IF trapped THEN 0 ELSE 1)
  /\ stack # << >> /\ IsInt(ty) => stack[1] \in Words

(***************************************************************************)
(* Where the code does not compute what the instruction means in its type: *)
(*   - the mask of UInt16 is 2^16, not 2^16 - 1;                           *)
(*   - constants of small unsigned types may have their high bits set;     *)
(*   - floats and other types are not brought into the range of a small    *)
(*     type they are converted or cast to;                                 *)
(*   - memory.grow may return more than a small type holds, or -1;         *)
(*   - the least Int32 divided by -1 traps.                                *)
(***************************************************************************)
GapAt(i) ==
  \/ i.ty = UInt16 /\ i.op \in {"IAdd", "ISub", "IMul", "IConv"}
  \/ i.ty \in {UInt8, UInt16} /\ i.op = "LdInt"
  \/ i.op \in {"Ftoi", "Bitcast"} /\ Bits(i.ty) < Word /\ x \notin Values(i.ty)
  \/ i.op = "MemoryGrow" /\ Bits(i.ty) < Word
  \/ i.ty = Int32 /\ i.op = "IDiv" /\ x = Least(Int32)

\* In any sequence of instructions the operand represents the value it should
\* after every instruction, in a narrow type as well, except at those gaps.  For
\* unsigned types this is what drafts/numerics_1.md asks for and not what the
\* comments of instr.rs do: those of IDiv, Itof, Ftoi and ICmp are of signed
\* integers whatever the type is, and do not agree with the code.
InexactAtTheGapsOnly == [][Ready /\ ~Agrees' => GapAt(last')]_vars

\* instr.rs:11 "Add two integers" is what IAdd does.
AddsIntegers == [][Ready /\ last'.op = "IAdd" => Agrees']_vars
=============================================================================
