----------------------------- MODULE TypedProofs -----------------------------
(***************************************************************************)
(* The verifier proved sound for the emitter, but for the gaps that are    *)
(* listed: one arm of verify_block at a time, what it pops, pushes and     *)
(* notes is compared with the code of the instruction.  From the arms      *)
(* follows the invariant that the stacks agree and that the notes are      *)
(* those of the instructions verified so far, and from the invariant what  *)
(* an accepted function holds and the contract of the pass.                *)
(***************************************************************************)
EXTENDS TypedEmission, SequenceTheorems, TLAPS

-----------------------------------------------------------------------------
(* Short sequences *)

\* A pair is its first element followed by its second.
LEMMA PairIsConcat ==
  ASSUME NEW S, NEW a \in S, NEW b \in S
  PROVE  << a >> \o << b >> = << a, b >>
<1> DEFINE s == << a >> \o << b >>
<1>1. /\ << a >> \in Seq(S) /\ << b >> \in Seq(S) /\ << a, b >> \in Seq(S)
      /\ Len(<< a >>) = 1 /\ Len(<< b >>) = 1 /\ Len(<< a, b >>) = 2
  OBVIOUS
<1>2. /\ s \in Seq(S) /\ Len(s) = Len(<< a >>) + Len(<< b >>)
      /\ \A k \in 1 .. Len(<< a >>) + Len(<< b >>) :
           s[k] = IF k <= Len(<< a >>) THEN << a >>[k] ELSE << b >>[k - Len(<< a >>)]
  BY <1>1, ConcatProperties, Zenon DEF s
<1> HIDE DEF s
<1>3. s = << a, b >>
  <2>1. s \in Seq(S) /\ Len(s) = 2 /\ s[1] = a /\ s[2] = b
    BY <1>1, <1>2
  <2> QED
    BY <1>1, <2>1, SeqEqual
<1> QED
  BY <1>3 DEF s

\* The last element, as a sequence.
LEMMA LastOfSeq ==
  ASSUME NEW S, NEW s \in Seq(S), Len(s) \in Nat \ {0}
  PROVE  SubSeq(s, Len(s), Len(s)) = << s[Len(s)] >>
<1> DEFINE a == SubSeq(s, Len(s), Len(s))  b == << s[Len(s)] >>
<1>1. a \in Seq(S) /\ Len(a) = 1
  OBVIOUS
<1>2. a[1] = s[Len(s)]
  OBVIOUS
<1>3. b \in Seq(S) /\ Len(b) = 1 /\ b[1] = s[Len(s)]
  OBVIOUS
<1> HIDE DEF a, b
<1>4. a = b
  BY <1>1, <1>2, <1>3, SeqEqual
<1> QED
  BY <1>4 DEF a, b

-----------------------------------------------------------------------------
(* Types as WebAssembly sees them *)

WasmTypes == {"i32", "f32"}

\* Lower keeps lengths; the operands of the simplest instructions, written out.
LEMMA LowerFacts ==
  /\ \A ts \in Seq(Interned) : Lower(ts) \in Seq(WasmTypes) /\ Len(Lower(ts)) = Len(ts)
  /\ Lower(<< >>) = << >> /\ \A t : Lower(<< t >>) = << ValType(t) >>
  /\ I32(0) = << >> /\ I32(1) = << "i32" >> /\ I32(2) = << "i32", "i32" >>
  /\ F32(0) = << >> /\ F32(1) = << "f32" >> /\ F32(2) = << "f32", "f32" >>
<1>1. ASSUME NEW ts \in Seq(Interned)
      PROVE  Lower(ts) \in Seq(WasmTypes) /\ Len(Lower(ts)) = Len(ts)
  BY DEF Lower, ValType, WasmTypes
<1>2. Lower(<< >>) = << >> /\ \A t : Lower(<< t >>) = << ValType(t) >>
  BY DEF Lower
<1>3. /\ I32(0) = << >> /\ I32(1) = << "i32" >> /\ I32(2) = << "i32", "i32" >>
      /\ F32(0) = << >> /\ F32(1) = << "f32" >> /\ F32(2) = << "f32", "f32" >>
  BY DEF I32, F32
<1> QED
  BY <1>1, <1>2, <1>3

\* Popping and pushing types is popping and pushing what they become.
LEMMA LowerPops ==
  ASSUME NEW ts \in Seq(Interned), NEW n \in 0 .. Len(ts), NEW pushed \in Seq(Interned)
  PROVE  Lower(SubSeq(ts, 1, Len(ts) - n) \o pushed)
           = SubSeq(Lower(ts), 1, Len(Lower(ts)) - n) \o Lower(pushed)
<1> DEFINE s == SubSeq(ts, 1, Len(ts) - n)
           p == Lower(pushed)
           w == SubSeq(Lower(ts), 1, Len(Lower(ts)) - n)
<1>1. /\ s \in Seq(Interned) /\ Len(s) = Len(ts) - n
      /\ \A k \in 1 .. Len(s) : s[k] = ts[k]
  OBVIOUS
<1>2. /\ w \in Seq(WasmTypes) /\ Len(w) = Len(ts) - n
      /\ \A k \in 1 .. Len(w) : w[k] = ValType(ts[k])
  <2>1. Lower(ts) \in Seq(WasmTypes) /\ Len(Lower(ts)) = Len(ts)
    BY LowerFacts
  <2>2. \A k \in 1 .. Len(ts) : Lower(ts)[k] = ValType(ts[k])
    BY DEF Lower
  <2> HIDE DEF w
  <2> QED
    BY <2>1, <2>2 DEF w
<1> HIDE DEF s, w, p
<1>3. p \in Seq(WasmTypes) /\ Len(p) = Len(pushed)
  BY LowerFacts DEF p
<1> DEFINE r == s \o pushed  v == w \o p
<1>4. /\ r \in Seq(Interned) /\ Len(r) = Len(s) + Len(pushed)
      /\ \A k \in 1 .. Len(s) + Len(pushed) : r[k] = IF k <= Len(s) THEN s[k] ELSE pushed[k - Len(s)]
  BY <1>1, ConcatProperties, Zenon DEF r
<1>5. /\ v \in Seq(WasmTypes) /\ Len(v) = Len(w) + Len(p)
      /\ \A k \in 1 .. Len(w) + Len(p) : v[k] = IF k <= Len(w) THEN w[k] ELSE p[k - Len(w)]
  <2>1. w \in Seq(WasmTypes) /\ p \in Seq(WasmTypes)
    BY <1>2, <1>3
  <2> QED
    BY <2>1, ConcatProperties, Zenon DEF v
<1> HIDE DEF r, v
<1>6. Lower(r) \in Seq(WasmTypes) /\ Len(Lower(r)) = Len(r) /\ Len(r) = Len(v)
  BY <1>1, <1>2, <1>3, <1>4, <1>5, LowerFacts
<1>7. ASSUME NEW k \in 1 .. Len(r)
      PROVE  Lower(r)[k] = v[k]
  <2>1. Lower(r)[k] = ValType(r[k])
    BY DEF Lower
  <2>2. CASE k <= Len(s)
    BY <1>1, <1>2, <1>3, <1>4, <1>5, <2>1, <2>2
  <2>3. CASE ~ (k <= Len(s))
    <3>1. k - Len(s) \in 1 .. Len(pushed)
      BY <1>1, <1>4, <2>3
    <3>2. p[k - Len(s)] = ValType(pushed[k - Len(s)])
      BY <3>1 DEF Lower, p
    <3>3. r[k] = pushed[k - Len(s)] /\ v[k] = p[k - Len(s)]
      BY <1>1, <1>2, <1>3, <1>4, <1>5, <2>3
    <3> QED
      BY <2>1, <3>2, <3>3
  <2> QED
    BY <2>2, <2>3
<1>8. Lower(r) = v
  BY <1>5, <1>6, <1>7, SeqEqual
<1> QED
  BY <1>8 DEF r, v, s, w, p

-----------------------------------------------------------------------------
(* The arms of verify_block *)

\* The verifier is at an instruction, with interned types on its stack, and
\* WebAssembly's stack is the same.
AtWork ==
  /\ fn \in Functions /\ pc = "blocks"
  /\ cur \in Blocks(fn) /\ ip \in 1 .. Len(fn.body[cur])
  /\ stack \in Seq(Interned) /\ wstack = Lower(stack)

\* Types are popped and pushed, and the pass goes on.
Moves(n, pushed) ==
  /\ n \in 0 .. Len(stack) /\ pushed \in Seq(Interned)
  /\ stack' = SubSeq(stack, 1, Len(stack) - n) \o pushed
  /\ Proceed

\* The types that compile_block retrieves for the instruction are the noted ones.
MetaRight(m) ==
  /\ Instr.op = "CallIndirect" => m.ty = Nth(1)
  /\ Instr.op = "Bitcast" => m.from = Nth(1)

\* The code of the instruction pops and pushes as much, unless it diverges, and
\* it compiles and is valid but at the gaps.
CodeFits(n, pushed) ==
  \A m : MetaRight(m) =>
    /\ \/ IsDiverging(Instr)
       \/ Len(Emitted(Instr, m).pop) = n /\ Emitted(Instr, m).push = Lower(pushed)
    /\ ~EmitPanics(Instr, m) /\ Valid(Instr, Emitted(Instr, m), wstack) <=> ~InstrGap

\* What is noted is a note of this instruction.
NoteFits(k, v) ==
  /\ k = "bws" => IsInt(v)
  /\ k = "from" => Instr.op = "Bitcast" /\ v = Nth(1)
  /\ k = "ty" => Instr.op = "CallIndirect" /\ IsFunc(v) /\ v = Nth(1)

NotesIt ==
  \/ Contract!Notes(Instr) = {} /\ info' = info
  \/ \E k \in {"bws", "from", "ty"} : \E v :
       Contract!Notes(Instr) = {k} /\ info' = Note(k, v) /\ NoteFits(k, v)

RefersRight ==
  /\ Instr.op = "Break" => cur \in DOMAIN fn.dist
  /\ \A a \in 1 .. Len(Refs(Instr)) : Refs(Instr)[a].block \in Blocks(fn)

Passes == NotesIt /\ RefersRight /\ \E n, pushed : Moves(n, pushed) /\ CodeFits(n, pushed)

\* In a debug build a Return with nothing on the stack overflows.
Overflows ==
  /\ Instr.op = "Return" /\ pc' = "panicked"
  /\ UNCHANGED <<unit, todo, cur, ip, stack, info, meta>>

\* The notes and the references of an instruction, by its name.
LEMMA NotesAre ==
  ASSUME NEW i
  PROVE  /\ i.op \in {"IAdd", "ISub", "IMul", "IDiv", "Itof", "ICmp", "IConv", "Ftoi"}
              => Contract!Notes(i) = {"bws"}
         /\ i.op = "CallIndirect" => Contract!Notes(i) = {"ty"}
         /\ i.op = "Bitcast" => Contract!Notes(i) = {"from"}
         /\ i.op \notin {"IAdd", "ISub", "IMul", "IDiv", "Itof", "ICmp", "IConv", "Ftoi",
                       "CallIndirect", "Bitcast"} => Contract!Notes(i) = {}
         /\ i.op \notin {"IfElse", "Loop"} => Refs(i) = << >>
BY DEF Contract!Notes, Contract!Needs, Refs

\* The kinds of types exclude each other; only a float becomes an f32.
LEMMA ValTypes ==
  /\ \A t : ValType(t) \in WasmTypes
  /\ \A t : IsInt(t) \/ IsPtr(t) \/ IsFunc(t) \/ IsStruct(t) => ValType(t) = "i32"
  /\ \A t : IsFloat(t) => ValType(t) = "f32"
  /\ \A t : IsInt(t) => ~IsFloat(t) /\ ~IsPtr(t) /\ ~IsFunc(t) /\ ~IsStruct(t)
  /\ \A t : IsFloat(t) => ~IsPtr(t) /\ ~IsFunc(t) /\ ~IsStruct(t)
  /\ IsInt(Int32) /\ IsPtr(Ptr) /\ IsFloat(Float32)
<1>1. \A t : IsInt(t) => t.k # "Float32" /\ t.k # "Ptr" /\ t.k # "Func" /\ t.k # "Struct"
  BY DEF IsInt, Int8, UInt8, Int16, UInt16, Int32, UInt32
<1> QED
  BY <1>1 DEF IsInt, IsPtr, IsFunc, IsStruct, IsFloat, ValType, WasmTypes, Int32, Ptr, Float32

\* What is popped, declared and named are interned types.
LEMMA AtWorkFacts ==
  ASSUME AtWork
  PROVE  /\ Instr.op \in Typed => Instr.ty \in Interned
         /\ Instr.op = "GetFieldPtr" => Instr.idx \in Nat
         /\ \A k \in 1 .. Len(stack) : Nth(k) \in Interned
         /\ fn.rets \in Seq(Interned) /\ fn.locals \in Seq(Interned)
         /\ \A b \in Blocks(fn) : fn.ret[b] \in Seq(Interned)
         /\ {Int32, Float32, Ptr} \subseteq Interned
<1>1. \A k \in 1 .. Len(stack) : Nth(k) \in Interned
  <2> SUFFICES ASSUME NEW k \in 1 .. Len(stack) PROVE Nth(k) \in Interned
    OBVIOUS
  <2>1. stack \in Seq(Interned) /\ Len(stack) + 1 - k \in 1 .. Len(stack)
    BY DEF AtWork
  <2> QED
    BY <2>1 DEF Nth
<1> QED
  BY <1>1, DeclarationsAssumption, TypesAssumption DEF AtWork, Instr

\* Operands are on top of the stack if the types there become theirs.
LEMMA OnTop ==
  ASSUME AtWork, NEW pop \in Seq(WasmTypes)
  PROVE  IsSuffix(pop, wstack) <=>
           /\ Len(pop) <= Len(stack)
           /\ \A k \in 1 .. Len(pop) : pop[Len(pop) + 1 - k] = ValType(Nth(k))
<1> DEFINE r == Reverse(pop)  v == Reverse(wstack)
<1>1. stack \in Seq(Interned) /\ wstack \in Seq(WasmTypes) /\ Len(wstack) = Len(stack)
  BY LowerFacts DEF AtWork
<1>2. /\ r \in Seq(WasmTypes) /\ Len(r) = Len(pop)
      /\ \A k \in 1 .. Len(pop) : r[k] = pop[Len(pop) - k + 1]
  BY DEF Reverse
<1>3. /\ v \in Seq(WasmTypes) /\ Len(v) = Len(stack)
      /\ \A k \in 1 .. Len(stack) : v[k] = wstack[Len(stack) - k + 1]
  BY <1>1 DEF Reverse
<1>4. \A k \in 1 .. Len(stack) : v[k] = ValType(Nth(k))
  <2> SUFFICES ASSUME NEW k \in 1 .. Len(stack) PROVE v[k] = ValType(Nth(k))
    OBVIOUS
  <2>1. /\ Len(stack) - k + 1 \in 1 .. Len(stack)
        /\ Len(stack) - k + 1 = Len(stack) + 1 - k
    BY <1>1
  <2> QED
    BY <1>3, <2>1 DEF AtWork, Lower, Nth
<1> HIDE DEF r, v
<1>5. IsSuffix(pop, wstack) <=>
        Len(pop) <= Len(stack) /\ SubSeq(r, 1, Len(pop)) = SubSeq(v, 1, Len(pop))
  BY <1>2, <1>3 DEF IsSuffix, IsPrefix, r, v
<1>6. ASSUME Len(pop) <= Len(stack)
      PROVE  SubSeq(r, 1, Len(pop)) = SubSeq(v, 1, Len(pop)) <=>
               \A k \in 1 .. Len(pop) : r[k] = v[k]
  <2>1. /\ SubSeq(r, 1, Len(pop)) \in Seq(WasmTypes) /\ Len(SubSeq(r, 1, Len(pop))) = Len(pop)
        /\ \A k \in 1 .. Len(pop) : SubSeq(r, 1, Len(pop))[k] = r[k]
    BY <1>2
  <2>2. /\ SubSeq(v, 1, Len(pop)) \in Seq(WasmTypes) /\ Len(SubSeq(v, 1, Len(pop))) = Len(pop)
        /\ \A k \in 1 .. Len(pop) : SubSeq(v, 1, Len(pop))[k] = v[k]
    BY <1>3, <1>6
  <2> QED
    BY <2>1, <2>2, SeqEqual
<1>7. ASSUME Len(pop) <= Len(stack)
      PROVE  \A k \in 1 .. Len(pop) : /\ v[k] = ValType(Nth(k))
                                      /\ r[k] = pop[Len(pop) + 1 - k]
  <2> SUFFICES ASSUME NEW k \in 1 .. Len(pop)
               PROVE  v[k] = ValType(Nth(k)) /\ r[k] = pop[Len(pop) + 1 - k]
    OBVIOUS
  <2>1. k \in 1 .. Len(stack) /\ Len(pop) - k + 1 = Len(pop) + 1 - k
    BY <1>1, <1>7
  <2> QED
    BY <1>2, <1>4, <2>1
<1> QED
  BY <1>5, <1>6, <1>7

\* No operand, one operand and two operands.
LEMMA FewOnTop ==
  ASSUME AtWork
  PROVE  /\ IsSuffix(<< >>, wstack)
         /\ \A a \in WasmTypes : 1 <= Len(stack) /\ a = ValType(Nth(1)) => IsSuffix(<< a >>, wstack)
         /\ \A a, b \in WasmTypes : 2 <= Len(stack) /\ b = ValType(Nth(1)) /\ a = ValType(Nth(2))
              => IsSuffix(<< a, b >>, wstack)
<1>1. IsSuffix(<< >>, wstack)
  <2>1. << >> \in Seq(WasmTypes) /\ Len(<< >>) = 0 /\ Len(stack) \in Nat
    BY DEF AtWork
  <2>2. Len(<< >>) <= Len(stack) /\ \A k \in 1 .. Len(<< >>) : << >>[Len(<< >>) + 1 - k] = ValType(Nth(k))
    BY <2>1
  <2> QED
    BY <2>1, <2>2, OnTop
<1>2. ASSUME NEW a \in WasmTypes, 1 <= Len(stack), a = ValType(Nth(1))
      PROVE  IsSuffix(<< a >>, wstack)
  <2>1. << a >> \in Seq(WasmTypes) /\ Len(<< a >>) = 1 /\ << a >>[1] = a
    OBVIOUS
  <2>2. \A k \in 1 .. 1 : << a >>[1 + 1 - k] = ValType(Nth(k))
    BY <1>2
  <2> QED
    BY <1>2, <2>1, <2>2, OnTop
<1>3. ASSUME NEW a \in WasmTypes, NEW b \in WasmTypes,
             2 <= Len(stack), b = ValType(Nth(1)), a = ValType(Nth(2))
      PROVE  IsSuffix(<< a, b >>, wstack)
  <2>1. << a, b >> \in Seq(WasmTypes) /\ Len(<< a, b >>) = 2
    OBVIOUS
  <2>2. \A k \in 1 .. 2 : << a, b >>[2 + 1 - k] = ValType(Nth(k))
    BY <1>3
  <2> QED
    BY <1>3, <2>1, <2>2, OnTop
<1> QED
  BY <1>1, <1>2, <1>3

\* What there is to show of an arm with operands of a fixed number.
LEMMA ArmPasses ==
  ASSUME AtWork, NEW n, NEW pushed, NEW pop, NEW push,
         Moves(n, pushed), NotesIt, Instr.op \notin {"IfElse", "Loop", "Break"},
         \A m : MetaRight(m) =>
           Emitted(Instr, m) = Sig(pop, push) /\ (EmitPanics(Instr, m) <=> InstrGap),
         Lower(pushed) = push, Len(pop) = n, IsSuffix(pop, wstack)
  PROVE  Passes
<1>1. RefersRight
  BY NotesAre DEF RefersRight
<1>2. CodeFits(n, pushed)
  BY DEF CodeFits, Valid, Sig
<1> QED
  BY <1>1, <1>2 DEF Passes

\* The arms whose operands do not depend on what else is declared.
LEMMA SimpleArms ==
  ASSUME AtWork,
         \/ LoadInt \/ LoadFloat \/ IntBinary \/ FloatBinary \/ IntToFloat \/ FloatToInt \/ IntConvert
         \/ IntUnary \/ Bitwise \/ LoadLocal \/ StoreLocal \/ LoadGlobalFunc \/ LoadGlobal \/ StoreGlobal
         \/ Bitcast \/ ReadMemory \/ WriteMemory \/ OffsetPtr \/ FieldPtr \/ Discard \/ LoadAddress \/ MemorySize
  PROVE  Reject \/ Passes
<1> SUFFICES ASSUME ~Reject PROVE Passes
  OBVIOUS
<1>1. CASE LoadInt
  <2>1. /\ 0 <= Len(stack) /\ IsInt(Instr.ty)
        /\ Moves(0, << Instr.ty >>) /\ info' = info
    <3>1. << Instr.ty >> \in Seq(Interned) /\ Len(stack) \in Nat
      BY <1>1, AtWorkFacts DEF LoadInt, At, Typed
    <3>2. /\ IsInt(Instr.ty) /\ Proceed /\ info' = info
          /\ stack' = SubSeq(stack, 1, Len(stack) - 0) \o << Instr.ty >>
      BY <1>1 DEF LoadInt, Types
    <3> QED
      BY <3>1, <3>2 DEF Moves
  <2>2. ASSUME NEW m, MetaRight(m)
        PROVE  Emitted(Instr, m) = Sig(<< >>, << "i32" >>) /\ (EmitPanics(Instr, m) <=> InstrGap)
    BY <1>1, LowerFacts DEF LoadInt, At, Emitted, EmitPanics, InstrGap
  <2>3. Lower(<< Instr.ty >>) = << "i32" >> /\ Len(<< >>) = 0
    BY <2>1, LowerFacts, ValTypes
  <2>4. IsSuffix(<< >>, wstack)
    BY FewOnTop
  <2>5. NotesIt
    BY <1>1, <2>1, NotesAre DEF LoadInt, At, NotesIt
  <2> QED
    BY <1>1, <2>1, <2>2, <2>3, <2>4, <2>5, ArmPasses DEF LoadInt, At
<1>2. CASE LoadFloat
  <2>1. /\ 0 <= Len(stack)
        /\ Moves(0, << Float32 >>) /\ info' = info
    BY <1>2, AtWorkFacts DEF LoadFloat, Types, Moves
  <2>2. ASSUME NEW m, MetaRight(m)
        PROVE  Emitted(Instr, m) = Sig(<< >>, << "f32" >>) /\ (EmitPanics(Instr, m) <=> InstrGap)
    BY <1>2, LowerFacts DEF LoadFloat, At, Emitted, EmitPanics, InstrGap
  <2>3. Lower(<< Float32 >>) = << "f32" >> /\ Len(<< >>) = 0
    BY LowerFacts, ValTypes
  <2>4. IsSuffix(<< >>, wstack)
    BY FewOnTop
  <2>5. NotesIt
    BY <1>2, <2>1, NotesAre DEF LoadFloat, At, NotesIt
  <2> QED
    BY <1>2, <2>1, <2>2, <2>3, <2>4, <2>5, ArmPasses DEF LoadFloat, At
<1>3. CASE IntBinary
  <2>1. /\ 2 <= Len(stack) /\ IsInt(Nth(1)) /\ Nth(2) = Nth(1)
        /\ Moves(2, << IF Instr.op = "ICmp" THEN Int32 ELSE Nth(1) >>) /\ info' = Note("bws", Nth(1))
    BY <1>3, AtWorkFacts DEF IntBinary, Types, Moves
  <2>2. ASSUME NEW m, MetaRight(m)
        PROVE  Emitted(Instr, m) = Sig(<< "i32", "i32" >>, << "i32" >>) /\ (EmitPanics(Instr, m) <=> InstrGap)
    BY <1>3, LowerFacts DEF IntBinary, At, Emitted, EmitPanics, InstrGap
  <2>3. Lower(<< IF Instr.op = "ICmp" THEN Int32 ELSE Nth(1) >>) = << "i32" >> /\ Len(<< "i32", "i32" >>) = 2
    BY <2>1, LowerFacts, ValTypes
  <2>4. IsSuffix(<< "i32", "i32" >>, wstack)
    BY <2>1, FewOnTop, ValTypes
  <2>5. NotesIt
    BY <1>3, <2>1, NotesAre DEF IntBinary, At, NotesIt, NoteFits
  <2> QED
    BY <1>3, <2>1, <2>2, <2>3, <2>4, <2>5, ArmPasses DEF IntBinary, At
<1>4. CASE FloatBinary
  <2>1. /\ 2 <= Len(stack) /\ IsFloat(Nth(1)) /\ IsFloat(Nth(2))
        /\ Moves(2, << IF Instr.op = "FCmp" THEN Int32 ELSE Float32 >>) /\ info' = info
    BY <1>4, AtWorkFacts DEF FloatBinary, Types, Moves
  <2>2. ASSUME NEW m, MetaRight(m)
        PROVE  /\ Emitted(Instr, m) = Sig(<< "f32", "f32" >>, << IF Instr.op = "FCmp" THEN "i32" ELSE "f32" >>)
               /\ EmitPanics(Instr, m) <=> InstrGap
    BY <1>4, LowerFacts DEF FloatBinary, At, Emitted, EmitPanics, InstrGap
  <2>3. /\ Lower(<< IF Instr.op = "FCmp" THEN Int32 ELSE Float32 >>) = << IF Instr.op = "FCmp" THEN "i32" ELSE "f32" >>
        /\ Len(<< "f32", "f32" >>) = 2
    BY LowerFacts, ValTypes
  <2>4. IsSuffix(<< "f32", "f32" >>, wstack)
    BY <2>1, FewOnTop, ValTypes
  <2>5. NotesIt
    BY <1>4, <2>1, NotesAre DEF FloatBinary, At, NotesIt
  <2> QED
    <3> DEFINE pushed == << IF Instr.op = "FCmp" THEN Int32 ELSE Float32 >>
               push == << IF Instr.op = "FCmp" THEN "i32" ELSE "f32" >>
    <3>1. /\ Moves(2, pushed) /\ Lower(pushed) = push /\ NotesIt
          /\ \A m : MetaRight(m) => /\ Emitted(Instr, m) = Sig(<< "f32", "f32" >>, push)
                                    /\ EmitPanics(Instr, m) <=> InstrGap
      BY <2>1, <2>2, <2>3, <2>5
    <3>2. Instr.op \notin {"IfElse", "Loop", "Break"}
      BY <1>4 DEF FloatBinary, At
    <3> HIDE DEF pushed, push
    <3> QED
      BY <2>4, <3>1, <3>2, ArmPasses
<1>5. CASE IntToFloat
  <2>1. /\ 1 <= Len(stack) /\ IsInt(Nth(1))
        /\ Moves(1, << Float32 >>) /\ info' = Note("bws", Nth(1))
    BY <1>5, AtWorkFacts DEF IntToFloat, Types, Moves
  <2>2. ASSUME NEW m, MetaRight(m)
        PROVE  Emitted(Instr, m) = Sig(<< "i32" >>, << "f32" >>) /\ (EmitPanics(Instr, m) <=> InstrGap)
    BY <1>5, LowerFacts DEF IntToFloat, At, Emitted, EmitPanics, InstrGap
  <2>3. Lower(<< Float32 >>) = << "f32" >> /\ Len(<< "i32" >>) = 1
    BY LowerFacts, ValTypes
  <2>4. IsSuffix(<< "i32" >>, wstack)
    BY <2>1, FewOnTop, ValTypes
  <2>5. NotesIt
    BY <1>5, <2>1, NotesAre DEF IntToFloat, At, NotesIt, NoteFits
  <2> QED
    BY <1>5, <2>1, <2>2, <2>3, <2>4, <2>5, ArmPasses DEF IntToFloat, At
<1>6. CASE FloatToInt
  <2>1. /\ 1 <= Len(stack) /\ IsFloat(Nth(1)) /\ IsInt(Instr.ty)
        /\ Moves(1, << Instr.ty >>) /\ info' = Note("bws", Instr.ty)
    BY <1>6, AtWorkFacts DEF FloatToInt, At, Types, Moves, Typed
  <2>2. ASSUME NEW m, MetaRight(m)
        PROVE  Emitted(Instr, m) = Sig(<< "f32" >>, << "i32" >>) /\ (EmitPanics(Instr, m) <=> InstrGap)
    BY <1>6, LowerFacts DEF FloatToInt, At, Emitted, EmitPanics, InstrGap
  <2>3. Lower(<< Instr.ty >>) = << "i32" >> /\ Len(<< "f32" >>) = 1
    BY <2>1, LowerFacts, ValTypes
  <2>4. IsSuffix(<< "f32" >>, wstack)
    BY <2>1, FewOnTop, ValTypes
  <2>5. NotesIt
    BY <1>6, <2>1, NotesAre DEF FloatToInt, At, NotesIt, NoteFits
  <2> QED
    BY <1>6, <2>1, <2>2, <2>3, <2>4, <2>5, ArmPasses DEF FloatToInt, At
<1>7. CASE IntConvert
  <2>1. /\ 1 <= Len(stack) /\ IsInt(Nth(1)) /\ IsInt(Instr.ty)
        /\ Moves(1, << Instr.ty >>) /\ info' = Note("bws", Nth(1))
    BY <1>7, AtWorkFacts DEF IntConvert, At, Types, Moves, Typed
  <2>2. ASSUME NEW m, MetaRight(m)
        PROVE  Emitted(Instr, m) = Sig(<< "i32" >>, << "i32" >>) /\ (EmitPanics(Instr, m) <=> InstrGap)
    BY <1>7, LowerFacts DEF IntConvert, At, Emitted, EmitPanics, InstrGap
  <2>3. Lower(<< Instr.ty >>) = << "i32" >> /\ Len(<< "i32" >>) = 1
    BY <2>1, LowerFacts, ValTypes
  <2>4. IsSuffix(<< "i32" >>, wstack)
    BY <2>1, FewOnTop, ValTypes
  <2>5. NotesIt
    BY <1>7, <2>1, NotesAre DEF IntConvert, At, NotesIt, NoteFits
  <2> QED
    BY <1>7, <2>1, <2>2, <2>3, <2>4, <2>5, ArmPasses DEF IntConvert, At
<1>8. CASE IntUnary
  <2>1. /\ 1 <= Len(stack) /\ IsInt(Nth(1))
        /\ Moves(1, << Nth(1) >>) /\ info' = info
    BY <1>8, AtWorkFacts DEF IntUnary, Types, Moves
  <2>2. ASSUME NEW m, MetaRight(m)
        PROVE  Emitted(Instr, m) = Sig(<< "i32" >>, << "i32" >>) /\ (EmitPanics(Instr, m) <=> InstrGap)
    BY <1>8, LowerFacts DEF IntUnary, At, Emitted, EmitPanics, InstrGap
  <2>3. Lower(<< Nth(1) >>) = << "i32" >> /\ Len(<< "i32" >>) = 1
    BY <2>1, LowerFacts, ValTypes
  <2>4. IsSuffix(<< "i32" >>, wstack)
    BY <2>1, FewOnTop, ValTypes
  <2>5. NotesIt
    BY <1>8, <2>1, NotesAre DEF IntUnary, At, NotesIt
  <2> QED
    BY <1>8, <2>1, <2>2, <2>3, <2>4, <2>5, ArmPasses DEF IntUnary, At
<1>9. CASE Bitwise
  <2>1. /\ 2 <= Len(stack) /\ IsInt(Nth(1)) /\ Nth(2) = Nth(1)
        /\ Moves(2, << Nth(1) >>) /\ info' = info
    BY <1>9, AtWorkFacts DEF Bitwise, Types, Moves
  <2>2. ASSUME NEW m, MetaRight(m)
        PROVE  Emitted(Instr, m) = Sig(<< "i32", "i32" >>, << "i32" >>) /\ (EmitPanics(Instr, m) <=> InstrGap)
    BY <1>9, LowerFacts DEF Bitwise, At, Emitted, EmitPanics, InstrGap
  <2>3. Lower(<< Nth(1) >>) = << "i32" >> /\ Len(<< "i32", "i32" >>) = 2
    BY <2>1, LowerFacts, ValTypes
  <2>4. IsSuffix(<< "i32", "i32" >>, wstack)
    BY <2>1, FewOnTop, ValTypes
  <2>5. NotesIt
    BY <1>9, <2>1, NotesAre DEF Bitwise, At, NotesIt
  <2> QED
    BY <1>9, <2>1, <2>2, <2>3, <2>4, <2>5, ArmPasses DEF Bitwise, At
<1>10. CASE LoadLocal
  <2>1. /\ 0 <= Len(stack) /\ HasLocal(Instr.idx)
        /\ Moves(0, << LocalTy(Instr.idx) >>) /\ info' = info
    <3>1. /\ HasLocal(Instr.idx) /\ Proceed /\ info' = info
          /\ stack' = SubSeq(stack, 1, Len(stack) - 0) \o << LocalTy(Instr.idx) >>
      BY <1>10 DEF LoadLocal, Types
    <3>2. << LocalTy(Instr.idx) >> \in Seq(Interned) /\ Len(stack) \in Nat
      BY <3>1, AtWorkFacts DEF HasLocal, LocalTy
    <3> QED
      BY <3>1, <3>2 DEF Moves
  <2>2. ASSUME NEW m, MetaRight(m)
        PROVE  /\ Emitted(Instr, m) = Sig(<< >>, << ValType(LocalTy(Instr.idx)) >>)
               /\ EmitPanics(Instr, m) <=> InstrGap
    BY <1>10, LowerFacts DEF LoadLocal, At, Emitted, EmitPanics, InstrGap
  <2>3. Lower(<< LocalTy(Instr.idx) >>) = << ValType(LocalTy(Instr.idx)) >> /\ Len(<< >>) = 0
    BY LowerFacts
  <2>4. IsSuffix(<< >>, wstack)
    BY FewOnTop
  <2>5. NotesIt
    BY <1>10, <2>1, NotesAre DEF LoadLocal, At, NotesIt
  <2> QED
    BY <1>10, <2>1, <2>2, <2>3, <2>4, <2>5, ArmPasses DEF LoadLocal, At
<1>11. CASE StoreLocal
  <2>1. /\ 1 <= Len(stack) /\ LocalTy(Instr.idx) = Nth(1)
        /\ Moves(1, << >>) /\ info' = info
    BY <1>11 DEF StoreLocal, Types, Moves
  <2>2. ASSUME NEW m, MetaRight(m)
        PROVE  /\ Emitted(Instr, m) = Sig(<< ValType(LocalTy(Instr.idx)) >>, << >>)
               /\ EmitPanics(Instr, m) <=> InstrGap
    BY <1>11, LowerFacts DEF StoreLocal, At, Emitted, EmitPanics, InstrGap
  <2>3. Lower(<< >>) = << >> /\ Len(<< ValType(LocalTy(Instr.idx)) >>) = 1
    BY LowerFacts
  <2>4. IsSuffix(<< ValType(LocalTy(Instr.idx)) >>, wstack)
    BY <2>1, FewOnTop, ValTypes
  <2>5. NotesIt
    BY <1>11, <2>1, NotesAre DEF StoreLocal, At, NotesIt
  <2> QED
    BY <1>11, <2>1, <2>2, <2>3, <2>4, <2>5, ArmPasses DEF StoreLocal, At
<1>12. CASE LoadGlobalFunc
  <2>1. /\ 0 <= Len(stack) /\ Instr.name \in DOMAIN FuncTypes
        /\ Moves(0, << FuncTypes[Instr.name] >>) /\ info' = info
    BY <1>12, DeclarationsAssumption DEF LoadGlobalFunc, Types, Moves
  <2>2. ASSUME NEW m, MetaRight(m)
        PROVE  Emitted(Instr, m) = Sig(<< >>, << "i32" >>) /\ (EmitPanics(Instr, m) <=> InstrGap)
    BY <1>12, LowerFacts DEF LoadGlobalFunc, At, Emitted, EmitPanics, InstrGap
  <2>3. Lower(<< FuncTypes[Instr.name] >>) = << "i32" >> /\ Len(<< >>) = 0
    BY <2>1, LowerFacts, ValTypes, DeclarationsAssumption
  <2>4. IsSuffix(<< >>, wstack)
    BY FewOnTop
  <2>5. NotesIt
    BY <1>12, <2>1, NotesAre DEF LoadGlobalFunc, At, NotesIt
  <2> QED
    BY <1>12, <2>1, <2>2, <2>3, <2>4, <2>5, ArmPasses DEF LoadGlobalFunc, At
<1>13. CASE LoadGlobal
  <2>1. /\ 0 <= Len(stack) /\ Instr.name \in DOMAIN GlobalTypes
        /\ Moves(0, << GlobalTypes[Instr.name] >>) /\ info' = info
    BY <1>13, DeclarationsAssumption DEF LoadGlobal, Types, Moves
  <2>2. ASSUME NEW m, MetaRight(m)
        PROVE  /\ Emitted(Instr, m) = Sig(<< >>, << ValType(GlobalTypes[Instr.name]) >>)
               /\ EmitPanics(Instr, m) <=> InstrGap
    BY <1>13, LowerFacts DEF LoadGlobal, At, Emitted, EmitPanics, InstrGap
  <2>3. Lower(<< GlobalTypes[Instr.name] >>) = << ValType(GlobalTypes[Instr.name]) >> /\ Len(<< >>) = 0
    BY LowerFacts
  <2>4. IsSuffix(<< >>, wstack)
    BY FewOnTop
  <2>5. NotesIt
    BY <1>13, <2>1, NotesAre DEF LoadGlobal, At, NotesIt
  <2> QED
    BY <1>13, <2>1, <2>2, <2>3, <2>4, <2>5, ArmPasses DEF LoadGlobal, At
<1>14. CASE StoreGlobal
  <2>1. /\ 1 <= Len(stack) /\ Nth(1) = GlobalTypes[Instr.name]
        /\ Moves(1, << >>) /\ info' = info
    BY <1>14 DEF StoreGlobal, Types, Moves
  <2>2. ASSUME NEW m, MetaRight(m)
        PROVE  /\ Emitted(Instr, m) = Sig(<< ValType(GlobalTypes[Instr.name]) >>, << >>)
               /\ EmitPanics(Instr, m) <=> InstrGap
    BY <1>14, LowerFacts DEF StoreGlobal, At, Emitted, EmitPanics, InstrGap
  <2>3. Lower(<< >>) = << >> /\ Len(<< ValType(GlobalTypes[Instr.name]) >>) = 1
    BY LowerFacts
  <2>4. IsSuffix(<< ValType(GlobalTypes[Instr.name]) >>, wstack)
    BY <2>1, FewOnTop, ValTypes
  <2>5. NotesIt
    BY <1>14, <2>1, NotesAre DEF StoreGlobal, At, NotesIt
  <2> QED
    BY <1>14, <2>1, <2>2, <2>3, <2>4, <2>5, ArmPasses DEF StoreGlobal, At
<1>15. CASE Bitcast
  <2>1. /\ 1 <= Len(stack)
        /\ Moves(1, << Instr.ty >>) /\ info' = Note("from", Nth(1))
    BY <1>15, AtWorkFacts DEF Bitcast, At, Types, Moves, Typed
  <2>2. ASSUME NEW m, MetaRight(m)
        PROVE  /\ Emitted(Instr, m) = Sig(<< ValType(Nth(1)) >>, << ValType(Instr.ty) >>)
               /\ EmitPanics(Instr, m) <=> InstrGap
    BY <1>15, <2>2, LowerFacts DEF Bitcast, At, Emitted, EmitPanics, InstrGap, MetaRight
  <2>3. Lower(<< Instr.ty >>) = << ValType(Instr.ty) >> /\ Len(<< ValType(Nth(1)) >>) = 1
    BY LowerFacts
  <2>4. IsSuffix(<< ValType(Nth(1)) >>, wstack)
    BY <2>1, FewOnTop, ValTypes
  <2>5. NotesIt
    BY <1>15, <2>1, NotesAre DEF Bitcast, At, NotesIt, NoteFits
  <2> QED
    BY <1>15, <2>1, <2>2, <2>3, <2>4, <2>5, ArmPasses DEF Bitcast, At
<1>16. CASE ReadMemory
  <2>1. /\ 1 <= Len(stack) /\ ~IsStruct(Instr.ty) /\ IsPtr(Nth(1))
        /\ Moves(1, << Instr.ty >>) /\ info' = info
    BY <1>16, AtWorkFacts DEF ReadMemory, At, Types, Moves, Typed
  <2>2. ASSUME NEW m, MetaRight(m)
        PROVE  /\ Emitted(Instr, m) = Sig(<< "i32" >>, << ValType(Instr.ty) >>)
               /\ EmitPanics(Instr, m) <=> InstrGap
    <3>1. Emitted(Instr, m) = Sig(<< "i32" >>, << ValType(Instr.ty) >>)
      BY <1>16, LowerFacts DEF ReadMemory, At, Emitted
    <3>2. ~IsInt(Instr.ty) /\ ~IsFloat(Instr.ty) <=> IsPtr(Instr.ty) \/ IsFunc(Instr.ty)
      BY <1>16, <2>1, AtWorkFacts, ValTypes, TypesAssumption DEF ReadMemory, At, Typed
    <3> QED
      BY <1>16, <3>1, <3>2 DEF ReadMemory, At, EmitPanics, InstrGap
  <2>3. Lower(<< Instr.ty >>) = << ValType(Instr.ty) >> /\ Len(<< "i32" >>) = 1
    BY LowerFacts
  <2>4. IsSuffix(<< "i32" >>, wstack)
    BY <2>1, FewOnTop, ValTypes
  <2>5. NotesIt
    BY <1>16, <2>1, NotesAre DEF ReadMemory, At, NotesIt
  <2> QED
    BY <1>16, <2>1, <2>2, <2>3, <2>4, <2>5, ArmPasses DEF ReadMemory, At
<1>17. CASE WriteMemory
  <2>1. /\ 2 <= Len(stack) /\ ~IsStruct(Instr.ty) /\ Nth(1) = Instr.ty /\ IsPtr(Nth(2))
        /\ Moves(2, << >>) /\ info' = info
    BY <1>17 DEF WriteMemory, Types, Moves
  <2>2. ASSUME NEW m, MetaRight(m)
        PROVE  /\ Emitted(Instr, m) = Sig(<< "i32", ValType(Instr.ty) >>, << >>)
               /\ EmitPanics(Instr, m) <=> InstrGap
    <3>1. << "i32" >> \o << ValType(Instr.ty) >> = << "i32", ValType(Instr.ty) >>
      BY PairIsConcat, ValTypes
    <3>2. Emitted(Instr, m) = Sig(I32(1) \o Lower(<< Instr.ty >>), I32(0))
      BY <1>17 DEF WriteMemory, At, Emitted
    <3>3. Emitted(Instr, m) = Sig(<< "i32", ValType(Instr.ty) >>, << >>)
      BY <3>1, <3>2, LowerFacts
    <3>4. ~IsInt(Instr.ty) /\ ~IsFloat(Instr.ty) <=> IsPtr(Instr.ty) \/ IsFunc(Instr.ty)
      BY <2>1, AtWorkFacts, ValTypes, TypesAssumption
    <3> QED
      BY <1>17, <3>3, <3>4 DEF WriteMemory, At, EmitPanics, InstrGap
  <2>3. Lower(<< >>) = << >> /\ Len(<< "i32", ValType(Instr.ty) >>) = 2
    BY LowerFacts
  <2>4. IsSuffix(<< "i32", ValType(Instr.ty) >>, wstack)
    BY <2>1, FewOnTop, ValTypes
  <2>5. NotesIt
    BY <1>17, <2>1, NotesAre DEF WriteMemory, At, NotesIt
  <2> QED
    BY <1>17, <2>1, <2>2, <2>3, <2>4, <2>5, ArmPasses DEF WriteMemory, At
<1>18. CASE OffsetPtr
  <2>1. /\ 2 <= Len(stack) /\ IsInt(Nth(1)) /\ IsPtr(Nth(2))
        /\ Moves(2, << Ptr >>) /\ info' = info
    BY <1>18, AtWorkFacts DEF OffsetPtr, Types, Moves
  <2>2. ASSUME NEW m, MetaRight(m)
        PROVE  Emitted(Instr, m) = Sig(<< "i32", "i32" >>, << "i32" >>) /\ (EmitPanics(Instr, m) <=> InstrGap)
    BY <1>18, LowerFacts DEF OffsetPtr, At, Emitted, EmitPanics, InstrGap
  <2>3. Lower(<< Ptr >>) = << "i32" >> /\ Len(<< "i32", "i32" >>) = 2
    BY LowerFacts, ValTypes
  <2>4. IsSuffix(<< "i32", "i32" >>, wstack)
    BY <2>1, FewOnTop, ValTypes
  <2>5. NotesIt
    BY <1>18, <2>1, NotesAre DEF OffsetPtr, At, NotesIt
  <2> QED
    BY <1>18, <2>1, <2>2, <2>3, <2>4, <2>5, ArmPasses DEF OffsetPtr, At
<1>19. CASE FieldPtr
  <2>1. /\ 1 <= Len(stack) /\ IsStruct(Instr.ty) /\ Instr.idx <= Len(Instr.ty.fields) /\ IsPtr(Nth(1))
        /\ Moves(1, << Ptr >>) /\ info' = info
    BY <1>19, AtWorkFacts DEF FieldPtr, Types, Moves
  <2>2. ASSUME NEW m, MetaRight(m)
        PROVE  Emitted(Instr, m) = Sig(<< "i32" >>, << "i32" >>) /\ (EmitPanics(Instr, m) <=> InstrGap)
    <3>1. Instr.idx \in Nat /\ Len(Instr.ty.fields) \in Nat
      <4>1. Instr.ty.fields \in Seq(Interned)
        BY <1>19, <2>1, AtWorkFacts, TypesAssumption DEF FieldPtr, At, Typed
      <4> QED
        BY <1>19, AtWorkFacts DEF FieldPtr, At
    <3>2. Emitted(Instr, m) = Sig(<< "i32" >>, << "i32" >>)
      BY <1>19, LowerFacts DEF FieldPtr, At, Emitted
    <3>3. Instr.idx >= Len(Instr.ty.fields) <=> Instr.idx = Len(Instr.ty.fields)
      BY <2>1, <3>1
    <3> QED
      BY <1>19, <3>2, <3>3 DEF FieldPtr, At, EmitPanics, InstrGap
  <2>3. Lower(<< Ptr >>) = << "i32" >> /\ Len(<< "i32" >>) = 1
    BY LowerFacts, ValTypes
  <2>4. IsSuffix(<< "i32" >>, wstack)
    BY <2>1, FewOnTop, ValTypes
  <2>5. NotesIt
    BY <1>19, <2>1, NotesAre DEF FieldPtr, At, NotesIt
  <2> QED
    BY <1>19, <2>1, <2>2, <2>3, <2>4, <2>5, ArmPasses DEF FieldPtr, At
<1>20. CASE Discard
  <2>1. /\ 1 <= Len(stack)
        /\ Moves(1, << >>) /\ info' = info
    BY <1>20 DEF Discard, Types, Moves
  <2>2. ASSUME NEW m, MetaRight(m)
        PROVE  Emitted(Instr, m) = Sig(<< ValType(Nth(1)) >>, << >>) /\ (EmitPanics(Instr, m) <=> InstrGap)
    <3>1. SubSeq(wstack, Len(wstack), Len(wstack)) = << ValType(Nth(1)) >>
      <4>1. /\ stack \in Seq(Interned) /\ wstack \in Seq(WasmTypes)
            /\ Len(wstack) = Len(stack) /\ Len(stack) \in Nat \ {0}
        BY <2>1, LowerFacts DEF AtWork
      <4>2. Len(stack) + 1 - 1 = Len(stack) /\ Len(stack) \in 1 .. Len(stack)
        BY <4>1
      <4>3. wstack[Len(wstack)] = ValType(Nth(1))
        BY <4>1 DEF AtWork, Lower, Nth
      <4> QED
        BY <4>1, <4>3, LastOfSeq
    <3> QED
      BY <1>20, <3>1, LowerFacts DEF Discard, At, Emitted, EmitPanics, InstrGap
  <2>3. Lower(<< >>) = << >> /\ Len(<< ValType(Nth(1)) >>) = 1
    BY LowerFacts
  <2>4. IsSuffix(<< ValType(Nth(1)) >>, wstack)
    BY <2>1, FewOnTop, ValTypes
  <2>5. NotesIt
    BY <1>20, <2>1, NotesAre DEF Discard, At, NotesIt
  <2> QED
    BY <1>20, <2>1, <2>2, <2>3, <2>4, <2>5, ArmPasses DEF Discard, At
<1>21. CASE LoadAddress
  <2>1. /\ 0 <= Len(stack)
        /\ Moves(0, << Ptr >>) /\ info' = info
    BY <1>21, AtWorkFacts DEF LoadAddress, Types, Moves
  <2>2. ASSUME NEW m, MetaRight(m)
        PROVE  Emitted(Instr, m) = Sig(<< >>, << "i32" >>) /\ (EmitPanics(Instr, m) <=> InstrGap)
    BY <1>21, LowerFacts DEF LoadAddress, At, Emitted, EmitPanics, InstrGap
  <2>3. Lower(<< Ptr >>) = << "i32" >> /\ Len(<< >>) = 0
    BY LowerFacts, ValTypes
  <2>4. IsSuffix(<< >>, wstack)
    BY FewOnTop
  <2>5. NotesIt
    BY <1>21, <2>1, NotesAre DEF LoadAddress, At, NotesIt
  <2> QED
    BY <1>21, <2>1, <2>2, <2>3, <2>4, <2>5, ArmPasses DEF LoadAddress, At
<1>22. CASE MemorySize
  <2>1. /\ 0 <= Len(stack)
        /\ Moves(0, << Int32 >>) /\ info' = info
    BY <1>22, AtWorkFacts DEF MemorySize, Types, Moves
  <2>2. ASSUME NEW m, MetaRight(m)
        PROVE  Emitted(Instr, m) = Sig(<< >>, << "i32" >>) /\ (EmitPanics(Instr, m) <=> InstrGap)
    BY <1>22, LowerFacts DEF MemorySize, At, Emitted, EmitPanics, InstrGap
  <2>3. Lower(<< Int32 >>) = << "i32" >> /\ Len(<< >>) = 0
    BY LowerFacts, ValTypes
  <2>4. IsSuffix(<< >>, wstack)
    BY FewOnTop
  <2>5. NotesIt
    BY <1>22, <2>1, NotesAre DEF MemorySize, At, NotesIt
  <2> QED
    BY <1>22, <2>1, <2>2, <2>3, <2>4, <2>5, ArmPasses DEF MemorySize, At
<1> QED
  BY <1>1, <1>2, <1>3, <1>4, <1>5, <1>6, <1>7, <1>8, <1>9, <1>10, <1>11, <1>12, <1>13, <1>14, <1>15, <1>16, <1>17, <1>18, <1>19, <1>20, <1>21, <1>22

\* On a stack of its own length, a suffix is the stack.
LEMMA FullOnTop ==
  ASSUME AtWork, NEW pop \in Seq(WasmTypes), Len(pop) = Len(stack)
  PROVE  IsSuffix(pop, wstack) <=> pop = wstack
<1>1. stack \in Seq(Interned) /\ wstack \in Seq(WasmTypes) /\ Len(wstack) = Len(stack)
  BY LowerFacts DEF AtWork
<1>2. \A k \in 1 .. Len(stack) : wstack[k] = ValType(Nth(Len(stack) + 1 - k))
  <2> SUFFICES ASSUME NEW k \in 1 .. Len(stack)
               PROVE  wstack[k] = ValType(Nth(Len(stack) + 1 - k))
    OBVIOUS
  <2>1. Len(stack) + 1 - (Len(stack) + 1 - k) = k
    BY <1>1
  <2> QED
    BY <2>1 DEF AtWork, Lower, Nth
<1>3. ASSUME NEW k \in 1 .. Len(stack)
      PROVE  Len(stack) + 1 - k \in 1 .. Len(stack) /\ Len(stack) + 1 - (Len(stack) + 1 - k) = k
  BY <1>1
<1>4. (\A k \in 1 .. Len(stack) : pop[Len(stack) + 1 - k] = ValType(Nth(k)))
        <=> \A k \in 1 .. Len(stack) : pop[k] = wstack[k]
  BY <1>2, <1>3
<1>5. pop = wstack <=> \A k \in 1 .. Len(stack) : pop[k] = wstack[k]
  BY <1>1, SeqEqual
<1> QED
  BY <1>1, <1>4, <1>5, OnTop

\* Lowered arguments are their own reverse if they read the same backwards.
LEMMA ReversedArgs ==
  ASSUME NEW args \in Seq(Interned)
  PROVE  ~Reversed(args) <=>
           \A k \in 1 .. Len(args) : Lower(args)[Len(args) + 1 - k] = ValType(args[k])
<1> DEFINE l == Lower(args)  r == Reverse(l)
<1>1. l \in Seq(WasmTypes) /\ Len(l) = Len(args) /\ \A k \in 1 .. Len(args) : l[k] = ValType(args[k])
  <2>1. l \in Seq(WasmTypes) /\ Len(l) = Len(args)
    BY LowerFacts
  <2> QED
    BY <2>1 DEF Lower
<1> HIDE DEF l
<1>2. /\ r \in Seq(WasmTypes) /\ Len(r) = Len(args)
      /\ \A k \in 1 .. Len(args) : r[k] = l[Len(args) - k + 1]
  BY <1>1 DEF Reverse
<1> HIDE DEF r
<1>3. \A k \in 1 .. Len(args) : Len(args) - k + 1 = Len(args) + 1 - k
  OBVIOUS
<1>4. l = r <=> \A k \in 1 .. Len(args) : l[Len(args) + 1 - k] = l[k]
  BY <1>1, <1>2, <1>3, SeqEqual
<1> QED
  BY <1>1, <1>4 DEF Reversed, l, r

\* Arguments compared from the first one on fit what is called if their order
\* makes no difference.
LEMMA CallFits ==
  ASSUME AtWork, NEW args \in Seq(Interned), ArgsOnTop(0, args)
  PROVE  Lower(args) \in Seq(WasmTypes) /\ (IsSuffix(Lower(args), wstack) <=> ~Reversed(args))
<1>1. Lower(args) \in Seq(WasmTypes) /\ Len(Lower(args)) = Len(args)
  BY LowerFacts
<1>2. Len(args) <= Len(stack) /\ \A k \in 1 .. Len(args) : Nth(k) = args[k]
  BY DEF ArgsOnTop
<1> QED
  BY <1>1, <1>2, OnTop, ReversedArgs

\* The function that is called lies on top of its arguments.
LEMMA IndirectFits ==
  ASSUME AtWork, NEW args \in Seq(Interned), ArgsOnTop(1, args), ValType(Nth(1)) = "i32"
  PROVE  /\ Len(Lower(args) \o I32(1)) = 1 + Len(args)
         /\ IsSuffix(Lower(args) \o I32(1), wstack) <=> ~Reversed(args)
<1> DEFINE l == Lower(args)  one == << "i32" >>  pop == l \o one
<1>1. l \in Seq(WasmTypes) /\ Len(l) = Len(args)
  BY LowerFacts
<1>2. one \in Seq(WasmTypes) /\ Len(one) = 1 /\ one[1] = "i32"
  BY DEF WasmTypes
<1> HIDE DEF l, one
<1>3. /\ pop \in Seq(WasmTypes) /\ Len(pop) = Len(l) + Len(one)
      /\ \A k \in 1 .. Len(l) + Len(one) : pop[k] = IF k <= Len(l) THEN l[k] ELSE one[k - Len(l)]
  <2>1. l \in Seq(WasmTypes) /\ one \in Seq(WasmTypes)
    BY <1>1, <1>2
  <2> QED
    BY <2>1, ConcatProperties, Zenon
<1> HIDE DEF pop
<1>4. Len(args) \in Nat /\ Len(pop) = Len(args) + 1 /\ Len(stack) \in Nat
  BY <1>1, <1>2, <1>3 DEF AtWork
<1>5. 1 + Len(args) <= Len(stack) /\ \A k \in 1 .. Len(args) : Nth(1 + k) = args[k]
  BY DEF ArgsOnTop
<1>6. (\A k \in 1 .. Len(args) + 1 : pop[Len(args) + 1 + 1 - k] = ValType(Nth(k)))
        <=> \A k \in 1 .. Len(args) : l[Len(args) + 1 - k] = ValType(args[k])
  <2>1. pop[Len(args) + 1 + 1 - 1] = ValType(Nth(1))
    BY <1>1, <1>2, <1>3, <1>4
  <2>2. ASSUME NEW k \in 1 .. Len(args)
        PROVE  /\ k + 1 \in 1 .. Len(args) + 1
               /\ pop[Len(args) + 1 + 1 - (k + 1)] = l[Len(args) + 1 - k]
               /\ Nth(k + 1) = args[k]
    <3>1. Len(args) + 1 + 1 - (k + 1) = Len(args) + 1 - k /\ 1 + k = k + 1
      BY <1>4
    <3>2. Len(args) + 1 - k \in 1 .. Len(args) /\ k + 1 \in 1 .. Len(args) + 1
      BY <1>4
    <3>3. pop[Len(args) + 1 - k] = l[Len(args) + 1 - k]
      BY <1>1, <1>2, <1>3, <1>4, <3>2
    <3> QED
      BY <1>5, <3>1, <3>2, <3>3
  <2>3. ASSUME NEW k \in 1 .. Len(args) + 1, k # 1
        PROVE  k - 1 \in 1 .. Len(args) /\ (k - 1) + 1 = k
    BY <1>4, <2>3
  <2>4. ASSUME \A k \in 1 .. Len(args) : l[Len(args) + 1 - k] = ValType(args[k]),
               NEW k \in 1 .. Len(args) + 1
        PROVE  pop[Len(args) + 1 + 1 - k] = ValType(Nth(k))
    <3>1. CASE k = 1
      BY <2>1, <3>1
    <3>2. CASE k # 1
      <4> DEFINE j == k - 1
      <4>1. j \in 1 .. Len(args) /\ j + 1 = k
        BY <2>3, <3>2
      <4> HIDE DEF j
      <4>2. pop[Len(args) + 1 + 1 - (j + 1)] = ValType(Nth(j + 1))
        BY <2>2, <2>4, <4>1
      <4> QED
        BY <4>1, <4>2
    <3> QED
      BY <3>1, <3>2
  <2>5. ASSUME \A k \in 1 .. Len(args) + 1 : pop[Len(args) + 1 + 1 - k] = ValType(Nth(k)),
               NEW k \in 1 .. Len(args)
        PROVE  l[Len(args) + 1 - k] = ValType(args[k])
    BY <2>2, <2>5
  <2> QED
    BY <2>4, <2>5
<1>7. IsSuffix(pop, wstack) <=> \A k \in 1 .. Len(args) + 1 : pop[Len(args) + 1 + 1 - k] = ValType(Nth(k))
  <2>1. Len(pop) <= Len(stack)
    BY <1>4, <1>5
  <2>2. IsSuffix(pop, wstack) <=> \A k \in 1 .. Len(pop) : pop[Len(pop) + 1 - k] = ValType(Nth(k))
    BY <1>3, <2>1, OnTop
  <2> QED
    BY <1>4, <2>2
<1>8. I32(1) = one
  BY LowerFacts DEF one
<1> QED
  BY <1>4, <1>6, <1>7, <1>8, ReversedArgs DEF pop, l

\* A call is valid unless its arguments are of another order than the stack's.
LEMMA CallArms ==
  ASSUME AtWork, CallDirect \/ CallIndirect
  PROVE  Reject \/ Passes
<1> SUFFICES ASSUME ~Reject PROVE Passes
  OBVIOUS
<1>1. CASE CallDirect
  <2> DEFINE ty == FuncTypes[Instr.name]
  <2>1. Instr.op = "CallDirect" /\ Instr.name \in DOMAIN FuncTypes /\ ArgsOnTop(0, ty.args)
    BY <1>1 DEF CallDirect, At, Types
  <2>2. ty.args \in Seq(Interned) /\ ty.ret \in Seq(Interned)
    BY <2>1, DeclarationsAssumption, TypesAssumption
  <2>3. Moves(Len(ty.args), ty.ret)
    <3>1. /\ stack' = SubSeq(stack, 1, Len(stack) - Len(ty.args)) \o ty.ret
          /\ Proceed /\ Len(stack) >= Len(ty.args)
      BY <1>1 DEF CallDirect, Types
    <3>2. Len(stack) \in Nat /\ Len(ty.args) \in Nat
      BY <2>2 DEF AtWork
    <3>3. Len(ty.args) \in 0 .. Len(stack)
      BY <3>1, <3>2
    <3> QED
      BY <2>2, <3>1, <3>3 DEF Moves
  <2>4. CodeFits(Len(ty.args), ty.ret)
    <3> SUFFICES ASSUME NEW m, MetaRight(m)
                 PROVE  /\ Len(Emitted(Instr, m).pop) = Len(ty.args)
                        /\ Emitted(Instr, m).push = Lower(ty.ret)
                        /\ ~EmitPanics(Instr, m) /\ Valid(Instr, Emitted(Instr, m), wstack) <=> ~InstrGap
      BY DEF CodeFits
    <3>1. Emitted(Instr, m) = Sig(Lower(ty.args), Lower(ty.ret)) /\ ~EmitPanics(Instr, m)
      BY <2>1 DEF Emitted, EmitPanics
    <3>2. Valid(Instr, Emitted(Instr, m), wstack) <=> IsSuffix(Lower(ty.args), wstack)
      BY <2>1, <3>1 DEF Valid, Sig
    <3>3. InstrGap <=> Reversed(ty.args)
      BY <2>1 DEF InstrGap
    <3>4. Len(Lower(ty.args)) = Len(ty.args)
      BY <2>2, LowerFacts
    <3> QED
      BY <2>1, <2>2, <3>1, <3>2, <3>3, <3>4, CallFits DEF Sig
  <2>5. info' = info
    BY <1>1 DEF CallDirect, Types
  <2>6. NotesIt /\ RefersRight
    BY <2>1, <2>5, NotesAre DEF NotesIt, RefersRight
  <2> QED
    BY <2>3, <2>4, <2>6 DEF Passes
<1>2. CASE CallIndirect
  <2> DEFINE ty == Nth(1)
  <2>1. Instr.op = "CallIndirect" /\ stack # << >> /\ IsFunc(ty) /\ ArgsOnTop(1, ty.args)
    BY <1>2 DEF CallIndirect, At, Types
  <2>2. ty.args \in Seq(Interned) /\ ty.ret \in Seq(Interned) /\ ValType(ty) = "i32"
    <3>1. 1 \in 1 .. Len(stack)
      BY <2>1 DEF AtWork
    <3> QED
      BY <2>1, <3>1, AtWorkFacts, TypesAssumption, ValTypes
  <2>3. Moves(1 + Len(ty.args), ty.ret)
    <3>1. /\ stack' = SubSeq(stack, 1, Len(stack) - (1 + Len(ty.args))) \o ty.ret
          /\ Proceed /\ Len(stack) >= 1 + Len(ty.args)
      BY <1>2 DEF CallIndirect, Types
    <3>2. Len(stack) \in Nat /\ Len(ty.args) \in Nat
      BY <2>2 DEF AtWork
    <3>3. 1 + Len(ty.args) \in 0 .. Len(stack)
      BY <3>1, <3>2
    <3> QED
      BY <2>2, <3>1, <3>3 DEF Moves
  <2>4. CodeFits(1 + Len(ty.args), ty.ret)
    <3> SUFFICES ASSUME NEW m, MetaRight(m)
                 PROVE  /\ Len(Emitted(Instr, m).pop) = 1 + Len(ty.args)
                        /\ Emitted(Instr, m).push = Lower(ty.ret)
                        /\ ~EmitPanics(Instr, m) /\ Valid(Instr, Emitted(Instr, m), wstack) <=> ~InstrGap
      BY DEF CodeFits
    <3>1. m.ty = ty
      BY <2>1 DEF MetaRight
    <3> DEFINE pop == Lower(ty.args) \o I32(1)
    <3>2. Emitted(Instr, m) = Sig(pop, Lower(ty.ret)) /\ ~EmitPanics(Instr, m)
      BY <2>1, <3>1 DEF Emitted, EmitPanics
    <3>3. Len(pop) = 1 + Len(ty.args) /\ (IsSuffix(pop, wstack) <=> ~Reversed(ty.args))
      BY <2>1, <2>2, IndirectFits
    <3> HIDE DEF pop
    <3>4. Valid(Instr, Emitted(Instr, m), wstack) <=> IsSuffix(pop, wstack)
      BY <2>1, <3>2 DEF Valid, Sig
    <3>5. InstrGap <=> Reversed(ty.args)
      BY <2>1 DEF InstrGap
    <3> QED
      BY <3>2, <3>3, <3>4, <3>5 DEF Sig
  <2>5. info' = Note("ty", ty)
    BY <1>2 DEF CallIndirect, Types
  <2>6. NotesIt /\ RefersRight
    BY <2>1, <2>5, NotesAre DEF NotesIt, NoteFits, RefersRight
  <2> QED
    BY <2>3, <2>4, <2>6 DEF Passes
<1> QED
  BY <1>1, <1>2

\* The arms that refer to blocks or end them.
LEMMA BlockArms ==
  ASSUME AtWork, Branch \/ LoopBlock \/ Fail \/ Break
  PROVE  Reject \/ Passes
<1> SUFFICES ASSUME ~Reject PROVE Passes
  OBVIOUS
<1>1. CASE Branch
  <2> DEFINE returns == fn.ret[Instr.then]
  <2>1. /\ Instr.op = "IfElse" /\ IsInt(Nth(1)) /\ Instr.then \in Blocks(fn)
        /\ IF Instr.else = NoBlock THEN returns = << >>
           ELSE Instr.else \in Blocks(fn) /\ fn.ret[Instr.else] = returns
        /\ 1 <= Len(stack) /\ Proceed /\ info' = info
    BY <1>1 DEF Branch, At, Types
  <2>2. Moves(1, returns)
    <3>1. stack' = SubSeq(stack, 1, Len(stack) - 1) \o returns
      BY <1>1 DEF Branch, Types
    <3>2. 1 \in 0 .. Len(stack)
      BY <2>1 DEF AtWork
    <3> QED
      BY <2>1, <3>1, <3>2, AtWorkFacts DEF Moves
  <2>3. CodeFits(1, returns)
    <3> SUFFICES ASSUME NEW m, MetaRight(m)
                 PROVE  /\ Len(Emitted(Instr, m).pop) = 1
                        /\ Emitted(Instr, m).push = Lower(returns)
                        /\ ~EmitPanics(Instr, m) /\ Valid(Instr, Emitted(Instr, m), wstack) /\ ~InstrGap
      BY DEF CodeFits
    <3>1. /\ Emitted(Instr, m) = Sig(I32(1), Lower(returns))
          /\ ~EmitPanics(Instr, m) /\ ~InstrGap
      BY <2>1 DEF Emitted, EmitPanics, InstrGap
    <3>2. ElseReturns(Instr) = returns
      BY <2>1 DEF ElseReturns
    <3>3. IsSuffix(<< "i32" >>, wstack) /\ I32(1) = << "i32" >> /\ Len(<< "i32" >>) = 1
      BY <2>1, FewOnTop, ValTypes, LowerFacts DEF WasmTypes
    <3> QED
      BY <3>1, <3>2, <3>3 DEF Valid, Sig
  <2>4. NotesIt
    BY <2>1, NotesAre DEF NotesIt
  <2>5. RefersRight
    BY <2>1 DEF RefersRight, Refs, Ref
  <2> QED
    BY <2>2, <2>3, <2>4, <2>5 DEF Passes
<1>2. CASE LoopBlock
  <2>1. /\ Instr.op = "Loop" /\ Instr.block \in Blocks(fn) /\ fn.ret[Instr.block] = << >>
        /\ Proceed /\ info' = info
    BY <1>2 DEF LoopBlock, At, Types
  <2>2. Moves(0, << >>)
    <3>1. stack' = SubSeq(stack, 1, Len(stack) - 0) \o << >>
      BY <1>2 DEF LoopBlock, Types
    <3>2. 0 \in 0 .. Len(stack) /\ << >> \in Seq(Interned)
      BY DEF AtWork
    <3> QED
      BY <2>1, <3>1, <3>2 DEF Moves
  <2>3. CodeFits(0, << >>)
    <3> SUFFICES ASSUME NEW m, MetaRight(m)
                 PROVE  /\ Len(Emitted(Instr, m).pop) = 0
                        /\ Emitted(Instr, m).push = Lower(<< >>)
                        /\ ~EmitPanics(Instr, m) /\ Valid(Instr, Emitted(Instr, m), wstack) /\ ~InstrGap
      BY DEF CodeFits
    <3>1. /\ Emitted(Instr, m) = Sig(I32(0), I32(0))
          /\ ~EmitPanics(Instr, m) /\ ~InstrGap
      BY <2>1 DEF Emitted, EmitPanics, InstrGap
    <3>2. IsSuffix(<< >>, wstack) /\ Len(<< >>) = 0
      BY FewOnTop
    <3> QED
      BY <2>1, <3>1, <3>2, LowerFacts DEF Valid, Sig
  <2>4. NotesIt /\ RefersRight
    BY <2>1, NotesAre DEF NotesIt, RefersRight, Refs, Ref
  <2> QED
    BY <2>2, <2>3, <2>4 DEF Passes
<1>3. CASE Fail \/ Break
  <2>1. /\ Instr.op = "Fail" \/ (Instr.op = "Break" /\ cur \in DOMAIN fn.dist)
        /\ Proceed /\ info' = info
    BY <1>3 DEF Fail, Break, At, Types
  <2>2. Moves(0, << >>)
    <3>1. stack' = SubSeq(stack, 1, Len(stack) - 0) \o << >>
      BY <1>3 DEF Fail, Break, Types
    <3>2. 0 \in 0 .. Len(stack) /\ << >> \in Seq(Interned)
      BY DEF AtWork
    <3> QED
      BY <2>1, <3>1, <3>2 DEF Moves
  <2>3. CodeFits(0, << >>)
    <3> SUFFICES ASSUME NEW m, MetaRight(m)
                 PROVE  /\ Len(Emitted(Instr, m).pop) = 0
                        /\ Emitted(Instr, m).push = Lower(<< >>)
                        /\ ~EmitPanics(Instr, m) /\ Valid(Instr, Emitted(Instr, m), wstack) /\ ~InstrGap
      BY DEF CodeFits
    <3>1. /\ Emitted(Instr, m) = Sig(I32(0), I32(0))
          /\ ~EmitPanics(Instr, m) /\ ~InstrGap
      BY <2>1 DEF Emitted, EmitPanics, InstrGap
    <3>2. IsSuffix(<< >>, wstack) /\ Len(<< >>) = 0
      BY FewOnTop
    <3> QED
      BY <2>1, <3>1, <3>2, LowerFacts DEF Valid, Sig
  <2>4. NotesIt /\ RefersRight
    BY <2>1, NotesAre DEF NotesIt, RefersRight
  <2> QED
    BY <2>2, <2>3, <2>4 DEF Passes
<1> QED
  BY <1>1, <1>2, <1>3

\* A Return compares its single result, or nothing.
LEMMA ReturnArm ==
  ASSUME AtWork, Return
  PROVE  Reject \/ Overflows \/ Passes
<1> SUFFICES ASSUME ~Reject, ~Overflows PROVE Passes
  OBVIOUS
<1>1. Instr.op = "Return" /\ IsDiverging(Instr)
  BY DEF Return, At, IsDiverging
<1>2. stack \in Seq(Interned) /\ fn.rets \in Seq(Interned) /\ Len(stack) \in Nat
  BY AtWorkFacts DEF AtWork
<1>3. /\ Len(fn.rets) = Len(stack)
      /\ Len(stack) = 1 => Nth(1) = fn.rets[1]
      /\ info' = info /\ Proceed
  BY <1>1, <1>2 DEF Return, Types, Overflows
<1>4. \E n : Moves(n, << >>)
  <2>1. << >> \in Seq(Interned)
    OBVIOUS
  <2>2. \/ Len(stack) = 1 /\ stack' = SubSeq(stack, 1, Len(stack) - 1) \o << >>
        \/ stack' = SubSeq(stack, 1, Len(stack) - 0) \o << >>
    BY <1>2 DEF Return, Types, Overflows
  <2>3. \A n \in Nat : 0 \in 0 .. n /\ (n = 1 => 1 \in 0 .. n)
    OBVIOUS
  <2> QED
    BY <1>2, <1>3, <2>1, <2>2, <2>3 DEF Moves
<1>5. \A n, pushed : CodeFits(n, pushed)
  <2> SUFFICES ASSUME NEW m
               PROVE  ~EmitPanics(Instr, m) /\ Valid(Instr, Emitted(Instr, m), wstack) <=> ~InstrGap
    BY <1>1 DEF CodeFits
  <2>1. Emitted(Instr, m) = Sig(Lower(fn.rets), I32(0)) /\ ~EmitPanics(Instr, m)
    BY <1>1 DEF Emitted, EmitPanics
  <2>2. Valid(Instr, Emitted(Instr, m), wstack) <=> IsSuffix(Lower(fn.rets), wstack)
    BY <1>1, <2>1 DEF Valid, Sig
  <2>3. Lower(fn.rets) \in Seq(WasmTypes) /\ Len(Lower(fn.rets)) = Len(stack)
    BY <1>2, <1>3, LowerFacts
  <2>4. IsSuffix(Lower(fn.rets), wstack) <=> Lower(fn.rets) = Lower(stack)
    BY <2>3, FullOnTop DEF AtWork
  <2>5. InstrGap <=> Len(stack) > 1 /\ Lower(stack) # Lower(fn.rets)
    BY <1>1 DEF InstrGap
  <2>6. CASE Len(stack) > 1
    BY <2>1, <2>2, <2>4, <2>5, <2>6
  <2>7. CASE Len(stack) <= 1
    <3>1. \A k \in 1 .. Len(stack) : fn.rets[k] = stack[k]
      <4>1. Len(stack) = 0 \/ (Len(stack) = 1 /\ stack[1] = fn.rets[1])
        BY <1>2, <1>3, <2>7 DEF Nth
      <4> QED
        BY <4>1
    <3>2. fn.rets = stack
      BY <1>2, <1>3, <3>1, SeqEqual
    <3> QED
      BY <1>2, <2>1, <2>2, <2>4, <2>5, <2>7, <3>2
  <2> QED
    BY <1>2, <2>6, <2>7
<1>6. NotesIt /\ RefersRight
  BY <1>1, <1>3, NotesAre DEF NotesIt, RefersRight
<1> QED
  BY <1>4, <1>5, <1>6 DEF Passes

\* Every arm of verify_block refuses, overflows, or pops and pushes as its code does.
LEMMA Arms ==
  ASSUME AtWork, VerifyInstr
  PROVE  Reject \/ Overflows \/ Passes
BY SimpleArms, CallArms, BlockArms, ReturnArm DEF VerifyInstr

-----------------------------------------------------------------------------
(* The inductive invariant *)

\* Instruction n of block b has been verified.
Seen(b, n) ==
  /\ b \notin todo /\ Contract!Reached(fn, b, n)
  /\ b = cur => n < ip

\* The notes are those of what has been verified, each of its kind.
Recorded(notes) ==
  /\ DOMAIN notes = Contract!Kinds
  /\ \A kind \in Contract!Kinds :
       DOMAIN notes[kind] = { p \in Contract!NotedAt(fn, kind) : Seen(p[1], p[2]) }
  /\ \A p \in DOMAIN notes.ty : fn.body[p[1]][p[2]].op = "CallIndirect" /\ IsFunc(notes.ty[p])
  /\ \A p \in DOMAIN notes.from : fn.body[p[1]][p[2]].op = "Bitcast"
  /\ \A p \in DOMAIN notes.bws : IsInt(notes.bws[p])

\* What was verified is where it may be and refers to blocks there are.
SeenRefersRight ==
  \A b \in Blocks(fn) : \A n \in 1 .. Len(fn.body[b]) : Seen(b, n) =>
    /\ fn.body[b][n].op = "Break" => b \in DOMAIN fn.dist
    /\ \A a \in 1 .. Len(Refs(fn.body[b][n])) : Refs(fn.body[b][n])[a].block \in Blocks(fn)

\* Inside a block the stack holds interned types, those of WebAssembly's stack.
InBlock ==
  /\ cur \in Blocks(fn) \ todo /\ ip \in 1 .. Len(fn.body[cur]) + 1
  /\ Contract!Reached(fn, cur, ip)
  /\ stack \in Seq(Interned)
  /\ code = "ok" => wstack = Lower(stack)

TypedInv ==
  /\ fn \in Functions /\ pc \in {"structs", "blocks"} \cup Terminal
  /\ pc # "accepted" => meta = NoInfo
  /\ pc = "structs" => cur = NoBlock /\ info = NoInfo
  /\ pc = "blocks" => /\ todo \subseteq Blocks(fn)
                      /\ cur = NoBlock \/ InBlock
                      /\ Recorded(info) /\ SeenRefersRight
  /\ pc = "accepted" => todo = {} /\ cur = NoBlock /\ Recorded(meta)

-----------------------------------------------------------------------------
(* What has been verified, step by step *)

\* The operators of the contract are those of this module.
LEMMA ContractOps ==
  /\ \A i : Contract!Refs(i) = Refs(i)
  /\ \A i : Needs(i) \subseteq Contract!Notes(i)
  /\ \A f : Contract!Blocks(f) = Blocks(f)
  /\ \A f, b, n : Contract!Reached(f, b, n) <=> \A k \in 1 .. n - 1 : ~IsDiverging(f.body[b][k])
  /\ \A f, kind, p : p \in Contract!NotedAt(f, kind) <=>
       \E b \in Blocks(f) : \E n \in 1 .. Len(f.body[b]) :
         p = <<b, n>> /\ Contract!Reached(f, b, n) /\ kind \in Contract!Notes(f.body[b][n])
<1>1. \A i : Contract!Refs(i) = Refs(i)
  BY DEF Contract!Refs, Refs, Contract!Ref, Ref, Contract!NoBlock, NoBlock
<1>2. \A i : Contract!Needs(i) = Needs(i)
  BY DEF Contract!Needs, Needs
<1>3. \A i : Needs(i) \subseteq Contract!Notes(i)
  BY <1>2 DEF Contract!Notes, Needs
<1>4. \A f : Contract!Blocks(f) = Blocks(f)
  BY DEF Contract!Blocks, Blocks
<1>5. \A f, b, n : Contract!Reached(f, b, n) <=> \A k \in 1 .. n - 1 : ~IsDiverging(f.body[b][k])
  BY DEF Contract!Reached, Contract!IsDiverging, IsDiverging
<1>6. ASSUME NEW f, NEW kind, NEW p
      PROVE  p \in Contract!NotedAt(f, kind) <=>
               \E b \in Blocks(f) : \E n \in 1 .. Len(f.body[b]) :
                 p = <<b, n>> /\ Contract!Reached(f, b, n) /\ kind \in Contract!Notes(f.body[b][n])
  BY <1>4 DEF Contract!NotedAt
<1> QED
  BY <1>1, <1>3, <1>4, <1>5, <1>6

\* A note at an instruction is its pair of block and number.
LEMMA NotedPair ==
  ASSUME NEW f, NEW kind, NEW b, NEW n
  PROVE  <<b, n>> \in Contract!NotedAt(f, kind) <=>
           /\ b \in Blocks(f) /\ n \in 1 .. Len(f.body[b])
           /\ Contract!Reached(f, b, n) /\ kind \in Contract!Notes(f.body[b][n])
<1>1. \A b2, n2 : <<b, n>> = <<b2, n2>> <=> b = b2 /\ n = n2
  OBVIOUS
<1> QED
  BY <1>1, ContractOps

\* The blocks of a function are numbered, and NoBlock is none of them.
LEMMA BlocksAre ==
  ASSUME fn \in Functions
  PROVE  NoBlock \notin Blocks(fn) /\ \A b \in Blocks(fn) : b \in Nat /\ Len(fn.body[b]) \in Nat
BY ShapeAssumption DEF IsFunction, NoBlock

\* When the pass goes on, one more instruction has been verified.
LEMMA SeenAfterInstr ==
  ASSUME fn \in Functions, cur \in Blocks(fn) \ todo, ip \in 1 .. Len(fn.body[cur]),
         Contract!Reached(fn, cur, ip), Proceed
  PROVE  /\ \A b \in Blocks(fn) : \A n \in 1 .. Len(fn.body[b]) :
              Seen(b, n)' <=> Seen(b, n) \/ (b = cur /\ n = ip)
         /\ cur' # NoBlock => /\ cur' = cur /\ ip' = ip + 1
                              /\ Contract!Reached(fn, cur, ip + 1)
<1>1. ip \in Nat /\ ip >= 1 /\ cur # NoBlock /\ fn' = fn /\ todo' = todo
  BY BlocksAre DEF Proceed, unit
<1>2. \A k \in 1 .. ip - 1 : ~IsDiverging(fn.body[cur][k])
  BY ContractOps
<1>3. CASE IsDiverging(Instr)
  <2>1. cur' = NoBlock
    BY <1>3 DEF Proceed
  <2>2. ASSUME NEW n \in Nat, Contract!Reached(fn, cur, n), ~(n < ip)
        PROVE  n = ip
    <3>1. \A k \in 1 .. n - 1 : ~IsDiverging(fn.body[cur][k])
      BY <2>2, ContractOps
    <3>2. ~(ip \in 1 .. n - 1)
      BY <1>3, <3>1 DEF Instr
    <3> QED
      BY <1>1, <2>2, <3>2
  <2>3. ASSUME NEW b \in Blocks(fn), NEW n \in 1 .. Len(fn.body[b])
        PROVE  Seen(b, n)' <=> Seen(b, n) \/ (b = cur /\ n = ip)
    <3>1. b # NoBlock /\ n \in Nat
      BY BlocksAre
    <3>2. Seen(b, n)' <=> b \notin todo /\ Contract!Reached(fn, b, n)
      BY <1>1, <2>1, <3>1 DEF Seen
    <3>3. Seen(b, n) <=> b \notin todo /\ Contract!Reached(fn, b, n) /\ (b = cur => n < ip)
      BY DEF Seen
    <3> QED
      BY <2>2, <3>1, <3>2, <3>3
  <2> QED
    BY <2>1, <2>3
<1>4. CASE ~IsDiverging(Instr)
  <2>1. cur' = cur /\ ip' = ip + 1
    BY <1>4 DEF Proceed
  <2>2. Contract!Reached(fn, cur, ip + 1)
    <3>1. \A k \in 1 .. (ip + 1) - 1 : k \in 1 .. ip - 1 \/ k = ip
      BY <1>1
    <3> QED
      BY <1>2, <1>4, <3>1, ContractOps DEF Instr
  <2>3. ASSUME NEW b \in Blocks(fn), NEW n \in 1 .. Len(fn.body[b])
        PROVE  Seen(b, n)' <=> Seen(b, n) \/ (b = cur /\ n = ip)
    <3>1. n \in Nat /\ (n < ip + 1 <=> n < ip \/ n = ip)
      BY <1>1
    <3>2. Seen(b, n)' <=> b \notin todo /\ Contract!Reached(fn, b, n) /\ (b = cur => n < ip + 1)
      BY <1>1, <2>1 DEF Seen
    <3>3. Seen(b, n) <=> b \notin todo /\ Contract!Reached(fn, b, n) /\ (b = cur => n < ip)
      BY DEF Seen
    <3> QED
      BY <3>1, <3>2, <3>3
  <2> QED
    BY <2>1, <2>2, <2>3
<1> QED
  BY <1>3, <1>4

\* The end of a block leaves what has been verified as it is.
LEMMA SeenAtEnd ==
  ASSUME fn \in Functions, cur \in Blocks(fn), ip \in 1 .. Len(fn.body[cur]) + 1,
         ip > Len(fn.body[cur]), cur' = NoBlock, UNCHANGED <<fn, todo, ip>>
  PROVE  \A b \in Blocks(fn) : \A n \in 1 .. Len(fn.body[b]) : Seen(b, n)' <=> Seen(b, n)
<1> SUFFICES ASSUME NEW b \in Blocks(fn), NEW n \in 1 .. Len(fn.body[b])
             PROVE  Seen(b, n)' <=> Seen(b, n)
  OBVIOUS
<1>1. b # NoBlock /\ Len(fn.body[cur]) \in Nat
  BY BlocksAre
<1>2. b = cur => n < ip
  BY <1>1
<1> QED
  BY <1>1, <1>2 DEF Seen

\* So does the start of the next one.
LEMMA SeenAtStart ==
  ASSUME fn \in Functions, cur = NoBlock, NEW c \in todo, cur' = c, todo' = todo \ {c}, ip' = 1,
         UNCHANGED fn
  PROVE  \A b \in Blocks(fn) : \A n \in 1 .. Len(fn.body[b]) : Seen(b, n)' <=> Seen(b, n)
<1> SUFFICES ASSUME NEW b \in Blocks(fn), NEW n \in 1 .. Len(fn.body[b])
             PROVE  Seen(b, n)' <=> Seen(b, n)
  OBVIOUS
<1>1. b # NoBlock /\ ~(n < 1)
  BY BlocksAre
<1> QED
  BY <1>1 DEF Seen

\* What is noted for an instruction makes the notes those of one more.
LEMMA RecordedAfterInstr ==
  ASSUME fn \in Functions, cur \in Blocks(fn) \ todo, ip \in 1 .. Len(fn.body[cur]),
         Contract!Reached(fn, cur, ip), Proceed, Recorded(info), NotesIt
  PROVE  Recorded(info)'
<1>1. /\ fn' = fn
      /\ \A b \in Blocks(fn) : \A n \in 1 .. Len(fn.body[b]) :
           Seen(b, n)' <=> Seen(b, n) \/ (b = cur /\ n = ip)
  BY SeenAfterInstr DEF Proceed, unit
<1>2. ASSUME NEW kind
      PROVE  { p \in Contract!NotedAt(fn, kind) : Seen(p[1], p[2])' }
               = { p \in Contract!NotedAt(fn, kind) : Seen(p[1], p[2]) }
                   \cup (IF kind \in Contract!Notes(Instr) THEN { <<cur, ip>> } ELSE {})
  <2>1. <<cur, ip>> \in Contract!NotedAt(fn, kind) <=> kind \in Contract!Notes(Instr)
    BY NotedPair DEF Instr
  <2>2. ASSUME NEW p \in Contract!NotedAt(fn, kind)
        PROVE  Seen(p[1], p[2])' <=> Seen(p[1], p[2]) \/ p = <<cur, ip>>
    <3>1. PICK b \in Blocks(fn) : \E n \in 1 .. Len(fn.body[b]) : p = <<b, n>>
      BY ContractOps
    <3> PICK n \in 1 .. Len(fn.body[b]) : p = <<b, n>>
      BY <3>1
    <3>2. p[1] = b /\ p[2] = n /\ (p = <<cur, ip>> <=> b = cur /\ n = ip)
      OBVIOUS
    <3> QED
      BY <1>1, <3>2
  <2> QED
    BY <2>1, <2>2
<1>3. Recorded(info)' <=>
        /\ DOMAIN info' = Contract!Kinds
        /\ \A kind \in Contract!Kinds :
             DOMAIN info'[kind] = { p \in Contract!NotedAt(fn, kind) : Seen(p[1], p[2])' }
        /\ \A p \in DOMAIN info'.ty : fn.body[p[1]][p[2]].op = "CallIndirect" /\ IsFunc(info'.ty[p])
        /\ \A p \in DOMAIN info'.from : fn.body[p[1]][p[2]].op = "Bitcast"
        /\ \A p \in DOMAIN info'.bws : IsInt(info'.bws[p])
  BY <1>1 DEF Recorded
<1>4. CASE Contract!Notes(Instr) = {} /\ info' = info
  BY <1>2, <1>3, <1>4 DEF Recorded
<1>5. ASSUME NEW k \in {"bws", "from", "ty"}, NEW v,
             Contract!Notes(Instr) = {k}, info' = Note(k, v), NoteFits(k, v)
      PROVE  Recorded(info)'
  <2> DEFINE new == Insert(info[k], <<cur, ip>>, v)
  <2>1. DOMAIN new = DOMAIN info[k] \cup { <<cur, ip>> }
    BY DEF Insert
  <2>2. \A p \in DOMAIN new : new[p] = IF p = <<cur, ip>> THEN v ELSE info[k][p]
    BY DEF Insert
  <2>3. info' = [info EXCEPT ![k] = new]
    BY <1>5 DEF Note
  <2> HIDE DEF new
  <2>4. /\ DOMAIN info' = Contract!Kinds /\ info'[k] = new
        /\ \A kind \in Contract!Kinds : kind # k => info'[kind] = info[kind]
    BY <2>3 DEF Recorded, Contract!Kinds
  <2>5. \A kind \in Contract!Kinds :
          DOMAIN info'[kind] = { p \in Contract!NotedAt(fn, kind) : Seen(p[1], p[2])' }
    BY <1>2, <1>5, <2>1, <2>4 DEF Recorded
  <2>6. Instr = fn.body[<<cur, ip>>[1]][<<cur, ip>>[2]]
    BY DEF Instr
  <2>7. \A p \in DOMAIN info'.ty : fn.body[p[1]][p[2]].op = "CallIndirect" /\ IsFunc(info'.ty[p])
    BY <1>5, <2>1, <2>2, <2>4, <2>6 DEF Recorded, Contract!Kinds, NoteFits
  <2>8. \A p \in DOMAIN info'.from : fn.body[p[1]][p[2]].op = "Bitcast"
    BY <1>5, <2>1, <2>2, <2>4, <2>6 DEF Recorded, Contract!Kinds, NoteFits
  <2>9. \A p \in DOMAIN info'.bws : IsInt(info'.bws[p])
    BY <1>5, <2>1, <2>2, <2>4, <2>6 DEF Recorded, Contract!Kinds, NoteFits
  <2> QED
    BY <1>3, <2>4, <2>5, <2>7, <2>8, <2>9
<1> QED
  BY <1>4, <1>5 DEF NotesIt

\* Steps that verify nothing leave the notes those of what has been verified.
LEMMA RecordedSame ==
  ASSUME fn' = fn, Recorded(info), info' = info,
         \A b \in Blocks(fn) : \A n \in 1 .. Len(fn.body[b]) : Seen(b, n)' <=> Seen(b, n)
  PROVE  Recorded(info)'
<1>1. ASSUME NEW kind
      PROVE  { p \in Contract!NotedAt(fn, kind) : Seen(p[1], p[2])' }
               = { p \in Contract!NotedAt(fn, kind) : Seen(p[1], p[2]) }
  <2> SUFFICES ASSUME NEW p \in Contract!NotedAt(fn, kind)
               PROVE  Seen(p[1], p[2])' <=> Seen(p[1], p[2])
    OBVIOUS
  <2>1. PICK b \in Blocks(fn) : \E n \in 1 .. Len(fn.body[b]) : p = <<b, n>>
    BY ContractOps
  <2> PICK n \in 1 .. Len(fn.body[b]) : p = <<b, n>>
    BY <2>1
  <2>2. p[1] = b /\ p[2] = n
    OBVIOUS
  <2> QED
    BY <2>2
<1> QED
  BY <1>1 DEF Recorded

LEMMA RefersSame ==
  ASSUME fn' = fn, SeenRefersRight,
         \A b \in Blocks(fn) : \A n \in 1 .. Len(fn.body[b]) : Seen(b, n)' <=> Seen(b, n)
  PROVE  SeenRefersRight'
BY DEF SeenRefersRight

-----------------------------------------------------------------------------
(* Every step preserves the invariant *)

\* The state in which verify_block is at an instruction or at the end.
LEMMA InBlockFacts ==
  ASSUME TypedInv, pc = "blocks", cur # NoBlock
  PROVE  /\ fn \in Functions /\ InBlock /\ Recorded(info) /\ SeenRefersRight
         /\ code = "ok" /\ AtInstr => AtWork
BY DEF TypedInv, InBlock, AtWork, AtInstr

\* An accepted instruction leaves the notes and the place in the block right.
LEMMA PassesKeeps ==
  ASSUME TypedInv, pc = "blocks", cur # NoBlock, AtInstr, Passes
  PROVE  /\ fn' = fn /\ todo' = todo /\ pc' = "blocks" /\ meta' = meta
         /\ Recorded(info)' /\ SeenRefersRight'
         /\ cur' # NoBlock => /\ cur' = cur /\ ip' \in 1 .. Len(fn.body[cur]) + 1
                              /\ Contract!Reached(fn, cur, ip')
         /\ stack' \in Seq(Interned)
<1>1. /\ fn \in Functions /\ cur \in Blocks(fn) \ todo /\ ip \in 1 .. Len(fn.body[cur])
      /\ Contract!Reached(fn, cur, ip) /\ Recorded(info) /\ SeenRefersRight /\ stack \in Seq(Interned)
  BY InBlockFacts, BlocksAre DEF InBlock, AtInstr
<1>2. /\ Proceed /\ NotesIt /\ RefersRight
      /\ \E n, pushed : Moves(n, pushed)
  BY DEF Passes, Moves
<1>3. fn' = fn /\ todo' = todo /\ pc' = "blocks" /\ meta' = meta
  BY <1>2 DEF Proceed, unit
<1>4. Recorded(info)'
  BY <1>1, <1>2, RecordedAfterInstr
<1>5. /\ \A b \in Blocks(fn) : \A n \in 1 .. Len(fn.body[b]) :
           Seen(b, n)' <=> Seen(b, n) \/ (b = cur /\ n = ip)
      /\ cur' # NoBlock => cur' = cur /\ ip' = ip + 1 /\ Contract!Reached(fn, cur, ip + 1)
  BY <1>1, <1>2, SeenAfterInstr
<1>6. SeenRefersRight'
  <2> SUFFICES ASSUME NEW b \in Blocks(fn), NEW n \in 1 .. Len(fn.body[b]), Seen(b, n)'
               PROVE  /\ fn.body[b][n].op = "Break" => b \in DOMAIN fn.dist
                      /\ \A a \in 1 .. Len(Refs(fn.body[b][n])) :
                           Refs(fn.body[b][n])[a].block \in Blocks(fn)
    BY <1>3 DEF SeenRefersRight
  <2>1. CASE Seen(b, n)
    BY <1>1, <2>1 DEF SeenRefersRight
  <2>2. CASE b = cur /\ n = ip
    BY <1>2, <2>2 DEF RefersRight, Instr
  <2> QED
    BY <1>5, <2>1, <2>2
<1>7. ip + 1 \in 1 .. Len(fn.body[cur]) + 1
  BY <1>1, BlocksAre
<1>8. stack' \in Seq(Interned)
  <2>1. PICK n, pushed : Moves(n, pushed)
    BY <1>2
  <2>2. SubSeq(stack, 1, Len(stack) - n) \in Seq(Interned)
    BY <1>1, <2>1 DEF Moves
  <2> QED
    BY <2>1, <2>2, ConcatProperties, Zenon DEF Moves
<1> QED
  BY <1>3, <1>4, <1>5, <1>6, <1>7, <1>8

\* The types that compile_block retrieves are there, and the right ones.
LEMMA MetaIsRight ==
  ASSUME NotesIt, DOMAIN info = {"bws", "from", "ty"}
  PROVE  LET m == [k \in Noted(info', cur, ip) |-> info'[k][<<cur, ip>>]]
         IN  Needs(Instr) \subseteq DOMAIN m /\ MetaRight(m)
<1> DEFINE m == [k \in Noted(info', cur, ip) |-> info'[k][<<cur, ip>>]]
<1>1. Needs(Instr) \subseteq Contract!Notes(Instr)
  BY ContractOps
<1>2. CASE Contract!Notes(Instr) = {} /\ info' = info
  BY <1>1, <1>2, NotesAre DEF MetaRight
<1>3. ASSUME NEW k \in {"bws", "from", "ty"}, NEW v,
             Contract!Notes(Instr) = {k}, info' = Note(k, v), NoteFits(k, v)
      PROVE  Needs(Instr) \subseteq DOMAIN m /\ MetaRight(m)
  <2>1. k \in DOMAIN info' /\ info'[k] = Insert(info[k], <<cur, ip>>, v)
    BY <1>3 DEF Note
  <2>2. <<cur, ip>> \in DOMAIN info'[k] /\ info'[k][<<cur, ip>>] = v
    BY <2>1 DEF Insert
  <2>3. k \in DOMAIN m /\ m[k] = v
    BY <2>1, <2>2 DEF Noted
  <2>4. Needs(Instr) \subseteq DOMAIN m
    BY <1>1, <1>3, <2>3
  <2>5. MetaRight(m)
    BY <1>3, <2>3, NotesAre DEF MetaRight, NoteFits
  <2> QED
    BY <2>4, <2>5
<1> QED
  BY <1>2, <1>3 DEF NotesIt

\* As long as it is valid, the code leaves the types that the verifier expects.
LEMMA StackAfter ==
  ASSUME AtWork, NEW n, NEW pushed, Moves(n, pushed), NEW sig,
         Len(sig.pop) = n, sig.push = Lower(pushed)
  PROVE  After(sig, wstack) = Lower(stack')
<1>1. /\ stack \in Seq(Interned) /\ n \in 0 .. Len(stack) /\ pushed \in Seq(Interned)
      /\ stack' = SubSeq(stack, 1, Len(stack) - n) \o pushed /\ wstack = Lower(stack)
  BY DEF AtWork, Moves
<1>2. Lower(SubSeq(stack, 1, Len(stack) - n) \o pushed)
        = SubSeq(Lower(stack), 1, Len(Lower(stack)) - n) \o Lower(pushed)
  BY <1>1, LowerPops
<1> QED
  BY <1>1, <1>2 DEF After

\* The arms are for an instruction at hand.
LEMMA AtHand ==
  ASSUME VerifyInstr \/ EndBlock
  PROVE  pc = "blocks" /\ cur # NoBlock /\ (VerifyInstr => AtInstr)
BY DEF VerifyInstr, LoadInt, LoadFloat, IntBinary, FloatBinary, IntToFloat, FloatToInt, IntConvert,
       IntUnary, Bitwise, CallDirect, CallIndirect, LoadLocal, StoreLocal, LoadGlobalFunc, LoadGlobal,
       StoreGlobal, Bitcast, Branch, LoopBlock, ReadMemory, WriteMemory, OffsetPtr, FieldPtr, Discard,
       LoadAddress, MemorySize, Fail, Break, Return, At, AtInstr, EndBlock

\* What ends the pass inside a block is a refusal or an overflow.
LEMMA EndsOtherwise ==
  ASSUME TypedInv, code = "ok", VerifyInstr \/ EndBlock, pc' # "blocks"
  PROVE  Reject \/ (Overflows /\ AtInstr)
<1>1. pc = "blocks" /\ cur # NoBlock /\ (VerifyInstr => AtInstr)
  BY AtHand
<1>2. CASE VerifyInstr
  <2>1. AtWork
    BY <1>1, <1>2, InBlockFacts
  <2> QED
    BY <1>1, <1>2, <2>1, Arms DEF Passes, Moves, Proceed
<1>3. CASE EndBlock
  BY <1>1, <1>3 DEF EndBlock
<1> QED
  BY <1>2, <1>3

\* The code of an accepted instruction fails at the gaps, or keeps the stacks equal.
LEMMA InstrFits ==
  ASSUME TypedInv, TypedInstr
  PROVE  /\ AtInstr /\ cur # NoBlock /\ pc = "blocks" /\ Passes
         /\ code' # "ok" <=> InstrGap
         /\ cur' # NoBlock /\ code' = "ok" => wstack' = Lower(stack')
<1>1. pc = "blocks" /\ cur # NoBlock /\ AtInstr /\ code = "ok" /\ VerifyInstr /\ pc' = "blocks"
  BY AtHand DEF TypedInstr
<1>2. AtWork /\ DOMAIN info = {"bws", "from", "ty"}
  <2>1. AtInstr => ip \in 1 .. Len(fn.body[cur])
    BY <1>1, InBlockFacts, BlocksAre DEF InBlock, AtInstr
  <2> QED
    BY <1>1, <2>1, InBlockFacts DEF Recorded, Contract!Kinds
<1>3. Passes
  BY <1>1, <1>2, Arms DEF Reject, Overflows
<1>4. PICK n, pushed : Moves(n, pushed) /\ CodeFits(n, pushed)
  BY <1>3 DEF Passes
<1> DEFINE m   == [k \in Noted(info', cur, ip) |-> info'[k][<<cur, ip>>]]
           sig == Emitted(Instr, m)
<1>5. Needs(Instr) \subseteq DOMAIN m /\ MetaRight(m)
  BY <1>2, <1>3, MetaIsRight DEF Passes
<1>6. \/ /\ ~(~EmitPanics(Instr, m) /\ Valid(Instr, sig, wstack)) /\ code' # "ok"
      \/ /\ ~EmitPanics(Instr, m) /\ Valid(Instr, sig, wstack)
         /\ code' = "ok" /\ wstack' = After(sig, wstack)
  BY <1>1, <1>5 DEF TypedInstr
<1> HIDE DEF m
<1>7. /\ IsDiverging(Instr) \/ (Len(sig.pop) = n /\ sig.push = Lower(pushed))
      /\ ~EmitPanics(Instr, m) /\ Valid(Instr, sig, wstack) <=> ~InstrGap
  BY <1>4, <1>5 DEF CodeFits
<1>8. ASSUME cur' # NoBlock, code' = "ok"
      PROVE  wstack' = Lower(stack')
  <2>1. ~IsDiverging(Instr)
    BY <1>4, <1>8 DEF Moves, Proceed
  <2> QED
    BY <1>2, <1>4, <1>6, <1>7, <1>8, <2>1, StackAfter
<1> QED
  BY <1>1, <1>3, <1>6, <1>7, <1>8

\* Every step preserves the invariant.
LEMMA TypedSteps ==
  TypedInv /\ [TypedNext]_typedVars => TypedInv'
<1> SUFFICES ASSUME TypedInv, [TypedNext]_typedVars PROVE TypedInv'
  OBVIOUS
<1>1. CASE TypedInstr
  <2>1. /\ AtInstr /\ cur # NoBlock /\ pc = "blocks" /\ Passes
        /\ cur' # NoBlock /\ code' = "ok" => wstack' = Lower(stack')
    BY <1>1, InstrFits
  <2>2. /\ fn' = fn /\ todo' = todo /\ pc' = "blocks" /\ meta' = meta
        /\ Recorded(info)' /\ SeenRefersRight'
        /\ cur' # NoBlock => /\ cur' = cur /\ ip' \in 1 .. Len(fn.body[cur]) + 1
                             /\ Contract!Reached(fn, cur, ip')
        /\ stack' \in Seq(Interned)
    BY <2>1, PassesKeeps
  <2>3. cur \in Blocks(fn) \ todo /\ todo \subseteq Blocks(fn) /\ fn \in Functions /\ meta = NoInfo
    BY <2>1, InBlockFacts DEF InBlock, TypedInv
  <2>4. cur' # NoBlock => InBlock'
    BY <2>1, <2>2, <2>3 DEF InBlock
  <2> QED
    BY <2>2, <2>3, <2>4 DEF TypedInv
<1>2. CASE TypedEnd
  <2>1. /\ pc = "blocks" /\ cur # NoBlock /\ ip > Len(fn.body[cur]) /\ pc' = "blocks"
        /\ cur' = NoBlock /\ UNCHANGED <<unit, todo, ip, stack, info, meta>>
    BY <1>2 DEF TypedEnd, EndBlock, Reject
  <2>2. fn \in Functions /\ cur \in Blocks(fn) /\ ip \in 1 .. Len(fn.body[cur]) + 1
        /\ Recorded(info) /\ SeenRefersRight /\ todo \subseteq Blocks(fn) /\ meta = NoInfo
    BY <2>1, InBlockFacts DEF InBlock, TypedInv
  <2>3. \A b \in Blocks(fn) : \A n \in 1 .. Len(fn.body[b]) : Seen(b, n)' <=> Seen(b, n)
    BY <2>1, <2>2, SeenAtEnd DEF unit
  <2>4. Recorded(info)' /\ SeenRefersRight'
    BY <2>1, <2>2, <2>3, RecordedSame, RefersSame DEF unit
  <2> QED
    BY <2>1, <2>2, <2>4 DEF TypedInv, unit
<1>3. CASE TypedStart
  <2>1. /\ pc = "blocks" /\ cur = NoBlock /\ ip' = 1 /\ stack' = << >> /\ wstack' = << >>
        /\ UNCHANGED <<unit, pc, info, meta>>
    BY <1>3 DEF TypedStart, NextBlock
  <2>2. PICK c \in todo : cur' = c /\ todo' = todo \ {c}
    BY <1>3 DEF TypedStart, NextBlock
  <2>3. fn \in Functions /\ Recorded(info) /\ SeenRefersRight /\ todo \subseteq Blocks(fn) /\ meta = NoInfo
    BY <2>1 DEF TypedInv
  <2>4. \A b \in Blocks(fn) : \A n \in 1 .. Len(fn.body[b]) : Seen(b, n)' <=> Seen(b, n)
    BY <2>1, <2>2, <2>3, SeenAtStart DEF unit
  <2>5. Recorded(info)' /\ SeenRefersRight'
    BY <2>1, <2>3, <2>4, RecordedSame, RefersSame DEF unit
  <2>6. InBlock'
    <3>1. Len(fn.body[c]) \in Nat /\ 1 \in 1 .. Len(fn.body[c]) + 1 /\ c \in Blocks(fn)
      BY <2>3, BlocksAre
    <3>2. Contract!Reached(fn, c, 1)
      BY ContractOps
    <3>3. << >> \in Seq(Interned) /\ Lower(<< >>) = << >>
      BY LowerFacts
    <3> QED
      BY <2>1, <2>2, <3>1, <3>2, <3>3 DEF InBlock, unit
  <2> QED
    BY <2>1, <2>2, <2>3, <2>5, <2>6 DEF TypedInv, unit
<1>4. CASE TypedOther /\ CheckStructs
  <2>1. /\ pc = "structs" /\ UNCHANGED <<unit, cur, ip, stack, info, meta>>
        /\ (pc' = "rejected") \/ (pc' = "blocks" /\ todo' = Blocks(fn))
    BY <1>4 DEF CheckStructs
  <2>2. fn \in Functions /\ meta = NoInfo /\ info = NoInfo /\ cur = NoBlock
    BY <2>1 DEF TypedInv
  <2>3. CASE pc' = "blocks" /\ todo' = Blocks(fn)
    <3>1. \A b \in Blocks(fn) : \A n : ~Seen(b, n)'
      BY <2>1, <2>3 DEF Seen, unit
    <3>2. ASSUME NEW kind
          PROVE  { p \in Contract!NotedAt(fn, kind) : Seen(p[1], p[2])' } = {}
      <4> SUFFICES ASSUME NEW p \in Contract!NotedAt(fn, kind) PROVE ~Seen(p[1], p[2])'
        OBVIOUS
      <4>1. PICK b \in Blocks(fn) : \E n \in 1 .. Len(fn.body[b]) : p = <<b, n>>
        BY ContractOps
      <4> PICK n \in 1 .. Len(fn.body[b]) : p = <<b, n>>
        BY <4>1
      <4>2. p[1] = b /\ p[2] = n
        OBVIOUS
      <4> QED
        BY <3>1, <4>2
    <3>3. /\ info' = NoInfo /\ DOMAIN NoInfo = Contract!Kinds
          /\ \A kind \in Contract!Kinds : DOMAIN NoInfo[kind] = {}
      BY <2>1, <2>2 DEF NoInfo, EmptyMap, Contract!Kinds
    <3>4. Recorded(info)'
      BY <2>1, <3>2, <3>3 DEF Recorded, unit, Contract!Kinds
    <3>5. SeenRefersRight'
      BY <2>1, <3>1 DEF SeenRefersRight, unit
    <3> QED
      BY <2>1, <2>2, <2>3, <3>4, <3>5 DEF TypedInv, unit
  <2>4. CASE pc' = "rejected"
    BY <2>1, <2>2, <2>4 DEF TypedInv, unit, Terminal
  <2> QED
    BY <2>1, <2>3, <2>4
<1>5. CASE TypedOther /\ Mutate
  <2>1. /\ pc = "blocks" /\ cur = NoBlock /\ todo = {} /\ pc' = "accepted"
        /\ UNCHANGED <<unit, todo, cur, ip, stack, info>>
        /\ meta' = [k \in DOMAIN meta |-> Overlay(info[k], meta[k])]
    BY <1>5 DEF Mutate
  <2>2. fn \in Functions /\ meta = NoInfo /\ Recorded(info)
    BY <2>1 DEF TypedInv
  <2>3. \A b, n : Seen(b, n)' <=> Seen(b, n)
    BY <2>1 DEF Seen, unit
  <2>4. /\ DOMAIN meta' = Contract!Kinds
        /\ \A kind \in Contract!Kinds :
             DOMAIN meta'[kind] = DOMAIN info[kind]
             /\ \A p \in DOMAIN info[kind] : meta'[kind][p] = info[kind][p]
    BY <2>1, <2>2 DEF NoInfo, Contract!Kinds, Overlay, EmptyMap
  <2>5. Recorded(meta)' <=>
          /\ DOMAIN meta' = Contract!Kinds
          /\ \A kind \in Contract!Kinds :
               DOMAIN meta'[kind] = { p \in Contract!NotedAt(fn, kind) : Seen(p[1], p[2]) }
          /\ \A p \in DOMAIN meta'.ty : fn.body[p[1]][p[2]].op = "CallIndirect" /\ IsFunc(meta'.ty[p])
          /\ \A p \in DOMAIN meta'.from : fn.body[p[1]][p[2]].op = "Bitcast"
          /\ \A p \in DOMAIN meta'.bws : IsInt(meta'.bws[p])
    BY <2>1, <2>3 DEF Recorded, unit
  <2>6. Recorded(meta)'
    <3>1. "ty" \in Contract!Kinds /\ "from" \in Contract!Kinds /\ "bws" \in Contract!Kinds
      BY DEF Contract!Kinds
    <3> QED
      BY <2>2, <2>4, <2>5, <3>1 DEF Recorded
  <2> QED
    BY <2>1, <2>2, <2>6 DEF TypedInv, unit, Terminal
<1>6. CASE TypedOther /\ Finished
  BY <1>6 DEF TypedOther, Finished, vars, unit, TypedInv, Terminal, Recorded, Seen
<1>7. CASE TypedOther /\ (VerifyInstr \/ EndBlock) /\ pc' # "blocks"
  <2>1. pc = "blocks" /\ cur # NoBlock /\ code = "ok"
    BY <1>7, AtHand DEF TypedOther
  <2>2. Reject \/ Overflows
    BY <1>7, <2>1, EndsOtherwise
  <2>3. fn' = fn /\ meta' = meta /\ pc' \in Terminal \ {"accepted"}
    BY <2>2 DEF Reject, Overflows, unit, Terminal
  <2> QED
    BY <2>1, <2>3 DEF TypedInv, Terminal
<1>8. CASE TypedFailed \/ UNCHANGED typedVars
  <2>1. UNCHANGED typedVars
    BY <1>8 DEF TypedFailed
  <2> QED
    BY <2>1 DEF typedVars, vars, unit, TypedInv, InBlock, Recorded, SeenRefersRight, Seen
<1> QED
  BY <1>1, <1>2, <1>3, <1>4, <1>5, <1>6, <1>7, <1>8 DEF TypedNext, TypedOther

\* It holds at the start.
LEMMA TypedStarts ==
  TypedInit => TypedInv
BY DEF TypedInit, Init, TypedInv, Terminal

\* What is verified is all there is once every block has been visited.
LEMMA AllSeen ==
  ASSUME fn \in Functions, todo = {}, cur = NoBlock
  PROVE  /\ \A kind : { p \in Contract!NotedAt(fn, kind) : Seen(p[1], p[2]) } = Contract!NotedAt(fn, kind)
         /\ \A b \in Blocks(fn) : \A n \in 1 .. Len(fn.body[b]) :
              Contract!Reached(fn, b, n) => Seen(b, n)
<1>1. ASSUME NEW b \in Blocks(fn), NEW n \in 1 .. Len(fn.body[b]), Contract!Reached(fn, b, n)
      PROVE  Seen(b, n)
  BY <1>1, BlocksAre DEF Seen
<1>2. ASSUME NEW kind, NEW p \in Contract!NotedAt(fn, kind)
      PROVE  Seen(p[1], p[2])
  <2>1. PICK b \in Blocks(fn) : \E n \in 1 .. Len(fn.body[b]) :
               p = <<b, n>> /\ Contract!Reached(fn, b, n)
    BY ContractOps
  <2>2. PICK n \in 1 .. Len(fn.body[b]) : p = <<b, n>> /\ Contract!Reached(fn, b, n)
    BY <2>1
  <2>3. p[1] = b /\ p[2] = n
    BY <2>2
  <2> QED
    BY <1>1, <2>2, <2>3
<1> QED
  BY <1>1, <1>2

\* The invariant holds of every reachable state.
LEMMA TypedHolds ==
  TypedSpec => []TypedInv
BY TypedStarts, TypedSteps, PTL DEF TypedSpec

-----------------------------------------------------------------------------
(* The theorems *)

\* Whatever the function and the order of its blocks, as long as the code is
\* valid the verifier's stack is the one of WebAssembly.
THEOREM StackIsWebAssemblys ==
  TypedSpec => []StacksAgree
<1>1. TypedInv => StacksAgree
  BY DEF TypedInv, InBlock, StacksAgree
<1> QED
  BY <1>1, TypedHolds, PTL

\* An accepted function that has been corrected holds all the metadata that the
\* emitter unwraps, each note of the kind of its instruction.
THEOREM EmitterFindsItsMetadata ==
  TypedSpec => []MetadataComplete
<1>1. ASSUME TypedInv, pc = "accepted"
      PROVE  /\ \A b \in Blocks(fn) : \A n \in 1 .. Len(fn.body[b]) :
                  Needs(fn.body[b][n]) \subseteq Noted(meta, b, n)
             /\ Recorded(meta)
  <2>1. fn \in Functions /\ todo = {} /\ cur = NoBlock /\ Recorded(meta)
    BY <1>1 DEF TypedInv
  <2>2. ASSUME NEW b \in Blocks(fn), NEW n \in 1 .. Len(fn.body[b]), NEW kind \in Needs(fn.body[b][n])
        PROVE  kind \in Noted(meta, b, n)
    <3>1. Contract!Reached(fn, b, n)
      <4>1. \A k \in 1 .. n - 1 : k \in 1 .. Len(fn.body[b]) - 1
        BY <2>1, BlocksAre
      <4> QED
        BY <2>1, <4>1, CorrectedAssumption, ContractOps DEF Corrected
    <3>2. kind \in Contract!Notes(fn.body[b][n]) /\ kind \in Contract!Kinds
      BY ContractOps DEF Needs, Contract!Kinds
    <3>3. <<b, n>> \in Contract!NotedAt(fn, kind)
      BY <3>1, <3>2, NotedPair
    <3>4. DOMAIN meta[kind] = Contract!NotedAt(fn, kind) /\ kind \in DOMAIN meta
      BY <2>1, <3>2, AllSeen DEF Recorded
    <3> QED
      BY <3>3, <3>4 DEF Noted
  <2> QED
    BY <2>1, <2>2
<1>2. TypedInv => MetadataComplete
  BY <1>1 DEF MetadataComplete, Recorded
<1> QED
  BY <1>2, TypedHolds, PTL

\* At the end of a block the stack is what the block returns, or there is a gap.
LEMMA EndFits ==
  ASSUME TypedInv, TypedEnd
  PROVE  code' # "ok" <=> EndGap
<1> DEFINE res == Results(cur)
<1>1. /\ pc = "blocks" /\ cur # NoBlock /\ code = "ok"
      /\ \A k \in 1 .. Len(stack) : k <= Len(fn.ret[cur]) => stack[k] = fn.ret[cur][k]
      /\ code' = IF fn.tag[cur] = "Loop" \/ wstack = Lower(res) THEN code ELSE "invalid"
  BY DEF TypedEnd, EndBlock, Reject
<1>2. /\ wstack = Lower(stack) /\ stack \in Seq(Interned)
      /\ fn.ret[cur] \in Seq(Interned) /\ res \in Seq(Interned)
  BY <1>1, InBlockFacts, DeclarationsAssumption DEF InBlock, Results
<1> HIDE DEF res
<1>3. CASE Len(stack) # Len(res)
  <2>1. Lower(stack) # Lower(res)
    BY <1>2, <1>3, LowerFacts
  <2> QED
    BY <1>1, <1>2, <1>3, <2>1 DEF EndGap, res
<1>4. CASE Len(stack) = Len(res) /\ fn.ret[cur] = res
  <2>1. stack = res
    BY <1>1, <1>2, <1>4, SeqEqual
  <2> QED
    BY <1>1, <1>2, <1>4, <2>1 DEF EndGap, res
<1>5. CASE Len(stack) = Len(res) /\ fn.ret[cur] # res
  BY <1>1, <1>2, <1>5 DEF EndGap, res
<1> QED
  BY <1>3, <1>4, <1>5

\* The emitted code fails to validate, or the emitter panics, at the listed gaps
\* between the verifier and the emitter, at each of them, and nowhere else.
THEOREM GapsAreAllThereIs ==
  TypedSpec => FailsAtTheGapsOnly
<1>1. ASSUME TypedInv, TypedNext, Accepts
      PROVE  code' # "ok" <=> Gap
  <2>1. CASE TypedInstr
    BY <1>1, <2>1, InstrFits DEF Gap
  <2>2. CASE TypedEnd
    <3>1. ~AtInstr
      <4>1. ip > Len(fn.body[cur]) /\ pc = "blocks" /\ cur # NoBlock
        BY <2>2 DEF TypedEnd, EndBlock
      <4>2. ip \in Nat /\ Len(fn.body[cur]) \in Nat
        BY <1>1, <4>1, InBlockFacts, BlocksAre DEF InBlock
      <4> QED
        BY <4>1, <4>2 DEF AtInstr
    <3> QED
      BY <1>1, <2>2, <3>1, EndFits DEF Gap
  <2>3. CASE TypedStart
    BY <1>1, <2>3 DEF Accepts, TypedStart, NextBlock
  <2>4. CASE TypedOther
    BY <1>1, <2>4 DEF Accepts, TypedOther, TypedInv, CheckStructs, Mutate, Finished, vars, Terminal
  <2>5. CASE TypedFailed
    BY <1>1, <2>5 DEF Accepts, TypedFailed
  <2> QED
    BY <1>1, <2>1, <2>2, <2>3, <2>4, <2>5 DEF TypedNext
<1>2. TypedInv /\ [TypedNext]_typedVars => [Accepts => (code' # "ok" <=> Gap)]_typedVars
  BY <1>1
<1> QED
  BY <1>2, TypedHolds, PTL DEF TypedSpec, FailsAtTheGapsOnly

-----------------------------------------------------------------------------
(* The contract *)

\* A refusal, or an overflow in a block that returns, is one of the contract.
LEMMA EndsAsContract ==
  ASSUME TypedInv, pc = "blocks", cur # NoBlock, Reject \/ (Overflows /\ AtInstr)
  PROVE  Contract!Next
<1>1. CASE Reject
  BY <1>1 DEF Reject, unit, Contract!Next, Contract!Reject, Terminal
<1>2. CASE Overflows /\ AtInstr
  <2>1. fn \in Functions /\ cur \in Blocks(fn) /\ ip \in 1 .. Len(fn.body[cur]) /\ Instr.op = "Return"
    <3>1. fn \in Functions /\ InBlock
      BY InBlockFacts
    <3> QED
      BY <1>2, <3>1, BlocksAre DEF InBlock, AtInstr, Overflows
  <2>2. Contract!Returns(fn)
    BY <2>1, ContractOps DEF Contract!Returns, Instr
  <2> QED
    BY <1>2, <2>2 DEF Overflows, unit, Contract!Next, Contract!Panic, Terminal
<1> QED
  BY <1>1, <1>2

\* What the verifier accepts the contract may accept, with the same notes.
LEMMA MutateIsAccept ==
  ASSUME TypedInv, TypedInv', Mutate
  PROVE  Contract!Accept
<1>1. /\ pc = "blocks" /\ cur = NoBlock /\ todo = {} /\ pc' = "accepted"
      /\ UNCHANGED <<fn, todo, cur, ip>>
  BY DEF Mutate, unit
<1>2. fn \in Functions /\ SeenRefersRight /\ Recorded(meta)'
  BY <1>1 DEF TypedInv
<1>3. Contract!MayAccept(fn)
  BY <1>1, <1>2, AllSeen, ContractOps DEF Contract!MayAccept, SeenRefersRight
<1>4. /\ DOMAIN meta' = Contract!Kinds
      /\ \A kind \in Contract!Kinds : DOMAIN meta'[kind] = Contract!NotedAt(fn, kind)
  <2>1. \A b, n : Seen(b, n)' <=> Seen(b, n)
    BY <1>1 DEF Seen
  <2> QED
    BY <1>1, <1>2, <2>1, AllSeen DEF Recorded
<1> QED
  BY <1>1, <1>3, <1>4 DEF Contract!Accept, Terminal

\* Visiting the blocks one after another, and storing what was noted once they
\* are all accepted, implements the verdict in a single step.
THEOREM VerifierKeepsItsContract ==
  TypedSpec => RefinesVerifierContract
<1>1. TypedInit => Contract!Init
  BY DEF TypedInit, Init, Contract!Init, NoInfo, EmptyMap, Contract!Kinds, Terminal
<1>2. ASSUME TypedInv, TypedInv', [TypedNext]_typedVars
      PROVE  [Contract!Next]_<<fn, meta, IF pc \in Terminal THEN pc ELSE "none">>
  <2>1. CASE TypedInstr
    BY <1>2, <2>1, InstrFits, PassesKeeps DEF Terminal
  <2>2. CASE TypedEnd
    BY <2>2 DEF TypedEnd, EndBlock, Reject, unit, Terminal
  <2>3. CASE TypedStart
    BY <2>3 DEF TypedStart, NextBlock, unit, Terminal
  <2>4. CASE TypedOther /\ CheckStructs
    BY <2>4 DEF CheckStructs, unit, Contract!Next, Contract!Reject, Terminal
  <2>5. CASE TypedOther /\ Mutate
    BY <1>2, <2>5, MutateIsAccept DEF Contract!Next
  <2>6. CASE TypedOther /\ Finished
    BY <2>6 DEF Finished, vars, unit
  <2>7. CASE TypedOther /\ (VerifyInstr \/ EndBlock) /\ pc' # "blocks"
    <3>1. pc = "blocks" /\ cur # NoBlock /\ code = "ok"
      BY <2>7, AtHand DEF TypedOther
    <3> QED
      BY <1>2, <2>7, <3>1, EndsOtherwise, EndsAsContract
  <2>8. CASE TypedFailed \/ UNCHANGED typedVars
    BY <2>8 DEF TypedFailed, typedVars, vars, unit
  <2> QED
    BY <1>2, <2>1, <2>2, <2>3, <2>4, <2>5, <2>6, <2>7, <2>8 DEF TypedNext, TypedOther
<1> QED
  BY <1>1, <1>2, TypedHolds, PTL DEF TypedSpec, RefinesVerifierContract, Contract!Spec

=============================================================================
