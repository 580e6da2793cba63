------------------------------ MODULE Verifier ------------------------------
(***************************************************************************)
(* The verifier, verify.rs: it types every block of one function by        *)
(* simulating the operand stack, records the types the emitter will need   *)
(* and writes them into the metadata of the instructions.                  *)
(*                                                                         *)
(* A function is a record: args, rets and locals are the types of the      *)
(* arguments, results and locals (arguments included); ret[b] is what      *)
(* block b returns, body[b] its instructions and tag[b] its tag; dist      *)
(* holds the innermost_loop_distance metadata of its blocks.               *)
(***************************************************************************)
EXTENDS ControlFlow

CONSTANTS
  Interned,        \* the types the module has interned
  Functions,       \* the functions the pass may be run on
  FuncTypes,       \* the type of every function of the module, by name
  GlobalTypes      \* the type of every global of the module, by name

ASSUME ShapeAssumption == \A f \in Functions : IsFunction(f)

\* The instructions that name a type; that of an Offset decides no type.
Typed == {"LdInt", "Ftoi", "IConv", "Bitcast", "Read", "Write", "GetFieldPtr"}

\* Types are made of interned types, and primitive ones are always interned.
ASSUME TypesAssumption ==
  /\ {Int32, Float32, Ptr} \subseteq Interned
  /\ \A t \in Interned :
       /\ IsInt(t) \/ IsFloat(t) \/ IsPtr(t) \/ IsFunc(t) \/ IsStruct(t)
       /\ IsFunc(t) => t.args \in Seq(Interned) /\ t.ret \in Seq(Interned)
       /\ IsStruct(t) => t.fields \in Seq(Interned)

\* What is declared and what instructions name are interned types.
ASSUME DeclarationsAssumption ==
  /\ \A x \in DOMAIN FuncTypes : FuncTypes[x] \in Interned /\ IsFunc(FuncTypes[x])
  /\ \A x \in DOMAIN GlobalTypes : GlobalTypes[x] \in Interned
  /\ \A f \in Functions :
       /\ {f.args, f.rets, f.locals} \subseteq Seq(Interned)
       /\ f.ret \in [Blocks(f) -> Seq(Interned)]
       /\ \A b \in Blocks(f) : \A n \in 1 .. Len(f.body[b]) : LET i == f.body[b][n] IN
            /\ i.op \in Typed => i.ty \in Interned
            /\ i.op = "GetFieldPtr" => i.idx \in Nat

VARIABLES
  fn,      \* the function being verified
  debug,   \* whether this is a debug build: overflow panics, debug_assert! is on
  pc,      \* "structs", "blocks", or how the pass ended
  todo,    \* the blocks not yet visited
  cur,     \* the block being verified, or NoBlock between two blocks
  ip,      \* its instruction at hand
  stack,   \* the types on the operand stack, the top one last
  info,    \* VerifierMutInfo
  meta     \* the metadata of the instructions

unit == <<fn, debug>>
vars == <<unit, pc, todo, cur, ip, stack, info, meta>>

(***************************************************************************)
(* The three kinds of metadata, each keyed by block and instruction: bws   *)
(* the operand type of an integer operation, from the source type of a     *)
(* Bitcast, ty the function type of a CallIndirect.                        *)
(***************************************************************************)
NoInfo == [bws |-> EmptyMap, from |-> EmptyMap, ty |-> EmptyMap]

Init ==
  /\ fn \in Functions /\ debug \in BOOLEAN
  /\ pc = "structs" /\ todo = {}
  /\ cur = NoBlock /\ ip = 1
  /\ stack = << >>
  /\ info = NoInfo /\ meta = NoInfo

Terminal == {"accepted", "rejected", "panicked"}

HasStruct(ts) == \E n \in 1 .. Len(ts) : IsStruct(ts[n])

\* verify_no_struct_types
CheckStructs ==
  /\ pc = "structs"
  /\ IF HasStruct(fn.locals) \/ HasStruct(fn.rets)
          \/ \E b \in Blocks(fn) : HasStruct(fn.ret[b])
       THEN pc' = "rejected" /\ todo' = todo
       ELSE pc' = "blocks" /\ todo' = Blocks(fn)
  /\ UNCHANGED <<unit, cur, ip, stack, info, meta>>

\* Mutant: what was noted for the blocks before this one is lost.
NextBlockFresh ==
  /\ pc = "blocks" /\ cur = NoBlock
  /\ \E b \in todo : cur' = b /\ todo' = todo \ {b}
  /\ ip' = 1 /\ stack' = << >>
  /\ info' = NoInfo
  /\ UNCHANGED <<unit, pc, meta>>

\* verify_block starts, with an empty stack.
NextBlock ==
  /\ pc = "blocks" /\ cur = NoBlock
  /\ \E b \in todo : cur' = b /\ todo' = todo \ {b}
  /\ ip' = 1 /\ stack' = << >>
  /\ UNCHANGED <<unit, pc, info, meta>>

-----------------------------------------------------------------------------
(* What the arms of verify_block have in common *)

AtInstr == pc = "blocks" /\ cur # NoBlock /\ ip <= Len(fn.body[cur])
Instr   == fn.body[cur][ip]
At(ops) == AtInstr /\ Instr.op \in ops

\* The k-th type from the top of the stack.
Nth(k) == stack[Len(stack) + 1 - k]

\* info with v noted under the given kind for the instruction at hand.
Note(kind, v) == [info EXCEPT ![kind] = Insert(@, <<cur, ip>>, v)]

Reject ==
  /\ pc' = "rejected"
  /\ UNCHANGED <<unit, todo, cur, ip, stack, info, meta>>

\* A diverging instruction ends the block: what follows it is ignored.
Proceed ==
  /\ IF IsDiverging(Instr) THEN cur' = NoBlock /\ ip' = ip
                           ELSE cur' = cur /\ ip' = ip + 1
  /\ UNCHANGED <<unit, pc, todo, meta>>

\* Pop n types, of which ok must hold, and push others.
Types(n, ok, pushed, noted) ==
  LET fits == Len(stack) >= n /\ ok IN
  \/ /\ fits
     /\ stack' = SubSeq(stack, 1, Len(stack) - n) \o pushed
     /\ info' = noted
     /\ Proceed
  \/ ~fits /\ Reject

\* Calls compare the popped types with the arguments from the first one on.
ArgsOnTop(skip, args) ==
  /\ Len(stack) >= skip + Len(args)
  /\ \A k \in 1 .. Len(args) : Nth(skip + k) = args[k]

-----------------------------------------------------------------------------
(* The arms of verify_block *)

\* A u32 constant is its i32 reinterpretation, as the code casts it.
FitsType(val, ty) ==
  CASE ty = Int8   -> val <= 127 /\ val >= -128
    [] ty = UInt8  -> val <= 255
    [] ty = Int16  -> val <= 32767 /\ val >= -32768
    [] ty = UInt16 -> val <= 65535
    [] OTHER       -> TRUE

LoadInt == At({"LdInt"}) /\
  Types(0, IsInt(Instr.ty) /\ FitsType(Instr.val, Instr.ty), << Instr.ty >>, info)

LoadFloat == At({"LdFloat"}) /\ Types(0, TRUE, << Float32 >>, info)

IntBinary == At({"IAdd", "ISub", "IMul", "IDiv", "ICmp"}) /\
  Types(2, IsInt(Nth(1)) /\ Nth(2) = Nth(1),
        << IF Instr.op = "ICmp" THEN Int32 ELSE Nth(1) >>, Note("bws", Nth(1)))

\* Mutant: FCmp has the type of its operands.
FloatBinaryClosed == At({"FAdd", "FSub", "FMul", "FDiv", "FCmp"}) /\
  Types(2, IsFloat(Nth(1)) /\ IsFloat(Nth(2)), << Float32 >>, info)

FloatBinary == At({"FAdd", "FSub", "FMul", "FDiv", "FCmp"}) /\
  Types(2, IsFloat(Nth(1)) /\ IsFloat(Nth(2)),
        << IF Instr.op = "FCmp" THEN Int32 ELSE Float32 >>, info)

IntToFloat == At({"Itof"}) /\
  Types(1, IsInt(Nth(1)), << Float32 >>, Note("bws", Nth(1)))

FloatToInt == At({"Ftoi"}) /\
  Types(1, IsFloat(Nth(1)) /\ IsInt(Instr.ty), << Instr.ty >>, Note("bws", Instr.ty))

IntConvert == At({"IConv"}) /\
  Types(1, IsInt(Nth(1)) /\ IsInt(Instr.ty), << Instr.ty >>, Note("bws", Nth(1)))

IntUnary == At({"Not", "MemoryGrow"}) /\ Types(1, IsInt(Nth(1)), << Nth(1) >>, info)

\* Mutant: only one operand is checked.
BitwiseOneSided == At({"BitAnd", "BitOr"}) /\
  Types(2, IsInt(Nth(1)), << Nth(1) >>, info)

Bitwise == At({"BitAnd", "BitOr"}) /\
  Types(2, IsInt(Nth(1)) /\ Nth(2) = Nth(1), << Nth(1) >>, info)

CallDirect == At({"CallDirect"}) /\
  LET known == Instr.name \in DOMAIN FuncTypes
      ty    == FuncTypes[Instr.name]
  IN  \/ known /\ Types(Len(ty.args), ArgsOnTop(0, ty.args), ty.ret, info)
      \/ ~known /\ Reject

CallIndirect == At({"CallIndirect"}) /\
  LET callable == stack # << >> /\ IsFunc(Nth(1))
      ty       == Nth(1)
  IN  \/ callable /\ Types(1 + Len(ty.args), ArgsOnTop(1, ty.args), ty.ret, Note("ty", ty))
      \/ ~callable /\ Reject

\* Locals are numbered from 0, the arguments first.
HasLocal(idx) == idx \in 0 .. Len(fn.locals) - 1
LocalTy(idx)  == fn.locals[idx + 1]

LoadLocal == At({"LdLocal"}) /\
  Types(0, HasLocal(Instr.idx), << LocalTy(Instr.idx) >>, info)

StoreLocal == At({"StLocal"}) /\
  Types(1, /\ HasLocal(Instr.idx) /\ LocalTy(Instr.idx) = Nth(1)
           /\ Instr.idx >= Len(fn.args), << >>, info)

LoadGlobalFunc == At({"LdGlobalFunc"}) /\
  Types(0, Instr.name \in DOMAIN FuncTypes, << FuncTypes[Instr.name] >>, info)

LoadGlobal == At({"LdGlobal"}) /\
  Types(0, Instr.name \in DOMAIN GlobalTypes, << GlobalTypes[Instr.name] >>, info)

StoreGlobal == At({"StGlobal"}) /\
  Types(1, Instr.name \in DOMAIN GlobalTypes /\ Nth(1) = GlobalTypes[Instr.name], << >>, info)

\* Any type may be cast to any type.
Bitcast == At({"Bitcast"}) /\ Types(1, TRUE, << Instr.ty >>, Note("from", Nth(1)))

\* Both branches return the same types; a missing else returns nothing.
Branch == At({"IfElse"}) /\
  LET returns == fn.ret[Instr.then] IN
  Types(1, /\ IsInt(Nth(1))
           /\ Instr.then \in Blocks(fn)
           /\ IF Instr.else = NoBlock THEN returns = << >>
              ELSE Instr.else \in Blocks(fn) /\ fn.ret[Instr.else] = returns,
        returns, info)

LoopBlock == At({"Loop"}) /\
  Types(0, Instr.block \in Blocks(fn) /\ fn.ret[Instr.block] = << >>, << >>, info)

ReadMemory == At({"Read"}) /\
  Types(1, ~IsStruct(Instr.ty) /\ IsPtr(Nth(1)), << Instr.ty >>, info)

WriteMemory == At({"Write"}) /\
  Types(2, ~IsStruct(Instr.ty) /\ Nth(1) = Instr.ty /\ IsPtr(Nth(2)), << >>, info)

OffsetPtr == At({"Offset"}) /\ Types(2, IsInt(Nth(1)) /\ IsPtr(Nth(2)), << Ptr >>, info)

\* The index is compared with the number of fields by >, not by >=.
FieldPtr == At({"GetFieldPtr"}) /\
  Types(1, IsStruct(Instr.ty) /\ Instr.idx <= Len(Instr.ty.fields) /\ IsPtr(Nth(1)),
        << Ptr >>, info)

Discard == At({"Discard"}) /\ Types(1, TRUE, << >>, info)

LoadAddress == At({"LdStaticMemPtr"}) /\ Types(0, TRUE, << Ptr >>, info)

MemorySize == At({"MemorySize"}) /\ Types(0, TRUE, << Int32 >>, info)

Fail == At({"Fail"}) /\ Types(0, TRUE, << >>, info)

\* Mutant: a Break may be anywhere.
BreakAnywhere == At({"Break"}) /\ Types(0, TRUE, << >>, info)

Break == At({"Break"}) /\ Types(0, cur \in DOMAIN fn.dist, << >>, info)

(***************************************************************************)
(* The types are compared by a loop over (stack.len()-1)..=0: it has no    *)
(* iteration for two or more values, one for one value, and for no value   *)
(* stack.len()-1 overflows.                                                *)
(***************************************************************************)
Return == At({"Return"}) /\
  LET n == Len(stack) IN
  \/ n = 0 /\ fn.rets = << >> /\ debug
       /\ pc' = "panicked" /\ UNCHANGED <<unit, todo, cur, ip, stack, info, meta>>
  \/ n = 0 /\ fn.rets = << >> /\ ~debug /\ Types(0, TRUE, << >>, info)
  \/ n = 1 /\ n = Len(fn.rets) /\ Types(1, Nth(1) = fn.rets[1], << >>, info)
  \/ n > 1 /\ n = Len(fn.rets) /\ Types(0, TRUE, << >>, info)
  \/ n # Len(fn.rets) /\ Reject

\* The end of a block: zip compares only as many types as both sides have.
EndBlock ==
  /\ pc = "blocks" /\ cur # NoBlock /\ ip > Len(fn.body[cur])
  /\ LET agree == \A k \in 1 .. Len(stack) :
                    k <= Len(fn.ret[cur]) => stack[k] = fn.ret[cur][k]
     IN  \/ /\ agree
            /\ cur' = NoBlock
            /\ UNCHANGED <<unit, pc, todo, ip, stack, info, meta>>
         \/ ~agree /\ Reject

\* visit_function returns Ok and mutate_function stores what was noted.
Mutate ==
  /\ pc = "blocks" /\ cur = NoBlock /\ todo = {}
  /\ meta' = [k \in DOMAIN meta |-> Overlay(info[k], meta[k])]
  /\ pc' = "accepted"
  /\ UNCHANGED <<unit, todo, cur, ip, stack, info>>

-----------------------------------------------------------------------------
VerifyInstr ==
  \/ LoadInt \/ LoadFloat \/ IntBinary \/ FloatBinary \/ IntToFloat \/ FloatToInt
  \/ IntConvert \/ IntUnary \/ Bitwise \/ CallDirect \/ CallIndirect \/ LoadLocal
  \/ StoreLocal \/ LoadGlobalFunc \/ LoadGlobal \/ StoreGlobal \/ Bitcast \/ Branch
  \/ LoopBlock \/ ReadMemory \/ WriteMemory \/ OffsetPtr \/ FieldPtr \/ Discard
  \/ LoadAddress \/ MemorySize \/ Fail \/ Break \/ Return

Finished == pc \in Terminal /\ UNCHANGED vars

Next == CheckStructs \/ NextBlock \/ VerifyInstr \/ EndBlock \/ Mutate \/ Finished

Spec == Init /\ [][Next]_vars /\ WF_vars(Next)
=============================================================================
