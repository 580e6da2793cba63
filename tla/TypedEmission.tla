---------------------------- MODULE TypedEmission ---------------------------
(***************************************************************************)
(* The verifier composed with the emitter it guards.  Each time the        *)
(* verifier accepts an instruction, the code that compile_block emits for  *)
(* it is run through the typing rules of WebAssembly on an operand stack   *)
(* of its own.  The two stacks know nothing of each other: that they agree *)
(* is what makes the verifier sound for the emitter.                       *)
(***************************************************************************)
EXTENDS Verifier, SequencesExt

\* The correction pass has removed what follows a diverging instruction.
ASSUME CorrectedAssumption == \A f \in Functions : Corrected(f)

VARIABLES
  wstack,   \* the WebAssembly types on the operand stack, the top one last
  code      \* "ok", "invalid" once validation fails, "panic" once emission does

typedVars == <<vars, wstack, code>>

-----------------------------------------------------------------------------
(* What the emitter makes of a type and of an instruction *)

\* Abi::compile_type.  On a Struct it panics: where that happens to the code of
\* an instruction EmitPanics says so.  A Struct in a function type or in a local
\* is met earlier, by encode_types or compile_func, and is left to Pipeline.
ValType(t) == IF IsFloat(t) THEN "f32" ELSE "i32"

Lower(ts) == [n \in 1 .. Len(ts) |-> ValType(ts[n])]

\* The operands of an instruction's code, the first one deepest, and results.
Sig(pop, push) == [pop |-> pop, push |-> push]

I32(n) == [k \in 1 .. n |-> "i32"]
F32(n) == [k \in 1 .. n |-> "f32"]

\* The type of the code compile_block emits for instruction i of block b,
\* given the metadata m its match arm retrieves.
Emitted(i, m) ==
  CASE i.op \in {"LdInt", "LdGlobalFunc", "MemorySize", "LdStaticMemPtr"} -> Sig(I32(0), I32(1))
    [] i.op = "LdFloat"                       -> Sig(I32(0), F32(1))
    [] i.op \in {"IAdd", "ISub", "IMul", "IDiv", "ICmp", "BitAnd", "BitOr", "Offset"}
                                              -> Sig(I32(2), I32(1))
    [] i.op \in {"FAdd", "FSub", "FMul", "FDiv"} -> Sig(F32(2), F32(1))
    [] i.op = "FCmp"                          -> Sig(F32(2), I32(1))
    [] i.op = "Itof"                          -> Sig(I32(1), F32(1))
    [] i.op = "Ftoi"                          -> Sig(F32(1), I32(1))
    [] i.op \in {"IConv", "Not", "MemoryGrow", "GetFieldPtr"} -> Sig(I32(1), I32(1))
    [] i.op = "CallDirect"                    -> Sig(Lower(FuncTypes[i.name].args),
                                                     Lower(FuncTypes[i.name].ret))
    [] i.op = "CallIndirect"                  -> Sig(Lower(m.ty.args) \o I32(1), Lower(m.ty.ret))
    [] i.op = "LdLocal"                       -> Sig(I32(0), Lower(<< LocalTy(i.idx) >>))
    [] i.op = "StLocal"                       -> Sig(Lower(<< LocalTy(i.idx) >>), I32(0))
    [] i.op = "LdGlobal"                      -> Sig(I32(0), Lower(<< GlobalTypes[i.name] >>))
    [] i.op = "StGlobal"                      -> Sig(Lower(<< GlobalTypes[i.name] >>), I32(0))
    [] i.op = "Bitcast"                       -> Sig(Lower(<< m.from >>), Lower(<< i.ty >>))
    [] i.op = "IfElse"                        -> Sig(I32(1), Lower(fn.ret[i.then]))
    [] i.op = "Read"                          -> Sig(I32(1), Lower(<< i.ty >>))
    [] i.op = "Write"                         -> Sig(I32(1) \o Lower(<< i.ty >>), I32(0))
    [] i.op = "Discard"                       -> Sig(SubSeq(wstack, Len(wstack), Len(wstack)), I32(0))
    [] i.op = "Return"                        -> Sig(Lower(fn.rets), I32(0))
    [] i.op \in {"Loop", "Break", "Fail"}     -> Sig(I32(0), I32(0))

Noted(noted, b, n) == { k \in DOMAIN noted : <<b, n>> \in DOMAIN noted[k] }

\* The arms that panic although their metadata is there: a Struct without a
\* WebAssembly type, an access that is not implemented, a field that is not,
\* and the debug_assert! on the body of a Loop.
EmitPanics(i, m) ==
  \/ i.op = "Loop" /\ debug /\ fn.ret[i.block] # << >>
  \/ i.op = "Bitcast" /\ (IsStruct(m.from) \/ IsStruct(i.ty))
  \/ i.op \in {"Read", "Write"} /\ ~IsInt(i.ty) /\ ~IsFloat(i.ty)
  \/ i.op = "GetFieldPtr" /\ i.idx >= Len(i.ty.fields)

-----------------------------------------------------------------------------
(* The composition *)

TypedInit == Init /\ wstack = << >> /\ code = "ok"

\* An else without instructions leaves nothing.
ElseReturns(i) == IF i.else = NoBlock THEN << >> ELSE fn.ret[i.else]

\* The code of sig, emitted for i, is valid on the operands ws: they are on
\* top, and the two sides of an if leave the same types.
Valid(i, sig, ws) ==
  /\ IsSuffix(sig.pop, ws)
  /\ i.op = "IfElse" => Lower(ElseReturns(i)) = sig.push

After(sig, ws) == SubSeq(ws, 1, Len(ws) - Len(sig.pop)) \o sig.push

\* The verifier accepts an instruction and the emitter compiles it.
TypedInstr ==
  /\ code = "ok"
  /\ VerifyInstr /\ pc' = "blocks"
  /\ LET m        == [k \in Noted(info', cur, ip) |-> info'[k][<<cur, ip>>]]
         compiles == Needs(Instr) \subseteq DOMAIN m /\ ~EmitPanics(Instr, m)
         sig      == Emitted(Instr, m)
     IN  \/ ~compiles /\ code' = "panic" /\ wstack' = wstack
         \/ /\ compiles /\ ~Valid(Instr, sig, wstack)
            /\ code' = "invalid" /\ wstack' = wstack
         \/ /\ compiles /\ Valid(Instr, sig, wstack)
            /\ code' = code /\ wstack' = After(sig, wstack)

\* At the end of a block the operands are its results, at the end of the
\* entry block those of the function; after the body of a loop there is a
\* br 0, which any operands may precede.
Results(b) == IF fn.tag[b] = "Main" THEN fn.rets ELSE fn.ret[b]

TypedEnd ==
  /\ code = "ok"
  /\ EndBlock /\ pc' = "blocks"
  /\ wstack' = wstack
  /\ code' = IF fn.tag[cur] = "Loop" \/ wstack = Lower(Results(cur)) THEN code ELSE "invalid"

TypedStart == code = "ok" /\ NextBlock /\ wstack' = << >> /\ code' = code

\* The verifier refuses what it is at, or it has no instruction at hand.
TypedOther ==
  /\ code = "ok"
  /\ \/ CheckStructs \/ Mutate \/ Finished
     \/ (VerifyInstr \/ EndBlock) /\ pc' # "blocks"
  /\ UNCHANGED <<wstack, code>>

\* After a failure nothing is compared any more.
TypedFailed == code # "ok" /\ UNCHANGED typedVars

TypedNext == TypedInstr \/ TypedEnd \/ TypedStart \/ TypedOther \/ TypedFailed

TypedSpec == TypedInit /\ [][TypedNext]_typedVars

-----------------------------------------------------------------------------
(* Properties *)

\* Inside a block, as long as its code is valid, the operand stack that the
\* verifier simulates is the one WebAssembly sees: every arm of verify_block
\* pops and pushes what the emitted instructions do.
StacksAgree ==
  code = "ok" /\ pc = "blocks" /\ cur # NoBlock => wstack = Lower(stack)

\* The metadata of an accepted function holds what the emitter unwraps, and
\* no type is stored at an instruction of another kind (the debug_asserts of
\* mutate_function), whichever order the blocks were visited in.
MetadataComplete ==
  pc = "accepted" =>
    /\ \A b \in Blocks(fn) : \A n \in 1 .. Len(fn.body[b]) :
         Needs(fn.body[b][n]) \subseteq Noted(meta, b, n)
    /\ \A p \in DOMAIN meta.ty : fn.body[p[1]][p[2]].op = "CallIndirect" /\ IsFunc(meta.ty[p])
    /\ \A p \in DOMAIN meta.from : fn.body[p[1]][p[2]].op = "Bitcast"
    /\ \A p \in DOMAIN meta.bws : IsInt(meta.bws[p])

(***************************************************************************)
(* Where the verifier accepts what cannot be compiled:                     *)
(*   - arguments are compared in the opposite order of the stack;          *)
(*   - the index of a field may be one too large;                          *)
(*   - pointers and functions may be read and written but are not          *)
(*     implemented, and structs may be cast;                               *)
(*   - two or more returned values are not compared at all;                *)
(*   - a block may leave too many values, or too few;                      *)
(*   - the entry block may have other results than its function.           *)
(***************************************************************************)
Reversed(args) == Lower(args) # Reverse(Lower(args))

InstrGap ==
  \/ Instr.op = "CallDirect" /\ Reversed(FuncTypes[Instr.name].args)
  \/ Instr.op = "CallIndirect" /\ Reversed(Nth(1).args)
  \/ Instr.op = "GetFieldPtr" /\ Instr.idx = Len(Instr.ty.fields)
  \/ Instr.op \in {"Read", "Write"} /\ (IsPtr(Instr.ty) \/ IsFunc(Instr.ty))
  \/ Instr.op = "Bitcast" /\ (IsStruct(Instr.ty) \/ IsStruct(Nth(1)))
  \/ Instr.op = "Return" /\ Len(stack) > 1 /\ Lower(stack) # Lower(fn.rets)

EndGap ==
  /\ fn.tag[cur] # "Loop"
  /\ \/ Len(stack) # Len(Results(cur))
     \/ fn.ret[cur] # Results(cur) /\ Lower(stack) # Lower(Results(cur))

Gap == IF AtInstr THEN InstrGap ELSE EndGap

\* A step of verify_block the verifier does not refuse.
Accepts == code = "ok" /\ cur # NoBlock /\ pc' = "blocks"

\* The code emitted for what verify_block accepts fails to validate, or the
\* emitter panics, at those gaps and nowhere else.
FailsAtTheGapsOnly == [][Accepts => (code' # "ok" <=> Gap)]_typedVars

\* verify_block in any order of blocks, and mutate_function after it, implement
\* the one-step contract of VerifierContract.
Contract == INSTANCE VerifierContract
              WITH notes <- meta, verdict <- IF pc \in Terminal THEN pc ELSE "none"

RefinesVerifierContract == Contract!Spec
=============================================================================
