------------------------------ MODULE Pipeline ------------------------------
(***************************************************************************)
(* The passes over a module, lib.rs and do_pass and do_mut_pass of         *)
(* module.rs.  A client verifies its module, may run a pass of its own     *)
(* over it, verifies it again, and at last compiles it.  The passes hand   *)
(* what they find to one another in the metadata of blocks and             *)
(* instructions alone.                                                     *)
(*                                                                         *)
(* The two verifiers take one step per function, as their contracts say;   *)
(* the emitter is Emitter itself.                                          *)
(***************************************************************************)
EXTENDS ControlFlow, Metadata

CONSTANTS
  Modules,    \* the modules a client starts with: sequences of functions
  Edits(_),   \* what a pass of the client's own may make of a function
  MaxCalls    \* how often the client may call the pipelines

VARIABLES
  defs,     \* Module.functions
  turn,     \* "client", "pipeline", or how the compilation ended: "compiled",
            \* "failed", or "unsupported" where a type has no code
  plan,     \* the passes of the call at hand that have not ended, in order
  at,       \* the function the first of them is at
  calls,    \* how many calls there have been
  edited,   \* the functions that were edited after a verification
  passed,   \* the functions found regular since they were last edited
  pc, frames, labels, out   \* the state of the emitter

client  == <<calls, edited>>
emitter == <<pc, frames, labels, out>>
vars    == <<defs, turn, plan, at, client, passed, emitter>>

(***************************************************************************)
(* A function with its metadata: meta[b] is that of block b, notes[b][n]   *)
(* that of its instruction n.                                              *)
(***************************************************************************)
Extern == [kind |-> "extern"]

Local(tag, body, meta, notes) ==
  [kind |-> "local", tag |-> tag, body |-> body, meta |-> meta, notes |-> notes]

Fresh(f) == Local(f.tag, f.body, [b \in Blocks(f) |-> NoMetadata],
                  [b \in Blocks(f) |-> [n \in 1 .. Len(f.body[b]) |-> NoMetadata]])

IsLocal(i) == defs[i].kind = "local"
Locals     == { i \in 1 .. Len(defs) : IsLocal(i) }

Keys(meta) == { meta[n].key : n \in 1 .. Len(meta) }

\* A function with what the passes can retrieve from its metadata.
Seen(f) ==
  [tag   |-> f.tag, body |-> f.body,
   dist  |-> [b \in { b \in Blocks(f) : Has(f.meta[b], "dist") } |-> Retrieve(f.meta[b], "dist")],
   notes |-> [b \in Blocks(f) |-> [n \in 1 .. Len(f.body[b]) |-> Keys(f.notes[b][n])]]]

\* The metadata of the passes: distances of blocks, and the call a note is from.
Nodes == [key : {"dist", "bws", "from", "ty"}, value : Nat]

\* The shape every local function has: each block and each instruction has a
\* list of metadata.
IsLocalFunction(f) ==
  /\ f = Local(f.tag, f.body, f.meta, f.notes) /\ IsFunction(f)
  /\ f.body \in [Blocks(f) -> Seq(UNION { ToSet(f.body[b]) : b \in Blocks(f) })]
  /\ f.meta \in [Blocks(f) -> Seq(Nodes)]
  /\ f.notes \in [Blocks(f) -> Seq(Seq(Nodes))]
  /\ \A b \in Blocks(f) : Len(f.notes[b]) = Len(f.body[b])

\* A client starts with functions as FunctionBuilder leaves them.
ASSUME ModulesAssumption ==
  \A m \in Modules :
    /\ m \in Seq(ToSet(m))
    /\ \A f \in ToSet(m) : f = Extern \/ (IsLocalFunction(f) /\ f = Fresh(f))

ASSUME CallsAssumption == MaxCalls \in Nat

AtLocal == at <= Len(defs) /\ IsLocal(at)
This    == defs[at]

ControlFlowPass == INSTANCE ControlFlowContract
                     WITH Functions <- {}, fn <- This, meta <- EmptyMap, verdict <- turn
TypePass == INSTANCE VerifierContract
              WITH fn <- This, notes <- EmptyMap, verdict <- turn

Code == INSTANCE Emitter WITH fn <- Seen(This)

-----------------------------------------------------------------------------
(* The client *)

Init ==
  /\ defs \in Modules
  /\ turn = "client" /\ plan = << >> /\ at = 1
  /\ calls = 0 /\ edited = {} /\ passed = {}
  /\ frames = << >> /\ labels = << >> /\ out = << >>
  /\ Code!Init

VerifyPasses == << "correct", "control_flow", "types" >>

CompilePasses(opt) ==
  IF opt THEN << "correct", "control_flow", "types", "optimise", "emit" >>
         ELSE << "correct", "control_flow", "types", "emit" >>

\* pipeline_verify_module, or pipeline_compile_module_to_wasm with or without
\* the optimiser.  After the last call before MaxCalls it is time to compile.
Call ==
  /\ turn = "client" /\ calls < MaxCalls
  /\ calls' = calls + 1
  /\ \/ plan' = VerifyPasses /\ calls' < MaxCalls
     \/ \E opt \in BOOLEAN : plan' = CompilePasses(opt)
  /\ turn' = "pipeline" /\ at' = 1
  /\ UNCHANGED <<defs, edited, passed, emitter>>

\* A pass of the client's own: do_mut_pass, and the bodies of blocks, are
\* public, and instructions keep their metadata when they are moved.  What it
\* makes of a function is a function.
Edit ==
  /\ turn = "client" /\ calls \in 1 .. MaxCalls - 1 /\ edited = {}
  /\ \E i \in Locals : \E f \in Edits(defs[i]) :
       /\ IsLocalFunction(f)
       /\ defs' = [defs EXCEPT ![i] = f]
       /\ edited' = {i} /\ passed' = passed \ {i}
  /\ UNCHANGED <<turn, plan, at, calls, emitter>>

-----------------------------------------------------------------------------
(* do_mut_pass and do_pass *)

Running(pass) == turn = "pipeline" /\ plan # << >> /\ Head(plan) = pass

Compiling == plan # << >> /\ Last(plan) = "emit"

\* Functions are visited in the order of the module, externs not at all.
SkipExtern ==
  /\ turn = "pipeline" /\ at <= Len(defs) /\ ~IsLocal(at)
  /\ at' = at + 1
  /\ UNCHANGED <<defs, turn, plan, client, passed, emitter>>

\* Before the emitter visits any function its visit_module panics if there is a
\* Struct in a function type, or an item of static memory points to none.
ModuleUnsupported == plan' = << "emit" >> /\ turn' = "unsupported"

\* The pass has visited the last function: the next one starts over.
EndPass ==
  /\ turn = "pipeline" /\ plan # << >> /\ at > Len(defs)
  /\ plan' = Tail(plan) /\ at' = 1
  /\ \/ turn' = CASE plan' # << >>        -> turn
                  [] plan = << "emit" >>  -> "compiled"
                  [] OTHER                -> "client"
     \/ ModuleUnsupported
  /\ UNCHANGED <<defs, client, passed, emitter>>

\* The function at hand becomes f; the functions before it are done.
Becomes(f) ==
  /\ defs' = [defs EXCEPT ![at] = f]
  /\ at' = at + 1
  /\ UNCHANGED <<turn, plan, client, emitter>>

\* The pass ends with an error.  What it has done to the functions before
\* stays; a module that is being compiled is gone.
Fails ==
  /\ turn' = IF Compiling THEN "failed" ELSE "client"
  /\ plan' = << >>
  /\ UNCHANGED <<defs, at, client, emitter>>

Panics == turn' = "failed" /\ UNCHANGED <<defs, plan, at, client, emitter>>

-----------------------------------------------------------------------------
(* CorrectionPass *)

\* How much of a body is left: everything up to a diverging instruction.
Kept(body) ==
  LET diverging == { n \in 1 .. Len(body) : IsDiverging(body[n]) }
  IN  IF diverging = {} THEN Len(body) ELSE Min(diverging)

\* Mutant: nothing is removed.
CorrectNothing ==
  Running("correct") /\ AtLocal /\ Becomes(This) /\ UNCHANGED passed

Correct ==
  /\ Running("correct") /\ AtLocal
  /\ LET cut(seqs) == [b \in Blocks(This) |-> SubSeq(seqs[b], 1, Kept(This.body[b]))] IN
     Becomes(Local(This.tag, cut(This.body), This.meta, cut(This.notes)))
  /\ UNCHANGED passed

-----------------------------------------------------------------------------
(* ControlFlowVerifier *)

\* Mutant: a distance that is there already is not replaced.
StoreDistancesOnce ==
  LET d == InnermostLoops(This) IN
  [b \in Blocks(This) |->
     IF b \in DOMAIN d /\ ~Has(This.meta[b], "dist")
       THEN InsertMeta(This.meta[b], "dist", d[b]) ELSE This.meta[b]]

\* mutate_function; the parents it stores too are read by nobody.
StoreDistances ==
  LET d == InnermostLoops(This) IN
  [b \in Blocks(This) |->
     IF b \in DOMAIN d THEN InsertMeta(This.meta[b], "dist", d[b]) ELSE This.meta[b]]

\* Mutant: a function that has been verified before is refused.
VerifyControlFlowOnce ==
  /\ Running("control_flow") /\ AtLocal
  /\ IF ControlFlowPass!Accepts(This) /\ \A b \in Blocks(This) : ~Has(This.meta[b], "dist")
       THEN Becomes([This EXCEPT !.meta = StoreDistances]) /\ passed' = passed \cup {at}
       ELSE Fails /\ passed' = passed

VerifyControlFlow ==
  /\ Running("control_flow") /\ AtLocal
  /\ \/ /\ ControlFlowPass!Accepts(This)
        /\ Becomes([This EXCEPT !.meta = StoreDistances])
        /\ passed' = passed \cup {at}
     \/ ~WellFormed(This) /\ Fails /\ UNCHANGED passed
     \/ ControlFlowPass!Panics(This) /\ Panics /\ UNCHANGED passed

\* A cycle of branches is followed for ever.
ChaseForEver ==
  /\ Running("control_flow") /\ AtLocal
  /\ WellFormed(This) /\ Knotted(This) /\ UNCHANGED vars

-----------------------------------------------------------------------------
(* Verifier *)

\* What is noted at an instruction, which is of one kind if anything; the value
\* stands for the call it is from.
Noting(b, n) ==
  LET kinds == { k \in TypePass!Kinds : <<b, n>> \in TypePass!NotedAt(This, k) }
  IN  IF kinds = {} THEN This.notes[b][n]
                    ELSE InsertMeta(This.notes[b][n], CHOOSE k \in kinds : TRUE, calls)

StoreNotes ==
  [b \in Blocks(This) |-> [n \in 1 .. Len(This.body[b]) |-> Noting(b, n)]]

\* Mutant: distances are not asked for.
VerifyTypesAnyBreak ==
  /\ Running("types") /\ AtLocal
  /\ \/ Becomes([This EXCEPT !.notes = StoreNotes]) /\ UNCHANGED passed
     \/ Fails /\ UNCHANGED passed

\* Whether the types fit is left open.
VerifyTypes ==
  /\ Running("types") /\ AtLocal
  /\ \/ /\ TypePass!MayAccept(Seen(This))
        /\ Becomes([This EXCEPT !.notes = StoreNotes])
     \/ Fails
     \/ TypePass!Returns(This) /\ Panics
  /\ UNCHANGED passed

-----------------------------------------------------------------------------
(* PeepholeOpt and InstrRewritePass, as InstrRewrite shows their effect *)

Direct(body, n) ==
  n < Len(body) /\ body[n].op = "LdGlobalFunc" /\ body[n + 1].op = "CallIndirect"

\* The members of a finite set of numbers, the smallest first.
InOrder(S) ==
  [k \in 1 .. Cardinality(S) |-> CHOOSE n \in S : Cardinality({ m \in S : m <= n }) = k]

\* The instructions that are left: not the loads of called functions.
Left(body) == InOrder({ n \in 1 .. Len(body) : ~Direct(body, n) })

NewInstr(body, n) ==
  IF n > 1 /\ Direct(body, n - 1) THEN OpNamed("CallDirect", body[n - 1].name) ELSE body[n]

\* Instructions move with their metadata; a direct call takes over that of the
\* indirect call it replaces.
Optimise ==
  /\ Running("optimise") /\ AtLocal
  /\ LET left(b) == Left(This.body[b]) IN
     Becomes(Local(This.tag,
       [b \in Blocks(This) |-> [k \in 1 .. Len(left(b)) |-> NewInstr(This.body[b], left(b)[k])]],
       This.meta,
       [b \in Blocks(This) |-> [k \in 1 .. Len(left(b)) |-> This.notes[b][left(b)[k]]]]))
  /\ UNCHANGED passed

-----------------------------------------------------------------------------
(* WasmEmitter *)

Emit ==
  /\ Running("emit") /\ AtLocal
  /\ UNCHANGED <<defs, turn, plan, at, client, passed>>
  /\ Code!Next

\* The code of the function goes into the code section.
EndFunction ==
  /\ Running("emit") /\ AtLocal
  /\ \/ pc = "done"        /\ turn' = turn          /\ at' = at + 1
     \/ pc = "panicked"    /\ turn' = "failed"      /\ at' = at
     \/ pc = "unsupported" /\ turn' = "unsupported" /\ at' = at
  /\ pc' = "idle" /\ frames' = << >> /\ labels' = << >> /\ out' = << >>
  /\ UNCHANGED <<defs, plan, client, passed>>

Finished == turn \in {"compiled", "failed", "unsupported"} /\ UNCHANGED vars

Step ==
  \/ SkipExtern \/ EndPass \/ Correct \/ VerifyControlFlow \/ VerifyTypes
  \/ Optimise \/ Emit \/ EndFunction

Next == Call \/ Edit \/ Step \/ ChaseForEver \/ Finished

\* The passes are a sequential program; nothing makes the client go on.
Spec == Init /\ [][Next]_vars /\ WF_vars(Step)

-----------------------------------------------------------------------------
(* Properties *)

Emitting == Running("emit")

\* The blocks that are inside of a loop of f.
InLoops(f) == DOMAIN InnermostLoops(f)

\* Distances that are left from an earlier form of the function.
Outdated(f) == DOMAIN Seen(f).dist \ InLoops(f)

(***************************************************************************)
(* When the emitter starts, every function is regular and every block in a *)
(* loop has its distance as it is now, whatever the function was when it   *)
(* was verified before.  Blocks outside of loops have none, unless the     *)
(* client moved them there: a distance is never taken back.                *)
(***************************************************************************)
EmitsVerified ==
  Emitting =>
    \A i \in Locals :
      /\ WellFormed(defs[i]) /\ ~Knotted(defs[i])
      /\ \A b \in InLoops(defs[i]) : Has(defs[i].meta[b], "dist")
      /\ LoopDistances(defs[i], [b \in InLoops(defs[i]) |-> Seen(defs[i]).dist[b]])
      /\ Outdated(defs[i]) # {} => i \in edited

(***************************************************************************)
(* Every note the emitter retrieves comes from the verification that has   *)
(* just ended and was made for the instruction it is found at, although    *)
(* older notes may be below it, and the optimiser and the client move      *)
(* instructions.                                                           *)
(***************************************************************************)
NotesAreFresh ==
  Emitting =>
    \A i \in Locals : \A b \in Blocks(defs[i]) : \A n \in 1 .. Len(defs[i].body[b]) :
      \A k \in Needs(defs[i].body[b][n]) :
        Has(defs[i].notes[b][n], k) /\ Retrieve(defs[i].notes[b][n], k) = calls

\* What a pass verified, it accepts again, with the same distances: verifying
\* twice, or compiling what has been verified, is as good as doing it once,
\* also after an error in a later function has ended the first attempt.
AcceptsAgain ==
  [][Running("control_flow") /\ AtLocal /\ at \in passed =>
       turn' = turn /\ Seen(defs'[at]).dist = Seen(defs[at]).dist]_vars

\* An IfElse behind a diverging instruction.
UnreachableBranch(f) ==
  \E b \in Blocks(f) : \E n \in Kept(f.body[b]) + 1 .. Len(f.body[b]) : f.body[b][n].op = "IfElse"

(***************************************************************************)
(* The correction pass keeps a regular function regular, except that it    *)
(* removes an unreachable branch and not the blocks of it, which make the  *)
(* control-flow verifier panic.                                            *)
(***************************************************************************)
CorrectionKeepsRegular ==
  [][Running("correct") /\ AtLocal /\ ControlFlowPass!Accepts(This) =>
       (ControlFlowPass!Accepts(defs'[at]) <=> ~UnreachableBranch(This))]_vars

\* The emitter's promises hold of whatever the pipeline lets through.
CodeNests == Emitting /\ AtLocal /\ Outdated(This) = {} => Code!CodeNests

NoBlockInItself == Emitting /\ AtLocal => Code!NoBlockInItself

BreakLeavesInnermostLoop ==
  [][Emitting /\ AtLocal /\ Outdated(This) = {} => Code!BreakLeaves]_vars

RepeatsItsLoop == [][Emitting /\ AtLocal => Code!LoopRepeats]_vars

\* Once the emitter has started on a verified module, the module is compiled
\* unless a type in it has no code: no unwrap of metadata panics, and the
\* recursion over the blocks ends.
CompiledUnlessUnsupported == Emitting ~> turn \in {"compiled", "unsupported"}

(***************************************************************************)
(* "Verify that this block HAS the metadata, in other words, that it's     *)
(* part of SOME loop because it's invalid to use `Break` without a `Loop`" *)
(* (verify.rs:502): where a Break is emitted there is a loop around it.    *)
(***************************************************************************)
BreakIsInALoop ==
  Emitting =>
    \A i \in Locals : \A b \in Blocks(defs[i]) \ InLoops(defs[i]) :
      \A n \in 1 .. Len(defs[i].body[b]) : defs[i].body[b][n].op # "Break"
=============================================================================
