------------------------------- MODULE Emitter ------------------------------
(***************************************************************************)
(* The control structure of the code emitter, emit.rs: compile_func and    *)
(* the recursion of compile_block over the blocks of one function.         *)
(*                                                                         *)
(* The recursion is a stack of frames, one per active call.  labels is the *)
(* stack of WebAssembly constructs that are open at the end of the code    *)
(* emitted so far: br n leaves, or repeats, the construct n places below   *)
(* the top.  Instructions that touch no label are emitted as they are.     *)
(***************************************************************************)
EXTENDS ControlFlow, SequencesExt

VARIABLES
  fn,       \* the function being compiled, with what can be retrieved from its
            \* metadata: the distances dist of blocks, the keys in notes of
            \* instructions
  pc,       \* "idle", "emit", "done", "panicked" where metadata is missing, or
            \* "unsupported" where a type has no code
  frames,   \* the active calls of compile_block, the innermost last
  labels,   \* the constructs open in the code emitted so far
  out       \* out_f: the code emitted so far

vars == <<fn, pc, frames, labels, out>>

(***************************************************************************)
(* A frame: its block, the instruction it is at, how many of the blocks of *)
(* that instruction it has called compile_block for, and how many labels   *)
(* were open when it was entered.                                          *)
(***************************************************************************)
Frame(b, h) == [block |-> b, ip |-> 1, calls |-> 0, height |-> h]

Top == frames[Len(frames)]

Instr == fn.body[Top.block][Top.ip]

AtInstr == pc = "emit" /\ frames # << >> /\ Top.ip <= Len(fn.body[Top.block])

W(op)    == [w |-> op]
Br(n)    == [w |-> "br", to |-> n]
Plain(i) == [w |-> "plain", instr |-> i]

Advance == [frames EXCEPT ![Len(frames)].ip = @ + 1, ![Len(frames)].calls = 0]

Call(b, ls) ==
  Append([frames EXCEPT ![Len(frames)].calls = @ + 1], Frame(b, Len(ls)))

Init ==
  /\ pc = "idle"
  /\ frames = << >> /\ labels = << >> /\ out = << >>

(***************************************************************************)
(* Where the emitter panics although no metadata is missing depends on     *)
(* types, which are left open here: compile_type has no type for a Struct, *)
(* pointers and functions are not read or written, the index of a field    *)
(* may be one too large, and an item of another module's static memory may *)
(* have no address.  TypedEmission says for which types it panics.         *)
(***************************************************************************)
MayLackCode == {"Bitcast", "Read", "Write", "GetFieldPtr", "LdStaticMemPtr"}

\* compile_func: the body of a function is itself a label.  A local that is a
\* Struct has no type.  (Nor has the result of a branch, but that is in a
\* function type too, and those are encoded before any function.)
CompileFunc ==
  /\ pc = "idle"
  /\ pc' \in {"emit", "unsupported"}
  /\ labels' = << "func" >>
  /\ frames' = << Frame(Entry, 1) >>
  /\ UNCHANGED <<fn, out>>

\* The code of one instruction; an unwrap of metadata that is not there panics.
EmitPlain ==
  /\ AtInstr /\ Instr.op \notin {"IfElse", "Loop", "Break"}
  /\ IF Needs(Instr) \subseteq fn.notes[Top.block][Top.ip]
       THEN \/ out' = Append(out, Plain(Instr)) /\ frames' = Advance /\ pc' = pc
            \/ Instr.op \in MayLackCode /\ pc' = "unsupported" /\ UNCHANGED <<out, frames>>
       ELSE pc' = "panicked" /\ UNCHANGED <<out, frames>>
  /\ UNCHANGED <<fn, labels>>

\* Mutant: the block at hand is compiled instead of the branch.
EnterThenSelf ==
  /\ AtInstr /\ Instr.op = "IfElse" /\ Top.calls = 0
  /\ out' = Append(out, W("if"))
  /\ labels' = Append(labels, "if")
  /\ frames' = Call(Top.block, labels')
  /\ UNCHANGED <<fn, pc>>

\* if <then>
EnterThen ==
  /\ AtInstr /\ Instr.op = "IfElse" /\ Top.calls = 0
  /\ out' = Append(out, W("if"))
  /\ labels' = Append(labels, "if")
  /\ frames' = Call(Instr.then, labels')
  /\ UNCHANGED <<fn, pc>>

\* else <else>: the else is emitted whether or not there is a block for it.
EnterElse ==
  /\ AtInstr /\ Instr.op = "IfElse" /\ Top.calls = 1
  /\ out' = Append(out, W("else"))
  /\ frames' = IF Instr.else # NoBlock
                 THEN Call(Instr.else, labels)
                 ELSE [frames EXCEPT ![Len(frames)].calls = @ + 1]
  /\ UNCHANGED <<fn, pc, labels>>

EndIf ==
  /\ AtInstr /\ Instr.op = "IfElse" /\ Top.calls = 2
  /\ out' = Append(out, W("end"))
  /\ labels' = Front(labels)
  /\ frames' = Advance
  /\ UNCHANGED <<fn, pc>>

\* block loop <body>
EnterLoop ==
  /\ AtInstr /\ Instr.op = "Loop" /\ Top.calls = 0
  /\ out' = out \o << W("block"), W("loop") >>
  /\ labels' = labels \o << "block", "loop" >>
  /\ frames' = Call(Instr.block, labels')
  /\ UNCHANGED <<fn, pc>>

\* Mutant: the end of the enclosing block construct is not emitted.
EndLoopOnce ==
  /\ AtInstr /\ Instr.op = "Loop" /\ Top.calls = 1
  /\ out' = out \o << Br(0), W("end") >>
  /\ labels' = Front(Front(labels))
  /\ frames' = Advance
  /\ UNCHANGED <<fn, pc>>

\* Mutant: the br leaves the loop instead of repeating it.
EndLoopLeaving ==
  /\ AtInstr /\ Instr.op = "Loop" /\ Top.calls = 1
  /\ out' = out \o << Br(1), W("end"), W("end") >>
  /\ labels' = Front(Front(labels))
  /\ frames' = Advance
  /\ UNCHANGED <<fn, pc>>

\* br 0 end end
EndLoop ==
  /\ AtInstr /\ Instr.op = "Loop" /\ Top.calls = 1
  /\ out' = out \o << Br(0), W("end"), W("end") >>
  /\ labels' = Front(Front(labels))
  /\ frames' = Advance
  /\ UNCHANGED <<fn, pc>>

\* Mutant: the label of the loop's own block construct is not counted.
EmitBreakShort ==
  /\ AtInstr /\ Instr.op = "Break"
  /\ Top.block \in DOMAIN fn.dist
  /\ out' = Append(out, Br(fn.dist[Top.block]))
  /\ frames' = Advance
  /\ UNCHANGED <<fn, pc, labels>>

\* br (innermost_loop_distance + 1); without the metadata the unwrap panics.
EmitBreak ==
  /\ AtInstr /\ Instr.op = "Break"
  /\ IF Top.block \in DOMAIN fn.dist
       THEN out' = Append(out, Br(fn.dist[Top.block] + 1)) /\ frames' = Advance /\ pc' = pc
       ELSE pc' = "panicked" /\ UNCHANGED <<out, frames>>
  /\ UNCHANGED <<fn, labels>>

\* compile_block returns to its caller.
EndBlock ==
  /\ pc = "emit" /\ frames # << >> /\ Top.ip > Len(fn.body[Top.block])
  /\ frames' = Front(frames)
  /\ UNCHANGED <<fn, pc, labels, out>>

\* The End of the function itself.
EndFunc ==
  /\ pc = "emit" /\ frames = << >>
  /\ out' = Append(out, W("end"))
  /\ labels' = Front(labels)
  /\ pc' = "done"
  /\ UNCHANGED <<fn, frames>>

Next == \/ CompileFunc \/ EmitPlain \/ EnterThen \/ EnterElse \/ EndIf
        \/ EnterLoop \/ EndLoop \/ EmitBreak \/ EndBlock \/ EndFunc

-----------------------------------------------------------------------------
(* Properties *)

\* The frame of the innermost loop body that is being compiled.
LoopFrame == CHOOSE k \in 1 .. Len(frames) :
               /\ fn.tag[frames[k].block] = "Loop"
               /\ \A j \in k + 1 .. Len(frames) : fn.tag[frames[j].block] # "Loop"

(***************************************************************************)
(* The br that a Break becomes leaves the block construct put around the   *)
(* innermost loop, however many branches are open between the two: the     *)
(* distance computed by one pass, plus one, counts the labels that another *)
(* pass opens.                                                             *)
(***************************************************************************)
LeavesInnermostLoop(br) ==
  LET target == Len(labels) - br.to IN
  /\ target >= 1
  /\ labels[target] = "block" /\ labels[target + 1] = "loop"
  /\ \A n \in target + 2 .. Len(labels) : labels[n] = "if"
  /\ frames[LoopFrame].height = target + 1

BreakLeaves ==
  AtInstr /\ Instr.op = "Break" /\ out' # out => LeavesInnermostLoop(Last(out'))

\* The br at the end of a loop body repeats the loop that was opened for that
\* body, although constructs were opened and closed in between.
LoopRepeats ==
  AtInstr /\ Instr.op = "Loop" /\ Top.calls = 1 =>
    LET target == Len(labels) - out'[Len(out) + 1].to IN
    /\ target = Top.height + 2
    /\ labels[target] = "loop"

(***************************************************************************)
(* No block is being compiled twice at a time: each call of compile_block  *)
(* is for a block that one instruction of its caller refers to, so that    *)
(* the recursion is bounded by the blocks of the function.                 *)
(***************************************************************************)
NoBlockInItself ==
  \A j, k \in 1 .. Len(frames) : frames[j].block = frames[k].block => j = k

\* The constructs open after one more instruction of the code.
OpenOn(open, w) ==
  CASE w.w \in {"if", "block", "loop"} -> Append(open, w.w)
    [] w.w = "end" -> Front(open)
    [] OTHER -> open

\* What a reader of the code finds open after its first n instructions.
OpenAfter(code) ==
  LET open[n \in 0 .. Len(code)] ==
        IF n = 0 THEN << "func" >> ELSE OpenOn(open[n - 1], code[n])
  IN  open

(***************************************************************************)
(* The finished code nests: it closes what it opens and no more, every     *)
(* else is inside an if, and every br names an open construct.             *)
(***************************************************************************)
CodeNests ==
  pc = "done" =>
    LET open == OpenAfter(out) IN
    /\ open[Len(out)] = << >>
    /\ \A n \in 1 .. Len(out) :
         /\ open[n - 1] # << >>
         /\ out[n].w = "else" => Last(open[n - 1]) = "if"
         /\ out[n].w = "br" => out[n].to < Len(open[n - 1])
=============================================================================
