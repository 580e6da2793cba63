-------------------------- MODULE FunctionBuilder --------------------------
(***************************************************************************)
(* FunctionBuilder of builder.rs, as a record and the operations on it.    *)
(* locals are the types of the arguments and of the other locals; tag, ret *)
(* and body are indexed by the BlockIds given out so far; next and current *)
(* are next_block_id and current_block.  A LocalRef is an index of locals  *)
(* that starts from 0.                                                     *)
(***************************************************************************)
EXTENDS IR

NewBuilder(name, args, rets) ==
  [name |-> name, argc |-> Len(args), locals |-> args, rets |-> rets,
   tag  |-> [b \in {Entry} |-> "Main"], ret |-> [b \in {Entry} |-> rets],
   body |-> [b \in {Entry} |-> << >>], next |-> 1, current |-> Entry]

\* The locals get_arg gives out: it panics on others.
Args(bd) == 0 .. bd.argc - 1

WithLocal(bd, ty) == [bd EXCEPT !.locals = Append(@, ty)]

\* The LocalRef and the BlockId new_local and new_block answer.
NextLocal(bd) == Len(bd.locals)
NextBlock(bd) == bd.next

\* Mutant: the new block becomes the current one.
WithBlockAtHand(bd, rets, tag) ==
  [bd EXCEPT !.next = @ + 1, !.current = bd.next,
             !.tag  = Insert(@, bd.next, tag),
             !.ret  = Insert(@, bd.next, rets),
             !.body = Insert(@, bd.next, << >>)]

WithBlock(bd, rets, tag) ==
  [bd EXCEPT !.next = @ + 1,
             !.tag  = Insert(@, bd.next, tag),
             !.ret  = Insert(@, bd.next, rets),
             !.body = Insert(@, bd.next, << >>)]

\* switch_block, which panics on a block that is not there.
HasBlock(bd, b) == b \in DOMAIN bd.tag
Switched(bd, b) == [bd EXCEPT !.current = b]

WithInstr(bd, i) == [bd EXCEPT !.body[bd.current] = Append(@, i)]

(***************************************************************************)
(* The function finish makes of a builder; the assertions of Function::new *)
(* hold of it.                                                             *)
(***************************************************************************)
Finished(bd) ==
  [name |-> bd.name, args |-> SubSeq(bd.locals, 1, bd.argc), rets |-> bd.rets,
   locals |-> bd.locals, tag |-> bd.tag, ret |-> bd.ret, body |-> bd.body]
=============================================================================
