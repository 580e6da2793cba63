----------------------------- MODULE CInterface -----------------------------
(***************************************************************************)
(* A client of the C interface, c_api.rs, that has several function        *)
(* builders at hand and calls them in any order, for one module.           *)
(*                                                                         *)
(* The client gives instructions only BlockIds and LocalRefs that some     *)
(* builder has answered, and uses no handle after it has finished it: what *)
(* is then in the memory behind it is not for the source to say.  A panic  *)
(* cannot leave a function of the C interface: the process aborts.         *)
(***************************************************************************)
EXTENDS FunctionBuilder, FiniteSets, SequencesExt

CONSTANTS
  Handles,   \* function builders
  Menus      \* what a client may ask for

(***************************************************************************)
(* A menu has the handles the client may use, the functions it may start   *)
(* (names and types), the types of locals and the results and tags of      *)
(* blocks it asks for, the arguments it counts, the instructions it gives, *)
(* and those it gives a local or a block.  Its calls are the model's bound *)
(* on the calls of all builders.                                           *)
(***************************************************************************)

\* The arguments of a function's type are a list.
ASSUME MenusAssumption ==
  \A m \in Menus :
    /\ m.handles \subseteq Handles
    /\ \A f \in m.starts : IsFunc(f.ty) => f.ty.args \in Seq(ToSet(f.ty.args))

VARIABLES
  menu,
  builder,     \* the FunctionBuilder behind a handle
  history,     \* the calls of a handle, with what they answered
  functions,   \* Module.functions
  process      \* "running", "dumping" or "aborted"

api == <<menu, builder, history, functions, process>>

Unused == [name |-> "unused"]
Taken  == [name |-> "taken"]      \* the zeros take leaves behind

Open  == { h \in Handles : builder[h] \notin {Unused, Taken} }
Known == { functions[n].name : n \in 1 .. Len(functions) }

Calls(h) == { history[h][n] : n \in 1 .. Len(history[h]) }
MayCall(h) ==
  /\ process = "running" /\ h \in Open
  /\ Cardinality(UNION { {k} \X (2 .. Len(history[k])) : k \in Handles }) < menu.calls

ApiInit ==
  /\ menu \in Menus
  /\ builder = [h \in Handles |-> Unused]
  /\ history = [h \in Handles |-> << >>]
  /\ functions = << >> /\ process = "running"

Abort == process' = "aborted" /\ UNCHANGED <<menu, builder, history, functions>>

\* A call through h, with its answer, that leaves bd behind.
Answer(h, call, bd) ==
  /\ builder' = [builder EXCEPT ![h] = bd]
  /\ history' = [history EXCEPT ![h] = Append(@, call)]
  /\ UNCHANGED <<menu, functions, process>>

\* create_function_builder panics on a type that is not that of a function.
CreateFunctionBuilder(h, name, ty) ==
  /\ process = "running" /\ builder[h] = Unused
  /\ IF IsFunc(ty)
       THEN Answer(h, [call |-> "create", name |-> name, ty |-> ty], NewBuilder(name, ty.args, ty.ret))
       ELSE Abort

GetArg(h, n) ==
  /\ MayCall(h)
  /\ IF n \in Args(builder[h])
       THEN Answer(h, [call |-> "arg", ref |-> n], builder[h])
       ELSE Abort

NewLocal(h, ty) ==
  /\ MayCall(h)
  /\ Answer(h, [call |-> "local", ty |-> ty, ref |-> NextLocal(builder[h])], WithLocal(builder[h], ty))

NewBlock(h, rets, tag) ==
  /\ MayCall(h)
  /\ Answer(h, [call |-> "block", ret |-> rets, tag |-> tag, id |-> NextBlock(builder[h])],
            WithBlock(builder[h], rets, tag))

SwitchBlock(h, b) ==
  /\ MayCall(h)
  /\ IF HasBlock(builder[h], b)
       THEN Answer(h, [call |-> "switch", id |-> b], Switched(builder[h], b))
       ELSE Abort

\* builder_i_*, one function for every instruction.
BuildInstr(h, i) ==
  /\ MayCall(h)
  /\ Answer(h, [call |-> "instr", instr |-> i], WithInstr(builder[h], i))

\* The builder is taken out of its handle; add_function panics on a known name.
FinishFunctionBuilder(h) ==
  /\ process = "running" /\ h \in Open
  /\ IF builder[h].name \notin Known
       THEN /\ functions' = Append(functions, Finished(builder[h]))
            /\ builder' = [builder EXCEPT ![h] = Taken]
            /\ UNCHANGED <<menu, history, process>>
       ELSE Abort

-----------------------------------------------------------------------------
(* The client *)

Answered(call) == UNION { { c \in Calls(h) : c.call = call } : h \in Handles }
LocalRefs == { c.ref : c \in Answered("local") \cup Answered("arg") }
BlockIds  == { c.id : c \in Answered("block") }

Offered ==
  menu.instrs
    \cup { OpLocal(o, r) : o \in menu.locals, r \in LocalRefs }
    \cup (IF "If" \in menu.jumps THEN { If(b) : b \in BlockIds } ELSE {})
    \cup (IF "IfElse" \in menu.jumps THEN { IfElse(b, b + 1) : b \in BlockIds } ELSE {})
    \cup (IF "Loop" \in menu.jumps THEN { Loop(b) : b \in BlockIds } ELSE {})

Build ==
  \E h \in menu.handles :
    \/ \E f \in menu.starts : CreateFunctionBuilder(h, f.name, f.ty)
    \/ \E n \in menu.args : GetArg(h, n)
    \/ \E t \in menu.types : NewLocal(h, t)
    \/ \E r \in menu.rets, t \in menu.tags : NewBlock(h, r, t)
    \/ \E b \in BlockIds \cup {Entry} : SwitchBlock(h, b)
    \/ \E i \in Offered : BuildInstr(h, i)
    \/ FinishFunctionBuilder(h)

\* The module is dumped, or the process ends in the attempt.
Dump == process = "running" /\ process' \in {"dumping", "aborted"}
        /\ UNCHANGED <<menu, builder, history, functions>>

\* The clients on their own: whoever goes on with the module changes none of it.
ApiSpec == ApiInit /\ [][Build \/ Dump]_api

-----------------------------------------------------------------------------
(***************************************************************************)
(* The function the calls of a log ask for, as a whole, in terms of their  *)
(* positions in the log.                                                   *)
(***************************************************************************)
Asks(log, call) == { n \in 1 .. Len(log) : log[n].call = call }

Before(P, n) == { k \in P : k < n }

\* xs are the values of v, one for every position v has, in their order.
Lists(xs, v) ==
  /\ Len(xs) = Cardinality(DOMAIN v)
  /\ \A n \in DOMAIN v : xs[Cardinality(Before(DOMAIN v, n)) + 1] = v[n]

\* Before position n of the log, b is the block of the last switch_block.
IsCurrent(log, n, b) ==
  LET switches == Before(Asks(log, "switch"), n)
  IN  \/ switches = {} /\ b = Entry
      \/ \E k \in switches : log[k].id = b /\ \A j \in switches : j <= k

Within(log, b) ==
  [n \in { k \in Asks(log, "instr") : IsCurrent(log, k, b) } |-> log[n].instr]

\* The arguments, and behind them the locals, where their references say.
LocalsAsked(log, f) ==
  LET locals == Asks(log, "local")
  IN  /\ Len(f.locals) = Len(f.args) + Cardinality(locals)
      /\ \A n \in 1 .. Len(f.args) : f.locals[n] = f.args[n]
      /\ \A n \in locals :
           /\ log[n].ref = Len(f.args) + Cardinality(Before(locals, n))
           /\ f.locals[log[n].ref + 1] = log[n].ty

\* A block of its own for every new_block, beside the entry block.
BlocksAsked(log, f) ==
  LET blocks == Asks(log, "block")
  IN  /\ Blocks(f) = {Entry} \cup { log[n].id : n \in blocks }
      /\ f.tag[Entry] = "Main" /\ f.ret[Entry] = f.rets
      /\ \A n \in blocks :
           /\ f.tag[log[n].id] = log[n].tag /\ f.ret[log[n].id] = log[n].ret
           /\ log[n].id # Entry /\ \A k \in blocks : log[k].id = log[n].id => k = n

AskedFor(log, f) ==
  /\ log # << >> /\ log[1].call = "create"
  /\ f.name = log[1].name /\ f.args = log[1].ty.args /\ f.rets = log[1].ty.ret
  /\ LocalsAsked(log, f) /\ BlocksAsked(log, f)
  /\ \A b \in Blocks(f) : Lists(f.body[b], Within(log, b))

(***************************************************************************)
(* Whatever the order of the calls and with several builders at hand, a    *)
(* finished function is the one its own builder was asked for: every       *)
(* instruction in the block that was then current, every local and block   *)
(* where its reference says.                                               *)
(***************************************************************************)
BuiltAsAsked ==
  \A h \in Handles : builder[h] = Taken =>
    \E n \in 1 .. Len(functions) : AskedFor(history[h], functions[n])
=============================================================================
