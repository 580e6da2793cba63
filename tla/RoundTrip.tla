----------------------------- MODULE RoundTrip ------------------------------
(***************************************************************************)
(* Functions built through the C interface, dumped as text, and that text  *)
(* read by parse_function of irparse.rs: all of it as it was printed, only *)
(* its beginning, or with its locals or its blocks in another order, as    *)
(* somebody may have written it.                                           *)
(***************************************************************************)
EXTENDS CInterface, TextualIR

VARIABLES
  written,   \* the function that was printed
  layout,    \* "printed", "cut", "blocks" or "locals"
  source,    \* the text IRParser reads
  phase,     \* where parse_function is, or how it ended
  pos,       \* the token it is at
  parsed,    \* the function as far as it has been read
  block      \* the block being read

text   == <<written, layout, source>>
parser == <<phase, pos, parsed, block>>
vars   == <<api, text, parser>>

NoFunction == [name |-> "", args |-> << >>, rets |-> << >>, locals |-> << >>,
               tag |-> EmptyMap, ret |-> EmptyMap, body |-> EmptyMap]
NoLine == [id |-> NoBlock, ret |-> << >>, tag |-> "Undefined", body |-> << >>]

RoundTripInit ==
  /\ ApiInit
  /\ written = NoFunction /\ layout = "printed" /\ source = << >>
  /\ phase = "idle" /\ pos = 1 /\ parsed = NoFunction /\ block = NoLine

(***************************************************************************)
(* dump_module prints every function; one of them is read.  The client has *)
(* no function under construction then, and its menu says in which ways    *)
(* the text may differ from the printed one: these are bounds of the model. *)
(***************************************************************************)
Beginnings(s) == { SubSeq(s, 1, n) : n \in 0 .. Len(s) - 1 }

Layouts(f) ==
  { << "printed", PrintFunction(f) >> }
    \cup UNION { { << "cut", c >> : c \in Beginnings(s) } : s \in {PrintFunction(f)} }
    \cup { << "blocks", Lay(f, InOrder(f), bs) >> : bs \in SetToSeqs(Blocks(f)) \ {SortedIds(f)} }
    \cup { << "locals", Lay(f, ls, SortedIds(f)) >> : ls \in SetToSeqs(0 .. Len(f.locals) - 1) \ {InOrder(f)} }

DumpModule ==
  /\ process = "running" /\ Open = {} /\ functions # << >>
  /\ IF \A n \in 1 .. Len(functions) : Printable(functions[n])
       THEN /\ process' = "dumping" /\ phase' = "header"
            /\ \E f \in ToSet(functions) : \E l \in { k \in Layouts(f) : k[1] \in menu.layouts } :
                 written' = f /\ layout' = l[1] /\ source' = l[2]
            /\ UNCHANGED <<menu, builder, history, functions>>
       ELSE Abort /\ UNCHANGED <<text, phase>>
  /\ UNCHANGED <<pos, parsed, block>>

-----------------------------------------------------------------------------
(* parse_function *)

PeekAt(t) == Peek(source, pos, t)

\* An Err or a panic ends the parse; otherwise it goes on with what was read.
Take(r, there) ==
  IF r.how = "ok" THEN phase' = there /\ pos' = r.next
                  ELSE phase' = r.how /\ UNCHANGED <<pos, parsed, block>>

\* A name and a type that need not be a function's.
Header ==
  IF ~Reads(source, 1, << "Func", "String" >>) THEN Failed
  ELSE Then(ParseType(source, 3), LAMBDA t, q :
         IF Reads(source, q, << "LBrace", "Locals", "Colon" >>)
           THEN Got([name |-> source[2].text, ty |-> t], q + 3) ELSE Failed)

ReadHeader ==
  /\ phase = "header"
  /\ \E r \in {Header} :
         IF r.how = "ok" /\ ~IsFunc(r.val.ty) THEN phase' = "panicked" /\ UNCHANGED <<pos, parsed, block>>
         ELSE /\ Take(r, "locals")
              /\ r.how = "ok" =>
                   /\ parsed' = [NoFunction EXCEPT !.name = r.val.name, !.args = r.val.ty.args, !.rets = r.val.ty.ret]
                   /\ block' = block
  /\ UNCHANGED <<api, text>>

\* Mutant: the number of a local is not looked at.
ReadLocalInTurn ==
  /\ phase = "locals" /\ PeekAt("Hash")
  /\ \E r \in {IF Peek(source, pos + 1, "Int") THEN ParseType(source, pos + 2) ELSE Failed} :
         /\ Take(r, "locals")
         /\ r.how = "ok" => parsed' = [parsed EXCEPT !.locals = Append(@, r.val)] /\ block' = block
  /\ UNCHANGED <<api, text>>

\* Vec::insert panics beyond the end and moves what is there.
ReadLocal ==
  /\ phase = "locals" /\ PeekAt("Hash")
  /\ \E r \in {IF Peek(source, pos + 1, "Int") THEN ParseType(source, pos + 2) ELSE Failed},
        id \in {At(source, pos + 1).num} :
         IF r.how = "ok" /\ id > Len(parsed.locals)
           THEN phase' = "panicked" /\ UNCHANGED <<pos, parsed, block>>
           ELSE /\ Take(r, "locals")
                /\ r.how = "ok" => parsed' = [parsed EXCEPT !.locals = InsertAt(@, id + 1, r.val)] /\ block' = block
  /\ UNCHANGED <<api, text>>

EndLocals ==
  /\ phase = "locals" /\ ~PeekAt("Hash")
  /\ phase' = "blocks"
  /\ UNCHANGED <<api, text, pos, parsed, block>>

ReadBlockLine ==
  /\ phase = "blocks" /\ ~PeekAt("RBrace")
  /\ \E r \in {ParseBlockLine(source, pos)} :
         /\ Take(r, "body")
         /\ r.how = "ok" =>
              /\ block' = [id |-> r.val.id, ret |-> r.val.ret, tag |-> r.val.tag, body |-> << >>]
              /\ parsed' = parsed
  /\ UNCHANGED <<api, text>>

\* Mutant: any word that starts with b is taken for the name of a block.
AtBlockEndAnyB ==
  \/ PeekAt("Identifier") /\ At(source, pos).text \in WordsInB
  \/ PeekAt("RBrace") \/ PeekAt("Eof")

\* A block has no end of its own: a block's name, a brace or the end of the text.
AtBlockEnd ==
  \/ PeekAt("Identifier") /\ At(source, pos).num # -1
  \/ PeekAt("RBrace") \/ PeekAt("Eof")

\* Mutant: an instruction that cannot be read is tried again.
ReadInstrAgain ==
  /\ phase = "body" /\ ~AtBlockEnd
  /\ \E r \in {ParseInstr(source, pos)} :
       /\ r.how = "ok" => Take(r, "body") /\ block' = [block EXCEPT !.body = Append(@, r.val)]
       /\ r.how # "ok" => UNCHANGED <<phase, pos, block>>
  /\ UNCHANGED <<api, text, parsed>>

ReadInstr ==
  /\ phase = "body" /\ ~AtBlockEnd
  /\ \E r \in {ParseInstr(source, pos)} :
         /\ Take(r, "body")
         /\ r.how = "ok" => block' = [block EXCEPT !.body = Append(@, r.val)] /\ parsed' = parsed
  /\ UNCHANGED <<api, text>>

EndBlock ==
  /\ phase = "body" /\ AtBlockEnd
  /\ phase' = "blocks"
  /\ parsed' = [parsed EXCEPT !.tag  = Insert(@, block.id, block.tag),
                              !.ret  = Insert(@, block.id, block.ret),
                              !.body = Insert(@, block.id, block.body)]
  /\ block' = NoLine
  /\ UNCHANGED <<api, text, pos>>

\* Function::new, with the assertion of a debug build.
EndFunction ==
  /\ phase = "blocks" /\ PeekAt("RBrace")
  /\ phase' = IF IsPrefix(parsed.args, parsed.locals) THEN "done" ELSE "panicked"
  /\ pos' = pos + 1
  /\ UNCHANGED <<api, text, parsed, block>>

Ended == {"done", "error", "panicked"}

Parse ==
  \/ ReadHeader \/ ReadLocal \/ EndLocals \/ ReadBlockLine \/ ReadInstr \/ EndBlock \/ EndFunction

Next ==
  \/ Build /\ UNCHANGED <<text, parser>>
  \/ DumpModule
  \/ Parse

\* A parse, once begun, is a function that runs to its end.
Spec == RoundTripInit /\ [][Next]_vars /\ WF_vars(Parse)

-----------------------------------------------------------------------------
RECURSIVE MentionsStruct(_)
MentionsStruct(t) ==
  CASE IsStruct(t) -> TRUE
    [] IsFunc(t)   -> \E n \in 1 .. Len(t.args \o t.ret) : MentionsStruct((t.args \o t.ret)[n])
    [] OTHER       -> FALSE

\* A function with a function as its only result: its type reads as another.
RECURSIVE Ambiguous(_)
Ambiguous(t) ==
  CASE IsStruct(t) -> \E n \in 1 .. Len(t.fields) : Ambiguous(t.fields[n])
    [] IsFunc(t)   -> \/ Len(t.ret) = 1 /\ IsFunc(t.ret[1])
                      \/ \E n \in 1 .. Len(t.args \o t.ret) : Ambiguous((t.args \o t.ret)[n])
    [] OTHER       -> FALSE

TypesOf(i) == IF i.op \in {"Ftoi", "IConv", "Bitcast", "Read", "Write", "Offset", "GetFieldPtr"} THEN {i.ty} ELSE {}

Instrs(f) == UNION { { f.body[b][n] : n \in 1 .. Len(f.body[b]) } : b \in Blocks(f) }

TypesIn(f) ==
  {Func(f.args, f.rets)} \cup { f.locals[n] : n \in 1 .. Len(f.locals) }
    \cup { Func(<< >>, f.ret[b]) : b \in Blocks(f) } \cup UNION { TypesOf(i) : i \in Instrs(f) }

\* What the printed form of f does not say, or the parser does not understand.
\* Names with quotes in them, which TextualIR leaves out, would be another gap.
TextGap(f) ==
  \/ \E t \in TypesIn(f) : MentionsStruct(t) \/ Ambiguous(t)
  \/ \E i \in Instrs(f) : i.op = "LdFloat"

(***************************************************************************)
(* A function that was built, printed and read, its blocks in any order,   *)
(* is the one that was printed, unless it is at one of the gaps.           *)
(***************************************************************************)
ReadsBack ==
  phase \in Ended /\ layout \in {"printed", "blocks"} /\ ~TextGap(written)
    => phase = "done" /\ parsed = written

\* xs is ys up to an element that has a property, and nothing after it.
EndsAt(xs, ys, P(_)) ==
  /\ xs # << >> /\ Len(xs) <= Len(ys) /\ P(ys[Len(xs)])
  /\ Front(xs) = SubSeq(ys, 1, Len(xs) - 1)

\* f up to a struct in a local or in an instruction.
CutAtStruct(g, f) ==
  /\ g.name = f.name /\ g.args = f.args /\ g.rets = f.rets
  /\ \/ EndsAt(g.locals, f.locals, MentionsStruct) /\ Blocks(g) = {}
     \/ /\ g.locals = f.locals /\ Blocks(g) \subseteq Blocks(f)
        /\ \A b \in Blocks(g) : g.tag[b] = f.tag[b] /\ g.ret[b] = f.ret[b]
        /\ \E b \in Blocks(g) :
             /\ EndsAt(g.body[b], f.body[b], LAMBDA i : \E t \in TypesOf(i) : MentionsStruct(t))
             /\ \A c \in Blocks(g) \ {b} : g.body[c] = f.body[c]

(***************************************************************************)
(* No text is taken for another function than the one it was made from:    *)
(* not its beginning, nor one with its locals out of order.  Only after a  *)
(* struct, whose brace ends the function, the rest of it is lost.          *)
(***************************************************************************)
TakenForNoOther ==
  phase = "done" => parsed = written \/ CutAtStruct(parsed, written)

\* The parser comes to an end on every text, whole or not.
EveryTextIsDecided == phase = "header" ~> phase \in Ended
=============================================================================
