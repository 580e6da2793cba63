----------------------------- MODULE TextualIR ------------------------------
(***************************************************************************)
(* A function as text: irprint.rs writes it, irparse.rs reads it back.     *)
(*                                                                         *)
(* A text is the sequence of its tokens, as the lexer delivers them.  A    *)
(* word is an identifier; the identifier of block number n is the word "b" *)
(* with the number n.  All comparisons are one word.  A name is a single   *)
(* token: it has no quotes in it, which the printer would not escape.      *)
(***************************************************************************)
EXTENDS IR, SequencesExt, TLC

Token(t)   == [tok |-> t, text |-> "", num |-> -1]
Word(w)    == [tok |-> "Identifier", text |-> w, num |-> -1]
BlockName(b) == [tok |-> "Identifier", text |-> "b", num |-> b]
Number(n)     == [tok |-> "Int", text |-> "", num |-> n]
Quoted(s)  == [tok |-> "String", text |-> s, num |-> -1]
Eof        == Token("Eof")

Simple == {Int8, UInt8, Int16, UInt16, Int32, UInt32, Float32, Ptr}

-----------------------------------------------------------------------------
(* Printing *)

RECURSIVE PrintType(_)

Separated(texts) ==
  FlattenSeq([n \in 1 .. Len(texts) |-> (IF n = 1 THEN << >> ELSE << Token("Comma") >>) \o texts[n]])

PrintTypes(ts) == Separated([n \in 1 .. Len(ts) |-> PrintType(ts[n])])

InParens(text) == << Token("LParen") >> \o text \o << Token("RParen") >>

\* A single result stands without parentheses.
PrintType(t) ==
  CASE IsFunc(t)   -> InParens(PrintTypes(t.args)) \o << Token("Arrow") >>
                        \o (IF Len(t.ret) = 1 THEN PrintType(t.ret[1]) ELSE InParens(PrintTypes(t.ret)))
    [] IsStruct(t) -> << Token("Struct"), Token("LBrace") >> \o PrintTypes(t.fields) \o << Token("RBrace") >>
    [] OTHER       -> << Token(t.k) >>

LdWord(t) ==
  CASE t = Int32 -> "ld.int32" [] t = UInt32 -> "ld.uint32" [] t = Int16 -> "ld.int16"
    [] t = UInt16 -> "ld.uint16" [] t = Int8 -> "ld.int8" [] t = UInt8 -> "ld.uint8"

PlainWord ==
  "IAdd" :> "iadd" @@ "ISub" :> "isub" @@ "IMul" :> "imul" @@ "IDiv" :> "idiv"
  @@ "FAdd" :> "fadd" @@ "FSub" :> "fsub" @@ "FMul" :> "fmul" @@ "FDiv" :> "fdiv"
  @@ "Itof" :> "itof" @@ "ICmp" :> "icmp" @@ "FCmp" :> "fcmp" @@ "Not" :> "not"
  @@ "BitAnd" :> "bitand" @@ "BitOr" :> "bitor" @@ "Discard" :> "discard"
  @@ "Return" :> "return" @@ "MemorySize" :> "memory.size" @@ "MemoryGrow" :> "memory.grow"
  @@ "Fail" :> "fail" @@ "Break" :> "break"

PrintInstr(i) ==
  CASE i.op \in DOMAIN PlainWord -> << Word(PlainWord[i.op]) >>
    [] i.op = "LdInt"        -> << Word(LdWord(i.ty)), Number(i.val) >>
    [] i.op = "LdFloat"      -> << Word("ld.float"), Number(1) >>
    [] i.op = "Ftoi"         -> << Word("ftoi"), Word("to") >> \o PrintType(i.ty)
    [] i.op = "IConv"        -> << Word("iconv"), Word("to") >> \o PrintType(i.ty)
    [] i.op = "Bitcast"      -> << Word("bitcast"), Word("to") >> \o PrintType(i.ty)
    [] i.op = "Read"         -> << Word("read") >> \o PrintType(i.ty)
    [] i.op = "Write"        -> << Word("write") >> \o PrintType(i.ty)
    [] i.op = "Offset"       -> << Word("offset") >> \o PrintType(i.ty)
    [] i.op = "GetFieldPtr"  -> << Word("get_field_ptr"), Number(i.idx) >> \o PrintType(i.ty)
    [] i.op = "CallDirect"   -> << Word("call"), Quoted(i.name) >>
    [] i.op = "CallIndirect" -> << Word("call"), Word("indirect") >>
    [] i.op = "LdLocal"      -> << Word("ld.loc"), Token("Hash"), Number(i.idx) >>
    [] i.op = "StLocal"      -> << Word("st.loc"), Token("Hash"), Number(i.idx) >>
    [] i.op = "LdGlobalFunc" -> << Word("ld_glob_func"), Quoted(i.name) >>
    [] i.op = "LdGlobal"     -> << Word("ld.global"), Quoted(i.name) >>
    [] i.op = "StGlobal"     -> << Word("st.global"), Quoted(i.name) >>
    [] i.op = "IfElse"       -> << Word("if"), Word("then"), BlockName(i.then) >>
                                  \o (IF i.else = NoBlock THEN << >> ELSE << Word("else"), BlockName(i.else) >>)
    [] i.op = "Loop"         -> << Word("loop"), BlockName(i.block) >>

\* unimplemented!() for a pointer into static memory.
Printable(f) == \A b \in Blocks(f) : \A n \in 1 .. Len(f.body[b]) : f.body[b][n].op # "LdStaticMemPtr"

TagWord(t) ==
  CASE t = "Undefined" -> "undefined" [] t = "Main" -> "main" [] t = "IfElse" -> "if_else" [] t = "Loop" -> "loop"

PrintBlock(f, b) ==
  << BlockName(b), Token("Colon") >> \o PrintType(Func(<< >>, f.ret[b]))
    \o << Word("tag"), Token("Equals"), Word(TagWord(f.tag[b])) >>
    \o FlattenSeq([n \in 1 .. Len(f.body[b]) |-> PrintInstr(f.body[b][n])])

PrintLocal(f, n) == << Token("Hash"), Number(n) >> \o PrintType(f.locals[n + 1])

\* A function with its locals and its blocks in the given orders.
Lay(f, locals, blocks) ==
  << Token("Func"), Quoted(f.name) >> \o PrintType(Func(f.args, f.rets))
    \o << Token("LBrace"), Token("Locals"), Token("Colon") >>
    \o FlattenSeq([n \in 1 .. Len(locals) |-> PrintLocal(f, locals[n])])
    \o FlattenSeq([n \in 1 .. Len(blocks) |-> PrintBlock(f, blocks[n])])
    \o << Token("RBrace") >>

InOrder(f)       == [n \in 1 .. Len(f.locals) |-> n - 1]
SortedIds(f)     == SetToSortSeq(Blocks(f), <)
PrintFunction(f) == Lay(f, InOrder(f), SortedIds(f))

-----------------------------------------------------------------------------
(* Reading types: what is at place p of the text s. *)

At(s, p)         == IF p <= Len(s) THEN s[p] ELSE Eof
Peek(s, p, t)    == At(s, p).tok = t
IsWord(s, p, w)  == At(s, p).tok = "Identifier" /\ At(s, p).text = w
Reads(s, p, ts)  == \A n \in 1 .. Len(ts) : Peek(s, p + n - 1, ts[n])

\* What was read, and where the next token is.
Got(x, p) == [how |-> "ok", val |-> x, next |-> p]
Failed    == [how |-> "error", val |-> << >>, next |-> 0]
Panicked  == [how |-> "panicked", val |-> << >>, next |-> 0]

\* Rust's ?: what was read is used as F says, and an error is passed on.
Then(r, F(_, _)) ==
  CHOOSE y \in { IF x.how = "ok" THEN F(x.val, x.next) ELSE x : x \in {r} } : TRUE

RECURSIVE ParseType(_, _), ParseTypes(_, _, _, _)

\* Types up to, and without, a closing token; the commas need not be there.
ParseTypes(s, p, close, ts) ==
  IF Peek(s, p, close) THEN Got(ts, p)
  ELSE Then(ParseType(s, p),
            LAMBDA t, q : ParseTypes(s, IF Peek(s, q, "Comma") THEN q + 1 ELSE q, close, Append(ts, t)))

ParseResults(s, p) ==
  IF Peek(s, p, "LParen")
    THEN Then(ParseTypes(s, p + 1, "RParen", << >>), LAMBDA ts, q : Got(ts, q + 1))
    ELSE Then(ParseType(s, p), LAMBDA t, q : Got(<< t >>, q))

\* The closing brace of a struct stays in the text.
ParseType(s, p) ==
  IF \E t \in Simple : Peek(s, p, t.k) THEN Got(CHOOSE t \in Simple : Peek(s, p, t.k), p + 1)
  ELSE IF Peek(s, p, "LParen")
    THEN Then(ParseTypes(s, p + 1, "RParen", << >>), LAMBDA args, q :
           IF Peek(s, q + 1, "Arrow")
             THEN Then(ParseResults(s, q + 2), LAMBDA rets, r : Got(Func(args, rets), r))
             ELSE Failed)
  ELSE IF Reads(s, p, << "Struct", "LBrace" >>)
    THEN Then(ParseTypes(s, p + 2, "RBrace", << >>), LAMBDA fields, q : Got(Struct(fields), q))
  ELSE Failed
-----------------------------------------------------------------------------
(* Reading instructions *)

PlainOp ==
  "iadd" :> "IAdd" @@ "isub" :> "ISub" @@ "imul" :> "IMul" @@ "idiv" :> "IDiv"
  @@ "fadd" :> "FAdd" @@ "fsub" :> "FSub" @@ "fmul" :> "FMul" @@ "fdiv" :> "FDiv"
  @@ "itof" :> "Itof" @@ "icmp" :> "ICmp" @@ "fcmp" :> "FCmp" @@ "not" :> "Not"
  @@ "bitand" :> "BitAnd" @@ "bitor" :> "BitOr" @@ "discard" :> "Discard"
  @@ "return" :> "Return" @@ "memory.size" :> "MemorySize" @@ "memory.grow" :> "MemoryGrow"
  @@ "fail" :> "Fail" @@ "break" :> "Break"

LdType ==
  "ld.int32" :> Int32 @@ "ld.uint32" :> UInt32 @@ "ld.int16" :> Int16
  @@ "ld.uint16" :> UInt16 @@ "ld.int8" :> Int8 @@ "ld.uint8" :> UInt8

Casts    == "ftoi" :> "Ftoi" @@ "iconv" :> "IConv" @@ "bitcast" :> "Bitcast"
Accesses == "read" :> "Read" @@ "write" :> "Write" @@ "offset" :> "Offset"
OfLocals == "ld.loc" :> "LdLocal" @@ "st.loc" :> "StLocal"
OfNames  == "call" :> "CallDirect" @@ "ld_glob_func" :> "LdGlobalFunc"
              @@ "ld.global" :> "LdGlobal" @@ "st.global" :> "StGlobal"

\* A word that starts with b must be a block's: its number is unwrapped.
WordsInB == {"b", "bitand", "bitor", "bitcast", "break"}

ParseBlockId(s, p) ==
  IF ~Peek(s, p, "Identifier") \/ At(s, p).text \notin WordsInB THEN Failed
  ELSE IF At(s, p).num = -1 THEN Panicked
  ELSE Got(At(s, p).num, p + 1)

ParseIf(s, p) ==
  IF ~IsWord(s, p, "then") THEN Failed
  ELSE Then(ParseBlockId(s, p + 1), LAMBDA b, q :
         IF IsWord(s, q, "else")
           THEN Then(ParseBlockId(s, q + 1), LAMBDA c, r : Got(IfElse(b, c), r))
           ELSE Got(If(b), q))

ParseInstr(s, p) ==
  LET w == At(s, p).text  n == At(s, p + 1).num
  IN  CASE ~Peek(s, p, "Identifier")   -> Failed
        [] w \in DOMAIN PlainOp        -> Got(Op(PlainOp[w]), p + 1)
        [] w \in DOMAIN LdType         -> IF Peek(s, p + 1, "Int") THEN Got(LdInt(n, LdType[w]), p + 2) ELSE Failed
        [] w \in DOMAIN Casts          -> IF IsWord(s, p + 1, "to")
                                            THEN Then(ParseType(s, p + 2), LAMBDA t, q : Got(OpOn(Casts[w], t), q))
                                            ELSE Failed
        [] w \in DOMAIN Accesses       -> Then(ParseType(s, p + 1), LAMBDA t, q : Got(OpOn(Accesses[w], t), q))
        [] w = "call" /\ Peek(s, p + 1, "Identifier") ->
                                          IF IsWord(s, p + 1, "indirect") THEN Got(Op("CallIndirect"), p + 2) ELSE Failed
        [] w \in DOMAIN OfNames /\ ~(w = "call" /\ Peek(s, p + 1, "Identifier")) ->
                                          IF Peek(s, p + 1, "String")
                                            THEN Got(OpNamed(OfNames[w], At(s, p + 1).text), p + 2) ELSE Failed
        [] w \in DOMAIN OfLocals       -> IF Reads(s, p + 1, << "Hash", "Int" >>)
                                            THEN Got(OpLocal(OfLocals[w], At(s, p + 2).num), p + 3) ELSE Failed
        [] w = "get_field_ptr"         -> IF Peek(s, p + 1, "Int")
                                            THEN Then(ParseType(s, p + 2), LAMBDA t, q : Got(GetFieldPtr(t, n), q))
                                            ELSE Failed
        [] w = "if"                    -> ParseIf(s, p + 1)
        [] w = "loop"                  -> Then(ParseBlockId(s, p + 1), LAMBDA b, q : Got(Loop(b), q))
        [] OTHER                       -> Failed      \* the lexer never delivers a Float for ld.float

Tag(w) ==
  CASE w = "undefined" -> "Undefined" [] w = "main" -> "Main" [] w = "if_else" -> "IfElse" [] w = "loop" -> "Loop"

\* The line that opens a block.
ParseBlockLine(s, p) ==
  Then(ParseBlockId(s, p), LAMBDA b, q :
    IF ~Peek(s, q, "Colon") THEN Failed
    ELSE Then(ParseType(s, q + 1), LAMBDA t, r :
           IF /\ Reads(s, r, << "Identifier", "Equals", "Identifier" >>) /\ At(s, r).text = "tag"
              /\ At(s, r + 2).text \in {"undefined", "main", "if_else", "loop"}
             THEN IF IsFunc(t) /\ t.args = << >>
                    THEN Got([id |-> b, ret |-> t.ret, tag |-> Tag(At(s, r + 2).text)], r + 3)
                    ELSE Panicked      \* the assertions of InstrBlock::new
             ELSE Failed))
=============================================================================
