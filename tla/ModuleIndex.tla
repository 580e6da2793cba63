----------------------------- MODULE ModuleIndex ----------------------------
(***************************************************************************)
(* A module under construction and the indices of what is in it: module.rs *)
(* numbers functions and globals as they are added, and emit.rs writes     *)
(* those numbers into calls, function pointers, exports and global         *)
(* accesses.  WebAssembly numbers the same things again, by where their    *)
(* definitions end up in the sections of the output.                       *)
(***************************************************************************)
EXTENDS Integers, Sequences, FiniteSets

CONSTANTS
  Names,          \* names of functions and globals
  FuncTypes,      \* types of functions
  GlobalTypes,    \* types of globals
  MaxFunctions,   \* the model's bound on the functions of a module
  MaxGlobals      \* the model's bound on calls of new_global

ASSUME BoundsAssumption == MaxFunctions \in Nat /\ MaxGlobals \in Nat

VARIABLES
  functions,   \* the IndexMap of functions, in insertion order
  globals,     \* the IndexMap of globals, in insertion order
  declared,    \* the names new_global was called with
  phase,       \* "build", "emit", "done" or "panicked"
  visited,     \* how many functions the emitter's do_pass has gone past
  typeSec,     \* the function types, the section and function_types in one
  importSec, funcSec, exportSec, globalSec, tableSize, elemSec

wasm == <<typeSec, importSec, funcSec, exportSec, globalSec, tableSize, elemSec>>
vars == <<functions, globals, declared, phase, visited, wasm>>

Entries(seq) == { seq[n] : n \in 1 .. Len(seq) }
Known(seq)   == { e.name : e \in Entries(seq) }

\* IndexMap::get; the names of a map are distinct.
Get(seq, name) == CHOOSE e \in Entries(seq) : e.name = name

FuncDef(kind, name, ty, idx) == [kind |-> kind, name |-> name, ty |-> ty, idx |-> idx]

Init ==
  /\ functions = << >> /\ globals = << >> /\ declared = << >>
  /\ phase = "build" /\ visited = 0
  /\ typeSec = << >> /\ importSec = << >> /\ funcSec = << >> /\ exportSec = << >>
  /\ globalSec = << >> /\ tableSize = 0 /\ elemSec = << >>

Panic == phase' = "panicked" /\ UNCHANGED <<functions, globals, declared, visited, wasm>>

-----------------------------------------------------------------------------
(* Building the module *)

Building == phase = "build" /\ Len(functions) < MaxFunctions

Insert(kind, name, ty) ==
  /\ functions' = Append(functions, FuncDef(kind, name, ty, Len(functions)))
  /\ UNCHANGED <<globals, declared, phase, visited, wasm>>

\* Mutant: an external function may follow a local one.
AddExternLate(name, ty) ==
  /\ Building
  /\ \/ name \notin Known(functions) /\ Insert("extern", name, ty)
     \/ name \in Known(functions) /\ Panic

AddExtern(name, ty) ==
  LET refused == \/ name \in Known(functions)
                 \/ \E f \in Entries(functions) : f.kind = "local"
  IN  /\ Building
      /\ \/ ~refused /\ Insert("extern", name, ty)
         \/ refused /\ Panic

AddFunction(name, ty) ==
  /\ Building
  /\ \/ name \notin Known(functions) /\ Insert("local", name, ty)
     \/ name \in Known(functions) /\ Panic

\* Mutant: globals are numbered together with the functions.
NewGlobalShared(name, ty) ==
  /\ phase = "build" /\ Len(declared) < MaxGlobals
  /\ declared' = Append(declared, name)
  /\ globals' = Append(globals, [name |-> name, ty |-> ty,
                                 idx |-> Len(globals) + Len(functions)])
  /\ UNCHANGED <<functions, phase, visited, wasm>>

(***************************************************************************)
(* new_global: no test for the name.  IndexMap::insert replaces the value  *)
(* of a key it has, at the place it has, and appends a new key.            *)
(***************************************************************************)
NewGlobal(name, ty) ==
  LET g == [name |-> name, ty |-> ty, idx |-> Len(globals)] IN
  /\ phase = "build" /\ Len(declared) < MaxGlobals
  /\ declared' = Append(declared, name)
  /\ globals' = IF name \in Known(globals)
                  THEN [n \in 1 .. Len(globals) |->
                          IF globals[n].name = name THEN g ELSE globals[n]]
                  ELSE Append(globals, g)
  /\ UNCHANGED <<functions, phase, visited, wasm>>

-----------------------------------------------------------------------------
(* Emitting it *)

\* The interner yields the types in an order of its own.
Orders(S) == { s \in [1 .. Cardinality(S) -> S] : \A t \in S : \E n \in DOMAIN s : s[n] = t }

TypeIndex(types, ty) == (CHOOSE n \in 1 .. Len(types) : types[n] = ty) - 1

\* The external functions up to the first local one.
Externs ==
  LET n == Cardinality({ k \in 1 .. Len(functions) :
                           \A j \in 1 .. k : functions[j].kind = "extern" })
  IN  SubSeq(functions, 1, n)

\* visit_module: the types, the globals and the imports.
VisitModule ==
  /\ phase = "build" /\ phase' = "emit"
  /\ \E types \in Orders({ f.ty : f \in Entries(functions) }) :
       /\ typeSec' = types
       /\ importSec' = [n \in 1 .. Len(Externs) |->
                          [name |-> Externs[n].name, type |-> TypeIndex(types, Externs[n].ty)]]
  /\ globalSec' = [n \in 1 .. Len(globals) |-> [name |-> globals[n].name, ty |-> globals[n].ty]]
  /\ UNCHANGED <<functions, globals, declared, visited, funcSec, exportSec, tableSize, elemSec>>

\* Mutant: exports are numbered by the function section.
CompileFuncLocalIndex(f) ==
  /\ funcSec' = Append(funcSec, [name |-> f.name, type |-> TypeIndex(typeSec, f.ty)])
  /\ exportSec' = Append(exportSec, [name |-> f.name, to |-> Len(funcSec)])

\* compile_func, on the sections: a prototype with its code, and an export.
CompileFunc(f) ==
  /\ funcSec' = Append(funcSec, [name |-> f.name, type |-> TypeIndex(typeSec, f.ty)])
  /\ exportSec' = Append(exportSec, [name |-> f.name, to |-> f.idx])

\* do_pass visits the local functions in their order.
VisitFunction ==
  /\ phase = "emit" /\ visited < Len(functions)
  /\ visited' = visited + 1
  /\ LET f == functions[visited + 1] IN
     \/ f.kind = "local" /\ CompileFunc(f)
     \/ f.kind = "extern" /\ UNCHANGED <<funcSec, exportSec>>
  /\ UNCHANGED <<functions, globals, declared, phase, typeSec, importSec, globalSec, tableSize, elemSec>>

\* Mutant: the elements are not shifted by one.
GlobalFunctionTableUnshifted ==
  /\ tableSize' = Len(functions) + 1
  /\ elemSec' = [n \in 1 .. Len(functions) |-> [slot |-> n - 1, func |-> n - 1]]

\* emit_global_function_table: function n goes to slot n + 1.
GlobalFunctionTable ==
  /\ tableSize' = Len(functions) + 1
  /\ elemSec' = [n \in 1 .. Len(functions) |-> [slot |-> n, func |-> n - 1]]

EndModule ==
  /\ phase = "emit" /\ visited = Len(functions)
  /\ phase' = "done"
  /\ GlobalFunctionTable
  /\ UNCHANGED <<functions, globals, declared, visited,
                 typeSec, importSec, funcSec, exportSec, globalSec>>

Finished == phase \in {"done", "panicked"} /\ UNCHANGED vars

Next ==
  \/ \E name \in Names : \/ \E ty \in FuncTypes : AddExtern(name, ty) \/ AddFunction(name, ty)
                         \/ \E ty \in GlobalTypes : NewGlobal(name, ty)
  \/ VisitModule \/ VisitFunction \/ EndModule \/ Finished

Spec == Init /\ [][Next]_vars

-----------------------------------------------------------------------------
(* What WebAssembly makes of the sections *)

\* The index space of functions: the imports, then the function section.
FuncSpace == importSec \o funcSec

Defines(idx, name, ty) ==
  /\ idx < Len(FuncSpace)
  /\ FuncSpace[idx + 1].name = name
  /\ typeSec[FuncSpace[idx + 1].type + 1] = ty

\* What a CallDirect of f emits, call f.idx, calls.
CallTarget(f) == f.idx

\* The function pointer a LdGlobalFunc of f emits.
FuncPointer(f) == f.idx + 1

-----------------------------------------------------------------------------
(* Properties *)

\* The sections, once complete, have an entry for every definition.
TypeOK ==
  /\ phase \in {"build", "emit", "done", "panicked"}
  /\ Len(functions) <= MaxFunctions /\ Len(globals) <= MaxGlobals
  /\ visited \in 0 .. Len(functions)
  /\ Cardinality(Known(functions)) = Len(functions)
  /\ Cardinality(Known(globals)) = Len(globals)
  /\ phase = "done" => Len(FuncSpace) = Len(functions)

\* The index a function was given when it was added to the module is its
\* index in the output, where the imports come first, with the right type.
CallsReachTheirFunction ==
  phase = "done" => \A f \in Entries(functions) : Defines(CallTarget(f), f.name, f.ty)

\* A function pointer selects that function in the global function table, no
\* pointer is null and no slot but that of the null pointer is left empty.
PointersReachTheirFunction ==
  phase = "done" =>
    /\ \A f \in Entries(functions) :
         \E e \in Entries(elemSec) : e.slot = FuncPointer(f) /\ Defines(e.func, f.name, f.ty)
    /\ { e.slot : e \in Entries(elemSec) } = 1 .. tableSize - 1

\* Every local function is exported, and nothing else, under its own name.
ExportsNameTheirFunction ==
  phase = "done" =>
    /\ Known(exportSec) = { f.name : f \in { f \in Entries(functions) : f.kind = "local" } }
    /\ \A e \in Entries(exportSec) : Defines(e.to, e.name, Get(functions, e.name).ty)

\* A name that is declared once reaches its global by the index the module
\* gave it, even if other names are declared twice; one that is declared twice
\* reaches another global, or none.
AccessesReachTheirGlobal ==
  phase = "done" =>
    \A name \in Known(globals) : LET g == Get(globals, name) IN
      Cardinality({ n \in 1 .. Len(declared) : declared[n] = name }) = 1 <=>
        /\ g.idx < Len(globalSec)
        /\ globalSec[g.idx + 1] = [name |-> name, ty |-> g.ty]
=============================================================================
