------------------------- MODULE ModuleIndexProofs --------------------------
(***************************************************************************)
(* The indices a module gives its functions are those of the output for    *)
(* modules of every size, with any names and types.                        *)
(***************************************************************************)
EXTENDS ModuleIndex, FiniteSetTheorems, TLAPS

FuncDefs   == [kind : {"extern", "local"}, name : Names, ty : FuncTypes, idx : Nat]
Prototypes == [name : Names, type : Nat]
Exports    == [name : Names, to : Nat]

IndexTypes ==
  /\ functions \in Seq(FuncDefs) /\ typeSec \in Seq(FuncTypes)
  /\ importSec \in Seq(Prototypes) /\ funcSec \in Seq(Prototypes) /\ exportSec \in Seq(Exports)
  /\ phase \in {"build", "emit", "done", "panicked"}
  /\ visited \in 0 .. Len(functions)

\* What the module knows of its functions.
Numbered     == \A n \in 1 .. Len(functions) : functions[n].idx = n - 1
Distinct     == \A m, n \in 1 .. Len(functions) : functions[m].name = functions[n].name => m = n
ExternsFirst ==
  \A m, n \in 1 .. Len(functions) : m < n /\ functions[n].kind = "extern" => functions[m].kind = "extern"

Emitted == phase \in {"emit", "done"}

\* A prototype is that of a function.
Describes(p, f) == p.name = f.name /\ typeSec[p.type + 1] = f.ty

\* Every type that is used has an index.
TypesListed ==
  Emitted => \A n \in 1 .. Len(functions) : \E k \in 1 .. Len(typeSec) : typeSec[k] = functions[n].ty

\* The imports are the external functions, which are the first.
Imported ==
  Emitted =>
    /\ Len(importSec) <= Len(functions)
    /\ \A n \in 1 .. Len(functions) : functions[n].kind = "extern" <=> n <= Len(importSec)
    /\ \A n \in 1 .. Len(importSec) : Describes(importSec[n], functions[n])

\* The function section has the local functions visited so far, in order.
Compiled ==
  /\ phase = "build" => visited = 0 /\ funcSec = << >> /\ exportSec = << >>
  /\ Emitted =>
       /\ visited <= Len(importSec) => Len(funcSec) = 0
       /\ visited > Len(importSec) => Len(funcSec) = visited - Len(importSec)
       /\ \A k \in 1 .. Len(funcSec) : Describes(funcSec[k], functions[Len(importSec) + k])

\* The exports are those of the local functions visited so far.
Exported ==
  Emitted =>
    /\ \A k \in 1 .. Len(exportSec) :
         \E n \in 1 .. visited : /\ functions[n].kind = "local"
                                 /\ exportSec[k].name = functions[n].name
                                 /\ exportSec[k].to = functions[n].idx
    /\ \A n \in 1 .. visited :
         functions[n].kind = "local" =>
           \E k \in 1 .. Len(exportSec) : exportSec[k].name = functions[n].name

\* The table holds every function behind the null pointer.
Tabled ==
  phase = "done" =>
    /\ visited = Len(functions) /\ tableSize = Len(functions) + 1
    /\ elemSec = [n \in 1 .. Len(functions) |-> [slot |-> n, func |-> n - 1]]

IInv ==
  /\ IndexTypes /\ Numbered /\ Distinct /\ ExternsFirst
  /\ TypesListed /\ Imported /\ Compiled /\ Exported /\ Tabled

-----------------------------------------------------------------------------
(* Lemmas about the operators of the module *)

\* An element of a sequence over S is in S.
LEMMA ElementOfSeq ==
  ASSUME NEW S, NEW s \in Seq(S), NEW k \in 1 .. Len(s)
  PROVE  s[k] \in S
  OBVIOUS

\* The set of the types of the functions is finite.
LEMMA TypesAreFinite ==
  ASSUME functions \in Seq(FuncDefs)
  PROVE  IsFiniteSet({ f.ty : f \in Entries(functions) })
<1> DEFINE T  == { f.ty : f \in Entries(functions) }
           ty == [n \in 1 .. Len(functions) |-> functions[n].ty]
<1>1. Len(functions) \in Nat
  OBVIOUS
<1>2. ty \in Surjection(1 .. Len(functions), T)
  BY DEF Surjection, Entries
<1>3. IsFiniteSet(1 .. Len(functions))
  BY <1>1, FS_Interval
<1> QED
  BY <1>2, <1>3, FS_Surjection

\* An order of the types is a sequence in which every type has a place.
LEMMA OrderListsTypes ==
  ASSUME functions \in Seq(FuncDefs),
         NEW types \in Orders({ f.ty : f \in Entries(functions) })
  PROVE  /\ types \in Seq(FuncTypes)
         /\ \A n \in 1 .. Len(functions) : \E k \in 1 .. Len(types) : types[k] = functions[n].ty
<1> DEFINE T == { f.ty : f \in Entries(functions) }
<1>1. Cardinality(T) \in Nat
  BY TypesAreFinite, FS_CardinalityType
<1>2. types \in [1 .. Cardinality(T) -> T] /\ \A t \in T : \E n \in DOMAIN types : types[n] = t
  BY DEF Orders
<1>3. T \subseteq FuncTypes
  <2>1. \A n \in 1 .. Len(functions) : functions[n] \in FuncDefs
    BY ElementOfSeq
  <2> QED
    BY <2>1 DEF Entries, FuncDefs
<1>4. types \in Seq(FuncTypes) /\ DOMAIN types = 1 .. Len(types)
  <2> HIDE DEF T
  <2>1. types \in [1 .. Cardinality(T) -> FuncTypes]
    BY <1>2, <1>3
  <2> QED
    BY <1>1, <2>1
<1>5. \A n \in 1 .. Len(functions) : functions[n].ty \in T
  BY DEF Entries
<1> QED
  BY <1>2, <1>4, <1>5

\* TypeIndex finds a type that has a place.
LEMMA TypeIndexFinds ==
  ASSUME NEW types, NEW ty, Len(types) \in Nat, \E k \in 1 .. Len(types) : types[k] = ty
  PROVE  TypeIndex(types, ty) \in Nat /\ types[TypeIndex(types, ty) + 1] = ty
<1> DEFINE k == CHOOSE n \in 1 .. Len(types) : types[n] = ty
<1>1. k \in 1 .. Len(types) /\ types[k] = ty
  OBVIOUS
<1> HIDE DEF k
<1>2. k - 1 \in Nat /\ (k - 1) + 1 = k
  BY <1>1
<1>3. TypeIndex(types, ty) = k - 1
  BY DEF TypeIndex, k
<1> QED
  BY <1>1, <1>2, <1>3

\* The functions up to the first local one are all the external functions.
LEMMA ExternsAreFirst ==
  ASSUME functions \in Seq(FuncDefs), ExternsFirst
  PROVE  /\ Len(Externs) \in Nat /\ Len(Externs) <= Len(functions)
         /\ \A n \in 1 .. Len(functions) : functions[n].kind = "extern" <=> n <= Len(Externs)
         /\ \A n \in 1 .. Len(Externs) : Externs[n] = functions[n]
<1> DEFINE S == { k \in 1 .. Len(functions) : \A j \in 1 .. k : functions[j].kind = "extern" }
           c == Cardinality(S)
<1>1. Len(functions) \in Nat /\ S \in SUBSET (1 .. Len(functions))
  OBVIOUS
<1>2. IsFiniteSet(1 .. Len(functions)) /\ Cardinality(1 .. Len(functions)) = Len(functions)
  BY <1>1, FS_Interval
<1>3. IsFiniteSet(S) /\ c \in Nat /\ c <= Len(functions)
  BY <1>1, <1>2, FS_Subset, FS_CardinalityType
<1>4. \A k \in 1 .. Len(functions) : functions[k].kind = "extern" <=> k \in S
  BY <1>1 DEF ExternsFirst
<1>5. \A k \in S : 1 .. k \subseteq S
  BY <1>1
<1>6. \A k \in 1 .. Len(functions) : k \in S <=> k <= c
  <2> SUFFICES ASSUME NEW k \in 1 .. Len(functions)
               PROVE  k \in S <=> k <= c
    OBVIOUS
  <2>1. CASE k \in S
    <3>1. Cardinality(1 .. k) = k
      BY <1>1, FS_Interval
    <3>2. Cardinality(1 .. k) <= c
      BY <1>3, <1>5, <2>1, FS_Subset
    <3> QED
      BY <2>1, <3>1, <3>2
  <2>2. CASE k \notin S
    <3>1. S \in SUBSET (1 .. k - 1)
      <4> HIDE DEF S
      <4>1. \A j \in S : j < k
        BY <1>1, <1>5, <2>2
      <4> QED
        BY <1>1, <4>1
    <3> HIDE DEF S
    <3>2. k - 1 \in Nat /\ 1 \in Int
      BY <1>1
    <3>3. IsFiniteSet(1 .. k - 1) /\ Cardinality(1 .. k - 1) = k - 1
      <4>1. Cardinality(1 .. k - 1) = IF 1 > k - 1 THEN 0 ELSE (k - 1) - 1 + 1
        BY <3>2, FS_Interval
      <4> QED
        BY <3>2, <4>1, FS_Interval
    <3>4. c <= k - 1
      BY <3>1, <3>3, FS_Subset
    <3> HIDE DEF c
    <3> QED
      BY <1>3, <2>2, <3>2, <3>4
  <2> QED
    BY <2>1, <2>2
<1>7. Externs = SubSeq(functions, 1, c)
  BY DEF Externs
<1> HIDE DEF S, c
<1>8. Len(Externs) = c /\ \A n \in 1 .. c : Externs[n] = functions[n]
  BY <1>1, <1>3, <1>7
<1> QED
  BY <1>1, <1>3, <1>4, <1>6, <1>8

-----------------------------------------------------------------------------
(* Every step keeps the invariant *)

LEMMA InitIInv ==
  ASSUME Init
  PROVE  IInv
BY DEF Init, IInv, IndexTypes, FuncDefs, Prototypes, Exports, Numbered, Distinct, ExternsFirst,
       Emitted, TypesListed, Imported, Compiled, Exported, Tabled

\* Nothing is said of the sections of a module that is not emitted.
LEMMA PanicIInv ==
  ASSUME IInv, Panic
  PROVE  IInv'
BY DEF Panic, wasm, IInv, IndexTypes, Numbered, Distinct, ExternsFirst,
       Emitted, TypesListed, Imported, Compiled, Exported, Tabled

\* A new name at the end keeps the functions numbered, and an external one is
\* the first or comes after another.
LEMMA InsertIInv ==
  ASSUME IInv, Building,
         NEW kind \in {"extern", "local"}, NEW name \in Names, NEW ty \in FuncTypes,
         name \notin Known(functions),
         kind = "extern" => ~ \E f \in Entries(functions) : f.kind = "local",
         Insert(kind, name, ty)
  PROVE  IInv'
<1> DEFINE f == FuncDef(kind, name, ty, Len(functions))
<1>1. functions \in Seq(FuncDefs) /\ Len(functions) \in Nat
  BY DEF IInv, IndexTypes
<1>2. f \in FuncDefs /\ f.kind = kind /\ f.name = name /\ f.idx = Len(functions)
  BY <1>1 DEF FuncDef, FuncDefs
<1>3. functions' = Append(functions, f)
  BY DEF Insert
<1> HIDE DEF f
<1>4. /\ functions' \in Seq(FuncDefs) /\ Len(functions') = Len(functions) + 1
      /\ \A n \in 1 .. Len(functions) : functions'[n] = functions[n]
      /\ functions'[Len(functions) + 1] = f
  BY <1>1, <1>2, <1>3
<1>5. \A n \in 1 .. Len(functions) : functions[n] \in FuncDefs /\ functions[n] \in Entries(functions)
  BY <1>1, ElementOfSeq DEF Entries
<1>6. phase = "build" /\ phase' = "build"
  BY DEF Building, Insert
<1>7. IndexTypes'
  BY <1>1, <1>4 DEF IInv, IndexTypes, Insert, wasm
<1>8. Numbered'
  BY <1>1, <1>2, <1>4 DEF IInv, Numbered
<1>9. Distinct'
  <2>1. \A n \in 1 .. Len(functions) : functions[n].name # name
    BY <1>5 DEF Known
  <2> QED
    BY <1>1, <1>2, <1>4, <2>1 DEF IInv, Distinct
<1>10. ExternsFirst'
  <2>1. kind = "extern" => \A n \in 1 .. Len(functions) : functions[n].kind = "extern"
    BY <1>5 DEF FuncDefs
  <2> QED
    BY <1>1, <1>2, <1>4, <2>1 DEF IInv, ExternsFirst
<1>11. (TypesListed /\ Imported /\ Compiled /\ Exported /\ Tabled)'
  BY <1>6 DEF IInv, Insert, wasm, Emitted, TypesListed, Imported, Compiled, Exported, Tabled
<1> QED
  BY <1>7, <1>8, <1>9, <1>10, <1>11 DEF IInv

LEMMA AddIInv ==
  ASSUME IInv, NEW name \in Names, NEW ty \in FuncTypes,
         AddExtern(name, ty) \/ AddFunction(name, ty)
  PROVE  IInv'
<1>1. CASE AddExtern(name, ty)
  BY <1>1, PanicIInv, InsertIInv DEF AddExtern
<1>2. CASE AddFunction(name, ty)
  BY <1>2, PanicIInv, InsertIInv DEF AddFunction
<1> QED
  BY <1>1, <1>2

\* Globals are in sections and index spaces of their own.
LEMMA GlobalIInv ==
  ASSUME IInv, NEW name \in Names, NEW ty \in GlobalTypes, NewGlobal(name, ty)
  PROVE  IInv'
BY DEF NewGlobal, wasm, IInv, IndexTypes, Numbered, Distinct, ExternsFirst,
       Emitted, TypesListed, Imported, Compiled, Exported, Tabled

\* The imports are the functions the module numbered first.
LEMMA VisitModuleIInv ==
  ASSUME IInv, VisitModule
  PROVE  IInv'
<1>1. functions \in Seq(FuncDefs) /\ ExternsFirst /\ Len(functions) \in Nat
  BY DEF IInv, IndexTypes
<1>2. PICK types \in Orders({ f.ty : f \in Entries(functions) }) :
        /\ typeSec' = types
        /\ importSec' = [n \in 1 .. Len(Externs) |->
                           [name |-> Externs[n].name, type |-> TypeIndex(types, Externs[n].ty)]]
  BY DEF VisitModule
<1>3. /\ types \in Seq(FuncTypes)
      /\ \A n \in 1 .. Len(functions) : \E k \in 1 .. Len(types) : types[k] = functions[n].ty
  BY <1>1, OrderListsTypes
<1>4. Len(types) \in Nat
  BY <1>3
<1>5. \A n \in 1 .. Len(functions) :
        /\ TypeIndex(types, functions[n].ty) \in Nat
        /\ types[TypeIndex(types, functions[n].ty) + 1] = functions[n].ty
  BY <1>3, <1>4, TypeIndexFinds
<1>6. /\ Len(Externs) \in Nat /\ Len(Externs) <= Len(functions)
      /\ \A n \in 1 .. Len(functions) : functions[n].kind = "extern" <=> n <= Len(Externs)
      /\ \A n \in 1 .. Len(Externs) : Externs[n] = functions[n]
  BY <1>1, ExternsAreFirst
<1>7. \A n \in 1 .. Len(functions) : functions[n].name \in Names
  <2>1. \A n \in 1 .. Len(functions) : functions[n] \in FuncDefs
    BY <1>1, ElementOfSeq
  <2> QED
    BY <2>1 DEF FuncDefs
<1>8. importSec' = [n \in 1 .. Len(Externs) |->
                      [name |-> functions[n].name, type |-> TypeIndex(types, functions[n].ty)]]
  BY <1>2, <1>6
<1>9. importSec' \in Seq(Prototypes) /\ Len(importSec') = Len(Externs)
  <2> DEFINE i(n) == [name |-> functions[n].name, type |-> TypeIndex(types, functions[n].ty)]
  <2>1. \A n \in 1 .. Len(Externs) : i(n) \in Prototypes
    BY <1>1, <1>5, <1>6, <1>7 DEF Prototypes
  <2>2. importSec' = [n \in 1 .. Len(Externs) |-> i(n)]
    BY <1>8
  <2> HIDE DEF i
  <2> QED
    BY <1>6, <2>1, <2>2
<1>10. /\ phase = "build" /\ phase' = "emit"
       /\ UNCHANGED <<functions, visited, funcSec, exportSec, tableSize, elemSec>>
  BY DEF VisitModule
<1>11. visited = 0 /\ funcSec = << >> /\ exportSec = << >>
  BY <1>10 DEF IInv, Compiled
<1>12. IndexTypes'
  BY <1>2, <1>3, <1>9, <1>10 DEF IInv, IndexTypes
<1>13. (Numbered /\ Distinct /\ ExternsFirst)'
  BY <1>10 DEF IInv, Numbered, Distinct, ExternsFirst
<1>14. TypesListed'
  BY <1>2, <1>3, <1>10 DEF TypesListed
<1>15. Imported'
  <2>1. \A n \in 1 .. Len(importSec') : Describes(importSec[n], functions[n])'
    <3> SUFFICES ASSUME NEW n \in 1 .. Len(importSec')
                 PROVE  Describes(importSec[n], functions[n])'
      OBVIOUS
    <3>1. n \in 1 .. Len(functions) /\ n \in 1 .. Len(Externs)
      BY <1>1, <1>6, <1>9
    <3>2. importSec'[n] = [name |-> functions[n].name, type |-> TypeIndex(types, functions[n].ty)]
      BY <1>8, <3>1
    <3> QED
      BY <1>2, <1>5, <1>10, <3>1, <3>2 DEF Describes
  <2> QED
    BY <1>6, <1>9, <1>10, <2>1 DEF Imported
<1>16. (Compiled /\ Exported /\ Tabled)'
  BY <1>1, <1>6, <1>9, <1>10, <1>11 DEF Compiled, Exported, Tabled, Emitted
<1> QED
  BY <1>12, <1>13, <1>14, <1>15, <1>16 DEF IInv

\* An external function adds nothing, a local one its prototype and its export.
LEMMA VisitFunctionIInv ==
  ASSUME IInv, VisitFunction
  PROVE  IInv'
<1> DEFINE f == functions[visited + 1]
<1>1. /\ functions \in Seq(FuncDefs) /\ Len(functions) \in Nat
      /\ typeSec \in Seq(FuncTypes) /\ Len(typeSec) \in Nat
      /\ Len(importSec) \in Nat
      /\ funcSec \in Seq(Prototypes) /\ Len(funcSec) \in Nat
      /\ exportSec \in Seq(Exports) /\ Len(exportSec) \in Nat
      /\ visited \in Nat /\ visited < Len(functions)
  BY DEF VisitFunction, IInv, IndexTypes
<1>2. /\ phase = "emit" /\ phase' = "emit" /\ visited' = visited + 1
      /\ UNCHANGED <<functions, typeSec, importSec, tableSize, elemSec>>
  BY DEF VisitFunction
<1>3. f \in FuncDefs /\ visited + 1 \in 1 .. Len(functions)
  <2>1. visited + 1 \in 1 .. Len(functions)
    BY <1>1
  <2> QED
    BY <1>1, <2>1, ElementOfSeq
<1>4. f.name \in Names /\ f.idx \in Nat /\ f.kind \in {"extern", "local"}
  BY <1>3 DEF FuncDefs
<1>5. /\ Len(importSec) <= Len(functions)
      /\ \A n \in 1 .. Len(functions) : functions[n].kind = "extern" <=> n <= Len(importSec)
  BY <1>2 DEF IInv, Imported, Emitted
<1>6. /\ visited <= Len(importSec) => Len(funcSec) = 0
      /\ visited > Len(importSec) => Len(funcSec) = visited - Len(importSec)
      /\ \A k \in 1 .. Len(funcSec) : Describes(funcSec[k], functions[Len(importSec) + k])
  BY <1>2 DEF IInv, Compiled, Emitted
<1>7. (Numbered /\ Distinct /\ ExternsFirst /\ TypesListed /\ Imported /\ Tabled)'
  BY <1>2 DEF IInv, Numbered, Distinct, ExternsFirst, TypesListed, Imported, Tabled, Emitted, Describes
<1>8. /\ \A n \in 1 .. visited : n \in 1 .. visited + 1
      /\ \A n \in 1 .. visited + 1 : n \in 1 .. visited \/ n = visited + 1
  <2>1. visited \in Nat
    BY <1>1
  <2> QED
    BY <2>1
<1>9. CASE f.kind = "extern"
  <2>1. UNCHANGED <<funcSec, exportSec>>
    BY <1>9 DEF VisitFunction
  <2>2. visited + 1 <= Len(importSec)
    BY <1>3, <1>5, <1>9
  <2>3. IndexTypes'
    BY <1>1, <1>2, <2>1 DEF IInv, IndexTypes
  <2>4. Compiled'
    BY <1>1, <1>2, <1>6, <2>1, <2>2 DEF Compiled, Emitted, Describes
  <2>5. Exported'
    <3>1. \A n \in 1 .. visited + 1 : functions[n].kind = "local" => n \in 1 .. visited
      BY <1>8, <1>9
    <3> HIDE DEF f
    <3> QED
      BY <1>2, <1>8, <2>1, <3>1 DEF IInv, Exported, Emitted
  <2> QED
    BY <1>7, <2>3, <2>4, <2>5 DEF IInv
<1>10. CASE f.kind = "local"
  <2> DEFINE p == [name |-> f.name, type |-> TypeIndex(typeSec, f.ty)]
             e == [name |-> f.name, to |-> f.idx]
  <2>1. funcSec' = Append(funcSec, p) /\ exportSec' = Append(exportSec, e)
    BY <1>10 DEF VisitFunction, CompileFunc
  <2>2. TypeIndex(typeSec, f.ty) \in Nat /\ typeSec[TypeIndex(typeSec, f.ty) + 1] = f.ty
    <3>1. \E k \in 1 .. Len(typeSec) : typeSec[k] = f.ty
      BY <1>2, <1>3 DEF IInv, TypesListed, Emitted
    <3> QED
      BY <1>1, <3>1, TypeIndexFinds
  <2>3. p \in Prototypes /\ e \in Exports
    BY <1>4, <2>2 DEF Prototypes, Exports
  <2>4. p.name = f.name /\ typeSec[p.type + 1] = f.ty /\ e.name = f.name /\ e.to = f.idx
    BY <2>2
  <2> HIDE DEF p, e
  <2>5. /\ funcSec' \in Seq(Prototypes) /\ Len(funcSec') = Len(funcSec) + 1
        /\ \A k \in 1 .. Len(funcSec) : funcSec'[k] = funcSec[k]
        /\ funcSec'[Len(funcSec) + 1] = p
    BY <1>1, <2>1, <2>3
  <2>6. /\ exportSec' \in Seq(Exports) /\ Len(exportSec') = Len(exportSec) + 1
        /\ \A k \in 1 .. Len(exportSec) : exportSec'[k] = exportSec[k]
        /\ exportSec'[Len(exportSec) + 1] = e
    BY <1>1, <2>1, <2>3
  <2>7. visited >= Len(importSec) /\ Len(funcSec) = visited - Len(importSec)
    BY <1>1, <1>3, <1>5, <1>6, <1>10
  <2>8. IndexTypes'
    BY <1>1, <1>2, <2>5, <2>6 DEF IInv, IndexTypes
  <2>9. Compiled'
    <3>1. \A k \in 1 .. Len(funcSec') : Describes(funcSec[k], functions[Len(importSec) + k])'
      <4> SUFFICES ASSUME NEW k \in 1 .. Len(funcSec')
                   PROVE  Describes(funcSec[k], functions[Len(importSec) + k])'
        OBVIOUS
      <4>1. CASE k \in 1 .. Len(funcSec)
        BY <1>2, <1>6, <2>5, <4>1 DEF Describes
      <4>2. CASE k = Len(funcSec) + 1
        <5>1. funcSec'[k] = p /\ Len(importSec) + k = visited + 1
          BY <1>1, <2>5, <2>7, <4>2
        <5> QED
          BY <1>2, <2>4, <5>1 DEF Describes
      <4> QED
        BY <1>1, <2>5, <4>1, <4>2
    <3> QED
      BY <1>1, <1>2, <2>5, <2>7, <3>1 DEF Compiled, Emitted
  <2>10. Exported'
    <3>1. \A k \in 1 .. Len(exportSec') :
            \E n \in 1 .. visited + 1 : /\ functions[n].kind = "local"
                                        /\ exportSec'[k].name = functions[n].name
                                        /\ exportSec'[k].to = functions[n].idx
      <4> SUFFICES ASSUME NEW k \in 1 .. Len(exportSec')
                   PROVE  \E n \in 1 .. visited + 1 : /\ functions[n].kind = "local"
                                                      /\ exportSec'[k].name = functions[n].name
                                                      /\ exportSec'[k].to = functions[n].idx
        OBVIOUS
      <4>1. CASE k \in 1 .. Len(exportSec)
        <5>1. PICK n \in 1 .. visited : /\ functions[n].kind = "local"
                                        /\ exportSec[k].name = functions[n].name
                                        /\ exportSec[k].to = functions[n].idx
          BY <1>2, <4>1 DEF IInv, Exported, Emitted
        <5>2. n \in 1 .. visited + 1 /\ exportSec'[k] = exportSec[k]
          BY <1>1, <2>6, <4>1
        <5> QED
          BY <5>1, <5>2
      <4>2. CASE k = Len(exportSec) + 1
        <5>1. exportSec'[k] = e /\ visited + 1 \in 1 .. visited + 1
          BY <1>1, <2>6, <4>2
        <5> QED
          BY <1>10, <2>4, <5>1
      <4>3. Len(exportSec) \in Nat /\ Len(exportSec') = Len(exportSec) + 1
        BY <1>1, <2>6
      <4>4. k \in 1 .. Len(exportSec) \/ k = Len(exportSec) + 1
        BY <4>3
      <4> QED
        BY <4>1, <4>2, <4>4
    <3>2. \A n \in 1 .. visited + 1 :
            functions[n].kind = "local" =>
              \E k \in 1 .. Len(exportSec') : exportSec'[k].name = functions[n].name
      <4> SUFFICES ASSUME NEW n \in 1 .. visited + 1, functions[n].kind = "local"
                   PROVE  \E k \in 1 .. Len(exportSec') : exportSec'[k].name = functions[n].name
        OBVIOUS
      <4>1. CASE n \in 1 .. visited
        <5>1. PICK k \in 1 .. Len(exportSec) : exportSec[k].name = functions[n].name
          BY <1>2, <4>1 DEF IInv, Exported, Emitted
        <5>2. k \in 1 .. Len(exportSec') /\ exportSec'[k] = exportSec[k]
          BY <1>1, <2>6
        <5> QED
          BY <5>1, <5>2
      <4>2. CASE n = visited + 1
        <5>1. Len(exportSec) + 1 \in 1 .. Len(exportSec')
          BY <1>1, <2>6
        <5> QED
          BY <2>4, <2>6, <4>2, <5>1
      <4> QED
        BY <1>8, <4>1, <4>2
    <3> QED
      BY <1>2, <3>1, <3>2 DEF Exported, Emitted
  <2> QED
    BY <1>7, <2>8, <2>9, <2>10 DEF IInv
<1> QED
  BY <1>4, <1>9, <1>10

\* The table is built from the functions alone.
LEMMA EndModuleIInv ==
  ASSUME IInv, EndModule
  PROVE  IInv'
<1>1. IndexTypes'
  BY DEF EndModule, IInv, IndexTypes
<1>2. (Numbered /\ Distinct /\ ExternsFirst)'
  BY DEF EndModule, IInv, Numbered, Distinct, ExternsFirst
<1>3. (TypesListed /\ Imported /\ Compiled /\ Exported)'
  BY DEF EndModule, IInv, Emitted, TypesListed, Imported, Compiled, Exported, Describes
<1>4. Tabled'
  BY DEF EndModule, GlobalFunctionTable, Tabled
<1> QED
  BY <1>1, <1>2, <1>3, <1>4 DEF IInv

LEMMA NextIInv ==
  ASSUME IInv, [Next]_vars
  PROVE  IInv'
<1>1. ASSUME NEW name \in Names, NEW ty \in FuncTypes, AddExtern(name, ty) \/ AddFunction(name, ty)
      PROVE  IInv'
  BY <1>1, AddIInv
<1>2. ASSUME NEW name \in Names, NEW ty \in GlobalTypes, NewGlobal(name, ty)
      PROVE  IInv'
  BY <1>2, GlobalIInv
<1>3. CASE VisitModule
  BY <1>3, VisitModuleIInv
<1>4. CASE VisitFunction
  BY <1>4, VisitFunctionIInv
<1>5. CASE EndModule
  BY <1>5, EndModuleIInv
<1>6. CASE UNCHANGED vars
  BY <1>6 DEF vars, wasm, IInv, IndexTypes, Numbered, Distinct, ExternsFirst,
       Emitted, TypesListed, Imported, Compiled, Exported, Tabled, Describes
<1> QED
  BY <1>1, <1>2, <1>3, <1>4, <1>5, <1>6 DEF Next, Finished

LEMMA SpecIInv == Spec => []IInv
<1>1. Init => IInv
  BY InitIInv
<1>2. IInv /\ [Next]_vars => IInv'
  BY NextIInv
<1> QED
  BY <1>1, <1>2, PTL DEF Spec

-----------------------------------------------------------------------------
(* What the invariant says of the output *)

\* The import, or the prototype, at a function's index is that function's.
LEMMA EveryIndexIsDefined ==
  ASSUME IInv, phase = "done", NEW n \in 1 .. Len(functions)
  PROVE  n - 1 \in Nat /\ Defines(n - 1, functions[n].name, functions[n].ty)
<1>1. /\ Len(functions) \in Nat
      /\ importSec \in Seq(Prototypes) /\ Len(importSec) \in Nat
      /\ funcSec \in Seq(Prototypes) /\ Len(funcSec) \in Nat
  BY DEF IInv, IndexTypes
<1>2. /\ Len(importSec) <= Len(functions)
      /\ \A k \in 1 .. Len(importSec) : Describes(importSec[k], functions[k])
  BY DEF IInv, Imported, Emitted
<1>3. /\ Len(funcSec) = Len(functions) - Len(importSec)
      /\ \A k \in 1 .. Len(funcSec) : Describes(funcSec[k], functions[Len(importSec) + k])
  <2>1. visited = Len(functions)
    BY DEF IInv, Tabled
  <2> QED
    BY <1>1, <1>2, <2>1 DEF IInv, Compiled, Emitted
<1>4. /\ Len(FuncSpace) = Len(functions)
      /\ FuncSpace[n] = IF n <= Len(importSec) THEN importSec[n] ELSE funcSec[n - Len(importSec)]
  BY <1>1, <1>3 DEF FuncSpace
<1>5. Describes(FuncSpace[n], functions[n])
  <2>1. CASE n <= Len(importSec)
    BY <1>1, <1>2, <1>4, <2>1
  <2>2. CASE n > Len(importSec)
    <3>1. n - Len(importSec) \in 1 .. Len(funcSec) /\ Len(importSec) + (n - Len(importSec)) = n
      BY <1>1, <1>3, <2>2
    <3>2. Describes(funcSec[n - Len(importSec)], functions[n])
      BY <1>3, <3>1
    <3> QED
      BY <1>1, <1>4, <2>2, <3>2
  <2> QED
    BY <1>1, <2>1, <2>2
<1>6. n - 1 \in Nat /\ n - 1 < Len(FuncSpace) /\ (n - 1) + 1 = n
  BY <1>1, <1>4
<1> QED
  BY <1>5, <1>6 DEF Defines, Describes

\* A function is found by its name.
LEMMA GetFinds ==
  ASSUME IInv, NEW n \in 1 .. Len(functions)
  PROVE  Get(functions, functions[n].name) = functions[n]
<1>1. functions[n] \in Entries(functions)
  BY DEF Entries
<1>2. \A f \in Entries(functions) : f.name = functions[n].name => f = functions[n]
  BY DEF IInv, Distinct, Entries
<1> QED
  BY <1>1, <1>2 DEF Get

\* A call reaches the function it was made for, in modules of any size: the
\* external functions come first, so the module's count and WebAssembly's agree.
THEOREM CallsAreRight == Spec => []CallsReachTheirFunction
<1>1. IInv => CallsReachTheirFunction
  <2> SUFFICES ASSUME IInv, phase = "done", NEW n \in 1 .. Len(functions)
               PROVE  Defines(CallTarget(functions[n]), functions[n].name, functions[n].ty)
    BY DEF CallsReachTheirFunction, Entries
  <2>1. functions[n].idx = n - 1
    BY DEF IInv, Numbered
  <2> QED
    BY <2>1, EveryIndexIsDefined DEF CallTarget
<1> QED
  BY <1>1, SpecIInv, PTL

\* A function pointer selects its function in the table and is never null, in
\* modules of any size.
THEOREM PointersAreRight == Spec => []PointersReachTheirFunction
<1>1. IInv => PointersReachTheirFunction
  <2> SUFFICES ASSUME IInv, phase = "done"
               PROVE  /\ \A f \in Entries(functions) :
                           \E e \in Entries(elemSec) :
                             e.slot = FuncPointer(f) /\ Defines(e.func, f.name, f.ty)
                      /\ { e.slot : e \in Entries(elemSec) } = 1 .. tableSize - 1
    BY DEF PointersReachTheirFunction
  <2>1. /\ tableSize = Len(functions) + 1
        /\ elemSec = [n \in 1 .. Len(functions) |-> [slot |-> n, func |-> n - 1]]
    BY DEF IInv, Tabled
  <2>2. Len(functions) \in Nat
    BY DEF IInv, IndexTypes
  <2>3. Len(elemSec) = Len(functions)
    BY <2>1, <2>2
  <2>4. Entries(elemSec) = { [slot |-> n, func |-> n - 1] : n \in 1 .. Len(functions) }
    BY <2>1, <2>3 DEF Entries
  <2>5. ASSUME NEW n \in 1 .. Len(functions)
        PROVE  \E e \in Entries(elemSec) : /\ e.slot = FuncPointer(functions[n])
                                           /\ Defines(e.func, functions[n].name, functions[n].ty)
    <3>1. [slot |-> n, func |-> n - 1] \in Entries(elemSec)
      BY <2>4
    <3>2. FuncPointer(functions[n]) = n
      BY <2>2 DEF IInv, Numbered, FuncPointer
    <3>3. Defines(n - 1, functions[n].name, functions[n].ty)
      BY EveryIndexIsDefined
    <3> QED
      BY <3>1, <3>2, <3>3
  <2>6. { e.slot : e \in Entries(elemSec) } = 1 .. Len(functions)
    <3>1. \A e \in Entries(elemSec) : e.slot \in 1 .. Len(functions)
      BY <2>4
    <3>2. \A n \in 1 .. Len(functions) : \E e \in Entries(elemSec) : e.slot = n
      <4>1. \A n \in 1 .. Len(functions) : [slot |-> n, func |-> n - 1].slot = n
        OBVIOUS
      <4> QED
        BY <2>4, <4>1
    <3> QED
      BY <3>1, <3>2
  <2>7. tableSize - 1 = Len(functions)
    BY <2>1, <2>2
  <2> QED
    BY <2>5, <2>6, <2>7 DEF Entries
<1> QED
  BY <1>1, SpecIInv, PTL

\* The exports are the local functions, each under its own name, in modules of
\* any size.
THEOREM ExportsAreRight == Spec => []ExportsNameTheirFunction
<1>1. IInv => ExportsNameTheirFunction
  <2> SUFFICES ASSUME IInv, phase = "done"
               PROVE  /\ Known(exportSec) =
                           { f.name : f \in { f \in Entries(functions) : f.kind = "local" } }
                      /\ \A e \in Entries(exportSec) :
                           Defines(e.to, e.name, Get(functions, e.name).ty)
    BY DEF ExportsNameTheirFunction
  <2>1. \A k \in 1 .. Len(exportSec) :
          \E n \in 1 .. Len(functions) : /\ functions[n].kind = "local"
                                         /\ exportSec[k].name = functions[n].name
                                         /\ exportSec[k].to = functions[n].idx
    BY DEF IInv, Tabled, Exported, Emitted
  <2>2. \A n \in 1 .. Len(functions) :
          functions[n].kind = "local" =>
            \E k \in 1 .. Len(exportSec) : exportSec[k].name = functions[n].name
    BY DEF IInv, Tabled, Exported, Emitted
  <2>3. Known(exportSec) = { f.name : f \in { f \in Entries(functions) : f.kind = "local" } }
    <3> DEFINE L == { f \in Entries(functions) : f.kind = "local" }
    <3>1. \A n \in 1 .. Len(functions) : functions[n].kind = "local" => functions[n] \in L
      BY DEF Entries
    <3>2. ASSUME NEW name \in Known(exportSec)
          PROVE  name \in { f.name : f \in L }
      <4>1. PICK k \in 1 .. Len(exportSec) : name = exportSec[k].name
        BY DEF Known, Entries
      <4> QED
        BY <2>1, <3>1, <4>1
    <3>3. ASSUME NEW f \in L
          PROVE  f.name \in Known(exportSec)
      <4>1. PICK n \in 1 .. Len(functions) : f = functions[n]
        BY DEF Entries
      <4>2. PICK k \in 1 .. Len(exportSec) : exportSec[k].name = f.name
        BY <2>2, <4>1
      <4> QED
        BY <4>2 DEF Known, Entries
    <3> QED
      BY <3>2, <3>3
  <2>4. ASSUME NEW k \in 1 .. Len(exportSec)
        PROVE  Defines(exportSec[k].to, exportSec[k].name, Get(functions, exportSec[k].name).ty)
    <3>1. PICK n \in 1 .. Len(functions) : /\ exportSec[k].name = functions[n].name
                                           /\ exportSec[k].to = functions[n].idx
      BY <2>1
    <3>2. functions[n].idx = n - 1
      BY DEF IInv, Numbered
    <3> QED
      BY <3>1, <3>2, EveryIndexIsDefined, GetFinds
  <2> QED
    BY <2>3, <2>4 DEF Entries
<1> QED
  BY <1>1, SpecIInv, PTL

-----------------------------------------------------------------------------
(* Globals *)

GlobalDefs == [name : Names, ty : GlobalTypes, idx : Nat]

\* The calls of new_global with this name.
Declarations(name) == { n \in 1 .. Len(declared) : declared[n] = name }

GlobalTypesOK ==
  /\ globals \in Seq(GlobalDefs) /\ declared \in Seq(Names)
  /\ Len(declared) <= MaxGlobals /\ Len(globals) <= Len(declared)

GlobalsDistinct == \A m, n \in 1 .. Len(globals) : globals[m].name = globals[n].name => m = n

\* The names in the map are those declared; declaring a name again gives it a
\* number behind that of its place.
GlobalsNumbered ==
  /\ \A k \in 1 .. Len(declared) : declared[k] \in Known(globals)
  /\ \A n \in 1 .. Len(globals) :
       LET count == Cardinality(Declarations(globals[n].name)) IN
       \/ count = 1 /\ globals[n].idx = n - 1
       \/ count > 1 /\ globals[n].idx > n - 1

GlobalsEmitted ==
  Emitted => globalSec = [n \in 1 .. Len(globals) |-> [name |-> globals[n].name, ty |-> globals[n].ty]]

GlobalsInv == GlobalTypesOK /\ GlobalsDistinct /\ GlobalsNumbered /\ GlobalsEmitted

LEMMA InitGlobals ==
  ASSUME Init
  PROVE  GlobalsInv
BY BoundsAssumption
   DEF Init, GlobalsInv, GlobalTypesOK, GlobalsDistinct, GlobalsNumbered, GlobalsEmitted, Emitted

\* A declaration adds itself to those of its name.
LEMMA DeclarationsGrow ==
  ASSUME GlobalTypesOK, NEW name \in Names, declared' = Append(declared, name), NEW other
  PROVE  /\ IsFiniteSet(Declarations(other)) /\ Cardinality(Declarations(other)) \in Nat
         /\ Cardinality(Declarations(other))' =
              Cardinality(Declarations(other)) + IF other = name THEN 1 ELSE 0
<1> DEFINE new == Len(declared) + 1
<1>1. /\ Len(declared) \in Nat /\ declared' \in Seq(Names) /\ Len(declared') = new
      /\ \A k \in 1 .. Len(declared) : declared'[k] = declared[k]
      /\ declared'[new] = name
  BY DEF GlobalTypesOK
<1>2. IsFiniteSet(1 .. Len(declared))
  BY <1>1, FS_Interval
<1>3. IsFiniteSet(Declarations(other))
  BY <1>2, FS_Subset DEF Declarations
<1>4. Cardinality(Declarations(other)) \in Nat
  BY <1>3, FS_CardinalityType
<1>5. new \notin Declarations(other)
  BY <1>1 DEF Declarations
<1>6. CASE other = name
  <2>1. Declarations(other)' = Declarations(other) \cup {new}
    BY <1>1, <1>6 DEF Declarations
  <2>2. Cardinality(Declarations(other) \cup {new}) = Cardinality(Declarations(other)) + 1
    BY <1>3, <1>5, FS_AddElement
  <2> QED
    BY <1>3, <1>4, <1>6, <2>1, <2>2
<1>7. CASE other # name
  <2>1. Declarations(other)' = Declarations(other)
    BY <1>1, <1>7 DEF Declarations
  <2> QED
    BY <1>3, <1>4, <1>7, <2>1
<1> QED
  BY <1>6, <1>7

LEMMA NewGlobalInv ==
  ASSUME GlobalsInv, NEW name \in Names, NEW ty \in GlobalTypes, NewGlobal(name, ty)
  PROVE  GlobalsInv'
<1> DEFINE g == [name |-> name, ty |-> ty, idx |-> Len(globals)]
           count(x) == Cardinality(Declarations(x))
<1>1. /\ globals \in Seq(GlobalDefs) /\ Len(globals) \in Nat
      /\ declared \in Seq(Names) /\ Len(declared) \in Nat
      /\ Len(globals) <= Len(declared) /\ MaxGlobals \in Nat
  BY BoundsAssumption DEF GlobalsInv, GlobalTypesOK
<1>2. g \in GlobalDefs /\ g.name = name /\ g.ty = ty /\ g.idx = Len(globals)
  BY <1>1 DEF GlobalDefs
<1>3. /\ phase = "build" /\ phase' = "build" /\ Len(declared) < MaxGlobals
      /\ declared' = Append(declared, name)
      /\ globals' = IF name \in Known(globals)
                      THEN [n \in 1 .. Len(globals) |->
                              IF globals[n].name = name THEN g ELSE globals[n]]
                      ELSE Append(globals, g)
  BY DEF NewGlobal
<1> HIDE DEF g
<1>4. /\ declared' \in Seq(Names) /\ Len(declared') = Len(declared) + 1 /\ Len(declared') <= MaxGlobals
      /\ \A k \in 1 .. Len(declared) : declared'[k] = declared[k]
      /\ declared'[Len(declared) + 1] = name
  BY <1>1, <1>3
<1>5. \A x : /\ count(x) \in Nat
             /\ Cardinality(Declarations(x))' = count(x) + IF x = name THEN 1 ELSE 0
  BY <1>3, DeclarationsGrow DEF GlobalsInv
<1>6. \A n \in 1 .. Len(globals) :
        /\ globals[n].idx \in Nat /\ globals[n].name \in Known(globals)
        /\ \/ count(globals[n].name) = 1 /\ globals[n].idx = n - 1
           \/ count(globals[n].name) > 1 /\ globals[n].idx > n - 1
  <2>1. \A n \in 1 .. Len(globals) : globals[n] \in GlobalDefs
    BY <1>1, ElementOfSeq
  <2> QED
    BY <2>1 DEF GlobalsInv, GlobalsNumbered, GlobalDefs, Known, Entries
<1>7. \A k \in 1 .. Len(declared) : declared[k] \in Known(globals)
  BY DEF GlobalsInv, GlobalsNumbered
<1> HIDE DEF count
<1>8. CASE name \in Known(globals)
  <2>1. globals' = [n \in 1 .. Len(globals) |-> IF globals[n].name = name THEN g ELSE globals[n]]
    BY <1>3, <1>8
  <2>2. /\ globals' \in Seq(GlobalDefs) /\ Len(globals') = Len(globals)
        /\ \A n \in 1 .. Len(globals) :
             /\ globals'[n].name = globals[n].name
             /\ globals'[n].idx = IF globals[n].name = name THEN Len(globals) ELSE globals[n].idx
    <3>1. \A n \in 1 .. Len(globals) : globals[n] \in GlobalDefs
      BY <1>1, ElementOfSeq
    <3> QED
      BY <1>1, <1>2, <2>1, <3>1
  <2>3. GlobalTypesOK'
    BY <1>1, <1>4, <2>2 DEF GlobalTypesOK
  <2>4. GlobalsDistinct'
    BY <2>2 DEF GlobalsInv, GlobalsDistinct
  <2>5. Known(globals)' = Known(globals)
    BY <2>2 DEF Known, Entries
  <2>6. \A k \in 1 .. Len(declared') : declared'[k] \in Known(globals')
    BY <1>1, <1>4, <1>7, <1>8, <2>5
  <2>7. ASSUME NEW n \in 1 .. Len(globals')
        PROVE  \/ Cardinality(Declarations(globals[n].name))' = 1 /\ globals'[n].idx = n - 1
               \/ Cardinality(Declarations(globals[n].name))' > 1 /\ globals'[n].idx > n - 1
    <3>1. globals'[n].name = globals[n].name /\ n \in 1 .. Len(globals)
      BY <2>2
    <3>2. Cardinality(Declarations(globals[n].name))' =
            count(globals[n].name) + IF globals[n].name = name THEN 1 ELSE 0
      BY <1>5, <3>1
    <3> QED
      BY <1>1, <1>5, <1>6, <2>2, <3>1, <3>2
  <2>8. GlobalsNumbered'
    BY <2>6, <2>7 DEF GlobalsNumbered
  <2> QED
    BY <1>3, <2>3, <2>4, <2>8 DEF GlobalsInv, GlobalsEmitted, Emitted
<1>9. CASE name \notin Known(globals)
  <2>1. globals' = Append(globals, g)
    BY <1>3, <1>9
  <2>2. /\ globals' \in Seq(GlobalDefs) /\ Len(globals') = Len(globals) + 1
        /\ \A n \in 1 .. Len(globals) : globals'[n] = globals[n]
        /\ globals'[Len(globals) + 1] = g
    BY <1>1, <1>2, <2>1
  <2>3. GlobalTypesOK'
    BY <1>1, <1>4, <2>2 DEF GlobalTypesOK
  <2>4. \A n \in 1 .. Len(globals) : globals[n].name # name
    BY <1>6, <1>9
  <2>5. GlobalsDistinct'
    BY <1>1, <1>2, <2>2, <2>4 DEF GlobalsInv, GlobalsDistinct
  <2>6. \A x \in Known(globals) \cup {name} : x \in Known(globals')
    BY <1>1, <1>2, <2>2 DEF Known, Entries
  <2>7. \A k \in 1 .. Len(declared') : declared'[k] \in Known(globals')
    BY <1>1, <1>4, <1>7, <2>6
  <2>8. count(name) = 0
    <3>1. Declarations(name) = {}
      BY <1>7, <1>9 DEF Declarations
    <3> QED
      BY <3>1, FS_EmptySet DEF count
  <2>9. ASSUME NEW n \in 1 .. Len(globals')
        PROVE  \/ Cardinality(Declarations(globals[n].name))' = 1 /\ globals'[n].idx = n - 1
               \/ Cardinality(Declarations(globals[n].name))' > 1 /\ globals'[n].idx > n - 1
    <3>1. CASE n \in 1 .. Len(globals)
      <4>1. Cardinality(Declarations(globals[n].name))' = count(globals[n].name)
        BY <1>5, <2>2, <2>4, <3>1
      <4> QED
        BY <1>6, <2>2, <3>1, <4>1
    <3>2. CASE n = Len(globals) + 1
      <4>1. globals'[n].name = name /\ globals'[n].idx = n - 1
        BY <1>1, <1>2, <2>2, <3>2
      <4>2. Cardinality(Declarations(globals[n].name))' = 1
        BY <1>5, <2>8, <4>1
      <4> QED
        BY <4>1, <4>2
    <3> QED
      BY <1>1, <2>2, <3>1, <3>2
  <2>10. GlobalsNumbered'
    BY <2>7, <2>9 DEF GlobalsNumbered
  <2> QED
    BY <1>3, <2>3, <2>5, <2>10 DEF GlobalsInv, GlobalsEmitted, Emitted
<1> QED
  BY <1>8, <1>9

LEMMA NextGlobals ==
  ASSUME GlobalsInv, [Next]_vars
  PROVE  GlobalsInv'
<1> USE DEF GlobalsInv, GlobalTypesOK, GlobalsDistinct, GlobalsNumbered, GlobalsEmitted, Emitted,
            Declarations
<1>1. ASSUME NEW name \in Names, NEW ty \in FuncTypes, AddExtern(name, ty) \/ AddFunction(name, ty)
      PROVE  GlobalsInv'
  <2>1. UNCHANGED <<globals, declared, globalSec>> /\ phase = "build" /\ phase' \in {"build", "panicked"}
    BY <1>1 DEF AddExtern, AddFunction, Building, Insert, Panic, wasm
  <2> QED
    BY <2>1
<1>2. ASSUME NEW name \in Names, NEW ty \in GlobalTypes, NewGlobal(name, ty)
      PROVE  GlobalsInv'
  BY <1>2, NewGlobalInv
<1>3. CASE VisitModule
  BY <1>3 DEF VisitModule
<1>4. CASE VisitFunction \/ EndModule
  <2>1. UNCHANGED <<globals, declared, globalSec>> /\ phase = "emit"
    BY <1>4 DEF VisitFunction, EndModule
  <2> QED
    BY <2>1
<1>5. CASE UNCHANGED vars
  BY <1>5 DEF vars, wasm
<1> QED
  BY <1>1, <1>2, <1>3, <1>4, <1>5 DEF Next, Finished

LEMMA SpecGlobals == Spec => []GlobalsInv
BY InitGlobals, NextGlobals, PTL DEF Spec

\* A global is found by its name.
LEMMA GetGlobal ==
  ASSUME GlobalsInv, NEW n \in 1 .. Len(globals)
  PROVE  Get(globals, globals[n].name) = globals[n]
<1>1. globals[n] \in Entries(globals)
  BY DEF Entries
<1>2. \A g \in Entries(globals) : g.name = globals[n].name => g = globals[n]
  BY DEF GlobalsInv, GlobalsDistinct, Entries
<1> QED
  BY <1>1, <1>2 DEF Get

\* For any number of globals and of calls that declare them, the accesses that
\* reach their global are those of names that are declared once.
THEOREM AccessesAreRight == Spec => []AccessesReachTheirGlobal
<1>1. GlobalsInv => AccessesReachTheirGlobal
  <2> SUFFICES ASSUME GlobalsInv, phase = "done", NEW n \in 1 .. Len(globals)
               PROVE  LET g == Get(globals, globals[n].name) IN
                      Cardinality({ k \in 1 .. Len(declared) : declared[k] = globals[n].name }) = 1 <=>
                        /\ g.idx < Len(globalSec)
                        /\ globalSec[g.idx + 1] = [name |-> globals[n].name, ty |-> g.ty]
    BY DEF AccessesReachTheirGlobal, Known, Entries
  <2> DEFINE g == globals[n]
  <2>1. Get(globals, globals[n].name) = g
    BY GetGlobal
  <2>2. /\ globals \in Seq(GlobalDefs) /\ Len(globals) \in Nat /\ g.idx \in Nat
    <3>1. globals[n] \in GlobalDefs
      BY ElementOfSeq DEF GlobalsInv, GlobalTypesOK
    <3> QED
      BY <3>1 DEF GlobalsInv, GlobalTypesOK, GlobalDefs
  <2>3. globalSec = [k \in 1 .. Len(globals) |-> [name |-> globals[k].name, ty |-> globals[k].ty]]
    BY DEF GlobalsInv, GlobalsEmitted, Emitted
  <2>4. Len(globalSec) = Len(globals)
    BY <2>2, <2>3
  <2>5. \/ Cardinality(Declarations(g.name)) = 1 /\ g.idx = n - 1
        \/ Cardinality(Declarations(g.name)) > 1 /\ g.idx > n - 1
    BY DEF GlobalsInv, GlobalsNumbered
  <2>6. Cardinality(Declarations(g.name)) \in Nat
    <3>1. Len(declared) \in Nat
      BY DEF GlobalsInv, GlobalTypesOK
    <3>2. IsFiniteSet(1 .. Len(declared)) /\ Declarations(g.name) \in SUBSET (1 .. Len(declared))
      BY <3>1, FS_Interval DEF Declarations
    <3> QED
      BY <3>2, FS_Subset, FS_CardinalityType
  <2>7. CASE g.idx = n - 1 /\ Cardinality(Declarations(g.name)) = 1
    <3>1. g.idx < Len(globalSec) /\ g.idx + 1 = n
      BY <2>2, <2>4, <2>7
    <3> QED
      BY <2>1, <2>3, <2>7, <3>1 DEF Declarations
  <2>8. CASE g.idx > n - 1 /\ Cardinality(Declarations(g.name)) > 1
    <3>1. ASSUME g.idx < Len(globalSec)
          PROVE  globalSec[g.idx + 1].name # g.name
      <4>1. g.idx + 1 \in 1 .. Len(globals) /\ g.idx + 1 # n
        BY <2>2, <2>4, <2>8, <3>1
      <4>2. globalSec[g.idx + 1].name = globals[g.idx + 1].name
        BY <2>3, <4>1
      <4>3. globals[g.idx + 1].name # globals[n].name
        BY <4>1 DEF GlobalsInv, GlobalsDistinct
      <4> QED
        BY <4>2, <4>3
    <3>2. ~ (Cardinality(Declarations(g.name)) = 1)
      BY <2>6, <2>8
    <3> QED
      BY <2>1, <3>1, <3>2 DEF Declarations
  <2> QED
    BY <2>5, <2>7, <2>8
<1> QED
  BY <1>1, SpecGlobals, PTL

-----------------------------------------------------------------------------
(* Type correctness *)

\* The names of a map without repetitions are as many as its entries.
LEMMA NamesCounted ==
  ASSUME NEW seq, Len(seq) \in Nat,
         \A m, n \in 1 .. Len(seq) : seq[m].name = seq[n].name => m = n
  PROVE  Cardinality(Known(seq)) = Len(seq)
<1> DEFINE name == [n \in 1 .. Len(seq) |-> seq[n].name]
<1>1. IsFiniteSet(1 .. Len(seq)) /\ Cardinality(1 .. Len(seq)) = Len(seq)
  <2>1. 1 \in Int /\ Len(seq) \in Int
    OBVIOUS
  <2>2. Cardinality(1 .. Len(seq)) = IF 1 > Len(seq) THEN 0 ELSE Len(seq) - 1 + 1
    BY <2>1, FS_Interval
  <2>3. Cardinality(1 .. Len(seq)) = Len(seq)
    BY <2>2
  <2> QED
    BY <2>1, <2>3, FS_Interval
<1>2. name \in Surjection(1 .. Len(seq), Known(seq))
  BY DEF Surjection, Known, Entries
<1>3. name \in Injection(1 .. Len(seq), Known(seq))
  BY <1>2 DEF Surjection, Injection, IsInjective
<1> HIDE DEF name
<1> QED
  BY <1>1, <1>2, <1>3, FS_Surjection

\* A module has no more functions than it may.
Bounded == Len(functions) <= MaxFunctions

LEMMA SpecBounded == Spec => []Bounded
<1>1. Init => Bounded
  BY BoundsAssumption DEF Init, Bounded
<1>2. IInv /\ Bounded /\ [Next]_vars => Bounded'
  <2> SUFFICES ASSUME IInv, Bounded, [Next]_vars PROVE Bounded'
    OBVIOUS
  <2>1. functions \in Seq(FuncDefs) /\ Len(functions) \in Nat /\ MaxFunctions \in Nat
    BY BoundsAssumption DEF IInv, IndexTypes
  <2>2. ASSUME NEW name \in Names, NEW ty \in FuncTypes, AddExtern(name, ty) \/ AddFunction(name, ty)
        PROVE  Bounded'
    <3>1. CASE UNCHANGED functions
      BY <3>1 DEF Bounded
    <3>2. CASE Len(functions) < MaxFunctions /\ \E f \in FuncDefs : functions' = Append(functions, f)
      BY <2>1, <3>2 DEF Bounded
    <3>3. \A kind \in {"extern", "local"} : FuncDef(kind, name, ty, Len(functions)) \in FuncDefs
      BY <2>1 DEF FuncDef, FuncDefs
    <3> QED
      BY <2>2, <3>1, <3>2, <3>3 DEF AddExtern, AddFunction, Building, Insert, Panic
  <2>3. CASE UNCHANGED functions
    BY <2>3 DEF Bounded
  <2> QED
    BY <2>2, <2>3 DEF Next, NewGlobal, VisitModule, VisitFunction, EndModule, Finished, vars
<1> QED
  BY <1>1, <1>2, SpecIInv, PTL DEF Spec

\* Names are distinct, and the output has as many functions as the module.
THEOREM ModuleIsWellTyped == Spec => []TypeOK
<1>1. IInv /\ GlobalsInv /\ Bounded => TypeOK
  <2> SUFFICES ASSUME IInv, GlobalsInv, Bounded PROVE TypeOK
    OBVIOUS
  <2>1. Cardinality(Known(functions)) = Len(functions)
    BY NamesCounted DEF IInv, IndexTypes, Distinct
  <2>2. Cardinality(Known(globals)) = Len(globals)
    BY NamesCounted DEF GlobalsInv, GlobalTypesOK, GlobalsDistinct
  <2>3. Len(globals) <= MaxGlobals
    BY BoundsAssumption DEF GlobalsInv, GlobalTypesOK
  <2>4. ASSUME phase = "done" PROVE Len(FuncSpace) = Len(functions)
    <3>1. /\ importSec \in Seq(Prototypes) /\ funcSec \in Seq(Prototypes)
          /\ Len(importSec) <= Len(functions) /\ visited = Len(functions)
          /\ Len(functions) \in Nat /\ Len(importSec) \in Nat /\ Len(funcSec) \in Nat
      BY <2>4 DEF IInv, IndexTypes, Imported, Tabled, Emitted
    <3>2. Len(funcSec) = Len(functions) - Len(importSec)
      BY <2>4, <3>1 DEF IInv, IndexTypes, Compiled, Emitted
    <3> QED
      BY <3>1, <3>2 DEF FuncSpace
  <2> QED
    BY <2>1, <2>2, <2>3, <2>4 DEF TypeOK, IInv, IndexTypes, Bounded
<1> QED
  BY <1>1, SpecIInv, SpecGlobals, SpecBounded, PTL
=============================================================================
