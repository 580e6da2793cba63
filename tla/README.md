# A verification of the swarm-ir compiler

swarm-ir is a library that builds, verifies and compiles a small stack-based
intermediate representation to WebAssembly.  A user makes a module with a
function builder or a textual parser; `pipeline_compile_module_to_wasm`
(`lib.rs`) then runs a fixed sequence of passes over it and returns the bytes
of a WebAssembly module.  This directory models those passes in TLA+, checks
them with TLC on small modules, functions and blocks, and proves with TLAPS,
for modules of any size, the main results about both verifiers, the pipeline
and the emitter, the indices of a module, rewriting, the function builders and
static memory.

The library is sequential: it has no threads, no persistence and no messages;
what is done in an arbitrary order is done by its callers, by the iteration
over hash maps and by whoever writes a text.  What is hard here is of other
kinds:

* passes iterate over blocks in the arbitrary order of a `HashMap`, while they
  record what they find;
* each pass relies on what passes before it have established, and nothing but
  their order says so: the emitter unwraps metadata that the verifiers must
  have stored, and recurses over blocks that only they keep from being cyclic;
* metadata is only ever added, so that a module that is verified, changed and
  verified again holds what was true of it earlier;
* two components compute the same thing in different ways: a `Break` counts
  branches in one pass and labels in another, the verifier simulates a stack
  that WebAssembly checks again, functions are numbered once when they are
  added and once by where they end up in the output, offsets into static
  memory are added up by the writer and by the compiled code, and a text is
  what both printer and parser take it for;
* indices and widths: changes applied at indices that earlier changes moved,
  8 and 16 bit arithmetic on 32 bit words, padding, ranges and comparisons that
  are off by one.

## Components

| Component | State | Operations | Interacts with | Hard to get right | Correct when | Modelled by |
|---|---|---|---|---|---|---|
| IR data (`instr.rs`, `ty.rs`) | functions: blocks by id, each with a tag, a type and instructions; interned types | construction, lookup | every pass | diverging instructions; references between blocks | - | `IR`, `ControlFlow` |
| Control-flow verifier (`cf_verify.rs`) | parents, distances, the order of iteration; block metadata | `visit_function`, `mutate_function` | uses tags; writes what the emitter reads | arbitrary order; unbounded chase; orphans | the verdict and the metadata depend on the function alone | `CFVerifier`, contract `ControlFlowContract`, proofs `CFVerifierProofs`, `ControlFlowProofs` |
| Type verifier (`verify.rs`) | the simulated stack; types and widths noted per instruction | one arm per instruction, end of block, metadata update | module's functions and globals; the emitter reads what it notes | thirty arms; order of arguments; ends of blocks | what it accepts compiles, with the stack it simulated | `Verifier`, contract `VerifierContract`, `TypedEmission`, proofs `TypedProofs` |
| Emitter, functions and blocks (`emit.rs`) | recursion over blocks, labels, code | `compile_func`, `compile_block` | both verifiers' metadata | labels of breaks; bounded recursion | code nests, breaks leave their loop | `Emitter` within `Pipeline`, `TypedEmission`, proofs `EmitterProofs` |
| Module and sections (`module.rs`, `emit.rs`) | IndexMaps of functions and globals; sections | `add_function`, `add_extern_function`, `new_global`, `do_pass`, section emission | calls, pointers, exports and accesses use the indices | two numberings of the same things | every index reaches what was meant | `ModuleIndex`, proofs `ModuleIndexProofs` |
| Numeric instructions (`numerics.rs`) | - | code sequence per instruction and width | verifier's `bws` metadata | narrow types on wide words | a word represents the value of its type | `Numerics` |
| Peephole optimiser, instruction rewriting (`passes/`) | list of changes; a block | scan, `new`, splice | pipeline, other callers | changes move each other's indices | changes are made at once, calls kept | `InstrRewrite`, proofs `InstrRewriteProofs`; over a module in `Pipeline` |
| Metadata (`metadata.rs`) | a list per instruction or block, the newest entry first | insert, retrieve | all passes | entries are never removed | newest entry is found | `Metadata`, `Pipeline` |
| Correction pass (`correct.rs`) | - | truncates blocks after a diverging instruction | makes orphans | may remove the only use of a block | nothing follows a diverging instruction, and what was regular stays so | `Pipeline` |
| Pipeline, pass driver (`lib.rs`, `pass.rs`, `module.rs`) | a module going through the passes | two pipelines, `do_pass`, `do_mut_pass` | all passes | errors in the middle, passes run twice | what reaches the emitter is verified as it is now | `Pipeline`, contracts `ControlFlowContract` and `VerifierContract`, proofs `PipelineProofs` |
| Function builder (`builder.rs`) | blocks, locals, current block | new block, local, switch, emit, finish | C interface, module | the current block | a function is what its calls asked for | `FunctionBuilder`, proofs `ClientProofs` |
| C interface (`c_api.rs`) | handles of builders, the module | calls of the builder, finish, dump, static items | builder, module, printer | calls through several handles in any order; a panic aborts | each builder gets its own calls | `CInterface`, proofs `ClientProofs` |
| ABI, struct layout (`abi.rs`) | - | size, alignment, offsets | emitter, static memory | padding, nesting | fields do not overlap and are aligned | `Layout`, proofs `ClientProofs`; value types in `TypedEmission` |
| Static memory (`staticmem.rs`) | items, addresses, the buffer | add, compile | emitter, ABI | alignment, pointers between items | items do not overlap, contents are where addresses say | `StaticMemory`, abstract `Placement`, proofs `ClientProofs` |
| Printer, parser (`irprint.rs`, `irparse.rs`) | text, position, the function so far | print, parse | builder, module | blocks without an end, types in types, locals by number | what is printed is read back, no text is taken for another function | `TextualIR`, `RoundTrip` |
| Build script, tests | - | - | - | - | - | not modelled |

## Modules

`IR` has types as records, instructions as records whose `op` is the
constructor of `InstrK`, and the references of an instruction to blocks.
`ControlFlow` says what regular control flow is, of a whole function at once:
this is the reference for the verifier and the assumption of the emitter.
`Shapes` builds families of functions out of trees.

**`CFVerifier`** is one run of the pass over one function.  `fn` and `meta`
are the function and its block metadata, `parents` is `block_parents`,
`distances` is `innermost_loop_distances`, `todo` are the blocks the current
`HashMap` iteration has left: taking any of them is the arbitrary order.
`CheckEntry`, `NextBlock`, `ScanRef`, `EndInstr`, `EndBlock` and `CheckMain`
are the first half of `visit_function`, `Measure` and `Chase` the second, and
`Mutate` is `mutate_function`.  A run ends `accepted`, `rejected` or
`panicked` (an index or an `unwrap` that fails).  `MaxDistance` bounds the
counter of a chase: it is above any distance of the functions given to it
(`BoundAssumption`), and only matters to a chase that goes round for ever.

**`ControlFlowContract`** is the same pass in one step, without blocks,
parents or an order: what it promises.  `CFVerifier` implements it with
`verdict` mapped to the phase if that is an end.

**`Verifier`** is `verify.rs` over one function: `stack`, `info` (what
`VerifierMutInfo` notes) and `meta` (what it becomes).  Every arm of
`verify_block` is an action; they share `Types`, which pops, tests and pushes
as all arms do.  `debug` says whether unsigned subtraction panics.  `Interned` are
the types of the module: primitive ones, and others made of these
(`TypesAssumption`); whatever is declared or named by an instruction is one of
them (`DeclarationsAssumption`), as a `Ty` of the source can be nothing else.
**`TypedEmission`** runs the emitter beside it: for every instruction that
passes, the operand types of the code `compile_block` emits (`Emitted`), and
WebAssembly's own check of them (`Valid`), on a stack of its own.

**`VerifierContract`** is the type verifier in one step: which types fit is
left open, but an accepted function has no `Break` in a block without a
distance, no reference without a block, and exactly the notes the emitter
needs on the instructions that can be reached.  `TypedEmission` shows that
`Verifier` implements it.

**`Emitter`** is the recursion of `compile_block`, with a frame per active
call, the labels open in the code so far, and the code.  It is a component
with a function as its parameter: `Pipeline` gives it what the verifiers have
let through, with the metadata it can retrieve.  It ends `panicked` if metadata
is missing, and may end `unsupported` at a local or an instruction that the
verifier accepts and the emitter has no code for (`MayLackCode`): for which
types it does is left open here and said by `TypedEmission`.

**`Pipeline`** is a client and the two functions of `lib.rs`, with `do_pass`
and `do_mut_pass`.  `defs` are the functions of the module, externs among
them, with a metadata list for every block and instruction (`Metadata`);
`plan` are the passes left and `at` is the function the first of them is at.
`Correct`, `VerifyControlFlow`, `VerifyTypes` and `Optimise` are
`visit_function` and `mutate_function` of one pass on one function, the
verifiers as their contracts say; `Emit` are the steps of `Emitter`, before
which `visit_module` may fail for want of a type (`ModuleUnsupported`).  An error
ends the call and leaves the functions before it changed.  Between two calls
the client may run a pass of its own (`Edit`): `do_mut_pass`,
`blocks_iter_mut` and the bodies of blocks are public.

**`FunctionBuilder`** is the builder as a record.  **`CInterface`** is a
client with several builders behind handles, that calls them in any order; a
panic in a function of the C interface aborts the process.  `history` is what
the client asked for, and `AskedFor` says which function that is, without a
builder, by the positions of the calls in the log.  `ApiSpec` is the clients
alone: whoever goes on with the module (the printer, the parser) leaves what
`CInterface` declares as it is.

**`TextualIR`** has the printer as a function from functions to sequences of
tokens, and the parser's rules for types, instructions and block lines as
functions from a place in a text to what was read there, an error or a panic.
**`RoundTrip`** composes `CInterface` with `dump_module` and `parse_function`,
whose loops are its actions: a text is what was printed, a beginning of it, or
the same function with its locals or blocks in another order.

**`Layout`** is `struct_calc_algorithm` with sizes and alignments.  These are
functions on the types there are (`Types`), defined by recursion over the
fields of structs; `Nesting` is a measure of the depth of a type, whatever it
is, and `TypesAssumption` says that fields are there before their struct, as
an interner must have it.
**`StaticMemory`** has the values there are (`Parts`, with `Depth` and
`ValuesAssumption`, which say of `SMValue` that it is finite and that numbers
are as wide as their types), and adds items, places them (`PlaceItem`), writes their values
field by field (`WriteStruct`, `WriteScalar`, `WritePointer`, with `todo` for
the calls of `write_to_memory` that are active), and then walks them as a
compiled program does: `LoadAddress`, `GoToField`, `Follow`.  **`Placement`**
is what the addresses promise, whatever the items are; `StaticMemory`
implements it.

**`ModuleIndex`** builds a module in any order and emits its sections; what
WebAssembly makes of them (`FuncSpace`) is compared with what the emitter put
into calls, tables and exports.

**`Numerics`** executes sequences of IR instructions on one integer: on the
integer, and on the word that stands for it, by the code of
`emit_numeric_instr`.  `Word`, `Half` and `Quarter` are the widths 32, 16
and 8; every literal of the source is an expression of them (65536 is
`2^Half`, 255 is `2^Quarter - 1`, the shift of 24 is `Word - Quarter`).

**`InstrRewrite`** scans a block as `PeepholeOpt` does, or takes changes of
another caller, tests and sorts them as `InstrRewritePass::new` and splices
them as `mutate_function`.

The `MC` modules define the functions, blocks and constants of the runs.

## Runs

All runs check deadlock (an ended pass stutters) but `ROUND_all`, where the
client may stop anywhere and an ended parse is the end.

| Run | Shows | Bounds |
|---|---|---|
| `CFV_verdict` | whatever the order of blocks: what passes is regular, what is rejected is not, parents and distances are exact, the pass implements its contract, and it ends unless branches form a cycle | three blocks with 19 bodies each and any tags, with dangling and repeated references: every pair of checks can fail in either order; all 24 trees of four blocks under the entry for longer chases; all ways to nest three blocks |
| `PIPE_all` | what reaches the emitter is regular, with distances and notes of the last verification; what was verified is accepted again; correction keeps a function regular but for unreachable branches; code nests, breaks leave the innermost loop, `br` at the end of a loop repeats it, no block is compiled inside of itself, and once the emitter has started, the module is compiled unless a type in it has no code | all trees of three blocks with breaks anywhere and of four with one break, compiled; trees of two blocks and a loop with two branches verified, edited by every move of one instruction, and compiled; three functions, an extern and an irregular one among them; two calls, which is the fewest with metadata of an earlier one |
| `TYPED_all` | verifier and WebAssembly see the same stack; metadata is complete and as the contract says; what is accepted fails to compile at the gaps below and nowhere else | every instruction on stacks of up to three values, which is more than any arm pops but for calls; two results; five nested blocks; debug and release |
| `INDEX_module` | calls, function pointers, exports and global accesses reach what they name | three functions and three declarations of globals, two types each, in every order |
| `REWRITE_all` | the optimiser's changes always apply and keep the calls; changes one by one are changes at once, except that an insertion asked for before the range it stands at is overwritten; overlaps are refused | all blocks of four of five instructions; all triples of ranges of up to two in a block of four |
| `NUMERICS_all` | after every instruction the word represents its value, but for the gaps below | all operands of all six types with widths 6, 3 and 2: as in the source, products of `Half` fit a word but not a signed one |
| `STATIC_all` | addresses are those of `Placement`; the program finds every value, aligned; the buffer is filled exactly; only a pointer to no item panics | every sequence of up to three items out of all kinds of values: structs of mixed alignment, nested two deep, empty ones, blobs of 0, 1 and 3 bytes, and pointers back, ahead, to the item itself and to none |
| `ROUND_all` | a function is what its builder was asked for; printed and read it is the same, but for the gaps below; no text is taken for another function; every text is decided | two builders with four calls beside starting and finishing, the fewest in which both have a block and an instruction in it; every instruction and every type in every place for types with one builder and three calls; every beginning and every order of those texts |

The other four runs are expected to fail, each for one statement of the
sources that the code does not keep:

| Run | The sources say | The code does |
|---|---|---|
| `CFV_knots` | the pipeline "panics if any kind of error happens" (`lib.rs:40`) | a branch that is its own branch keeps `cf_verify.rs:122` looping |
| `CLAIM_valid` | output is never "Invalid WASM produced by IR compilation" (`build.rs:63`) | a block with a value too few, a call with mixed arguments, a `Return` of wrong types are let through (`verify.rs:525`, `227`, `444`) |
| `CLAIM_loop` | the verifier makes sure that the block of a `Break` is "part of SOME loop" (`verify.rs:502`) | a block that was in a loop when it was verified before keeps its distance, and its `Break` is accepted after the loop is gone (`verify.rs:505`) |
| `CLAIM_half` | IAdd is "Add two integers" (`instr.rs:11`) | the mask of UInt16 is 65536, not 65535 (`numerics.rs:48`; `drafts/numerics_1.md` has it too) |

### Known gaps

`FailsAtTheGapsOnly` says exactly where accepted functions fail to compile
(an equivalence), `InexactAtTheGapsOnly` where a word may be wrong,
`TextGap` where a text may not be read back (they are nowhere else); whoever
closes a gap in the code removes its line.

* `CallDirect` and `CallIndirect` compare the popped types with the arguments
  from the first one on, so arguments must be pushed in reverse (`InstrGap`).
* `GetFieldPtr` accepts the index after the last field and the emitter panics
  on it; reading or writing a pointer or a function is accepted and not
  implemented; a cast to or from a struct reaches `unreachable!`.
* A struct among the arguments or results of any function type, or as a local,
  is accepted by the verifier too, and `encode_types` (`emit.rs:66-78`) or
  `compile_func` panics on it (`abi.rs:45`).  So may `LdStaticMemPtr` of an item
  that is of another module (`emit.rs:336`), and static memory with a pointer
  to no item (`DanglingOnly`).  `CompiledUnlessUnsupported` lets all of these
  end a compilation, and a missing note or distance not.
* `Return` of two or more values compares none of them; in a debug build a
  `Return` of none panics on `stack.len() - 1` (`Verifier`, action `Return`).
* The end of a block compares with `zip`: values too many or too few pass; the
  type of the entry block is not compared with that of the function.
* A global declared twice gets an index that is not its place
  (`AccessesReachTheirGlobal` says exactly those names fail).
* UInt16 arithmetic and conversions use the wrong mask; constants of small
  unsigned types of 2^31 and more pass; `Ftoi`, `Bitcast` and `MemoryGrow` may
  leave a word that is no value of its narrow type; the least Int32 divided
  by -1 traps.  `Bitcast` is documented to fail for different sizes
  (`instr.rs:77`) and never does.
* `instr.rs` documents signed integers only: a "Signed divide" (17), Itof with
  `f32.convert_i32_s` (35-37), Ftoi "to a signed integer" with `i32.trunc_f32_s`
  (39-41) and ICmp of "two signed integers" (45).  `numerics.rs` and
  `drafts/numerics_1.md` follow the sign of the type, and so do the meanings
  `InexactAtTheGapsOnly` compares with: where it passes for an unsigned type,
  it disagrees with those comments.  Itof of a `UInt32` with its highest bit set
  is the shortest case: `f32.convert_i32_u` (`numerics.rs:64`) makes a positive
  float of it.
* A branch behind a diverging instruction is removed by the correction pass
  and its blocks are not: they then have no parent, and the control-flow
  verifier panics (`UnreachableBranch`).
* An insertion at n asked for before a replacement of n..m is overwritten by
  it (`Overwritten`), although "we always modify at the end and don't affect
  later ranges" (`passes/instr_rewrite.rs:92`); the optimiser never inserts.
* The closing brace of a struct type is not consumed (`irparse.rs:393`).  A
  function that mentions one is not read back, and where the struct is the
  type of a local or of an instruction, the function ends there without an
  error (`CutAtStruct`).
* `ld.float` is printed and never read: the lexer's rule for floats
  (`irparse.rs:51`) asks for quotes around the dot.  A function type whose
  only result is a function is printed without the parentheses it would need.
  Printing a pointer into static memory panics (`irprint.rs:150`).  Metadata
  printed behind a `#` is read by nobody.
* Static items of no bytes share their address with the next one, although
  unique items have unique addresses (`staticmem.rs:41`); the size of a struct
  is not rounded up to its alignment, so that the elements of an array
  reached by `Offset` need not be aligned.

## Fairness

Three specifications have liveness properties.  `CFVerifier` has
`WF_vars(Next)`: a pass is one call of a sequential function, and what it is in
the middle of it goes on with.  `Pipeline` has `WF_vars(Step)`, the passes as
a whole but not the client, which may never call again, and not `ChaseForEver`,
which is a loop that goes on without getting anywhere.  `RoundTrip` has
`WF_vars(Parse)`, the parser as a whole and not its caller.  No single action
is assumed to be fair.

## Proofs

Every theorem holds for any values of the constants that satisfy the named
assumptions: functions of any size, modules of any length, any number of calls.
Eight modules hold the proofs; `ControlFlowProofs` and `EmitterProofs` have
lemmas only, which the others cite.

| Theorem | Property | Module | Run that checks it |
|---|---|---|---|
| `TypeCorrect` | `TypeOK` of `CFVerifier` | `CFVerifierProofs` | `CFV_verdict` |
| `OnlyRegularFunctionsPass` | `PassedIsWellFormed` | `CFVerifierProofs` | `CFV_verdict` |
| `OnlyIrregularFunctionsAreRejected` | `RejectedIsIllFormed` | `CFVerifierProofs` | `CFV_verdict` |
| `ParentsAreExact` | `ParentsExact` | `CFVerifierProofs` | `CFV_verdict` |
| `DistancesAreExact` | `DistancesAgree` | `CFVerifierProofs` | `CFV_verdict` |
| `ImplementsContract` | `RefinesContract` | `CFVerifierProofs` | `CFV_verdict` |
| `StackIsWebAssemblys` | `StacksAgree` | `TypedProofs` | `TYPED_all` |
| `EmitterFindsItsMetadata` | `MetadataComplete` | `TypedProofs` | `TYPED_all` |
| `GapsAreAllThereIs` | `FailsAtTheGapsOnly` | `TypedProofs` | `TYPED_all` |
| `VerifierKeepsItsContract` | `RefinesVerifierContract` | `TypedProofs` | `TYPED_all` |
| `EmitterMeetsVerified` | `EmitsVerified` | `PipelineProofs` | `PIPE_all` |
| `NotesAreOfThisCall` | `NotesAreFresh` | `PipelineProofs` | `PIPE_all` |
| `RecursionIsBounded` | `NoBlockInItself` | `PipelineProofs` | `PIPE_all` |
| `FinishedCodeNests` | `CodeNests` | `PipelineProofs` | `PIPE_all` |
| `BreaksLeaveTheirLoop` | `BreakLeavesInnermostLoop` | `PipelineProofs` | `PIPE_all` |
| `LoopsAreRepeated` | `RepeatsItsLoop` | `PipelineProofs` | `PIPE_all` |
| `VerifiesAgain` | `AcceptsAgain` | `PipelineProofs` | `PIPE_all` |
| `CorrectionRemovesBranches` | `CorrectionKeepsRegular` | `PipelineProofs` | `PIPE_all` |
| `CallsAreRight`, `PointersAreRight`, `ExportsAreRight` | `CallsReachTheirFunction`, `PointersReachTheirFunction`, `ExportsNameTheirFunction` | `ModuleIndexProofs` | `INDEX_module` |
| `AccessesAreRight` | `AccessesReachTheirGlobal` | `ModuleIndexProofs` | `INDEX_module` |
| `ModuleIsWellTyped` | `TypeOK` of `ModuleIndex` | `ModuleIndexProofs` | `INDEX_module` |
| `ReplacesOnce` | `NoneReplacedTwice` | `InstrRewriteProofs` | `REWRITE_all` |
| `PeepholeNeverFails` | `PeepholeIsApplied` | `InstrRewriteProofs` | `REWRITE_all` |
| `PeepholeIsTransparent` | `PeepholeKeepsCalls` | `InstrRewriteProofs` | `REWRITE_all` |
| `SplicesAsAtOnce` | `ReplacesAtOnce` | `InstrRewriteProofs` | `REWRITE_all` |
| `FunctionsAsAsked` | `BuiltAsAsked` | `ClientProofs` | `ROUND_all` |
| `PlacesItems` | `RefinesPlacement` | `ClientProofs` | `STATIC_all` |
| `ItemsApart`, `StaticItemsApart` | `Ordered`, `Aligned` of `Placement` | `ClientProofs` | `STATIC_all`, by refinement |
| `WritesItemsOnly` | `FillsItsBuffer` | `ClientProofs` | `STATIC_all` |
| `FindsWhatWasWritten`, `LooksWhereAligned` | `WalkFindsItsValue`, `WalkIsAligned` | `ClientProofs` | `STATIC_all` |
| `PanicsForDanglingOnly` | `DanglingOnly` | `ClientProofs` | `STATIC_all` |

### The control-flow verifier

`CFVerifierProofs` assumes what `CFVerifier` does: the functions have the shape
of `Function` (entry block, ids that are numbers), and the bound is positive.
Its safety properties are not inductive: nothing in them says what has
been recorded half-way.  The invariant `VerdictInv` adds that.
`ScannedPositions` are the references the scan has gone past, as `todo`,
`cur`, `ip` and `arm` tell; `Recorded(P)` says that the parents are exactly
those of the references in `P`, that these resolve, and that no two name the
same block.  `ScanInv` is `Recorded(ScannedPositions)` during the scan,
`PassedInv` is `Recorded(Positions(fn))` after it.  A step of `ScanRef` adds
one position and records it, or rejects, and then the two positions, or the
one whose tag is wrong, are a witness that the function is not well formed;
the steps between references leave the set of positions as it is, which is
where the numbering of blocks and instructions is needed.

The second part of the module goes on to the distances. A chase counts steps
from a branch to the loop around it, and the reference `InnermostLoops` is a
function defined in terms of itself over a set of any size, so an argument by
induction would be the natural one. It is replaced by least counterexamples
(`LeastNumber`, from the well-foundedness of the numbers): `Climbs(f, c, n,
e)` says that a path of n parents leads from c to e, and a block whose
distance differed from the reference at the end of a shortest climb has a
parent with a shorter one that differs too. From this follow
`InnermostLoopsAreRight` and `DistancesAreUnique` (one set of distances fits a
well-formed function), `EveryClimbEnds` (no cycle and no orphan: a climb ends)
and `OutOfKnots` (where all climbs end there is no cycle). `DistInv` says of a
running `Chase` that the counter is the length of the climb so far, and of the
distances stored that they are right; the pigeonhole principle bounds the
counter by the number of blocks, for which `BoundAssumption` asks that
functions are finite and that `MaxDistance` is not the smaller one: a bound of
the model must not cut off a chase that would have ended. With that, a step of
the pass maps to a stutter of the contract until the pass ends, and the end
maps to the contract's one step (`ImplementsContract`): the verdict and the
metadata depend on the function alone, not on the order of the `HashMap`.

### The type verifier

`TypedProofs` assumes `TypesAssumption` and `DeclarationsAssumption` (every
type is interned), `ShapeAssumption` (functions are functions) and, for the
metadata, `CorrectedAssumption`: the pass runs after the correction pass, and
what follows a diverging instruction would have no notes. The arms come first.
`Arms` says of every arm of `verify_block`, at any stack, that it refuses,
overflows (a `Return`, in a debug build), or `Passes`: it pops and pushes what
the code of its instruction does, notes what that code needs and nothing else,
and the code compiles and is valid exactly if the instruction is at no gap
(`CodeFits`). `SimpleArms` has 22 arms of a fixed number of operands; the
arguments of calls (`CallArms`), the blocks of branches and loops
(`BlockArms`) and the results of a `Return` (`ReturnArm`) are of any number.
That popping and pushing types is popping and pushing their WebAssembly types
is `LowerPops`, and `OnTop` compares operands with the top of the stack from
the top down, which is the order the verifier takes them in: from it follows
that calls are right exactly for arguments that read the same in both
directions.

The invariant `TypedInv` then says that inside a block the two stacks agree as
long as the code is valid, that the notes are those of the instructions `Seen`
so far, each of its kind (`Recorded`), and that these refer to blocks there
are and break out of loops (`SeenRefersRight`). `Seen` is defined by `todo`,
`cur` and `ip`, so that the order in which the `HashMap` is iterated makes no
difference; a step adds the instruction at hand (`SeenAfterInstr`), and when
no block is left everything that can be reached has been seen (`AllSeen`). The
contract has one step that accepts, and `Mutate` is it (`MutateIsAccept`); the
other ends are refusals, and the overflow, which only happens where there is a
`Return`.

### The pipeline and the emitter

`EmitterProofs` is about one compiled function.  Its invariant `Stack` relates
the active calls of `compile_block` to the constructs that are open: every
frame is at an instruction of its block, the frame below called it through
that instruction, and the constructs open beneath a frame are those of the
frames before it, of a `Loop` two and of a branch one.  That no block is
active twice (`CallsDiffer`) is an argument about the lowest frame that shares its
block with a higher one: as a block has one reference, the two calls were made
through the same one, so the frames below share their block too, down to the
entry block, which has none.  For a break,
the frames above the innermost loop are branches, as many as the distance
says, and so the label is that of the construct around the loop.  `Nested`
says that the code so far reads from left to right, each `else` in an `if` and
each `br` within what is open; it is stated with the sequence of what is open
after each instruction, because `OpenAfter` is a recursive function.

`PipelineProofs` says what a pass may rely on.  `PipelineInv` is:

* `ShapeInv`, the functions are functions; `PlanInv`, the passes left are an end
  of one of the two pipelines;
* `PassesInv`, for every function: if it has passed verification and was not
  edited since, it is `Right`: regular, corrected, with the distances found by
  `retrieve` those of its loops; if it was never edited, no block outside of a
  loop ever got a distance; and what each pass of this call that has been past
  it has established still holds: after `types`, the notes are of this call;
* `EmitterInv`, the emitter runs on the function the pass is at with the
  invariants of `EmitterProofs`, and is idle otherwise.

`Visited(pass, i)` is what relates the first two: it holds when the plan and
`at` say that the pass has been past function i.  The optimiser is the pass
that could break the chain, since it changes bodies behind the verifiers: that
its replacement keeps the tree of blocks and moves every note along with its
instruction is `OptFacts` and `EmbedKeeps`.  Eight properties follow.  The
assumptions are `ModulesAssumption` (functions as the builder leaves them:
an entry, numbered blocks, no metadata yet) and `CallsAssumption`; what
an edit may do to a function is a guard of `Edit` (the result must again have
that shape), which holds of whatever a client can build in Rust.

### Modules and indices

`ModuleIndexProofs` needs no assumption beyond `BoundsAssumption`, and the
bounds may be any numbers.  The properties speak of finished modules only, so
the invariant `IInv` says what holds on the way: functions are numbered by
their places (`Numbered`), have names of their own (`Distinct`) and external
ones come first (`ExternsFirst`, for which `AddExtern` refuses to follow a
local function); the imports are then the external functions (`Imported`), the
function section has the local ones the pass has visited, in order
(`Compiled`), and so have the exports (`Exported`).  That the imports end
where the local functions begin is `ExternsAreFirst`: `Externs` counts the
functions before the first local one, a count that is shown to be a place by
comparing cardinalities.  `TypeIndexFinds` and `OrderListsTypes` make any order
of the interner's types good enough.  For globals `GlobalsInv` says what
index each one got, and that the global section has the names of the `IndexMap`
in order.  A global that is declared again keeps its place and gets a new index,
so `AccessesAreRight` is an equivalence, the gap included.

### Rewriting

`InstrRewriteProofs` assumes that bodies are sequences (`BodyAssumption`) and
that indices are unsigned (`RequestAssumption`). The sort of
`InstrRewritePass::new` is defined by the rank of each change (`Place`), so
that it can be shown to be a permutation in order without a recursion: ranks
of different changes differ, and a count of n ranks below n hits each
(`SortedIsSorted`). `ReplacesOnce` then carries over what the test for
overlaps established to the sorted list. For `PeepholeNeverFails`, `ScanInv`
says that the changes found lie one behind the other within the part scanned,
and `SpliceInv` that the changes still to be made lie in front of those made,
so that the body is as long there as it was when they were found.

What a block is after its changes is a flattened sequence of sequences, and
`FlattenSeq` is recursive.  The first part of the module describes it without
the recursion: a row of ends, of which the last is the result, and each is the
one before it with one sequence more; that there is only one such row is
shown with `LeastNumber`, as everywhere in place of an induction.  From this
come the lemmas about flattening a sequence that is cut in two, that has
another sequence in one place, or whose parts are changed one by one.

For `PeepholeIsTransparent`, `CallsInv` says that the changes found are those
of the calls that could be made direct, all of them (`AllFound`) and nothing
else (`MakesDirect`), before and during the splices, and that `Expanded` of
the block never changes: a splice takes out a load and a call through it, and
puts in a direct call, which `Expanded` writes out as these two.  A direct call
has no load in it, so no splice makes a new match.  For `SplicesAsAtOnce`,
`OnceInv` says that the changes go from the back to the front.  What
instruction n becomes (`Becomes`) then differs between the first k changes and
the first k + 1 only within the range of the change, whose instructions are
still where they were.  An insertion within that range, or one that was asked
for first where it starts, is the exception (`Overwritten`): it is in the
range when the range is replaced.

### Function builders

`FunctionsAsAsked` is about any number of handles, any menus of calls and logs
of any length.  Its invariant `ApiInv` says of every handle that it was never
used, that it was taken and the module has the function its log asks for, or
that its builder is `Built`: everything that `AskedFor` asks of a finished
function holds of the function this builder would finish, the current block is
the one of the last `switch` (`AtEnd`), and each `switch` was to a block there
is.  The last two are what the next call needs: an instruction goes to the
current block, and what a new block has in it so far is nothing, because no
switch can have named it.  One lemma per call (`LocalBuilt`, `BlockBuilt`,
`SwitchBuilt`, `InstrBuilt`) shows that one more entry in the log and one more
step of the builder go together; `Within` and `Before` count positions, so
each needs that a count below the new position is the length of what was
there.  `ROUND_all` checks `BuiltAsAsked` of `RoundTrip`, of which a step is one
of `ApiSpec` or leaves the variables of `CInterface` alone; `TextualIR` is
recursive, so that this last sentence is not itself proved.

### Static memory

The second part of `ClientProofs` assumes of types and values what
`TypesAssumption`, `ValuesAssumption` and `TypesOfValues` say: there may be
any number of them, nested as deep as one likes.  `alignment`, `size`, `type`
and `refs` are defined by recursion over them, and the first thing to show is
that there are such functions at all: `RecursionHasFunction` says so for any
domain with a measure, by `FollowersExist` (there is one below every depth)
and `FollowersAgree` (there is only one).  `StaysIn` is the induction over the
measure.  `StructLayout` is what the algorithm of `abi.rs` promises: fields
are aligned, one behind the other and inside of the struct; `FieldIsAligned`
adds that wherever a struct is aligned its fields are, because alignments are
powers of two and that of the struct is the greatest.

`LaidOut` says that the items placed are aligned, not null, one behind the
other, and end by `curr`; a step of `PlaceItem` is then a `Place` of
`Placement` (`PlacesItems`).  `Ordered` of `Placement` is not inductive alone:
that the new item is behind the last one must carry over to all others, which
takes that no item ends behind `End` (`Below`).

The writer's invariant is about places, a position with a value.  `Contents(D)`
says of a set D of places that the writer is through with: every item is in D
or still to be written (`Foreseen`), and so are the fields of everything in D,
at the offsets `GetFieldPtr` uses; all of these are inside of an item and
aligned; and a number or pointer in D has its bytes in the buffer, at a place
apart from everything still to be written, which no later write can spoil.
Nothing but such a D lets one say that a whole value has been written while
its fields are in a queue among others.  A step takes the first place of `todo`
into D: a struct with its fields put in its place (`StructWritten`), a
blob together with its bytes, which are fields to a program (`BlobWritten`), a
number or a pointer with its bytes (`ScalarWritten`, `PointerWritten`).
`MemoryInv` adds that the buffer is as long as was computed and zero outside
of the items (`WritesItemsOnly`).

When nothing is left to be written, D has all fields and all items, and
`WalkInv` says that the program is at a place of D: `GoToField` goes to a
field of it, and `Follow` to an item, if the pointer is read as it was written
(`BytesRoundTrip`).  This is where `FindsWhatWasWritten` and
`LooksWhereAligned` need their hypothesis that all addresses fit into 32 bits
(`Addressable`): the source truncates a larger one (`staticmem.rs:155`).
`PanicsForDanglingOnly` rests on `RefInv`: what is left to be written points to
items only if the items do.

### What is left to TLC

* Liveness: `EndsWithoutKnots`, `CompiledUnlessUnsupported`, `EveryTextIsDecided`.
* `ReadsBack` and `TakenForNoOther`: the printer and the rules of the parser in
  `TextualIR` are recursive operators over types and tokens.
* `TypeOK` and `InexactAtTheGapsOnly` of `Numerics`: its bitwise operators are
  recursive.

## Not modelled, and why

* Globals, externs and metadata as text: the parser has no rule for them.
* Names in a text are tokens without quotes in them: the printer puts a name
  between quotes as it is (`irprint.rs:109`, `197`), so that one with a quote in
  it is not read back.
* The twelve comparisons are two in the text; numbers in texts that do not fit
  their type, and characters no token begins with, do not occur.
* Of the C interface: the lookups of types, the creation and freeing of
  modules (wrappers without a state of their own), and a handle that is used
  after it was finished or freed, or an identifier that no builder answered
  as an operand: what is then in memory is not for the source to say.
* `intrinsic.rs` has two instructions nothing creates.
* Encoding into bytes is a library's.  Data larger than the initial memory
  would fail when the module is instantiated, which is outside of this
  library.
* Float arithmetic is WebAssembly's; in `Numerics` floats are integral, and the
  casts between floats and integers are left out.  Which operator a
  comparison has matters only to `Numerics`.
* Which types fit is left open in `Pipeline`: `Verifier` and `TypedEmission`
  settle it.

## Plan

Done, in this order: `IR`, `ControlFlow`, `CFVerifier` with its contract and
proofs, `Emitter`, `Verifier` with `TypedEmission`, `ModuleIndex`,
`InstrRewrite`, `Numerics`; then `Layout` and `StaticMemory` with `Placement`
and its proofs, `Metadata`, `VerifierContract` and `Pipeline`, and at last
`FunctionBuilder`, `CInterface`, `TextualIR` and `RoundTrip`; then the proofs of
`ModuleIndex`, of the distances and the contract of `CFVerifier`, of
`InstrRewrite`, of `Emitter` and `Pipeline`, of `Verifier` with
`TypedEmission`, of `CInterface`, and of `Layout` and `StaticMemory`.  Left:

1. Execution: code of `Emitter` run against a reference semantics of blocks,
   loops and breaks.
2. Theorems: that a text is read back, once the rules of `TextualIR` are
   functions on places in a text instead of recursive operators.
