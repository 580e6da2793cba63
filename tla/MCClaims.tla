------------------------------ MODULE MCClaims ------------------------------
(***************************************************************************)
(* What the tests of swarm-ir ask of every program that is compiled, with  *)
(* the smallest functions for which the code does something else.          *)
(***************************************************************************)
EXTENDS MCTyped

Simple(ts, code_, results) == OneBlock(ts, code_, results, results)

\* What the verifier and the emitter let through is valid WebAssembly.
\* build.rs:63 validates what every test is compiled to, which must not fail
\* with "Invalid WASM produced by IR compilation".
ValidOutput == code # "invalid"

\* A value is left in the block, or is missing.
LeftoverValue == { Simple(<< Int32 >>, << >>, << >>), Simple(<< >>, << >>, << Int32 >>) }

\* A call of a function with parameters of two types.
ReversedCall == { Simple(<< a, b >>, << OpNamed("CallDirect", "mixed") >>, << Float32 >>) :
                    a, b \in {Int32, Float32} }

\* A return of two values.
TwoResults == { Simple(<< a, b >>, << Op("Return") >>, << Int32, Int32 >>) :
                  a, b \in {Int32, Float32} }

Claims == LeftoverValue \cup ReversedCall \cup TwoResults
=============================================================================
