----------------------------- MODULE MCNumerics -----------------------------
(* Words of six bits, with types of three and of two bits. *)
EXTENDS Numerics

\* All of the words as integers, and what is next to them.
MCFloats == -34 .. 66

\* Page counts that fit into small types, do not, and a failure.
MCPages == {-1, 0, 1, 4, 8, 33}
=============================================================================
