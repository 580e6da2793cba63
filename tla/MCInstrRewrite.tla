--------------------------- MODULE MCInstrRewrite ---------------------------
(* Blocks of up to four instructions, and up to three changes of them. *)
EXTENDS InstrRewrite

Some == { OpNamed("LdGlobalFunc", "f"), OpNamed("LdGlobalFunc", "g"), Op("CallIndirect"),
          OpNamed("CallDirect", "g"), Op("Discard") }

MCBodies == UNION { [1 .. n -> Some] : n \in 0 .. 4 }

\* Different replacements, of different lengths.
New1 == << >>
New2 == << Op("MemorySize") >>
New3 == << Op("Fail"), Op("Not") >>
New4 == << Op("Return") >>

Ranges == { r \in (0 .. 4) \X (0 .. 5) : r[1] < r[2] }
ShortRanges == { r \in Ranges : r[2] - r[1] <= 2 }

Body == << Op("Discard"), Op("CallIndirect"), Op("Discard"), Op("CallIndirect") >>

Request(cs) == [body |-> Body, changes |-> cs]

\* Changes of three ranges, which may overlap or go past the end; of a range
\* and an insertion anywhere, as in the test of the pass, in either order; of
\* two insertions at any two places and a range behind or before them; and of
\* a range that ends before it starts.
MCRequests ==
  { Request(<< Change(r[1], r[2], New3), Change(s[1], s[2], New1), Change(t[1], t[2], New2) >>) :
      r, s, t \in ShortRanges }
  \cup { Request(<< Change(r[1], r[2], New3), Change(n, n, New2) >>) : r \in Ranges, n \in 0 .. 5 }
  \cup { Request(<< Change(n, n, New2), Change(r[1], r[2], New3) >>) : r \in Ranges, n \in 0 .. 5 }
  \cup { Request(<< Change(m, m, New4), Change(r[1], r[2], New3), Change(n, n, New2) >>) :
           m, n \in 0 .. 4, r \in ShortRanges }
  \cup { Request(<< Change(3, 1, New1) >>) }
=============================================================================
