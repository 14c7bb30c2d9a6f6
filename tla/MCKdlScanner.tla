----------------------------- MODULE MCKdlScanner -----------------------------
(***************************************************************************)
(* Documents of every length around the ends of the first buffers, with    *)
(* wide characters in every phase.                                         *)
(***************************************************************************)
EXTENDS KdlScanner

CONSTANT MaxLength   \* bound: the longest document

\* Characters of two bytes wherever the character's number is in wide.
Widths(n, wide) == FlattenSeq([i \in 1 .. n |-> IF i \in wide THEN <<2, 0>> ELSE <<1>>])

Every(m, k) == {i \in 1 .. MaxLength : i % m = k}

WellFormed ==
  { d \in { Widths(n, wide) : n \in 0 .. MaxLength,
                             wide \in {{}, Every(2, 0), Every(2, 1), Every(3, 0)} } :
      Len(d) <= MaxLength }

\* The last character is cut off, or lost its first byte.
Malformed ==
  { Append(Widths(n, {}), w) : n \in {0, BufferSize - 1, BufferSize, MaxLength - 1}, w \in {0, 2} }

MCDocuments == WellFormed \cup Malformed
=============================================================================
