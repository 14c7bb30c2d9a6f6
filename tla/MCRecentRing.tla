----------------------------- MODULE MCRecentRing -----------------------------
(***************************************************************************)
(* The ring fed with every short token stream, beside the stream itself.   *)
(***************************************************************************)
EXTENDS RecentRing

CONSTANTS Input,      \* the tokens fed
          MaxFed      \* bound: the length of the streams

\* A token the scanner returned has an id: only a slot never written has none.
ASSUME InputAssumption == Input \subseteq { t \in Token : Valid(t) }

VARIABLES ring,       \* recentTokens
          fed         \* history: every token added so far

vars == <<ring, fed>>

Init == ring = EmptyRing /\ fed = << >>

Add(t) ==
  /\ Len(fed) < MaxFed
  /\ ring' = RingAdd(ring, t)
  /\ fed' = Append(fed, t)

Next == \E t \in Input : Add(t)

Spec == Init /\ [][Next]_vars

-----------------------------------------------------------------------------
\* The last k elements of s, or all of s when it is shorter.
LastOf(s, k) == SubSeq(s, IF Len(s) > k THEN Len(s) - k + 1 ELSE 1, Len(s))

(***************************************************************************)
(* Get returns the tokens read last, oldest first, however often the ring  *)
(* has wrapped: what an error message quotes is the end of the input.      *)
(***************************************************************************)
GetIsTheLastTokens == RingGet(ring) = LastOf(fed, RecentCount)

(***************************************************************************)
(* The blank lines of a stream s before its last token: the newlines after *)
(* the last token that is neither newline nor whitespace, as far back as   *)
(* the ring reaches.  One that ends the line of the token before it is no  *)
(* blank line, unless it is the oldest of those the ring holds: what it    *)
(* ended is forgotten.  So is one that the document begins with, although  *)
(* it ends no line, while the ring is not full: a slot never written is    *)
(* neither blank nor a comment (recent.go:54).                             *)
(***************************************************************************)
InReach(s) == { i \in DOMAIN s : i < Len(s) /\ i > Len(s) - RecentCount }

EndsLine(s, i) ==
  i > Len(s) - RecentCount + 1 /\ (i = 1 \/ s[i - 1].id \notin Insignificant)

BlankLinesOf(s) ==
  { i \in InReach(s) :
      /\ s[i].id = "Newline"
      /\ \A j \in i .. Len(s) - 1 : s[j].id \in {"Newline", "Whitespace"}
      /\ EndsLine(s, i) => s[i].form = "wide" }

(***************************************************************************)
(* What TrailingNewlines gathers while it walks the ring are the blank     *)
(* lines of the stream, one byte each, however often the ring has wrapped. *)
(***************************************************************************)
TrailingNewlinesAreBlankLines ==
  TrailingNewlines(ring) = [k \in 1 .. Cardinality(BlankLinesOf(fed)) |-> "nl"]

-----------------------------------------------------------------------------
MCInput == {Tok("BareIdentifier"), Tok("SingleLineComment"), Tok("Whitespace"),
            Tok("Newline"), [id |-> "Newline", form |-> "wide"]}
=============================================================================
