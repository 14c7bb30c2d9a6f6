------------------------------ MODULE RecentRing ------------------------------
(***************************************************************************)
(* recentTokens (internal/parser/recent.go): the parser's window on the    *)
(* tokens it read last, a ring of RecentCount slots that is overwritten in *)
(* place.  Newlines in the window become blank lines of a comment.         *)
(***************************************************************************)
EXTENDS KdlTokens, Integers, SequencesExt

\* recentTokensCount; the source has 5.
CONSTANT RecentCount

ASSUME RecentCountAssumption == RecentCount \in Nat \ {0}

Slots == 0 .. RecentCount - 1

Ring == [tokens : [Slots -> Token], head : Slots]

EmptyRing == [tokens |-> [n \in Slots |-> NoToken], head |-> 0]

\* Mutant of RingAdd: write the slot, then advance.
RingAddThenAdvance(r, t) ==
  [tokens |-> [r.tokens EXCEPT ![r.head] = t], head |-> (r.head + 1) % RecentCount]

RingAdd(r, t) ==
  LET head == (r.head + 1) % RecentCount
  IN  [tokens |-> [r.tokens EXCEPT ![head] = t], head |-> head]

\* The slots from the oldest to the newest.
FromOldest(r) == [i \in 1..RecentCount |-> r.tokens[(r.head + i) % RecentCount]]

\* Get: what consec holds after i slots is consec[i].
RingGet(r) ==
  LET w == FromOldest(r)
      consec[i \in 0 .. RecentCount] ==
        IF i = 0 THEN << >>
        ELSE IF Valid(w[i]) THEN Append(consec[i - 1], w[i])
        ELSE consec[i - 1]
  IN  consec[RecentCount]

Insignificant == {"Newline", "Whitespace", "SingleLineComment", "MultiLineComment"}

(***************************************************************************)
(* TrailingNewlines walks every slot but the newest, which holds the token *)
(* being handled.  A newline right after a significant token ended that    *)
(* token's line, so its first byte is not part of a blank line: all that   *)
(* is left is the \n of a \r\n.  (The \r of a whole \r\n is left out.)    *)
(***************************************************************************)
WalkToken(seen, t) ==
  LET blank == IF seen.significant /\ t.form # "wide" THEN << >> ELSE <<"nl">>
  IN  [white |-> CASE t.id = "Newline" -> seen.white \o blank
                   [] t.id = "Whitespace" -> seen.white
                   [] OTHER -> << >>,
       significant |-> t.id \notin Insignificant]

WalkFrom == [white |-> << >>, significant |-> FALSE]

\* What the walk has gathered from the n oldest slots.
WalkedWhite(r, n) ==
  LET w == FromOldest(r)
      seen[i \in 0 .. n] == IF i = 0 THEN WalkFrom ELSE WalkToken(seen[i - 1], w[i])
  IN  seen[n].white

\* Mutant of TrailingNewlines: walk the newest slot as well.
TrailingNewlinesAndNewest(r) == WalkedWhite(r, RecentCount)

TrailingNewlines(r) == WalkedWhite(r, RecentCount - 1)

(***************************************************************************)
(* The same bytes by their purpose: one per newline between the newest     *)
(* token and the last one before it that is neither newline nor            *)
(* whitespace.  The parser's model uses this form, which needs no walk.    *)
(***************************************************************************)
BlankLines(r) ==
  LET w == FromOldest(r)
      blank == { i \in 1 .. RecentCount - 1 :
                   /\ w[i].id = "Newline"
                   /\ \A j \in i .. RecentCount - 1 : w[j].id \in {"Newline", "Whitespace"}
                   /\ i > 1 /\ w[i - 1].id \notin Insignificant => w[i].form = "wide" }
  IN  [k \in 1 .. Cardinality(blank) |-> "nl"]
=============================================================================
