-------------------------------- MODULE KdlChars --------------------------------
(***************************************************************************)
(* Characters and the classes the scanner sorts them into                  *)
(* (internal/tokenizer/ctype.go).  A text is a sequence of characters.  A  *)
(* character is a string: itself, or a name in <> for one that cannot be   *)
(* printed and for one that stands for its like.                           *)
(***************************************************************************)
EXTENDS Integers, SequencesExt, FiniteSetsExt

\* A byte that is not UTF-8, and U+FFFD, which the scanner takes for one.
Bad == "<bad>"

Digits == {"0", "1", "2", "3", "4", "5", "6", "7", "8", "9"}
Letters ==
  { "a", "b", "c", "d", "e", "f", "g", "h", "i", "j", "k", "l", "m", "n", "o", "p",
    "q", "r", "s", "t", "u", "v", "w", "x", "y", "z", "A", "B", "C", "D", "E", "F",
    "G", "I", "K", "M", "N", "P", "T", "<e9>", "<b5>" }
Marks ==
  { "{", "}", "<", ">", ";", "[", "]", "=", ",", "(", ")", "/", "\\", "\"", ":",
    "'", "#", "+", "-", ".", "_", "?", "*", "<7f>", "<other>" }

\* isWhiteSpace: tab and space; no-break space for the rest
WhiteSpace == {"\t", " ", "<a0>"}

\* isNewline
Newlines == {"\r", "\n", "<85>", "\f"}

LineSpace  == WhiteSpace \cup Newlines
Separators == LineSpace \cup {";"}
Signs      == {"+", "-"}

\* The other characters up to 0x20
Controls == {"<0>", "<1>", "<8>"}

NotASCII == {"<e9>", "<b5>", "<a0>", "<85>", "<other>"}

Char == Digits \cup Letters \cup Marks \cup LineSpace \cup Controls

-----------------------------------------------------------------------------
(* Bare identifiers; rf is a set of relaxed flags *)

RelaxedFlags == {"NGINXSyntax", "YAMLTOMLAssignments", "MultiplierSuffixes"}

Enclosing == {"(", ")", "/", "\\", "\""}

\* isBareIdentifierChar
BareIdentifierChars ==
  [ rf \in SUBSET RelaxedFlags |->
      Char \ (LineSpace \cup Controls
              \cup {"{", "}", "<", ">", ";", "[", "]", "=", ","}
              \cup (IF "NGINXSyntax" \in rf THEN {} ELSE Enclosing)
              \cup (IF "YAMLTOMLAssignments" \in rf THEN {":"} ELSE {})) ]

\* isBareIdentifierStartChar
BareIdentifierStartChars ==
  [rf \in SUBSET RelaxedFlags |-> BareIdentifierChars[rf] \ Digits]

\* A byte that is not UTF-8 is ranged over as U+FFFD, which the two functions
\* above let pass; the scanner refuses it before it asks them.
IsBareIdentifier(s, rf) ==
  /\ s # << >>
  /\ s[1] \in BareIdentifierStartChars[rf] \cup {Bad}
  /\ Range(s) \subseteq BareIdentifierChars[rf] \cup {Bad}

-----------------------------------------------------------------------------
(* Texts *)

\* What comes after the last character
TheEnd == "<end>"

At(s, i) == IF i \in DOMAIN s THEN s[i] ELSE TheEnd

\* The first position from i on whose character is not in set
RunEnd(s, i, set) == Min({j \in i .. Len(s) + 1 : At(s, j) \notin set})

Has(s, i, j, c) == \E k \in i .. j : At(s, k) = c

\* bytes.ReplaceAll(s, c, nothing)
Without(s, c) == FlattenSeq([k \in DOMAIN s |-> IF s[k] = c THEN << >> ELSE <<s[k]>>])

\* bytes.Trim
Trim(s, set) ==
  LET kept == {i \in DOMAIN s : s[i] \notin set}
  IN  IF kept = {} THEN << >> ELSE SubSeq(s, Min(kept), Max(kept))
=============================================================================
