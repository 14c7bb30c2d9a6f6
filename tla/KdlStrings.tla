------------------------------- MODULE KdlStrings -------------------------------
(***************************************************************************)
(* How strings are quoted and unquoted (document/strings.go).              *)
(***************************************************************************)
EXTENDS KdlChars

-----------------------------------------------------------------------------
(* Numerals: a digit is its place in Numerals. *)

Numerals == <<"0", "1", "2", "3", "4", "5", "6", "7", "8", "9", "a", "b", "c", "d", "e", "f">>
Capitals == <<"A", "B", "C", "D", "E", "F">>

\* hexTable: 0 for anything that is not a digit
HexDigit(c) ==
  CASE c \in Range(Numerals) -> (CHOOSE i \in DOMAIN Numerals : Numerals[i] = c) - 1
    [] c \in Range(Capitals) -> (CHOOSE i \in DOMAIN Capitals : Capitals[i] = c) + 9
    [] OTHER -> 0

\* The number that digits say, and the digits of a number
NumberOf(digits, base) ==
  LET upto[k \in 0 .. Len(digits)] ==
        IF k = 0 THEN 0 ELSE upto[k - 1] * base + HexDigit(digits[k])
  IN  upto[Len(digits)]

Numeral(number, base) ==
  LET of[n \in 0 .. number] ==
        IF n < base THEN <<Numerals[n + 1]>>
        ELSE Append(of[n \div base], Numerals[(n % base) + 1])
  IN  of[number]

\* The code points of the characters that stand for themselves alone
Codes == [ c \in {"<0>", "<1>", "<8>", "\t", "\n", "\f", "\r", " ", "A", "<7f>"} |->
             CASE c = "<0>" -> 0   [] c = "<1>" -> 1   [] c = "<8>" -> 8   [] c = "\t" -> 9
               [] c = "\n" -> 10   [] c = "\f" -> 12   [] c = "\r" -> 13   [] c = " " -> 32
               [] c = "A" -> 65    [] c = "<7f>" -> 127 ]

\* utf8.AppendRune has U+FFFD for a surrogate.
Surrogates == 55296 .. 57343
Rune(code) == IF code \in Surrogates \cup {65533} THEN Bad
              ELSE IF \E c \in DOMAIN Codes : Codes[c] = code
              THEN CHOOSE c \in DOMAIN Codes : Codes[c] = code ELSE "<other>"

-----------------------------------------------------------------------------
(* AppendQuotedString *)

Escapes == [ c \in {"\n", "\r", "\t", "<8>", "\f"} |->
               CASE c = "\n" -> "n" [] c = "\r" -> "r" [] c = "\t" -> "t"
                 [] c = "<8>" -> "b" [] c = "\f" -> "f" ]

\* What stands for a byte that is not UTF-8
Replacement == <<"\\", "u", "f", "f", "f", "d">>

\* Mutant of Escaped: backslashes are left alone.
EscapedQuotesOnly(c) ==
  CASE c = "\"" -> <<"\\", c>>
    [] c \in DOMAIN Escapes -> <<"\\", Escapes[c]>>
    [] c \in {"<0>", "<1>", "<7f>"} -> <<"\\", "u">> \o Numeral(Codes[c], 16)
    [] c = Bad -> Replacement
    [] OTHER -> <<c>>

\* What is not printable ASCII is escaped, except that the rest of Unicode is
\* left as it is; the number of an escape is not put in braces.
Escaped(c) ==
  CASE c \in {"\"", "\\"} -> <<"\\", c>>
    [] c \in DOMAIN Escapes -> <<"\\", Escapes[c]>>
    [] c \in {"<0>", "<1>", "<7f>"} -> <<"\\", "u">> \o Numeral(Codes[c], 16)
    [] c = Bad -> Replacement
    [] OTHER -> <<c>>

QuotedString(s) == <<"\"">> \o FlattenSeq([i \in DOMAIN s |-> Escaped(s[i])]) \o <<"\"">>

-----------------------------------------------------------------------------
(* AppendUnquotedString *)

Invalid == [ok |-> FALSE, text |-> << >>]
Valued(text) == [ok |-> TRUE, text |-> text]
Preceded(text, r) == IF r.ok THEN Valued(text \o r.text) ELSE Invalid

\* \u{...} with its u at position i of t: where it ends and what it is
UnicodeEscape(t, i) ==
  LET closes == {k \in i + 2 .. Len(t) : t[k] = "}"}
      digits == SubSeq(t, i + 2, Min(closes) - 1)
  IN  IF i + 3 > Len(t) \/ At(t, i + 1) # "{" \/ closes = {} THEN [end |-> 0, rune |-> Bad]
      ELSE IF Len(digits) > 6 \/ NumberOf(digits, 16) > 1114111 THEN [end |-> 0, rune |-> Bad]
      ELSE [end |-> Min(closes) + 1, rune |-> Rune(NumberOf(digits, 16))]

\* An escaped character that is not ASCII loses its first byte to the escape.
Unescaped(t) ==
  LET from[i \in 1 .. Len(t) + 2] ==
        IF i > Len(t) THEN Valued(<< >>)
        ELSE IF t[i] = Bad THEN Preceded(Replacement, from[i + 1])
        ELSE IF t[i] # "\\" THEN Preceded(<<t[i]>>, from[i + 1])
        ELSE IF i = Len(t) THEN Invalid
        ELSE CASE t[i + 1] \in Range(Escapes) ->
                    Preceded(<<CHOOSE c \in DOMAIN Escapes : Escapes[c] = t[i + 1]>>, from[i + 2])
               [] t[i + 1] = "u" -> LET u == UnicodeEscape(t, i + 1)
                                    IN  IF u.end = 0 THEN Invalid
                                        ELSE Preceded(<<u.rune>>, from[u.end])
               [] t[i + 1] \in NotASCII -> Preceded(<<Bad>> \o Replacement, from[i + 2])
               [] OTHER -> Preceded(<<t[i + 1]>>, from[i + 2])
  IN  from[1]

\* UnquoteString: the last character is looked at, escaped or not.
UnquoteString(s) ==
  IF s = << >> THEN Valued(<< >>)
  ELSE IF s[1] \notin {"\"", "'"} \/ Len(s) < 2 \/ Last(s) # s[1] THEN Invalid
  ELSE Unescaped(SubSeq(s, 2, Len(s) - 1))

\* A string whose quoted form cannot be unquoted
Unquotable(s) == Range(s) \cap {"<0>", "<1>", "<7f>", Bad} # {}

-----------------------------------------------------------------------------
(* Raw strings *)

Within(s, t) == \E i \in 1 .. Len(s) - Len(t) + 1 : SubSeq(s, i, i + Len(t) - 1) = t

\* AppendRawString: the fewest hashes that leave no early end in the string
RawString(s) ==
  LET hashes(n) == [k \in 1 .. n |-> "#"]
      n == Min({k \in 0 .. Len(s) + 1 : ~Within(s, <<"\"">> \o hashes(k))})
  IN  <<"r">> \o hashes(n) \o <<"\"">> \o s \o <<"\"">> \o hashes(n)

\* parseRawString: by the offset of the opening quote
UnquoteRaw(s) ==
  LET p == Min({i \in DOMAIN s : s[i] = "\""})
  IN  SubSeq(s, p + 1, Len(s) - p + 1)
=============================================================================
