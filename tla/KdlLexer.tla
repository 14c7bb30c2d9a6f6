-------------------------------- MODULE KdlLexer --------------------------------
(***************************************************************************)
(* Which text is which token: readNext and the recognisers of readtype.go, *)
(* as operators on the text s, the position i where the token starts, and  *)
(* the relaxed flags rf.  How the characters get into the buffer is        *)
(* KdlScanner's business.                                                  *)
(*                                                                         *)
(* A recogniser is given where it starts and returns the position after    *)
(* what it read, or None if it fails; readNext returns a token, or Failed, *)
(* or AtEof.  The io.EOF of a look-ahead is AtEof too, because the caller  *)
(* cannot tell it from the end of the text.                                *)
(***************************************************************************)
EXTENDS KdlChars

None == 0

Lexeme(id, end) == IF end = None THEN [id |-> "failed", end |-> None]
                   ELSE [id |-> id, end |-> end]
Failed == Lexeme("failed", None)
AtEof  == [id |-> "eof", end |-> None]

Text(s, i, l) == SubSeq(s, i, l.end - 1)

\* readWhile: at least min characters of the set
ReadWhile(s, i, set, min) ==
  LET end == RunEnd(s, i, set)
  IN  IF end = i \/ end - i < min \/ At(s, end) = Bad THEN None ELSE end

\* readWhitespace drops the error of readWhile.
ReadWhitespace(s, i) == RunEnd(s, i, WhiteSpace)

-----------------------------------------------------------------------------
(* Comments *)

\* readMultiLineComment, with the depth of nested comments
ReadMultiLineComment(s, i) ==
  LET from[j \in i .. Len(s) + 2] ==
        [ depth \in Int |->
            CASE At(s, j) \in {TheEnd, Bad} -> None
              [] At(s, j) = "*" /\ At(s, j + 1) = "/" ->
                   IF depth = 1 THEN j + 2 ELSE from[j + 2][depth - 1]
              [] At(s, j) = "/" /\ At(s, j + 1) = "*" -> from[j + 2][depth + 1]
              [] OTHER -> from[j + 1][depth] ]
  IN  from[i][0]

\* readSingleLineComment: the newline is not part of it.
ReadSingleLineComment(s, i) ==
  LET end == RunEnd(s, i, Char \ Newlines)
  IN  IF At(s, end) = Bad THEN None ELSE end

-----------------------------------------------------------------------------
(* Strings and identifiers *)

Hashes(n) == [k \in 1 .. n |-> "#"]

\* readRawString: up to the first quote that has as many hashes as the opening
ReadRawString(s, i) ==
  LET open   == RunEnd(s, i + 1, {"#"})
      mark   == <<"\"">> \o Hashes(open - i - 1)
      closes == {j \in open + 1 .. Len(s) - Len(mark) + 1 :
                   SubSeq(s, j, j + Len(mark) - 1) = mark}
      end    == Min(closes) + Len(mark)
  IN  IF At(s, open) # "\"" \/ closes = {} THEN None
      ELSE IF Has(s, i, end - 1, Bad) THEN None ELSE end

\* readQuotedStringQ: up to the first quote that is not escaped, or all there is
ReadQuotedString(s, i, q) ==
  LET escaped(j) == (j - Max({k \in i .. j - 1 : s[k] # "\\"})) % 2 = 0
      closes == {j \in i + 1 .. Len(s) : s[j] = q /\ ~escaped(j)}
      end    == IF closes = {} THEN Len(s) + 1 ELSE Min(closes) + 1
  IN  IF end - i < 2 \/ Has(s, i, end, Bad) THEN None ELSE end

Keyword(word) ==
  CASE word \in {<<"t", "r", "u", "e">>, <<"f", "a", "l", "s", "e">>} -> "Boolean"
    [] word = <<"n", "u", "l", "l">> -> "Null"
    [] OTHER -> "BareIdentifier"

\* readBareIdentifier
ReadBareIdentifier(s, i, rf) ==
  LET starts == IF At(s, i) \in Signs
                THEN At(s, i + 1) \notin Digits \cup {TheEnd, Bad}
                ELSE At(s, i) \in BareIdentifierStartChars[rf]
      end    == ReadWhile(s, i, BareIdentifierChars[rf], 1)
  IN  IF ~starts \/ end = None THEN Failed
      ELSE Lexeme(Keyword(SubSeq(s, i, end - 1)), end)

Refused ==
  [ rf \in SUBSET RelaxedFlags |->
      {"{", "}", "<", ">", ";", "[", "]", "=", ","} \cup Controls \cup LineSpace
      \cup IF "NGINXSyntax" \in rf THEN {} ELSE {"\\", "(", ")", ".", "_", "?", "/"} ]

\* readIdentifier
ReadIdentifier(s, i, rf) ==
  LET c == At(s, i)  next == At(s, i + 1)
  IN  CASE c = "r" /\ next \in {"#", "\""} -> Lexeme("RawString", ReadRawString(s, i))
        [] c = "\"" -> Lexeme("QuotedString", ReadQuotedString(s, i, "\""))
        [] c = "'" /\ "NGINXSyntax" \in rf ->
             Lexeme("QuotedString", ReadQuotedString(s, i, "'"))
        [] c \in Refused[rf] -> Failed
        [] OTHER -> ReadBareIdentifier(s, i, rf)

-----------------------------------------------------------------------------
(* Numbers *)

\* Mutant of SuffixChars: exabytes.
SuffixCharsToExa == {"h", "m", "s", "u", "<b5>", "k", "K", "M", "g", "G", "t", "T", "b", "e"}
SuffixChars == {"h", "m", "s", "u", "<b5>", "k", "K", "M", "g", "G", "t", "T", "b"}

\* readInteger: MultiplierSuffixes lets letters in, and a sign, after which
\* there are no letters.
ReadInteger(s, i, rf) ==
  LET suffixes == "MultiplierSuffixes" \in rf
      signed   == suffixes /\ At(s, i) \in Signs
      letters  == IF suffixes /\ ~signed THEN SuffixChars ELSE {}
      first    == IF signed THEN i + 1 ELSE i
      end      == RunEnd(s, first, Digits \cup {"_"} \cup letters)
  IN  IF end = i \/ At(s, end) = Bad \/ (~suffixes /\ At(s, i) = "_") THEN Failed
      ELSE Lexeme(IF Range(SubSeq(s, i, end - 1)) \cap letters # {}
                  THEN "SuffixedDecimal" ELSE "Decimal", end)

\* readSignedInteger
ReadSignedInteger(s, i, rf) ==
  CASE At(s, i) = TheEnd -> AtEof
    [] At(s, i) = Bad -> Failed
    [] At(s, i) \in Signs -> ReadInteger(s, i + 1, rf)
    [] OTHER -> ReadInteger(s, i, rf)

\* readDecimal: the sign and the integer, the fraction, the exponent; then the
\* check of what comes next
ReadFraction(s, l, rf) ==
  IF l.end # None /\ At(s, l.end) = "." THEN ReadInteger(s, l.end + 1, rf) ELSE l

ReadExponent(s, l, rf) ==
  IF l.end # None /\ At(s, l.end) \in {"e", "E"}
  THEN LET exponent == ReadSignedInteger(s, l.end + 1, rf)
       IN  IF exponent.end = None THEN exponent ELSE [l EXCEPT !.end = exponent.end]
  ELSE l

ReadDecimal(s, i, rf) ==
  LET l     == ReadExponent(s, ReadFraction(s, ReadSignedInteger(s, i, rf), rf), rf)
      after == At(s, l.end)
  IN  IF l.end = None \/ after \in Separators \cup {TheEnd, Bad} THEN l
      ELSE IF "NGINXSyntax" \in rf /\ after \in BareIdentifierChars[rf]
      THEN Lexeme("BareIdentifier", ReadWhile(s, l.end, BareIdentifierChars[rf], 1))
      ELSE Failed

DigitsOf(base) ==
  CASE base = "x" -> Digits \cup {"a", "b", "c", "d", "e", "f", "A", "B", "C", "D", "E", "F"}
    [] base = "o" -> Digits \ {"8", "9"}
    [] base = "b" -> {"0", "1"}

BaseId(base) == CASE base = "x" -> "Hexadecimal" [] base = "o" -> "Octal" [] base = "b" -> "Binary"

\* readHexadecimal, readOctal, readBinary: the 0 and the letter are read
\* already; space must follow.
ReadNumericBase(s, i) ==
  LET base == s[i + 1]
      end  == RunEnd(s, i + 2, DigitsOf(base) \cup {"_"})
  IN  IF end = i + 2 \/ s[i + 2] = "_" \/ At(s, end) \notin LineSpace \cup {TheEnd}
      THEN Failed ELSE Lexeme(BaseId(base), end)

-----------------------------------------------------------------------------
(* readNext *)

Marked == [ c \in {"{", "}", "=", ";", "(", ")", "\\"} |->
              CASE c = "{" -> "BraceOpen" [] c = "}" -> "BraceClose" [] c = "=" -> "Equals"
                [] c = ";" -> "Semicolon" [] c = "(" -> "ParensOpen" [] c = ")" -> "ParensClose"
                [] c = "\\" -> "Continuation" ]

Punctuation(rf) == IF "NGINXSyntax" \in rf THEN {"{", "}", "=", ";"} ELSE DOMAIN Marked

ReadSlash(s, i, rf) ==
  CASE At(s, i + 1) = "*" -> Lexeme("MultiLineComment", ReadMultiLineComment(s, i))
    [] At(s, i + 1) = "/" -> Lexeme("SingleLineComment", ReadSingleLineComment(s, i))
    [] At(s, i + 1) = "-" -> Lexeme("TokenComment", i + 2)
    [] At(s, i + 1) = TheEnd -> AtEof
    [] At(s, i + 1) = Bad -> Failed
    [] OTHER -> IF "NGINXSyntax" \in rf THEN ReadIdentifier(s, i, rf) ELSE Failed

\* A sign and a 0: what follows decides.
ReadAfterLook(s, i, rf) ==
  LET next == At(s, i + 1)
  IN  CASE next = TheEnd -> AtEof
        [] next = Bad -> Failed
        [] s[i] = "0" /\ next \in {"x", "o", "b"} -> ReadNumericBase(s, i)
        [] s[i] \in Signs /\ next \notin Digits -> ReadIdentifier(s, i, rf)
        [] OTHER -> ReadDecimal(s, i, rf)

\* Mutant of ReadColon: it is not skipped.
ReadColonUnskipped(i) == Lexeme("Whitespace", i)
ReadColon(i) == Lexeme("Whitespace", i + 1)

ReadNext(s, i, rf) ==
  LET c == At(s, i)
  IN  CASE c = TheEnd -> AtEof
        [] c = Bad -> Failed
        [] c \in WhiteSpace -> Lexeme("Whitespace", ReadWhitespace(s, i))
        [] c \in Newlines ->
             Lexeme("Newline", IF c = "\r" /\ At(s, i + 1) = "\n" THEN i + 2 ELSE i + 1)
        [] c = "/" -> ReadSlash(s, i, rf)
        [] c \in Punctuation(rf) -> Lexeme(Marked[c], i + 1)
        [] c \in Signs \cup {"0"} -> ReadAfterLook(s, i, rf)
        [] c \in Digits \ {"0"} -> ReadDecimal(s, i, rf)
        [] c = "#" /\ "NGINXSyntax" \in rf ->
             Lexeme("SingleLineComment", ReadSingleLineComment(s, i))
        [] c = ":" /\ "YAMLTOMLAssignments" \in rf -> ReadColon(i)
        [] OTHER -> ReadIdentifier(s, i, rf)

-----------------------------------------------------------------------------
(* What a writer should know of it *)

\* A word that is not read as a word
Misread(s, rf) ==
  /\ IsBareIdentifier(s, {})
  /\ \/ Keyword(s) # "BareIdentifier"
     \/ s[1] \in {".", "_", "?"}
     \/ Len(s) > 1 /\ s[1] \in Signs /\ s[2] \in Digits
     \/ Len(s) > 1 /\ s[1] = "r" /\ s[2] = "#"
     \/ ":" \in Range(s) /\ "YAMLTOMLAssignments" \in rf
     \/ Bad \in Range(s)
================================================================================
