-------------------------------- MODULE KdlValues --------------------------------
(***************************************************************************)
(* Values, from their tokens and to their text (document/value.go and      *)
(* suffixeddec.go).                                                        *)
(*                                                                         *)
(* Abstractions.  A number is m * 10^e, m not a multiple of ten: floats    *)
(* are decimals here and differ from the source's in their range, not in   *)
(* their precision.  The ranges are constants, the source's being those of *)
(* int64 and float64.                                                      *)
(***************************************************************************)
EXTENDS KdlStrings

CONSTANTS
  MaxInt,     \* the largest int64
  MaxTens     \* a float64 is 0 or has between -MaxTens and MaxTens zeros

ASSUME MaxIntAssumption == MaxInt \in Nat \ {0}
ASSUME MaxTensAssumption == MaxTens \in Nat /\ MaxTens > 9

Flags == {"none", "raw", "quoted", "binary", "octal", "hexadecimal", "bareSuffixed"}

String == Seq(Char \cup {Bad})

\* text is the string's, the bool's and, before its suffix, the suffixed number's.
Kinds == {"null", "bool", "string", "suffixed", "int", "bigint", "float", "bigfloat", "error"}
Values == [kind : Kinds, text : String, suffix : String, m : Int, e : Int,
           flag : Flags, type : String]

Value == [kind |-> "null", text |-> << >>, suffix |-> << >>, m |-> 0, e |-> 0,
          flag |-> "none", type |-> << >>]

TextValue(kind, text) == [Value EXCEPT !.kind = kind, !.text = text]

\* The first position of one of the characters, or the position after the end
Index(s, set) == RunEnd(s, 1, (Char \cup {Bad}) \ set)

Tens(n) == [k \in 1 .. Max({n, 0}) |-> "0"]

-----------------------------------------------------------------------------
(* parseNumber *)

Unsigned(b) == IF b # << >> /\ b[1] \in Signs THEN Tail(b) ELSE b
SignOf(b)   == IF b # << >> /\ b[1] = "-" THEN -1 ELSE 1

IsInteger(b, base) ==
  /\ Unsigned(b) # << >>
  /\ Range(Unsigned(b)) \subseteq {c \in Range(Numerals) \cup Range(Capitals) : HexDigit(c) < base}

Mantissa(b) == SubSeq(b, 1, Index(b, {"e", "E"}) - 1)
Exponent(b) == SubSeq(b, Index(b, {"e", "E"}) + 1, Len(b))
Whole(b)    == SubSeq(Mantissa(b), 1, Index(Mantissa(b), {"."}) - 1)
Fraction(b) == SubSeq(Mantissa(b), Index(Mantissa(b), {"."}) + 1, Len(Mantissa(b)))

\* strconv's syntax of a decimal float
IsFloat(b) ==
  /\ Unsigned(Whole(b)) \o Fraction(b) # << >>
  /\ Range(Unsigned(Whole(b)) \o Fraction(b)) \subseteq Digits
  /\ Index(b, {"e", "E"}) > Len(b) \/ IsInteger(Exponent(b), 10)

Decimal(digits, sign, e) ==
  LET kept == SubSeq(digits, 1, Max({0} \cup {i \in DOMAIN digits : digits[i] # "0"}))
  IN  IF kept = << >> THEN [m |-> 0, e |-> 0]
      ELSE [m |-> sign * NumberOf(kept, 10), e |-> e + Len(digits) - Len(kept)]

FloatOf(b) ==
  LET x == IF Exponent(b) = << >> THEN 0
           ELSE SignOf(Exponent(b)) * NumberOf(Unsigned(Exponent(b)), 10)
  IN  Decimal(Unsigned(Whole(b)) \o Fraction(b), SignOf(b), x - Len(Fraction(b)))

\* The power of ten of the first digit
Magnitude(d) == d.e + Len(Numeral(IF d.m < 0 THEN -d.m ELSE d.m, 10)) - 1

\* isNonzeroSciNot: a sign counts as a digit that is not 0.
IsNonzeroSciNot(b) ==
  /\ Index(b, {"e", "E"}) <= Len(b)
  /\ Trim(Mantissa(b), {"0"}) \notin {<< >>, <<".">>}

\* A float too large for float64 becomes a big.Float; one too small, only if it
\* is written with an exponent, and 0 otherwise.
ParseFloat(b) ==
  LET d     == FloatOf(b)
      tiny  == d.m # 0 /\ Magnitude(d) < -MaxTens
      big   == [Value EXCEPT !.kind = "bigfloat", !.m = d.m, !.e = d.e]
  IN  IF Magnitude(d) > MaxTens \/ ((tiny \/ d.m = 0) /\ IsNonzeroSciNot(b)) THEN big
      ELSE IF tiny THEN [Value EXCEPT !.kind = "float"]
      ELSE [big EXCEPT !.kind = "float"]

ParseInt(b, base) ==
  LET n    == SignOf(b) * NumberOf(Unsigned(b), base)
      fits == n <= MaxInt /\ n >= -MaxInt - 1
  IN  [Value EXCEPT !.kind = IF fits THEN "int" ELSE "bigint", !.m = n]

NotAValue == [Value EXCEPT !.kind = "error"]

ParseNumber(data, base) ==
  LET b     == Without(IF base = 10 THEN data ELSE SubSeq(data, 3, Len(data)), "_")
      float == base = 10 /\ Range(b) \cap {".", "e", "E"} # {}
  IN  CASE float /\ IsFloat(b) -> ParseFloat(b)
        [] ~float /\ IsInteger(b, base) -> ParseInt(b, base)
        [] OTHER -> NotAValue

-----------------------------------------------------------------------------
(* ParseSuffixedDecimal: the letters of a duration make all of it a suffix. *)

DurationLetters == {"h", "s", "u"}
SizeLetters == {"k", "K", "m", "M", "g", "G", "t", "T", "p", "P", "b", "B"}

ParseSuffixedDecimal(b) ==
  LET letters  == {i \in DOMAIN b : b[i] \in DurationLetters \cup SizeLetters}
      first    == Min(letters)
      duration == \E i \in letters : b[i] \in DurationLetters \/ (i > first /\ b[i] # "b")
      number   == IF letters = {} THEN b ELSE SubSeq(b, 1, first - 1)
      result   == [Value EXCEPT !.kind = "suffixed"]
  IN  IF ~(Range(b) \subseteq Digits \cup {"."} \cup DurationLetters \cup SizeLetters)
         \/ (letters # {} /\ first = 1)
      THEN NotAValue
      ELSE IF letters # {} /\ duration THEN [result EXCEPT !.suffix = b]
      ELSE [result EXCEPT !.text = number, !.suffix = SubSeq(b, Len(number) + 1, Len(b))]

-----------------------------------------------------------------------------
(* ValueFromToken *)

Flagged(v, flag) == IF v = NotAValue THEN v ELSE [v EXCEPT !.flag = flag]

ValueFromToken(id, data) ==
  CASE id = "QuotedString" ->
         LET r == UnquoteString(data)
         IN  IF r.ok THEN Flagged(TextValue("string", r.text), "quoted") ELSE NotAValue
    [] id = "RawString" -> Flagged(TextValue("string", UnquoteRaw(data)), "raw")
    [] id = "BareIdentifier" -> TextValue("string", data)
    [] id = "Decimal" -> ParseNumber(data, 10)
    [] id = "Binary" -> Flagged(ParseNumber(data, 2), "binary")
    [] id = "Octal" -> Flagged(ParseNumber(data, 8), "octal")
    [] id = "Hexadecimal" -> Flagged(ParseNumber(data, 16), "hexadecimal")
    [] id = "SuffixedDecimal" -> ParseSuffixedDecimal(data)
    [] id = "Boolean" -> TextValue("bool", data)
    [] OTHER -> Value

-----------------------------------------------------------------------------
(* Value.value: the text of a value.  An option is a member of opts. *)

Renderings ==
  [ String            |-> {"strictStringFlags", "useNumericFlags"},
    FormattedString   |-> {"noBare", "useNumericFlags"},
    UnformattedString |-> {"noBare"},
    NodeNameString    |-> {"simpleString"},
    ValueString       |-> {"noQuotes", "useNumericFlags"} ]

Bases == [binary |-> 2, octal |-> 8, hexadecimal |-> 16]
BasePrefix == [binary |-> <<"0", "b">>, octal |-> <<"0", "o">>, hexadecimal |-> <<"0", "x">>]

Based(v, opts) == "useNumericFlags" \in opts /\ v.flag \in DOMAIN Bases

Signed(v, text) == IF v.m < 0 THEN <<"-">> \o text ELSE text
Positive(v) == IF v.m < 0 THEN -v.m ELSE v.m

\* strconv.AppendInt after the prefix, which a negative number has before its sign
IntText(v, opts) ==
  IF Based(v, opts)
  THEN BasePrefix[v.flag] \o Signed(v, Numeral(Positive(v), Bases[v.flag]))
  ELSE Signed(v, Numeral(Positive(v), 10))

\* big.Int.Append: the base and no prefix
BigIntText(v, opts) ==
  Signed(v, Numeral(Positive(v), IF Based(v, opts) THEN Bases[v.flag] ELSE 10))

\* The formats 'f' and 'E' of strconv, with as many digits as there are
PlainText(v) ==
  LET digits == Numeral(Positive(v), 10) \o Tens(v.e)
      padded == Tens(1 - v.e - Len(digits)) \o digits
      point  == Len(padded) + v.e
  IN  IF v.e >= 0 THEN Signed(v, digits \o <<".", "0">>)
      ELSE Signed(v, SubSeq(padded, 1, point) \o <<".">> \o SubSeq(padded, point + 1, Len(padded)))

ScientificText(v) ==
  LET digits == Numeral(Positive(v), 10)
      x      == Magnitude(v)
      power  == Numeral(IF x < 0 THEN -x ELSE x, 10)
  IN  Signed(v, <<digits[1]>> \o (IF Len(digits) > 1 THEN <<".">> \o Tail(digits) ELSE << >>)
                \o <<"E", IF x < 0 THEN "-" ELSE "+">> \o Tens(2 - Len(power)) \o power)

\* |log10 x| > 9
FarFromOne(v) == Magnitude(v) > 9 \/ Magnitude(v) < -9 \/ (Magnitude(v) = 9 /\ Positive(v) # 1)

FloatText(v) == IF v.m # 0 /\ FarFromOne(v) THEN ScientificText(v) ELSE PlainText(v)

\* A big.Float is far from one, or is 0 with six digits.
BigFloatText(v) == IF v.m = 0 THEN <<"0", ".">> \o Tens(6) ELSE ScientificText(v)

StringText(v, opts) ==
  LET bare == IsBareIdentifier(v.text, {})
      quoted == v.flag \in {"quoted", "raw"} \/ ~bare \/ "noBare" \in opts
  IN  IF \/ v.flag = "bareSuffixed"
         \/ "noBare" \notin opts /\ ("noQuotes" \in opts \/ (bare /\ "simpleString" \in opts))
      THEN v.text
      ELSE IF v.flag = "raw" /\ "strictStringFlags" \in opts THEN RawString(v.text)
      ELSE IF quoted THEN QuotedString(v.text) ELSE v.text

BareText(v, opts) ==
  CASE v.kind = "null" -> <<"n", "u", "l", "l">>
    [] v.kind = "bool" -> v.text
    [] v.kind = "int" -> IntText(v, opts)
    [] v.kind = "bigint" -> BigIntText(v, opts)
    [] v.kind = "float" -> FloatText(v)
    [] v.kind = "bigfloat" -> BigFloatText(v)
    [] v.kind = "suffixed" -> v.text \o v.suffix
    [] v.kind = "string" -> StringText(v, opts)

\* Value.string: the annotation before the value, which starts afresh when it
\* is hexadecimal
ValueText(v, opts) ==
  (IF v.type = << >> \/ (Based(v, opts) /\ v.flag = "hexadecimal" /\ v.kind # "null")
   THEN << >> ELSE <<"(">> \o v.type \o <<")">>)
  \o BareText(v, opts)
=============================================================================
