------------------------------ MODULE KdlTokens ------------------------------
(***************************************************************************)
(* The vocabulary the scanner and the parser share: token ids, the classes *)
(* an id belongs to, and tokens (internal/tokenizer/token.go).             *)
(*                                                                         *)
(* A token's text is abstracted to its "form", the only thing about it     *)
(* that changes what the parser does: whether ValueFromToken can convert   *)
(* it, and whether a newline is one byte or two.                           *)
(***************************************************************************)
EXTENDS Sequences

\* The zero TokenID: a token that is not there.
Unknown == "Unknown"

TokenIDs ==
  { "Newline", "Whitespace", "MultiLineComment", "SingleLineComment",
    "TokenComment", "Decimal", "Hexadecimal", "Octal", "Binary", "Boolean",
    "Null", "BareIdentifier", "SuffixedDecimal", "RawString", "QuotedString",
    "BraceOpen", "BraceClose", "ParensOpen", "ParensClose", "Equals",
    "Semicolon", "Continuation", "EOF" }

(***************************************************************************)
(* tokenClasses: the classes of an id, in the order Parser.parse tries     *)
(* them.                                                                   *)
(***************************************************************************)
Number == <<"ClassNumber", "ClassValue", "ClassNonStringValue">>

Classes(id) ==
  CASE id = "Newline" -> <<"ClassTerminator", "ClassWhitespace", "ClassEndOfLine">>
    [] id = "Whitespace" -> <<"ClassWhitespace">>
    [] id \in {"MultiLineComment", "SingleLineComment"} -> <<"ClassComment">>
    [] id \in {"Decimal", "Hexadecimal", "Octal", "Binary", "SuffixedDecimal"} -> Number
    [] id \in {"Boolean", "Null"} -> <<"ClassValue", "ClassNonStringValue">>
    [] id = "BareIdentifier" -> <<"ClassValue", "ClassIdentifier">>
    [] id \in {"RawString", "QuotedString"} ->
         <<"ClassValue", "ClassString", "ClassIdentifier">>
    [] id = "Semicolon" -> <<"ClassTerminator">>
    [] id = "EOF" -> <<"ClassTerminator", "ClassEndOfLine">>
    [] OTHER -> << >>

(***************************************************************************)
(* "malformed": text the scanner accepts and ValueFromToken rejects (a bad *)
(* escape, a number strconv refuses).  "wide": a two-byte newline, \r\n.   *)
(***************************************************************************)
Forms == {"plain", "malformed", "wide"}

Token == [id : TokenIDs \cup {Unknown}, form : Forms]

NoToken == [id |-> Unknown, form |-> "plain"]

Tok(id) == [id |-> id, form |-> "plain"]

\* Token.Valid
Valid(t) == t.id # Unknown
=============================================================================
