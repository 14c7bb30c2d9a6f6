----------------------------- MODULE MCKdlParser -----------------------------
(***************************************************************************)
(* The token sets the runs of KdlParser read.                              *)
(***************************************************************************)
EXTENDS KdlParserTree

Bad(id) == [id |-> id, form |-> "malformed"]

(***************************************************************************)
(* Nesting: nodes, blocks, /- and every way a node ends.                   *)
(***************************************************************************)
NestingInput ==
  { Tok("QuotedString"), Bad("RawString"), Tok("Whitespace"), Tok("Newline"),
    Tok("Semicolon"), Tok("EOF"), Tok("TokenComment"), Tok("BraceOpen"),
    Tok("BraceClose"), Tok("SingleLineComment"), Tok("Continuation") }

NoOptions == {{}}

(***************************************************************************)
(* Values: everything that can stand in one node, strict and relaxed.      *)
(***************************************************************************)
ValueInput ==
  { Tok("BareIdentifier"), Tok("QuotedString"),
    Tok("Decimal"), Tok("SuffixedDecimal"), Tok("Whitespace"),
    Tok("Newline"), Tok("EOF"), Tok("TokenComment"), Tok("BraceOpen"),
    Tok("BraceClose"), Tok("MultiLineComment"), Tok("SingleLineComment"),
    Tok("Continuation"), Tok("ParensOpen"), Tok("ParensClose"), Tok("Equals") }

SyntaxOptions == {{}, {"NGINXSyntax", "YAMLTOMLAssignments"}}
=============================================================================
