-------------------------------- MODULE KdlReader --------------------------------
(***************************************************************************)
(* parse (kdl.go): the loop that scans one token and hands it to the       *)
(* parser, over a text.  The scanner and the parser get the same relaxed   *)
(* flags, which are all in opts here.                                      *)
(***************************************************************************)
EXTENDS KdlParser, KdlLexer, KdlValues

CONSTANT Texts   \* the documents it may be given

ASSUME TextsAssumption == \A s \in Texts : s \in Seq(Char \cup {Bad})

VARIABLES
  text,      \* the document
  at,        \* the position of the next character
  scan,      \* the scanner: "unopened", or its error: "nil", "eof" or "failed"
  leaves,    \* history: the texts of the tokens that hold values, in order
  latest     \* history: the last token but blanks, comments and continued lines

readerVars == <<vars, text, at, scan, leaves, latest>>

ReaderInit ==
  /\ Init /\ text \in Texts /\ at = 1 /\ scan = "nil"
  /\ leaves = << >> /\ latest = Unknown

\* What of its text the parser can tell
FormOf(id, data) ==
  IF ValueFromToken(id, data) = NotAValue THEN "malformed"
  ELSE IF id = "Newline" /\ Len(data) = 2 THEN "wide" ELSE "plain"

HoldsValue(id) == "ClassValue" \in Range(Classes(id))

\* It leaves the line as it is.
Fills(id) == id \in LineFill /\ (id = "Newline" => continuation)

Relaxed == opts \cap RelaxedFlags

\* What a token adds to the values of its text
ValueOf(s, i, l) ==
  IF HoldsValue(l.id) THEN <<[id |-> l.id, data |-> Text(s, i, l)]>> ELSE << >>

\* Scan returns a token and Parse handles it.
ReadToken(l) ==
  /\ l \notin {Failed, AtEof}
  /\ \E form \in {FormOf(l.id, Text(text, at, l))} : Parse([id |-> l.id, form |-> form])
  /\ at' = l.end
  /\ leaves' = leaves \o ValueOf(text, at, l)
  /\ latest' = IF Fills(l.id) THEN latest ELSE l.id
  /\ UNCHANGED <<text, scan>>

\* Scan turns io.EOF into a token, and returns false next time.
ReadEnd(l) ==
  /\ l = AtEof
  /\ Parse(Tok("EOF"))
  /\ scan' = "eof"
  /\ UNCHANGED <<text, at, leaves, latest>>

\* Mutant of ScanFails: what cannot be scanned ends the document.
ScanFailsQuietly(l) ==
  /\ l = Failed
  /\ Parse(Tok("EOF"))
  /\ scan' = "eof"
  /\ UNCHANGED <<text, at, leaves, latest>>

ScanFails(l) ==
  /\ l = Failed
  /\ scan' = "failed"
  /\ UNCHANGED <<vars, text, at, leaves, latest>>

\* One round of the loop
Read ==
  /\ result = "reading" /\ scan = "nil"
  /\ \E l \in {ReadNext(text, at, Relaxed)} : ReadToken(l) \/ ReadEnd(l) \/ ScanFails(l)

\* parse returns a document.
Returned == result = "done"
\* It returns an error.
Refusal  == scan = "failed" \/ result \in Failures

ReaderSpec == ReaderInit /\ [][Read]_readerVars

-----------------------------------------------------------------------------
(* Properties *)

\* Type invariant.  A round of the loop reads a token of at least one character,
\* or it is the last: parse returns, whatever the text.
ReaderTypeOK ==
  /\ TypeOK
  /\ text \in Seq(Char \cup {Bad}) /\ at \in 1 .. Len(text) + 1
  /\ scan \in {"unopened", "nil", "eof", "failed"}
  /\ latest \in TokenIDs \cup {Unknown}
  /\ \A i \in DOMAIN leaves : leaves[i].data # << >> /\ HoldsValue(leaves[i].id)
  /\ LET l == ReadNext(text, at, Relaxed)
     IN  l \in {Failed, AtEof} \/ l.end \in at + 1 .. Len(text) + 1

Unread == SubSeq(text, at, Len(text))

\* A document is returned only if all of its text was read, with two exceptions
\* at its very end: a lone character that the scanner would look beyond, and a
\* number that ends in its e.
NothingUnread ==
  Returned =>
    \/ Unread = << >>
    \/ Len(Unread) = 1 /\ Unread[1] \in Signs \cup {"/", "0"}
    \/ Last(Unread) \in {"e", "E"} /\ Unread[1] \in Signs \cup Digits

\* A document that is cut off inside a child block is refused if it is cut off
\* at the end of a line or right after a {, blanks and comments aside; in the
\* middle of a node, or of a line that a \ continues, it is taken for a whole one.
TruncationIsRefused ==
  Returned /\ suppressed # << >> => latest \notin {"Newline", "Semicolon", "BraceOpen"}

\* All the values of a text, from each position on
ValuesFrom(s, flags) ==
  LET from[i \in 1 .. Len(s) + 1] ==
        LET l == ReadNext(s, i, flags)
        IN  IF l \in {Failed, AtEof} THEN << >> ELSE ValueOf(s, i, l) \o from[l.end]
  IN  from

\* MultiplierSuffixes only adds to what can be read: a document that is fine
\* without it has the same values with it, unless nginx's syntax, which takes a
\* number with letters for a word, is on.
SuffixesOnlyAdd ==
  Returned /\ "NGINXSyntax" \notin opts =>
    leaves = ValuesFrom(text, Relaxed \cup {"MultiplierSuffixes"})[1]
=============================================================================
