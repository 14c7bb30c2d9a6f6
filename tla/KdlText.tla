--------------------------------- MODULE KdlText ---------------------------------
(***************************************************************************)
(* A document is written and the text is read: Generate, then parse.  Or a *)
(* text from elsewhere is read.                                            *)
(***************************************************************************)
EXTENDS KdlReader, KdlWriter

textVars == <<readerVars, writerVars>>

\* What a reader must be told to take what these options write
Understood(o) ==
  {"MultiplierSuffixes"} \cup IF o.addEquals \/ o.addColons THEN {"YAMLTOMLAssignments"} ELSE {}

GivenText ==
  /\ ReaderInit
  /\ doc = << >> /\ options = << >> /\ w = NewWriter({}) /\ todo = << >>
  /\ outcome = "uncalled"

GivenDocument ==
  /\ WriterInit
  /\ Init /\ opts = {"ParseComments"} \cup Understood(options)
  /\ text = << >> /\ at = 1 /\ scan = "unopened"
  /\ leaves = << >> /\ latest = Unknown

TextInit == GivenText \/ GivenDocument

GenerateText == Generate /\ UNCHANGED readerVars

\* What was written is opened for reading.
Open ==
  /\ outcome = "nil" /\ scan = "unopened"
  /\ text' = w.out /\ scan' = "nil"
  /\ UNCHANGED <<vars, at, leaves, latest, writerVars>>

ReadText == Read /\ UNCHANGED writerVars

TextNext == GenerateText \/ Open \/ ReadText

TextSpec == TextInit /\ [][TextNext]_textVars

-----------------------------------------------------------------------------
(* What should come back *)

\* The nodes in the order of the text, each with the number of its parent
RECURSIVE Listed(_, _, _)
Listed(ns, parent, count) ==
  FoldLeft(LAMBDA l, n : LET me == count + Len(l) + 1
                         IN  Append(l, [parent |-> parent, node |-> n])
                             \o Listed(n.children, me, me),
           << >>, ns)

Wanted == Listed(doc, Root, 0)

\* A string that stands for a number is that number.
Meant(v) == IF v.flag = "bareSuffixed" THEN ParseSuffixedDecimal(v.text) ELSE v

Plain(v) == [v EXCEPT !.flag = "none", !.type = << >>]

\* The tokens that hold values, as what they should mean; an annotation is the
\* text of its token, quotes and all.
TypeTokens(type) == IF type = << >> THEN << >> ELSE <<type>>
TokensOf(v) == TypeTokens(v.type) \o <<Plain(Meant(v))>>
WantedOf(n) ==
  TypeTokens(n.type) \o <<TextValue("string", n.name)>>
  \o FlattenSeq([i \in DOMAIN n.args |-> TokensOf(n.args[i])])
  \o FlattenSeq([i \in DOMAIN n.props |->
                   <<TextValue("string", n.props[i].key)>> \o TokensOf(n.props[i].val)])

SameShape ==
  /\ Len(nodes) = Len(Wanted)
  /\ \A i \in DOMAIN nodes :
       LET got == nodes[i]  want == Wanted[i].node
       IN  /\ got.parent = Wanted[i].parent
           /\ Len(got.args) = Len(want.args) /\ Len(got.props) = Len(want.props)
           /\ (got.type = Unknown) <=> (want.type = << >>)

SameValues ==
  LET want == FlattenSeq([i \in DOMAIN Wanted |-> WantedOf(Wanted[i].node)])
  IN  /\ Len(leaves) = Len(want)
      /\ \A i \in DOMAIN leaves :
           want[i] \in {leaves[i].data, Plain(ValueFromToken(leaves[i].id, leaves[i].data))}

-----------------------------------------------------------------------------
(* What does not come back *)

\* A word that is written bare although it is not read as a word, or a string
\* that is not unquoted
Mistaken(s) == Misread(s, opts) \/ (~IsBareIdentifier(s, {}) /\ Unquotable(s))

\* Written in a base, a negative number has its sign in the wrong place, one that
\* does not fit an int64 has no prefix, and a hexadecimal one has no annotation.
Unreadable(v) ==
  \/ v.kind = "string" /\ Unquotable(v.text)
  \/ v.kind = "bigfloat" /\ v.m = 0
  \/ Based(v, Rendering(options)) /\ (v.kind = "bigint" \/ v.m < 0 \/
                                      (v.flag = "hexadecimal" /\ v.type # << >>))

\* A semicolon that follows a number in a base at once
EndsInBase(n) ==
  LET values == n.args \o [i \in DOMAIN n.props |-> n.props[i].val]
  IN  /\ options.addSemicolons /\ n.children = << >>
      /\ values # << >> /\ Based(Last(values), Rendering(options))

\* A comment that follows the name or a value at once
StrayComment(n, depth) ==
  /\ n.after # << >> /\ n.children = << >>
  /\ ~options.addSemicolons /\ Indent(options, depth) = << >>

Unfaithful ==
  \E i \in DOMAIN Wanted :
    LET n == Wanted[i].node
    IN  \/ Mistaken(n.name)
        \/ \E a \in DOMAIN n.args : Unreadable(n.args[a])
        \/ \E p \in DOMAIN n.props : Mistaken(n.props[p].key) \/ Unreadable(n.props[p].val)
        \/ EndsInBase(n) \/ StrayComment(n, IF Wanted[i].parent = Root THEN 0 ELSE 1)

-----------------------------------------------------------------------------
(* Properties *)

(***************************************************************************)
(* Nothing of a document is lost when it is written and read back, but for *)
(* a few strings and numbers whose text is not what the scanner expects.   *)
(***************************************************************************)
TextReadsBack ==
  outcome = "nil" /\ ~w.lost /\ (Returned \/ Refusal) =>
    (Unfaithful <=> ~(Returned /\ SameShape /\ SameValues))

\* The lines of a comment that are written: of blank lines in a row the first
\* (node.go:263-276)
Written(lines) ==
  LET shown == SelectSeq([k \in DOMAIN lines |-> k],
                         LAMBDA k : lines[k] # << >> \/ k = 1 \/ lines[k - 1] # << >>)
  IN  [i \in DOMAIN shown |-> lines[shown[i]]]

\* The bytes of a comment: one for each // and one for each newline
BytesOf(note) ==
  LET lines == Written(Lines(note))
  IN  IF note = << >> THEN << >>
      ELSE Tail(FlattenSeq([k \in DOMAIN lines |->
                              IF lines[k] = << >> THEN <<"nl">> ELSE <<"nl", "c">>]))

\* What is read of a comment before a node.  A blank line at the beginning of
\* the document is none: to recent.go:54 the empty slot before it is a token
\* whose line the newline ends.
ComesBack(note, first) ==
  LET all == BytesOf(note)
  IN  IF first /\ all # << >> /\ Head(all) = "nl" THEN Tail(all) ELSE all

(***************************************************************************)
(* A comment before a node comes back with its blank lines, several in a   *)
(* row as one, and without one that the document begins with.  A comment   *)
(* after a node does not: the parser keeps none that ends a node's line.   *)
(* With semicolons it may become a comment of the node after it.           *)
(***************************************************************************)
CommentsReadBack ==
  outcome = "nil" /\ Returned /\ ~w.lost /\ ~Unfaithful /\ ~options.addSemicolons =>
    \A i \in DOMAIN nodes :
      nodes[i].before = ComesBack(Wanted[i].node.before, i = 1) /\ nodes[i].after = << >>
=============================================================================
