-------------------------------- MODULE KdlWriter --------------------------------
(***************************************************************************)
(* Writing a document: Generator.Generate (internal/generator) and         *)
(* Node.WriteToOptions (document/node.go), on a writer that may fail.      *)
(*                                                                         *)
(* Abstractions.  A node's properties are a sequence, in the order in      *)
(* which the map is ranged over this time.  A missing comment, type or     *)
(* list is an empty one.  A write that fails writes nothing.               *)
(***************************************************************************)
EXTENDS KdlValues

CONSTANTS
  Nodes,  \* the nodes that may be in a document, at any depth
  Cases   \* what Generate may be called with: a document, which is a sequence of
          \* nodes, options, and which calls of Write fail, a set of numbers

GenerateOptions ==
  [indent : String, ignoreFlags : BOOLEAN, addSemicolons : BOOLEAN,
   addEquals : BOOLEAN, addColons : BOOLEAN]

ASSUME NodesAssumption ==
  Nodes \subseteq [name : String, type : String, args : Seq(Values),
                   props : Seq([key : String, val : Values]), children : Seq(Nodes),
                   before : String, after : String]

ASSUME CasesAssumption ==
  Cases \subseteq [doc : Seq(Nodes), options : GenerateOptions, fault : SUBSET Nat]

VARIABLES
  doc,       \* the document, and
  options,   \*   the options of Generate
  w,         \* what was written, and what became of it
  todo,      \* the nodes each loop has still to write, that of the innermost block
             \* last; the others begin with the node whose block is open
  outcome    \* of Generate: "none", "nil" or "error"; "uncalled"

writerVars == <<doc, options, w, todo, outcome>>

\* A node without children, comments and properties
PlainNode(name, args) ==
  [name |-> name, type |-> << >>, args |-> args, props |-> << >>, children |-> << >>,
   before |-> << >>, after |-> << >>]

-----------------------------------------------------------------------------
(* io.Writer.  err is the variable of that name of the innermost call of   *)
(* WriteToOptions; lost, a history, is whether any write failed.           *)

NewWriter(fault) == [out |-> << >>, calls |-> 0, fault |-> fault, err |-> FALSE, lost |-> FALSE]

\* The closure write: it remembers whether the last call failed.
Write(v, text) ==
  LET fails == v.calls + 1 \in v.fault
  IN  [v EXCEPT !.out = IF fails THEN @ ELSE @ \o text, !.calls = @ + 1,
                !.err = fails, !.lost = @ \/ fails]

\* A piece of text is written if nothing failed before it, or always.
Piece(text)  == [text |-> text, always |-> FALSE]
Always(text) == [text |-> text, always |-> TRUE]

WritePieces(v, pieces) ==
  LET after[k \in 0 .. Len(pieces)] ==
        IF k = 0 THEN v
        ELSE IF after[k - 1].err /\ ~pieces[k].always THEN after[k - 1]
        ELSE Write(after[k - 1], pieces[k].text)
  IN  after[Len(pieces)]

-----------------------------------------------------------------------------
(* The pieces of a node *)

Indent(o, depth) == FlattenSeq([k \in 1 .. depth |-> o.indent])

\* bytes.Split(bytes.Trim(comment, " \t"), "\n"), each line trimmed
Lines(comment) ==
  LET s == Trim(comment, {" ", "\t"})
      from[i \in 1 .. Len(s) + 1] ==
        LET end == RunEnd(s, i, (Char \cup {Bad}) \ {"\n"})
        IN  <<Trim(SubSeq(s, i, end - 1), LineSpace)>>
            \o IF end > Len(s) THEN << >> ELSE from[end + 1]
  IN  from[1]

\* Mutant of BeforePieces: no blank line is written.
BeforePiecesClosedUp(comment, indent) ==
  LET lines == SelectSeq(Lines(comment), LAMBDA line : line # << >>)
  IN  FlattenSeq([k \in DOMAIN lines |->
                    <<Always(indent), Always(lines[k]), Always(<<"\n">>)>>])

\* Of several blank lines only one is written.
BeforePieces(comment, indent) ==
  LET lines == Lines(comment)
      blank(k) == k \in DOMAIN lines /\ lines[k] = << >>
      piecesOf(k) ==
        CASE ~blank(k) -> <<Always(indent), Always(lines[k]), Always(<<"\n">>)>>
          [] blank(k) /\ ~blank(k - 1) -> <<Always(<<"\n">>)>>
          [] OTHER -> << >>
  IN  IF comment = << >> THEN << >> ELSE FlattenSeq([k \in DOMAIN lines |-> piecesOf(k)])

AfterPieces(comment, indent) ==
  LET lines == Lines(comment)
  IN  FlattenSeq([k \in DOMAIN lines |->
                    <<Always(indent), Always(lines[k]), Always(<<"\n">>)>>])

Rendering(o) == IF o.ignoreFlags THEN Renderings.UnformattedString ELSE Renderings.FormattedString

\* Properties.String and UnformattedString
KeyText(key) == IF IsBareIdentifier(key, {}) THEN key ELSE QuotedString(key)
PropertiesText(props, o) ==
  FlattenSeq([i \in DOMAIN props |->
    <<" ">> \o KeyText(props[i].key) \o <<"=">> \o ValueText(props[i].val, Rendering(o))])

AssignmentPieces(n, o) ==
  IF n.args = << >> \/ n.props # << >> \/ n.children # << >> THEN << >>
  ELSE IF o.addEquals THEN <<Always(<<" ", "=">>)>>
  ELSE IF o.addColons THEN <<Always(<<":">>)>>
  ELSE << >>

ArgumentPieces(args, o) ==
  FlattenSeq([i \in DOMAIN args |-> <<Piece(<<" ">>), Piece(ValueText(args[i], Rendering(o)))>>])

HeadPieces(n, o, depth) ==
  BeforePieces(n.before, Indent(o, depth))
  \o (IF depth > 0 THEN <<Always(Indent(o, depth))>> ELSE << >>)
  \o (IF n.type # << >> THEN <<Piece(<<"(">>), Piece(n.type), Piece(<<")">>)>> ELSE << >>)
  \o <<Piece(ValueText(TextValue("string", n.name), Renderings.NodeNameString))>>
  \o AssignmentPieces(n, o)
  \o ArgumentPieces(n.args, o)
  \o IF n.props # << >> THEN <<Piece(PropertiesText(n.props, o))>> ELSE << >>

-----------------------------------------------------------------------------
(* Node.WriteToOptions, as Generate calls it; the loops over the document  *)
(* and over the children of a node                                         *)

WriterInit ==
  /\ \E c \in Cases : /\ doc = c.doc /\ todo = <<c.doc>>
                      /\ options = c.options /\ w = NewWriter(c.fault)
  /\ outcome = "none"

Depth == Len(todo) - 1

\* Mutant of NodeReturns: Generate goes on after an error.
NodeReturnsRegardless(v, lists) ==
  /\ w' = [v EXCEPT !.err = FALSE]
  /\ todo' = [lists EXCEPT ![Len(lists)] = IF v.err /\ Len(lists) > 1 THEN << >> ELSE Tail(@)]
  /\ UNCHANGED outcome

\* The call for the first of the last nodes is over.  After an error the loop is
\* left: Generate returns it, but the err of a child is a variable of its own,
\* and the node around it goes on.
NodeReturns(v, lists) ==
  \/ /\ ~v.err
     /\ w' = v /\ todo' = [lists EXCEPT ![Len(lists)] = Tail(@)]
     /\ UNCHANGED outcome
  \/ /\ v.err /\ Len(lists) = 1
     /\ w' = v /\ todo' = lists
     /\ outcome' = "error"
  \/ /\ v.err /\ Len(lists) > 1
     /\ w' = [v EXCEPT !.err = FALSE] /\ todo' = [lists EXCEPT ![Len(lists)] = << >>]
     /\ UNCHANGED outcome

\* An error is forgotten if a comment or an indent follows in the same node.
WriteEnd(v, n, depth) ==
  IF v.err THEN v
  ELSE IF n.after # << >> THEN WritePieces(v, AfterPieces(n.after, Indent(options, depth)))
  ELSE Write(v, <<"\n">>)

\* A node without children
WriteLeaf ==
  /\ outcome = "none" /\ Last(todo) # << >>
  /\ LET n    == Head(Last(todo))
         head == WritePieces(w, HeadPieces(n, options, Depth))
         body == IF options.addSemicolons /\ ~head.err THEN Write(head, <<";">>) ELSE head
     IN  n.children = << >> /\ NodeReturns(WriteEnd(body, n, Depth), todo)
  /\ UNCHANGED <<doc, options>>

\* A node with children, up to the first of them
EnterChildren ==
  /\ outcome = "none" /\ Last(todo) # << >>
  /\ LET n      == Head(Last(todo))
         head   == WritePieces(w, HeadPieces(n, options, Depth))
         opened == IF head.err THEN head ELSE Write(head, <<" ", "{", "\n">>)
     IN  /\ n.children # << >>
         /\ \/ opened.err /\ NodeReturns(opened, todo)
            \/ ~opened.err /\ w' = opened /\ todo' = Append(todo, n.children) /\ UNCHANGED outcome
  /\ UNCHANGED <<doc, options>>

\* What follows the children
LeaveChildren ==
  /\ outcome = "none" /\ Len(todo) > 1 /\ Last(todo) = << >>
  /\ LET lists == Front(todo)
         n     == Head(Last(lists))
         depth == Len(lists) - 1
         closed == WritePieces(w, (IF depth > 0 THEN <<Piece(Indent(options, depth))>> ELSE << >>)
                                  \o <<Piece(<<"}">>)>>)
     IN  NodeReturns(WriteEnd(closed, n, depth), lists)
  /\ UNCHANGED <<doc, options>>

GenerateEnd ==
  /\ outcome = "none" /\ todo = <<<< >>>>
  /\ outcome' = "nil"
  /\ UNCHANGED <<doc, options, w, todo>>

Generate == WriteLeaf \/ EnterChildren \/ LeaveChildren \/ GenerateEnd

WriterSpec == WriterInit /\ [][Generate]_writerVars

-----------------------------------------------------------------------------
(* Properties *)

\* Where an error can be forgotten: in a block, or where a comment or the sign
\* of an assignment is written without a look at it
CanForget == options.addEquals \/ options.addColons
             \/ \E i \in DOMAIN doc :
                  doc[i].children # << >> \/ doc[i].before # << >> \/ doc[i].after # << >>

(***************************************************************************)
(* Generate reports that text is missing, in these two cases: the document *)
(* is flat, without comments and relaxed assignments, or the writer fails  *)
(* for good.  Otherwise a write that fails once may go unnoticed, although *)
(* kdl.go promises "a non-nil error on failure".                           *)
(***************************************************************************)
LossIsReported ==
  outcome = "nil" /\ w.lost => CanForget /\ w.calls \notin w.fault
=============================================================================
