------------------------------ MODULE KdlParser ------------------------------
(***************************************************************************)
(* The parser of internal/parser: a pushdown machine that is given one     *)
(* token at a time and builds the document as it goes.  transitions.go is  *)
(* a table from (state, token id or class) to a handler; each handler is   *)
(* an action here, named <state><key>.                                     *)
(*                                                                         *)
(* Abstractions.  A token is its id and form (KdlTokens), so a value, a    *)
(* property key and a type annotation are the id of the token they came    *)
(* from.  A node is its position in nodes, which holds every node ever     *)
(* created, in order: its parent says where it was attached.  A step that  *)
(* fails records why in result and leaves the rest of the context alone:   *)
(* every caller drops the context (kdl.go:22, parser.go:130).              *)
(***************************************************************************)
EXTENDS RecentRing

CONSTANTS
  Input,        \* the tokens the scanner may deliver, a subset of Token
  Options,      \* the option sets a caller may ask for
  MaxNodes,     \* bounds on the document, for TLC: nodes,
  MaxValues,    \*   arguments and properties of one node,
  MaxDepth,     \*   the state stack,
  MaxComment    \*   and bytes of comment in all

ASSUME InputAssumption == Input \subseteq Token /\ \A t \in Input : Valid(t)

AllOptions ==
  {"NGINXSyntax", "YAMLTOMLAssignments", "MultiplierSuffixes", "ParseComments"}

ASSUME OptionsAssumption == Options \subseteq SUBSET AllOptions

VARIABLES
  opts,               \* c.opts
  states, state,      \* the state stack and the current state
  node,               \* the node stack
  ident, typeAnnot,   \* tokens held until their meaning is known
  continuation,       \* a \ was read: the next newline does not end the node
  ignoreNextNode, ignoreNextArgProp,  \* a /- was read
  ignoreChildren,     \* depth of the child blocks a /- covers
  comment,            \* comment bytes waiting for a node
  recent,             \* the last tokens (RecentRing)
  nodes,              \* every node created so far
  result,             \* "reading", "done" after EOF, or why Parse failed
  suppressed          \* history: for each open {, whether a /- covers it

stack  == <<states, state, node, suppressed>>
held   == <<ident, typeAnnot>>
ignore == <<ignoreNextNode, ignoreNextArgProp, ignoreChildren>>
output == <<nodes, comment>>
vars   == <<opts, stack, held, continuation, ignore, output, recent, result>>

-----------------------------------------------------------------------------
(* Nodes *)

Root     == 0     \* the parent of a top-level node: the document
Detached == -1    \* the parent of a node that was created and never added

Bytes == {"c", "nl"}   \* a byte of comment text, a newline

Node == [ parent : Nat \cup {Detached},
          name : TokenIDs, type : TokenIDs \cup {Unknown},
          args : Seq([val : TokenIDs \cup {Unknown}, type : TokenIDs \cup {Unknown}]),
          props : Seq([key : TokenIDs \cup {Unknown}, val : TokenIDs,
                       type : TokenIDs \cup {Unknown}]),
          before : Seq(Bytes), after : Seq(Bytes) ]

\* c.currentNode() when the node stack is not empty
currentNode == Last(node)

\* c.lastAddedNode: addNode and createNode both set it; 0 is nil
lastAddedNode == Len(nodes)

-----------------------------------------------------------------------------
(* Dispatch: Parser.parse *)

Transitions ==
  [ Document      |-> {"Whitespace", "ClassIdentifier", "ParensOpen", "ClassTerminator",
                       "ClassComment", "TokenComment"},
    Children      |-> {"Whitespace", "ClassComment", "TokenComment", "ParensOpen",
                       "Newline", "ClassIdentifier", "BraceClose"},
    TypeAnnot     |-> {"BareIdentifier", "ClassString"},
    TypeDone      |-> {"ParensClose"},
    Node          |-> {"Whitespace", "ClassTerminator", "Equals"},
    NodeParams    |-> {"Whitespace", "Equals", "TokenComment", "MultiLineComment",
                       "SingleLineComment", "Continuation", "ParensOpen",
                       "BareIdentifier", "SuffixedDecimal", "ClassString",
                       "ClassNonStringValue", "BraceOpen", "ClassTerminator"},
    NodeEnd       |-> {"Whitespace", "ClassEndOfLine"},
    Property      |-> {"Equals"},
    ArgProp       |-> {"TokenComment", "BraceOpen", "Equals", "Whitespace",
                       "ClassTerminator", "ClassValue"},
    PropertyValue |-> {"ParensOpen", "ClassValue"} ]

ParserStates == DOMAIN Transitions

\* Mutant of Handler: a child block may end where a node may.
HandlerEndingBlocks(s, t) ==
  LET classes == Classes(t.id)
      hits == {i \in DOMAIN classes : classes[i] \in Transitions[s]}
  IN  IF t.id \in Transitions[s] THEN t.id
      ELSE IF s = "Children" /\ t.id = "EOF" THEN "Newline"
      ELSE IF hits = {} THEN "none" ELSE classes[Min(hits)]

\* The token's own id first, then its classes in order.
Handler(s, t) ==
  IF t.id \in Transitions[s] THEN t.id
  ELSE LET classes == Classes(t.id)
           hits == {i \in DOMAIN classes : classes[i] \in Transitions[s]}
       IN  IF hits = {} THEN "none" ELSE classes[Min(hits)]

On(s, key, t) == state = s /\ Handler(s, t) = key

\* c.continuation as the handler of t sees it
LineFill == {"Newline", "Whitespace", "SingleLineComment", "MultiLineComment"}
Continuing(t) == continuation /\ t.id \in LineFill

Annotated == Valid(typeAnnot)
Queued    == Valid(ident)

-----------------------------------------------------------------------------
(* What the handlers share: context.go *)

Goto(s) == state' = s /\ UNCHANGED <<states, node, suppressed>>

PushState(s) == states' = Append(states, state) /\ state' = s

PopState == states # << >> /\ state' = Last(states) /\ states' = Front(states)

PopNodeAndState ==
  PopState /\ node # << >> /\ node' = Front(node) /\ UNCHANGED suppressed

Nop == UNCHANGED <<stack, held, ignore, output>>

\* parser.go:111 adds every token; only comments look at the ring, so without
\* ParseComments the model leaves it alone.
Seen(t) == IF "ParseComments" \in opts THEN RingAdd(recent, t) ELSE recent

\* c.comment once blank lines and bytes are written to it
CommentWith(t, bytes) ==
  IF "ParseComments" \in opts
  THEN comment \o BlankLines(Seen(t)) \o bytes ELSE comment

TrimNewline(bytes) ==
  IF bytes # << >> /\ Last(bytes) = "nl" THEN Front(bytes) ELSE bytes

(***************************************************************************)
(* The node a name token declares: addNode, or createNode when a /- covers *)
(* it, which leaves it out of the document and on the node stack.          *)
(***************************************************************************)
\* Mutant of Declared: attach to the node created last.
DeclaredUnderLastAdded(t, skip) ==
  [ parent |-> IF skip THEN Detached ELSE lastAddedNode,
    name |-> t.id, type |-> typeAnnot.id, args |-> << >>, props |-> << >>,
    before |-> TrimNewline(CommentWith(t, << >>)), after |-> << >> ]

Declared(t, skip) ==
  [ parent |-> IF skip THEN Detached
               ELSE IF node = << >> THEN Root ELSE currentNode,
    name |-> t.id, type |-> typeAnnot.id, args |-> << >>, props |-> << >>,
    before |-> TrimNewline(CommentWith(t, << >>)), after |-> << >> ]

DeclareNode(t, skip) ==
  /\ nodes' = Append(nodes, Declared(t, skip))
  /\ node' = Append(node, Len(nodes) + 1)
  /\ PushState("Node")
  /\ ignoreNextNode' = FALSE
  /\ comment' = << >>
  /\ typeAnnot' = NoToken
  /\ UNCHANGED <<ident, ignoreNextArgProp, ignoreChildren, suppressed>>

\* Mutant of AddArgument: add to the node created last.
AddArgumentToLastAdded(t, annot) ==
  nodes' = [nodes EXCEPT ![lastAddedNode].args =
              Append(@, [val |-> t.id, type |-> annot.id])]

\* AddArgumentToken and AddPropertyToken on the current node
AddArgument(t, annot) ==
  nodes' = [nodes EXCEPT ![currentNode].args =
              Append(@, [val |-> t.id, type |-> annot.id])]

\* props lists what was added, in order: document.Properties keeps the last value
\* of a key that is added twice.
AddProperty(key, val, annot) ==
  nodes' = [nodes EXCEPT ![currentNode].props =
              Append(@, [key |-> key.id, val |-> val.id, type |-> annot.id])]

(***************************************************************************)
(* The held token turns out to be an argument: it is added to the current  *)
(* node unless a /- covers it.  Most callers do not look whether there is  *)
(* a held token, and an absent one makes a null argument.                  *)
(***************************************************************************)
FlushArgument ==
  /\ IF ignoreNextArgProp THEN UNCHANGED nodes ELSE AddArgument(ident, typeAnnot)
  /\ typeAnnot' = NoToken

\* What is left of ignoreNextArgProp after "if c.ident.Valid() { flush }"
SkipAfterFlush == ignoreNextArgProp /\ ~Queued

\* Mutant of OpenBlock: forget that an enclosing block is ignored.
OpenBlockUncounted(skip) ==
  /\ PushState("Children")
  /\ ignoreChildren' = IF skip THEN ignoreChildren + 1 ELSE ignoreChildren
  /\ ignoreNextArgProp' = FALSE
  /\ suppressed' = Append(suppressed,
                          skip \/ (suppressed # << >> /\ Last(suppressed)))
  /\ UNCHANGED <<node, ignoreNextNode>>

OpenBlock(skip) ==
  /\ PushState("Children")
  /\ ignoreChildren' = IF skip \/ ignoreChildren > 0 THEN ignoreChildren + 1
                       ELSE ignoreChildren
  /\ ignoreNextArgProp' = FALSE
  /\ suppressed' = Append(suppressed,
                          skip \/ (suppressed # << >> /\ Last(suppressed)))
  /\ UNCHANGED <<node, ignoreNextNode>>

-----------------------------------------------------------------------------
(* stateDocument and stateChildren *)

AtBlockLevel == state \in {"Document", "Children"}

\* Whitespace, and the document's own terminators, mean nothing between nodes.
BlockWhitespace(t) ==
  /\ AtBlockLevel /\ Handler(state, t) = "Whitespace"
  /\ ~Annotated
  /\ Nop

DocumentTerminator(t) ==
  /\ On("Document", "ClassTerminator", t)
  /\ ~Annotated
  /\ Nop

ChildrenNewline(t) == On("Children", "Newline", t) /\ Nop

BlockComment(t) ==
  /\ AtBlockLevel /\ Handler(state, t) = "ClassComment"
  /\ ~Annotated
  /\ comment' = CommentWith(t, <<"c">>)
  /\ UNCHANGED <<stack, held, ignore, nodes>>

BlockTokenComment(t) ==
  /\ AtBlockLevel /\ Handler(state, t) = "TokenComment"
  /\ ignoreNextNode' = TRUE
  /\ UNCHANGED <<stack, held, ignoreNextArgProp, ignoreChildren, output>>

DocumentIdentifier(t) ==
  /\ On("Document", "ClassIdentifier", t)
  /\ DeclareNode(t, ignoreNextNode)

\* Mutant of ChildrenIdentifier: forget that the block is ignored.
ChildrenIdentifierInIgnored(t) ==
  /\ On("Children", "ClassIdentifier", t)
  /\ DeclareNode(t, ignoreNextNode)

ChildrenIdentifier(t) ==
  /\ On("Children", "ClassIdentifier", t)
  /\ DeclareNode(t, ignoreNextNode \/ ignoreChildren > 0)

\* Mutants of ChildrenBraceClose: count down without looking, pop the node as
\* well, write the pending comment and keep it.
ChildrenBraceCloseUnguarded(t) ==
  /\ On("Children", "BraceClose", t)
  /\ ignoreChildren' = ignoreChildren - 1
  /\ PopState
  /\ suppressed' = Front(suppressed)
  /\ UNCHANGED <<node, held, ignoreNextNode, ignoreNextArgProp, output>>

ChildrenBraceClosePopsNode(t) ==
  /\ On("Children", "BraceClose", t)
  /\ PopState /\ node' = Front(node)
  /\ suppressed' = Front(suppressed)
  /\ UNCHANGED <<held, ignore, output>>

ChildrenBraceCloseKeepsComment(t) ==
  /\ On("Children", "BraceClose", t)
  /\ nodes' = IF CommentWith(t, << >>) = << >> THEN nodes
              ELSE [nodes EXCEPT ![lastAddedNode].after =
                      @ \o TrimNewline(CommentWith(t, << >>))]
  /\ PopState
  /\ suppressed' = Front(suppressed)
  /\ UNCHANGED <<node, held, ignore, comment>>

\* A comment pending at the end of a block goes after the last node created.
ChildrenBraceClose(t) ==
  /\ On("Children", "BraceClose", t)
  /\ ignoreChildren' = IF ignoreChildren > 0 THEN ignoreChildren - 1 ELSE 0
  /\ nodes' = IF CommentWith(t, << >>) = << >> THEN nodes
              ELSE [nodes EXCEPT ![lastAddedNode].after =
                      @ \o TrimNewline(CommentWith(t, << >>))]
  /\ comment' = << >>
  /\ PopState
  /\ suppressed' = Front(suppressed)
  /\ UNCHANGED <<node, held, ignoreNextNode, ignoreNextArgProp>>

\* A ( starts a type annotation here, in a node and before a property value.
ParensOpen(t) ==
  /\ state \in {"Document", "Children", "NodeParams", "PropertyValue"}
  /\ Handler(state, t) = "ParensOpen"
  /\ PushState("TypeAnnot")
  /\ UNCHANGED <<node, suppressed, held, ignore, output>>

-----------------------------------------------------------------------------
(* stateTypeAnnot and stateTypeDone *)

\* Mutant of TypeAnnotName: push the new state instead of replacing the old.
TypeAnnotNamePushes(t) ==
  /\ state = "TypeAnnot" /\ Handler(state, t) \in {"BareIdentifier", "ClassString"}
  /\ typeAnnot' = t
  /\ PushState("TypeDone")
  /\ UNCHANGED <<node, suppressed, ident, ignore, output>>

TypeAnnotName(t) ==
  /\ state = "TypeAnnot" /\ Handler(state, t) \in {"BareIdentifier", "ClassString"}
  /\ typeAnnot' = t
  /\ Goto("TypeDone")
  /\ UNCHANGED <<ident, ignore, output>>

TypeDoneParensClose(t) ==
  /\ On("TypeDone", "ParensClose", t)
  /\ PopState
  /\ UNCHANGED <<node, suppressed, held, ignore, output>>

-----------------------------------------------------------------------------
(* stateNode, stateNodeParams and stateNodeEnd *)

NodeWhitespace(t) ==
  /\ On("Node", "Whitespace", t)
  /\ Goto("NodeParams")
  /\ UNCHANGED <<held, ignore, output>>

\* Mutant of NodeTerminator: pop the state and leave the node.
NodeTerminatorKeepsNode(t) ==
  /\ On("Node", "ClassTerminator", t)
  /\ IF Continuing(t) THEN UNCHANGED stack
     ELSE PopState /\ UNCHANGED <<node, suppressed>>
  /\ UNCHANGED <<held, ignore, output>>

\* A newline, semicolon or EOF ends the node unless the line is continued.
NodeTerminator(t) ==
  /\ On("Node", "ClassTerminator", t)
  /\ IF Continuing(t) THEN UNCHANGED stack ELSE PopNodeAndState
  /\ UNCHANGED <<held, ignore, output>>

NodeEquals(t) ==
  /\ On("Node", "Equals", t)
  /\ "YAMLTOMLAssignments" \in opts
  /\ Goto("NodeParams")
  /\ UNCHANGED <<held, ignore, output>>

NodeParamsBlank(t) ==
  /\ state = "NodeParams" /\ Handler(state, t) \in {"Whitespace", "MultiLineComment"}
  /\ ~Annotated
  /\ Nop

NodeParamsEquals(t) ==
  /\ On("NodeParams", "Equals", t)
  /\ "YAMLTOMLAssignments" \in opts /\ ~Annotated /\ ~Queued
  /\ Nop

NodeParamsTokenComment(t) ==
  /\ On("NodeParams", "TokenComment", t)
  /\ ignoreNextArgProp' = TRUE
  /\ UNCHANGED <<stack, held, ignoreNextNode, ignoreChildren, output>>

NodeParamsSingleLineComment(t) ==
  /\ On("NodeParams", "SingleLineComment", t)
  /\ Goto("NodeEnd")
  /\ UNCHANGED <<held, ignore, output>>

\* The one handler that sets continuation.
NodeParamsContinuation(t) == On("NodeParams", "Continuation", t) /\ Nop

(***************************************************************************)
(* A value is held: an = may follow and make it a property key.  A bare    *)
(* identifier can be nothing else, except in nginx syntax.                 *)
(***************************************************************************)
NodeParamsHold(t) ==
  /\ state = "NodeParams"
  /\ Handler(state, t) \in {"BareIdentifier", "ClassString", "ClassNonStringValue"}
  /\ ident' = t
  /\ Goto(IF Handler(state, t) = "BareIdentifier" /\ "NGINXSyntax" \notin opts
          THEN "Property" ELSE "ArgProp")
  /\ UNCHANGED <<typeAnnot, ignore, output>>

\* typeAnnot is cleared before the argument is added.
NodeParamsSuffixedDecimal(t) ==
  /\ On("NodeParams", "SuffixedDecimal", t)
  /\ typeAnnot' = NoToken /\ ident' = NoToken
  /\ IF ignoreNextArgProp THEN UNCHANGED nodes ELSE AddArgument(t, NoToken)
  /\ ignoreNextArgProp' = FALSE
  /\ UNCHANGED <<stack, ignoreNextNode, ignoreChildren, comment>>

NodeParamsBraceOpen(t) ==
  /\ On("NodeParams", "BraceOpen", t)
  /\ OpenBlock(ignoreNextArgProp)
  /\ UNCHANGED <<held, output>>

NodeParamsTerminator(t) ==
  /\ On("NodeParams", "ClassTerminator", t)
  /\ \/ Continuing(t) /\ UNCHANGED stack
     \/ ~Continuing(t) /\ ~Annotated /\ PopNodeAndState
  /\ UNCHANGED <<held, ignore, output>>

NodeEndWhitespace(t) == On("NodeEnd", "Whitespace", t) /\ Nop

NodeEndEndOfLine(t) ==
  /\ On("NodeEnd", "ClassEndOfLine", t)
  /\ IF Continuing(t) THEN Goto("NodeParams") ELSE PopNodeAndState
  /\ UNCHANGED <<held, ignore, output>>

-----------------------------------------------------------------------------
(* stateProperty, stateArgProp and statePropertyValue *)

PropertyEquals(t) ==
  /\ On("Property", "Equals", t)
  /\ ~Annotated
  /\ Goto("PropertyValue")
  /\ UNCHANGED <<held, ignore, output>>

KeyIDs == {"BareIdentifier", "QuotedString", "RawString"}

ArgPropEquals(t) ==
  /\ On("ArgProp", "Equals", t)
  /\ ~Annotated /\ ident.id \in KeyIDs
  /\ Goto("PropertyValue")
  /\ UNCHANGED <<held, ignore, output>>

ArgPropTokenComment(t) ==
  /\ On("ArgProp", "TokenComment", t)
  /\ FlushArgument
  /\ ident' = NoToken
  /\ ignoreNextArgProp' = TRUE
  /\ UNCHANGED <<stack, ignoreNextNode, ignoreChildren, comment>>

ArgPropWhitespace(t) ==
  /\ On("ArgProp", "Whitespace", t)
  /\ FlushArgument
  /\ ident' = NoToken
  /\ ignoreNextArgProp' = FALSE
  /\ Goto("NodeParams")
  /\ UNCHANGED <<ignoreNextNode, ignoreChildren, comment>>

\* The next value is held in place of the one before it.
ArgPropValue(t) ==
  /\ On("ArgProp", "ClassValue", t)
  /\ FlushArgument
  /\ ident' = t
  /\ ignoreNextArgProp' = FALSE
  /\ UNCHANGED <<stack, ignoreNextNode, ignoreChildren, comment>>

ArgPropBraceOpen(t) ==
  /\ On("ArgProp", "BraceOpen", t)
  /\ IF Queued THEN FlushArgument ELSE UNCHANGED <<nodes, typeAnnot>>
  /\ ident' = NoToken
  /\ OpenBlock(SkipAfterFlush)
  /\ UNCHANGED comment

\* Mutants of ArgPropTerminator: leave the held token, or forget its value.
ArgPropTerminatorKeepsIdent(t) ==
  /\ On("ArgProp", "ClassTerminator", t)
  /\ IF Queued THEN FlushArgument ELSE UNCHANGED <<nodes, typeAnnot>>
  /\ ignoreNextArgProp' = SkipAfterFlush
  /\ PopNodeAndState
  /\ UNCHANGED <<ident, ignoreNextNode, ignoreChildren, comment>>

ArgPropTerminatorDrops(t) ==
  /\ On("ArgProp", "ClassTerminator", t)
  /\ ident' = NoToken /\ typeAnnot' = NoToken
  /\ ignoreNextArgProp' = SkipAfterFlush
  /\ PopNodeAndState
  /\ UNCHANGED <<nodes, ignoreNextNode, ignoreChildren, comment>>

ArgPropTerminator(t) ==
  /\ On("ArgProp", "ClassTerminator", t)
  /\ IF Queued THEN FlushArgument ELSE UNCHANGED <<nodes, typeAnnot>>
  /\ ident' = NoToken
  /\ ignoreNextArgProp' = SkipAfterFlush
  /\ PopNodeAndState
  /\ UNCHANGED <<ignoreNextNode, ignoreChildren, comment>>

PropertyValueValue(t) ==
  /\ On("PropertyValue", "ClassValue", t)
  /\ IF ignoreNextArgProp THEN UNCHANGED nodes ELSE AddProperty(ident, t, typeAnnot)
  /\ typeAnnot' = NoToken /\ ident' = NoToken
  /\ ignoreNextArgProp' = FALSE
  /\ Goto("Node")
  /\ UNCHANGED <<ignoreNextNode, ignoreChildren, comment>>

-----------------------------------------------------------------------------
(* Why a handler fails *)

Unexpected(t) ==
  \/ Handler(state, t) = "none"
  \/ /\ Annotated
     /\ \/ AtBlockLevel /\ Handler(state, t) \in {"Whitespace", "ClassComment"}
        \/ On("Document", "ClassTerminator", t)
        \/ state = "NodeParams" /\ Handler(state, t) \in {"Whitespace", "MultiLineComment"}
        \/ On("NodeParams", "ClassTerminator", t) /\ ~Continuing(t)
        \/ state \in {"NodeParams", "Property", "ArgProp"} /\ Handler(state, t) = "Equals"
  \/ /\ state \in {"Node", "NodeParams"} /\ Handler(state, t) = "Equals"
     /\ "YAMLTOMLAssignments" \notin opts
  \/ On("NodeParams", "Equals", t) /\ Queued
  \/ On("ArgProp", "Equals", t) /\ ident.id \notin KeyIDs

\* Whether the handler of t adds the held token as an argument.
Flushes(t) ==
  /\ state = "ArgProp"
  /\ \/ Handler(state, t) \in {"TokenComment", "Whitespace", "ClassValue"}
     \/ Handler(state, t) \in {"BraceOpen", "ClassTerminator"} /\ Queued

\* The tokens whose text the handler turns into values of the current node.
Converted(t) ==
  CASE ignoreNextArgProp -> {}
    [] ~ignoreNextArgProp /\ Flushes(t) -> {ident}
    [] ~ignoreNextArgProp /\ On("NodeParams", "SuffixedDecimal", t) -> {t}
    [] ~ignoreNextArgProp /\ On("PropertyValue", "ClassValue", t) -> {ident, t}
    [] OTHER -> {}

Declares(t) == On("Document", "ClassIdentifier", t) \/ On("Children", "ClassIdentifier", t)

\* ValueFromToken fails.
BadValue(t) ==
  \/ \E v \in Converted(t) : v.form = "malformed"
  \/ Declares(t) /\ t.form = "malformed"

\* A method is called on a nil node, or a field of one is read.
NilNode(t) ==
  \/ Converted(t) # {} /\ node = << >>
  \/ On("Children", "BraceClose", t) /\ CommentWith(t, << >>) # << >> /\ lastAddedNode = 0

PopsNode(t) ==
  \/ On("Node", "ClassTerminator", t) /\ ~Continuing(t)
  \/ On("NodeParams", "ClassTerminator", t) /\ ~Continuing(t)
  \/ On("NodeEnd", "ClassEndOfLine", t) /\ ~Continuing(t)
  \/ On("ArgProp", "ClassTerminator", t)

PopsState(t) ==
  PopsNode(t) \/ On("Children", "BraceClose", t) \/ On("TypeDone", "ParensClose", t)

Failure(t) ==
  IF Unexpected(t) THEN "unexpected token"
  ELSE IF BadValue(t) THEN "bad value"
  ELSE IF NilNode(t) THEN "nil node"
  ELSE IF PopsState(t) /\ states = << >> THEN "state stack empty"
  ELSE IF PopsNode(t) /\ node = << >> THEN "node stack empty"
  ELSE "none"

Failures == {"unexpected token", "bad value", "nil node",
             "state stack empty", "node stack empty"}

-----------------------------------------------------------------------------
(* Parser.Parse, called by the scanning loop for each token up to EOF *)

Handle(t) ==
  \/ BlockWhitespace(t) \/ DocumentTerminator(t) \/ ChildrenNewline(t)
  \/ BlockComment(t) \/ BlockTokenComment(t)
  \/ DocumentIdentifier(t) \/ ChildrenIdentifier(t) \/ ChildrenBraceClose(t)
  \/ ParensOpen(t) \/ TypeAnnotName(t) \/ TypeDoneParensClose(t)
  \/ NodeWhitespace(t) \/ NodeTerminator(t) \/ NodeEquals(t)
  \/ NodeParamsBlank(t) \/ NodeParamsEquals(t) \/ NodeParamsTokenComment(t)
  \/ NodeParamsSingleLineComment(t) \/ NodeParamsContinuation(t)
  \/ NodeParamsHold(t) \/ NodeParamsSuffixedDecimal(t) \/ NodeParamsBraceOpen(t)
  \/ NodeParamsTerminator(t) \/ NodeEndWhitespace(t) \/ NodeEndEndOfLine(t)
  \/ PropertyEquals(t) \/ ArgPropEquals(t) \/ ArgPropTokenComment(t)
  \/ ArgPropWhitespace(t) \/ ArgPropValue(t) \/ ArgPropBraceOpen(t)
  \/ ArgPropTerminator(t) \/ PropertyValueValue(t)

\* Mutant of ContinuationAfter: never reset.
ContinuationSticks(t) == continuation \/ On("NodeParams", "Continuation", t)

\* Any token but blank space and comments is the first of the continued line.
ContinuationAfter(t) ==
  Continuing(t) \/ On("NodeParams", "Continuation", t)

Accept(t) ==
  /\ Failure(t) = "none"
  /\ Handle(t)
  /\ continuation' = ContinuationAfter(t)
  /\ result' = IF t.id = "EOF" THEN "done" ELSE "reading"

Reject(t) ==
  /\ Failure(t) # "none"
  /\ result' = Failure(t)
  /\ UNCHANGED <<stack, held, continuation, ignore, output>>

Parse(t) ==
  /\ result = "reading"
  /\ recent' = Seen(t)
  /\ UNCHANGED opts
  /\ Accept(t) \/ Reject(t)

\* NewContextOptions
Init ==
  /\ opts \in Options
  /\ states = << >> /\ state = "Document" /\ node = << >>
  /\ ident = NoToken /\ typeAnnot = NoToken
  /\ continuation = FALSE
  /\ ignoreNextNode = FALSE /\ ignoreNextArgProp = FALSE /\ ignoreChildren = 0
  /\ comment = << >> /\ recent = EmptyRing
  /\ nodes = << >>
  /\ result = "reading"
  /\ suppressed = << >>

\* For TLC: no step leads to a larger document or a deeper stack.
WithinBounds ==
  /\ Len(nodes) <= MaxNodes
  /\ Len(states) <= MaxDepth
  /\ \A n \in DOMAIN nodes : Len(nodes[n].args) + Len(nodes[n].props) <= MaxValues
  /\ Len(comment)
       + MapThenSumSet(LAMBDA n : Len(nodes[n].before) + Len(nodes[n].after), DOMAIN nodes)
       <= MaxComment

Next == (\E t \in Input : Parse(t)) /\ WithinBounds'

Spec == Init /\ [][Next]_vars

-----------------------------------------------------------------------------
(* Properties *)

NodeStates == {"Node", "NodeParams", "NodeEnd", "Property", "ArgProp", "PropertyValue"}
Annotating == state \in {"TypeAnnot", "TypeDone"}

(***************************************************************************)
(* The parse context always has the shape its fields are declared with.    *)
(***************************************************************************)
TypeOK ==
  /\ opts \in Options
  /\ states \in Seq(ParserStates) /\ state \in ParserStates
  /\ node \in Seq(DOMAIN nodes)
  /\ ident \in Token /\ typeAnnot \in Token
  /\ continuation \in BOOLEAN
  /\ ignoreNextNode \in BOOLEAN /\ ignoreNextArgProp \in BOOLEAN
  /\ ignoreChildren \in Nat
  /\ comment \in Seq(Bytes)
  /\ recent \in Ring
  /\ nodes \in Seq(Node)
  /\ result \in {"reading", "done"} \cup Failures
  /\ suppressed \in Seq(BOOLEAN)

(***************************************************************************)
(* The two stacks of the context move together.  Below the current state   *)
(* block levels and nodes alternate, the document at the bottom; there is  *)
(* one node on the node stack for each node level, one open { for each     *)
(* Children level; a type annotation is only ever read on top of a state   *)
(* that can receive it.                                                    *)
(***************************************************************************)
BlockStatesAlternate ==
  \A i \in DOMAIN states :
    IF i % 2 = 1
    THEN states[i] = IF i = 1 THEN "Document" ELSE "Children"
    ELSE /\ states[i] \in {"NodeParams", "ArgProp", "PropertyValue"}
         /\ states[i] = "PropertyValue" => i = Len(states) /\ Annotating

CurrentStateFitsStacks ==
  /\ state = "Document" => states = << >> /\ node = << >>
  /\ state = "Children" => node # << >> /\ Len(states) = 2 * Len(node)
  /\ state \in NodeStates => node # << >> /\ Len(states) = 2 * Len(node) - 1
  /\ Annotating => /\ Len(states) \in {2 * Len(node), 2 * Len(node) + 1}
                   /\ states # << >> /\ Last(states) # "ArgProp"

OpenBracesMatch ==
  Len(suppressed) = IF AtBlockLevel \/ (Annotating /\ Len(states) % 2 = 1)
                    THEN Len(node) ELSE Len(node) - 1

StackShape == BlockStatesAlternate /\ CurrentStateFitsStacks /\ OpenBracesMatch

(***************************************************************************)
(* Whatever tokens arrive, no handler pops an empty stack and none uses a  *)
(* nil node: every failure is a complaint about the input.                 *)
(***************************************************************************)
NoInternalError ==
  result \notin {"nil node", "state stack empty", "node stack empty"}

(***************************************************************************)
(* A token is held exactly while its meaning is open: as a possible key    *)
(* after a value (ArgProp), as a certain one (Property, PropertyValue).    *)
(* None outlives its node, so none is lost or given to another node.  This *)
(* is about c.ident; the other held token, c.typeAnnot, is not covered.    *)
(***************************************************************************)
HeldTokenHasAnOwner ==
  LET inPropertyValue == \/ state = "PropertyValue"
                         \/ Annotating /\ Last(states) = "PropertyValue"
  IN  /\ state = "Property" \/ inPropertyValue => ident.id \in KeyIDs
      /\ Queued => state \in {"Property", "ArgProp"} \/ inPropertyValue

(***************************************************************************)
(* A \ has an effect only on the node it is read in: while one has, the    *)
(* parser is between the values of a node or in a comment at the end of    *)
(* one of its lines, never between nodes, in a child block or in the       *)
(* middle of a value.  How many lines it continues is another matter:      *)
(* parser.go:77-84 keeps it over any number of newlines and comments, so   *)
(* that blank lines after a \ do not end the node (context.go:45 speaks of *)
(* "the next newline").                                                    *)
(***************************************************************************)
ContinuationStaysInNode ==
  continuation => state \in {"NodeParams", "NodeEnd"}

(***************************************************************************)
(* ignoreChildren counts the open blocks a /- covers, and these are the    *)
(* innermost ones: a } never uncovers a block that is still open.          *)
(***************************************************************************)
SuppressedBlocksCounted ==
  /\ ignoreChildren <= Len(suppressed)
  /\ \A i \in DOMAIN suppressed :
       suppressed[i] <=> i > Len(suppressed) - ignoreChildren

(***************************************************************************)
(* Every open node was attached to the open node around it, or is left out *)
(* because a /- covered it: the tree follows the nesting of the text.      *)
(***************************************************************************)
OpenNodesNest ==
  \A k \in DOMAIN node :
    nodes[node[k]].parent \in {Detached, IF k = 1 THEN Root ELSE node[k - 1]}

Content(n) == <<n.parent, n.name, n.type, n.args, n.props>>

(***************************************************************************)
(* The arguments and properties, the name and the type of a node are final *)
(* once it is closed, and do not change while one of its children is read: *)
(* only the current node gets arguments and properties.  Its comments are  *)
(* left out: a closed node may still get one after it, at the } of the     *)
(* block it is in (transitions.go:152-160).                                *)
(***************************************************************************)
OnlyCurrentNodeChanges ==
  [][\A n \in DOMAIN nodes :
       Content(nodes'[n]) # Content(nodes[n]) => node # << >> /\ n = currentNode]_vars

(***************************************************************************)
(* While a block a /- covers is open, no node, no argument and no property *)
(* that is read reaches the document.  A comment may: at the } it goes     *)
(* after the node created last, which may be one of the document           *)
(* (transitions.go:152-160), and is written with it.                       *)
(***************************************************************************)
SuppressedBlocksLeaveNoTrace ==
  [][(\E i \in DOMAIN suppressed : suppressed[i]) =>
       \A n \in DOMAIN nodes' :
         nodes'[n].parent # Detached =>
           n \in DOMAIN nodes /\ Content(nodes'[n]) = Content(nodes[n])]_vars

(***************************************************************************)
(* A held value leaves the context in one of three ways: as an argument of *)
(* the current node, as a property key of it, or dropped under a /-.       *)
(***************************************************************************)
HeldValueAccountedFor ==
  [][Queued /\ ident' # ident =>
       LET was == nodes[currentNode]
           is  == nodes'[currentNode]
       IN  IF ignoreNextArgProp THEN is = was
           ELSE \/ /\ is.args = Append(was.args, [val |-> ident.id, type |-> typeAnnot.id])
                   /\ is.props = was.props
                \/ /\ is.args = was.args
                   /\ is.props # was.props /\ Front(is.props) = was.props
                   /\ Last(is.props).key = ident.id]_vars

CommentsAt(n, side, bytes) == { <<n, side, i>> : i \in { i \in DOMAIN bytes : bytes[i] = "c" } }

PendingComments == CommentsAt(0, "pending", comment)

PlacedComments ==
  UNION { CommentsAt(n, "before", nodes[n].before) \cup CommentsAt(n, "after", nodes[n].after) :
            n \in DOMAIN nodes }

CommentCount == Cardinality(PendingComments \cup PlacedComments)

(***************************************************************************)
(* A comment read between nodes is on exactly one node or still pending:   *)
(* no later token loses it or writes it twice.                             *)
(***************************************************************************)
CommentsConserved ==
  [][\/ CommentCount' = CommentCount
     \/ CommentCount' = CommentCount + 1 /\ AtBlockLevel /\ UNCHANGED <<node, states>>]_vars

-----------------------------------------------------------------------------
(* What the source says of the program and the program does not do *)

(***************************************************************************)
(* An argument is only added for a value that was held: transitions.go     *)
(* flushes "if we already have an identifier queued".  After a child block *)
(* the node is still in ArgProp with nothing held.                         *)
(***************************************************************************)
EveryArgumentWasWritten ==
  \A n \in DOMAIN nodes : \A a \in DOMAIN nodes[n].args : nodes[n].args[a].val # Unknown
=============================================================================
