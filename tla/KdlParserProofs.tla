--------------------------- MODULE KdlParserProofs ---------------------------
(***************************************************************************)
(* What holds of the parser for every token stream, every option set, and  *)
(* documents of any size and depth: the shape of its stacks, and what it   *)
(* does with the tokens it holds, the continuation it has seen and the     *)
(* blocks a /- covers.  Each invariant is inductive together with IInv.    *)
(***************************************************************************)
EXTENDS KdlParserTree, SequenceTheorems, FiniteSetTheorems, TLAPS

-----------------------------------------------------------------------------
(* Tokens, the ring and comment bytes *)

\* The steps are proved for any token, so that a parser that is fed by a scanner
\* and not from Input has the same lemmas.
ValidToken == { t \in Token : Valid(t) }

LEMMA ValidTokens ==
  \A t \in ValidToken : t \in Token /\ t.id \in TokenIDs /\ Valid(t)
  BY DEF ValidToken, Token, Valid

LEMMA InputIsValid == Input \subseteq ValidToken
  BY InputAssumption DEF ValidToken

LEMMA NoTokenType == NoToken \in Token /\ ~Valid(NoToken)
  BY DEF NoToken, Token, Forms, Valid

LEMMA RingAddType ==
  ASSUME NEW r \in Ring, NEW t \in Token
  PROVE  RingAdd(r, t) \in Ring
<1>1. (r.head + 1) % RecentCount \in Slots
  BY RecentCountAssumption DEF Ring, Slots
<1>2. QED
  BY <1>1 DEF Ring, RingAdd

\* The ring gives the parser nothing but newline bytes.
LEMMA BlankLinesAreNewlines ==
  ASSUME NEW r
  PROVE  BlankLines(r) \in Seq({"nl"})
<1> DEFINE w == FromOldest(r)
           blank == { i \in 1 .. RecentCount - 1 :
                        /\ w[i].id = "Newline"
                        /\ \A j \in i .. RecentCount - 1 : w[j].id \in {"Newline", "Whitespace"}
                        /\ i > 1 /\ w[i - 1].id \notin Insignificant => w[i].form = "wide" }
<1>1. IsFiniteSet(blank)
  <2>1. IsFiniteSet(1 .. RecentCount - 1)
    BY FS_Interval, RecentCountAssumption
  <2>2. QED
    BY <2>1, FS_Subset
<1>2. Cardinality(blank) \in Nat
  BY <1>1, FS_CardinalityType
<1>3. [k \in 1 .. Cardinality(blank) |-> "nl"] \in Seq({"nl"})
  BY <1>2, IsASeq
<1>4. QED
  BY <1>3 DEF BlankLines

LEMMA BlankLinesType ==
  ASSUME NEW r
  PROVE  BlankLines(r) \in Seq(Bytes)
  BY BlankLinesAreNewlines, SeqMonotonic DEF Bytes

LEMMA CommentWithType ==
  ASSUME comment \in Seq(Bytes), NEW t, NEW b \in Seq(Bytes)
  PROVE  CommentWith(t, b) \in Seq(Bytes)
<1>1. comment \o BlankLines(Seen(t)) \in Seq(Bytes)
  BY BlankLinesType, ConcatProperties
<1>2. (comment \o BlankLines(Seen(t))) \o b \in Seq(Bytes)
  BY <1>1, ConcatProperties
<1>3. QED
  BY <1>2 DEF CommentWith

LEMMA EmptyMeansZero ==
  ASSUME NEW S, NEW s \in Seq(S)
  PROVE  (s = << >> <=> Len(s) = 0) /\ Len(s) \in Nat
  BY EmptySeq, LenProperties

LEMMA FrontType ==
  ASSUME NEW S, NEW s \in Seq(S), s # << >>
  PROVE  /\ Front(s) \in Seq(S)
         /\ Len(Front(s)) = Len(s) - 1
         /\ \A i \in 1 .. Len(s) - 1 : Front(s)[i] = s[i]
         /\ Last(s) \in S
         /\ Len(s) \in Nat \ {0}
<1>1. Len(s) \in Nat \ {0}
  BY EmptySeq
<1>2. \A i \in 1 .. Len(s) - 1 : s[i] \in S
  BY <1>1, ElementOfSeq
<1> DEFINE n == Len(s) - 1
<1>3. /\ SubSeq(s, 1, n) \in Seq(S)
      /\ Len(SubSeq(s, 1, n)) = IF 1 <= n THEN n - 1 + 1 ELSE 0
      /\ \A i \in 1 .. n - 1 + 1 : SubSeq(s, 1, n)[i] = s[1 + i - 1]
  <2>1. n \in Int /\ \A i \in 1 .. n : s[i] \in S
    BY <1>1, <1>2
  <2> HIDE DEF n
  <2>2. QED
    BY <2>1, SubSeqProperties
<1>4. s[Len(s)] \in S
  BY <1>1, ElementOfSeq
<1>5. Len(Front(s)) = Len(s) - 1
  <2>1. n \in Nat /\ Front(s) = SubSeq(s, 1, n)
    BY <1>1 DEF Front
  <2>2. Len(SubSeq(s, 1, n)) = n
    <3> HIDE DEF n
    <3>1. QED
      BY <1>3, <2>1
  <2>3. QED
    BY <2>1, <2>2
<1>6. ASSUME NEW i \in 1 .. Len(s) - 1
      PROVE  Front(s)[i] = s[i]
  <2>1. i \in 1 .. Len(s) - 1 - 1 + 1 /\ 1 + i - 1 = i
    BY <1>1
  <2>2. QED
    BY <1>3, <2>1 DEF Front
<1>7. Front(s) \in Seq(S) /\ Last(s) \in S
  BY <1>3, <1>4 DEF Front, Last
<1>8. QED
  BY <1>1, <1>5, <1>6, <1>7

LEMMA TrimNewlineType ==
  ASSUME NEW b \in Seq(Bytes)
  PROVE  TrimNewline(b) \in Seq(Bytes)
  BY FrontType DEF TrimNewline

-----------------------------------------------------------------------------
(* What one handled token does to the context: the actions, sorted by the  *)
(* variables they change.                                                  *)

LEMMA HeldStep ==
  ASSUME NEW t, Handle(t)
  PROVE  ident' \in {ident, t, NoToken} /\ typeAnnot' \in {typeAnnot, t, NoToken}
  BY DEF Handle, BlockWhitespace, DocumentTerminator, ChildrenNewline, BlockComment,
         BlockTokenComment, DocumentIdentifier, ChildrenIdentifier, ChildrenBraceClose,
         ParensOpen, TypeAnnotName, TypeDoneParensClose, NodeWhitespace, NodeTerminator,
         NodeEquals, NodeParamsBlank, NodeParamsEquals, NodeParamsTokenComment,
         NodeParamsSingleLineComment, NodeParamsContinuation, NodeParamsHold,
         NodeParamsSuffixedDecimal, NodeParamsBraceOpen, NodeParamsTerminator,
         NodeEndWhitespace, NodeEndEndOfLine, PropertyEquals, ArgPropEquals,
         ArgPropTokenComment, ArgPropWhitespace, ArgPropValue, ArgPropBraceOpen,
         ArgPropTerminator, PropertyValueValue,
         DeclareNode, FlushArgument, Nop, held

(***************************************************************************)
(* The nine ways a token moves the stacks.                                 *)
(***************************************************************************)
Stays == UNCHANGED stack

MovesInNode ==
  /\ state \in NodeStates /\ state' \in NodeStates
  /\ UNCHANGED <<states, node, suppressed>>

EntersNode ==
  /\ AtBlockLevel
  /\ states' = Append(states, state) /\ state' = "Node"
  /\ node' = Append(node, Len(nodes) + 1)
  /\ \E new \in Node : nodes' = Append(nodes, new)
  /\ UNCHANGED suppressed

LeavesNode ==
  /\ state \in NodeStates
  /\ states # << >> /\ state' = Last(states) /\ states' = Front(states)
  /\ node # << >> /\ node' = Front(node)
  /\ UNCHANGED suppressed

EntersBlock ==
  /\ state \in {"NodeParams", "ArgProp"}
  /\ states' = Append(states, state) /\ state' = "Children"
  /\ \E skip \in BOOLEAN :
       suppressed' = Append(suppressed, skip \/ (suppressed # << >> /\ Last(suppressed)))
  /\ UNCHANGED node

LeavesBlock ==
  /\ state = "Children"
  /\ states # << >> /\ state' = Last(states) /\ states' = Front(states)
  /\ suppressed' = Front(suppressed)
  /\ UNCHANGED node

EntersAnnotation ==
  /\ state \in {"Document", "Children", "NodeParams", "PropertyValue"}
  /\ states' = Append(states, state) /\ state' = "TypeAnnot"
  /\ UNCHANGED <<node, suppressed>>

NamesAnnotation ==
  /\ state = "TypeAnnot" /\ state' = "TypeDone"
  /\ UNCHANGED <<states, node, suppressed>>

LeavesAnnotation ==
  /\ state = "TypeDone"
  /\ states # << >> /\ state' = Last(states) /\ states' = Front(states)
  /\ UNCHANGED <<node, suppressed>>

StackMove ==
  \/ Stays \/ MovesInNode \/ EntersNode \/ LeavesNode \/ EntersBlock \/ LeavesBlock
  \/ EntersAnnotation \/ NamesAnnotation \/ LeavesAnnotation

LEMMA DeclaredType ==
  ASSUME TypeOK, NEW t \in Token, Valid(t), NEW skip \in BOOLEAN
  PROVE  Declared(t, skip) \in Node
<1>1. << >> \in Seq(Bytes) /\ comment \in Seq(Bytes) /\ typeAnnot \in Token
  BY DEF TypeOK
<1>2. TrimNewline(CommentWith(t, << >>)) \in Seq(Bytes)
  BY <1>1, CommentWithType, TrimNewlineType
<1>3. node # << >> => currentNode \in Nat
  <2>1. DOMAIN nodes \subseteq Nat /\ node \in Seq(DOMAIN nodes)
    BY LenProperties DEF TypeOK
  <2>2. QED
    BY <2>1, FrontType DEF currentNode
<1>4. /\ (IF skip THEN Detached ELSE IF node = << >> THEN Root ELSE currentNode)
           \in Nat \cup {Detached}
      /\ t.id \in TokenIDs /\ typeAnnot.id \in TokenIDs \cup {Unknown}
  BY <1>1, <1>3 DEF Root, Detached, Token, Valid
<1>5. QED
  BY <1>1, <1>2, <1>4 DEF Declared, Node

LEMMA StackStep ==
  ASSUME TypeOK, NEW t \in ValidToken, Handle(t)
  PROVE  StackMove
<1>1. CASE \/ BlockWhitespace(t) \/ DocumentTerminator(t) \/ ChildrenNewline(t)
           \/ BlockComment(t) \/ BlockTokenComment(t) \/ NodeParamsBlank(t)
           \/ NodeParamsEquals(t) \/ NodeParamsTokenComment(t) \/ NodeParamsContinuation(t)
           \/ NodeParamsSuffixedDecimal(t) \/ NodeEndWhitespace(t)
           \/ ArgPropTokenComment(t) \/ ArgPropValue(t)
  <2>1. Stays
    BY <1>1 DEF Stays, Nop, stack, BlockWhitespace, DocumentTerminator, ChildrenNewline,
             BlockComment, BlockTokenComment, NodeParamsBlank, NodeParamsEquals,
             NodeParamsTokenComment, NodeParamsContinuation, NodeParamsSuffixedDecimal,
             NodeEndWhitespace, ArgPropTokenComment, ArgPropValue
  <2>2. QED
    BY <2>1 DEF StackMove
<1>2. CASE \/ NodeWhitespace(t) \/ NodeEquals(t) \/ NodeParamsSingleLineComment(t)
           \/ NodeParamsHold(t) \/ PropertyEquals(t) \/ ArgPropEquals(t)
           \/ ArgPropWhitespace(t) \/ PropertyValueValue(t)
  <2>1. MovesInNode
    BY <1>2 DEF MovesInNode, NodeStates, Goto, On, NodeWhitespace, NodeEquals,
             NodeParamsSingleLineComment, NodeParamsHold, PropertyEquals, ArgPropEquals,
             ArgPropWhitespace, PropertyValueValue
  <2>2. QED
    BY <2>1 DEF StackMove
<1>3. CASE DocumentIdentifier(t) \/ ChildrenIdentifier(t)
  <2>1. PICK skip \in BOOLEAN : DeclareNode(t, skip)
    BY <1>3 DEF DocumentIdentifier, ChildrenIdentifier, TypeOK
  <2>2. Declared(t, skip) \in Node
    BY ValidTokens, DeclaredType
  <2>3. EntersNode
    BY <1>3, <2>1, <2>2
    DEF EntersNode, DocumentIdentifier, ChildrenIdentifier, DeclareNode, On,
        AtBlockLevel, PushState
  <2>4. QED
    BY <2>3 DEF StackMove
<1>4. CASE NodeTerminator(t) \/ NodeParamsTerminator(t)
  <2>1. Stays \/ LeavesNode
    BY <1>4 DEF Stays, LeavesNode, NodeTerminator, NodeParamsTerminator, On, NodeStates,
             PopNodeAndState, PopState, stack
  <2>2. QED
    BY <2>1 DEF StackMove
<1>5. CASE NodeEndEndOfLine(t) \/ ArgPropTerminator(t)
  <2>1. MovesInNode \/ LeavesNode
    BY <1>5 DEF MovesInNode, LeavesNode, NodeEndEndOfLine, ArgPropTerminator, On, Goto,
             NodeStates, PopNodeAndState, PopState
  <2>2. QED
    BY <2>1 DEF StackMove
<1>6. CASE NodeParamsBraceOpen(t) \/ ArgPropBraceOpen(t)
  <2>1. PICK skip \in BOOLEAN : OpenBlock(skip)
    BY <1>6 DEF NodeParamsBraceOpen, ArgPropBraceOpen, SkipAfterFlush, Queued, Valid, TypeOK
  <2>2. EntersBlock
    BY <1>6, <2>1 DEF EntersBlock, NodeParamsBraceOpen, ArgPropBraceOpen, On, OpenBlock,
             PushState
  <2>3. QED
    BY <2>2 DEF StackMove
<1>7. CASE ChildrenBraceClose(t) \/ ParensOpen(t) \/ TypeAnnotName(t) \/ TypeDoneParensClose(t)
  <2>1. LeavesBlock \/ EntersAnnotation \/ NamesAnnotation \/ LeavesAnnotation
    BY <1>7 DEF LeavesBlock, EntersAnnotation, NamesAnnotation, LeavesAnnotation,
             ChildrenBraceClose, ParensOpen, TypeAnnotName, TypeDoneParensClose, On, Goto,
             PushState, PopState
  <2>2. QED
    BY <2>1 DEF StackMove
<1>8. QED
  BY <1>1, <1>2, <1>3, <1>4, <1>5, <1>6, <1>7 DEF Handle

-----------------------------------------------------------------------------
(* The stacks keep their shape *)

StacksTyped ==
  /\ states \in Seq(ParserStates) /\ state \in ParserStates
  /\ node \in Seq(Nat) /\ suppressed \in Seq(BOOLEAN)

LEMMA AppendFacts ==
  ASSUME NEW S, NEW s \in Seq(S), NEW e \in S
  PROVE  /\ Append(s, e) \in Seq(S) /\ Append(s, e) # << >>
         /\ Len(Append(s, e)) = Len(s) + 1
         /\ \A i \in 1 .. Len(s) : Append(s, e)[i] = s[i]
         /\ Append(s, e)[Len(s) + 1] = e /\ Last(Append(s, e)) = e
  BY AppendProperties, LenProperties DEF Last

(***************************************************************************)
(* Pushing the current state keeps the alternation of the states below it. *)
(***************************************************************************)
LEMMA PushKeepsShape ==
  ASSUME StacksTyped, StackShape, EntersNode \/ EntersBlock \/ EntersAnnotation
  PROVE  StackShape'
<1>0. states' = Append(states, state) /\ states \in Seq(ParserStates) /\ state \in ParserStates
  BY DEF StacksTyped, EntersNode, EntersBlock, EntersAnnotation
<1>1. /\ Len(states') = Len(states) + 1 /\ Len(states) \in Nat
      /\ states' # << >> /\ Last(states') = state
      /\ \A i \in 1 .. Len(states) : states'[i] = states[i]
      /\ states'[Len(states) + 1] = state
      /\ DOMAIN states = 1 .. Len(states) /\ DOMAIN states' = 1 .. Len(states) + 1
  BY <1>0, AppendFacts, LenProperties
<1>2. /\ Len(node) \in Nat /\ Len(suppressed) \in Nat
      /\ (node = << >> <=> Len(node) = 0) /\ (states = << >> <=> Len(states) = 0)
  BY <1>0, EmptySeq DEF StacksTyped
<1>3. ~Annotating /\ state \notin {"TypeAnnot", "TypeDone"}
  BY DEF EntersNode, EntersBlock, EntersAnnotation, AtBlockLevel, Annotating
<1>4. \A i \in 1 .. Len(states) :
        IF i % 2 = 1
        THEN states'[i] = IF i = 1 THEN "Document" ELSE "Children"
        ELSE states'[i] \in {"NodeParams", "ArgProp"}
  BY <1>1, <1>3 DEF StackShape, BlockStatesAlternate
<1>5. CASE EntersNode
  <2>1. Len(node') = Len(node) + 1 /\ node' # << >> /\ suppressed' = suppressed
    BY <1>5, AppendFacts DEF EntersNode, StacksTyped
  <2>2. Len(states) = 2 * Len(node) /\ Len(suppressed) = Len(node) /\ state' = "Node"
    BY <1>2, <1>5 DEF EntersNode, AtBlockLevel, StackShape, CurrentStateFitsStacks, OpenBracesMatch
  <2>3. (Len(states) + 1) % 2 = 1 /\ (Len(states) + 1 = 1 <=> states = << >>)
    BY <1>1, <1>2, <2>2
  <2>4. state = IF Len(states) + 1 = 1 THEN "Document" ELSE "Children"
    BY <1>2, <1>5, <2>2, <2>3
    DEF EntersNode, AtBlockLevel, StackShape, CurrentStateFitsStacks
  <2>5. BlockStatesAlternate'
    BY <1>1, <1>4, <2>3, <2>4 DEF BlockStatesAlternate
  <2>6. CurrentStateFitsStacks'
    BY <1>1, <2>1, <2>2 DEF CurrentStateFitsStacks, Annotating, NodeStates
  <2>7. OpenBracesMatch'
    BY <1>1, <2>1, <2>2 DEF OpenBracesMatch, Annotating, AtBlockLevel
  <2>8. QED
    BY <2>5, <2>6, <2>7 DEF StackShape
<1>6. CASE EntersBlock
  <2>1. /\ Len(suppressed') = Len(suppressed) + 1 /\ node' = node
        /\ state' = "Children" /\ state \in {"NodeParams", "ArgProp"}
    <3>1. PICK skip \in BOOLEAN :
            suppressed' = Append(suppressed, skip \/ (suppressed # << >> /\ Last(suppressed)))
      BY <1>6 DEF EntersBlock
    <3>2. (skip \/ (suppressed # << >> /\ Last(suppressed))) \in BOOLEAN
      OBVIOUS
    <3>3. QED
      BY <1>6, <3>1, <3>2, AppendFacts DEF EntersBlock, StacksTyped
  <2>2. /\ node # << >> /\ Len(states) = 2 * Len(node) - 1
        /\ Len(suppressed) = Len(node) - 1
    BY <1>3, <2>1
    DEF AtBlockLevel, StackShape, CurrentStateFitsStacks, OpenBracesMatch, NodeStates, Annotating
  <2>3. (Len(states) + 1) % 2 = 0
    BY <1>1, <1>2, <2>2
  <2>4. BlockStatesAlternate'
    BY <1>1, <1>4, <2>1, <2>3 DEF BlockStatesAlternate
  <2>5. CurrentStateFitsStacks'
    BY <1>1, <1>2, <2>1, <2>2 DEF CurrentStateFitsStacks, Annotating, NodeStates
  <2>6. OpenBracesMatch'
    BY <1>1, <1>2, <2>1, <2>2 DEF OpenBracesMatch, Annotating, AtBlockLevel
  <2>7. QED
    BY <2>4, <2>5, <2>6 DEF StackShape
<1>7. CASE EntersAnnotation
  <2>1. node' = node /\ suppressed' = suppressed /\ state' = "TypeAnnot"
    BY <1>7 DEF EntersAnnotation
  <2>2. CASE AtBlockLevel
    <3>1. Len(states) = 2 * Len(node) /\ Len(suppressed) = Len(node)
      BY <1>2, <2>2 DEF AtBlockLevel, StackShape, CurrentStateFitsStacks, OpenBracesMatch
    <3>2. (Len(states) + 1) % 2 = 1 /\ (Len(states) + 1 = 1 <=> states = << >>)
      BY <1>1, <1>2, <3>1
    <3>3. state = IF Len(states) + 1 = 1 THEN "Document" ELSE "Children"
      BY <1>2, <2>2, <3>1, <3>2 DEF AtBlockLevel, StackShape, CurrentStateFitsStacks
    <3>4. BlockStatesAlternate'
      BY <1>1, <1>4, <3>2, <3>3 DEF BlockStatesAlternate
    <3>5. CurrentStateFitsStacks'
      BY <1>1, <2>1, <2>2, <3>1
      DEF CurrentStateFitsStacks, Annotating, NodeStates, AtBlockLevel
    <3>6. OpenBracesMatch'
      BY <1>1, <2>1, <3>1, <3>2 DEF OpenBracesMatch, Annotating, AtBlockLevel
    <3>7. QED
      BY <3>4, <3>5, <3>6 DEF StackShape
  <2>3. CASE state \in {"NodeParams", "PropertyValue"}
    <3>1. /\ node # << >> /\ Len(states) = 2 * Len(node) - 1
          /\ Len(suppressed) = Len(node) - 1
      BY <1>3, <2>3
      DEF AtBlockLevel, StackShape, CurrentStateFitsStacks, OpenBracesMatch, NodeStates, Annotating
    <3>2. (Len(states) + 1) % 2 = 0
      BY <1>1, <1>2, <3>1
    <3>3. BlockStatesAlternate'
      BY <1>1, <1>4, <2>1, <2>3, <3>2 DEF BlockStatesAlternate, Annotating
    <3>4. CurrentStateFitsStacks'
      BY <1>1, <1>2, <2>1, <2>3, <3>1 DEF CurrentStateFitsStacks, Annotating, NodeStates
    <3>5. OpenBracesMatch'
      BY <1>1, <1>2, <2>1, <3>1, <3>2 DEF OpenBracesMatch, Annotating, AtBlockLevel
    <3>6. QED
      BY <3>3, <3>4, <3>5 DEF StackShape
  <2>4. QED
    BY <1>7, <2>2, <2>3 DEF EntersAnnotation, AtBlockLevel
<1>8. QED
  BY <1>5, <1>6, <1>7

(***************************************************************************)
(* Popping a state returns to the one a node, a block or an annotation was *)
(* read in.                                                                *)
(***************************************************************************)
LEMMA PopKeepsShape ==
  ASSUME StacksTyped, StackShape, LeavesNode \/ LeavesBlock \/ LeavesAnnotation
  PROVE  StackShape'
<1>0. /\ states' = Front(states) /\ state' = Last(states) /\ states # << >>
      /\ states \in Seq(ParserStates)
  BY DEF StacksTyped, LeavesNode, LeavesBlock, LeavesAnnotation
<1>1. /\ Len(states) \in Nat \ {0} /\ Len(states') = Len(states) - 1
      /\ \A i \in 1 .. Len(states) - 1 : states'[i] = states[i]
      /\ state' = states[Len(states)] /\ states' \in Seq(ParserStates)
  BY <1>0, FrontType DEF Last
<1>2. /\ DOMAIN states = 1 .. Len(states) /\ DOMAIN states' = 1 .. Len(states) - 1
      /\ (states' = << >> <=> Len(states') = 0)
  <2>1. DOMAIN states = 1 .. Len(states)
    BY ONLY <1>0, LenProperties
  <2>2. DOMAIN states' = 1 .. Len(states')
    BY ONLY <1>1, LenProperties
  <2>3. states' = << >> <=> Len(states') = 0
    BY ONLY <1>1, EmptySeq
  <2>4. QED
    BY <1>1, <2>1, <2>2, <2>3
<1>3. /\ Len(node) \in Nat /\ Len(suppressed) \in Nat
      /\ (node = << >> <=> Len(node) = 0) /\ (suppressed = << >> <=> Len(suppressed) = 0)
  <2>1. node \in Seq(Nat) /\ suppressed \in Seq(BOOLEAN)
    BY DEF StacksTyped
  <2>2. Len(node) \in Nat /\ (node = << >> <=> Len(node) = 0)
    BY ONLY <2>1, EmptyMeansZero
  <2>3. Len(suppressed) \in Nat /\ (suppressed = << >> <=> Len(suppressed) = 0)
    BY ONLY <2>1, EmptyMeansZero, ZenonT(30)
  <2>4. QED
    BY <2>2, <2>3
<1>4. \A i \in 1 .. Len(states) :
        IF i % 2 = 1
        THEN states[i] = IF i = 1 THEN "Document" ELSE "Children"
        ELSE /\ states[i] \in {"NodeParams", "ArgProp", "PropertyValue"}
             /\ states[i] = "PropertyValue" => i = Len(states) /\ Annotating
  BY <1>2 DEF StackShape, BlockStatesAlternate
<1>5. BlockStatesAlternate'
  <2>1. ASSUME NEW i \in 1 .. Len(states) - 1
        PROVE  IF i % 2 = 1
               THEN states'[i] = IF i = 1 THEN "Document" ELSE "Children"
               ELSE states'[i] \in {"NodeParams", "ArgProp"}
    <3>1. i \in 1 .. Len(states) /\ i # Len(states)
      BY <1>1
    <3>2. QED
      BY <1>1, <1>4, <3>1
  <2>2. QED
    BY <1>2, <2>1 DEF BlockStatesAlternate
<1>6. Len(states) \in 1 .. Len(states)
  BY <1>1
<1>7. CASE LeavesNode
  <2>1. /\ node # << >> /\ Len(states) = 2 * Len(node) - 1
        /\ Len(suppressed) = Len(node) - 1
    BY <1>7
    DEF LeavesNode, AtBlockLevel, StackShape, CurrentStateFitsStacks, OpenBracesMatch,
        NodeStates, Annotating
  <2>2. node' \in Seq(Nat) /\ Len(node') = Len(node) - 1 /\ suppressed' = suppressed
    BY <1>7, FrontType DEF LeavesNode, StacksTyped
  <2>3. (node' = << >> <=> Len(node') = 0) /\ Len(states) % 2 = 1
    <3>1. node' = << >> <=> Len(node') = 0
      BY ONLY <2>2, EmptySeq
    <3>2. Len(states) % 2 = 1
      BY ONLY <1>3, <2>1
    <3>3. QED
      BY <3>1, <3>2
  <2>4. state' = IF Len(states) = 1 THEN "Document" ELSE "Children"
    BY <1>1, <1>4, <1>6, <2>3
  <2>5. CurrentStateFitsStacks'
    BY <1>1, <1>2, <1>3, <2>1, <2>2, <2>3, <2>4
    DEF CurrentStateFitsStacks, Annotating, NodeStates
  <2>6. OpenBracesMatch'
    BY <2>1, <2>2, <2>4 DEF OpenBracesMatch, AtBlockLevel
  <2>7. QED
    BY <1>5, <2>5, <2>6 DEF StackShape
<1>8. CASE LeavesBlock
  <2>1. /\ node # << >> /\ Len(states) = 2 * Len(node) /\ Len(suppressed) = Len(node)
        /\ ~Annotating
    BY <1>8
    DEF LeavesBlock, AtBlockLevel, StackShape, CurrentStateFitsStacks, OpenBracesMatch, Annotating
  <2>2. node' = node /\ Len(suppressed') = Len(suppressed) - 1
    BY <1>3, <1>8, <2>1, FrontType DEF LeavesBlock, StacksTyped
  <2>3. Len(states) % 2 = 0
    BY <1>3, <2>1
  <2>4. state' \in {"NodeParams", "ArgProp"}
    BY <1>1, <1>4, <1>6, <2>1, <2>3
  <2>5. CurrentStateFitsStacks'
    BY <1>1, <2>1, <2>2, <2>4 DEF CurrentStateFitsStacks, Annotating
  <2>6. OpenBracesMatch'
    BY <1>3, <2>1, <2>2, <2>4 DEF OpenBracesMatch, AtBlockLevel, Annotating
  <2>7. QED
    BY <1>5, <2>5, <2>6 DEF StackShape
<1>9. CASE LeavesAnnotation
  <2>1. /\ node' = node /\ suppressed' = suppressed /\ Annotating
        /\ ~AtBlockLevel
    BY <1>9 DEF LeavesAnnotation, Annotating, AtBlockLevel
  <2>2. Len(states) \in {2 * Len(node), 2 * Len(node) + 1} /\ Last(states) # "ArgProp"
    BY <2>1 DEF StackShape, CurrentStateFitsStacks
  <2>3. CASE Len(states) = 2 * Len(node) + 1
    <3>1. Len(states) % 2 = 1 /\ Len(suppressed) = Len(node)
      BY <1>3, <2>1, <2>3 DEF StackShape, OpenBracesMatch
    <3>2. state' = IF Len(states) = 1 THEN "Document" ELSE "Children"
      BY <1>1, <1>4, <1>6, <3>1
    <3>3. CurrentStateFitsStacks'
      BY <1>1, <1>2, <1>3, <2>1, <2>3, <3>2
      DEF CurrentStateFitsStacks, Annotating, NodeStates
    <3>4. OpenBracesMatch'
      BY <2>1, <3>1, <3>2 DEF OpenBracesMatch, AtBlockLevel
    <3>5. QED
      BY <1>5, <3>3, <3>4 DEF StackShape
  <2>4. CASE Len(states) = 2 * Len(node)
    <3>1. Len(states) % 2 = 0 /\ Len(states) % 2 # 1
      BY <1>3, <2>4
    <3>2. Len(suppressed) = Len(node) - 1
      BY <2>1, <3>1 DEF StackShape, OpenBracesMatch
    <3>3. state' \in {"NodeParams", "PropertyValue"}
      BY <1>0, <1>1, <1>4, <1>6, <2>2, <3>1
    <3>4. CurrentStateFitsStacks'
      BY <1>1, <1>3, <2>1, <2>4, <3>3 DEF CurrentStateFitsStacks, Annotating
    <3>5. OpenBracesMatch'
      BY <2>1, <3>2, <3>3 DEF OpenBracesMatch, AtBlockLevel, Annotating
    <3>6. QED
      BY <1>5, <3>4, <3>5 DEF StackShape
  <2>5. QED
    BY <2>2, <2>3, <2>4
<1>10. QED
  BY <1>7, <1>8, <1>9

\* Moves that leave the stacks alone.
LEMMA MoveKeepsShape ==
  ASSUME StackShape, Stays \/ MovesInNode \/ NamesAnnotation
  PROVE  StackShape'
<1>1. CASE Stays
  BY <1>1 DEF Stays, stack, StackShape, BlockStatesAlternate, CurrentStateFitsStacks,
              OpenBracesMatch, Annotating, AtBlockLevel
<1>2. CASE MovesInNode
  BY <1>2 DEF MovesInNode, StackShape, BlockStatesAlternate, CurrentStateFitsStacks,
              OpenBracesMatch, Annotating, AtBlockLevel, NodeStates
<1>3. CASE NamesAnnotation
  BY <1>3 DEF NamesAnnotation, StackShape, BlockStatesAlternate, CurrentStateFitsStacks,
              OpenBracesMatch, Annotating, AtBlockLevel, NodeStates
<1>4. QED
  BY <1>1, <1>2, <1>3

-----------------------------------------------------------------------------
(* Type correctness *)

LEMMA UpdatedNodes ==
  ASSUME NEW ns \in Seq(Node), NEW f,
         f = [n \in DOMAIN ns |-> f[n]], \A n \in DOMAIN ns : f[n] \in Node
  PROVE  f \in Seq(Node) /\ Len(f) = Len(ns) /\ DOMAIN f = DOMAIN ns
<1>1. Len(ns) \in Nat /\ DOMAIN ns = 1 .. Len(ns)
  BY LenProperties
<1>2. QED
  BY <1>1, IsASeq, LenProperties

LEMMA AddArgumentType ==
  ASSUME nodes \in Seq(Node), NEW t \in Token, NEW annot \in Token, AddArgument(t, annot)
  PROVE  nodes' \in Seq(Node) /\ Len(nodes') = Len(nodes)
<1> DEFINE e == [val |-> t.id, type |-> annot.id]
           E == [val : TokenIDs \cup {Unknown}, type : TokenIDs \cup {Unknown}]
<1>1. e \in E
  BY DEF Token
<1>2. ASSUME NEW n \in DOMAIN nodes
      PROVE  nodes'[n] \in Node
  <2>1. nodes[n] \in Node
    BY ElementOfSeq, LenProperties
  <2>2. nodes[n].args \in Seq(E)
    BY <2>1 DEF Node
  <2>3. Append(nodes[n].args, e) \in Seq(E)
    BY <1>1, <2>2, AppendProperties
  <2>4. nodes'[n] = IF n = currentNode THEN [nodes[n] EXCEPT !.args = Append(@, e)] ELSE nodes[n]
    BY DEF AddArgument
  <2> HIDE DEF e
  <2>5. QED
    BY <2>1, <2>3, <2>4 DEF Node
<1>3. nodes' = [n \in DOMAIN nodes |-> nodes'[n]] /\ nodes \in Seq(Node)
  BY DEF AddArgument
<1>4. QED
  BY ONLY <1>2, <1>3, UpdatedNodes

LEMMA AddPropertyType ==
  ASSUME nodes \in Seq(Node), NEW key \in Token, NEW val \in Token, Valid(val),
         NEW annot \in Token, AddProperty(key, val, annot)
  PROVE  nodes' \in Seq(Node) /\ Len(nodes') = Len(nodes)
<1> DEFINE e == [key |-> key.id, val |-> val.id, type |-> annot.id]
           E == [key : TokenIDs \cup {Unknown}, val : TokenIDs, type : TokenIDs \cup {Unknown}]
<1>1. e \in E
  BY DEF Token, Valid
<1>2. ASSUME NEW n \in DOMAIN nodes
      PROVE  nodes'[n] \in Node
  <2>1. nodes[n] \in Node
    BY ElementOfSeq, LenProperties
  <2>2. nodes[n].props \in Seq(E)
    BY <2>1 DEF Node
  <2>3. Append(nodes[n].props, e) \in Seq(E)
    BY <1>1, <2>2, AppendProperties
  <2>4. nodes'[n] = IF n = currentNode THEN [nodes[n] EXCEPT !.props = Append(@, e)] ELSE nodes[n]
    BY DEF AddProperty
  <2> HIDE DEF e
  <2>5. QED
    BY <2>1, <2>3, <2>4 DEF Node
<1>3. nodes' = [n \in DOMAIN nodes |-> nodes'[n]] /\ nodes \in Seq(Node)
  BY DEF AddProperty
<1>4. QED
  BY ONLY <1>2, <1>3, UpdatedNodes


LEMMA ClosingCommentType ==
  ASSUME nodes \in Seq(Node), NEW b \in Seq(Bytes), NEW last,
         nodes' = [nodes EXCEPT ![last].after = @ \o b]
  PROVE  nodes' \in Seq(Node) /\ Len(nodes') = Len(nodes)
<1>1. ASSUME NEW n \in DOMAIN nodes
      PROVE  nodes'[n] \in Node
  <2>1. nodes[n] \in Node
    BY ElementOfSeq, LenProperties
  <2>2. nodes[n].after \o b \in Seq(Bytes)
    BY <2>1, ConcatProperties DEF Node
  <2>3. nodes'[n] = IF n = last THEN [nodes[n] EXCEPT !.after = @ \o b] ELSE nodes[n]
    OBVIOUS
  <2>4. QED
    BY <2>1, <2>2, <2>3 DEF Node
<1>2. nodes' = [n \in DOMAIN nodes |-> nodes'[n]] /\ nodes \in Seq(Node)
  OBVIOUS
<1>3. QED
  BY ONLY <1>1, <1>2, UpdatedNodes

(***************************************************************************)
(* What a handled token adds to the output: nothing, an argument, a        *)
(* property, a node or a comment.                                          *)
(***************************************************************************)
OutputTyped == nodes' \in Seq(Node) /\ Len(nodes') >= Len(nodes) /\ comment' \in Seq(Bytes)

LEMMA OutputStep ==
  ASSUME TypeOK, NEW t \in ValidToken, Handle(t)
  PROVE  OutputTyped
<1>0. /\ t \in Token /\ Valid(t) /\ NoToken \in Token
      /\ nodes \in Seq(Node) /\ Len(nodes) \in Nat /\ comment \in Seq(Bytes)
      /\ ident \in Token /\ typeAnnot \in Token
      /\ ignoreNextNode \in BOOLEAN /\ ignoreNextArgProp \in BOOLEAN /\ ignoreChildren \in Nat
      /\ << >> \in Seq(Bytes) /\ <<"c">> \in Seq(Bytes)
  BY ValidTokens, NoTokenType, LenProperties DEF TypeOK, Bytes
<1>1. CASE UNCHANGED output
  BY <1>0, <1>1 DEF output, OutputTyped
<1>2. CASE DocumentIdentifier(t) \/ ChildrenIdentifier(t)
  <2>1. PICK skip \in BOOLEAN : DeclareNode(t, skip)
    BY <1>0, <1>2 DEF DocumentIdentifier, ChildrenIdentifier
  <2>2. Declared(t, skip) \in Node
    BY <1>0, DeclaredType
  <2>3. nodes' = Append(nodes, Declared(t, skip)) /\ comment' = << >>
    BY <2>1 DEF DeclareNode
  <2>4. QED
    BY <1>0, <2>2, <2>3, AppendFacts DEF OutputTyped
<1>3. CASE BlockComment(t)
  <2>1. comment' = CommentWith(t, <<"c">>) /\ nodes' = nodes
    BY <1>3 DEF BlockComment
  <2>2. CommentWith(t, <<"c">>) \in Seq(Bytes)
    BY <1>0, CommentWithType
  <2>3. QED
    BY <1>0, <2>1, <2>2 DEF OutputTyped
<1>4. CASE ChildrenBraceClose(t)
  <2> DEFINE b == TrimNewline(CommentWith(t, << >>))
  <2>1. CommentWith(t, << >>) \in Seq(Bytes)
    BY <1>0, CommentWithType
  <2>2. b \in Seq(Bytes)
    BY <2>1, TrimNewlineType
  <2>3. /\ comment' = << >>
        /\ \/ nodes' = nodes
           \/ nodes' = [nodes EXCEPT ![lastAddedNode].after = @ \o b]
    BY <1>4 DEF ChildrenBraceClose
  <2> HIDE DEF b
  <2>4. nodes' \in Seq(Node) /\ Len(nodes') = Len(nodes)
    BY <1>0, <2>2, <2>3, ClosingCommentType
  <2>5. QED
    BY <1>0, <2>3, <2>4 DEF OutputTyped
<1>5. CASE \/ NodeParamsSuffixedDecimal(t) \/ ArgPropTokenComment(t) \/ ArgPropWhitespace(t)
           \/ ArgPropValue(t) \/ ArgPropBraceOpen(t) \/ ArgPropTerminator(t)
  <2>1. /\ comment' = comment
        /\ \/ nodes' = nodes \/ AddArgument(t, NoToken) \/ AddArgument(ident, typeAnnot)
    BY <1>5 DEF NodeParamsSuffixedDecimal, ArgPropTokenComment, ArgPropWhitespace,
                ArgPropValue, ArgPropBraceOpen, ArgPropTerminator, FlushArgument
  <2>2. QED
    BY <1>0, <2>1, AddArgumentType DEF OutputTyped
<1>6. CASE PropertyValueValue(t)
  <2>1. comment' = comment /\ (nodes' = nodes \/ AddProperty(ident, t, typeAnnot))
    BY <1>6 DEF PropertyValueValue
  <2>2. QED
    BY <1>0, <2>1, AddPropertyType DEF OutputTyped
<1>7. QED
  <2>1. \/ UNCHANGED output
        \/ DocumentIdentifier(t) \/ ChildrenIdentifier(t) \/ BlockComment(t)
        \/ ChildrenBraceClose(t) \/ NodeParamsSuffixedDecimal(t)
        \/ ArgPropTokenComment(t) \/ ArgPropWhitespace(t) \/ ArgPropValue(t)
        \/ ArgPropBraceOpen(t) \/ ArgPropTerminator(t) \/ PropertyValueValue(t)
    BY DEF Handle, output, Nop, BlockWhitespace, DocumentTerminator, ChildrenNewline,
           BlockTokenComment, ParensOpen, TypeAnnotName, TypeDoneParensClose, NodeWhitespace,
           NodeTerminator, NodeEquals, NodeParamsBlank, NodeParamsEquals,
           NodeParamsTokenComment, NodeParamsSingleLineComment, NodeParamsContinuation,
           NodeParamsHold, NodeParamsBraceOpen, NodeParamsTerminator, NodeEndWhitespace,
           NodeEndEndOfLine, PropertyEquals, ArgPropEquals
  <2>2. QED
    BY <2>1, <1>1, <1>2, <1>3, <1>4, <1>5, <1>6


LEMMA FlagsStep ==
  ASSUME TypeOK, NEW t, Handle(t)
  PROVE  /\ ignoreNextNode' \in BOOLEAN /\ ignoreNextArgProp' \in BOOLEAN
         /\ ignoreChildren' \in Nat
<1>0. ignoreNextNode \in BOOLEAN /\ ignoreNextArgProp \in BOOLEAN /\ ignoreChildren \in Nat
  BY DEF TypeOK
<1>1. CASE ArgPropBraceOpen(t) \/ ArgPropTerminator(t)
  <2>1. /\ ignoreNextNode' = ignoreNextNode
        /\ ignoreNextArgProp' \in {SkipAfterFlush, FALSE}
        /\ ignoreChildren' \in {ignoreChildren, ignoreChildren + 1}
    BY <1>1 DEF ArgPropBraceOpen, ArgPropTerminator, OpenBlock
  <2>2. SkipAfterFlush \in BOOLEAN
    BY DEF SkipAfterFlush
  <2>3. ignoreNextNode' \in BOOLEAN /\ ignoreNextArgProp' \in BOOLEAN
    BY <1>0, <2>1, <2>2, Zenon
  <2>4. ignoreChildren' \in Nat
    BY <1>0, <2>1
  <2>5. QED
    BY <2>3, <2>4
<1>2. CASE ~(ArgPropBraceOpen(t) \/ ArgPropTerminator(t))
  <2>1. /\ ignoreNextNode' \in {ignoreNextNode, TRUE, FALSE}
        /\ ignoreNextArgProp' \in {ignoreNextArgProp, TRUE, FALSE}
        /\ \/ ignoreChildren' \in {ignoreChildren, ignoreChildren + 1, 0}
           \/ ignoreChildren > 0 /\ ignoreChildren' = ignoreChildren - 1
    BY <1>2
    DEF Handle, BlockWhitespace, DocumentTerminator, ChildrenNewline, BlockComment,
        BlockTokenComment, DocumentIdentifier, ChildrenIdentifier, ChildrenBraceClose,
        ParensOpen, TypeAnnotName, TypeDoneParensClose, NodeWhitespace, NodeTerminator,
        NodeEquals, NodeParamsBlank, NodeParamsEquals, NodeParamsTokenComment,
        NodeParamsSingleLineComment, NodeParamsContinuation, NodeParamsHold,
        NodeParamsSuffixedDecimal, NodeParamsBraceOpen, NodeParamsTerminator,
        NodeEndWhitespace, NodeEndEndOfLine, PropertyEquals, ArgPropEquals,
        ArgPropTokenComment, ArgPropWhitespace, ArgPropValue, PropertyValueValue,
        DeclareNode, OpenBlock, Nop, ignore
  <2>2. ignoreNextNode' \in BOOLEAN /\ ignoreNextArgProp' \in BOOLEAN
    BY <1>0, <2>1, Zenon
  <2>3. ignoreChildren' \in Nat
    BY <1>0, <2>1
  <2>4. QED
    BY <2>2, <2>3
<1>3. QED
  BY <1>1, <1>2

LEMMA StacksType ==
  ASSUME TypeOK
  PROVE  StacksTyped
<1>1. DOMAIN nodes \subseteq Nat /\ node \in Seq(DOMAIN nodes)
  BY LenProperties DEF TypeOK
<1>2. node \in Seq(Nat)
  BY <1>1
<1>3. QED
  BY <1>2 DEF TypeOK, StacksTyped

LEMMA HandleKeepsShape ==
  ASSUME TypeOK, StackShape, NEW t \in ValidToken, Handle(t)
  PROVE  StackShape'
  BY StacksType, StackStep, PushKeepsShape, PopKeepsShape, MoveKeepsShape DEF StackMove

\* Every move keeps the stacks sequences of states, nodes and booleans.
LEMMA MoveKeepsTypes ==
  ASSUME TypeOK, StackShape, StackMove, OutputTyped
  PROVE  /\ states' \in Seq(ParserStates) /\ state' \in ParserStates
         /\ node' \in Seq(DOMAIN nodes') /\ suppressed' \in Seq(BOOLEAN)
<1>0. /\ states \in Seq(ParserStates) /\ state \in ParserStates
      /\ suppressed \in Seq(BOOLEAN) /\ Len(nodes) \in Nat
      /\ DOMAIN nodes' = 1 .. Len(nodes') /\ Len(nodes') \in Nat
      /\ DOMAIN nodes = 1 .. Len(nodes)
      /\ {"Document", "Children", "TypeAnnot", "TypeDone"} \cup NodeStates \subseteq ParserStates
  BY LenProperties DEF TypeOK, OutputTyped, ParserStates, Transitions, NodeStates
<1>1. node \in Seq(DOMAIN nodes')
  <2>1. DOMAIN nodes \subseteq DOMAIN nodes'
    <3>1. /\ Len(nodes) <= Len(nodes') /\ Len(nodes) \in Nat /\ Len(nodes') \in Nat
          /\ DOMAIN nodes = 1 .. Len(nodes) /\ DOMAIN nodes' = 1 .. Len(nodes')
      BY <1>0 DEF OutputTyped
    <3>2. \A m, n \in Nat : m <= n => 1 .. m \subseteq 1 .. n
      OBVIOUS
    <3>3. QED
      BY <3>1, <3>2
  <2>2. node \in Seq(DOMAIN nodes)
    BY DEF TypeOK
  <2>3. QED
    BY <2>1, <2>2
<1>2. CASE Stays \/ MovesInNode \/ NamesAnnotation
  BY <1>0, <1>1, <1>2 DEF Stays, MovesInNode, NamesAnnotation, stack
<1>3. CASE EntersNode
  <2>1. Len(nodes) + 1 \in DOMAIN nodes'
    <3>1. nodes \in Seq(Node)
      BY DEF TypeOK
    <3>2. PICK new \in Node : nodes' = Append(nodes, new)
      BY <1>3 DEF EntersNode
    <3>3. Len(nodes') = Len(nodes) + 1
      BY <3>1, <3>2, AppendProperties
    <3>4. QED
      BY <1>0, <3>3
  <2>2. states' \in Seq(ParserStates) /\ node' \in Seq(DOMAIN nodes')
    BY <1>0, <1>1, <1>3, <2>1, AppendProperties DEF EntersNode
  <2>3. QED
    BY <1>0, <1>3, <2>2 DEF EntersNode, NodeStates
<1>4. CASE LeavesNode
  BY <1>0, <1>1, <1>4, FrontType DEF LeavesNode
<1>5. CASE EntersBlock
  <2>1. PICK skip \in BOOLEAN :
          suppressed' = Append(suppressed, skip \/ (suppressed # << >> /\ Last(suppressed)))
    BY <1>5 DEF EntersBlock
  <2>2. (skip \/ (suppressed # << >> /\ Last(suppressed))) \in BOOLEAN
    OBVIOUS
  <2>3. QED
    BY <1>0, <1>1, <1>5, <2>1, <2>2, AppendProperties DEF EntersBlock
<1>6. CASE LeavesBlock
  <2>1. suppressed # << >>
    <3>1. node # << >> /\ Len(suppressed) = Len(node) /\ node \in Seq(DOMAIN nodes')
      BY <1>1, <1>6 DEF LeavesBlock, StackShape, CurrentStateFitsStacks, OpenBracesMatch, AtBlockLevel
    <3>2. QED
      BY <1>0, <3>1, EmptySeq
  <2>2. QED
    BY <1>0, <1>1, <1>6, <2>1, FrontType DEF LeavesBlock
<1>7. CASE EntersAnnotation
  BY <1>0, <1>1, <1>7, AppendProperties DEF EntersAnnotation
<1>8. CASE LeavesAnnotation
  BY <1>0, <1>1, <1>8, FrontType DEF LeavesAnnotation
<1>9. QED
  BY <1>2, <1>3, <1>4, <1>5, <1>6, <1>7, <1>8 DEF StackMove

-----------------------------------------------------------------------------
(* The inductive invariant *)

(***************************************************************************)
(* TypeOK is not inductive alone: popping a stack keeps its type only if   *)
(* it is not empty, which is what StackShape says.                         *)
(***************************************************************************)
IInv == TypeOK /\ StackShape /\ NoInternalError

LEMMA InitIInv == Init => IInv
<1> SUFFICES ASSUME Init PROVE IInv
  OBVIOUS
<1>1. EmptyRing \in Ring
  BY NoTokenType, RecentCountAssumption DEF EmptyRing, Ring, Slots
<1>2. TypeOK
  <2>1. state \in ParserStates /\ nodes = << >>
    BY DEF Init, ParserStates, Transitions
  <2>2. \A S : << >> \in Seq(S)
    OBVIOUS
  <2>3. result \in {"reading", "done"} \cup Failures
    BY DEF Init
  <2>4. QED
    BY <1>1, <2>1, <2>2, <2>3, NoTokenType DEF Init, TypeOK
<1>3. StackShape
  BY DEF Init, StackShape, BlockStatesAlternate, CurrentStateFitsStacks, OpenBracesMatch,
         NodeStates, Annotating, AtBlockLevel
<1>4. QED
  BY <1>2, <1>3 DEF IInv, NoInternalError, Init

\* Every state a handler pops, and every node it uses, is there.
LEMMA NoStackIsEmpty ==
  ASSUME TypeOK, StackShape
  PROVE  /\ state \in NodeStates => states # << >> /\ node # << >>
         /\ state = "Children" => states # << >> /\ node # << >> /\ Len(nodes) > 0
         /\ state = "TypeDone" => states # << >>
<1>1. /\ Len(node) \in Nat /\ Len(states) \in Nat /\ Len(nodes) \in Nat
      /\ (node # << >> => Len(node) > 0) /\ (states = << >> => Len(states) = 0)
      /\ DOMAIN nodes = 1 .. Len(nodes)
  <2>1. node \in Seq(DOMAIN nodes) /\ states \in Seq(ParserStates) /\ nodes \in Seq(Node)
    BY DEF TypeOK
  <2>2. QED
    BY <2>1, LenProperties, EmptySeq
<1>2. state \in NodeStates => node # << >> /\ Len(states) = 2 * Len(node) - 1
  BY DEF StackShape, CurrentStateFitsStacks
<1>3. state = "Children" => node # << >> /\ Len(states) = 2 * Len(node)
  BY DEF StackShape, CurrentStateFitsStacks
<1>4. state = "TypeDone" => states # << >>
  BY DEF StackShape, CurrentStateFitsStacks, Annotating
<1>5. node # << >> => Len(nodes) > 0
  <2>1. node # << >> => Last(node) \in DOMAIN nodes
    BY FrontType DEF TypeOK
  <2>2. QED
    BY <1>1, <2>1
<1>6. QED
  BY <1>1, <1>2, <1>3, <1>4, <1>5

LEMMA FailureIsOfTheInput ==
  ASSUME TypeOK, StackShape, NEW t
  PROVE  Failure(t) \in {"unexpected token", "bad value", "none"}
<1>1. Converted(t) # {} => state \in NodeStates
  BY DEF Converted, Flushes, On, NodeStates
<1>2. ~NilNode(t)
  BY <1>1, NoStackIsEmpty DEF NilNode, On, lastAddedNode
<1>3. PopsNode(t) => states # << >> /\ node # << >>
  BY NoStackIsEmpty DEF PopsNode, On, NodeStates
<1>4. PopsState(t) => states # << >>
  BY <1>3, NoStackIsEmpty DEF PopsState, On
<1>5. QED
  BY <1>2, <1>3, <1>4 DEF Failure

LEMMA StepIInv ==
  ASSUME IInv, NEW t \in ValidToken, Parse(t)
  PROVE  IInv'
<1>0. /\ t \in Token /\ NoToken \in Token /\ TypeOK /\ StackShape /\ NoInternalError
      /\ opts' = opts /\ recent' = Seen(t)
  BY ValidTokens, NoTokenType DEF IInv, Parse
<1>1. opts' \in Options /\ recent' \in Ring
  BY <1>0, RingAddType DEF TypeOK, Seen
<1>2. CASE Reject(t)
  <2>1. result' \in {"unexpected token", "bad value"}
    BY <1>0, <1>2, FailureIsOfTheInput DEF Reject
  <2>2. TypeOK'
    BY <1>0, <1>1, <1>2, <2>1 DEF TypeOK, Reject, stack, held, ignore, output, Failures
  <2>3. StackShape'
    <3>1. Stays
      BY <1>2 DEF Reject, Stays
    <3>2. QED
      BY <1>0, <3>1, MoveKeepsShape
  <2>4. QED
    BY <2>1, <2>2, <2>3 DEF IInv, NoInternalError
<1>3. CASE Accept(t)
  <2>1. Handle(t)
    BY <1>3 DEF Accept
  <2>2. OutputTyped
    BY <1>0, <2>1, OutputStep
  <2>3. /\ states' \in Seq(ParserStates) /\ state' \in ParserStates
        /\ node' \in Seq(DOMAIN nodes') /\ suppressed' \in Seq(BOOLEAN)
    BY <1>0, <2>1, <2>2, StackStep, MoveKeepsTypes
  <2>4. ident' \in Token /\ typeAnnot' \in Token
    BY <1>0, <2>1, HeldStep DEF TypeOK
  <2>5. /\ ignoreNextNode' \in BOOLEAN /\ ignoreNextArgProp' \in BOOLEAN
        /\ ignoreChildren' \in Nat
    BY <1>0, <2>1, FlagsStep
  <2>6. continuation' \in BOOLEAN
    BY <1>3 DEF Accept, ContinuationAfter, Continuing, On
  <2>7. result' \in {"reading", "done"}
    BY <1>3 DEF Accept
  <2>8. TypeOK'
    BY <1>1, <2>2, <2>3, <2>4, <2>5, <2>6, <2>7 DEF TypeOK, OutputTyped
  <2>9. StackShape'
    BY <1>0, <2>1, HandleKeepsShape
  <2>10. QED
    BY <2>7, <2>8, <2>9 DEF IInv, NoInternalError
<1>4. QED
  BY <1>2, <1>3 DEF Parse

LEMMA StutterIInv ==
  ASSUME IInv, UNCHANGED vars
  PROVE  IInv'
<1>1. TypeOK'
  BY DEF IInv, TypeOK, vars, stack, held, ignore, output
<1>2. StackShape'
  BY MoveKeepsShape DEF IInv, vars, Stays
<1>3. QED
  BY <1>1, <1>2 DEF IInv, vars, NoInternalError

-----------------------------------------------------------------------------
(* The theorems *)

\* The parser with any tokens for its input, in documents of any size: the
\* runs' Spec is a case of it, and so is a parser that the scanner feeds.

ParsesOne == \E t \in ValidToken : Parse(t)

AnyTokens == Init /\ [][ParsesOne]_vars

(***************************************************************************)
(* What holds whatever the tokens are holds within the runs' bounds.       *)
(***************************************************************************)
THEOREM RunsTakeAnyTokens == Spec => AnyTokens
<1>1. [Next]_vars => [ParsesOne]_vars
  BY InputIsValid DEF Next, ParsesOne
<1>2. QED
  BY <1>1, PTL DEF Spec, AnyTokens

LEMMA Invariance == AnyTokens => []IInv
<1>1. IInv /\ [ParsesOne]_vars => IInv'
  BY StepIInv, StutterIInv DEF ParsesOne
<1>2. QED
  BY <1>1, InitIInv, PTL DEF AnyTokens

(***************************************************************************)
(* The parse context keeps its type for every token stream and any depth.  *)
(***************************************************************************)
THEOREM TypeCorrect == AnyTokens => []TypeOK
<1>1. IInv => TypeOK
  BY DEF IInv
<1>2. QED
  BY <1>1, Invariance, PTL

(***************************************************************************)
(* The state stack, the node stack and the open braces agree at any depth. *)
(***************************************************************************)
THEOREM StacksAgree == AnyTokens => []StackShape
<1>1. IInv => StackShape
  BY DEF IInv
<1>2. QED
  BY <1>1, Invariance, PTL

(***************************************************************************)
(* No token stream makes Parse pop an empty stack or use a nil node.       *)
(***************************************************************************)
THEOREM OnlyInputErrors == AnyTokens => []NoInternalError
<1>1. IInv => NoInternalError
  BY DEF IInv
<1>2. QED
  BY <1>1, Invariance, PTL

-----------------------------------------------------------------------------
(* A continued line *)

\* A token that is rejected leaves the context alone.
LEMMA RejectedToken ==
  ASSUME NEW t, Parse(t), ~(Accept(t) /\ Handle(t))
  PROVE  UNCHANGED <<stack, held, continuation, ignore, output>>
  BY DEF Parse, Accept, Reject

\* The smallest of some classes is one of them.
LEMMA SmallestIndex ==
  ASSUME NEW I \in SUBSET (1 .. 3), I # {}
  PROVE  Min(I) \in I
<1>1. PICK x \in I : x = 1 \/ (x = 2 /\ 1 \notin I) \/ (x = 3 /\ 1 \notin I /\ 2 \notin I)
  <2>1. CASE 1 \in I
    BY <2>1
  <2>2. CASE 1 \notin I /\ 2 \in I
    BY <2>2
  <2>3. CASE 1 \notin I /\ 2 \notin I
    <3>1. PICK y \in I : TRUE
      OBVIOUS
    <3>2. y = 3
      BY <2>3, <3>1
    <3>3. QED
      BY <2>3, <3>2
  <2>4. QED
    BY <2>1, <2>2, <2>3
<1>2. \A y \in I : x <= y
  BY <1>1
<1>3. QED
  BY <1>2 DEF Min

\* Parse finds a handler under the token's id or under one of its classes.
LEMMA HandlerKey ==
  ASSUME NEW s, NEW t
  PROVE  Handler(s, t) \in {t.id, "none"}
           \cup {Classes(t.id)[i] : i \in DOMAIN Classes(t.id)}
<1> DEFINE classes == Classes(t.id)
           hits == {i \in DOMAIN classes : classes[i] \in Transitions[s]}
<1>1. DOMAIN classes \subseteq 1 .. 3
  BY DEF Classes, Number
<1>2. hits # {} => Min(hits) \in hits
  BY <1>1, SmallestIndex
<1>3. QED
  BY <1>2 DEF Handler

LEMMA LineFillKeys ==
  ASSUME NEW s, NEW t, t.id \in LineFill
  PROVE  Handler(s, t) \in LineFill \cup
           {"ClassTerminator", "ClassWhitespace", "ClassEndOfLine", "ClassComment", "none"}
<1>1. CASE t.id = "Newline"
  <2>1. Classes(t.id) = <<"ClassTerminator", "ClassWhitespace", "ClassEndOfLine">>
    BY <1>1 DEF Classes
  <2>2. QED
    BY <1>1, <2>1, HandlerKey DEF LineFill
<1>2. CASE t.id = "Whitespace"
  <2>1. Classes(t.id) = <<"ClassWhitespace">>
    BY <1>2 DEF Classes
  <2>2. QED
    BY <1>2, <2>1, HandlerKey DEF LineFill
<1>3. CASE t.id \in {"MultiLineComment", "SingleLineComment"}
  <2>1. Classes(t.id) = <<"ClassComment">>
    BY <1>3 DEF Classes
  <2>2. QED
    BY <1>3, <2>1, HandlerKey DEF LineFill
<1>4. QED
  BY <1>1, <1>2, <1>3 DEF LineFill

-----------------------------------------------------------------------------
(* Continuations *)

LEMMA ContinuationStep ==
  ASSUME ContinuationStaysInNode, NEW t \in ValidToken, Parse(t)
  PROVE  ContinuationStaysInNode'
<1>1. CASE ~(Accept(t) /\ Handle(t))
  BY <1>1, RejectedToken DEF ContinuationStaysInNode, stack
<1>2. CASE Accept(t) /\ Handle(t) /\ continuation'
  <2>1. Continuing(t) \/ On("NodeParams", "Continuation", t)
    BY <1>2 DEF Accept, ContinuationAfter
  <2>2. CASE On("NodeParams", "Continuation", t)
    <3>1. state = "NodeParams" /\ Handler(state, t) = "Continuation"
      BY <2>2 DEF On
    <3>2. state' = state
      BY <1>2, <3>1 DEF Handle,
         BlockWhitespace, DocumentTerminator, ChildrenNewline, BlockComment,
         BlockTokenComment, DocumentIdentifier, ChildrenIdentifier, ChildrenBraceClose,
         ParensOpen, TypeAnnotName, TypeDoneParensClose, NodeWhitespace, NodeTerminator,
         NodeEquals, NodeParamsBlank, NodeParamsEquals, NodeParamsTokenComment,
         NodeParamsSingleLineComment, NodeParamsContinuation, NodeParamsHold,
         NodeParamsSuffixedDecimal, NodeParamsBraceOpen, NodeParamsTerminator,
         NodeEndWhitespace, NodeEndEndOfLine, PropertyEquals, ArgPropEquals,
         ArgPropTokenComment, ArgPropWhitespace, ArgPropValue, ArgPropBraceOpen,
         ArgPropTerminator, PropertyValueValue, AtBlockLevel, On, Nop, stack
    <3>3. QED
      BY <3>1, <3>2 DEF ContinuationStaysInNode
  <2>3. CASE Continuing(t)
    <3>1. state \in {"NodeParams", "NodeEnd"} /\ t.id \in LineFill
      BY <2>3 DEF Continuing, ContinuationStaysInNode
    <3>2. Handler(state, t) \in LineFill \cup
            {"ClassTerminator", "ClassWhitespace", "ClassEndOfLine", "ClassComment", "none"}
      BY <3>1, LineFillKeys
    <3>3. state' \in {"NodeParams", "NodeEnd"}
      BY <1>2, <2>3, <3>1, <3>2 DEF Handle, LineFill,
         BlockWhitespace, DocumentTerminator, ChildrenNewline, BlockComment,
         BlockTokenComment, DocumentIdentifier, ChildrenIdentifier, ChildrenBraceClose,
         ParensOpen, TypeAnnotName, TypeDoneParensClose, NodeWhitespace, NodeTerminator,
         NodeEquals, NodeParamsBlank, NodeParamsEquals, NodeParamsTokenComment,
         NodeParamsSingleLineComment, NodeParamsContinuation, NodeParamsHold,
         NodeParamsSuffixedDecimal, NodeParamsBraceOpen, NodeParamsTerminator,
         NodeEndWhitespace, NodeEndEndOfLine, PropertyEquals, ArgPropEquals,
         ArgPropTokenComment, ArgPropWhitespace, ArgPropValue, ArgPropBraceOpen,
         ArgPropTerminator, PropertyValueValue, AtBlockLevel, On, Nop, Goto, stack
    <3>4. QED
      BY <3>3 DEF ContinuationStaysInNode
  <2>4. QED
    BY <2>1, <2>2, <2>3
<1>3. QED
  BY <1>1, <1>2 DEF ContinuationStaysInNode

(***************************************************************************)
(* A \ has no effect outside the node it is read in: while one has, the    *)
(* parser is between two values of a node or in the comment that ends one  *)
(* of its lines.  How many lines it continues is not bounded here, nor by  *)
(* the code.                                                               *)
(***************************************************************************)
THEOREM ContinuationsEnd == AnyTokens => []ContinuationStaysInNode
<1>1. Init => ContinuationStaysInNode
  BY DEF Init, ContinuationStaysInNode
<1>2. ContinuationStaysInNode /\ [ParsesOne]_vars => ContinuationStaysInNode'
  BY ContinuationStep DEF ContinuationStaysInNode, vars, stack, ParsesOne
<1>3. QED
  BY <1>1, <1>2, PTL DEF AnyTokens

-----------------------------------------------------------------------------
(* Held tokens *)

\* A handler found under a token id is the handler of that token.
LEMMA KeyOfId ==
  ASSUME NEW s, NEW t, Handler(s, t) = "BareIdentifier"
  PROVE  t.id = "BareIdentifier"
<1>1. \A i \in DOMAIN Classes(t.id) : Classes(t.id)[i] # "BareIdentifier"
  BY DEF Classes, Number
<1>2. QED
  BY <1>1, HandlerKey

\* What is below the current state.
LEMMA StateBelow ==
  ASSUME TypeOK, StackShape
  PROVE  /\ state \in NodeStates => Last(states) \in {"Document", "Children"}
         /\ state = "Children" => Last(states) \in {"NodeParams", "ArgProp"}
         /\ Annotating => Last(states) \in {"Document", "Children", "NodeParams", "PropertyValue"}
<1>1. /\ Len(states) \in Nat /\ Len(node) \in Nat /\ DOMAIN states = 1 .. Len(states)
      /\ states # << >> <=> Len(states) > 0
      /\ node # << >> <=> Len(node) > 0
  <2>1. node \in Seq(DOMAIN nodes) /\ states \in Seq(ParserStates)
    BY DEF TypeOK
  <2>2. QED
    BY <2>1, EmptyMeansZero, LenProperties
<1>2. ASSUME states # << >>
      PROVE  IF Len(states) % 2 = 1
             THEN Last(states) \in {"Document", "Children"}
             ELSE /\ Last(states) \in {"NodeParams", "ArgProp", "PropertyValue"}
                  /\ Last(states) = "PropertyValue" => Annotating
  BY <1>1, <1>2 DEF StackShape, BlockStatesAlternate, Last
<1>3. CASE state \in NodeStates
  <2>1. node # << >> /\ Len(states) = 2 * Len(node) - 1 /\ ~Annotating /\ state # "Children"
    BY <1>3 DEF StackShape, CurrentStateFitsStacks, NodeStates, Annotating
  <2>2. Len(states) % 2 = 1 /\ states # << >>
    BY <1>1, <2>1
  <2>3. QED
    BY <1>2, <2>1, <2>2
<1>4. CASE state = "Children"
  <2>1. node # << >> /\ Len(states) = 2 * Len(node) /\ ~Annotating /\ state \notin NodeStates
    BY <1>4 DEF StackShape, CurrentStateFitsStacks, NodeStates, Annotating
  <2>2. Len(states) % 2 # 1 /\ states # << >>
    BY <1>1, <2>1
  <2>3. QED
    BY <1>2, <2>1, <2>2
<1>5. CASE Annotating
  <2>1. states # << >> /\ Last(states) # "ArgProp" /\ state # "Children" /\ state \notin NodeStates
    BY <1>5 DEF StackShape, CurrentStateFitsStacks, NodeStates, Annotating
  <2>2. QED
    BY <1>2, <2>1
<1>6. QED
  BY <1>3, <1>4, <1>5

(***************************************************************************)
(* The handlers, by what they do to the held token.                        *)
(***************************************************************************)
Keeps == UNCHANGED <<ident, states, state>>

Drops == ident' = NoToken /\ state' \in {"Node", "NodeParams", "ArgProp", "Children"}

Passes ==
  /\ state \in {"Document", "Children", "Node", "NodeParams", "NodeEnd"}
  /\ ident' = ident /\ state' \in {"Node", "NodeParams", "NodeEnd", "Children"}

Holds(t) ==
  /\ ident' = t
  /\ \/ state' = "ArgProp"
     \/ state' = "Property" /\ t.id = "BareIdentifier"

BecomesKey ==
  /\ state = "Property" \/ ident.id \in KeyIDs
  /\ ident' = ident /\ state' = "PropertyValue"

HeldMove(t) ==
  \/ Keeps \/ Drops \/ Passes \/ Holds(t) \/ BecomesKey
  \/ LeavesNode /\ (ident' = NoToken \/ state # "ArgProp") /\ ident' \in {ident, NoToken}
     /\ state \notin {"Property", "PropertyValue"}
  \/ (LeavesBlock \/ EntersAnnotation \/ NamesAnnotation \/ LeavesAnnotation) /\ ident' = ident

LEMMA HeldMoves ==
  ASSUME NEW t \in ValidToken, Handle(t)
  PROVE  HeldMove(t)
<1>1. CASE \/ BlockWhitespace(t) \/ DocumentTerminator(t) \/ ChildrenNewline(t)
           \/ BlockComment(t) \/ BlockTokenComment(t) \/ NodeParamsBlank(t)
           \/ NodeParamsEquals(t) \/ NodeParamsTokenComment(t) \/ NodeParamsContinuation(t)
           \/ NodeEndWhitespace(t)
  BY <1>1
  DEF HeldMove, Keeps, BlockWhitespace, DocumentTerminator, ChildrenNewline, BlockComment,
      BlockTokenComment, NodeParamsBlank, NodeParamsEquals, NodeParamsTokenComment,
      NodeParamsContinuation, NodeEndWhitespace, Nop, stack, held
<1>2. CASE \/ NodeParamsSuffixedDecimal(t) \/ ArgPropTokenComment(t) \/ ArgPropWhitespace(t)
           \/ PropertyValueValue(t) \/ ArgPropBraceOpen(t)
  BY <1>2
  DEF HeldMove, Drops, NodeParamsSuffixedDecimal, ArgPropTokenComment, ArgPropWhitespace,
      PropertyValueValue, ArgPropBraceOpen, OpenBlock, PushState, On, Goto, stack
<1>3. CASE \/ DocumentIdentifier(t) \/ ChildrenIdentifier(t) \/ NodeWhitespace(t)
           \/ NodeEquals(t) \/ NodeParamsSingleLineComment(t) \/ NodeParamsBraceOpen(t)
  BY <1>3
  DEF HeldMove, Passes, DocumentIdentifier, ChildrenIdentifier, DeclareNode, NodeWhitespace,
      NodeEquals, NodeParamsSingleLineComment, NodeParamsBraceOpen, OpenBlock, PushState, On,
      Goto, held
<1>4. CASE NodeTerminator(t) \/ NodeParamsTerminator(t) \/ NodeEndEndOfLine(t)
  BY <1>4
  DEF HeldMove, Keeps, Passes, LeavesNode, NodeTerminator, NodeParamsTerminator,
      NodeEndEndOfLine, PopNodeAndState, PopState, On, Goto, stack, held, NodeStates
<1>5. CASE NodeParamsHold(t) \/ ArgPropValue(t)
  BY <1>5, KeyOfId DEF HeldMove, Holds, NodeParamsHold, ArgPropValue, On, Goto, stack
<1>6. CASE PropertyEquals(t) \/ ArgPropEquals(t)
  BY <1>6 DEF HeldMove, BecomesKey, PropertyEquals, ArgPropEquals, On, Goto, held
<1>7. CASE ArgPropTerminator(t)
  BY <1>7 DEF HeldMove, LeavesNode, ArgPropTerminator, PopNodeAndState, PopState, On, NodeStates
<1>8. CASE ChildrenBraceClose(t) \/ ParensOpen(t) \/ TypeAnnotName(t) \/ TypeDoneParensClose(t)
  BY <1>8
  DEF HeldMove, LeavesBlock, EntersAnnotation, NamesAnnotation, LeavesAnnotation,
      ChildrenBraceClose, ParensOpen, TypeAnnotName, TypeDoneParensClose, On, Goto,
      PushState, PopState, held
<1>9. QED
  BY <1>1, <1>2, <1>3, <1>4, <1>5, <1>6, <1>7, <1>8 DEF Handle

LEMMA OwnerStep ==
  ASSUME IInv, HeldTokenHasAnOwner, NEW t \in ValidToken, Parse(t)
  PROVE  HeldTokenHasAnOwner'
<1> DEFINE inValue == \/ state = "PropertyValue"
                      \/ Annotating /\ Last(states) = "PropertyValue"
<1>0. /\ state = "Property" \/ inValue => ident.id \in KeyIDs
      /\ Queued => state \in {"Property", "ArgProp"} \/ inValue
      /\ TypeOK /\ StackShape /\ states \in Seq(ParserStates) /\ state \in ParserStates
  BY DEF IInv, TypeOK, HeldTokenHasAnOwner
<1>1. CASE ~(Accept(t) /\ Handle(t))
  BY <1>0, <1>1, RejectedToken
  DEF HeldTokenHasAnOwner, stack, held, Annotating, Queued
<1>2. CASE Handle(t)
  <2>1. HeldMove(t)
    BY <1>2, HeldMoves
  <2>2. CASE Keeps
    BY <1>0, <2>2 DEF Keeps, HeldTokenHasAnOwner, Annotating, Queued
  <2>3. CASE Drops
    BY <2>3, NoTokenType DEF Drops, HeldTokenHasAnOwner, Annotating, Queued
  <2>4. CASE Passes
    BY <1>0, <2>4 DEF Passes, HeldTokenHasAnOwner, Annotating, Queued
  <2>5. CASE Holds(t)
    BY <2>5 DEF Holds, HeldTokenHasAnOwner, Annotating, Queued, KeyIDs
  <2>6. CASE BecomesKey
    BY <1>0, <2>6 DEF BecomesKey, HeldTokenHasAnOwner, Annotating, Queued
  <2>7. CASE /\ LeavesNode /\ (ident' = NoToken \/ state # "ArgProp")
             /\ ident' \in {ident, NoToken} /\ state \notin {"Property", "PropertyValue"}
    <3>1. state' \in {"Document", "Children"}
      BY <1>0, <2>7, StateBelow DEF LeavesNode
    <3>2. ident' = NoToken \/ (ident' = ident /\ ~Queued)
      BY <1>0, <2>7 DEF LeavesNode, NodeStates, Annotating
    <3>3. QED
      BY <3>1, <3>2, NoTokenType DEF HeldTokenHasAnOwner, Annotating, Queued
  <2>8. CASE LeavesBlock /\ ident' = ident
    <3>1. state' \in {"NodeParams", "ArgProp"} /\ ~Queued
      BY <1>0, <2>8, StateBelow DEF LeavesBlock, Annotating
    <3>2. QED
      BY <2>8, <3>1 DEF HeldTokenHasAnOwner, Annotating, Queued
  <2>9. CASE EntersAnnotation /\ ident' = ident
    <3>1. Last(states') = state
      BY <1>0, <2>9, AppendFacts DEF EntersAnnotation
    <3>2. QED
      BY <1>0, <2>9, <3>1 DEF EntersAnnotation, HeldTokenHasAnOwner, Annotating, Queued
  <2>10. CASE NamesAnnotation /\ ident' = ident
    BY <1>0, <2>10 DEF NamesAnnotation, HeldTokenHasAnOwner, Annotating, Queued
  <2>11. CASE LeavesAnnotation /\ ident' = ident
    <3>1. state' \in {"Document", "Children", "NodeParams", "PropertyValue"} /\ Annotating
      BY <1>0, <2>11, StateBelow DEF LeavesAnnotation, Annotating
    <3>2. QED
      BY <1>0, <2>11, <3>1 DEF LeavesAnnotation, HeldTokenHasAnOwner, Annotating, Queued
  <2>12. QED
    BY <2>1, <2>2, <2>3, <2>4, <2>5, <2>6, <2>7, <2>8, <2>9, <2>10, <2>11 DEF HeldMove
<1>3. QED
  BY <1>1, <1>2

(***************************************************************************)
(* A token is held exactly while its meaning is open, and never after the  *)
(* node it was read in: none can end up in another node.                   *)
(***************************************************************************)
THEOREM HeldTokensAreOwned == AnyTokens => []HeldTokenHasAnOwner
<1>1. Init => HeldTokenHasAnOwner
  BY NoTokenType DEF Init, HeldTokenHasAnOwner, Annotating, Queued
<1>2. IInv /\ HeldTokenHasAnOwner /\ [ParsesOne]_vars => HeldTokenHasAnOwner'
  <2>1. ASSUME HeldTokenHasAnOwner, UNCHANGED vars
        PROVE  HeldTokenHasAnOwner'
    BY <2>1 DEF HeldTokenHasAnOwner, vars, stack, held, Annotating, Queued
  <2>2. QED
    BY <2>1, OwnerStep DEF ParsesOne
<1>3. QED
  BY <1>1, <1>2, Invariance, PTL DEF AnyTokens

-----------------------------------------------------------------------------
(* Blocks a /- covers *)

LEMMA SuppressedType ==
  ASSUME TypeOK
  PROVE  /\ suppressed \in Seq(BOOLEAN) /\ ignoreChildren \in Nat
         /\ Len(suppressed) \in Nat /\ DOMAIN suppressed = 1 .. Len(suppressed)
         /\ suppressed = << >> <=> Len(suppressed) = 0
<1>1. suppressed \in Seq(BOOLEAN) /\ ignoreChildren \in Nat
  BY DEF TypeOK
<1>2. /\ Len(suppressed) \in Nat /\ DOMAIN suppressed = 1 .. Len(suppressed)
  BY ONLY <1>1, LenProperties
<1>3. suppressed = << >> <=> Len(suppressed) = 0
  BY ONLY <1>1, EmptyMeansZero, ZenonT(30)
<1>4. QED
  BY <1>1, <1>2, <1>3

LEMMA CountStep ==
  ASSUME IInv, SuppressedBlocksCounted, NEW t \in ValidToken, Parse(t)
  PROVE  SuppressedBlocksCounted'
<1>0. /\ suppressed \in Seq(BOOLEAN) /\ ignoreChildren \in Nat
      /\ Len(suppressed) \in Nat /\ DOMAIN suppressed = 1 .. Len(suppressed)
      /\ suppressed = << >> <=> Len(suppressed) = 0
      /\ ignoreChildren <= Len(suppressed)
      /\ \A i \in 1 .. Len(suppressed) :
           suppressed[i] <=> i > Len(suppressed) - ignoreChildren
      /\ ignoreNextArgProp \in BOOLEAN
  BY SuppressedType DEF IInv, TypeOK, SuppressedBlocksCounted
<1>1. CASE UNCHANGED <<suppressed, ignoreChildren>>
  BY <1>1 DEF SuppressedBlocksCounted
<1>2. ASSUME NEW skip \in BOOLEAN, OpenBlock(skip)
      PROVE  SuppressedBlocksCounted'
  <2> DEFINE covered == skip \/ (suppressed # << >> /\ Last(suppressed))
  <2>1. covered <=> skip \/ ignoreChildren > 0
    BY <1>0 DEF Last
  <2>2. suppressed' = Append(suppressed, covered) /\ covered \in BOOLEAN
    BY <1>2 DEF OpenBlock
  <2>3. /\ Len(suppressed') = Len(suppressed) + 1
        /\ DOMAIN suppressed' = 1 .. Len(suppressed) + 1
        /\ \A i \in 1 .. Len(suppressed) : suppressed'[i] = suppressed[i]
        /\ suppressed'[Len(suppressed) + 1] = covered
    BY <1>0, <2>2, AppendProperties, LenProperties
  <2> HIDE DEF covered
  <2>4. CASE covered
    <3>1. ignoreChildren' = ignoreChildren + 1
      BY <1>2, <2>1, <2>4 DEF OpenBlock
    <3>2. ASSUME NEW i \in 1 .. Len(suppressed) + 1
          PROVE  suppressed'[i] <=> i > Len(suppressed) - ignoreChildren
      <4>1. CASE i = Len(suppressed) + 1
        <5>1. suppressed'[i]
          BY <2>3, <2>4, <4>1, Zenon
        <5>2. i > Len(suppressed) - ignoreChildren
          BY <1>0, <4>1
        <5>3. QED
          BY <5>1, <5>2
      <4>2. CASE i \in 1 .. Len(suppressed)
        BY <1>0, <2>3, <4>2
      <4>3. QED
        BY <1>0, <4>1, <4>2
    <3>3. /\ ignoreChildren' <= Len(suppressed')
          /\ Len(suppressed') - ignoreChildren' = Len(suppressed) - ignoreChildren
      BY <1>0, <2>3, <3>1
    <3>4. QED
      BY <2>3, <3>2, <3>3 DEF SuppressedBlocksCounted
  <2>5. CASE ~covered
    <3>1. ignoreChildren' = 0 /\ ignoreChildren = 0
      BY <1>0, <1>2, <2>1, <2>5 DEF OpenBlock
    <3>2. QED
      BY <1>0, <2>3, <2>5, <3>1 DEF SuppressedBlocksCounted
  <2>6. QED
    BY <2>4, <2>5
<1>3. CASE ChildrenBraceClose(t)
  <2>1. suppressed # << >>
    <3>1. node # << >> /\ node \in Seq(DOMAIN nodes) /\ Len(suppressed) = Len(node)
      BY <1>3
      DEF IInv, TypeOK, StackShape, CurrentStateFitsStacks, OpenBracesMatch,
          ChildrenBraceClose, On, AtBlockLevel
    <3>2. QED
      BY <1>0, <3>1, EmptyMeansZero
  <2>2. /\ suppressed' = Front(suppressed)
        /\ ignoreChildren' = IF ignoreChildren > 0 THEN ignoreChildren - 1 ELSE 0
    BY <1>3 DEF ChildrenBraceClose
  <2>3. /\ Len(suppressed') = Len(suppressed) - 1
        /\ suppressed' \in Seq(BOOLEAN)
        /\ \A i \in 1 .. Len(suppressed) - 1 : suppressed'[i] = suppressed[i]
    <3>1. suppressed \in Seq(BOOLEAN) /\ suppressed # << >> /\ suppressed' = Front(suppressed)
      BY <1>0, <2>1, <2>2
    <3>2. QED
      BY ONLY <3>1, FrontType, Zenon
  <2>4. DOMAIN suppressed' = 1 .. Len(suppressed')
    BY ONLY <2>3, LenProperties
  <2>5. /\ Len(suppressed) \in Nat \ {0}
        /\ ignoreChildren > 0 =>
             Len(suppressed') - ignoreChildren' = Len(suppressed) - ignoreChildren
        /\ ignoreChildren = 0 => ignoreChildren' = 0
        /\ ignoreChildren' \in Nat /\ ignoreChildren' <= Len(suppressed')
    BY <1>0, <2>1, <2>2, <2>3
  <2>6. ASSUME NEW i \in 1 .. Len(suppressed) - 1
        PROVE  suppressed'[i] <=> i > Len(suppressed') - ignoreChildren'
    <3>1. suppressed'[i] <=> i > Len(suppressed) - ignoreChildren
      BY <1>0, <2>3, <2>5
    <3>2. i > Len(suppressed) - ignoreChildren <=> i > Len(suppressed') - ignoreChildren'
      BY <1>0, <2>3, <2>5
    <3>3. QED
      BY <3>1, <3>2
  <2>7. QED
    BY <2>3, <2>4, <2>5, <2>6 DEF SuppressedBlocksCounted
<1>4. CASE ~(Accept(t) /\ Handle(t))
  BY <1>1, <1>4, RejectedToken DEF stack, ignore
<1>5. CASE Handle(t)
  <2>1. \/ ChildrenBraceClose(t)
        \/ \E skip \in BOOLEAN : OpenBlock(skip)
        \/ UNCHANGED <<suppressed, ignoreChildren>>
    <3>1. SkipAfterFlush \in BOOLEAN
      BY DEF SkipAfterFlush
    <3>2. CASE NodeParamsBraceOpen(t) \/ ArgPropBraceOpen(t)
      BY <1>0, <3>1, <3>2 DEF NodeParamsBraceOpen, ArgPropBraceOpen
    <3>3. CASE ~(NodeParamsBraceOpen(t) \/ ArgPropBraceOpen(t) \/ ChildrenBraceClose(t))
      BY <1>5, <3>3
      DEF Handle, BlockWhitespace, DocumentTerminator, ChildrenNewline, BlockComment,
          BlockTokenComment, DocumentIdentifier, ChildrenIdentifier,
          ParensOpen, TypeAnnotName, TypeDoneParensClose, NodeWhitespace, NodeTerminator,
          NodeEquals, NodeParamsBlank, NodeParamsEquals, NodeParamsTokenComment,
          NodeParamsSingleLineComment, NodeParamsContinuation, NodeParamsHold,
          NodeParamsSuffixedDecimal, NodeParamsTerminator,
          NodeEndWhitespace, NodeEndEndOfLine, PropertyEquals, ArgPropEquals,
          ArgPropTokenComment, ArgPropWhitespace, ArgPropValue,
          ArgPropTerminator, PropertyValueValue, DeclareNode, PopNodeAndState, Goto, Nop,
          stack, ignore
    <3>4. QED
      BY <3>2, <3>3
  <2>2. QED
    BY <2>1, <1>1, <1>2, <1>3
<1>6. QED
  BY <1>4, <1>5

(***************************************************************************)
(* ignoreChildren is the number of open blocks a /- covers, and these are  *)
(* the innermost ones, at any depth of nesting.                            *)
(***************************************************************************)
THEOREM CoveredBlocksAreCounted == AnyTokens => []SuppressedBlocksCounted
<1>1. Init => SuppressedBlocksCounted
  BY DEF Init, SuppressedBlocksCounted
<1>2. IInv /\ SuppressedBlocksCounted /\ [ParsesOne]_vars => SuppressedBlocksCounted'
  <2>1. ASSUME SuppressedBlocksCounted, UNCHANGED vars
        PROVE  SuppressedBlocksCounted'
    BY <2>1 DEF SuppressedBlocksCounted, vars, stack, ignore
  <2>2. QED
    BY <2>1, CountStep DEF ParsesOne
<1>3. QED
  BY <1>1, <1>2, Invariance, PTL DEF AnyTokens
=============================================================================
