------------------------- MODULE KdlParserRefinement -------------------------
(***************************************************************************)
(* The document follows the text: KdlParser implements NodeTree, for every *)
(* token stream and documents of any size, and with it what the parser     *)
(* promises about the tree, the values it holds and the comments.          *)
(***************************************************************************)
EXTENDS KdlParserProofs

SInv == IInv /\ SuppressedBlocksCounted

LEMMA SuppressionInvariant == AnyTokens => []SInv
  BY Invariance, CoveredBlocksAreCounted, PTL DEF SInv

-----------------------------------------------------------------------------
(* The handlers, by what they do to the nodes *)

Argument == [val : TokenIDs \cup {Unknown}, type : TokenIDs \cup {Unknown}]

Property == [key : TokenIDs \cup {Unknown}, val : TokenIDs, type : TokenIDs \cup {Unknown}]

SameContent ==
  DOMAIN nodes' = DOMAIN nodes /\ \A n \in DOMAIN nodes : Content(nodes'[n]) = Content(nodes[n])

AddsArgument ==
  /\ state \in NodeStates
  /\ \E e \in Argument : nodes' = [nodes EXCEPT ![currentNode].args = Append(@, e)]

AddsProperty ==
  /\ state \in NodeStates
  /\ \E e \in Property : nodes' = [nodes EXCEPT ![currentNode].props = Append(@, e)]

AddsNode(t) ==
  /\ AtBlockLevel
  /\ \E skip \in BOOLEAN :
       /\ nodes' = Append(nodes, Declared(t, skip))
       /\ state = "Children" /\ ignoreChildren > 0 => skip
  /\ node' = Append(node, Len(nodes) + 1)
  /\ UNCHANGED suppressed

LEMMA ContentMoves ==
  ASSUME TypeOK, NEW t \in ValidToken, Handle(t)
  PROVE  SameContent \/ AddsArgument \/ AddsProperty \/ AddsNode(t)
<1>0. /\ t \in Token /\ t.id \in TokenIDs /\ Valid(t) /\ NoToken \in Token
      /\ ident \in Token /\ typeAnnot \in Token
      /\ ignoreNextNode \in BOOLEAN /\ ignoreChildren \in Nat
  BY ValidTokens, NoTokenType DEF TypeOK
<1>1. CASE UNCHANGED nodes
  BY <1>1 DEF SameContent
<1>2. CASE ChildrenBraceClose(t)
  <2>1. \/ nodes' = nodes
        \/ \E b : nodes' = [nodes EXCEPT ![lastAddedNode].after = b]
    BY <1>2 DEF ChildrenBraceClose
  <2>2. ASSUME NEW b, nodes' = [nodes EXCEPT ![lastAddedNode].after = b], NEW n \in DOMAIN nodes
        PROVE  Content(nodes'[n]) = Content(nodes[n])
    <3>1. nodes[n] \in Node
      BY ElementOfSeq, LenProperties DEF TypeOK
    <3>2. nodes'[n] = IF n = lastAddedNode THEN [nodes[n] EXCEPT !.after = b] ELSE nodes[n]
      BY <2>2
    <3>3. QED
      BY <3>1, <3>2 DEF Content, Node
  <2>3. QED
    BY <2>1, <2>2 DEF SameContent
<1>3. CASE DocumentIdentifier(t) \/ ChildrenIdentifier(t)
  <2>1. CASE DocumentIdentifier(t)
    BY <1>0, <2>1 DEF AddsNode, DocumentIdentifier, DeclareNode, On, AtBlockLevel
  <2>2. CASE ChildrenIdentifier(t)
    <3>1. (ignoreNextNode \/ ignoreChildren > 0) \in BOOLEAN
      OBVIOUS
    <3>2. QED
      BY <2>2, <3>1 DEF AddsNode, ChildrenIdentifier, DeclareNode, On, AtBlockLevel
  <2>3. QED
    BY <1>3, <2>1, <2>2
<1>4. CASE \/ NodeParamsSuffixedDecimal(t) \/ ArgPropTokenComment(t) \/ ArgPropWhitespace(t)
           \/ ArgPropValue(t) \/ ArgPropBraceOpen(t) \/ ArgPropTerminator(t)
  <2>1. /\ state \in NodeStates
        /\ \/ nodes' = nodes \/ AddArgument(t, NoToken) \/ AddArgument(ident, typeAnnot)
    BY <1>4
    DEF NodeParamsSuffixedDecimal, ArgPropTokenComment, ArgPropWhitespace, ArgPropValue,
        ArgPropBraceOpen, ArgPropTerminator, FlushArgument, On, NodeStates
  <2>2. /\ [val |-> t.id, type |-> NoToken.id] \in Argument
        /\ [val |-> ident.id, type |-> typeAnnot.id] \in Argument
    BY <1>0 DEF Argument, Token
  <2>3. QED
    BY <1>1, <2>1, <2>2 DEF AddsArgument, AddArgument
<1>5. CASE PropertyValueValue(t)
  <2>1. state \in NodeStates /\ (nodes' = nodes \/ AddProperty(ident, t, typeAnnot))
    BY <1>5 DEF PropertyValueValue, On, NodeStates
  <2>2. [key |-> ident.id, val |-> t.id, type |-> typeAnnot.id] \in Property
    BY <1>0 DEF Property, Token
  <2>3. QED
    BY <1>1, <2>1, <2>2 DEF AddsProperty, AddProperty
<1>6. QED
  <2>1. \/ UNCHANGED nodes
        \/ DocumentIdentifier(t) \/ ChildrenIdentifier(t)
        \/ ChildrenBraceClose(t) \/ NodeParamsSuffixedDecimal(t)
        \/ ArgPropTokenComment(t) \/ ArgPropWhitespace(t) \/ ArgPropValue(t)
        \/ ArgPropBraceOpen(t) \/ ArgPropTerminator(t) \/ PropertyValueValue(t)
    BY DEF Handle, output, Nop, BlockWhitespace, DocumentTerminator, ChildrenNewline,
           BlockComment,
           BlockTokenComment, ParensOpen, TypeAnnotName, TypeDoneParensClose, NodeWhitespace,
           NodeTerminator, NodeEquals, NodeParamsBlank, NodeParamsEquals,
           NodeParamsTokenComment, NodeParamsSingleLineComment, NodeParamsContinuation,
           NodeParamsHold, NodeParamsBraceOpen, NodeParamsTerminator, NodeEndWhitespace,
           NodeEndEndOfLine, PropertyEquals, ArgPropEquals
  <2>2. QED
    BY <2>1, <1>1, <1>2, <1>3, <1>4, <1>5

-----------------------------------------------------------------------------
(* The same moves, seen from the tree *)

TreeNow == [n \in DOMAIN nodes |-> TreeOf(nodes[n])]

TreeNode == [parent : Nat \cup {Detached}, args : Seq(Argument), props : Seq(Property)]

LEMMA TreeOfNodes ==
  ASSUME NEW ns \in Seq(Node)
  PROVE  /\ DOMAIN ns = 1 .. Len(ns) /\ Len(ns) \in Nat
         /\ [n \in DOMAIN ns |-> TreeOf(ns[n])] \in Seq(TreeNode)
         /\ Len([n \in DOMAIN ns |-> TreeOf(ns[n])]) = Len(ns)
<1>1. DOMAIN ns = 1 .. Len(ns) /\ Len(ns) \in Nat
  BY LenProperties
<1>2. ASSUME NEW n \in 1 .. Len(ns)
      PROVE  TreeOf(ns[n]) \in TreeNode
  <2>1. ns[n] \in Node
    BY ElementOfSeq
  <2>2. QED
    BY <2>1 DEF Node, TreeOf, TreeNode, Argument, Property
<1> DEFINE tree == [n \in 1 .. Len(ns) |-> TreeOf(ns[n])]
<1>3. tree \in Seq(TreeNode)
  BY <1>1, <1>2, IsASeq
<1>4. Len(tree) = Len(ns)
  BY <1>1, <1>3, LenProperties
<1>5. QED
  BY <1>1, <1>3, <1>4

LEMMA TreeType ==
  ASSUME TypeOK
  PROVE  /\ nodes \in Seq(Node) /\ DOMAIN nodes = 1 .. Len(nodes) /\ Len(nodes) \in Nat
         /\ TreeNow \in Seq(TreeNode) /\ Len(TreeNow) = Len(nodes)
  BY TreeOfNodes DEF TypeOK, TreeNow

\* Comments and names are not part of the tree.
LEMMA SameTree ==
  ASSUME SameContent
  PROVE  TreeNow' = TreeNow
<1>1. \A n \in DOMAIN nodes : TreeOf(nodes'[n]) = TreeOf(nodes[n])
  BY DEF SameContent, Content, TreeOf
<1>2. QED
  BY <1>1 DEF SameContent, TreeNow

\* In a node, the current node is the last of the path and has been created.
LEMMA CurrentNode ==
  ASSUME TypeOK, node # << >>
  PROVE  /\ currentNode = node[Len(node)] /\ currentNode \in DOMAIN nodes
         /\ Len(node) \in Nat \ {0}
<1>1. node \in Seq(DOMAIN nodes)
  BY DEF TypeOK
<1>2. Last(node) \in DOMAIN nodes /\ Len(node) \in Nat \ {0}
  BY ONLY <1>1, node # << >>, FrontType, Zenon
<1>3. QED
  BY <1>2 DEF currentNode, Last

LEMMA OneMore ==
  ASSUME TypeOK, node # << >>, AddsArgument \/ AddsProperty
  PROVE  Tree!OneMoreValue
<1> DEFINE c == currentNode
<1>0. /\ c = node[Len(node)] /\ c \in DOMAIN nodes /\ nodes[c] \in Node
  BY CurrentNode, TreeType, ElementOfSeq
<1> HIDE DEF c
<1>1. CASE AddsArgument
  <2>1. PICK e \in Argument : nodes' = [nodes EXCEPT ![c].args = Append(@, e)]
    BY <1>1 DEF AddsArgument, c
  <2>2. nodes[c].args \in Seq(Argument)
    BY <1>0 DEF Node, Argument
  <2> DEFINE more == Append(nodes[c].args, e)
  <2>3. Len(more) = Len(nodes[c].args) + 1 /\ more = Append(nodes[c].args, more[Len(more)])
    BY <2>2, AppendProperties, LenProperties
  <2>4. /\ DOMAIN nodes' = DOMAIN nodes
        /\ \A n \in DOMAIN nodes \ {c} : nodes'[n] = nodes[n]
        /\ nodes'[c] = [nodes[c] EXCEPT !.args = more]
    BY <1>0, <2>1
  <2> HIDE DEF more
  <2>5. /\ nodes'[c].parent = nodes[c].parent /\ nodes'[c].props = nodes[c].props
        /\ nodes'[c].args = more
    BY <1>0, <2>4 DEF Node
  <2>6. /\ TreeNow[c].parent = nodes[c].parent /\ TreeNow'[c].parent = nodes'[c].parent
        /\ TreeNow[c].args = nodes[c].args /\ TreeNow'[c].args = nodes'[c].args
        /\ TreeNow[c].props = nodes[c].props /\ TreeNow'[c].props = nodes'[c].props
        /\ DOMAIN TreeNow' = DOMAIN TreeNow /\ DOMAIN TreeNow = DOMAIN nodes
        /\ \A n \in DOMAIN nodes \ {c} : TreeNow'[n] = TreeNow[n]
    BY <1>0, <2>4 DEF TreeNow, TreeOf
  <2>7. Tree!Grew(TreeNow[c].args, TreeNow'[c].args)
    BY <2>3, <2>5, <2>6 DEF Tree!Grew
  <2>8. QED
    BY <1>0, <2>5, <2>6, <2>7 DEF Tree!OneMoreValue, Tree!Current, TreeNow
<1>2. CASE AddsProperty
  <2>1. PICK e \in Property : nodes' = [nodes EXCEPT ![c].props = Append(@, e)]
    BY <1>2 DEF AddsProperty, c
  <2>2. nodes[c].props \in Seq(Property)
    BY <1>0 DEF Node, Property
  <2> DEFINE more == Append(nodes[c].props, e)
  <2>3. Len(more) = Len(nodes[c].props) + 1 /\ more = Append(nodes[c].props, more[Len(more)])
    BY <2>2, AppendProperties, LenProperties
  <2>4. /\ DOMAIN nodes' = DOMAIN nodes
        /\ \A n \in DOMAIN nodes \ {c} : nodes'[n] = nodes[n]
        /\ nodes'[c] = [nodes[c] EXCEPT !.props = more]
    BY <1>0, <2>1
  <2> HIDE DEF more
  <2>5. /\ nodes'[c].parent = nodes[c].parent /\ nodes'[c].args = nodes[c].args
        /\ nodes'[c].props = more
    BY <1>0, <2>4 DEF Node
  <2>6. /\ TreeNow[c].parent = nodes[c].parent /\ TreeNow'[c].parent = nodes'[c].parent
        /\ TreeNow[c].args = nodes[c].args /\ TreeNow'[c].args = nodes'[c].args
        /\ TreeNow[c].props = nodes[c].props /\ TreeNow'[c].props = nodes'[c].props
        /\ DOMAIN TreeNow' = DOMAIN TreeNow /\ DOMAIN TreeNow = DOMAIN nodes
        /\ \A n \in DOMAIN nodes \ {c} : TreeNow'[n] = TreeNow[n]
    BY <1>0, <2>4 DEF TreeNow, TreeOf
  <2>7. Tree!Grew(TreeNow[c].props, TreeNow'[c].props)
    BY <2>3, <2>5, <2>6 DEF Tree!Grew
  <2>8. QED
    BY <1>0, <2>5, <2>6, <2>7 DEF Tree!OneMoreValue, Tree!Current, TreeNow
<1>3. QED
  BY <1>1, <1>2

LEMMA AppendedNode ==
  ASSUME NEW ns \in Seq(Node), NEW new \in Node
  PROVE  /\ DOMAIN Append(ns, new) = 1 .. Len(ns) + 1
         /\ \A x \in 1 .. Len(ns) : Append(ns, new)[x] = ns[x]
         /\ Append(ns, new)[Len(ns) + 1] = new
<1>1. /\ Append(ns, new) \in Seq(Node) /\ Len(Append(ns, new)) = Len(ns) + 1
      /\ \A x \in 1 .. Len(ns) : Append(ns, new)[x] = ns[x]
      /\ Append(ns, new)[Len(ns) + 1] = new
  BY AppendProperties
<1>2. DOMAIN Append(ns, new) = 1 .. Len(Append(ns, new))
  BY ONLY <1>1, LenProperties
<1>3. QED
  BY <1>1, <1>2

LEMMA OneMoreNode ==
  ASSUME SInv, NEW t \in ValidToken, AddsNode(t), TreeNow' \in Seq(TreeNode), Len(nodes') \in Nat
  PROVE  Tree!DeclareNode
<1>0. /\ TypeOK /\ StackShape /\ SuppressedBlocksCounted /\ node \in Seq(DOMAIN nodes)
      /\ ignoreChildren \in Nat /\ Len(suppressed) \in Nat
      /\ nodes \in Seq(Node) /\ DOMAIN nodes = 1 .. Len(nodes) /\ Len(nodes) \in Nat
      /\ TreeNow \in Seq(TreeNode) /\ Len(TreeNow) = Len(nodes)
      /\ t \in Token /\ Valid(t)
  BY SuppressedType, TreeType, ValidTokens DEF SInv, IInv, TypeOK
<1>1. PICK skip \in BOOLEAN : /\ nodes' = Append(nodes, Declared(t, skip))
                              /\ state = "Children" /\ ignoreChildren > 0 => skip
  BY DEF AddsNode
<1> DEFINE p   == Declared(t, skip).parent
           new == [parent |-> p, args |-> << >>, props |-> << >>]
<1>2. Declared(t, skip) \in Node
  BY <1>0, DeclaredType
<1>3. /\ TreeOf(Declared(t, skip)) = new /\ new \in TreeNode
      /\ p = IF skip THEN Detached ELSE IF node = << >> THEN Root ELSE currentNode
  BY <1>2 DEF Declared, TreeOf, TreeNode, Node
<1>4. Tree!Hidden => p = Detached
  <2>1. state = "Document" => Len(suppressed) = 0
    BY <1>0, EmptySeq
    DEF StackShape, CurrentStateFitsStacks, OpenBracesMatch, AtBlockLevel
  <2>2. Tree!Hidden => ignoreChildren > 0 /\ Len(suppressed) # 0
    BY <1>0 DEF Tree!Hidden, SuppressedBlocksCounted
  <2>3. Tree!Hidden => skip
    BY <1>1, <2>1, <2>2 DEF AddsNode, AtBlockLevel
  <2>4. QED
    BY <1>3, <2>3
<1>5. p \in {Detached, IF node = << >> THEN Root ELSE Tree!Current}
  BY <1>3 DEF currentNode, Last, Tree!Current
<1> HIDE DEF p
<1>6. TreeNow' = Append(TreeNow, new)
  <2>1. /\ nodes' \in Seq(Node) /\ Len(nodes') = Len(nodes) + 1
        /\ DOMAIN nodes' = 1 .. Len(nodes) + 1
        /\ \A n \in 1 .. Len(nodes) : nodes'[n] = nodes[n]
        /\ nodes'[Len(nodes) + 1] = Declared(t, skip)
    BY ONLY <1>0, <1>1, <1>2, AppendProperties, LenProperties
  <2>2. /\ \A n \in 1 .. Len(nodes) : TreeNow'[n] = TreeNow[n]
        /\ TreeNow'[Len(nodes) + 1] = new /\ DOMAIN TreeNow' = 1 .. Len(nodes) + 1
    BY <1>0, <1>3, <2>1 DEF TreeNow
  <2>3. Len(TreeNow') = Len(nodes) + 1
    BY ONLY <1>0, <2>2, TreeNow' \in Seq(TreeNode), LenProperties
  <2>4. /\ Append(TreeNow, new) \in Seq(TreeNode)
        /\ Len(Append(TreeNow, new)) = Len(nodes) + 1
        /\ \A n \in 1 .. Len(nodes) : Append(TreeNow, new)[n] = TreeNow[n]
        /\ Append(TreeNow, new)[Len(nodes) + 1] = new
    BY ONLY <1>0, <1>3, AppendProperties
  <2>5. \A n \in 1 .. Len(TreeNow') : TreeNow'[n] = Append(TreeNow, new)[n]
    BY ONLY <1>0, <2>2, <2>3, <2>4
  <2>6. QED
    BY ONLY <2>3, <2>4, <2>5, TreeNow' \in Seq(TreeNode), SeqEqual
<1>7. Tree!InBlock
  BY <1>0 DEF AddsNode, Tree!InBlock, StackShape, OpenBracesMatch
<1>8. node' = Append(node, Len(TreeNow) + 1) /\ suppressed' = suppressed
  BY <1>0 DEF AddsNode
<1>9. QED
  BY <1>4, <1>5, <1>6, <1>7, <1>8 DEF Tree!DeclareNode, TreeNow

\* A new node means a declaration.
LEMMA NewNodeIsDeclared ==
  ASSUME TypeOK, NEW t, EntersNode,
         SameContent \/ AddsArgument \/ AddsProperty \/ AddsNode(t)
  PROVE  AddsNode(t)
<1>1. PICK new \in Node : nodes' = Append(nodes, new)
  BY DEF EntersNode
<1>2. /\ Len(nodes') = Len(nodes) + 1 /\ Len(nodes) \in Nat
      /\ DOMAIN nodes = 1 .. Len(nodes) /\ DOMAIN nodes' = 1 .. Len(nodes')
  BY <1>1, TreeType, AppendProperties, LenProperties
<1>3. Len(nodes) + 1 \in DOMAIN nodes' /\ Len(nodes) + 1 \notin DOMAIN nodes
  BY <1>2
<1>4. ~SameContent
  BY <1>3 DEF SameContent
<1>5. QED
  BY <1>4 DEF EntersNode, AddsArgument, AddsProperty, AtBlockLevel, NodeStates

LEMMA TreeStep ==
  ASSUME SInv, NEW t \in ValidToken, Parse(t)
  PROVE  [Tree!Next]_(Tree!vars)
<1>0. /\ IInv /\ TypeOK /\ StackShape /\ SuppressedBlocksCounted
      /\ node \in Seq(DOMAIN nodes) /\ suppressed \in Seq(BOOLEAN)
      /\ ignoreChildren \in Nat
      /\ Len(node) \in Nat /\ (node = << >> <=> Len(node) = 0)
      /\ Len(suppressed) \in Nat /\ DOMAIN suppressed = 1 .. Len(suppressed)
      /\ (suppressed = << >> <=> Len(suppressed) = 0)
  BY SuppressedType, EmptyMeansZero DEF SInv, IInv, TypeOK
<1>1. nodes' \in Seq(Node)
  <2>1. IInv'
    BY <1>0, StepIInv
  <2>2. QED
    BY <2>1 DEF IInv, TypeOK
<1>2. TreeNow' \in Seq(TreeNode) /\ Len(nodes') \in Nat
  BY ONLY <1>1, TreeOfNodes DEF TreeNow
<1>3. CASE /\ UNCHANGED <<node, suppressed>>
           /\ SameContent \/ AddsArgument \/ AddsProperty
  <2>1. CASE SameContent
    BY <1>3, <2>1, SameTree DEF Tree!vars, TreeNow
  <2>2. CASE AddsArgument \/ AddsProperty
    <3>1. state \in NodeStates
      BY <2>2 DEF AddsArgument, AddsProperty
    <3>2. node # << >> /\ Tree!InNode
      BY <1>0, <3>1
      DEF StackShape, CurrentStateFitsStacks, OpenBracesMatch, Tree!InNode, AtBlockLevel,
          NodeStates, Annotating
    <3>3. Tree!AddValue
      BY <1>0, <1>3, <2>2, <3>2, OneMore DEF Tree!AddValue
    <3>4. QED
      BY <3>3 DEF Tree!Next
  <2>3. QED
    BY <1>3, <2>1, <2>2
<1>4. CASE /\ state \in NodeStates /\ (LeavesNode \/ EntersBlock)
           /\ SameContent \/ AddsArgument \/ AddsProperty
  <2>1. node # << >> /\ Tree!InNode
    BY <1>0, <1>4
    DEF StackShape, CurrentStateFitsStacks, OpenBracesMatch, Tree!InNode, AtBlockLevel,
        NodeStates, Annotating
  <2>2. Tree!OneMoreValue \/ TreeNow' = TreeNow
    BY <1>0, <1>4, <2>1, OneMore, SameTree
  <2>3. CASE LeavesNode
    <3>1. node' = SubSeq(node, 1, Len(node) - 1) /\ suppressed' = suppressed
      BY <2>3 DEF LeavesNode, Front
    <3>2. Tree!CloseNode
      BY <2>1, <2>2, <3>1 DEF Tree!CloseNode, TreeNow
    <3>3. QED
      BY <3>2 DEF Tree!Next
  <2>4. CASE EntersBlock
    <3>1. PICK skip \in BOOLEAN :
            suppressed' = Append(suppressed, skip \/ (suppressed # << >> /\ Last(suppressed)))
      BY <2>4 DEF EntersBlock
    <3>2. Tree!Hidden <=> suppressed # << >> /\ Last(suppressed)
      <4>1. ASSUME NEW i \in 1 .. Len(suppressed)
            PROVE  i > Len(suppressed) - ignoreChildren
                     => Len(suppressed) > Len(suppressed) - ignoreChildren
        BY <1>0
      <4>2. \A i \in 1 .. Len(suppressed) :
              suppressed[i] <=> i > Len(suppressed) - ignoreChildren
        BY <1>0, Zenon DEF SuppressedBlocksCounted
      <4>3. suppressed # << >> => Len(suppressed) \in 1 .. Len(suppressed)
        BY <1>0
      <4>4. ASSUME NEW i \in 1 .. Len(suppressed) PROVE suppressed # << >>
        BY <1>0
      <4>5. QED
        BY <1>0, <4>1, <4>2, <4>3, <4>4, Zenon DEF Tree!Hidden, Last
    <3>3. (skip \/ (suppressed # << >> /\ Last(suppressed))) = (Tree!Hidden \/ skip)
      BY <3>2, Zenon
    <3>4. suppressed' = Append(suppressed, Tree!Hidden \/ skip) /\ node' = node
      BY <2>4, <3>1, <3>3 DEF EntersBlock
    <3>5. Tree!OpenBlock
      BY <2>1, <2>2, <3>4 DEF Tree!OpenBlock, TreeNow
    <3>6. QED
      BY <3>5 DEF Tree!Next
  <2>5. QED
    BY <1>4, <2>3, <2>4
<1>5. CASE LeavesBlock /\ SameContent
  <2>1. /\ suppressed # << >> /\ Tree!InBlock
        /\ suppressed' = SubSeq(suppressed, 1, Len(suppressed) - 1) /\ node' = node
    BY <1>0, <1>5
    DEF LeavesBlock, StackShape, CurrentStateFitsStacks, OpenBracesMatch, Tree!InBlock,
        AtBlockLevel, Front
  <2>2. TreeNow' = TreeNow
    BY <1>5, SameTree
  <2>3. Tree!CloseBlock
    BY <2>1, <2>2 DEF Tree!CloseBlock, TreeNow
  <2>4. QED
    BY <2>3 DEF Tree!Next
<1>6. CASE EntersNode /\ AddsNode(t)
  <2>1. Tree!DeclareNode
    BY <1>2, <1>6, OneMoreNode
  <2>2. QED
    BY <2>1 DEF Tree!Next
<1>7. CASE ~(Accept(t) /\ Handle(t))
  <2>1. UNCHANGED <<node, suppressed, nodes>>
    BY <1>7, RejectedToken DEF stack, output
  <2>2. QED
    BY <2>1 DEF Tree!vars
<1>8. CASE Handle(t)
  <2>1. StackMove /\ (SameContent \/ AddsArgument \/ AddsProperty \/ AddsNode(t))
    BY <1>0, <1>8, StackStep, ContentMoves
  <2>2. AddsNode(t) => EntersNode
    <3>1. \A n \in Nat : Len(Append(node, n)) = Len(node) + 1
      BY <1>0, AppendProperties
    <3>2. AddsNode(t) => node' # node
      BY <1>0, <1>2, <3>1 DEF AddsNode
    <3>3. QED
      BY <2>1, <3>2
      DEF AddsNode, AtBlockLevel, NodeStates, StackMove, Stays, stack, MovesInNode,
          LeavesNode, EntersBlock, LeavesBlock, EntersAnnotation, NamesAnnotation,
          LeavesAnnotation
  <2>3. EntersNode => AddsNode(t)
    BY <1>0, <2>1, NewNodeIsDeclared
  <2>4. CASE AddsNode(t)
    BY <1>6, <2>2, <2>4
  <2>5. CASE ~AddsNode(t)
    <3>1. SameContent \/ AddsArgument \/ AddsProperty
      BY <2>1, <2>5
    <3>2. \/ UNCHANGED <<node, suppressed>>
          \/ state \in NodeStates /\ (LeavesNode \/ EntersBlock)
          \/ LeavesBlock /\ SameContent
      BY <2>1, <2>3, <2>5, <3>1
      DEF StackMove, Stays, stack, MovesInNode, LeavesNode, EntersBlock, LeavesBlock,
          EntersAnnotation, NamesAnnotation, LeavesAnnotation, AddsArgument, AddsProperty,
          NodeStates
    <3>3. QED
      BY <1>3, <1>4, <1>5, <3>1, <3>2
  <2>6. QED
    BY <2>4, <2>5
<1>9. QED
  BY <1>7, <1>8

(***************************************************************************)
(* The parser implements NodeTree: every token is one step of the tree     *)
(* builder or none, so the document follows the nesting of the text and    *)
(* what a /- covers is not in it, for every token stream.                  *)
(***************************************************************************)
THEOREM DocumentFollowsText == AnyTokens => ImplementsNodeTree
<1>1. Init => Tree!Init
  <2>1. Init => TreeNow = << >>
    BY DEF Init, TreeNow
  <2>2. QED
    BY <2>1 DEF Init, Tree!Init, TreeNow
<1>2. SInv /\ [ParsesOne]_vars => [Tree!Next]_(Tree!vars)
  <2>1. ASSUME UNCHANGED vars PROVE UNCHANGED Tree!vars
    BY <2>1 DEF vars, stack, output, Tree!vars
  <2>2. QED
    BY <2>1, TreeStep DEF ParsesOne
<1>3. QED
  BY <1>1, <1>2, SuppressionInvariant, PTL DEF AnyTokens, ImplementsNodeTree, Tree!Spec

-----------------------------------------------------------------------------
(* The nodes that are not current *)

OthersKeepContent ==
  \A n \in DOMAIN nodes :
    Content(nodes'[n]) # Content(nodes[n]) => node # << >> /\ n = currentNode

LEMMA OthersKept ==
  ASSUME IInv, NEW t \in ValidToken, Parse(t)
  PROVE  /\ OthersKeepContent
         /\ DOMAIN nodes \subseteq DOMAIN nodes'
         /\ \A n \in DOMAIN nodes : nodes'[n].parent = nodes[n].parent
<1>0. /\ TypeOK /\ StackShape /\ nodes \in Seq(Node)
      /\ DOMAIN nodes = 1 .. Len(nodes) /\ Len(nodes) \in Nat
      /\ \A n \in DOMAIN nodes : nodes[n] \in Node
  BY TreeType, ElementOfSeq DEF IInv
<1>1. CASE SameContent
  BY <1>1 DEF SameContent, OthersKeepContent, Content
<1>2. CASE AddsArgument
  <2>1. node # << >>
    BY <1>0, <1>2 DEF AddsArgument, StackShape, CurrentStateFitsStacks
  <2>2. PICK e \in Argument : nodes' = [nodes EXCEPT ![currentNode].args = Append(@, e)]
    BY <1>2 DEF AddsArgument
  <2>3. DOMAIN nodes' = DOMAIN nodes
    BY <2>2
  <2>4. \A n \in DOMAIN nodes : n # currentNode => nodes'[n] = nodes[n]
    BY <2>2
  <2>5. \A n \in DOMAIN nodes : nodes'[n].parent = nodes[n].parent
    BY <1>0, <2>2 DEF Node
  <2>6. QED
    BY <2>1, <2>3, <2>4, <2>5 DEF OthersKeepContent
<1>3. CASE AddsProperty
  <2>1. node # << >>
    BY <1>0, <1>3 DEF AddsProperty, StackShape, CurrentStateFitsStacks
  <2>2. PICK e \in Property : nodes' = [nodes EXCEPT ![currentNode].props = Append(@, e)]
    BY <1>3 DEF AddsProperty
  <2>3. DOMAIN nodes' = DOMAIN nodes
    BY <2>2
  <2>4. \A n \in DOMAIN nodes : n # currentNode => nodes'[n] = nodes[n]
    BY <2>2
  <2>5. \A n \in DOMAIN nodes : nodes'[n].parent = nodes[n].parent
    BY <1>0, <2>2 DEF Node
  <2>6. QED
    BY <2>1, <2>3, <2>4, <2>5 DEF OthersKeepContent
<1>4. CASE AddsNode(t)
  <2>1. PICK skip \in BOOLEAN : nodes' = Append(nodes, Declared(t, skip))
    BY <1>4 DEF AddsNode
  <2>2. Declared(t, skip) \in Node
    BY <1>0, ValidTokens, DeclaredType
  <2>3. /\ \A n \in DOMAIN nodes : nodes'[n] = nodes[n]
        /\ DOMAIN nodes' = 1 .. Len(nodes) + 1
    BY ONLY <1>0, <2>1, <2>2, AppendProperties, LenProperties
  <2>4. QED
    BY <1>0, <2>3 DEF OthersKeepContent
<1>5. CASE ~(Accept(t) /\ Handle(t))
  BY <1>1, <1>5, RejectedToken DEF SameContent, output
<1>6. QED
  BY <1>0, <1>1, <1>2, <1>3, <1>4, <1>5, ContentMoves

(***************************************************************************)
(* The arguments and properties of a closed node never change again, and   *)
(* those of an open one do not change while a child of it is read.         *)
(***************************************************************************)
THEOREM ClosedNodesAreFinal == AnyTokens => OnlyCurrentNodeChanges
<1>1. IInv /\ [ParsesOne]_vars => [OthersKeepContent]_vars
  BY OthersKept DEF ParsesOne
<1>2. QED
  BY <1>1, Invariance, PTL DEF AnyTokens, OnlyCurrentNodeChanges, OthersKeepContent

-----------------------------------------------------------------------------
(* The parents of the open nodes *)

\* An open node inside a covered block is in no document.
CoveredNodesDetached ==
  \A k \in DOMAIN node : k > 1 /\ suppressed[k - 1] => nodes[node[k]].parent = Detached

NestInv == SInv /\ OpenNodesNest /\ CoveredNodesDetached

LEMMA ShorterPrefix ==
  ASSUME NEW m \in Nat, NEW n \in Nat, n = m - 1 \/ n = m
  PROVE  \A k \in 1 .. m - 1 : k \in 1 .. n
  OBVIOUS

LEMMA NestStep ==
  ASSUME NestInv, NEW t \in ValidToken, Parse(t)
  PROVE  (OpenNodesNest /\ CoveredNodesDetached)'
<1>0. /\ SInv /\ IInv /\ TypeOK /\ StackShape /\ SuppressedBlocksCounted
      /\ node \in Seq(DOMAIN nodes) /\ suppressed \in Seq(BOOLEAN)
      /\ Len(node) \in Nat /\ DOMAIN node = 1 .. Len(node)
      /\ Len(suppressed) \in Nat /\ DOMAIN suppressed = 1 .. Len(suppressed)
      /\ ignoreChildren \in Nat
  BY SuppressedType, LenProperties DEF NestInv, SInv, IInv, TypeOK
<1>10. node \in Seq(DOMAIN nodes) /\ suppressed \in Seq(BOOLEAN)
  BY <1>0
<1>12. /\ Len(node) \in Nat /\ DOMAIN node = 1 .. Len(node) /\ Len(suppressed) \in Nat
  BY <1>0
<1>1. /\ \A n \in DOMAIN nodes : nodes'[n].parent = nodes[n].parent
      /\ \A k \in 1 .. Len(node) : node[k] \in DOMAIN nodes
  <2>1. \A n \in DOMAIN nodes : nodes'[n].parent = nodes[n].parent
    BY <1>0, OthersKept, Zenon
  <2>2. \A k \in 1 .. Len(node) : node[k] \in DOMAIN nodes
    BY ONLY <1>10, ElementOfSeq
  <2>3. QED
    BY <2>1, <2>2
<1>2. /\ \A k \in 1 .. Len(node) :
           /\ nodes[node[k]].parent \in {Detached, IF k = 1 THEN Root ELSE node[k - 1]}
           /\ k > 1 /\ suppressed[k - 1] => nodes[node[k]].parent = Detached
  BY <1>0, Zenon DEF NestInv, OpenNodesNest, CoveredNodesDetached
<1>11. Len(suppressed) = Len(node) - 1 \/ Len(suppressed) = Len(node)
  <2>1. OpenBracesMatch
    BY <1>0, Zenon DEF StackShape
  <2>2. QED
    BY ONLY <2>1 DEF OpenBracesMatch
<1>13. \A k \in 1 .. Len(node) - 1 : k \in 1 .. Len(suppressed)
  <2>1. Len(node) \in Nat /\ Len(suppressed) \in Nat
    BY <1>12, Zenon
  <2>2. QED
    BY ONLY <1>11, <2>1, ShorterPrefix, Zenon
<1>3. ASSUME /\ Len(node') <= Len(node) /\ DOMAIN node' = 1 .. Len(node') /\ Len(node') \in Nat
             /\ \A k \in 1 .. Len(node') : node'[k] = node[k]
             /\ \A k \in 1 .. Len(node') - 1 : suppressed'[k] = suppressed[k]
      PROVE  (OpenNodesNest /\ CoveredNodesDetached)'
  <2>1. ASSUME NEW k \in 1 .. Len(node')
        PROVE  /\ nodes'[node'[k]].parent \in {Detached, IF k = 1 THEN Root ELSE node'[k - 1]}
               /\ k > 1 /\ suppressed'[k - 1] => nodes'[node'[k]].parent = Detached
    <3>1. k \in 1 .. Len(node) /\ node'[k] = node[k]
      BY <1>0, <1>3, <2>1
    <3>2. nodes'[node'[k]].parent = nodes[node[k]].parent
      BY <1>1, <3>1
    <3>3. k # 1 => k - 1 \in 1 .. Len(node') - 1 /\ k - 1 \in 1 .. Len(node')
      BY <1>3, <2>1
    <3>4. k # 1 => node'[k - 1] = node[k - 1] /\ suppressed'[k - 1] = suppressed[k - 1]
      BY <1>3, <3>3
    <3>5. QED
      BY <1>2, <3>1, <3>2, <3>4
  <2>2. QED
    BY <1>3, <2>1 DEF OpenNodesNest, CoveredNodesDetached
<1>4. CASE UNCHANGED <<node, suppressed>>
  BY <1>0, <1>3, <1>4
<1>5. CASE EntersBlock
  <2>1. PICK b \in BOOLEAN : suppressed' = Append(suppressed, b)
    BY <1>0, <1>5 DEF EntersBlock
  <2>2. \A k \in 1 .. Len(suppressed) : suppressed'[k] = suppressed[k]
    BY ONLY <1>10, <2>1, AppendProperties
  <2>3. node' = node
    BY <1>5, Zenon DEF EntersBlock
  <2>4. /\ Len(node') <= Len(node) /\ DOMAIN node' = 1 .. Len(node') /\ Len(node') \in Nat
        /\ \A k \in 1 .. Len(node') : node'[k] = node[k]
    BY ONLY <1>12, <2>3
  <2>5. \A k \in 1 .. Len(node') - 1 : k \in 1 .. Len(suppressed)
    BY ONLY <1>13, <2>3, ZenonT(30)
  <2>6. \A k \in 1 .. Len(node') - 1 : suppressed'[k] = suppressed[k]
    BY <2>2, <2>5, Zenon
  <2>7. QED
    BY <1>3, <2>4, <2>6, Zenon
<1>6. CASE LeavesBlock
  <2>1. Len(suppressed) = Len(node) /\ node # << >>
    BY <1>0, <1>6
    DEF LeavesBlock, StackShape, OpenBracesMatch, CurrentStateFitsStacks, AtBlockLevel
  <2>2. suppressed # << >>
    BY <1>0, <2>1, EmptyMeansZero
  <2>3. \A k \in 1 .. Len(suppressed) - 1 : suppressed'[k] = suppressed[k]
    <3>1. suppressed' = Front(suppressed)
      BY <1>6 DEF LeavesBlock
    <3>2. QED
      BY ONLY <1>10, <2>2, <3>1, FrontType
  <2>4. QED
    BY <1>0, <1>3, <1>6, <2>1, <2>3 DEF LeavesBlock
<1>7. CASE LeavesNode
  <2>1. node # << >> /\ node' = Front(node) /\ suppressed' = suppressed
    BY <1>7 DEF LeavesNode
  <2>2. /\ node' \in Seq(DOMAIN nodes) /\ Len(node') = Len(node) - 1
        /\ \A k \in 1 .. Len(node) - 1 : node'[k] = node[k]
    BY ONLY <1>10, <2>1, FrontType, Zenon
  <2>3. DOMAIN node' = 1 .. Len(node') /\ Len(node') \in Nat
    BY ONLY <2>2, LenProperties
  <2>4. QED
    BY <1>0, <1>3, <2>1, <2>2, <2>3
<1>8. CASE EntersNode /\ AddsNode(t)
  <2> DEFINE m == Len(node) + 1
  <2>1. PICK skip \in BOOLEAN : /\ nodes' = Append(nodes, Declared(t, skip))
                                /\ state = "Children" /\ ignoreChildren > 0 => skip
    BY <1>8 DEF AddsNode
  <2>2. Declared(t, skip) \in Node
    BY <1>0, ValidTokens, DeclaredType
  <2>3. Len(nodes) + 1 \in Nat /\ nodes'[Len(nodes) + 1] = Declared(t, skip)
    BY <1>0, <2>1, <2>2, TreeType, AppendProperties
  <2>4. node' = Append(node, Len(nodes) + 1) /\ suppressed' = suppressed /\ node \in Seq(Nat)
    BY <1>0, <1>8, TreeType DEF AddsNode
  <2>5. /\ DOMAIN node' = 1 .. m /\ Len(node') = m
        /\ \A k \in 1 .. Len(node) : node'[k] = node[k]
        /\ node'[m] = Len(nodes) + 1
    BY ONLY <2>3, <2>4, AppendProperties, LenProperties
  <2>6. nodes'[node'[m]].parent \in {Detached, IF m = 1 THEN Root ELSE node'[m - 1]}
    <3>1. node # << >> => currentNode = node[Len(node)] /\ Len(node) \in Nat \ {0}
      BY <1>0, CurrentNode
    <3>2. nodes'[node'[m]].parent = IF skip THEN Detached
                                    ELSE IF node = << >> THEN Root ELSE currentNode
      BY <2>3, <2>5 DEF Declared
    <3>3. node = << >> <=> m = 1
      BY <1>0, EmptyMeansZero
    <3>4. m # 1 => node'[m - 1] = node[Len(node)]
      BY <1>0, <2>5
    <3>5. QED
      BY <3>1, <3>2, <3>3, <3>4
  <2>7. m > 1 /\ suppressed[m - 1] => nodes'[node'[m]].parent = Detached
    <3>1. Len(suppressed) = Len(node) /\ (state = "Document" => m = 1)
      BY <1>0, <1>8, EmptySeq
      DEF AddsNode, StackShape, OpenBracesMatch, CurrentStateFitsStacks
    <3>2. m > 1 /\ suppressed[m - 1] => ignoreChildren > 0
      BY <1>0, <3>1 DEF SuppressedBlocksCounted
    <3>3. m > 1 /\ suppressed[m - 1] => skip
      BY <1>8, <2>1, <3>1, <3>2 DEF AddsNode, AtBlockLevel
    <3>4. QED
      BY <2>3, <2>5, <3>3 DEF Declared
  <2>8. ASSUME NEW k \in 1 .. Len(node)
        PROVE  /\ nodes'[node'[k]].parent \in {Detached, IF k = 1 THEN Root ELSE node'[k - 1]}
               /\ k > 1 /\ suppressed[k - 1] => nodes'[node'[k]].parent = Detached
    <3>1. nodes'[node'[k]].parent = nodes[node[k]].parent
      BY <1>1, <2>5
    <3>2. k # 1 => node'[k - 1] = node[k - 1]
      BY <1>0, <2>5, <2>8
    <3>3. QED
      BY <1>2, <3>1, <3>2
  <2>9. ASSUME NEW k \in 1 .. m
        PROVE  k = m \/ k \in 1 .. Len(node)
    BY <1>0
  <2> HIDE DEF m
  <2>10. QED
    BY <2>4, <2>5, <2>6, <2>7, <2>8, <2>9 DEF OpenNodesNest, CoveredNodesDetached
<1>9. QED
  <2>1. CASE ~(Accept(t) /\ Handle(t))
    BY <1>4, <2>1, RejectedToken DEF stack
  <2>2. CASE Handle(t)
    <3>1. StackMove /\ (SameContent \/ AddsArgument \/ AddsProperty \/ AddsNode(t))
      BY <1>0, <2>2, StackStep, ContentMoves
    <3>2. EntersNode => AddsNode(t)
      BY <1>0, <3>1, NewNodeIsDeclared
    <3>3. QED
      BY <1>4, <1>5, <1>6, <1>7, <1>8, <3>1, <3>2
      DEF StackMove, Stays, stack, MovesInNode, EntersAnnotation, NamesAnnotation,
          LeavesAnnotation
  <2>3. QED
    BY <2>1, <2>2

LEMMA NestInvariance == AnyTokens => []NestInv
<1>1. Init => OpenNodesNest /\ CoveredNodesDetached
  BY DEF Init, OpenNodesNest, CoveredNodesDetached
<1>2. SInv /\ OpenNodesNest /\ CoveredNodesDetached /\ [ParsesOne]_vars
        => (OpenNodesNest /\ CoveredNodesDetached)'
  <2>1. ASSUME OpenNodesNest, CoveredNodesDetached, UNCHANGED vars
        PROVE  (OpenNodesNest /\ CoveredNodesDetached)'
    BY <2>1 DEF OpenNodesNest, CoveredNodesDetached, vars, stack, output
  <2>2. QED
    BY <2>1, NestStep DEF NestInv, ParsesOne
<1>3. QED
  BY <1>1, <1>2, SuppressionInvariant, PTL DEF AnyTokens, NestInv

(***************************************************************************)
(* Every open node hangs below the open node around it, or is left out.    *)
(***************************************************************************)
THEOREM TreeNests == AnyTokens => []OpenNodesNest
  BY NestInvariance, PTL DEF NestInv

LEMMA TraceStep ==
  ASSUME NestInv, NEW t \in ValidToken, Parse(t), NEW i \in DOMAIN suppressed, suppressed[i],
         NEW n \in DOMAIN nodes', nodes'[n].parent # Detached
  PROVE  n \in DOMAIN nodes /\ Content(nodes'[n]) = Content(nodes[n])
<1>0. /\ SInv /\ IInv /\ TypeOK /\ StackShape /\ SuppressedBlocksCounted /\ CoveredNodesDetached
      /\ node \in Seq(DOMAIN nodes) /\ Len(node) \in Nat /\ DOMAIN node = 1 .. Len(node)
      /\ Len(suppressed) \in Nat /\ DOMAIN suppressed = 1 .. Len(suppressed)
      /\ ignoreChildren \in Nat
  BY SuppressedType, LenProperties DEF NestInv, SInv, IInv, TypeOK
<1>1. ignoreChildren > 0 /\ suppressed[Len(suppressed)] /\ Len(suppressed) >= 1
  BY <1>0 DEF SuppressedBlocksCounted
<1>2. /\ OthersKeepContent
      /\ \A x \in DOMAIN nodes : nodes'[x].parent = nodes[x].parent
  BY <1>0, OthersKept
<1>3. state \in NodeStates => nodes[currentNode].parent = Detached
  <2> SUFFICES ASSUME state \in NodeStates PROVE nodes[currentNode].parent = Detached
    OBVIOUS
  <2>1. ~AtBlockLevel /\ ~Annotating
    BY DEF AtBlockLevel, Annotating, NodeStates
  <2>2. node # << >> /\ Len(suppressed) = Len(node) - 1
    <3>1. OpenBracesMatch /\ CurrentStateFitsStacks
      BY <1>0, Zenon DEF StackShape
    <3>2. Len(suppressed) = Len(node) - 1
      BY ONLY <2>1, <3>1 DEF OpenBracesMatch
    <3>3. QED
      BY <3>1, <3>2, Zenon DEF CurrentStateFitsStacks
  <2>3. currentNode = node[Len(node)]
    BY <1>0, <2>2, CurrentNode, Zenon
  <2>4. /\ Len(node) \in DOMAIN node /\ Len(node) > 1 /\ Len(node) - 1 = Len(suppressed)
    BY <1>0, <1>1, <2>2
  <2>5. suppressed[Len(node) - 1]
    BY <1>1, <2>4, Zenon
  <2>6. QED
    BY <1>0, <2>3, <2>4, <2>5, Zenon DEF CoveredNodesDetached
<1>4. CASE SameContent \/ AddsArgument \/ AddsProperty
  <2>1. DOMAIN nodes' = DOMAIN nodes
    BY <1>4 DEF SameContent, AddsArgument, AddsProperty
  <2>2. CASE SameContent
    BY <2>1, <2>2 DEF SameContent
  <2>3. CASE state \in NodeStates
    BY <1>2, <1>3, <2>1, <2>3 DEF OthersKeepContent
  <2>4. QED
    BY <1>4, <2>2, <2>3 DEF AddsArgument, AddsProperty
<1>5. CASE AddsNode(t)
  <2>1. state = "Children"
    BY <1>0, <1>1, <1>5, EmptySeq
    DEF AddsNode, AtBlockLevel, StackShape, CurrentStateFitsStacks, OpenBracesMatch
  <2>2. PICK skip \in BOOLEAN : skip /\ nodes' = Append(nodes, Declared(t, skip))
    BY <1>1, <1>5, <2>1 DEF AddsNode
  <2>3. Declared(t, skip) \in Node /\ Declared(t, skip).parent = Detached
    BY <1>0, <2>2, ValidTokens, DeclaredType DEF Declared
  <2>4. /\ DOMAIN nodes = 1 .. Len(nodes) /\ DOMAIN nodes' = 1 .. Len(nodes) + 1
        /\ \A x \in 1 .. Len(nodes) : nodes'[x] = nodes[x]
        /\ nodes'[Len(nodes) + 1] = Declared(t, skip) /\ Len(nodes) \in Nat
    <3>1. nodes \in Seq(Node) /\ Len(nodes) \in Nat /\ DOMAIN nodes = 1 .. Len(nodes)
      BY <1>0, TreeType
    <3>2. QED
      BY ONLY <2>2, <2>3, <3>1, AppendedNode
  <2>5. n # Len(nodes) + 1
    BY <2>3, <2>4
  <2>6. QED
    BY <2>4, <2>5
<1>6. CASE ~(Accept(t) /\ Handle(t))
  BY <1>4, <1>6, RejectedToken DEF SameContent, output
<1>7. QED
  BY <1>0, <1>4, <1>5, <1>6, ContentMoves

LeavesNoTrace ==
  (\E i \in DOMAIN suppressed : suppressed[i]) =>
    \A n \in DOMAIN nodes' :
      nodes'[n].parent # Detached =>
        n \in DOMAIN nodes /\ Content(nodes'[n]) = Content(nodes[n])

(***************************************************************************)
(* While a block a /- covers is open, whatever is read inside it, no node, *)
(* no argument and no property of it reaches the document (a comment may). *)
(***************************************************************************)
THEOREM CoveredTextIsDropped == AnyTokens => SuppressedBlocksLeaveNoTrace
<1>1. NestInv /\ [ParsesOne]_vars => [LeavesNoTrace]_vars
  BY TraceStep DEF LeavesNoTrace, ParsesOne
<1>2. QED
  BY <1>1, NestInvariance, PTL DEF AnyTokens, SuppressedBlocksLeaveNoTrace, LeavesNoTrace


-----------------------------------------------------------------------------
(* What becomes of a held value *)

\* The three ways the handlers take a held value out of the context.
HeldValueLeaves ==
  \/ state = "NodeParams"
  \/ /\ state = "ArgProp"
     /\ Queued => IF ignoreNextArgProp THEN nodes' = nodes ELSE AddArgument(ident, typeAnnot)
  \/ /\ state = "PropertyValue"
     /\ IF ignoreNextArgProp THEN nodes' = nodes
        ELSE \E val \in ValidToken : AddProperty(ident, val, typeAnnot)

LEMMA HeldValueMoves ==
  ASSUME NEW t \in ValidToken, Handle(t), ident' # ident
  PROVE  HeldValueLeaves
<1>1. \/ NodeParamsHold(t) \/ NodeParamsSuffixedDecimal(t)
      \/ ArgPropTokenComment(t) \/ ArgPropWhitespace(t) \/ ArgPropValue(t)
      \/ ArgPropBraceOpen(t) \/ ArgPropTerminator(t) \/ PropertyValueValue(t)
  BY DEF Handle, held, Nop, DeclareNode, BlockWhitespace, DocumentTerminator, ChildrenNewline,
         BlockComment, BlockTokenComment, DocumentIdentifier, ChildrenIdentifier,
         ChildrenBraceClose, ParensOpen, TypeAnnotName, TypeDoneParensClose, NodeWhitespace,
         NodeTerminator, NodeEquals, NodeParamsBlank, NodeParamsEquals,
         NodeParamsTokenComment, NodeParamsSingleLineComment, NodeParamsContinuation,
         NodeParamsBraceOpen, NodeParamsTerminator, NodeEndWhitespace, NodeEndEndOfLine,
         PropertyEquals, ArgPropEquals
<1>2. CASE NodeParamsHold(t) \/ NodeParamsSuffixedDecimal(t)
  BY <1>2 DEF HeldValueLeaves, NodeParamsHold, NodeParamsSuffixedDecimal, On
<1>3. CASE \/ ArgPropTokenComment(t) \/ ArgPropWhitespace(t) \/ ArgPropValue(t)
           \/ ArgPropBraceOpen(t) \/ ArgPropTerminator(t)
  BY <1>3
  DEF HeldValueLeaves, ArgPropTokenComment, ArgPropWhitespace, ArgPropValue, ArgPropBraceOpen,
      ArgPropTerminator, FlushArgument, On
<1>4. CASE PropertyValueValue(t)
  BY <1>4 DEF HeldValueLeaves, PropertyValueValue, On
<1>5. QED
  BY <1>1, <1>2, <1>3, <1>4

LEMMA AppendedValue ==
  ASSUME NEW S, NEW s \in Seq(S), NEW e \in S
  PROVE  /\ Append(s, e) # s
         /\ Front(Append(s, e)) = s
         /\ Last(Append(s, e)) = e
<1> DEFINE u == Append(s, e)
<1>1. /\ u \in Seq(S) /\ u # << >> /\ Len(u) = Len(s) + 1 /\ Len(s) \in Nat
      /\ \A i \in 1 .. Len(s) : u[i] = s[i]
      /\ u[Len(s) + 1] = e
  BY AppendFacts, LenProperties
<1> HIDE DEF u
<1>2. u # s
  BY <1>1
<1>3. Front(u) \in Seq(S) /\ Len(Front(u)) = Len(s) /\ \A i \in 1 .. Len(s) : Front(u)[i] = s[i]
  <2>1. Len(u) - 1 = Len(s)
    BY <1>1
  <2>2. QED
    BY <1>1, <2>1, FrontType
<1>4. Front(u) = s
  BY <1>3, SeqEqual
<1>5. Last(u) = e
  BY <1>1 DEF Last
<1>6. QED
  BY <1>2, <1>4, <1>5 DEF u

HeldValueIs(was, is) ==
  IF ignoreNextArgProp THEN is = was
  ELSE \/ /\ is.args = Append(was.args, [val |-> ident.id, type |-> typeAnnot.id])
          /\ is.props = was.props
       \/ /\ is.args = was.args
          /\ is.props # was.props /\ Front(is.props) = was.props
          /\ Last(is.props).key = ident.id

AccountsForHeldValue ==
  Queued /\ ident' # ident => HeldValueIs(nodes[currentNode], nodes'[currentNode])

LEMMA HeldValueStep ==
  ASSUME IInv, HeldTokenHasAnOwner, NEW t \in ValidToken, Parse(t)
  PROVE  AccountsForHeldValue
<1>1. SUFFICES ASSUME Queued, ident' # ident
               PROVE  HeldValueIs(nodes[currentNode], nodes'[currentNode])
  BY DEF AccountsForHeldValue
<1>2. Handle(t)
  BY <1>1, RejectedToken DEF held
<1>3. /\ TypeOK /\ StackShape /\ ident \in Token /\ typeAnnot \in Token
  BY DEF IInv, TypeOK
<1>4. state # "NodeParams"
  BY <1>1 DEF HeldTokenHasAnOwner, Annotating
<1>5. state \in {"ArgProp", "PropertyValue"}
  BY <1>1, <1>2, <1>4, HeldValueMoves DEF HeldValueLeaves
<1>6. node # << >>
  BY <1>3, <1>5 DEF StackShape, CurrentStateFitsStacks, NodeStates
<1> DEFINE c == currentNode
<1>7. c \in DOMAIN nodes /\ nodes[c] \in Node
  BY <1>3, <1>6, CurrentNode, TreeType, ElementOfSeq
<1>8. CASE ignoreNextArgProp
  <2>1. nodes' = nodes
    BY <1>1, <1>2, <1>4, <1>8, HeldValueMoves DEF HeldValueLeaves
  <2>2. QED
    BY <1>8, <2>1 DEF HeldValueIs
<1>9. CASE ~ignoreNextArgProp /\ AddArgument(ident, typeAnnot)
  <2>1. nodes' = [nodes EXCEPT ![c].args = Append(@, [val |-> ident.id, type |-> typeAnnot.id])]
    BY <1>9 DEF AddArgument
  <2> HIDE DEF c
  <2>2. /\ nodes'[c].args = Append(nodes[c].args, [val |-> ident.id, type |-> typeAnnot.id])
        /\ nodes'[c].props = nodes[c].props
    BY <1>7, <2>1 DEF Node
  <2>3. QED
    BY <1>9, <2>2 DEF HeldValueIs, c
<1>10. CASE ~ignoreNextArgProp /\ \E val \in ValidToken : AddProperty(ident, val, typeAnnot)
  <2>1. PICK val \in ValidToken : AddProperty(ident, val, typeAnnot)
    BY <1>10
  <2> DEFINE e == [key |-> ident.id, val |-> val.id, type |-> typeAnnot.id]
  <2>2. nodes' = [nodes EXCEPT ![c].props = Append(@, e)]
    BY <2>1 DEF AddProperty
  <2>3. e \in Property /\ e.key = ident.id
    BY <1>3, ValidTokens DEF Property, Token
  <2>4. nodes[c].props \in Seq(Property)
    BY <1>7 DEF Node, Property
  <2> HIDE DEF c, e
  <2>5. nodes'[c].props = Append(nodes[c].props, e) /\ nodes'[c].args = nodes[c].args
    BY <1>7, <2>2 DEF Node
  <2>6. /\ nodes'[c].props # nodes[c].props /\ Front(nodes'[c].props) = nodes[c].props
        /\ Last(nodes'[c].props) = e
    BY <2>3, <2>4, <2>5, AppendedValue
  <2>7. QED
    BY <1>10, <2>3, <2>5, <2>6 DEF HeldValueIs, c
<1>11. QED
  BY <1>1, <1>2, <1>4, <1>8, <1>9, <1>10, HeldValueMoves DEF HeldValueLeaves

(***************************************************************************)
(* No value is lost between the handlers: a held one becomes an argument   *)
(* of the node it was read in, a property key of it, or a /- drops it.     *)
(***************************************************************************)
THEOREM HeldValuesAreKept == AnyTokens => HeldValueAccountedFor
<1>1. IInv /\ HeldTokenHasAnOwner /\ [ParsesOne]_vars => [AccountsForHeldValue]_vars
  BY HeldValueStep DEF ParsesOne
<1>2. QED
  BY <1>1, Invariance, HeldTokensAreOwned, PTL
  DEF AnyTokens, HeldValueAccountedFor, AccountsForHeldValue, HeldValueIs

-----------------------------------------------------------------------------
(* Comments *)

CommentMarks(bytes) == { i \in DOMAIN bytes : bytes[i] = "c" }

LEMMA CommentsAtMarks ==
  ASSUME NEW n, NEW side, NEW bytes
  PROVE  CommentsAt(n, side, bytes) = { <<n, side, i>> : i \in CommentMarks(bytes) }
  BY DEF CommentsAt, CommentMarks

LEMMA MarksOfConcat ==
  ASSUME NEW a \in Seq(Bytes), NEW b \in Seq(Bytes)
  PROVE  CommentMarks(a \o b) = CommentMarks(a) \cup { Len(a) + i : i \in CommentMarks(b) }
<1> DEFINE u == a \o b
           m == Len(a)
           n == Len(b)
<1>1. /\ m \in Nat /\ n \in Nat /\ DOMAIN a = 1 .. m /\ DOMAIN b = 1 .. n
      /\ DOMAIN u = 1 .. m + n
      /\ \A i \in 1 .. m + n : u[i] = IF i <= m THEN a[i] ELSE b[i - m]
  BY ConcatProperties, LenProperties
<1> HIDE DEF u, m, n
<1>2. ASSUME NEW i
      PROVE  i \in CommentMarks(u) <=> i \in CommentMarks(a) \/ \E j \in CommentMarks(b) : i = m + j
  <2>1. CASE i \in 1 .. m
    <3>1. i \in 1 .. m + n /\ i <= m /\ \A j \in 1 .. n : i # m + j
      BY <1>1, <2>1
    <3>2. QED
      BY <1>1, <2>1, <3>1 DEF CommentMarks
  <2>2. CASE i \in m + 1 .. m + n
    <3>1. i \in 1 .. m + n /\ ~(i <= m) /\ i \notin 1 .. m /\ i - m \in 1 .. n /\ i = m + (i - m)
      BY <1>1, <2>2
    <3>2. \A j \in 1 .. n : i = m + j => j = i - m
      BY <1>1, <2>2
    <3>3. u[i] = b[i - m]
      BY <1>1, <3>1
    <3>4. i \in CommentMarks(u) <=> b[i - m] = "c"
      BY <1>1, <3>1, <3>3 DEF CommentMarks
    <3>5. i \notin CommentMarks(a)
      BY <1>1, <3>1 DEF CommentMarks
    <3>6. (\E j \in CommentMarks(b) : i = m + j) <=> b[i - m] = "c"
      BY <1>1, <3>1, <3>2 DEF CommentMarks
    <3>7. QED
      BY <3>4, <3>5, <3>6
  <2>3. CASE i \notin 1 .. m /\ i \notin m + 1 .. m + n
    <3>1. i \notin 1 .. m + n
      BY <1>1, <2>3
    <3>2. \A j \in 1 .. n : m + j \in m + 1 .. m + n
      BY <1>1
    <3>3. QED
      BY <1>1, <2>3, <3>1, <3>2 DEF CommentMarks
  <2>4. QED
    BY <2>1, <2>2, <2>3
<1>3. QED
  BY <1>2 DEF u, m

LEMMA MarksOfNewlines ==
  ASSUME NEW b \in Seq({"nl"})
  PROVE  CommentMarks(b) = {}
  BY LenProperties, ElementOfSeq DEF CommentMarks

LEMMA MarksOfTrimmed ==
  ASSUME NEW b \in Seq(Bytes)
  PROVE  CommentMarks(TrimNewline(b)) = CommentMarks(b)
<1>1. CASE b # << >> /\ Last(b) = "nl"
  <2> DEFINE u == Front(b)
             n == Len(b)
  <2>1. /\ u \in Seq(Bytes) /\ Len(u) = n - 1 /\ n \in Nat \ {0}
        /\ \A i \in 1 .. n - 1 : u[i] = b[i]
    BY <1>1, FrontType
  <2>2. DOMAIN u = 1 .. n - 1 /\ DOMAIN b = 1 .. n /\ b[n] = "nl"
    BY <1>1, <2>1, LenProperties DEF Last
  <2> HIDE DEF u, n
  <2>3. \A i : i \in 1 .. n <=> i \in 1 .. n - 1 \/ i = n
    BY <2>1
  <2>4. CommentMarks(u) = CommentMarks(b)
    BY <2>1, <2>2, <2>3 DEF CommentMarks
  <2>5. QED
    BY <1>1, <2>4 DEF TrimNewline, u
<1>2. QED
  BY <1>1 DEF TrimNewline

\* Blank lines bring no comment, and the pending bytes stay in front.
LEMMA MarksOfWritten ==
  ASSUME comment \in Seq(Bytes), NEW t, NEW b \in Seq(Bytes)
  PROVE  \/ "ParseComments" \notin opts /\ CommentWith(t, b) = comment
         \/ \E k \in Nat : /\ \A i \in DOMAIN comment : i <= k
                          /\ CommentMarks(CommentWith(t, b)) = CommentMarks(comment) \cup { k + i : i \in CommentMarks(b) }
<1>1. CASE "ParseComments" \in opts
  <2> DEFINE blank == BlankLines(Seen(t))
             first == comment \o blank
  <2>1. blank \in Seq(Bytes) /\ CommentMarks(blank) = {}
    BY BlankLinesAreNewlines, BlankLinesType, MarksOfNewlines
  <2>2. /\ first \in Seq(Bytes) /\ Len(first) = Len(comment) + Len(blank)
        /\ CommentMarks(first) = CommentMarks(comment)
    <3> HIDE DEF blank
    <3>1. first \in Seq(Bytes) /\ Len(first) = Len(comment) + Len(blank)
      BY <2>1, ConcatProperties
    <3>2. CommentMarks(first) = CommentMarks(comment) \cup { Len(comment) + i : i \in CommentMarks(blank) }
      BY <2>1, MarksOfConcat
    <3>3. QED
      BY <2>1, <3>1, <3>2
  <2>3. CommentWith(t, b) = first \o b
    BY <1>1 DEF CommentWith
  <2>4. /\ Len(comment) \in Nat /\ Len(blank) \in Nat /\ Len(first) \in Nat
        /\ DOMAIN comment = 1 .. Len(comment)
    BY <2>1, <2>2, LenProperties
  <2> HIDE DEF first, blank
  <2>5. \A i \in DOMAIN comment : i <= Len(first)
    BY <2>2, <2>4
  <2>6. CommentMarks(first \o b) = CommentMarks(comment) \cup { Len(first) + i : i \in CommentMarks(b) }
    BY <2>2, MarksOfConcat
  <2>7. QED
    BY <2>3, <2>4, <2>5, <2>6
<1>2. QED
  BY <1>1 DEF CommentWith

\* The comments of the nodes ns.
PlacedIn(ns) ==
  UNION { CommentsAt(n, "before", ns[n].before) \cup CommentsAt(n, "after", ns[n].after) :
            n \in DOMAIN ns }

PlacedAt(ns, n, x) ==
  \/ \E i \in CommentMarks(ns[n].before) : x = <<n, "before", i>>
  \/ \E i \in CommentMarks(ns[n].after) : x = <<n, "after", i>>

LEMMA PlacedMembers ==
  ASSUME NEW ns, NEW x
  PROVE  x \in PlacedIn(ns) <=> \E n \in DOMAIN ns : PlacedAt(ns, n, x)
  BY CommentsAtMarks DEF PlacedIn, PlacedAt

Places(n, side, k, S) == { <<n, side, k + i>> : i \in S }

LEMMA OneMorePlace ==
  ASSUME NEW S \in SUBSET Nat, NEW n, NEW side, NEW k \in Nat
  PROVE  Places(n, side, 0, S \cup {k}) = Places(n, side, 0, S) \cup {<<n, side, k>>}
<1>1. \A i \in Nat : 0 + i = i
  OBVIOUS
<1>2. QED
  BY <1>1, Zenon DEF Places

\* Comments keep their number when they move together.
LEMMA MovedTogether ==
  ASSUME NEW S \in SUBSET Nat, NEW n, NEW side, NEW m, NEW tide, NEW k \in Nat, NEW l \in Nat,
         IsFiniteSet(Places(n, side, l, S))
  PROVE  /\ IsFiniteSet(Places(m, tide, k, S))
         /\ Cardinality(Places(m, tide, k, S)) = Cardinality(Places(n, side, l, S))
<1> DEFINE A == Places(n, side, l, S)
           B == Places(m, tide, k, S)
           f == [x \in A |-> <<m, tide, k + (x[3] - l)>>]
<1>1. \A i \in S : k + ((l + i) - l) = k + i /\ i \in Nat
  OBVIOUS
<1>2. \A i \in S : f[<<n, side, l + i>>] = <<m, tide, k + i>>
  BY <1>1 DEF Places
<1>3. f \in [A -> B]
  BY <1>1 DEF Places
<1>4. \A i, j \in S : <<m, tide, k + i>> = <<m, tide, k + j>> => i = j
  <2>1. \A i, j \in Nat : k + i = k + j => i = j
    OBVIOUS
  <2>2. \A a, b : <<m, tide, a>> = <<m, tide, b>> => a = b
    OBVIOUS
  <2>3. QED
    BY <1>1, <2>1, <2>2
<1> HIDE DEF f
<1>5. \A x, y \in A : f[x] = f[y] => x = y
  BY <1>2, <1>4 DEF Places
<1>6. \A y \in B : \E x \in A : f[x] = y
  BY <1>2 DEF Places
<1> HIDE DEF A, B
<1>7. f \in Bijection(A, B)
  BY <1>3, <1>5, <1>6 DEF Bijection, Injection, Surjection, IsInjective
<1>8. ExistsBijection(A, B)
  BY <1>7 DEF ExistsBijection
<1>9. QED
  BY <1>8, FS_Bijection DEF A, B

\* So the count is the same when all that is pending is placed.
LEMMA PendingPlaced ==
  ASSUME NEW S \in SUBSET Nat, NEW Q, NEW m, NEW tide, NEW k \in Nat,
         IsFiniteSet(Places(0, "pending", 0, S) \cup Q),
         Places(0, "pending", 0, S) \cap Q = {}, Places(m, tide, k, S) \cap Q = {}
  PROVE  /\ IsFiniteSet(Places(m, tide, k, S) \cup Q)
         /\ Cardinality(Places(m, tide, k, S) \cup Q)
              = Cardinality(Places(0, "pending", 0, S) \cup Q)
<1> DEFINE A == Places(0, "pending", 0, S)
           B == Places(m, tide, k, S)
<1>1. IsFiniteSet(A) /\ IsFiniteSet(Q)
  BY FS_Subset
<1>2. IsFiniteSet(B) /\ Cardinality(B) = Cardinality(A)
  BY <1>1, MovedTogether
<1>3. Cardinality(A \cup Q) = Cardinality(A) + Cardinality(Q) - Cardinality(A \cap Q)
  BY <1>1, FS_Union
<1>4. /\ IsFiniteSet(B \cup Q)
      /\ Cardinality(B \cup Q) = Cardinality(B) + Cardinality(Q) - Cardinality(B \cap Q)
  BY <1>1, <1>2, FS_Union
<1>5. QED
  BY <1>2, <1>3, <1>4

(***************************************************************************)
(* The handlers, by what they do to comments.                              *)
(***************************************************************************)
KeepsComments ==
  /\ comment' = comment /\ DOMAIN nodes' = DOMAIN nodes
  /\ \A n \in DOMAIN nodes :
       nodes'[n].before = nodes[n].before /\ nodes'[n].after = nodes[n].after

ReadsComment(t) ==
  /\ comment' = CommentWith(t, <<"c">>) /\ nodes' = nodes
  /\ AtBlockLevel /\ UNCHANGED <<node, states>>

PlacesBefore(t) ==
  comment' = << >> /\ \E skip \in BOOLEAN : nodes' = Append(nodes, Declared(t, skip))

PlacesAfter(t) ==
  /\ state = "Children" /\ comment' = << >>
  /\ nodes' = IF CommentWith(t, << >>) = << >> THEN nodes
              ELSE [nodes EXCEPT ![lastAddedNode].after =
                      @ \o TrimNewline(CommentWith(t, << >>))]

LEMMA CommentMoves ==
  ASSUME TypeOK, NEW t \in ValidToken, Handle(t)
  PROVE  KeepsComments \/ ReadsComment(t) \/ PlacesBefore(t) \/ PlacesAfter(t)
<1>1. CASE UNCHANGED output
  BY <1>1 DEF KeepsComments, output
<1>2. CASE BlockComment(t)
  BY <1>2 DEF ReadsComment, BlockComment, stack
<1>3. CASE DocumentIdentifier(t) \/ ChildrenIdentifier(t)
  <2>1. ignoreNextNode \in BOOLEAN /\ (ignoreNextNode \/ ignoreChildren > 0) \in BOOLEAN
    BY DEF TypeOK
  <2>2. QED
    BY <1>3, <2>1 DEF PlacesBefore, DocumentIdentifier, ChildrenIdentifier, DeclareNode
<1>4. CASE ChildrenBraceClose(t)
  BY <1>4 DEF PlacesAfter, ChildrenBraceClose, On
<1>5. CASE \/ NodeParamsSuffixedDecimal(t) \/ ArgPropTokenComment(t) \/ ArgPropWhitespace(t)
           \/ ArgPropValue(t) \/ ArgPropBraceOpen(t) \/ ArgPropTerminator(t)
           \/ PropertyValueValue(t)
  <2>1. /\ comment' = comment
        /\ \/ nodes' = nodes
           \/ \E e : nodes' = [nodes EXCEPT ![currentNode].args = e]
           \/ \E e : nodes' = [nodes EXCEPT ![currentNode].props = e]
    BY <1>5
    DEF NodeParamsSuffixedDecimal, ArgPropTokenComment, ArgPropWhitespace, ArgPropValue,
        ArgPropBraceOpen, ArgPropTerminator, PropertyValueValue, FlushArgument, AddArgument,
        AddProperty
  <2>2. \A n \in DOMAIN nodes : nodes[n] \in Node
    BY TreeType, ElementOfSeq
  <2>3. CASE nodes' = nodes
    BY <2>1, <2>3 DEF KeepsComments
  <2>4. ASSUME NEW e, nodes' = [nodes EXCEPT ![currentNode].args = e]
        PROVE  KeepsComments
    <3>1. ASSUME NEW n \in DOMAIN nodes
          PROVE  nodes'[n].before = nodes[n].before /\ nodes'[n].after = nodes[n].after
      <4>1. nodes'[n] = IF n = currentNode THEN [nodes[n] EXCEPT !.args = e] ELSE nodes[n]
        BY <2>4
      <4>2. QED
        BY <2>2, <4>1 DEF Node
    <3>2. QED
      BY <2>1, <2>4, <3>1 DEF KeepsComments
  <2>5. ASSUME NEW e, nodes' = [nodes EXCEPT ![currentNode].props = e]
        PROVE  KeepsComments
    <3>1. ASSUME NEW n \in DOMAIN nodes
          PROVE  nodes'[n].before = nodes[n].before /\ nodes'[n].after = nodes[n].after
      <4>1. nodes'[n] = IF n = currentNode THEN [nodes[n] EXCEPT !.props = e] ELSE nodes[n]
        BY <2>5
      <4>2. QED
        BY <2>2, <4>1 DEF Node
    <3>2. QED
      BY <2>1, <2>5, <3>1 DEF KeepsComments
  <2>6. QED
    BY <2>1, <2>3, <2>4, <2>5
<1>6. QED
  <2>1. \/ UNCHANGED output
        \/ BlockComment(t) \/ DocumentIdentifier(t) \/ ChildrenIdentifier(t)
        \/ ChildrenBraceClose(t) \/ NodeParamsSuffixedDecimal(t)
        \/ ArgPropTokenComment(t) \/ ArgPropWhitespace(t) \/ ArgPropValue(t)
        \/ ArgPropBraceOpen(t) \/ ArgPropTerminator(t) \/ PropertyValueValue(t)
    BY DEF Handle, output, Nop, BlockWhitespace, DocumentTerminator, ChildrenNewline,
           BlockTokenComment, ParensOpen, TypeAnnotName, TypeDoneParensClose, NodeWhitespace,
           NodeTerminator, NodeEquals, NodeParamsBlank, NodeParamsEquals,
           NodeParamsTokenComment, NodeParamsSingleLineComment, NodeParamsContinuation,
           NodeParamsHold, NodeParamsBraceOpen, NodeParamsTerminator, NodeEndWhitespace,
           NodeEndEndOfLine, PropertyEquals, ArgPropEquals
  <2>2. QED
    BY <2>1, <1>1, <1>2, <1>3, <1>4, <1>5

LEMMA TrimmedComment ==
  ASSUME comment \in Seq(Bytes), NEW t
  PROVE  /\ TrimNewline(CommentWith(t, << >>)) \in Seq(Bytes)
         /\ CommentMarks(TrimNewline(CommentWith(t, << >>))) = CommentMarks(comment)
<1>1. << >> \in Seq(Bytes) /\ << >> \in Seq({"nl"})
  BY EmptySeq
<1>2. CommentWith(t, << >>) \in Seq(Bytes)
  BY <1>1, CommentWithType
<1>3. CommentMarks(CommentWith(t, << >>)) = CommentMarks(comment)
  <2>1. CommentMarks(<< >>) = {}
    BY <1>1, MarksOfNewlines
  <2>2. \A k \in Nat : { k + i : i \in CommentMarks(<< >>) } = {}
    BY <2>1
  <2>3. QED
    BY <1>1, <2>2, MarksOfWritten
<1>4. QED
  BY <1>2, <1>3, MarksOfTrimmed, TrimNewlineType

CommentPlaces == PendingComments \cup PlacedComments

LEMMA CommentPlacesAre ==
  ASSUME comment \in Seq(Bytes)
  PROVE  /\ PendingComments = Places(0, "pending", 0, CommentMarks(comment))
         /\ PlacedComments = PlacedIn(nodes)
         /\ CommentMarks(comment) \in SUBSET Nat
<1>1. CommentMarks(comment) \in SUBSET Nat /\ \A i \in CommentMarks(comment) : 0 + i = i
  BY LenProperties DEF CommentMarks
<1>2. PendingComments = Places(0, "pending", 0, CommentMarks(comment))
  BY <1>1, CommentsAtMarks DEF PendingComments, Places
<1>3. QED
  BY <1>1, <1>2 DEF PlacedComments, PlacedIn

\* A node number is never 0, so what is pending is not placed.
LEMMA PendingIsNotPlaced ==
  ASSUME NEW S \in SUBSET Nat, NEW ns \in Seq(Node)
  PROVE  Places(0, "pending", 0, S) \cap PlacedIn(ns) = {}
<1>1. 0 \notin DOMAIN ns
  BY LenProperties
<1>2. QED
  BY <1>1, PlacedMembers DEF Places, PlacedAt

LEMMA NodesHaveComments ==
  ASSUME NEW ns \in Seq(Node), NEW n \in DOMAIN ns
  PROVE  ns[n] \in Node /\ ns[n].before \in Seq(Bytes) /\ ns[n].after \in Seq(Bytes)
<1>1. ns[n] \in Node
  BY ElementOfSeq, LenProperties
<1>2. QED
  BY <1>1 DEF Node

LEMMA SamePlaced ==
  ASSUME NEW ns, NEW us, DOMAIN us = DOMAIN ns,
         \A n \in DOMAIN ns : us[n].before = ns[n].before /\ us[n].after = ns[n].after
  PROVE  PlacedIn(us) = PlacedIn(ns)
<1>1. \A n \in DOMAIN ns :
        CommentsAt(n, "before", us[n].before) \cup CommentsAt(n, "after", us[n].after)
          = CommentsAt(n, "before", ns[n].before) \cup CommentsAt(n, "after", ns[n].after)
  OBVIOUS
<1>2. QED
  BY <1>1 DEF PlacedIn

LEMMA PlacedWithNewNode ==
  ASSUME NEW ns \in Seq(Node), NEW new \in Node, new.after = << >>
  PROVE  /\ PlacedIn(Append(ns, new)) =
              Places(Len(ns) + 1, "before", 0, CommentMarks(new.before)) \cup PlacedIn(ns)
         /\ Places(Len(ns) + 1, "before", 0, CommentMarks(new.before)) \cap PlacedIn(ns) = {}
<1> DEFINE L == Len(ns)
           us == Append(ns, new)
           added == Places(L + 1, "before", 0, CommentMarks(new.before))
<1>1. /\ DOMAIN ns = 1 .. L /\ L \in Nat /\ DOMAIN us = 1 .. L + 1
      /\ \A n \in 1 .. L : us[n] = ns[n]
      /\ us[L + 1] = new
  BY AppendedNode, LenProperties
<1>2. CommentMarks(new.after) = {}
  BY EmptySeq, MarksOfNewlines
<1>3. \A x : x \in added <=> \E i \in CommentMarks(new.before) : x = <<L + 1, "before", i>>
  <2>1. \A i \in CommentMarks(new.before) : 0 + i = i
    BY LenProperties DEF CommentMarks, Node
  <2>2. QED
    BY <2>1 DEF Places
<1> HIDE DEF us, L, added
<1>4. \A n : n \in 1 .. L + 1 <=> n \in 1 .. L \/ n = L + 1
  BY <1>1
<1>5. ASSUME NEW x
      PROVE  x \in PlacedIn(us) <=> x \in added \/ x \in PlacedIn(ns)
  BY <1>1, <1>2, <1>3, <1>4, PlacedMembers DEF PlacedAt
<1>6. added \cap PlacedIn(ns) = {}
  <2>1. L + 1 \notin 1 .. L
    BY <1>1
  <2>2. QED
    BY <1>1, <1>3, <2>1, PlacedMembers DEF PlacedAt
<1>7. QED
  BY <1>5, <1>6 DEF us, added, L

LEMMA PlacedWithMoreAfter ==
  ASSUME NEW ns \in Seq(Node), NEW m \in DOMAIN ns, NEW b \in Seq(Bytes), NEW us,
         us = [ns EXCEPT ![m].after = @ \o b]
  PROVE  /\ Len(ns[m].after) \in Nat
         /\ PlacedIn(us) = Places(m, "after", Len(ns[m].after), CommentMarks(b)) \cup PlacedIn(ns)
         /\ Places(m, "after", Len(ns[m].after), CommentMarks(b)) \cap PlacedIn(ns) = {}
<1> DEFINE k == Len(ns[m].after)
           added == Places(m, "after", k, CommentMarks(b))
<1>1. ns[m].after \in Seq(Bytes) /\ k \in Nat /\ DOMAIN ns[m].after = 1 .. k
  BY NodesHaveComments, LenProperties
<1>2. /\ DOMAIN us = DOMAIN ns
      /\ us[m].after = ns[m].after \o b /\ us[m].before = ns[m].before
      /\ \A n \in DOMAIN ns \ {m} : us[n] = ns[n]
  BY NodesHaveComments DEF Node
<1>3. CommentMarks(us[m].after) = CommentMarks(ns[m].after) \cup { k + i : i \in CommentMarks(b) }
  BY <1>1, <1>2, MarksOfConcat
<1>4. \A x : x \in added <=> \E i \in { k + i : i \in CommentMarks(b) } : x = <<m, "after", i>>
  BY DEF Places
<1>5. { k + i : i \in CommentMarks(b) } \cap CommentMarks(ns[m].after) = {}
  <2>1. \A i \in CommentMarks(b) : i \in Nat /\ i > 0
    BY LenProperties DEF CommentMarks
  <2>2. \A i \in CommentMarks(b) : k + i \notin 1 .. k
    BY <1>1, <2>1
  <2>3. QED
    BY <1>1, <2>2 DEF CommentMarks
<1> DEFINE more == { k + i : i \in CommentMarks(b) }
<1> HIDE DEF k, added, more
<1>6. ASSUME NEW x
      PROVE  x \in PlacedIn(us) <=> x \in added \/ x \in PlacedIn(ns)
  <2>1. /\ CommentMarks(us[m].after) = CommentMarks(ns[m].after) \cup more
        /\ CommentMarks(us[m].before) = CommentMarks(ns[m].before)
    BY <1>2, <1>3 DEF more
  <2>2. x \in added <=> \E i \in more : x = <<m, "after", i>>
    BY <1>4 DEF more
  <2>3. \A n \in DOMAIN ns : n # m => /\ CommentMarks(us[n].after) = CommentMarks(ns[n].after)
                                     /\ CommentMarks(us[n].before) = CommentMarks(ns[n].before)
    BY <1>2
  <2>4. PlacedAt(us, m, x) <=> x \in added \/ PlacedAt(ns, m, x)
    BY <2>1, <2>2 DEF PlacedAt
  <2>5. \A n \in DOMAIN ns : n # m => (PlacedAt(us, n, x) <=> PlacedAt(ns, n, x))
    BY <2>3 DEF PlacedAt
  <2>6. DOMAIN us = DOMAIN ns
    BY <1>2
  <2>7. QED
    BY <2>4, <2>5, <2>6, PlacedMembers
<1>7. added \cap PlacedIn(ns) = {}
  <2>1. more \cap CommentMarks(ns[m].after) = {}
    BY <1>5 DEF more
  <2>2. \A x : x \in added <=> \E i \in more : x = <<m, "after", i>>
    BY <1>4 DEF more
  <2>3. QED
    BY <2>1, <2>2, PlacedMembers DEF PlacedAt
<1>8. QED
  BY <1>1, <1>6, <1>7 DEF added, k

ConservesComments ==
  \/ CommentCount' = CommentCount
  \/ CommentCount' = CommentCount + 1 /\ AtBlockLevel /\ UNCHANGED <<node, states>>

LEMMA CommentStep ==
  ASSUME IInv, IsFiniteSet(CommentPlaces), NEW t \in ValidToken, Parse(t)
  PROVE  IsFiniteSet(CommentPlaces') /\ ConservesComments
<1> DEFINE S == CommentMarks(comment)
           Q == PlacedIn(nodes)
<1>1. /\ TypeOK /\ StackShape /\ comment \in Seq(Bytes) /\ nodes \in Seq(Node)
      /\ comment' \in Seq(Bytes)
  BY StepIInv DEF IInv, TypeOK
<1>2. /\ S \in SUBSET Nat
      /\ CommentPlaces = Places(0, "pending", 0, S) \cup Q
      /\ Places(0, "pending", 0, S) \cap Q = {}
  BY <1>1, CommentPlacesAre, PendingIsNotPlaced DEF CommentPlaces
<1>3. CommentPlaces' = Places(0, "pending", 0, CommentMarks(comment')) \cup PlacedIn(nodes')
  BY <1>1, CommentPlacesAre DEF CommentPlaces, PendingComments, PlacedComments, PlacedIn, Places,
     CommentsAt, CommentMarks
<1>4. ASSUME CommentPlaces' = CommentPlaces
      PROVE  IsFiniteSet(CommentPlaces') /\ ConservesComments
  BY <1>4 DEF ConservesComments, CommentCount, CommentPlaces
<1>5. CASE KeepsComments
  <2>1. PlacedIn(nodes') = PlacedIn(nodes) /\ comment' = comment
    BY <1>5, SamePlaced DEF KeepsComments
  <2>2. QED
    BY <1>2, <1>3, <1>4, <2>1
<1>6. CASE ReadsComment(t)
  <2>1. CASE CommentWith(t, <<"c">>) = comment
    BY <1>2, <1>3, <1>4, <1>6, <2>1 DEF ReadsComment
  <2>2. ASSUME NEW k \in Nat, \A i \in DOMAIN comment : i <= k,
               CommentMarks(comment') = S \cup { k + i : i \in CommentMarks(<<"c">>) }
        PROVE  IsFiniteSet(CommentPlaces') /\ ConservesComments
    <3> DEFINE x == <<0, "pending", k + 1>>
    <3>1. CommentMarks(<<"c">>) = {1}
      BY DEF CommentMarks
    <3>2. CommentMarks(comment') = S \cup {k + 1} /\ k + 1 \notin S
      <4>1. k + 1 \notin DOMAIN comment
        BY <2>2, <1>1, LenProperties
      <4>2. QED
        BY <2>2, <3>1, <4>1 DEF CommentMarks
    <3>3. Places(0, "pending", 0, S \cup {k + 1}) = Places(0, "pending", 0, S) \cup {x}
      BY <1>2, OneMorePlace
    <3>4. x \notin Places(0, "pending", 0, S) /\ x \notin Q
      <4>1. x \in Places(0, "pending", 0, S \cup {k + 1})
        BY <3>3
      <4>2. S \cup {k + 1} \in SUBSET Nat
        BY <1>2
      <4>3. x \notin Q
        BY <1>1, <4>1, <4>2, PendingIsNotPlaced
      <4>4. \A i \in S : i \in Nat /\ 0 + i = i
        BY <1>2
      <4>5. QED
        BY <3>2, <4>3, <4>4 DEF Places
    <3>5. CommentPlaces' = CommentPlaces \cup {x} /\ x \notin CommentPlaces
      BY <1>2, <1>3, <1>6, <3>2, <3>3, <3>4 DEF ReadsComment
    <3>6. /\ IsFiniteSet(CommentPlaces')
          /\ Cardinality(CommentPlaces') = Cardinality(CommentPlaces) + 1
      BY <3>5, FS_AddElement
    <3>7. QED
      BY <1>6, <3>6 DEF ReadsComment, ConservesComments, CommentCount, CommentPlaces
  <2>3. QED
    <3>1. <<"c">> \in Seq(Bytes)
      BY DEF Bytes
    <3>2. QED
      BY <1>1, <1>6, <2>1, <2>2, <3>1, MarksOfWritten DEF ReadsComment
<1>7. ASSUME NEW m, NEW tide, NEW k \in Nat, comment' = << >>,
             PlacedIn(nodes') = Places(m, tide, k, S) \cup Q, Places(m, tide, k, S) \cap Q = {}
      PROVE  IsFiniteSet(CommentPlaces') /\ ConservesComments
  <2>1. CommentMarks(comment') = {}
    BY <1>7, EmptySeq, MarksOfNewlines
  <2>2. Places(0, "pending", 0, {}) = {}
    BY DEF Places
  <2>3. CommentPlaces' = Places(m, tide, k, S) \cup Q
    BY <1>3, <1>7, <2>1, <2>2
  <2>4. /\ IsFiniteSet(CommentPlaces')
        /\ Cardinality(CommentPlaces') = Cardinality(CommentPlaces)
    <3> HIDE DEF S, Q
    <3>1. QED
      BY <1>2, <1>7, <2>3, PendingPlaced
  <2>5. QED
    BY <2>4 DEF ConservesComments, CommentCount, CommentPlaces
<1>8. CASE PlacesBefore(t)
  <2>1. PICK skip \in BOOLEAN : nodes' = Append(nodes, Declared(t, skip))
    BY <1>8 DEF PlacesBefore
  <2>2. /\ Declared(t, skip) \in Node /\ Declared(t, skip).after = << >>
        /\ CommentMarks(Declared(t, skip).before) = S
    BY <1>1, ValidTokens, DeclaredType, TrimmedComment DEF Declared
  <2>3. /\ PlacedIn(nodes') = Places(Len(nodes) + 1, "before", 0, S) \cup Q
        /\ Places(Len(nodes) + 1, "before", 0, S) \cap Q = {}
    BY <1>1, <2>1, <2>2, PlacedWithNewNode
  <2>4. QED
    BY <1>7, <1>8, <2>3 DEF PlacesBefore
<1>9. CASE PlacesAfter(t)
  <2> DEFINE b == TrimNewline(CommentWith(t, << >>))
  <2>1. b \in Seq(Bytes) /\ CommentMarks(b) = S
    BY <1>1, TrimmedComment
  <2>2. CASE CommentWith(t, << >>) = << >>
    <3>1. S = {}
      BY <2>1, <2>2, EmptySeq, MarksOfNewlines DEF TrimNewline
    <3>2. Places(0, "after", 0, S) = {}
      BY <3>1 DEF Places
    <3>3. QED
      BY <1>7, <1>9, <2>2, <3>2 DEF PlacesAfter
  <2>3. CASE CommentWith(t, << >>) # << >>
    <3> DEFINE m == lastAddedNode
               k == Len(nodes[m].after)
    <3>1. m \in DOMAIN nodes
      BY <1>1, <1>9, NoStackIsEmpty, LenProperties DEF PlacesAfter, lastAddedNode
    <3>2. nodes' = [nodes EXCEPT ![m].after = @ \o b]
      BY <1>9, <2>3 DEF PlacesAfter
    <3> HIDE DEF b, m
    <3>3. /\ k \in Nat
          /\ PlacedIn(nodes') = Places(m, "after", k, CommentMarks(b)) \cup Q
          /\ Places(m, "after", k, CommentMarks(b)) \cap Q = {}
      BY <1>1, <2>1, <3>1, <3>2, PlacedWithMoreAfter, ZenonT(60)
    <3>4. QED
      BY <1>7, <1>9, <2>1, <3>3 DEF PlacesAfter
  <2>4. QED
    BY <2>2, <2>3
<1>10. CASE ~(Accept(t) /\ Handle(t))
  BY <1>5, <1>10, RejectedToken DEF KeepsComments, output
<1>11. QED
  BY <1>1, <1>5, <1>6, <1>8, <1>9, <1>10, CommentMoves

(***************************************************************************)
(* A comment read between nodes is on one node or still pending, and only  *)
(* a comment token adds one: no other token loses or repeats any.          *)
(***************************************************************************)
THEOREM CommentsAreKept == AnyTokens => CommentsConserved
<1> DEFINE Finite == IsFiniteSet(CommentPlaces)
<1>1. Init => Finite
  <2>1. Init => CommentPlaces = {}
    BY DEF Init, CommentPlaces, PendingComments, PlacedComments, CommentsAt
  <2>2. QED
    BY <2>1, FS_EmptySet
<1>2. IInv /\ Finite /\ [ParsesOne]_vars => Finite'
  <2>1. ASSUME UNCHANGED vars
        PROVE  CommentPlaces' = CommentPlaces
    BY <2>1 DEF vars, output, CommentPlaces, PendingComments, PlacedComments
  <2>2. QED
    BY <2>1, CommentStep DEF ParsesOne
<1>3. IInv /\ Finite /\ [ParsesOne]_vars => [ConservesComments]_vars
  BY CommentStep DEF ParsesOne
<1> HIDE DEF Finite
<1>4. QED
  BY <1>1, <1>2, <1>3, Invariance, PTL DEF AnyTokens, CommentsConserved, ConservesComments
=============================================================================
