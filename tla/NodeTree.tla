------------------------------- MODULE NodeTree -------------------------------
(***************************************************************************)
(* What the parser promises about the document, without tokens or states:  *)
(* nodes are declared one after the other, each below the node that is     *)
(* open around it or nowhere; a node receives values only between its      *)
(* declaration and its end, one at a time and never while a block of its   *)
(* own is open; what is declared inside a hidden block is nowhere.         *)
(***************************************************************************)
EXTENDS Integers, Sequences

CONSTANTS Root, Detached   \* the parents of top-level and of left-out nodes

VARIABLES
  tree,     \* the nodes in the order they were declared
  path,     \* the open nodes, outermost first
  blocks    \* the open child blocks, outermost first: whether each is hidden

vars == <<tree, path, blocks>>

Init == tree = << >> /\ path = << >> /\ blocks = << >>

Current == path[Len(path)]
InBlock == Len(path) = Len(blocks)
InNode  == Len(path) = Len(blocks) + 1
Hidden  == \E i \in DOMAIN blocks : blocks[i]

\* A list has one more element at its end.
Grew(was, is) == Len(is) = Len(was) + 1 /\ is = Append(was, is[Len(is)])

\* The current node has one more value, and nothing else changed.
OneMoreValue ==
  LET was == tree[Current]
      is  == tree'[Current]
  IN  /\ DOMAIN tree' = DOMAIN tree
      /\ \A n \in DOMAIN tree \ {Current} : tree'[n] = tree[n]
      /\ is.parent = was.parent
      /\ \/ Grew(was.args, is.args) /\ is.props = was.props
         \/ Grew(was.props, is.props) /\ is.args = was.args

DeclareNode ==
  /\ InBlock
  /\ \E p \in {Detached, IF path = << >> THEN Root ELSE Current} :
       /\ Hidden => p = Detached
       /\ tree' = Append(tree, [parent |-> p, args |-> << >>, props |-> << >>])
  /\ path' = Append(path, Len(tree) + 1)
  /\ UNCHANGED blocks

AddValue == InNode /\ OneMoreValue /\ UNCHANGED <<path, blocks>>

\* A { or the end of the node may settle a value that was still undecided.
OpenBlock ==
  /\ InNode
  /\ OneMoreValue \/ UNCHANGED tree
  /\ \E hide \in BOOLEAN : blocks' = Append(blocks, Hidden \/ hide)
  /\ UNCHANGED path

CloseBlock ==
  /\ InBlock /\ blocks # << >>
  /\ blocks' = SubSeq(blocks, 1, Len(blocks) - 1)
  /\ UNCHANGED <<tree, path>>

CloseNode ==
  /\ InNode
  /\ OneMoreValue \/ UNCHANGED tree
  /\ path' = SubSeq(path, 1, Len(path) - 1)
  /\ UNCHANGED blocks

Next == DeclareNode \/ AddValue \/ OpenBlock \/ CloseBlock \/ CloseNode

Spec == Init /\ [][Next]_vars
=============================================================================
