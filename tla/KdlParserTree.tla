----------------------------- MODULE KdlParserTree -----------------------------
(***************************************************************************)
(* The parser implements NodeTree: the node stack is the path of open      *)
(* nodes, and the braces it has not seen closed are the open blocks.       *)
(***************************************************************************)
EXTENDS KdlParser

TreeOf(n) == [parent |-> n.parent, args |-> n.args, props |-> n.props]

Tree == INSTANCE NodeTree WITH
          tree <- [n \in DOMAIN nodes |-> TreeOf(nodes[n])],
          path <- node,
          blocks <- suppressed

(***************************************************************************)
(* Every token the parser handles is one step of the tree builder or none: *)
(* the document it returns follows the nesting of the text, and what a /-  *)
(* covers is not in it.                                                    *)
(***************************************************************************)
ImplementsNodeTree == Tree!Spec
=============================================================================
