------------------------ MODULE MCMessageProtection ------------------------
(* MessageProtection over the array tree of TreeMath with LeafCount leaves. *)
EXTENDS MessageProtection, TreeMath

CONSTANT LeafCount

MCNode == 0 .. 2 * LeafCount - 2

MCLeaf == {n \in MCNode : is_leaf(n)}

MCRoot == root(LeafCount)

MCLeft == [p \in MCNode \ MCLeaf |-> left_unchecked(p)]

MCRight == [p \in MCNode \ MCLeaf |-> right_unchecked(p)]

MCUp == [n \in MCNode |-> {n} \cup DirectPath(n, LeafCount)]
=============================================================================
