------------------------------ MODULE TreeMath ------------------------------
(***************************************************************************)
(* Index arithmetic of the left-balanced binary tree in array form         *)
(* (mls-rs/src/tree_kem/math.rs).  Leaves are the even indexes, parents    *)
(* the odd ones; a tree with n leaves (n a power of two) has the nodes     *)
(* 0 .. 2n-2 and its root at n-1.  The code works on machine words with    *)
(* shifts and masks; here the same operations are written with 2^k.        *)
(***************************************************************************)
EXTENDS Integers, FiniteSets, Sequences

\* impl_tree_stdint: trailing_ones(), the level of a node.
TrailingOnes(x) == CHOOSE k \in 0 .. x + 1 : x % (2 ^ (k + 1)) = 2 ^ k - 1

root(leafCount) == leafCount - 1

is_leaf(x) == x % 2 = 0

is_in_tree(x, rootIndex) == x <= 2 * rootIndex

\* x XOR 2^(k-1): bit k-1 of an index with k trailing ones is set.
left_unchecked(x) == x - 2 ^ (TrailingOnes(x) - 1)

\* x XOR 3 * 2^(k-1): bit k is clear and bit k-1 is set.
right_unchecked(x) == x + 2 ^ (TrailingOnes(x) - 1)

\* Clear bit lvl+1, set bit lvl.
Parent(x) ==
    LET lvl == TrailingOnes(x)
        bit == (x \div 2 ^ (lvl + 1)) % 2
    IN  x - bit * 2 ^ (lvl + 1) + 2 ^ lvl

Sibling(x) ==
    IF x < Parent(x) THEN right_unchecked(Parent(x))
                     ELSE left_unchecked(Parent(x))

\* TreeIndex::direct_copath: the (path, copath) pairs from just above x up to
\* the root; empty when x is the root or lies outside the tree.
direct_copath(x, leafCount) ==
    LET top == root(leafCount)
        Walk[d \in 0 .. leafCount, y \in 0 .. 2 * top] ==
            IF y = top \/ d = 0 THEN <<>>
            ELSE <<[path |-> Parent(y), copath |-> Sibling(y)]>>
                     \o Walk[d - 1, Parent(y)]
    IN  IF leafCount = 0 \/ ~is_in_tree(x, top) THEN <<>> ELSE Walk[leafCount, x]

DirectPath(x, leafCount) ==
    LET cp == direct_copath(x, leafCount)
    IN  {cp[i].path : i \in 1 .. Len(cp)}

\* leaf_lca_level: one more than the index of the highest bit in which the two
\* leaf node indexes differ.
leaf_lca_level(x, y) ==
    IF x = y THEN 0
    ELSE CHOOSE k \in 1 .. x + y + 1 :
             /\ x \div 2 ^ k = y \div 2 ^ k
             /\ x \div 2 ^ (k - 1) # y \div 2 ^ (k - 1)

\* subtree: the half-open range of leaf positions below a node.
subtree(x) ==
    LET breadth == 2 ^ TrailingOnes(x)
    IN  [lo |-> (x + 1 - breadth) \div 2, hi |-> (x + breadth) \div 2 + 1]
=============================================================================
