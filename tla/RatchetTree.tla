---------------------------- MODULE RatchetTree ----------------------------
(***************************************************************************)
(* The public ratchet tree: NodeVec (tree_kem/node.rs), its edits          *)
(* (TreeKemPublic in tree_kem/mod.rs), the cached tree hashes              *)
(* (tree_hash.rs), parent hashes (parent_hash.rs) and the validation of a  *)
(* tree by a member that joins (tree_validator.rs).                        *)
(*                                                                         *)
(* A tree is [nodes, hashes].  nodes is a function on 0 .. len-1, the      *)
(* vector of optional nodes; hashes is the vector tree_hashes.current.     *)
(* Leaves are named by leaf index, nodes by node index, as in the code: a  *)
(* leaf l is the node 2*l.  A node carries what the tree operations look   *)
(* at: its HPKE key and, for a parent, its parent hash and unmerged        *)
(* leaves; for a leaf, its source.  A hash is the tuple of what is hashed, *)
(* as the hash function has no collisions.                                 *)
(***************************************************************************)
EXTENDS TreeMath, SequencesExt, FiniteSetsExt

Blank == [kind |-> "blank"]
Leaf(key, source) == [kind |-> "leaf", key |-> key, source |-> source]
ParentNode(key, hash, unmerged) ==
    [kind |-> "parent", key |-> key, parent_hash |-> hash, unmerged |-> unmerged]

\* LeafNodeSource: KeyPackage, Update or Commit with a parent hash.
FromKeyPackage == <<"KeyPackage">>
FromUpdate == <<"Update">>
FromCommit(hash) == <<"Commit", hash>>

-----------------------------------------------------------------------------
(* NodeVec.                                                                *)
total_leaf_count(nodes) ==
    LET needed == Cardinality(DOMAIN nodes) \div 2 + 1
    IN  Min({2 ^ k : k \in {j \in 0 .. needed : 2 ^ j >= needed}})

borrow_node(nodes, i) == IF i \in DOMAIN nodes THEN nodes[i] ELSE Blank

is_blank(nodes, i) == borrow_node(nodes, i) = Blank

non_empty_leaves(nodes) == {i \div 2 : i \in {j \in DOMAIN nodes : is_leaf(j) /\ nodes[j] # Blank}}

non_empty_parents(nodes) == {i \in DOMAIN nodes : ~is_leaf(i) /\ nodes[i] # Blank}

Copath(nodes, leaf) == direct_copath(2 * leaf, total_leaf_count(nodes))

PathOf(nodes, leaf) == DirectPath(2 * leaf, total_leaf_count(nodes))

\* The resolution of a node: itself and its unmerged leaves, or, when it is
\* blank, the resolutions of its children from left to right.
get_resolution_index(nodes, index) ==
    LET Resolution[i \in 0 .. 2 * root(total_leaf_count(nodes))] ==
            LET n == borrow_node(nodes, i)
            IN  CASE n.kind = "leaf"   -> <<i>>
                  [] n.kind = "parent" -> <<i>> \o [k \in DOMAIN n.unmerged |-> 2 * n.unmerged[k]]
                  [] OTHER -> IF is_leaf(i) THEN <<>>
                              ELSE Resolution[left_unchecked(i)] \o Resolution[right_unchecked(i)]
    IN  Resolution[index]

is_resolution_empty(nodes, index) == get_resolution_index(nodes, index) = <<>>

FilteredOn(nodes, path) == [k \in DOMAIN path |-> is_resolution_empty(nodes, path[k].copath)]

filtered(nodes, leaf) == FilteredOn(nodes, Copath(nodes, leaf))

KeepLeaf(nodes, leaf) == nodes                                \* faulty variant

blank_leaf_node(nodes, leaf) == [nodes EXCEPT ![2 * leaf] = Blank]

NoBlankDirectPath(nodes, leaf) == nodes                       \* faulty variant

blank_direct_path(nodes, leaf) ==
    LET path == PathOf(nodes, leaf)
    IN  [i \in DOMAIN nodes |-> IF i \in path THEN Blank ELSE nodes[i]]

trim(nodes) ==
    [i \in 0 .. Max({-1} \cup {j \in DOMAIN nodes : nodes[j] # Blank}) |-> nodes[i]]

\* The leftmost blank leaf at or after start, or else the leaf after the last.
next_empty_leaf(nodes, start) ==
    Min({(Cardinality(DOMAIN nodes) + 1) \div 2}
          \cup {l \in start .. Cardinality(DOMAIN nodes) : 2 * l \in DOMAIN nodes /\ nodes[2 * l] = Blank})

insert_leaf(nodes, leaf, node) ==
    [i \in DOMAIN nodes \cup 0 .. 2 * leaf |->
        IF i = 2 * leaf THEN node ELSE borrow_node(nodes, i)]

-----------------------------------------------------------------------------
(* Tree hashes.                                                            *)
NoHash == <<>>

\* tree_hash: recompute the hashes of these leaves and of everything above
\* them, leaving the filtered leaves out; keep the others.  The queue of the
\* code is served level by level, so children come before their parents.
Touched(nodes, leaves) ==
    UNION {{2 * l} \cup PathOf(nodes, l) : l \in {k \in leaves : k < total_leaf_count(nodes)}}

hash_for_leaf(leaf, node, without) == <<"leaf", leaf, IF leaf \in without THEN Blank ELSE node>>

hash_for_parent(node, without, left, right) ==
    <<"parent",
      IF node = Blank THEN node
      ELSE [node EXCEPT !.unmerged = SelectSeq(@, LAMBDA l : l \notin without)],
      left, right>>

HashTouched(hashes, nodes, touched, without, last) ==
    LET HashOf[i \in 0 .. last] ==
            IF i \notin touched THEN IF i \in DOMAIN hashes THEN hashes[i] ELSE NoHash
            ELSE IF is_leaf(i) THEN hash_for_leaf(i \div 2, borrow_node(nodes, i), without)
            ELSE hash_for_parent(borrow_node(nodes, i), without,
                                 HashOf[left_unchecked(i)], HashOf[right_unchecked(i)])
    IN  [i \in 0 .. last |-> HashOf[i]]

TreeHash(hashes, nodes, leaves, without) ==
    HashTouched(hashes, nodes, Touched(nodes, leaves), without, 2 * root(total_leaf_count(nodes)))

\* initialize_hashes, and the hashes that compute_original_hashes needs.
FreshHashes(nodes, without) ==
    TreeHash(<<>>, nodes, 0 .. root(total_leaf_count(nodes)), without)

\* The leaves at the end of the tree that have no hash yet.
TrailingBlanks(t) ==
    {l \in 0 .. root(total_leaf_count(t.nodes)) : 2 * l > Max({-1} \cup DOMAIN t.hashes)}

UpdateGivenHashes(t, leaves) ==                               \* faulty variant
    [t EXCEPT !.hashes = TreeHash(@, t.nodes, leaves, {})]

update_hashes(t, leaves) ==
    [t EXCEPT !.hashes = TreeHash(@, t.nodes, leaves \cup TrailingBlanks(t), {})]

tree_hash(t) == t.hashes[root(total_leaf_count(t.nodes))]

-----------------------------------------------------------------------------
(* TreeKemPublic: edits.                                                   *)

\* update_node: a new key; nobody below the node is unmerged any more.
update_node(nodes, i, key) ==
    [nodes EXCEPT ![i] = ParentNode(key, IF @ = Blank THEN NoHash ELSE @.parent_hash, <<>>)]

NoUpdateUnmerged(nodes, leaf) == nodes                        \* faulty variant

update_unmerged(nodes, leaf) ==
    LET path == PathOf(nodes, leaf)
    IN  [i \in DOMAIN nodes |->
            IF i \in path /\ nodes[i] # Blank
            THEN [nodes[i] EXCEPT !.unmerged = Append(@, leaf)] ELSE nodes[i]]

AddAt(nodes, leaf, node) ==
    [nodes |-> update_unmerged(insert_leaf(nodes, leaf, node), leaf), leaf |-> leaf]

add_leaf(nodes, start, node) == AddAt(nodes, next_empty_leaf(nodes, start), node)

Added(acc, add) ==
    [nodes |-> add.nodes, start |-> add.leaf, added |-> Append(acc.added, add.leaf)]

\* batch_edit on proposals that passed the filter (ProposalFilter has the rest):
\* removes is a set of leaves, updates a function from leaves to their new
\* nodes, adds a sequence of nodes.  Paths are blanked before leaves are added.
RemoveLeaves(nodes, removes) ==
    FoldLeft(LAMBDA n, l : blank_direct_path(blank_leaf_node(n, l), l), nodes, SetToSeq(removes))

UpdateLeaves(nodes, updates) ==
    FoldLeft(LAMBDA n, l : blank_direct_path(insert_leaf(n, l, updates[l]), l),
             nodes, SetToSeq(DOMAIN updates))

AddLeaves(nodes, adds) ==
    FoldLeft(LAMBDA acc, node : Added(acc, add_leaf(acc.nodes, acc.start, node)),
             [nodes |-> nodes, start |-> 0, added |-> <<>>], adds)

Edited(t, leaves, result) ==
    [tree  |-> update_hashes([t EXCEPT !.nodes = trim(result.nodes)], leaves \cup ToSet(result.added)),
     added |-> result.added]

batch_edit(t, removes, updates, adds) ==
    Edited(t, removes \cup DOMAIN updates,
           AddLeaves(UpdateLeaves(RemoveLeaves(t.nodes, removes), updates), adds))

-----------------------------------------------------------------------------
(* Parent hashes.                                                          *)
ParentHash(key, hash, sibling) == <<"parent hash", key, hash, sibling>>

\* parent_hash_for_leaf: from the root down, the hash that each node on the
\* filtered path passes on; HashesAbove[k] is what the node k - 1 of the path
\* (the leaf, for k = 1) holds.
HashesAbove(t, path, skip) ==
    LET Above[k \in 1 .. Len(path) + 1] ==
            IF k > Len(path) THEN NoHash
            ELSE IF skip[k] THEN Above[k + 1]
            ELSE ParentHash(t.nodes[path[k].path].key, Above[k + 1], t.hashes[path[k].copath])
    IN  [k \in 1 .. Len(path) + 1 |-> Above[k]]

SetParentHashes(nodes, path, kept, above) ==
    [i \in DOMAIN nodes |->
        IF \E k \in kept : path[k].path = i
        THEN [nodes[i] EXCEPT !.parent_hash = above[1 + CHOOSE k \in kept : path[k].path = i]]
        ELSE nodes[i]]

\* The committer (verify is FALSE) writes the hash into its leaf, a receiver
\* compares it with the one the leaf carries.
SignLeaf(t, leaf, nodes, hash, verify) ==
    [ok   |-> verify => nodes[2 * leaf].source = FromCommit(hash),
     tree |-> update_hashes(
                 [t EXCEPT !.nodes = [nodes EXCEPT ![2 * leaf].source =
                                         IF verify THEN @ ELSE FromCommit(hash)]], {leaf})]

HashPath(t, leaf, path, skip, above, verify) ==
    SignLeaf(t, leaf, SetParentHashes(t.nodes, path, {k \in DOMAIN path : ~skip[k]}, above),
             above[1], verify)

HashAlong(t, leaf, path, skip, verify) ==
    HashPath(t, leaf, path, skip, HashesAbove(t, path, skip), verify)

update_parent_hashes(t, leaf, verify) ==
    HashAlong(update_hashes(t, {leaf}), leaf, Copath(t.nodes, leaf), filtered(t.nodes, leaf), verify)

-----------------------------------------------------------------------------
(* Validation of a tree by a joiner.                                       *)

\* The slice of a node's unmerged leaves that lies below another node, found
\* with two scans that rely on the list being sorted.
unmerged_in_subtree(nodes, i, below) ==
    LET list  == nodes[i].unmerged
        range == subtree(below)
        Scan(from, bound) ==
            Min({k \in from .. Len(list) + 1 : k > Len(list) \/ list[k] >= bound})
        start == Scan(1, range.lo)
    IN  SubSeq(list, start, Scan(start, range.hi) - 1)

different_unmerged(nodes, ancestor, descendant) ==
    /\ ~is_blank(nodes, ancestor) /\ ~is_blank(nodes, descendant)
    /\ unmerged_in_subtree(nodes, ancestor, descendant) # nodes[descendant].unmerged

\* compute_original_hashes: the hash of each node as it was when the nearest
\* ancestor with unmerged leaves of its own got its key.
FilteredFor(nodes, top) ==
    LET Nearest[i \in 0 .. 2 * top] ==
            IF i = top THEN top
            ELSE IF different_unmerged(nodes, Nearest[Parent(i)], Parent(i))
                 THEN Parent(i) ELSE Nearest[Parent(i)]
    IN  [i \in 0 .. 2 * top |-> Nearest[i]]

UnmergedAt(nodes, i) == IF is_leaf(i) \/ is_blank(nodes, i) THEN {} ELSE ToSet(nodes[i].unmerged)

OriginalHash(t, i, a, top) ==
    IF a = top /\ UnmergedAt(t.nodes, a) = {} THEN t.hashes[i]
    ELSE FreshHashes(t.nodes, UnmergedAt(t.nodes, a))[i]

OriginalHashes(t, top, nearest) ==
    [i \in 0 .. 2 * top |-> OriginalHash(t, i, nearest[i], top)]

OriginalFrom(t, top) == OriginalHashes(t, top, FilteredFor(t.nodes, top))

compute_original_hashes(t) == OriginalFrom(t, root(total_leaf_count(t.nodes)))

get_parent_hash(node) ==
    CASE node.kind = "parent" -> node.parent_hash
      [] node.kind = "leaf" /\ node.source[1] = "Commit" -> node.source[2]
      [] OTHER -> <<"none">>

\* What validate_parent_hashes does at a node n of a chain, with the parents
\* that are still to be validated: go on at the next non-blank ancestor p if n
\* holds p's parent hash, stop this chain if it does not, fail if p was
\* validated before or has other leaves below it than its unmerged ones.  Where
\* all ancestors are blank the function returns Ok, for all chains.
Covers(t, p, c, n) ==
    /\ n \in ToSet(get_resolution_index(t.nodes, c))
    /\ ToSet(get_resolution_index(t.nodes, c)) \ {n}
         = {2 * l : l \in ToSet(unmerged_in_subtree(t.nodes, p, c))}

HoldsHashOf(t, original, n, up) ==
    get_parent_hash(t.nodes[n])
      = ParentHash(t.nodes[up.path].key, t.nodes[up.path].parent_hash, original[up.copath])

AtAncestor(t, original, acc, up) ==
    IF ~HoldsHashOf(t, original, acc.n, up) THEN [acc EXCEPT !.result = "chain done"]
    ELSE IF Covers(t, up.path, Sibling(up.copath), acc.n) /\ up.path \in acc.todo
         THEN [acc EXCEPT !.n = up.path, !.todo = @ \ {up.path}]
         ELSE [acc EXCEPT !.result = "ParentHashMismatch"]

ChainStep(t, original, acc, up) ==
    IF up = <<>> THEN [acc EXCEPT !.result = "chain done"]
    ELSE IF \A k \in DOMAIN up : is_blank(t.nodes, up[k].path) THEN [acc EXCEPT !.result = "Ok"]
    ELSE AtAncestor(t, original, acc, SelectSeq(up, LAMBDA u : ~is_blank(t.nodes, u.path))[1])

\* One chain takes at most as many steps as the tree has levels.
FollowChain(t, original, leaf, todo) ==
    FoldLeft(LAMBDA acc, level :
                IF acc.result # "follow" THEN acc
                ELSE ChainStep(t, original, acc, direct_copath(acc.n, total_leaf_count(t.nodes))),
             [n |-> 2 * leaf, todo |-> todo, result |-> "follow"],
             [k \in 1 .. total_leaf_count(t.nodes) |-> k])

FollowChains(t, original) ==
    FoldLeft(LAMBDA acc, leaf :
                IF acc.result # "chain done" THEN acc ELSE FollowChain(t, original, leaf, acc.todo),
             [n |-> 0, todo |-> non_empty_parents(t.nodes), result |-> "chain done"],
             SetToSortSeq(non_empty_leaves(t.nodes), <))

AfterChains(end) ==
    IF end.result # "chain done" THEN end
    ELSE [end EXCEPT !.result = IF end.todo = {} THEN "Ok" ELSE "ParentHashMismatch"]

\* The result, and in todo the parents left unvalidated when it was returned.
validate_parent_hashes(t) == AfterChains(FollowChains(t, compute_original_hashes(t)))

\* Each unmerged leaf is a leaf below the node, and no non-blank node between
\* the two lacks it.
validate_unmerged(nodes) ==
    \A i \in non_empty_parents(nodes) : \A l \in ToSet(nodes[i].unmerged) :
        /\ l \in non_empty_leaves(nodes) /\ i \in PathOf(nodes, l)
        /\ \A j \in PathOf(nodes, l) :
               TrailingOnes(j) < TrailingOnes(i) /\ ~is_blank(nodes, j)
                 => l \in ToSet(nodes[j].unmerged)

\* TreeValidator::validate on imported nodes, except for the leaves.
ValidTree(t, expectedHash) ==
    /\ tree_hash(t) = expectedHash
    /\ validate_parent_hashes(t).result = "Ok"
    /\ ~is_blank(t.nodes, Cardinality(DOMAIN t.nodes) - 1)
    /\ validate_unmerged(t.nodes)

validate(nodes, expectedHash) ==
    ValidTree([nodes |-> nodes, hashes |-> FreshHashes(nodes, {})], expectedHash)
=============================================================================
