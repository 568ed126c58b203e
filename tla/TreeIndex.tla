----------------------------- MODULE TreeIndex -----------------------------
(***************************************************************************)
(* The leaves of a ratchet tree (tree_kem/leaf_node.rs, node.rs) and the   *)
(* rule that a new leaf has to fit to the others, which the library        *)
(* implements twice (tree_kem/tree_index.rs): builds with the feature      *)
(* tree_index keep an index beside the tree, the others look at every leaf.*)
(*                                                                         *)
(* A tree is the sequence of its leaves, blank ones included; the leaf     *)
(* with index i is the element i + 1.  A leaf has an identity, a key (the  *)
(* HPKE and the signature key), a credential of some type, and             *)
(* capabilities: the credential types it supports, and whether it supports *)
(* the optional extension and the custom proposal.                         *)
(***************************************************************************)
EXTENDS Integers, Sequences, SequencesExt, FiniteSets

CONSTANT CredentialType

Blank == [id |-> "blank", key |-> "blank", caps |-> FALSE, cred |-> "blank", creds |-> {}]

Occupied(tree, i) == i \in DOMAIN tree /\ tree[i] # Blank

OccupiedPositions(tree) == {i \in DOMAIN tree : tree[i] # Blank}

Leaves(tree) == {tree[i] : i \in DOMAIN tree} \ {Blank}

\* NodeVec::insert_leaf, where i is at most one position behind the last.
InsertLeaf(tree, i, leaf) ==
    [j \in 1 .. (IF i > Len(tree) THEN i ELSE Len(tree)) |-> IF j = i THEN leaf ELSE tree[j]]

BlankLeaves(tree, positions) ==
    [i \in DOMAIN tree |-> IF i \in positions THEN Blank ELSE tree[i]]

\* next_empty_leaf; before the leaf that was added last there is no empty one,
\* so the search may as well start at the first.
NextEmptyLeaf(tree) ==
    CHOOSE i \in 1 .. Len(tree) + 1 :
        /\ ~Occupied(tree, i)
        /\ \A j \in 1 .. i - 1 : Occupied(tree, j)

TrimNothing(tree) ==                     \* faulty variant
    tree

\* NodeVec::trim
Trim(tree) ==
    SubSeq(tree, 1, Len(tree) - CHOOSE n \in 0 .. Len(tree) :
        /\ \A i \in Len(tree) - n + 1 .. Len(tree) : tree[i] = Blank
        /\ n < Len(tree) => tree[Len(tree) - n] # Blank)

-----------------------------------------------------------------------------
(* Without the index: index_insert looks at every other leaf.              *)

Compatible(new, leaf) ==
    /\ new.key # leaf.key /\ new.id # leaf.id
    /\ leaf.cred \in new.creds /\ new.cred \in leaf.creds

FitsBeside(tree, i, new) ==
    \A j \in OccupiedPositions(tree) \ {i} : Compatible(new, tree[j])

-----------------------------------------------------------------------------
(* TreeIndex: keys and identities in use, how many leaves use and support  *)
(* each credential type, and how many support the custom proposal.         *)

EmptyIndex ==
    [keys |-> {}, ids |-> {}, used |-> [c \in CredentialType |-> 0],
     supported |-> [c \in CredentialType |-> 0], custom |-> 0]

\* TreeIndex::insert, its checks.
IndexAccepts(index, new) ==
    /\ new.key \notin index.keys /\ new.id \notin index.ids
    /\ \A c \in CredentialType : index.used[c] > 0 => c \in new.creds
    /\ index.supported[new.cred] = Cardinality(index.keys)

\* What one leaf counts for.
One(holds) == IF holds THEN 1 ELSE 0

IndexInsert(index, new) ==
    [keys |-> index.keys \cup {new.key}, ids |-> index.ids \cup {new.id},
     used |-> [index.used EXCEPT ![new.cred] = @ + 1],
     supported |-> [c \in CredentialType |-> index.supported[c] + One(c \in new.creds)],
     custom |-> index.custom + One(new.caps)]

IndexRemoveKeepsSupport(index, old) ==   \* faulty variant: supported is not counted down
    IF old.id \notin index.ids THEN [index EXCEPT !.keys = @ \ {old.key}]
    ELSE [index EXCEPT !.keys = @ \ {old.key}, !.ids = @ \ {old.id},
                       !.used[old.cred] = @ - 1, !.custom = @ - One(old.caps)]

\* TreeIndex::remove; the counters go down only if the identity was there.
IndexRemove(index, old) ==
    IF old.id \notin index.ids THEN [index EXCEPT !.keys = @ \ {old.key}]
    ELSE [keys |-> index.keys \ {old.key}, ids |-> index.ids \ {old.id},
          used |-> [index.used EXCEPT ![old.cred] = @ - 1],
          supported |-> [c \in CredentialType |-> index.supported[c] - One(c \in old.creds)],
          custom |-> index.custom - One(old.caps)]

IndexRemoveAll(index, tree, positions) ==
    FoldLeft(LAMBDA x, i : IndexRemove(x, tree[i]), index, SetToSeq(positions))

\* initialize_index_if_necessary
IndexOf(tree) ==
    FoldLeft(LAMBDA x, leaf : IF leaf = Blank THEN x ELSE IndexInsert(x, leaf), EmptyIndex, tree)

-----------------------------------------------------------------------------
(* A tree under edit is a record with the tree and its index, and whether  *)
(* the build has one; without, the index is carried along and not read.    *)

Accepts(e, i, new) ==
    IF e.indexed THEN IndexAccepts(e.index, new) ELSE FitsBeside(e.tree, i, new)

PutLeaf(e, i, new) ==
    [e EXCEPT !.tree = InsertLeaf(@, i, new), !.index = IndexInsert(@, new)]

TakeLeaves(e, positions) ==
    [e EXCEPT !.tree = BlankLeaves(@, positions),
              !.index = IndexRemoveAll(@, e.tree, positions)]

\* TreeKemPublic::can_support_proposal, for the custom proposal.
CanSupportCustom(e) ==
    IF e.indexed THEN e.index.custom = Cardinality(OccupiedPositions(e.tree))
    ELSE \A leaf \in Leaves(e.tree) : leaf.caps
=============================================================================
