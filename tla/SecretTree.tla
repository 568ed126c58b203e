----------------------------- MODULE SecretTree -----------------------------
(***************************************************************************)
(* The secret tree of one epoch (mls-rs/src/group/secret_tree.rs): the map *)
(* from tree nodes to the secrets a member still knows, and the operations *)
(* that consume it to hand out message keys.                               *)
(*                                                                         *)
(* Key derivation is symbolic.  A parent secret determines the secrets of  *)
(* its two children, a leaf secret the first secret of its two ratchets,   *)
(* and the n-th secret of a ratchet its n-th message key; so a message key *)
(* is named by leaf, key type and ratchet step.  A generation is a u32 and *)
(* wraps, the step does not.  Failures of the crypto provider are left     *)
(* out.                                                                    *)
(*                                                                         *)
(* The shape of the tree is a parameter: Up[n] is n with its ancestors,    *)
(* Left and Right are the children of a parent.  TreeAssumption is what    *)
(* math.rs guarantees about them; TreeMath.tla has the arithmetic.         *)
(***************************************************************************)
EXTENDS Integers

CONSTANTS Node,           \* node indexes of the tree
          Leaf,           \* those that are leaves
          Root,
          Left, Right,    \* Left[p], Right[p]: the children of parent p
          Up,             \* Up[n]: n and the nodes of its direct path
          MAX_RATCHET_BACK_HISTORY,
          U32             \* number of values of a generation (2^32)

\* What TreeIndex::left, right, direct_copath and root provide: every
\* ancestor of n other than n has exactly one child that is an ancestor of n,
\* the ancestors of n are a chain, a leaf is nobody else's ancestor, and two
\* distinct leaves part below some common ancestor.
ASSUME TreeAssumption ==
    /\ Leaf \subseteq Node
    /\ Root \in Node
    /\ Left \in [Node \ Leaf -> Node]
    /\ Right \in [Node \ Leaf -> Node]
    /\ Up \in [Node -> SUBSET Node]
    /\ \A n \in Node : n \in Up[n] /\ Root \in Up[n]
    /\ Up[Root] = {Root}
    /\ \A n \in Node : \A q \in Up[n] : Up[q] \subseteq Up[n]
    /\ \A n \in Node : \A p, q \in Up[n] : p \in Up[q] \/ q \in Up[p]
    /\ \A n \in Node : \A l \in Leaf : l \in Up[n] => n = l
    /\ \A p \in Node \ Leaf :
          /\ Left[p] # Right[p]
          /\ Left[p] \notin Up[p] /\ Up[Left[p]] = Up[p] \cup {Left[p]}
          /\ Right[p] \notin Up[p] /\ Up[Right[p]] = Up[p] \cup {Right[p]}
    /\ \A n \in Node : \A q \in Up[n] \ {n} : Left[q] \in Up[n] \/ Right[q] \in Up[n]
    /\ \A l, k \in Leaf : l # k =>
          \E p \in Up[l] \cap Up[k] :
              \/ Left[p] \in Up[l] /\ Right[p] \in Up[k]
              \/ Right[p] \in Up[l] /\ Left[p] \in Up[k]

ASSUME RatchetAssumption ==
    /\ MAX_RATCHET_BACK_HISTORY \in Nat
    /\ U32 \in Nat /\ MAX_RATCHET_BACK_HISTORY < U32

KeyType == {"Handshake", "Application"}

Generation == 0 .. U32 - 1

\* MessageKeyData: the key (and nonce) of a ratchet step, with its generation.
MessageKeyData == [key : Nat, generation : Generation]

\* SecretKeyRatchet: the current secret, its generation, and the keys of
\* generations that were skipped and not used yet, by generation.
SecretKeyRatchet(r) ==
    /\ r = [secret |-> r.secret, generation |-> r.generation, history |-> r.history]
    /\ r.secret \in Nat
    /\ r.generation \in Generation
    /\ DOMAIN r.history \subseteq Generation
    /\ r.history \in [DOMAIN r.history -> MessageKeyData]
    /\ \A g \in DOMAIN r.history : r.history[g].generation = g

\* SecretTreeNode: a secret that was not expanded yet, or the ratchets of a leaf.
Secret == [kind |-> "Secret"]

Ratchets(rs) == [kind |-> "Ratchet", ratchets |-> rs]

SecretTreeNode(v) ==
    \/ v = Secret
    \/ /\ v = Ratchets(v.ratchets)
       /\ v.ratchets = [t \in KeyType |-> v.ratchets[t]]
       /\ \A t \in KeyType : SecretKeyRatchet(v.ratchets[t])

\* TreeSecretsVec: the known secrets, a partial map from nodes; only a leaf
\* can hold ratchets.
KnownSecrets(known) ==
    /\ known = [x \in DOMAIN known |-> known[x]]
    /\ DOMAIN known \subseteq Node
    /\ \A x \in DOMAIN known :
          SecretTreeNode(known[x]) /\ (known[x].kind = "Ratchet" => x \in Leaf)

take_node(known, n) == [x \in DOMAIN known \ {n} |-> known[x]]

set_node(known, n, value) ==
    [x \in DOMAIN known \cup {n} |-> IF x = n THEN value ELSE known[x]]

-----------------------------------------------------------------------------
(* SecretTree::new *)
NewSecretTree == [x \in {Root} |-> Secret]

(* SecretKeyRatchet::new *)
NewRatchet == [secret |-> 0, generation |-> 0, history |-> [g \in {} |-> 0]]

NewRatchets == [t \in KeyType |-> NewRatchet]

\* A secret lies on the direct path at p or above it.
Reached(known, p) ==
    \E q \in Up[p] : q \in DOMAIN known /\ known[q].kind = "Secret"

ConsumePathDropsSiblings(known, l) ==    \* faulty variant: only the path survives
    [x \in (DOMAIN known \cup {l}) \ (Up[l] \ {l}) |->
        IF x = l THEN Secret ELSE known[x]]

ConsumePathKeepsPath(known, l) ==        \* faulty variant: parents stay in the map
    LET reached  == {p \in Up[l] \ {l} : Reached(known, p)}
        children == {Left[p] : p \in reached} \cup {Right[p] : p \in reached}
    IN  [x \in DOMAIN known \cup children |->
            IF x \in children THEN Secret ELSE known[x]]

\* The loop of take_leaf_ratchet with consume_node: from the root down, every
\* node of the direct path is taken out of the map, and one that holds a
\* secret by then is replaced by its two children.
ConsumePath(known, l) ==
    LET path     == Up[l] \ {l}
        reached  == {p \in path : Reached(known, p)}
        children == {Left[p] : p \in reached} \cup {Right[p] : p \in reached}
    IN  [x \in (DOMAIN known \cup children) \ path |->
            IF x \in children THEN Secret ELSE known[x]]

\* The end of take_leaf_ratchet: the remaining map and, when ok, the leaf's
\* ratchets; not ok is InvalidLeafConsumption.
TakeLeaf(known, l) ==
    [ok       |-> l \in DOMAIN known,
     known    |-> take_node(known, l),
     ratchets |-> IF l \in DOMAIN known /\ known[l].kind = "Ratchet"
                  THEN known[l].ratchets ELSE NewRatchets]

TakeLeafRatchet(known, l) ==
    TakeLeaf(IF l \in DOMAIN known THEN known ELSE ConsumePath(known, l), l)

-----------------------------------------------------------------------------
(* SecretKeyRatchet::next_message_key *)
RatchetKey(r) == [key |-> r.secret, generation |-> r.generation]

RatchetStep(r) ==
    [secret |-> r.secret + 1, generation |-> (r.generation + 1) % U32,
     history |-> r.history]

FromHistoryKeepsKey(r, g) ==             \* faulty variant: get for remove
    [ok      |-> g \in DOMAIN r.history,
     data    |-> IF g \in DOMAIN r.history THEN r.history[g] ELSE RatchetKey(r),
     ratchet |-> r]

\* get_message_key, generation below the ratchet's: only the history helps
\* (else KeyMissing).
FromHistory(r, g) ==
    [ok      |-> g \in DOMAIN r.history,
     data    |-> IF g \in DOMAIN r.history THEN r.history[g] ELSE RatchetKey(r),
     ratchet |-> [r EXCEPT !.history = [x \in DOMAIN @ \ {g} |-> @[x]]]]

SkipToWithoutHistory(r, g) ==            \* faulty variant: skipped keys are dropped
    LET last == r.secret + (g - r.generation)
    IN  [ok      |-> TRUE,
         data    |-> [key |-> last, generation |-> g],
         ratchet |-> [secret |-> last + 1, generation |-> (g + 1) % U32,
                      history |-> r.history]]

SkipToLateGeneration(r, g) ==            \* faulty variant: generation read after the step
    LET skipped == r.generation .. g - 1
        last    == r.secret + (g - r.generation)
    IN  [ok      |-> TRUE,
         data    |-> [key |-> last, generation |-> g],
         ratchet |-> [secret |-> last + 1, generation |-> (g + 1) % U32,
                      history |-> [x \in DOMAIN r.history \cup skipped |->
                            [key |-> r.secret + (x - r.generation), generation |-> x + 1]]]]

\* get_message_key, generation at or above the ratchet's and within the
\* window: the skipped keys go to the history.
SkipTo(r, g) ==
    LET skipped == r.generation .. g - 1
        last    == r.secret + (g - r.generation)
    IN  [ok      |-> TRUE,
         data    |-> [key |-> last, generation |-> g],
         ratchet |-> [secret     |-> last + 1,
                      generation |-> (g + 1) % U32,
                      history    |->
                        [x \in DOMAIN r.history \cup skipped |->
                            IF x \in skipped
                            THEN [key |-> r.secret + (x - r.generation), generation |-> x]
                            ELSE r.history[x]]]]

MaxGenerationAllowed(r) == (r.generation + MAX_RATCHET_BACK_HISTORY) % U32

GetMessageKey(r, g) ==
    IF g < r.generation THEN FromHistory(r, g)
    ELSE IF g > MaxGenerationAllowed(r)     \* InvalidFutureGeneration
    THEN [ok |-> FALSE, data |-> RatchetKey(r), ratchet |-> r]
    ELSE SkipTo(r, g)

\* SecretTree::next_message_key and message_key_generation.  Both take the
\* leaf's ratchets out of the map first and put them back only on success.
KeyOutcome(taken, l, t, res) ==
    [ok    |-> taken.ok /\ res.ok,
     data  |-> res.data,
     known |-> IF taken.ok /\ res.ok
               THEN set_node(taken.known, l,
                             Ratchets([taken.ratchets EXCEPT ![t] = res.ratchet]))
               ELSE taken.known]

NextKey(taken, l, t) ==
    KeyOutcome(taken, l, t, [ok |-> TRUE, data |-> RatchetKey(taken.ratchets[t]),
                          ratchet |-> RatchetStep(taken.ratchets[t])])

KeyOfGeneration(taken, l, t, g) ==
    KeyOutcome(taken, l, t, GetMessageKey(taken.ratchets[t], g))

NextMessageKey(known, l, t) == NextKey(TakeLeafRatchet(known, l), l, t)

MessageKeyGeneration(known, l, t, g) == KeyOfGeneration(TakeLeafRatchet(known, l), l, t, g)

-----------------------------------------------------------------------------
(* MlsEncode and MlsDecode for SecretKeyRatchet: the history is written as *)
(* the list of its values and keyed again by their generation when read.   *)
EncodeRatchet(r) ==
    [secret |-> r.secret, generation |-> r.generation,
     items  |-> {r.history[g] : g \in DOMAIN r.history}]

DecodeRatchet(e) ==
    [secret |-> e.secret, generation |-> e.generation,
     history |-> [g \in {i.generation : i \in e.items} |->
                     CHOOSE i \in e.items : i.generation = g]]

EncodeTree(known) ==
    [x \in DOMAIN known |->
        IF known[x].kind = "Secret" THEN Secret
        ELSE Ratchets([t \in KeyType |-> EncodeRatchet(known[x].ratchets[t])])]

DecodeTree(enc) ==
    [x \in DOMAIN enc |->
        IF enc[x].kind = "Secret" THEN Secret
        ELSE Ratchets([t \in KeyType |-> DecodeRatchet(enc[x].ratchets[t])])]
=============================================================================
