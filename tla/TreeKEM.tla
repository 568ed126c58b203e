------------------------------ MODULE TreeKEM ------------------------------
(***************************************************************************)
(* How the members of a group agree on a fresh commit secret: encap and    *)
(* decap (tree_kem/kem.rs), the private keys of a member                   *)
(* (tree_kem/private.rs), the update path (update_path.rs, path_secret.rs) *)
(* and the code that calls them when a commit is made, processed or joined *)
(* from (group/commit.rs, message_processor.rs, group/mod.rs).             *)
(*                                                                         *)
(* A step is one commit with everything it causes: the committer edits and *)
(* rekeys the tree, every remaining member applies the path and decrypts   *)
(* it, every added client joins from its Welcome.  All members hold the    *)
(* same public tree, as each computes it from the same commit with the     *)
(* same operators; delays and crashes in between are the subject of Group. *)
(*                                                                         *)
(* A key is a tuple <<commit, kind, number>> that stands for both halves   *)
(* of the pair; the path secrets of a commit are <<commit, "path", j>>,    *)
(* each deriving the next one, and the pair derived from a path secret has *)
(* its name.  An HPKE ciphertext is [to, secret]: the key it is encrypted  *)
(* to and the secret inside.                                               *)
(***************************************************************************)
EXTENDS RatchetTree

CONSTANT Clients,       \* natural numbers
         Scenarios      \* [members, clients, commits, committers, edits, external]

VARIABLES scenario,     \* the scenario of this behaviour
          epoch,        \* the number of commits made
          tree,         \* the public tree of the members
          private,      \* the TreeKemPrivate of each client
          knows,        \* the secrets each client ever generated or could decrypt
          outcome       \* what the last commit came to

vars == <<scenario, epoch, tree, private, knows, outcome>>

NoKey == <<>>
NotMember == [index |-> -1, keys |-> <<>>]
Failed == <<"failed">>

Members == {c \in Clients : private[c] # NotMember}

Key(kind, number) == <<epoch + 1, kind, number>>

-----------------------------------------------------------------------------
(* TreeKemPrivate and PathSecretGenerator.                                 *)
Resize(keys, length) == [k \in 1 .. length |-> IF k <= Len(keys) THEN keys[k] ELSE NoKey]

\* provisional_private_tree: drop the keys of blanked nodes; with an own update
\* in the commit, drop all and install the new leaf key.
KeepAll(keys, nodes, path) == keys                            \* faulty variant

KeepLive(keys, nodes, path) ==
    [k \in DOMAIN keys |-> IF k > 1 /\ is_blank(nodes, path[k - 1].path) THEN NoKey ELSE keys[k]]

OnPath(priv, nodes, path, update) ==
    [priv EXCEPT !.keys =
        IF update = NoKey THEN KeepLive(Resize(@, Len(path) + 1), nodes, path)
        ELSE [k \in 1 .. Len(path) + 1 |-> IF k = 1 THEN update ELSE NoKey]]

provisional_private_tree(priv, nodes, update) ==
    OnPath(priv, nodes, Copath(nodes, priv.index), update)

\* PathSecretGenerator: the secret for position k when the one given is that of
\* the first of the used positions.
DeriveAt(secret, used, k) ==
    <<secret[1], secret[2], secret[3] + Cardinality({j \in used : j < k})>>

\* The position on the path of l of its common ancestor with m, from 1.
LcaPos(l, m) == leaf_lca_level(2 * l, 2 * m) - 1

\* update_secrets, by a joiner: from the common ancestor with the committer
\* upwards, derive and compare with the public key; filtered nodes are skipped.
SecretsOnPath(priv, secret, nodes, path, used) ==
    [ok      |-> \A k \in used : /\ ~is_blank(nodes, path[k].path)
                                 /\ nodes[path[k].path].key = DeriveAt(secret, used, k),
     private |-> [priv EXCEPT !.keys =
                     [k \in 1 .. Len(path) + 1 |->
                        IF k - 1 \in used THEN DeriveAt(secret, used, k - 1)
                        ELSE Resize(@, Len(path) + 1)[k]]]]

Unfiltered(skip, from) == {k \in from .. Len(skip) : ~skip[k]}

update_secrets(priv, sender, secret, nodes) ==
    SecretsOnPath(priv, secret, nodes, Copath(nodes, priv.index),
                  Unfiltered(filtered(nodes, priv.index), LcaPos(priv.index, sender)))

-----------------------------------------------------------------------------
(* TreeKem::encap.                                                         *)

\* The path secrets, one for each node of the path, none for filtered ones.
SecretsFor(skip) ==
    [k \in DOMAIN skip |->
        IF skip[k] THEN NoKey ELSE Key("path", Cardinality(Unfiltered(skip, 1) \cap 1 .. k))]

EncryptTo(nodes, secret, to) == [k \in DOMAIN to |-> [to |-> nodes[to[k]].key, secret |-> secret]]

\* The resolution of a node without the leaves that the commit adds.
OldResolution(nodes, i, excluding) ==
    SelectSeq(get_resolution_index(nodes, i), LAMBDA n : n \notin {2 * l : l \in excluding})

encrypt_copath_node_resolution(nodes, secret, copath, excluding) ==
    EncryptTo(nodes, secret, OldResolution(nodes, copath, excluding))

Indexes(seq) == [k \in DOMAIN seq |-> k]

SetKeys(nodes, path, keys) ==
    FoldLeft(LAMBDA acc, k : IF keys[k] = NoKey THEN acc ELSE update_node(acc, path[k].path, keys[k]),
             nodes, Indexes(keys))

\* The path nodes get their keys, then the parent hashes, then the leaf its own.
Rekey(t, leaf, secrets) ==
    update_hashes(
        [update_parent_hashes(
            [t EXCEPT !.nodes = SetKeys(@, Copath(t.nodes, leaf), secrets)], leaf, FALSE).tree
         EXCEPT !.nodes[2 * leaf].key = Key("leaf", leaf)], {leaf})

encrypt_path_secrets(nodes, path, secrets, excluding) ==
    LET Node(k) == [key |-> secrets[k],
                    encrypted |-> encrypt_copath_node_resolution(nodes, secrets[k],
                                                                 path[k].copath, excluding)]
        sent == SelectSeq(Indexes(path), LAMBDA k : secrets[k] # NoKey)
    IN  [j \in DOMAIN sent |-> Node(sent[j])]

EncapResult(leaf, secrets, excluding, new) ==
    [tree    |-> new,
     keys    |-> <<Key("leaf", leaf)>> \o secrets,
     leaf    |-> new.nodes[2 * leaf],
     nodes   |-> encrypt_path_secrets(new.nodes, Copath(new.nodes, leaf), secrets, excluding),
     secrets |-> secrets,
     commit_secret |-> Key("path", 1 + Cardinality({k \in DOMAIN secrets : secrets[k] # NoKey}))]

EncapWith(t, leaf, excluding, secrets) ==
    EncapResult(leaf, secrets, excluding, Rekey(t, leaf, secrets))

encap(t, leaf, excluding) == EncapWith(t, leaf, excluding, SecretsFor(filtered(t.nodes, leaf)))

-----------------------------------------------------------------------------
(* The receiver's side: validate_update_path, apply_update_path, decap.    *)

\* Put the filtered nodes back into the path; none after the last node sent.
NoNode == [key |-> NoKey, encrypted |-> <<>>]

PutBack(kept, sent) ==
    [k \in 1 .. (IF sent = <<>> THEN 0 ELSE kept[Len(sent)]) |->
        IF Contains(kept, k) THEN sent[CHOOSE j \in DOMAIN kept : kept[j] = k] ELSE NoNode]

Unfilter(nodes, sender, sent) ==
    PutBack(SetToSortSeq(Unfiltered(filtered(nodes, sender), 1), <), sent)

ApplyKeysOnly(t, sender, leaf, update) ==                     \* faulty variant
    [ok   |-> TRUE,
     tree |-> [t EXCEPT !.nodes = SetKeys([t.nodes EXCEPT ![2 * sender] = leaf], Copath(t.nodes, sender),
                                          [k \in DOMAIN update |-> update[k].key])]]

apply_update_path(t, sender, leaf, update) ==
    update_parent_hashes(
        [t EXCEPT !.nodes = SetKeys([t.nodes EXCEPT ![2 * sender] = leaf], Copath(t.nodes, sender),
                                    [k \in DOMAIN update |-> update[k].key])],
        sender, TRUE)

\* The position on the own path, the leaf being 1, of the node in the resolution
\* below the common ancestor that this member has the key of.
HighestNonBlank(nodes, own, lca) == Max({k \in 1 .. lca : ~is_blank(nodes, own[k])})

find_resolved_pos(nodes, own, keys, lca) ==
    IF keys[HighestNonBlank(nodes, own, lca)] = NoKey THEN 1 ELSE HighestNonBlank(nodes, own, lca)

\* The positions of its ciphertext: one, or none.
CiphertextPosOfAll(nodes, lca, resolved, excluding) ==        \* faulty variant
    {k \in DOMAIN get_resolution_index(nodes, lca) : get_resolution_index(nodes, lca)[k] = resolved}

PositionIn(seq, x) == {k \in DOMAIN seq : seq[k] = x}

find_ciphertext_pos(nodes, lca, resolved, excluding) ==
    PositionIn(OldResolution(nodes, lca, excluding), resolved)

\* The ciphertext meant for this member decrypts under the key it holds.
Decrypt(cts, key) ==
    IF \E ct \in cts : ct.to = key THEN (CHOOSE ct \in cts : ct.to = key).secret ELSE Failed

DecryptAt(nodes, own, keys, lca, sent, pos, excluding) ==
    Decrypt({sent[k] : k \in find_ciphertext_pos(nodes, own[lca], own[pos], excluding) \cap DOMAIN sent},
            keys[pos])

DecapSecret(nodes, own, keys, lca, sent, excluding) ==
    DecryptAt(nodes, own, keys, lca, sent, find_resolved_pos(nodes, own, keys, lca), excluding)

\* Derive upwards and compare with the public keys of the path.
DeriveKeys(priv, update, lca, secret, used) ==
    IF secret = Failed \/ \E k \in used : update[k].key # DeriveAt(secret, used, k)
    THEN [secret |-> Failed, private |-> priv]
    ELSE [secret  |-> DeriveAt(secret, used, Len(update) + 1),
          private |-> [priv EXCEPT !.keys =
              [k \in 1 .. Len(@) + 1 |->
                  IF k - 1 \in used THEN DeriveAt(secret, used, k - 1)
                  ELSE IF k - 1 \in lca .. Len(update) \/ k > Len(@) THEN NoKey ELSE @[k]]]]

decap(nodes, priv, path, lca, update, excluding) ==
    DeriveKeys(priv, update, lca,
        IF lca \notin DOMAIN update THEN Failed
        ELSE DecapSecret(nodes, <<2 * priv.index>> \o [k \in DOMAIN path |-> path[k].path],
                         priv.keys, lca, update[lca].encrypted, excluding),
        {k \in lca .. Len(update) : update[k] # NoNode})

-----------------------------------------------------------------------------
(* Joining from a Welcome: encrypt_group_secrets picks the path secret of  *)
(* the common ancestor, by leaf indexes; from_welcome_message validates    *)
(* the exported tree and installs the keys.                                *)
WelcomeSecret(secrets, sender, leaf) == secrets[leaf_lca_level(sender, leaf)]

JoinedKeys(new, sender, secrets, nodes) ==
    IF secrets = <<>> THEN [ok |-> TRUE, private |-> new]
    ELSE update_secrets(new, sender, WelcomeSecret(secrets, sender, new.index), nodes)

-----------------------------------------------------------------------------
(* What a client knows.  Whoever holds a path secret can derive the later  *)
(* ones; whoever ever held a key can open what was encrypted to it.        *)
DerivedFrom(secret, last) == {<<secret[1], secret[2], j>> : j \in secret[3] .. last[3]}

Learned(known, enc) ==
    LET sent   == UNION {ToSet(enc.nodes[k].encrypted) : k \in DOMAIN enc.nodes}
        opened == {ct \in sent : ct.to \in known}
    IN  known \cup UNION {DerivedFrom(ct.secret, enc.commit_secret) : ct \in opened}

-----------------------------------------------------------------------------
(* The steps.                                                              *)

\* Group::new, then one commit without a path that adds all other members.
Init ==
    /\ scenario \in Scenarios
    /\ epoch = 0
    /\ LET founded == [nodes |-> 0 :> Leaf(<<0, "leaf", 0>>, FromKeyPackage), hashes |-> <<>>]
           others  == [k \in 1 .. scenario.members - 1 |-> Leaf(<<0, "leaf", k>>, FromKeyPackage)]
       IN  tree = batch_edit(update_hashes(founded, {0}), {}, <<>>, others).tree
    /\ private = [c \in Clients |-> IF c < scenario.members
                                    THEN [index |-> c, keys |-> <<<<0, "leaf", c>>>>]
                                    ELSE NotMember]
    /\ knows = [c \in Clients |-> IF c < scenario.members THEN {<<0, "leaf", c>>} ELSE {}]
    /\ outcome = [sent |-> NoKey, got |-> <<>>, welcomed |-> <<>>, exported |-> tree.nodes]

\* A commit with a path by the leaf sender.  stay maps the remaining members
\* other than the committer to the key of their own update in the commit, joins
\* the joiners to their leaves, own the joiners and updaters to their new keys.
CommitWithPath(c, sender, edit, enc, stay, joins, own) ==
    \E update \in {Unfilter(edit.tree.nodes, sender, enc.nodes)} :
    \E applied \in {apply_update_path(edit.tree, sender, enc.leaf, update)} :
    \E got \in {[m \in DOMAIN stay |->
                   decap(applied.tree.nodes,
                         provisional_private_tree(private[m], edit.tree.nodes, stay[m]),
                         Copath(edit.tree.nodes, private[m].index),
                         LcaPos(private[m].index, sender), update, ToSet(edit.added))]} :
    \E joined \in {[m \in DOMAIN joins |->
                      JoinedKeys([index |-> joins[m], keys |-> <<own[m]>>], sender,
                                 enc.secrets, enc.tree.nodes)]} :
        /\ tree' = update_hashes(applied.tree, {sender})
        /\ private' = [m \in Clients |->
                          IF m = c THEN [index |-> sender, keys |-> enc.keys]
                          ELSE IF m \in DOMAIN stay
                               THEN IF applied.ok THEN got[m].private ELSE private[m]
                          ELSE IF m \in DOMAIN joins THEN joined[m].private ELSE NotMember]
        /\ knows' = [m \in Clients |->
                        LET new == IF m \in DOMAIN own /\ own[m] # NoKey THEN {own[m]} ELSE {}
                        IN  Learned(knows[m] \cup new, enc)
                              \cup (IF m = c THEN {enc.keys[1]} \cup DerivedFrom(Key("path", 1), enc.commit_secret)
                                    ELSE IF m \in DOMAIN joins
                                         THEN DerivedFrom(WelcomeSecret(enc.secrets, sender, joins[m]),
                                                          enc.commit_secret)
                                    ELSE {})]
        /\ outcome' = [sent |-> enc.commit_secret,
                       got  |-> [m \in DOMAIN stay |-> IF applied.ok THEN got[m].secret ELSE Failed],
                       welcomed |-> [m \in DOMAIN joins |->
                           joined[m].ok /\ validate(enc.tree.nodes, tree_hash(enc.tree))],
                       exported |-> enc.tree.nodes]

\* Without a path no key changes; the commit secret is empty.
CommitWithoutPath(sender, edit, joins, own) ==
    \E new \in {update_hashes(edit.tree, {sender})} :
        /\ tree' = new
        /\ private' = [m \in Clients |->
                          IF m \in DOMAIN joins
                          THEN JoinedKeys([index |-> joins[m], keys |-> <<own[m]>>], sender,
                                          <<>>, new.nodes).private
                          ELSE private[m]]
        /\ knows' = [m \in Clients |->
                        knows[m] \cup (IF m \in DOMAIN joins THEN {own[m]} ELSE {})]
        /\ outcome' = [sent |-> NoKey, got |-> <<>>,
                       welcomed |-> [m \in DOMAIN joins |-> validate(new.nodes, tree_hash(new))],
                       exported |-> new.nodes]

\* path_update_required
PathRequired(removes, updates, adds) ==
    removes # {} \/ updates # {} \/ adds = <<>>

\* commit_internal by a member and what every other client does with it.
Commit(c, removes, updates, adds, path_required) ==
    /\ removes \cup updates \subseteq {private[m].index : m \in Members \ {c}}
    /\ removes \cap updates = {}
    /\ ToSet(adds) \cap Members = {}
    /\ \E edit \in {batch_edit(tree, removes,
                               [l \in updates |-> Leaf(Key("update", l), FromUpdate)],
                               [k \in DOMAIN adds |-> Leaf(Key("add", adds[k]), FromKeyPackage)])} :
       \E joins \in {[m \in ToSet(adds) |-> edit.added[CHOOSE k \in DOMAIN adds : adds[k] = m]]} :
       \E stay \in {[m \in {n \in Members \ {c} : private[n].index \notin removes} |->
                       IF private[m].index \in updates THEN Key("update", private[m].index) ELSE NoKey]} :
       \E own \in {[m \in DOMAIN stay \cup DOMAIN joins |->
                      IF m \in DOMAIN joins THEN Key("add", m) ELSE stay[m]]} :
          IF path_required \/ PathRequired(removes, updates, adds)
          THEN \E enc \in {encap(edit.tree, private[c].index, ToSet(edit.added))} :
                  CommitWithPath(c, private[c].index, edit, enc, stay, joins, own)
          ELSE CommitWithoutPath(private[c].index, edit, joins, own)

\* An external commit: a client that is not in the group, or that lost its
\* state and removes its old leaf, validates the tree of the GroupInfo, inserts
\* itself and always sends a path.
ExternalCommit(c) ==
    /\ validate(tree.nodes, tree_hash(tree))
    /\ \E removed \in {batch_edit(tree, IF c \in Members THEN {private[c].index} ELSE {}, <<>>, <<>>).tree} :
       \E add \in {add_leaf(removed.nodes, 0, Leaf(Key("add", c), FromKeyPackage))} :
       \E edit \in {[tree |-> [removed EXCEPT !.nodes = add.nodes], added |-> <<>>]} :
       \E enc \in {encap(edit.tree, add.leaf, {})} :
           CommitWithPath(c, add.leaf, edit, enc, [m \in Members \ {c} |-> NoKey], <<>>,
                          [m \in Members \ {c} |-> NoKey])

MemberCommits ==
    \E c \in Members, e \in scenario.edits, path_required \in BOOLEAN :
        /\ private[c].index \in scenario.committers
        /\ \E adds \in SetToAllKPermutations(scenario.clients \ Members) :
              /\ Len(adds) = e.adds
              /\ Commit(c, e.removes, e.updates, adds, path_required)

ClientJoinsExternally == scenario.external /\ \E c \in scenario.clients : ExternalCommit(c)

Next ==
    /\ epoch < scenario.commits
    /\ epoch' = epoch + 1
    /\ UNCHANGED scenario
    /\ MemberCommits \/ ClientJoinsExternally

Spec == Init /\ [][Next]_vars

-----------------------------------------------------------------------------
(* Properties.                                                             *)

\* All keys of the node vector, and the private keys held, are keys of commits
\* made so far; each member has a leaf of its own, with hashes for the whole tree.
TypeOK ==
    /\ epoch \in 0 .. scenario.commits
    /\ DOMAIN tree.hashes = 0 .. 2 * root(total_leaf_count(tree.nodes))
    /\ \A i \in DOMAIN tree.nodes : tree.nodes[i] # Blank =>
          tree.nodes[i].key[1] \in 0 .. epoch /\ is_leaf(i) = (tree.nodes[i].kind = "leaf")
    /\ {private[m].index : m \in Members} = non_empty_leaves(tree.nodes)
    /\ \A m, n \in Members : m # n => private[m].index # private[n].index
    /\ \A c \in Clients : ToSet(private[c].keys) \ {NoKey} \subseteq knows[c]

\* Everyone who stays in the group decrypts the path of a commit and arrives at
\* the commit secret of the committer (encap against decap); unmerged leaves,
\* blank and filtered nodes and leaves added by the same commit included.
CommitSecretShared ==
    \A m \in DOMAIN outcome.got : outcome.got[m] = outcome.sent

\* A client added by a commit accepts the tree that was exported to it, with its
\* parent hashes and unmerged leaves, and the path secret sent to it matches the
\* public keys above it (TreeValidator::validate, update_secrets).  A client that
\* joins by an external commit accepts the tree of any epoch.
WelcomeAccepted ==
    /\ \A m \in DOMAIN outcome.welcomed : outcome.welcomed[m]
    /\ validate(tree.nodes, tree_hash(tree))

\* The tree that the committer exports to joiners after encap is the one that
\* members have after apply_update_path.
ExportedTreeAgrees == outcome.exported = tree.nodes

\* A member holds the private key of exactly those nodes above its leaf that are
\* not blank and where it is not unmerged, and of no earlier key of any node
\* (provisional_private_tree, encap, decap, update_secrets).
PrivateKeysMatchTree ==
    \A m \in Members :
        LET path == Copath(tree.nodes, private[m].index)
            Expected(i) ==
                LET n == borrow_node(tree.nodes, i)
                IN  IF n = Blank \/ (n.kind = "parent" /\ private[m].index \in ToSet(n.unmerged))
                    THEN NoKey ELSE n.key
        IN  Resize(private[m].keys, Len(path) + 1)
              = <<tree.nodes[2 * private[m].index].key>> \o [k \in DOMAIN path |-> Expected(path[k].path)]

\* The private key of a node is known to nobody but the members below it: not to
\* a removed client, whatever it kept and overheard, and not to a member of
\* another part of the tree.  A removed client cannot compute the commit secret.
KeysConfined ==
    \A c \in Clients :
        /\ \A i \in DOMAIN tree.nodes :
              tree.nodes[i] # Blank /\ tree.nodes[i].key \in knows[c]
                => c \in Members /\ i \in {2 * private[c].index} \cup PathOf(tree.nodes, private[c].index)
        /\ outcome.sent \in knows[c] => c \in Members

\* The cached tree hashes, which commits update along the changed paths only,
\* are the ones a client that imports the tree computes from scratch.
CachedHashesCurrent == tree.hashes = FreshHashes(tree.nodes, {})

\* A comment in validate_parent_hashes: "The check passes iff all non-blank nodes
\* are validated."
AllParentsValidated ==
    validate_parent_hashes(tree).result = "Ok" => validate_parent_hashes(tree).todo = {}
=============================================================================
