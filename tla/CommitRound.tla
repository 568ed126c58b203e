----------------------------- MODULE CommitRound -----------------------------
(***************************************************************************)
(* Rounds of propose and commit over one group, as far as the proposals    *)
(* are concerned: members and external senders send proposals, which every *)
(* member caches; one member, or a new member from outside, builds a       *)
(* commit from its cache and from proposals of its own; the others resolve *)
(* and apply it.  All members start a round with the same tree and the     *)
(* same cache.  They may run different builds of the library: with or      *)
(* without by_ref_proposal, and with or without tree_index.                *)
(***************************************************************************)
EXTENDS FilteringLite

CONSTANTS Scenarios,     \* records: the tree the group starts with, the proposals
                         \* that may be sent, the lists that may be added by value,
                         \* the builds that commit, the times of commits
          Externals,     \* leaves with which an outsider may commit itself
          MaxProposals,  \* bound: proposals of one round
          MaxRounds      \* bound: commits

VARIABLES scenario,
          tree,    \* GroupState.public_tree, its leaves
          index,   \* GroupState.public_tree.index
          ext,     \* GroupState.context.extensions
          cache,   \* GroupState.proposals
          commit,  \* the commit under way, <<>> if there is none
          sent,    \* what its committer computed: the pending commit's state
          bundle,  \* what its committer started from (history)
          round

vars == <<scenario, tree, index, ext, cache, commit, sent, bundle, round>>

Init ==
    /\ scenario \in Scenarios
    /\ tree = scenario.tree
    /\ index = IndexOf(scenario.tree)
    /\ ext = [caps |-> FALSE, senders |-> <<>>]
    /\ cache = {}
    /\ commit = <<>>
    /\ sent = <<>>
    /\ bundle = <<>>
    /\ round = 0

\* A proposal is sent and reaches every cache (ProposalCache::insert).
Propose(p) ==
    /\ commit = <<>> /\ round < MaxRounds
    /\ Cardinality(cache) < MaxProposals
    /\ SenderInRoster(tree, p.sender)
    /\ cache' = cache \cup {p}
    /\ UNCHANGED <<scenario, tree, index, ext, commit, sent, bundle, round>>

Build == [byRef : BOOLEAN, indexed : BOOLEAN]

FullBuild == [byRef |-> TRUE, indexed |-> TRUE]

\* ProposalApplier::new
Applier(build, strategy, time) ==
    [tree |-> tree, index |-> index, indexed |-> build.indexed, ext |-> ext,
     strategy |-> strategy, time |-> time]

\* The leaf of an external commit is checked in validate_update_path, under the
\* new extensions; that of a member is its own, renewed.
PathLeafValid(c, out) ==
    c.sender.kind = "Member" \/ (RequiredSupported(out.ext, c.leaf) /\ SendersSupported(out.ext, c.leaf))

Apply(build, strategy, time, c) ==
    LET out == IF build.byRef THEN ApplyResolved(Applier(build, strategy, time), c)
               ELSE ApplyResolvedLite(Applier(build, strategy, time), c)
    IN  [out EXCEPT !.ok = @ /\ PathLeafValid(c, out)]

\* Without by_ref_proposal there is no ExternalSendersExt.
SendersKnown(build, b) ==
    build.byRef \/ NewExtensions(ext, b).senders = <<>>

\* The committer applies its own bundle; with an error there is no commit.
Send(build, time, sender, leaf, b) ==
    /\ commit = <<>> /\ round < MaxRounds
    /\ SenderInRoster(tree, sender)
    /\ SendersKnown(build, b)
    /\ \E out \in {Apply(build, "IgnoreByRef", time, [sender |-> sender, leaf |-> leaf, b |-> b])} :
          /\ out.ok
          /\ sent' = out
          /\ bundle' = b
          /\ commit' = [sender |-> sender, leaf |-> leaf, b |-> out.b, time |-> time,
                        build |-> build]
    /\ UNCHANGED <<scenario, tree, index, ext, cache, round>>

ByValue(values, sender) ==
    [i \in DOMAIN values |-> [values[i] EXCEPT !.sender = sender]]

\* Group::commit with prepare_commit: what is cached, in the order the hash map
\* yields it, then what is given by value; without by_ref_proposal only that.
CommitByMember(build, time, i) ==
    \E order \in IF build.byRef THEN SetToSeqs(cache) ELSE {<<>>}, values \in scenario.values :
        LET sender == [kind |-> "Member", index |-> i]
        IN  Send(build, time, sender, Blank, order \o ByValue(values, sender))

\* ExternalCommitBuilder::build, which also applies its own commit: the joiner's
\* cache holds nothing.
CommitByNewMember(build, time, leaf) ==
    \E values \in scenario.values :
        LET sender == [kind |-> "NewMemberCommit", index |-> 0]
            init   == [type |-> "ExternalInit", sender |-> sender, byRef |-> FALSE]
        IN  Send(build, time, sender, leaf, <<init>> \o ByValue(values, sender))

\* resolve_for_commit finds every reference, each member having cached it; a
\* build without by_ref_proposal cannot decode one.
Resolvable(build, b) == \A i \in DOMAIN b : b[i].byRef => build.byRef /\ b[i] \in cache

\* A member that processes the commit, with or without a time: the time at which
\* it was sent, or none (process_incoming_message).
Received(build, time) == Apply(build, "IgnoreNone", time, commit)

\* process_commit of the other members; when they accept, the next epoch begins.
Process ==
    /\ commit # <<>>
    /\ Resolvable(FullBuild, commit.b)
    /\ \E out \in {Received(FullBuild, NoTime)} :
          /\ out.ok
          /\ tree' = out.tree
          /\ index' = out.index
          /\ ext' = out.ext
    /\ cache' = {}
    /\ commit' = <<>>
    /\ sent' = <<>>
    /\ bundle' = <<>>
    /\ round' = round + 1
    /\ UNCHANGED scenario

Next ==
    \/ \E p \in scenario.proposals : Propose(p)
    \/ \E build \in scenario.builds, time \in scenario.times :
          \/ \E i \in DOMAIN tree : CommitByMember(build, time, i)
          \/ \E leaf \in Externals : CommitByNewMember(build, time, leaf)
    \/ Process

Spec == Init /\ [][Next]_vars

-----------------------------------------------------------------------------
(* Properties *)

Sent(t) == {p \in {sent.b[i] : i \in DOMAIN sent.b} : p.type = t}

Cached(t) == {p \in cache : p.type = t}

\* Type invariant: a tree is trimmed, and a pending commit's results too.
TypeOK ==
    /\ \A i \in DOMAIN tree : DOMAIN tree[i] = DOMAIN Blank
    /\ tree # <<>> /\ tree[Len(tree)] # Blank
    /\ ext.caps \in BOOLEAN /\ index.custom \in 0 .. Len(tree)
    /\ cache \subseteq scenario.proposals
    /\ round \in 0 .. MaxRounds
    /\ commit # <<>> => sent.ok /\ sent.b = commit.b /\ commit.time # NoTime

\* No two cached updates and removes are about the same leaf, and no update
\* needs the old leaf of another one to be gone: it neither takes its key nor
\* parts with its credential type.
EditsIndependent ==
    /\ \A u \in Cached("Update") :
          /\ \A q \in Cached("Update") \ {u} :
                /\ u.sender # q.sender
                /\ Compatible([u.leaf EXCEPT !.id = tree[u.sender.index].id], tree[q.sender.index])
          /\ \A q \in Cached("Remove") \cup Sent("Remove") : q.target # u.sender.index

AgreedBy(build, time) ==
    LET res == Received(build, time)
    IN  /\ res.ok
        /\ res.b = sent.b /\ res.tree = sent.tree /\ res.added = sent.added /\ res.ext = sent.ext
        /\ build.indexed /\ commit.build.indexed => res.index = sent.index

Agreed ==
    \A build \in Build, time \in {NoTime, commit.time} :
        Resolvable(build, commit.b) => AgreedBy(build, time)

\* Whatever a committer's filter leaves in a commit, in whatever order its hash
\* map yields the cached proposals, every other member accepts (apply_resolved
\* with IgnoreNone), and computes the same tree, index and extensions; whichever
\* features either was built with, and whether or not it is told the time.
SentIsAccepted == commit # <<>> /\ EditsIndependent => Agreed

\* The same for every cache.  batch_edit says of updates it could not apply:
\* "Remove rejected updates from applied proposals".
SentIsAlwaysAccepted == commit # <<>> => Agreed

Changed ==
    {p.target : p \in Sent("Remove")} \cup {p.sender.index : p \in Sent("Update")}

Joining == IF commit.sender.kind = "Member" THEN {} ELSE {commit.leaf}

\* The new tree shows exactly the applied proposals: leaves that no applied
\* proposal names keep their place, an update or remove in the list took
\* effect, added leaves are where the Welcome says, and nobody else is in.
AppliedExactly ==
    commit # <<>> /\ EditsIndependent =>
    /\ \A i \in DOMAIN tree \ Changed :
          Occupied(tree, i) => i \in DOMAIN sent.tree /\ sent.tree[i] = tree[i]
    /\ \A u \in Sent("Update") : sent.tree[u.sender.index] = u.leaf
    /\ Leaves(sent.tree) = ({tree[i] : i \in DOMAIN tree \ Changed} \ {Blank})
                             \cup {p.leaf : p \in Sent("Update") \cup Sent("Add")}
                             \cup Joining
    /\ [i \in DOMAIN sent.added |-> sent.tree[sent.added[i]]]
          = [i \in DOMAIN OfType(sent.b, "Add") |-> OfType(sent.b, "Add")[i].leaf]

Count(t, Test(_)) == Cardinality({i \in OccupiedPositions(t) : Test(t[i])})

\* No two leaves of a new tree share an identity or a key, each supports the
\* credentials of all others, and the index that guards this (TreeIndex) lists
\* exactly the leaves of the tree and has counted them right.
UniqueLeaves ==
    commit # <<>> /\ EditsIndependent =>
        /\ \A i, j \in OccupiedPositions(sent.tree) :
              i # j => Compatible(sent.tree[i], sent.tree[j])
        /\ commit.build.indexed =>
              /\ sent.index.keys = {leaf.key : leaf \in Leaves(sent.tree)}
              /\ sent.index.ids = {leaf.id : leaf \in Leaves(sent.tree)}
              /\ sent.index.custom = Count(sent.tree, LAMBDA x : x.caps)
              /\ \A c \in CredentialType :
                    /\ sent.index.used[c] = Count(sent.tree, LAMBDA x : x.cred = c)
                    /\ sent.index.supported[c] = Count(sent.tree, LAMBDA x : c \in x.creds)

\* The filter drops a proposal only where it has to: a bundle that a receiver
\* would accept as it is goes into the commit unchanged.
FilterKeepsValid ==
    commit # <<>> =>
        (Apply(commit.build, "IgnoreNone", commit.time, [commit EXCEPT !.b = bundle]).ok
            => commit.b = bundle)
=============================================================================
