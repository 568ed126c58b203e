-------------------------------- MODULE Group --------------------------------
(***************************************************************************)
(* The life of one group at its members (mls-rs/src/group/mod.rs,          *)
(* commit.rs, message_processor.rs, snapshot.rs): proposals, commits,      *)
(* pending commits, own updates, signing keys, failures in the middle of   *)
(* processing, and restarts from storage.                                  *)
(*                                                                         *)
(* A delivery service, which is not part of the library, orders proposals  *)
(* and commits in one log and takes the first commit of each epoch only.   *)
(* An application writes the group to storage before it sends what the     *)
(* group produced, keeps its position in the log with the stored group,    *)
(* and tries a message again that could not be processed.                  *)
(*                                                                         *)
(* A client occupies one leaf, named after it; a leaf is its public key    *)
(* and its signature key.  The private tree is the leaf key it holds and   *)
(* the epoch whose path keys it holds.  An epoch is named by the commit    *)
(* that began it, which stands for its transcript and its secrets.         *)
(* Validity of proposals is the subject of CommitRound; here each sender   *)
(* has at most one update per epoch and is not removed by a commit that    *)
(* could apply it.                                                         *)
(***************************************************************************)
EXTENDS Integers, Sequences, FiniteSets

CONSTANTS Client,
          Setups     \* what is possible in a behaviour:
                     \*   clients, founders  who there is, and who is a member first
                     \*   newIdentity   a committer may change its signing identity
                     \*   clearFirst    the application clears a pending commit itself
                     \*   mayReInit     a commit may reinitialize the group
                     \*   mayClear      whose applications may clear their proposal caches
                     \*   storageFails  whose storage may fail to answer
                     \*   maxMessages   bound: proposals and commits
                     \*   mayCrash      whose processes may end
                     \*   maxCrashes    bound: restarts

ASSUME GroupAssumption ==
    \A x \in Setups :
        /\ x.founders \subseteq x.clients /\ x.founders # {} /\ x.clients \subseteq Client
        /\ x.newIdentity \in BOOLEAN /\ x.clearFirst \in BOOLEAN
        /\ x.mayReInit \in BOOLEAN
        /\ x.mayClear \subseteq x.clients
        /\ x.storageFails \subseteq x.clients /\ x.mayCrash \subseteq x.clients
        /\ x.maxMessages \in Nat /\ x.maxCrashes \in Nat

VARIABLES setup,
          log,      \* the delivery service's messages, in order
          ds,       \* the group at the end of the log, as its GroupInfo shows it
          group,    \* group[c]: the client's Group, or Out
          disk,     \* disk[c]: what write_to_storage stored last
          outbox,   \* outbox[c]: at most one message to be sent
          welcomes, \* welcomes[c]: the last Welcome for c that was not used
          count,    \* messages made so far; names them
          crashes

vars == <<setup, log, ds, group, disk, outbox, welcomes, count, crashes>>

Out == [in |-> FALSE]

\* The keys that client c generates for the message with number n; its first
\* signature key is that of message 0.
Key(c, n) == <<c, n>>

FirstTree == [c \in setup.founders |-> [key |-> Key(c, 0), sig |-> Key(c, 0)]]

\* A client that enters the group with the given epoch and tree.
NewMember(c, epoch, tree, position) ==
    [in |-> TRUE,
     epoch   |-> epoch,           \* state.context
     tree    |-> tree,            \* state.public_tree
     leafKey |-> tree[c].key,     \* private_tree: the own leaf
     path    |-> epoch,           \* private_tree: epoch its path keys belong to
     signer  |-> tree[c].sig,     \* signer
     cache   |-> {},              \* state.proposals
     updates |-> {},              \* pending_updates
     pending |-> <<>>,            \* pending_commit
     reinit  |-> FALSE,           \* state.pending_reinit
     position |-> position]       \* of the next message in the log

Init ==
    /\ setup \in Setups
    /\ log = <<>>
    /\ ds = [epoch |-> 0, tree |-> FirstTree, reinit |-> FALSE]
    /\ group = [c \in Client |-> IF c \in setup.founders THEN NewMember(c, 0, FirstTree, 1) ELSE Out]
    /\ disk = group
    /\ outbox = [c \in Client |-> <<>>]
    /\ welcomes = [c \in Client |-> <<>>]
    /\ count = 0
    /\ crashes = 0

-----------------------------------------------------------------------------
(* Making proposals and commits *)

CanMake(c) == group[c].in /\ outbox[c] = <<>> /\ count < setup.maxMessages

\* propose_update and propose_update_with_identity: the new secret key, and the
\* new signer if there is one, wait in pending_updates; the proposal is signed
\* with the current signer and cached.
ProposeUpdate(c, newSigner) ==
    LET g    == group[c]
        n    == count + 1
        prop == [kind |-> "proposal", id |-> n, sender |-> c, epoch |-> g.epoch,
                 sig  |-> g.signer,
                 leaf |-> [key |-> Key(c, n),
                           sig |-> IF newSigner THEN Key(c, n) ELSE g.tree[c].sig],
                 leafSig |-> IF newSigner THEN Key(c, n) ELSE g.signer]
    IN  /\ CanMake(c)
        /\ g.updates = {}
        /\ group' = [group EXCEPT
              ![c].cache = @ \cup {prop},
              ![c].updates = @ \cup {[key |-> Key(c, n), new |-> newSigner]}]
        /\ outbox' = [outbox EXCEPT ![c] = <<prop>>]
        /\ count' = n
        /\ UNCHANGED <<setup, log, ds, disk, welcomes, crashes>>

\* The cached updates that survive the committer's filter.
Committable(c, g) == {p \in g.cache : p.sender # c /\ p.leafSig = p.leaf.sig}

\* The commit that c makes; a path is made when the proposals require one
\* (path_update_required) or the rules ask for it.
NewCommit(c, g, n, add, remove, reinit, force, newSigner) ==
    [kind |-> "commit", id |-> n, sender |-> c, epoch |-> g.epoch, external |-> FALSE,
     sig  |-> g.signer, refs |-> Committable(c, g), add |-> add, remove |-> remove,
     reinit |-> reinit,
     path |-> force \/ Committable(c, g) # {} \/ remove # {} \/ (add = {} /\ ~reinit),
     leaf |-> [key |-> Key(c, n), sig |-> IF newSigner THEN Key(c, n) ELSE g.tree[c].sig],
     leafSig |-> IF newSigner THEN Key(c, n) ELSE g.signer]

\* commit_internal of a member.  A reinitialization goes with no other proposal.
\* The new signer replaces the old one at once.
Commit(c, add, remove, reinit, force, newSigner) ==
    LET g == group[c]
        k == NewCommit(c, g, count + 1, add, remove, reinit, force, newSigner)
    IN  /\ CanMake(c)
        /\ g.pending = <<>> /\ ~g.reinit
        /\ reinit => add \cup remove \cup Committable(c, g) = {}
        /\ add \cap DOMAIN g.tree = {}
        /\ remove \subseteq DOMAIN g.tree \ {c}
        /\ \A p \in g.cache : p.sender \notin remove
        /\ group' = [group EXCEPT ![c].pending = <<k>>,
                                  ![c].signer = IF newSigner THEN Key(c, k.id) ELSE @]
        /\ outbox' = [outbox EXCEPT ![c] = <<k>>]
        /\ count' = k.id
        /\ UNCHANGED <<setup, log, ds, disk, welcomes, crashes>>

-----------------------------------------------------------------------------
(* Processing *)

UpdateOf(refs, c) == {p \in refs : p.sender = c}

\* The public tree after the proposals and the path of k.  An added client has
\* the leaf of the key package that was used to add it.
TreeAfter(g, k) ==
    [c \in (DOMAIN g.tree \ k.remove) \cup k.add \cup {k.sender} |->
        IF c = k.sender THEN (IF k.path THEN k.leaf ELSE g.tree[c])
        ELSE IF c \in k.add THEN [key |-> Key(c, k.id), sig |-> Key(c, 0)]
        ELSE IF UpdateOf(k.refs, c) # {} THEN (CHOOSE p \in UpdateOf(k.refs, c) : TRUE).leaf
        ELSE g.tree[c]]

\* The checks before the proposals are applied: the epoch, the signature under
\* the sender's leaf, the references (resolve_for_commit).
Acceptable(g, k) ==
    /\ k.epoch = g.epoch
    /\ k.external \/ (k.sender \in DOMAIN g.tree /\ g.tree[k.sender].sig = k.sig)
    /\ k.refs \subseteq g.cache

\* validate_update_path of the path's leaf, and the secret key of an own update,
\* which is needed for the provisional private tree.
PathAcceptable(c, g, k) ==
    k.path => /\ k.leafSig = k.leaf.sig
              /\ \A p \in UpdateOf(k.refs, c) : \E u \in g.updates : u.key = p.leaf.key

\* can_continue_processing
CanContinue(c, g, k) == ~(c \in k.remove /\ g.pending = <<>>)

AdoptNoSigner(c, g, k) ==                \* faulty variant: the old signer stays
    g

\* apply_update_path: the signer of an own update becomes current.
AdoptSigner(c, g, k) ==
    [g EXCEPT !.signer =
        IF k.path /\ \E p \in UpdateOf(k.refs, c) : [key |-> p.leaf.key, new |-> TRUE] \in g.updates
        THEN (CHOOSE p \in UpdateOf(k.refs, c) : TRUE).leaf.sig ELSE @]

DecapFromCurrent(c, g, k) ==             \* faulty variant: a retry is not possible
    IF k.sender = c THEN g.pending = <<k>>
    ELSE c \notin k.remove /\ g.path = g.epoch

\* decap: the path secret was encrypted to the keys of the old epoch that lie
\* below the replaced part of the path, so the keys of k itself serve as well.
\* The committer takes its secrets from the pending commit.
Decap(c, g, k) ==
    IF k.sender = c THEN g.pending = <<k>>
    ELSE c \notin k.remove /\ g.path \in {g.epoch, k.id}

AdoptPathKeepsLeaf(c, g, k) ==           \* faulty variant: the own update is forgotten
    IF ~k.path THEN g
    ELSE [g EXCEPT !.path = k.id, !.leafKey = IF k.sender = c THEN k.leaf.key ELSE @]

\* The first assignment of update_key_schedule: the new private tree.
AdoptPath(c, g, k) ==
    IF ~k.path THEN g
    ELSE [g EXCEPT !.path = k.id,
                   !.leafKey = IF k.sender = c THEN k.leaf.key
                               ELSE IF UpdateOf(k.refs, c) # {}
                               THEN (CHOOSE p \in UpdateOf(k.refs, c) : TRUE).leaf.key
                               ELSE @]

\* The confirmation tag agrees: with a pending commit the init secret of an
\* external commit is not derived.
TagAgrees(g, k) == k.external => g.pending = <<>>

AdvanceKeepsPending(g, k) ==             \* faulty variant: nothing is cleared but proposals
    [g EXCEPT !.epoch = k.id, !.path = k.id, !.tree = TreeAfter(g, k), !.cache = {},
              !.updates = {}, !.position = @ + 1]

AdvanceTwice(g, k) ==                    \* faulty variant: the epoch is counted twice
    [g EXCEPT !.epoch = k.id + 1, !.path = k.id + 1, !.tree = TreeAfter(g, k), !.cache = {},
              !.updates = {}, !.pending = <<>>, !.position = @ + 1]

AdvanceAppliesCache(g, k) ==             \* faulty variant: every cached update counts
    [g EXCEPT !.epoch = k.id, !.path = k.id, !.tree = TreeAfter(g, [k EXCEPT !.refs = g.cache]),
              !.cache = {}, !.updates = {}, !.pending = <<>>, !.position = @ + 1]

\* The last assignments of update_key_schedule.  Without a path the private
\* tree stays as it is, and serves the new epoch.
Advance(g, k) ==
    [g EXCEPT !.epoch = k.id, !.path = k.id, !.tree = TreeAfter(g, k), !.cache = {},
              !.updates = {}, !.pending = <<>>, !.position = @ + 1]

Failed(g) == [ok |-> FALSE, g |-> g]

\* pending_reinit is set between apply_update_path and update_key_schedule.
AdoptReInit(g, k) == [g EXCEPT !.reinit = @ \/ k.reinit]

\* update_key_schedule on g, which has the new private tree.
Reschedule(g, k, stored) ==
    IF ~TagAgrees(g, k) \/ ~stored THEN Failed(g)
    ELSE [ok |-> TRUE, g |-> Advance(g, k)]

\* apply_update_path and what follows, on g, whose signer is adopted.
Rekey(c, g, k, stored) ==
    IF k.path /\ ~Decap(c, g, k) THEN Failed(g)
    ELSE Reschedule(AdoptPath(c, AdoptReInit(g, k), k), k, stored)

\* process_commit: the result and the group it leaves.  stored is whether the
\* storage answers the query that state_repo.insert makes.
ProcessCommit(c, g, k, stored) ==
    IF g.reinit \/ ~Acceptable(g, k) THEN Failed(g)
    ELSE IF ~CanContinue(c, g, k) THEN [ok |-> TRUE, g |-> Out]
    ELSE IF ~PathAcceptable(c, g, k) THEN Failed(g)
    ELSE Rekey(c, AdoptSigner(c, g, k), k, stored)

\* A commit of its own that c no longer has pending is refused,
\* CantProcessMessageFromSelf.
ProcessLogged(c, g, k, stored) ==
    IF k.sender = c /\ g.pending # <<k>> THEN Failed(g) ELSE ProcessCommit(c, g, k, stored)

Awaits(c, kind) ==
    /\ group[c].in
    /\ group[c].position <= Len(log)
    /\ log[group[c].position].kind = kind

\* Another member's commit is handed over only once the own one is cleared.
HandsOver(c, k) == setup.clearFirst /\ k.sender # c => group[c].pending = <<>>

\* process_incoming_message of a commit.  After an error the application will
\* try again.
ProcessNextCommit(c, stored) ==
    /\ Awaits(c, "commit")
    /\ LET k == log[group[c].position]
       IN  /\ HandsOver(c, k)
           /\ group' = [group EXCEPT ![c] = ProcessLogged(c, group[c], k, stored).g]
    /\ UNCHANGED <<setup, log, ds, disk, outbox, welcomes, count, crashes>>

\* process_incoming_message of a proposal: cached if its signature verifies; an
\* own one was cached when it was made.
ProcessNextProposal(c) ==
    /\ Awaits(c, "proposal")
    /\ LET g == group[c]
           p == log[g.position]
           new == {q \in {p} : q.sender # c /\ q.epoch = g.epoch /\ g.tree[q.sender].sig = q.sig}
       IN  group' = [group EXCEPT ![c].cache = @ \cup new, ![c].position = @ + 1]
    /\ UNCHANGED <<setup, log, ds, disk, outbox, welcomes, count, crashes>>

\* clear_pending_commit, of a commit that was sent and lost the race.
ClearPendingCommit(c) ==
    /\ group[c].in /\ group[c].pending # <<>> /\ outbox[c] = <<>>
    /\ \A i \in DOMAIN log : log[i] # group[c].pending[1]
    /\ group' = [group EXCEPT ![c].pending = <<>>]
    /\ UNCHANGED <<setup, log, ds, disk, outbox, welcomes, count, crashes>>

\* clear_proposal_cache, at any time; a pending commit and the keys of own
\* updates stay.
ClearProposalCache(c) ==
    /\ group[c].in /\ c \in setup.mayClear
    /\ group' = [group EXCEPT ![c].cache = {}]
    /\ UNCHANGED <<setup, log, ds, disk, outbox, welcomes, count, crashes>>

-----------------------------------------------------------------------------
(* Storage, the delivery service, and new members *)

SnapshotDropsUpdates(g) ==               \* faulty variant: no pending_updates
    IF g.in THEN [g EXCEPT !.updates = {}] ELSE g

\* Group::snapshot keeps all of this state, the pending commit included.
Snapshot(g) == g

WriteToStorage(c) ==
    /\ group[c].in
    /\ disk' = [disk EXCEPT ![c] = Snapshot(group[c])]
    /\ UNCHANGED <<setup, log, ds, group, outbox, welcomes, count, crashes>>

\* The process ends; load_group restores the group from its snapshot.
Restart(c) ==
    /\ c \in setup.mayCrash /\ crashes < setup.maxCrashes /\ disk[c].in
    /\ group' = [group EXCEPT ![c] = disk[c]]
    /\ outbox' = [outbox EXCEPT ![c] = <<>>]
    /\ crashes' = crashes + 1
    /\ UNCHANGED <<setup, log, ds, disk, welcomes, count>>

\* The delivery service takes commit k; its Welcome reaches the added client.
Accept(k) ==
    /\ log' = Append(log, k)
    /\ ds' = [epoch |-> k.id, tree |-> TreeAfter(ds, k), reinit |-> k.reinit]
    /\ welcomes' = [c \in Client |->
          IF c \in k.add THEN <<[epoch |-> k.id, tree |-> TreeAfter(ds, k), next |-> Len(log) + 2]>>
          ELSE welcomes[c]]

\* The application sends what is covered by the stored group; the delivery
\* service drops what is not of the current epoch.
Send(c) ==
    /\ outbox[c] # <<>> /\ disk[c] = Snapshot(group[c])
    /\ LET m == outbox[c][1]
       IN  IF m.epoch # ds.epoch THEN UNCHANGED <<setup, log, ds, welcomes>>
           ELSE IF m.kind = "commit" THEN Accept(m)
           ELSE log' = Append(log, m) /\ UNCHANGED <<setup, ds, welcomes>>
    /\ outbox' = [outbox EXCEPT ![c] = <<>>]
    /\ UNCHANGED <<setup, group, disk, count, crashes>>

\* Client::join_group with the Welcome of a commit; the group is stored.
JoinGroup(c) ==
    /\ ~group[c].in /\ welcomes[c] # <<>>
    /\ LET w == welcomes[c][1]
           g == NewMember(c, w.epoch, w.tree, w.next)
       IN  /\ group' = [group EXCEPT ![c] = g]
           /\ disk' = [disk EXCEPT ![c] = g]
    /\ welcomes' = [welcomes EXCEPT ![c] = <<>>]
    /\ outbox' = [outbox EXCEPT ![c] = <<>>]
    /\ UNCHANGED <<setup, log, ds, count, crashes>>

\* The commit of a client that joins through the GroupInfo of the last epoch.
ExternalCommit(c, n) ==
    [kind |-> "commit", id |-> n, sender |-> c, epoch |-> ds.epoch, external |-> TRUE,
     sig  |-> Key(c, 0), refs |-> {}, add |-> {}, remove |-> {}, reinit |-> FALSE, path |-> TRUE,
     leaf |-> [key |-> Key(c, n), sig |-> Key(c, 0)], leafSig |-> Key(c, 0)]

\* Client::commit_external: the new group is in the new epoch at once; it is
\* stored, and the delivery service takes the commit (else it is dropped).
CommitExternal(c) ==
    LET k == ExternalCommit(c, count + 1)
        g == NewMember(c, k.id, TreeAfter(ds, k), Len(log) + 2)
    IN  /\ ~group[c].in /\ c \notin DOMAIN ds.tree /\ ~ds.reinit
        /\ count < setup.maxMessages
        /\ Accept(k)
        /\ group' = [group EXCEPT ![c] = g]
        /\ disk' = [disk EXCEPT ![c] = g]
        /\ outbox' = [outbox EXCEPT ![c] = <<>>]
        /\ count' = k.id
        /\ UNCHANGED <<setup, crashes>>

Next ==
    \E c \in setup.clients :
        \/ \E newSigner \in BOOLEAN : ProposeUpdate(c, newSigner)
        \/ \E add, remove \in {{}} \cup {{d} : d \in setup.clients}, force \in BOOLEAN,
              reinit \in {FALSE, setup.mayReInit}, newSigner \in {FALSE, setup.newIdentity} :
                  Commit(c, add, remove, reinit, force, newSigner)
        \/ \E stored \in {TRUE, c \notin setup.storageFails} : ProcessNextCommit(c, stored)
        \/ ProcessNextProposal(c)
        \/ ClearPendingCommit(c)
        \/ ClearProposalCache(c)
        \/ WriteToStorage(c)
        \/ Restart(c)
        \/ Send(c)
        \/ JoinGroup(c)
        \/ CommitExternal(c)

Spec == Init /\ [][Next]_vars

\* What an application does for as long as there is something to do: process
\* the log, with a storage that does not fail for ever, clear a commit that lost,
\* write, and send what was written.
KeepUp(c) ==
    \/ ProcessNextCommit(c, TRUE) \/ ProcessNextProposal(c) \/ ClearPendingCommit(c)
    \/ WriteToStorage(c) \/ Send(c)

FairSpec == Spec /\ \A c \in Client : WF_vars(KeepUp(c))

-----------------------------------------------------------------------------
(* Properties *)

Members == {c \in Client : group[c].in}

Proposal == [kind : {"proposal"}, id : 1..setup.maxMessages, sender : Client, epoch : 0..setup.maxMessages,
             sig : Client \X (0..setup.maxMessages), leafSig : Client \X (0..setup.maxMessages),
             leaf : [key : Client \X (0..setup.maxMessages), sig : Client \X (0..setup.maxMessages)]]

\* Types: a Group holds an epoch of the group, the own leaf is in its tree, the
\* cache holds proposals and at most one commit is pending.
TypeOK ==
    /\ count \in 0..setup.maxMessages /\ crashes \in 0..setup.maxCrashes
    /\ \A c \in Members :
          /\ group[c].epoch \in 0..count
          /\ c \in DOMAIN group[c].tree
          /\ group[c].cache \subseteq Proposal
          /\ group[c].position \in 1..(Len(log) + 1)
          /\ Len(group[c].pending) <= 1

\* The application of c clears its cache, and commit k names a proposal that is
\* not there.
NamesDeleted(c, k) == c \in setup.mayClear /\ ~(k.refs \subseteq group[c].cache)

\* The commit that a member is to process next is accepted by
\* process_incoming_message, or tells it that it was removed: whatever the
\* member proposed, committed, stored and lost before, and although an earlier
\* attempt at the same commit failed after it had replaced the private tree.
\* What is refused, ProposalNotFound, is a commit, the own one included, that
\* names a proposal which the application deleted with clear_proposal_cache.
NextCommitProcessable ==
    \A c \in Client : Awaits(c, "commit") =>
        LET k == log[group[c].position]
        IN  HandsOver(c, k) /\ ~NamesDeleted(c, k) => ProcessLogged(c, group[c], k, TRUE).ok

\* A commit of another member that is processed while an own commit is pending
\* succeeds and clears it (or removes the member).  commit.rs: "Any commit
\* message that is processed before calling [Group::apply_pending_commit] will
\* clear the currently pending commit."
CommitSupersedesPending ==
    \A c \in Client :
        Awaits(c, "commit") /\ group[c].pending # <<>> /\ log[group[c].position].sender # c =>
            LET r == ProcessLogged(c, group[c], log[group[c].position], TRUE)
            IN  r.ok /\ (r.g.in => r.g.pending = <<>>)

\* Members in the same epoch hold the same public tree, each having computed it
\* from the commits it processed, the Welcome or the GroupInfo it joined with.
TreesAgree ==
    \A c, d \in Members : group[c].epoch = group[d].epoch => group[c].tree = group[d].tree

\* What a member keeps for a commit belongs to its current epoch: cached proposals
\* (commit_internal would commit older ones) and a pending commit.  The proposals
\* that the pending commit names are still cached, so that apply_pending_commit
\* finds them, unless the application itself deletes them with
\* clear_proposal_cache: processing, failures and restarts never do.
PendingCommitFits ==
    \A c \in Members :
        /\ \A p \in group[c].cache : p.epoch = group[c].epoch
        /\ group[c].pending # <<>> =>
              /\ group[c].pending[1].epoch = group[c].epoch
              /\ c \notin setup.mayClear => group[c].pending[1].refs \subseteq group[c].cache

\* Unless a commit is half applied, the private tree holds the secret key of the
\* leaf that the public tree shows for the member.
LeafKeyHeld ==
    \A c \in Members : group[c].path = group[c].epoch =>
        group[c].leafKey = group[c].tree[c].key

\* With no commit pending or half applied, a member signs with the key of its
\* leaf (message_verifier checks with the key of the leaf).
SignerMatchesLeaf ==
    \A c \in Members : group[c].path = group[c].epoch /\ group[c].pending = <<>> =>
        group[c].signer = group[c].tree[c].sig

\* Every member comes to the end of the log and stays there, once no more
\* messages are made: neither a failed attempt nor a pending commit that lost
\* the race keeps it from processing what follows.  A member is left behind only
\* before a commit that names a proposal which its application deleted.
CatchesUp ==
    \A c \in Client : <>[](group[c].in =>
        \/ group[c].position = Len(log) + 1
        \/ Awaits(c, "commit") /\ NamesDeleted(c, log[group[c].position]))
=============================================================================
