---------------------------- MODULE ExternalGroup ----------------------------
(***************************************************************************)
(* A group and a client that observes it (ExternalClient and               *)
(* ExternalGroup, mls-rs/src/external_client/group.rs).  The delivery      *)
(* service keeps proposals and commits in one log.  The members are at its *)
(* end; the observer starts from a GroupInfo of any epoch and follows,     *)
(* caching proposals or leaving that to the application, which may also    *)
(* lose the observer and restore it from a snapshot.  An observer with a   *)
(* signing identity that the group allows sends proposals of its own.      *)
(***************************************************************************)
EXTENDS MessageProcessor, FiniteSets

CONSTANTS FirstInfo,     \* the GroupInfo of epoch 0
          Joiners,       \* leaves that may join from outside
          Server,        \* the observer's signing identity
          Setups,        \* encrypt, path: encrypt_control_messages and
                         \* path_required of the group's rules; cache, jitter:
                         \* cache_proposals and max_epoch_jitter; proposals:
                         \* what members and observers may propose; values:
                         \* what a commit may bring by value; maxLog, maxFaults:
                         \* bounds on messages and on restarts and cleared caches
          MaxCached      \* bound: proposals of one epoch

ASSUME ExternalGroupAssumption ==
    /\ MaxCached \in Nat /\ U64 \in Nat \ {0}
    /\ \A x \in Setups : /\ x.encrypt \in BOOLEAN /\ x.path \in BOOLEAN /\ x.cache \in BOOLEAN
                         /\ x.maxLog \in Nat /\ x.maxFaults \in Nat

VARIABLES setup,
          group,     \* the GroupState of the members
          epochs,    \* epochs[n]: the GroupInfo of epoch n - 1 and the place in
                     \* the log where it begins (history)
          log,
          obs,       \* the observer's GroupState, or Off
          roster,    \* the roster as the observer's application tracks it
          position,  \* of the observer's next message in the log
          snap,      \* what the observer's application saved last
          faults

vars == <<setup, group, epochs, log, obs, roster, position, snap, faults>>

Off == [epoch |-> -1]

On == obs # Off

\* The roster shows the leaves with their positions.
RosterOf(tree) == {<<i, tree[i]>> : i \in OccupiedPositions(tree)}

Init ==
    /\ setup \in Setups
    /\ group = NewGroupState(FirstInfo)
    /\ epochs = <<[info |-> FirstInfo, start |-> 1, reinit |-> FALSE]>>
    /\ log = <<>>
    /\ obs = Off /\ roster = {} /\ position = 1
    /\ snap = [obs |-> Off, roster |-> {}, position |-> 1]
    /\ faults = 0

-----------------------------------------------------------------------------
(* The group                                                               *)

SomeMember == [keyed |-> TRUE, self |-> 0, cache |-> TRUE, jitter |-> <<>>]

Observer == [keyed |-> FALSE, self |-> 0, cache |-> setup.cache, jitter |-> setup.jitter]

InfoOf(s) == [epoch |-> s.epoch, ext |-> s.ext, confirmed |-> s.confirmed,
              tree |-> s.tree, tag |-> s.tag]

Room == Len(log) < setup.maxLog

\* The members process m, the delivery service adds it to the log, and with a
\* new epoch a GroupInfo is published.
Deliver(m) ==
    /\ log' = Append(log, m)
    /\ \E r \in ProcessIncomingMessage(SomeMember, group, m) :
          /\ r.ok
          /\ group' = r.s
          /\ epochs' = IF r.s.epoch = group.epoch THEN epochs
                       ELSE Append(epochs, [info |-> InfoOf(r.s), start |-> Len(log) + 2,
                                            reinit |-> r.s.reinit])

\* Group::format_for_wire with the rules' encryption_options; a
\* sender outside of the group cannot encrypt.
ControlWire(sender) ==
    IF setup.encrypt /\ sender.kind = "Member" THEN "Private" ELSE "Public"

\* A signed proposal of the given sender, for the epoch of state s.
ProposalMessage(s, sender, signer, p, id) ==
    [type |-> "Proposal", id |-> id, wire |-> ControlWire(sender), epoch |-> s.epoch,
     sender |-> sender, member |-> sender.kind = "Member", signer |-> signer,
     proposal |-> p @@ [sender |-> sender, byRef |-> TRUE, ref |-> <<s.epoch, id>>]]

CanSend ==
    /\ Room /\ Cardinality(group.cache) < MaxCached
    /\ UNCHANGED <<setup, obs, roster, position, snap, faults>>

\* Group::propose_add and its siblings; only a remove is looked at first.
ProposeByMember(i, p) ==
    /\ CanSend
    /\ Occupied(group.tree, i)
    /\ p.type = "Remove" => Occupied(group.tree, p.target)
    /\ Deliver(ProposalMessage(group, Member(i), group.tree[i].id, p, Len(log) + 1))

\* Group::propose_update: a new leaf key.
ProposeUpdate(i) ==
    /\ CanSend
    /\ Occupied(group.tree, i)
    /\ Deliver(ProposalMessage(group, Member(i), group.tree[i].id,
                  [type |-> "Update", source |-> "Update", valid |-> TRUE,
                   leaf |-> [group.tree[i] EXCEPT !.key = <<group.tree[i].id, Len(log) + 1>>]],
                  Len(log) + 1))

\* Client::external_add_proposal of a client that wants to be added.
ProposeByNewMember(leaf) ==
    /\ CanSend
    /\ Deliver(ProposalMessage(group, [kind |-> "NewMemberProposal", index |-> 0], leaf.id,
                  [type |-> "Add", source |-> "KeyPackage", valid |-> TRUE, leaf |-> leaf], Len(log) + 1))

\* The list of a commit: what came by reference goes by reference.
ListOf(b) ==
    [i \in DOMAIN b |-> IF b[i].byRef THEN <<"ref", b[i].ref>> ELSE <<"value", b[i]>>]

CommitMessage(sender, signer, leaf, b, path, id) ==
    [type |-> "Commit", id |-> id, wire |-> ControlWire(sender), epoch |-> group.epoch,
     sender |-> sender, member |-> sender.kind = "Member", signer |-> signer,
     list |-> ListOf(b), path |-> path, leaf |-> leaf, tag |-> <<"tag", id>>]

ByValue(values, sender) ==
    [i \in DOMAIN values |-> values[i] @@ [sender |-> sender, byRef |-> FALSE, ref |-> <<>>]]

\* A commit with the bundle b, of which the committer's filter keeps what is
\* valid; a path is made if it is required or if the rules ask for it.
SendCommit(sender, leaf, b) ==
    /\ Room
    /\ ~group.reinit
    /\ \E out \in {ApplyResolved(Applier(group, "IgnoreByRef"),
                                 [sender |-> sender, leaf |-> leaf, b |-> b])} :
          /\ out.ok
          /\ Deliver(CommitMessage(sender, leaf.id, leaf, out.b,
                                   setup.path \/ PathUpdateRequired(out.b), Len(log) + 1))
    /\ UNCHANGED <<setup, obs, roster, position, snap, faults>>

\* Group::commit of a member, and its apply_pending_commit.
CommitByMember(i) ==
    /\ Occupied(group.tree, i)
    /\ \E order \in SetToSeqs(group.cache), values \in setup.values :
          SendCommit(Member(i), [group.tree[i] EXCEPT !.key = <<group.tree[i].id, Len(log) + 1>>],
                     order \o ByValue(values, Member(i)))

\* Client::commit_external
CommitByNewMember(leaf) ==
    \E values \in setup.values :
        SendCommit(NewMemberCommit, leaf,
                   ByValue(<<[type |-> "ExternalInit", valid |-> TRUE]>> \o values, NewMemberCommit))

-----------------------------------------------------------------------------
(* The observer                                                            *)

\* ExternalClient::observe_group with the GroupInfo of epoch n - 1.
ObserveGroup(n) ==
    /\ ~On
    /\ obs' = NewGroupState(epochs[n].info)
    /\ roster' = RosterOf(epochs[n].info.tree)
    /\ position' = epochs[n].start
    /\ UNCHANGED <<setup, group, epochs, log, snap, faults>>

\* A tracked roster after the event of a commit.
Track(known, u) ==
    {x \in known : x[1] \notin u.removed \cup {y[1] : y \in u.updated}} \cup u.updated \cup u.added

\* ExternalGroup::process_incoming_message.  A refused commit is tried again,
\* for which the application may look for proposals that are missing.
ProcessNext ==
    /\ On /\ position <= Len(log)
    /\ LET m == log[position]
       IN  \E r \in ProcessIncomingMessage(Observer, obs, m) :
              /\ r.ok \/ m.type # "Commit"
              /\ obs' = r.s
              /\ roster' = Track(roster, r.update)
    /\ position' = position + 1
    /\ UNCHANGED <<setup, group, epochs, log, snap, faults>>

CanInsert(i) == /\ log[i].type = "Proposal" /\ log[i].wire = "Public" /\ log[i].epoch = obs.epoch
                /\ log[i].proposal \notin obs.cache

\* insert_proposal_from_message, or insert_proposal with what was returned for
\* it; neither validates anything.  The application inserts those of the epoch.
InsertProposal(i) ==
    /\ On /\ i < position /\ CanInsert(i)
    /\ obs' = Insert(obs, log[i].proposal)
    /\ UNCHANGED <<setup, group, epochs, log, roster, position, snap, faults>>

\* clear_proposal_cache
ClearProposalCache ==
    /\ On /\ obs.cache # {} /\ faults < setup.maxFaults
    /\ obs' = [obs EXCEPT !.cache = {}]
    /\ faults' = faults + 1
    /\ UNCHANGED <<setup, group, epochs, log, roster, position, snap>>

SenderIndexFirst(s) ==                   \* faulty variant: always the first place
    {i \in {1} : \E j \in DOMAIN s.ext.senders : s.ext.senders[j].id = Server}

\* propose: the place of the own identity in the list of allowed senders.
SenderIndex(s) ==
    {i \in DOMAIN s.ext.senders :
        s.ext.senders[i].id = Server /\ \A j \in 1 .. i - 1 : s.ext.senders[j].id # Server}

\* propose_add, propose_remove and so on, before they call propose.
Proposable(s, p) == p.type = "Remove" => Occupied(s.tree, p.target)

OwnProposal(i, p) ==
    ProposalMessage(obs, [kind |-> "External", index |-> i], Server, p, Len(log) + 1)

\* ExternalGroup::propose: cached at once, then sent; members of a later epoch
\* refuse it, and the delivery service drops it.
ProposeByObserver(p) ==
    /\ On /\ Room /\ Cardinality(group.cache \cup obs.cache) < MaxCached
    /\ Proposable(obs, p)
    /\ \E i \in SenderIndex(obs) :
          /\ obs' = Insert(obs, OwnProposal(i, p).proposal)
          /\ IF obs.epoch = group.epoch THEN Deliver(OwnProposal(i, p))
             ELSE UNCHANGED <<group, epochs, log>>
    /\ UNCHANGED <<setup, roster, position, snap, faults>>

\* ExternalGroup::snapshot with RawGroupState::export, kept with the position.
Snapshot ==
    /\ On /\ faults < setup.maxFaults
    /\ snap' = [obs |-> obs, roster |-> roster, position |-> position]
    /\ UNCHANGED <<setup, group, epochs, log, obs, roster, position, faults>>

\* The process ends; ExternalClient::load_group restores the last snapshot.
LoadGroup ==
    /\ On /\ faults < setup.maxFaults
    /\ obs' = snap.obs /\ roster' = snap.roster /\ position' = snap.position
    /\ faults' = faults + 1
    /\ UNCHANGED <<setup, group, epochs, log, snap>>

Next ==
    \/ \E i \in DOMAIN group.tree :
          \/ \E p \in setup.proposals : ProposeByMember(i, p)
          \/ ProposeUpdate(i)
          \/ CommitByMember(i)
    \/ \E leaf \in Joiners : ProposeByNewMember(leaf) \/ CommitByNewMember(leaf)
    \/ \E n \in DOMAIN epochs : ObserveGroup(n)
    \/ ProcessNext
    \/ \E i \in DOMAIN log : InsertProposal(i)
    \/ ClearProposalCache
    \/ \E p \in setup.proposals : ProposeByObserver(p)
    \/ Snapshot
    \/ LoadGroup

Spec == Init /\ [][Next]_vars

-----------------------------------------------------------------------------
(* Properties *)

\* Types: the observer is in an epoch of the group and at a place in the log
\* from which that epoch can be followed.
TypeOK ==
    /\ group.epoch + 1 = Len(epochs)
    /\ On => /\ obs.epoch \in 0 .. group.epoch
             /\ position \in epochs[obs.epoch + 1].start .. Len(log) + 1
             /\ \A p \in obs.cache : p.byRef /\ p.ref[1] <= obs.epoch
    /\ faults \in 0 .. setup.maxFaults

\* In each epoch the observer has the context, the tree, the transcript hashes
\* and the tag that the members had in that epoch: whichever GroupInfo it
\* started from, however its cache was filled, and after restarts.  It thinks
\* that the group was reinitialized only if it was.  Its index of the leaves,
\* which each commit and its path changed step by step, is the one that
\* import_node_data would build from the tree.
ObserverAgrees ==
    On => /\ obs.index = IndexOf(obs.tree)
          /\ InfoOf(obs) = epochs[obs.epoch + 1].info
          /\ obs.interim = InterimTranscriptHash(obs.confirmed, obs.tag)
          /\ obs.reinit => epochs[obs.epoch + 1].reinit

\* An application that keeps its own roster, starting from roster() and applying
\* the StateUpdate that process_incoming_message returns for each commit, has
\* the roster of the observer's tree.
RosterTracked == On => roster = RosterOf(obs.tree)

\* What ExternalGroup::propose returns in the members' epoch is accepted by the
\* members: the sender index was computed from the same list of senders.
OwnProposalAccepted ==
    On /\ obs.epoch = group.epoch =>
        \A i \in SenderIndex(obs), p \in setup.proposals :
            \A r \in ProcessIncomingMessage(SomeMember, group, OwnProposal(i, p)) : r.ok

Accepted(m) == \A r \in ProcessIncomingMessage(Observer, obs, m) : r.ok

\* Where control messages are not encrypted no observer is stuck: the next
\* commit, which the members accepted, is accepted by it too, at once if it
\* caches proposals itself, and otherwise when the application has inserted
\* those that came before it.
ObserverNotStuck ==
    On /\ ~setup.encrypt /\ position <= Len(log) /\ log[position].type = "Commit" =>
        \/ Accepted(log[position])
        \/ (~setup.cache \/ faults > 0) /\ \E i \in 1 .. position - 1 : CanInsert(i)

\* builder.rs on max_epoch_jitter: "Specify the number of epochs before the
\* current one to keep."  An application message that is not older than that is
\* passed through by process_incoming_message.
JitterKeepsEpochs ==
    On /\ setup.jitter # <<>> =>
        \A e \in 0 .. obs.epoch :
            e + setup.jitter[1] >= obs.epoch =>
                \A r \in ProcessIncomingMessage(Observer, obs,
                            [type |-> "Application", wire |-> "Private", epoch |-> e]) : r.ok
=============================================================================
