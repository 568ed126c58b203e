--------------------------- MODULE ProposalFilter ---------------------------
(***************************************************************************)
(* How the proposals of a commit are validated and applied to the ratchet  *)
(* tree: ProposalCache and GroupState::apply_resolved                      *)
(* (mls-rs/src/group/proposal_cache.rs), ProposalApplier                   *)
(* (proposal_filter/filtering.rs and filtering_common.rs),                 *)
(* LeafNodeValidator (tree_kem/leaf_node_validator.rs) and                 *)
(* TreeKemPublic::batch_edit (tree_kem/mod.rs).                            *)
(*                                                                         *)
(* A committer drops the bad proposals among those it received (strategy   *)
(* IgnoreByRef); a receiver of the commit accepts it as it is or not at    *)
(* all (IgnoreNone).  The code runs the same functions for both.           *)
(*                                                                         *)
(* The applier a is a record with the fields of ProposalApplier, the       *)
(* strategy and the commit time: tree, index, indexed (the build has an    *)
(* index), ext (the group's extensions), strategy, time.  Extensions have  *)
(* caps, whether they require the optional capability, and the list        *)
(* senders of external senders.  A proposal carries what its checks look   *)
(* at: signatures, nonces, versions, keys and the PSK being stored are the *)
(* field valid; a new leaf has the source it claims, and that of a key     *)
(* package the end of its lifetime.  A bundle is a sequence: the code      *)
(* keeps one vector per type, and no check looks at the order of proposals *)
(* of different types.                                                     *)
(***************************************************************************)
EXTENDS TreeIndex

NoTime == 0     \* commit_time: None

-----------------------------------------------------------------------------
(* FilterStrategy and apply_strategy: a proposal that fails a check is     *)
(* dropped when it came by reference and the strategy allows it; otherwise *)
(* the whole operation fails.                                              *)
Ignore(a, p) == a.strategy = "IgnoreByRef" /\ p.byRef

Good(b) == [ok |-> TRUE, b |-> b]

\* ProposalBundle::retain_by_type, bad being the proposals that fail the check;
\* no two elements of a bundle are equal, as each has its own reference.
Drop(a, r, bad) ==
    [ok |-> r.ok /\ \A p \in bad : Ignore(a, p),
     b  |-> SelectSeq(r.b, LAMBDA p : p \notin bad)]

OfType(b, t) == SelectSeq(b, LAMBDA p : p.type = t)

All(b, t) == {p \in ToSet(b) : p.type = t}

Precedes(b, q, p) == \E i, j \in DOMAIN b : i < j /\ b[i] = q /\ b[j] = p

-----------------------------------------------------------------------------
(* The checks that do not look at the tree, in filtering.rs.               *)

\* proposer_can_propose.  The check of the proposers does not cover custom
\* proposals.
CanPropose(p) ==
    \/ p.type = "Custom"
    \/ /\ p.sender.kind = "Member"
       /\ p.type \in {"Add", "Remove", "Psk", "ReInit", "GroupContextExtensions"}
                       \cup (IF p.byRef THEN {"Update"} ELSE {})
    \/ /\ p.sender.kind = "External" /\ p.byRef
       /\ p.type \in {"Add", "Remove", "ReInit", "Psk", "GroupContextExtensions"}
    \/ /\ p.sender.kind = "NewMemberCommit" /\ ~p.byRef
       /\ p.type \in {"Remove", "Psk", "ExternalInit"}
    \/ p.sender.kind = "NewMemberProposal" /\ p.byRef /\ p.type = "Add"

FilterInvalidProposers(a, r) ==
    Drop(a, r, {p \in ToSet(r.b) : ~CanPropose(p)})

FilterUpdateForCommitter(a, committer, r) ==
    Drop(a, r, {p \in All(r.b, "Update") : p.sender.index = committer})

FilterRemovalOfCommitter(a, committer, r) ==
    Drop(a, r, {p \in All(r.b, "Remove") : p.target = committer})

\* filter_out_invalid_psks: an id counts as seen even where its proposal fails.
FilterInvalidPsks(a, r) ==
    Drop(a, r,
         {p \in All(r.b, "Psk") :
            ~p.valid \/ \E q \in All(r.b, "Psk") : q.psk = p.psk /\ Precedes(r.b, q, p)})

FilterInvalidGroupExtensions(a, r) ==
    Drop(a, r, {p \in All(r.b, "GroupContextExtensions") : ~p.valid})

FilterExtraGroupContextExtensions(a, r) ==
    Drop(a, r,
         {p \in All(r.b, "GroupContextExtensions") :
            \E q \in All(r.b, "GroupContextExtensions") : Precedes(r.b, q, p)})

FilterInvalidReinit(a, r) ==
    Drop(a, r, {p \in All(r.b, "ReInit") : ~p.valid})

\* filter_out_reinit_if_other_proposals: with other proposals, or with a second
\* one, none may be by value; all go, or all but the first.
FilterReinitIfOtherProposals(a, r) ==
    LET reinits == OfType(r.b, "ReInit")
    IN  IF reinits = <<>> \/ Len(r.b) = 1 THEN r
        ELSE [ok |-> r.ok /\ \A p \in ToSet(reinits) : Ignore(a, p),
              b  |-> IF Len(r.b) > Len(reinits)
                     THEN SelectSeq(r.b, LAMBDA p : p.type # "ReInit")
                     ELSE <<reinits[1]>>]

FilterExternalInit(a, r) ==
    Drop(a, r, All(r.b, "ExternalInit"))

-----------------------------------------------------------------------------
(* LeafNodeValidator::check_if_valid, with the key package's own checks    *)
(* (validate_key_package_properties) for an add.                           *)

\* Lifetime::within_lifetime; a key package is never too young here.
WithinLifetime(p, time) == time <= p.notAfter

\* check_context: the lifetime counts only where a time is given.
CheckContext(a, p) ==
    IF p.type = "Add"
    THEN p.source = "KeyPackage" /\ (a.time = NoTime \/ WithinLifetime(p, a.time))
    ELSE p.source = "Update"

\* validate_required_capabilities, and group extensions that are not default.
RequiredSupported(ext, leaf) == ext.caps => leaf.caps

\* validate_external_senders_ext_credentials
SendersSupported(ext, leaf) == \A i \in DOMAIN ext.senders : ext.senders[i].cred \in leaf.creds

LeafValid(a, ext, p) ==
    /\ CheckContext(a, p)
    /\ p.valid
    /\ RequiredSupported(ext, p.leaf)
    /\ SendersSupported(ext, p.leaf)

\* validate_new_nodes: the leaves that updates and adds bring, under the
\* extensions in use.  An update from a leaf that is blank fails as a whole,
\* whatever the strategy.
ValidateNewNodes(a, ext, r) ==
    [Drop(a, r,
          {p \in All(r.b, "Add") : ~LeafValid(a, ext, p)}
          \cup {p \in All(r.b, "Update") :
                  ~(LeafValid(a, ext, p) /\ p.leaf.id = a.tree[p.sender.index].id)})
     EXCEPT !.ok = @ /\ \A p \in All(r.b, "Update") : Occupied(a.tree, p.sender.index)]

-----------------------------------------------------------------------------
(* TreeKemPublic::batch_edit.  The edit in progress e has the tree, the    *)
(* index and the bundle.                                                   *)

\* Removes are applied from the last to the first, so among those of one leaf
\* the last one counts.
RemoveLeaves(a, r) ==
    Drop(a, r,
         {p \in All(r.b, "Remove") :
            \/ ~Occupied(a.tree, p.target)
            \/ \E q \in All(r.b, "Remove") : q.target = p.target /\ Precedes(r.b, p, q)})

RemovedPositions(b) == {p.target : p \in All(b, "Remove")}

\* The updates whose old leaf could be taken out of the tree (partial_updates).
PartialUpdates(tree, b) ==
    SelectSeq(b, LAMBDA p :
        /\ p.type = "Update"
        /\ Occupied(tree, p.sender.index)
        /\ ~\E q \in All(b, "Update") : q.sender = p.sender /\ Precedes(b, q, p))

ApplyUpdateNoRestore(a, old, clone, e, p) ==           \* faulty variant: the old leaf is lost
    IF Accepts(e, p.sender.index, p.leaf)
    THEN [PutLeaf(e, p.sender.index, p.leaf) EXCEPT !.done = @ \cup {p.sender.index}]
    ELSE [e EXCEPT !.ok = @ /\ a.strategy # "IgnoreNone", !.bad = @ \cup {p}]

\* One round of the loop over them.  e.done are the leaves updated so far,
\* e.bad the updates that were put back; old is the tree before the old leaves
\* were taken out, and clone the index after it.
ApplyUpdate(a, old, clone, e, p) ==
    LET i == p.sender.index
    IN  IF e.stop THEN e
        ELSE IF Accepts(e, i, p.leaf)
        THEN [PutLeaf(e, i, p.leaf) EXCEPT !.done = @ \cup {i}]
        ELSE IF a.strategy = "IgnoreNone"
        THEN [e EXCEPT !.ok = FALSE, !.stop = TRUE]
        ELSE IF Accepts(e, i, old[i])
        THEN [PutLeaf(e, i, old[i]) EXCEPT !.bad = @ \cup {p}]
        ELSE [e EXCEPT !.tree = [x \in DOMAIN e.tree |->
                                    IF x \in e.done THEN old[x] ELSE e.tree[x]],
                       !.index = clone, !.done = {}, !.stop = TRUE]

UpdateEdit(a, old, partial, taken) ==
    FoldLeft(LAMBDA e, p : ApplyUpdate(a, old, taken.index, e, p), taken, partial)

DropBadUpdatesKeeps(e) ==                \* faulty variant: bad ones are not dropped
    [e EXCEPT !.b = IF e.done = {} THEN SelectSeq(@, LAMBDA p : p.type # "Update") ELSE @]

\* "Remove rejected updates from applied proposals"
DropBadUpdates(e) ==
    [e EXCEPT !.b = SelectSeq(@, LAMBDA p :
        p.type = "Update" => e.done # {} /\ p \notin e.bad)]

\* An update that found no old leaf fails only when nothing may be dropped.
UpdateLeaves(a, e, partial) ==
    [DropBadUpdates(UpdateEdit(a, e.tree, partial,
        TakeLeaves(e, {partial[i].sender.index : i \in DOMAIN partial})))
     EXCEPT !.ok = @ /\ \A p \in All(e.b, "Update") \ ToSet(partial) : Ignore(a, p)]

\* add_leaf for one add proposal.
AddLeaf(a, e, p) ==
    LET i == NextEmptyLeaf(e.tree)
    IN  IF Accepts(e, i, p.leaf)
        THEN [PutLeaf(e, i, p.leaf) EXCEPT !.added = Append(@, i)]
        ELSE [e EXCEPT !.ok = @ /\ Ignore(a, p),
                       !.b = SelectSeq(@, LAMBDA q : q # p)]

AddLeaves(a, e) == FoldLeft(LAMBDA x, p : AddLeaf(a, x, p), e, OfType(e.b, "Add"))

EditOf(a, r) ==
    [ok |-> r.ok, b |-> r.b, tree |-> a.tree, index |-> a.index, indexed |-> a.indexed,
     done |-> {}, bad |-> {}, stop |-> FALSE, added |-> <<>>]

EditRemoved(a, e) == AddLeaves(a, UpdateLeaves(a, e, PartialUpdates(e.tree, e.b)))

\* batch_edit as a whole, on a bundle r that passed the checks so far.
BatchEdit(a, r) ==
    LET kept == RemoveLeaves(a, r)
    IN  [EditRemoved(a, TakeLeaves(EditOf(a, kept), RemovedPositions(kept.b)))
         EXCEPT !.tree = Trim(@)]

-----------------------------------------------------------------------------
(* ProposalApplier.  The output is the edit: the applied proposals b, the  *)
(* new tree and index, the positions of the added leaves.                  *)

\* apply_tree_changes
ApplyTreeChanges(a, ext, r) == BatchEdit(a, ValidateNewNodes(a, ext, r))

\* What new extensions demand is checked against every leaf of the new tree.
ExtensionsSupported(ext, tree) ==
    \A x \in Leaves(tree) : RequiredSupported(ext, x) /\ SendersSupported(ext, x)

WithoutExtensions(r) ==
    [r EXCEPT !.b = SelectSeq(@, LAMBDA p : p.type # "GroupContextExtensions")]

CheckNewCapabilitiesAlways(a, r, out) ==               \* faulty variant
    LET gce == OfType(r.b, "GroupContextExtensions")
    IN  IF gce = <<>> THEN out
        ELSE IF Ignore(a, gce[1])
        THEN ApplyTreeChanges(a, a.ext, WithoutExtensions(r))
        ELSE [out EXCEPT !.ok = @ /\ ExtensionsSupported(gce[1].ext, out.tree)]

\* apply_proposals_with_new_capabilities, out being the first attempt.
CheckNewCapabilities(a, r, out) ==
    LET gce == OfType(r.b, "GroupContextExtensions")
    IN  IF gce = <<>> \/ ~out.ok \/ ExtensionsSupported(gce[1].ext, out.tree) THEN out
        ELSE IF Ignore(a, gce[1])
        THEN ApplyTreeChanges(a, a.ext, WithoutExtensions(r))
        ELSE [out EXCEPT !.ok = FALSE]

\* The extensions of a bundle's GroupContextExtensions proposal, if it has one.
NewExtensions(ext, b) ==
    IF OfType(b, "GroupContextExtensions") = <<>> THEN ext
    ELSE OfType(b, "GroupContextExtensions")[1].ext

\* apply_proposal_changes
ApplyProposalChanges(a, r) ==
    CheckNewCapabilities(a, r, ApplyTreeChanges(a, NewExtensions(a.ext, r.b), r))

\* apply_proposals_from_member, the checks in the order of the code.
ApplyProposalsFromMember(a, committer, b) ==
    ApplyProposalChanges(a,
      FilterExternalInit(a,
        FilterReinitIfOtherProposals(a,
          FilterInvalidReinit(a,
            FilterExtraGroupContextExtensions(a,
              FilterInvalidGroupExtensions(a,
                FilterInvalidPsks(a,
                  FilterRemovalOfCommitter(a, committer,
                    FilterUpdateForCommitter(a, committer,
                      FilterInvalidProposers(a, Good(b)))))))))))

\* The ensure_ checks of an external commit (filtering_common.rs).
ExternalCommitAllowed(tree, leaf, b) ==
    /\ Len(OfType(b, "ExternalInit")) = 1
    /\ Len(OfType(b, "Remove")) <= 1
    /\ \A p \in All(b, "Remove") : Occupied(tree, p.target) /\ tree[p.target].id = leaf.id
    /\ \A p \in ToSet(b) : /\ p.type \in {"ExternalInit", "Remove", "Psk", "Custom"}
                           /\ p.type # "Custom" => ~p.byRef

\* insert_external_leaf, after the proposals were applied.
InsertExternalLeaf(out, leaf) ==
    LET i == NextEmptyLeaf(out.tree)
    IN  IF out.ok /\ Accepts(out, i, leaf) THEN PutLeaf(out, i, leaf)
        ELSE [out EXCEPT !.ok = FALSE]

\* apply_proposals_from_new_member: never drops anything.
ApplyProposalsFromNewMember(a, leaf, b) ==
    LET strict == [a EXCEPT !.strategy = "IgnoreNone"]
    IN  InsertExternalLeaf(
          ApplyProposalChanges(strict,
            FilterInvalidPsks(strict,
              FilterInvalidProposers(strict,
                [ok |-> ExternalCommitAllowed(a.tree, leaf, b), b |-> b]))),
          leaf)

\* filter_out_unsupported_custom_proposals, which looks at the new tree.
FilterUnsupportedCustom(a, out) ==
    [out EXCEPT
        !.ok = @ /\ \A p \in All(out.b, "Custom") : CanSupportCustom(out) \/ Ignore(a, p),
        !.b = SelectSeq(@, LAMBDA p : p.type = "Custom" => CanSupportCustom(out))]

\* apply_proposals with the end of apply_resolved.  A commit is a record with
\* the sender, the leaf an external sender brings, and the proposals.
Output(a, out) == [ok |-> out.ok, b |-> out.b, tree |-> out.tree,
                   index |-> IF a.indexed THEN out.index ELSE EmptyIndex,
                   added |-> out.added, ext |-> NewExtensions(a.ext, out.b)]

ApplyResolved(a, commit) ==
    Output(a, FilterUnsupportedCustom(a,
        IF commit.sender.kind = "Member"
        THEN ApplyProposalsFromMember(a, commit.sender.index, commit.b)
        ELSE ApplyProposalsFromNewMember(a, commit.leaf, commit.b)))

\* apply_resolved refuses a sender whose leaf is not in the roster.
SenderInRoster(tree, sender) == sender.kind = "Member" => Occupied(tree, sender.index)
=============================================================================
