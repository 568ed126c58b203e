--------------------------- MODULE FilteringLite ---------------------------
(***************************************************************************)
(* The builds without the feature by_ref_proposal: ProposalApplier in      *)
(* proposal_filter/filtering_lite.rs and batch_edit_lite in                *)
(* tree_kem/mod.rs.  They know neither cached proposals nor updates, never *)
(* drop anything, and are smaller versions of the same checks.             *)
(***************************************************************************)
EXTENDS ProposalFilter

\* filter_out_invalid_psks as compiled here: the first bad one is an error.
PsksValid(b) ==
    LET psks == OfType(b, "Psk")
    IN  \A i \in DOMAIN psks : psks[i].valid /\ \A j \in 1 .. i - 1 : psks[j].psk # psks[i].psk

\* The checks of apply_proposals_from_member that do not look at the tree.
BundleValid(committer, b) ==
    /\ \A p \in All(b, "Remove") : p.target # committer
    /\ PsksValid(b)
    /\ Len(OfType(b, "GroupContextExtensions")) < 2
    /\ OfType(b, "ReInit") # <<>> => OfType(b, "ReInit")[1].valid /\ Len(b) = 1

\* validate_new_nodes; the credentials of external senders are not looked at.
NewNodesValid(a, ext, b) ==
    \A p \in All(b, "Add") : CheckContext(a, p) /\ p.valid /\ RequiredSupported(ext, p.leaf)

\* The loop over the removes: a leaf that is blank already is an error.
RemoveLite(e, p) ==
    IF Occupied(e.tree, p.target) THEN TakeLeaves(e, {p.target}) ELSE [e EXCEPT !.ok = FALSE]

AddLite(e, p) ==
    LET i == NextEmptyLeaf(e.tree)
    IN  IF Accepts(e, i, p.leaf) THEN [PutLeaf(e, i, p.leaf) EXCEPT !.added = Append(@, i)]
        ELSE [e EXCEPT !.ok = FALSE]

BatchEditLite(a, r) ==
    LET removed == FoldLeft(RemoveLite, EditOf(a, r), OfType(r.b, "Remove"))
    IN  [FoldLeft(AddLite, removed, OfType(r.b, "Add")) EXCEPT !.tree = Trim(@)]

\* apply_tree_changes
ApplyTreeChangesLite(a, ext, r) ==
    BatchEditLite(a, [r EXCEPT !.ok = @ /\ NewNodesValid(a, ext, r.b)])

\* apply_proposal_changes with apply_proposals_with_new_capabilities.
ApplyProposalChangesLite(a, r) ==
    LET ext == NewExtensions(a.ext, r.b)
        out == ApplyTreeChangesLite(a, ext, r)
    IN  [out EXCEPT !.ok = @ /\ (OfType(r.b, "GroupContextExtensions") # <<>> =>
                                    \A x \in Leaves(out.tree) : RequiredSupported(ext, x))]

ApplyFromNewMemberLite(a, leaf, b) ==
    InsertExternalLeaf(
        ApplyProposalChangesLite(a, [ok |-> ExternalCommitAllowed(a.tree, leaf, b) /\ PsksValid(b),
                                     b |-> b]),
        leaf)

\* apply_proposals, with filter_out_unsupported_custom_proposals at its end.
ApplyResolvedLite(a, commit) ==
    LET out == IF commit.sender.kind = "Member"
               THEN ApplyProposalChangesLite(a, [ok |-> BundleValid(commit.sender.index, commit.b),
                                                 b |-> commit.b])
               ELSE ApplyFromNewMemberLite(a, commit.leaf, commit.b)
    IN  Output(a, [out EXCEPT !.ok = @ /\ (All(out.b, "Custom") # {} => CanSupportCustom(out))])
=============================================================================
