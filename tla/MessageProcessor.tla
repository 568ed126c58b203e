-------------------------- MODULE MessageProcessor --------------------------
(***************************************************************************)
(* The trait MessageProcessor (mls-rs/src/group/message_processor.rs): how *)
(* a message that was sent to a group is checked, authenticated            *)
(* (message_verifier.rs) and applied to a GroupState (state.rs).  Members  *)
(* (Group) and observers (ExternalGroup) share this code and differ in     *)
(* what they are given: a processor is a record with                       *)
(*   keyed  - it has the key schedule, so membership tags are checked      *)
(*   self   - the position of its own leaf, 0 for an observer              *)
(*   cache  - the argument cache_proposal                                  *)
(*   jitter - <<max_epoch_jitter>>, or <<>> if there is none               *)
(*                                                                         *)
(* A signature or a tag is the name of who made it; a hash is the tuple of *)
(* what it was computed from.  Proposals, leaves and trees are those of    *)
(* ProposalFilter; a proposal that was sent has the reference ref.  The    *)
(* builds are those with by_ref_proposal and tree_index.                   *)
(***************************************************************************)
EXTENDS ProposalFilter

CONSTANT U64              \* 2^64: epochs are computed modulo this

Member(i) == [kind |-> "Member", index |-> i]

NewMemberCommit == [kind |-> "NewMemberCommit", index |-> 0]

-----------------------------------------------------------------------------
(* GroupState, and the transcript hashes of transcript_hash.rs.            *)

InterimTranscriptHash(confirmed, tag) == <<confirmed, tag>>

ConfirmedTranscriptHash(interim, m) == <<interim, m.wire, m.id>>

\* GroupState::new with the context of a GroupInfo or of a Welcome.
NewGroupState(info) ==
    [epoch |-> info.epoch, ext |-> info.ext, confirmed |-> info.confirmed,
     tree |-> info.tree, index |-> IndexOf(info.tree), tag |-> info.tag,
     interim |-> InterimTranscriptHash(info.confirmed, info.tag),
     cache |-> {}, reinit |-> FALSE]

-----------------------------------------------------------------------------
(* Which messages are considered at all, and who sent them.                *)

\* ExternalGroup::min_epoch_available; a member has no minimum.  The
\* difference is that of a release build, a debug build stops instead.
MinEpochAvailable(me, s) == (s.epoch - me.jitter[1]) % U64

\* check_metadata, for one group and one version.
CheckMetadata(me, s, m) ==
    /\ m.type \in {"Commit", "Proposal"} => m.epoch = s.epoch
    /\ m.type = "Application" =>
          /\ me.jitter # <<>> => m.epoch >= MinEpochAvailable(me, s)
          /\ m.wire = "Private"

\* signing_identity_for_sender: the identity whose key must have signed m, or
\* none.
SigningIdentityForSender(s, m) ==
    CASE m.sender.kind = "Member" ->
            {s.tree[i].id : i \in {m.sender.index} \cap OccupiedPositions(s.tree)}
      [] m.sender.kind = "External" ->
            {s.ext.senders[i].id : i \in {m.sender.index} \cap DOMAIN s.ext.senders}
      [] m.sender.kind = "NewMemberCommit" ->
            IF m.type = "Commit" /\ m.path THEN {m.leaf.id} ELSE {}
      [] m.sender.kind = "NewMemberProposal" ->
            IF m.type = "Proposal" /\ m.proposal.type = "Add" THEN {m.proposal.leaf.id} ELSE {}

VerifyKeyedOnly(me, s, m) ==             \* faulty variant: only with the key schedule
    /\ IF m.sender.kind = "Member"
       THEN (me.keyed => m.member) /\ m.sender.index # me.self
       ELSE ~m.member /\ me.keyed
    /\ m.signer \in SigningIdentityForSender(s, m)

\* verify_plaintext_authentication
VerifyPlaintextAuthentication(me, s, m) ==
    /\ IF m.sender.kind = "Member"
       THEN (me.keyed => m.member) /\ m.sender.index # me.self
       ELSE ~m.member
    /\ m.signer \in SigningIdentityForSender(s, m)

-----------------------------------------------------------------------------
(* Proposals                                                               *)

NoUpdate == [removed |-> {}, updated |-> {}, added |-> {}]

\* ProposalCache::insert; equal references mean equal proposals.
Insert(s, p) == [s EXCEPT !.cache = @ \cup {p}]

\* process_proposal
ProcessProposal(me, s, m) ==
    [ok |-> TRUE, s |-> IF me.cache THEN Insert(s, m.proposal) ELSE s, update |-> NoUpdate]

-----------------------------------------------------------------------------
(* Commits                                                                 *)

\* ProposalCache::resolve_for_commit: an entry of the list is <<"ref", r>> or
\* <<"value", p>>; a reference that is not cached is ProposalNotFound.
Resolvable(s, list) ==
    \A i \in DOMAIN list : list[i][1] = "ref" => \E p \in s.cache : p.ref = list[i][2]

ResolveForCommit(s, list) ==
    [i \in DOMAIN list |->
        IF list[i][1] = "value" THEN list[i][2] ELSE CHOOSE p \in s.cache : p.ref = list[i][2]]

PathUpdateRequired(b) ==
    b = <<>> \/ \E i \in DOMAIN b :
        b[i].type \in {"ExternalInit", "Update", "GroupContextExtensions", "Remove"}

\* commit_sender; the leaf of an external commit is in the provisional tree.
CommitSender(m, out) ==
    IF m.sender.kind = "Member" THEN m.sender.index
    ELSE CHOOSE i \in DOMAIN out.tree : out.tree[i] = m.leaf

\* validate_update_path: the leaf fits the new context and succeeds the old one.
ValidateUpdatePath(m, out, i) ==
    /\ RequiredSupported(out.ext, m.leaf) /\ SendersSupported(out.ext, m.leaf)
    /\ m.sender.kind = "Member" =>
          m.leaf.id = out.tree[i].id /\ m.leaf.key # out.tree[i].key

\* apply_update_path, of which the leaf shows here; the index may refuse it.
ApplyUpdatePath(m, out, i) ==
    LET index == IndexRemove(out.index, out.tree[i])
    IN  IF ~m.path THEN out
        ELSE [out EXCEPT !.ok = IndexAccepts(index, m.leaf), !.tree[i] = m.leaf,
                         !.index = IndexInsert(index, m.leaf)]

StateUpdateWithoutPath(s, m, out, i) ==  \* faulty variant: the committer's leaf is left out
    LET adds == OfType(out.b, "Add")
    IN  [removed |-> {p.target : p \in All(out.b, "Remove")},
         updated |-> {<<p.sender.index, p.leaf>> : p \in All(out.b, "Update")},
         added   |-> {<<out.added[j], adds[j].leaf>> : j \in DOMAIN adds}]

\* make_state_update: what the application is told of the roster, as positions
\* and their new leaves.
StateUpdate(s, m, out, i) ==
    LET adds    == OfType(out.b, "Add")
        joins   == m.path /\ All(out.b, "ExternalInit") # {}
        rekeys  == m.path /\ ~joins
    IN  [removed |-> {p.target : p \in All(out.b, "Remove")},
         updated |-> {<<p.sender.index, out.tree[p.sender.index]>> : p \in All(out.b, "Update")}
                        \cup (IF rekeys THEN {<<i, m.leaf>>} ELSE {}),
         added   |-> {<<out.added[j], adds[j].leaf>> : j \in DOMAIN adds}
                        \cup (IF joins THEN {<<i, m.leaf>>} ELSE {})]

Refused(s) == [ok |-> FALSE, s |-> s, update |-> NoUpdate]

KeyScheduleTwice(s, m, new) ==                   \* faulty variant: the epoch counts twice
    [epoch |-> s.epoch + 2, ext |-> new.ext,
     confirmed |-> ConfirmedTranscriptHash(s.interim, m),
     interim |-> InterimTranscriptHash(ConfirmedTranscriptHash(s.interim, m), m.tag),
     tree |-> new.tree, index |-> new.index, tag |-> m.tag, cache |-> {},
     reinit |-> OfType(new.b, "ReInit") # <<>>]

KeyScheduleOldTag(s, m, new) ==          \* faulty variant: interim hash over the old tag
    [epoch |-> s.epoch + 1, ext |-> new.ext,
     confirmed |-> ConfirmedTranscriptHash(s.interim, m),
     interim |-> InterimTranscriptHash(ConfirmedTranscriptHash(s.interim, m), s.tag),
     tree |-> new.tree, index |-> new.index, tag |-> m.tag, cache |-> {},
     reinit |-> OfType(new.b, "ReInit") # <<>>]

\* The end of process_commit, and update_key_schedule as far as it is public.
UpdateKeySchedule(s, m, new) ==
    [epoch |-> s.epoch + 1, ext |-> new.ext,
     confirmed |-> ConfirmedTranscriptHash(s.interim, m),
     interim |-> InterimTranscriptHash(ConfirmedTranscriptHash(s.interim, m), m.tag),
     tree |-> new.tree, index |-> new.index, tag |-> m.tag, cache |-> {},
     reinit |-> OfType(new.b, "ReInit") # <<>>]

\* can_continue_processing: an observer always can.
CanContinueProcessing(me, out) == \A p \in All(out.b, "Remove") : p.target # me.self

\* What follows once the proposals were applied; i is the committer's leaf.
Provisional(me, s, m, out, i) ==
    IF PathUpdateRequired(out.b) /\ ~m.path THEN Refused(s)
    ELSE IF ~CanContinueProcessing(me, out)
    THEN [ok |-> TRUE, s |-> s, update |-> StateUpdate(s, m, out, i)]
    ELSE IF m.path /\ ~ValidateUpdatePath(m, out, i) THEN Refused(s)
    ELSE LET new == ApplyUpdatePath(m, out, i)
         IN  IF ~new.ok THEN Refused(s)
             ELSE [ok |-> TRUE, s |-> UpdateKeySchedule(s, m, new), update |-> StateUpdate(s, m, out, i)]

Applied(me, s, m, out) ==
    IF ~out.ok THEN Refused(s) ELSE Provisional(me, s, m, out, CommitSender(m, out))

\* ProposalApplier::new
Applier(s, strategy) ==
    [tree |-> s.tree, index |-> s.index, indexed |-> TRUE, ext |-> s.ext,
     strategy |-> strategy, time |-> NoTime]

\* process_commit; its outcome, as a set with one element.
ProcessCommit(me, s, m) ==
    IF s.reinit \/ ~Resolvable(s, m.list) \/ ~SenderInRoster(s.tree, m.sender) THEN {Refused(s)}
    ELSE {Applied(me, s, m, out) : out \in
            {ApplyResolved(Applier(s, "IgnoreNone"),
                [sender |-> m.sender, leaf |-> m.leaf, b |-> ResolveForCommit(s, m.list)])}}

-----------------------------------------------------------------------------
Unchanged(s) == [ok |-> TRUE, s |-> s, update |-> NoUpdate]

\* process_incoming_message.  An observer leaves encrypted messages alone
\* (process_ciphertext); a member decrypts them, which SecretTree is about.
ProcessIncomingMessage(me, s, m) ==
    CASE ~CheckMetadata(me, s, m) -> {Refused(s)}
      [] m.wire = "Private" /\ ~me.keyed -> {Unchanged(s)}
      [] m.type = "Application" -> {Unchanged(s)}
      [] ~VerifyPlaintextAuthentication(me, s, m) -> {Refused(s)}
      [] m.type = "Proposal" -> {ProcessProposal(me, s, m)}
      [] OTHER -> ProcessCommit(me, s, m)
=============================================================================
