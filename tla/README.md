# A verification of mls-rs

TLA+ models of the state machines of `mls-rs`, the implementation of the Messaging
Layer Security protocol (RFC 9420) in this repository, with TLC runs and TLAPS
proofs. Paths below are relative to `src/`; unless another crate is named they are
inside `mls-rs/src/`.

## 1. The system

A client holds a `Group` for every MLS group it belongs to. A group moves through
epochs. Members send *proposals*, one of them collects proposals in a *commit*, and
everybody who processes the commit moves to the next epoch. A commit may renew the
committer's keys on its path of the ratchet tree (TreeKEM), which gives all members a
fresh commit secret. The secrets of an epoch feed a *secret tree*, from which every
message gets a key of its own. Clients join with a Welcome made by a committer or with
an external commit of their own. The state of a group, and of the prior epochs it can
still decrypt messages of, is written to a storage provider when the application calls
`write_to_storage`.

| part | source | state | operations |
|---|---|---|---|
| secret tree, message protection | `group/secret_tree.rs`, `group/ciphertext_processor.rs`, `tree_kem/math.rs` | known node secrets, two ratchets per leaf, skipped keys | next key, key of a generation, encode, decode; seal, open |
| prior epochs | `group/state_repo.rs` | inserts, updates, key package to delete | insert, find for decryption, resumption secret, write |
| group state storage | `storage_provider/in_memory/group_state_storage.rs`, `mls-rs-provider-sqlite/src/group_state.rs` | snapshot, stored epochs | read, write with retention, delete |
| proposals | `group/proposal_cache.rs`, `group/proposal_filter/*`, `tree_kem/tree_index.rs` | cache, tree, index of identities and keys | insert, prepare, filter and apply, resolve |
| ratchet tree, TreeKEM | `tree_kem/*` | node vector, cached hashes, private keys | batch edit, encap, decap, update path, hashes, validation |
| group life cycle | `group/mod.rs`, `group/commit.rs`, `group/message_processor.rs`, `group/snapshot.rs`, `group/external_commit.rs` | context, cache, private tree, signer, pending updates and commit, pending reinit | propose, commit, apply, clear, process, store, load, join |
| key schedule, PSKs | `group/key_schedule.rs`, `psk/*` | epoch secrets | derive, resolve PSKs |
| framing, verification | `group/message_verifier.rs`, `group/framing.rs`, ... | none | sign, verify, tag |
| client, key packages | `client.rs`, `key_package/*`, key package storages | stored key packages | generate, find for a Welcome, delete |
| resumption | `group/resumption.rs` | none beside two groups | branch, reinit |
| external observer | `external_client/*` | public group state | process, propose |
| codec | `mls-rs-codec` | none | encode, decode |
| HPKE | `mls-rs-crypto-hpke` | sequence number of a context | set up, seal, open, export |
| crypto, identity, bindings, tools | the other crates | none of their own | |

What is hard to test here: restarts between any two operations (nothing is durable
until `write_to_storage`); messages that are lost, repeated or reordered; members that
commit at the same time; a step that fails half way through a commit and is tried
again; proposals applied in the order of a hash map; caches beside the data they are
made from (tree hashes, the identity index, private keys by position, prior epochs in
three places); 32-bit counters; trees that grow, shrink and have blanks.
`PROJECT.json` lists these hazards at their lines, each with the properties aimed at it.

## 2. Modules

| module | models |
|---|---|
| `TreeMath` | index arithmetic of the array tree (`tree_kem/math.rs`) |
| `SecretTree` | `SecretTree`, `SecretKeyRatchet` |
| `MessageProtection` | several members that seal and open messages within an epoch, with an unreliable network, `write_to_storage` and restarts |
| `MessageProtectionProofs` | theorems about `MessageProtection`, section 5 |
| `PriorEpochs` | abstract specification: one map of usable prior epochs |
| `GroupStateRepository` | `GroupStateRepository` and the use `Group` makes of it, over any storage |
| `InMemoryGroupStateStorage`, `SqLiteGroupStateStorage` | the two storage providers |
| `TreeIndex` | the leaves, and `TreeIndex` of `tree_kem/tree_index.rs` with its counters |
| `ProposalFilter` | every check of `ProposalApplier` and `LeafNodeValidator`, the cache, and `batch_edit` |
| `FilteringLite` | the same in builds without `by_ref_proposal` |
| `CommitRound` | a committer that filters and receivers of any build that accept or refuse |
| `RatchetTree` | `NodeVec`, `TreeKemPublic`, tree and parent hashes, `TreeValidator` |
| `TreeKEM` | `encap`, `decap`, `TreeKemPrivate`, Welcome and external joins |
| `Group` | the life of a group at its members, with a delivery service |
| `MessageProcessor` | the trait of that name and `message_verifier.rs`: the checks on an incoming message and its effect on a `GroupState` |
| `ExternalGroup` | `ExternalGroup` observing a group, composed with the members through `MessageProcessor` |
| `KeySchedule` | the derivations of `key_schedule.rs` and `psk/secret.rs` |
| `Clients` | clients with key packages, PSKs and storages that create, join, branch and reinitialize groups |
| `Codec` | variable-length integers and the framing of collections, with theorems |
| `Hpke`, `HpkeProofs` | setup, key schedule and contexts of `mls-rs-crypto-hpke`, and theorems about them |

The `MC...` modules define instances for TLC.

### Correspondence with the code

**SecretTree, MessageProtection.** `tree[m]` is the map of known secrets of a member's
epoch. Cryptography is symbolic: a message key is named by leaf, key type and ratchet
step. A generation is a number modulo `U32` and wraps; the ratchet step does not, as
the secret in the code does not. Encoding a tree keeps the skipped keys as a plain
list, decoding rebuilds the map, as the code does. `Seal` and `Open` are
`CiphertextProcessor::seal` and `open` with the secret tree operations they call,
including the ratchets of a leaf being taken out of the tree and put back only on
success. `Write`, `Send` and `Reload` are the application, which sends a message only
after it stored the state that produced it. This is the contract of `write_to_storage`;
without it a restart reuses keys whatever the library does.

**GroupStateRepository.** `inserts`, `updates` and `removal` are the fields of
`EpochStorageCommit` and the pending key package. Every lookup looks in the same three
places in the same order as the code, by position where the code does so. Storage is
given by operator constants, one set per provider. A write may fail where the
provider's constraints make it fail, and the deletion of the key package may fail.
`PriorEpochs` says what this must look like from outside; the refinement mapping reads
the map with `FindEpoch` and the stored map with the provider's lookup.

**TreeIndex, ProposalFilter, FilteringLite, CommitRound.** The checks are applied in the
order of `filtering.rs`, `filtering_lite.rs` and `filtering_common.rs`, with the strategy
`IgnoreByRef` for a committer and `IgnoreNone` for a receiver. What depends on a proposal
alone (signatures, nonces, whether a PSK is stored) is its field `valid`. A leaf has an
identity, a key, a credential type, the types that it supports, and whether it has one
optional capability that the group's extensions may require; a new leaf also has its
source and, from a key package, the end of its lifetime. `index` is kept beside the tree
with the counters of the code; a build without `tree_index` compares the leaves instead.
`CommitByMember(build, time, i)` chooses every order of the cache, and `Received` compares
the receivers of all four builds, now and without a time, as
`process_incoming_message` has none. A user's `MlsRules::filter_proposals` is the identity,
which is its default. A committer has a clock: the `no_std` build, which then checks no
lifetimes, makes no commits in the model.

**RatchetTree, TreeKEM.** `nodes` is the vector of optional nodes, `hashes` the vector
`tree_hashes.current`. A hash is the tuple of what is hashed, so equal hashes mean
equal inputs. A key `<<commit, kind, number>>` stands for both halves of a pair and a
path secret derives the next number. One step of `TreeKEM` is a commit with everything
that follows from it: the edit, `encap`, `validate_update_path`, `apply_update_path`
and `decap` at every member that stays, and tree validation and `update_secrets` at
every client that joins. `knows` is a history variable: all secrets that a client ever
generated, or could decrypt from the ciphertexts of all commits. Paths in a commit are
those that `encap` produced, so the error `WrongPathLen` does not occur; leaf
validation is in `ProposalFilter`. The HPKE context is the group context with the tree
hash; that both sides use the same one is `ExportedTreeAgrees` with
`CachedHashesCurrent`.

**Group.** A `group[c]` record has the fields of `Group` that outlive a call. An epoch
is named by the commit that began it. The delivery service, which is not part of this
repository, is a log that takes the first commit of each epoch. The application stores
a group before it sends what the group produced, and keeps its position in the log
with it. `ProcessNextCommit(c, stored)` is `process_incoming_message` on a commit; with
`stored` FALSE the storage query in `state_repo.insert` fails, after the private tree
and the signer have been replaced, and the commit is tried again later.
`ClearProposalCache(c)` is `clear_proposal_cache`, which an application in `mayClear` may
call at any time; the pending commit and the pending updates stay.

**MessageProcessor, ExternalGroup.** Members and observers run the same code and differ in
what they are given: whether they have the key schedule, their own leaf, whether they
cache. The log of the delivery service has proposals and commits, public or encrypted as
the group's rules say. The observer begins from the `GroupInfo` of any epoch, so that it
may lack the proposals sent before; its application can clear the cache, insert proposals,
save a snapshot and return to it. Its proposals are signed with the identity that is found
among the group's external senders at that moment. Members are at the end of the log;
how they get there is the subject of `Group`.

**KeySchedule, Clients.** A secret is the tuple of what it was derived from, so two
clients with the same secret computed it from the same inputs. Three group ids stand for a
group, its branch and its successor. A Welcome has the references of its key packages in
the order of the additions, the joiner secret, and the PSK ids; `FromWelcome` looks for
the first key package that is stored, resolves the PSKs, and compares the confirmation
tag. `WriteGroup` and `FinishWrite` are the two halves of `write_to_storage`, the group
and then the key package, between which the process may end. `truth` is a history
variable: the state that the committer of each epoch computed.

**Codec.** A reader is a sequence of bytes; `Decodable` and `DecodeVarInt` are the two
outcomes of `mls_decode`. The definitions are arithmetic on bytes in place of shifts.

**Hpke.** Sender and receiver are set up with arguments of their own, so these may differ,
and each counts its messages. `Seal` and `Open` are `EncryptionContext::seal` and `open`
where they succeed; where they fail, also at the end of the sequence numbers, the context
stays as it is and nothing is returned. A nonce is the pair of base nonce and number in
place of their exclusive or.

## 3. Runs

| run | question | instance |
|---|---|---|
| `messages` | Are keys used once, and do messages open in any order, over restarts and the end of the generation counter? | 4 leaves, 2 members, 3 messages, history 1, a counter of 3 values |
| `repo` | Do inserts, updates and storage look like one map (`KeepsPriorEpochs`), over reloads, failures and deletion, with either provider? | retention 2, up to 5 epochs, 1 message per epoch |
| `repo_retry` | violation, see section 4 | |
| `commit` | Does every receiver, whatever its build, accept what a committer's filter leaves, with the same tree and index? | 4 scenarios, each with up to 3 cached proposals of 9 to 13, and proposals by value |
| `commit_update_of_removed` | violation | |
| `treekem` | Do all members derive the commit secret, do joiners accept the tree, and does nobody else learn a key? | 4 scenarios of 3 commits, trees of up to 8 leaves |
| `treekem_parents` | violation | |
| `group` | Can a member always process the next commit, and does it come to the end of the log, over races, restarts, failing storage, joins and reinitialization? | 4 setups: 2 members with 3 messages or 3 clients with 2, 1 restart, cleared caches |
| `group_pending_external` | violation | |
| `observer` | Does an observer reach the members' state, and is it never stuck? | 5 setups, 2 members that may become 3, 3 or 4 messages, 1 restart or cleared cache |
| `observer_jitter` | violation | |
| `clients` | Has everybody in an epoch the same secrets, and does everybody who was invited become a member? | 6 setups, 2 or 3 clients, up to 3 commits, 1 restart |

Each property of a passing run has a mutant in `PROJECT.json`: a change of one mapped
definition, written out next to it as a *faulty variant*, with which TLC finds the
property violated.

### Bounds

Where one question needs several instances, they are the elements of a constant `Setups`
or `Scenarios`, one of which `Init` chooses.

* `messages`: with 4 leaves a path has two parents, so a secret on the path may be
  known from an earlier expansion. 3 messages and a history of 1 give skipped keys, keys
  beyond the limit, and repeated ones; a counter of 3 values wraps. After a wrap messages
  may be lost, and the properties say only what should hold there too. `MaxSteps` bounds
  how far a ratchet is followed.
* `repo`: more epochs than `Retention` are needed for trimming, and two writes in
  between for an update of an epoch that is trimmed. The in-memory provider has no failing
  deletion, because of the finding `repo_retry`.
* `commit`: two proposals interact in pairs (add and add, update and remove, extensions
  and add). A third one shows what dropping the second does to it. `EditsIndependent`
  names the premise under which three of the properties hold; section 4 says why. All
  four builds commit in the scenario with credential types, at two times, and receive in
  all scenarios.
* `treekem`: `Small` lets every leaf commit while a tree of 3 grows to 4 leaves, empties
  on its left and admits outsiders. `Doubling` blanks the root of 8 leaves. `Deep` has
  leaves unmerged at inner nodes. `Growing` doubles a tree above an unmerged leaf.
* `group`: two members suffice for a race. A third matters only as one who joins. As the
  founders are alike, it is enough to let the process of one of them end. With
  3 clients, 3 messages and 1 restart together the instance has more than 3.7 million
  states; 15 minutes of it showed no violation. A member that clears its cache is in a
  setup of its own with 2 messages, a proposal and the commit that names it; with 3
  messages the four setups have 822473 states, without a violation.
* `observer`: a commit by reference needs a proposal before it, and an observer that
  missed one needs to begin in between; 4 messages are two such commits. `U64 = 16` keeps
  the width of epochs as a number that wraps.
* `clients`: with `Retention = 2`, three commits bring a resumption secret to the current
  epoch, the inserts, the storage and out of it. A branch or a reinitialization takes two
  commits, and one more for a member that is an epoch ahead.

Runs without deadlock checking model a bounded number of messages, commits or rounds,
after which nothing is left to do. The runs `messages` and `repo` always have a step.

### Fairness

`CatchesUp` is checked under weak fairness of `KeepUp(c)` for each client: processing the
next commit with a storage that works, processing the next proposal, clearing a pending
commit that lost, writing, or sending. No single one of these is owed, only that the
application goes on for as long as one is possible. They are calls of the application; the
library has no threads or timers and every call returns, so nothing else is assumed. In
particular neither a proposal nor a commit has to be made, and a restart may happen at any
moment within its bound.

`WelcomeLeadsToMember` is checked under weak fairness of the `KeepUp(c)` of `Clients`: the
application installs the PSK, takes the Welcomes it was sent, and writes the group it has
joined. Again these are the calls that the documentation asks for. The property is stated
as `[]<>` of "nobody invited is left over", since a restart takes back what was not written.

## 4. Findings

`PROJECT.json` quotes the lines. Each is a run that TLC refutes.

* `repo_retry`: when `write_to_storage` cannot delete the key package, the inserts stay
  in the repository although they were stored. A retry appends them to the in-memory
  storage again, where positions are computed from ids. (SQLite refuses the retry by its
  primary key.)
* `commit_update_of_removed`: an update of a member that the same commit removes stays
  among the applied proposals if another update succeeds; every receiver refuses the
  commit.
* `group_pending_external`: with a commit pending, an external commit cannot be
  processed until the application clears the pending one.
* `treekem_parents`: where the rest of the chain above a leaf is blank up to the root,
  `validate_parent_hashes` accepts the whole tree instead of ending the chain of that leaf. Ending only the chain
  there is not enough: `compute_original_hashes` does not look for unmerged leaves below
  a blank root, so trees of honest members would be refused. With
  `[acc EXCEPT !.result = "chain done"]` for `"Ok"` in `ChainStep`, `WelcomeAccepted` is
  violated in the scenario `Growing`.
* `observer_jitter`: with `max_epoch_jitter` set, the smallest acceptable epoch of an
  application message is `epoch - jitter` in `u64`; in a group younger than the jitter this
  wraps (a debug build panics), and the observer refuses every application message.

Further disagreements that were met while modelling and are not runs. They are the reason
for a premise or for the value of a constant:

* Two updates that exchange keys can neither be applied nor put back; the updates before
  them are reverted, but the failing one and later ones stay out of the tree
  (`tree_kem/mod.rs:438` against the comment at 405). This is why `EditsIndependent`
  excludes them.
* The secrets of a key package are documented to be erased when it is used to join
  (`client.rs:418`). They are deleted by `write_to_storage` only, and a crash or a failing
  deletion after the group was stored leaves them behind and forgets them on reload
  (`group/state_repo.rs:220`). A reference is never taken back after a successful deletion
  either, so each later write deletes it again.
* A member with a pending commit that receives the commit that removes it goes on as if
  it were still in the tree (`group/mod.rs:1815` against 1267). In the passing runs
  `clearFirst` is TRUE: the application clears its commit first.
* `new_signing_identity` replaces the signer when the commit is made, so a commit that
  loses the race or has no path leaves a signer that the leaf does not show
  (`group/commit.rs:772` against 321 and 378). `newIdentity` is FALSE in the runs.
* `clear_proposal_cache` deletes proposals (`group/mod.rs:1101`) that a pending commit, or one
  that the delivery service has taken, may name. `apply_pending_commit`, or processing
  the commit, then fails with `ProposalNotFound`, and the member does not get past it.
  Nothing warns of this. `NextCommitProcessable`, `PendingCommitFits` and `CatchesUp` make
  this one exception, for members of `mayClear`; members that do not clear their own caches
  are not affected by those that do.
* `pending_reinit` is set before the storage query of `update_key_schedule`
  (`group/message_processor.rs:833`). If the query fails, the group stays in its old epoch
  and refuses the same commit. No setup has `mayReInit` and a client in `storageFails`.
* In `filter_out_invalid_proposers` an update of a sender that may not propose it is
  removed from `update_senders` before that vector is filled. The updates of the model
  come from members, so this is not reached.
* In the case of `batch_edit` that takes all updates back, the copy of the index lacks the
  leaves that were put back. `EditsIndependent` excludes it.
* Builds without `by_ref_proposal` do not look at the credentials of external senders and
  can add a leaf that full builds refuse. In the model such builds commit only when the
  group has no external senders (`SendersKnown`).
* `process_incoming_message_with_time` does not compare a commit with the pending one, so
  an own commit is refused there (`group/mod.rs:1324` against 1284).
* An external joiner stores the epoch it came from with an empty resumption secret
  (`group/external_commit.rs:189`). A commit with the resumption PSK of that epoch can then be made by
  the joiner and is refused by all others. The setups propose PSKs of epochs that their
  proposer was a member of.
* A commit with an addition and a resumption PSK makes a Welcome that the new member,
  which has no such secret, cannot use. `WelcomeLeadsToMember` leaves these out.
* `join_subgroup` succeeds only while the joiner's copy of the parent group is in the epoch
  of the branch; `ResumptionJoin` states this as it is.
* `ReinitClient::commit` is documented to fail if the new group has not as many members as
  the old one (`group/resumption.rs:176`); there is no such check in it.
* `resumption_secret` looks an epoch up in the inserts before it compares the group id
  (`group/state_repo.rs:107`). No call of the library asks for another group's epoch.

## 5. Proofs

`MessageProtectionProofs` proves, for every tree that satisfies `TreeAssumption`, any set
of members, any number of messages and any width of the generation counter:

* `TypeCorrect`: `Spec => []TypeOK`
* `KeyUse`: `Spec => []KeysNeverReused`: no two messages that left a device were
  encrypted with the same key, whatever was lost, repeated, reordered or restarted.

Assumptions: `TreeAssumption` (ancestors form chains, a parent has two children, leaves
part below a common ancestor; TLC evaluates it on the arithmetic of `TreeMath` in the run
`messages`), `RatchetAssumption` (the history is shorter than the counter is wide) and
`MemberAssumption`.

`KeysNeverReused` speaks of messages in the network only and is not inductive. The
invariant is `IInv`, the type invariant with `MemberInv(m)` for every member:

* *Spent*: nothing known on the path of the member's own leaf yields the key of a message
  it made: there is a ratchet, and it is past those keys. This holds for the tree in
  memory with all messages of the member, and for the decoded tree on disk with those
  that were sent or are ready to be, because a restart returns to that tree.
* *AtMostOne*: on the path of each leaf at most one secret is known. Without it the
  expansion of another leaf's path could bring back an ancestor of the own ratchets.
* messages that the member made have it as their sender, and distinct keys.

There is one step lemma per action. They rest on lemmas on `ConsumePath` (what it adds
lies beside the path, and other paths are left alone), on the ratchets (a step only moves
forward), and on encoding (`TreeRoundTrip`: decoding an encoded tree gives it back).

`Codec` proves, for every number up to `VarInt::MAX` and every sequence of bytes:

* `VarIntRoundTrip`: from a reader that begins with the encoding of a number, `mls_decode`
  returns that number and consumes exactly its encoding, whatever follows.
* `VarIntCanonical`: whatever `mls_decode` accepts begins with the encoding of the number
  it returns, so that no number has a second encoding.
* `CollectionSplit`: a collection behind its length is split off at its own end.

They need no assumption. The argument goes by the three lengths of an encoding, each of
which is arithmetic on one, two or four bytes.

`HpkeProofs` proves, for all suites, keys, additional data and messages and for every end
`MaxSeq` of the sequence numbers:

* `NonceUse`: `Spec => []NonceUsedOnce`: no two ciphertexts have the same key and nonce.
* `InOrder`: `Spec => []OpenedInOrder`: over a network that loses, repeats and reorders, the
  receiver opens an initial part of what was sealed.
* `Agreement`: `Spec => []OpenedMeansAgreed`: a receiver that opened a message was set up
  with the sender's suite, KEM secret, info and PSK.

The invariant says that the sequence numbers count the messages, and that each ciphertext
on the wire is that of a sealed message under the number of its place. That distinct
arguments give distinct keys is the lemma `ExpandInjective`; a missing PSK and an empty one
differ by the mode.

Everything else is model-checked only. `CatchesUp` and `WelcomeLeadsToMember`, as liveness
properties, are beyond the prover. What `get_resolution_index` or the hashes compute,
defined by recursion over the tree, cannot be proved by induction there either.

## 6. Not modelled

* The other crypto crates, identity and binding crates, builders, data types and the test harness:
  functions or wrappers without state of their own. With tests and examples they are most
  of the repository's lines, which is why the modules stand for a modest share of it.
* The bytes of the wire format beyond `Codec`: the encoding of each type is derived, field
  by field. `sender_data_key.rs` and `reuse_guard.rs`, which protect the sender data and the
  nonce of one message.
* Exporters and queries of `Group`, which change no state. `next_encryption_key` and
  `derive_decryption_key` (feature `secret_tree_access`), which hand out the keys that
  `Seal` and `Open` of `MessageProtection` use.
* `clear_proposal_cache` of the members in `ExternalGroup`, whose members have one cache in
  common; it is in `Group`.
* Storage of PSKs and application data, and the deletion of expired key packages in SQLite:
  single statements of the database.
* `external_add_proposal` of `client.rs`; its proposal, of sender `NewMemberProposal`, is
  among those of `CommitRound`. Custom proposals of an external commit.
* An external committer that ends between writing its group and sending its commit. The
  commit then begins no epoch and the group is of no use; the client commits again.
* Two instances of one stored group in use at the same time, which the repository's
  caches exclude.

## 7. Plan

The modules of section 2, their runs, and the theorems of section 5 are done. Theorems to
come: that a cache belongs to the current epoch, and from it `PendingCommitFits`, for `Group`;
`InsertNeverRefused` and `FoundById` for `GroupStateRepository` over an abstract storage;
in `MessageProtection`, `NoSecondDecryption` for counters that do not wrap, and
`LeafLostIffRefused`; for `TreeIndex`, that inserting and removing keep the counters equal
to the counts over the leaves.
