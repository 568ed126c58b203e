------------------------------- MODULE Clients -------------------------------
(***************************************************************************)
(* Clients that create groups, join them by Welcome or by external commit, *)
(* branch subgroups off and replace a group by a reinitialized one         *)
(* (mls-rs/src/client.rs, group/mod.rs, group/external_commit.rs,          *)
(* group/resumption.rs, psk/resolver.rs), with the storages of key         *)
(* packages, pre-shared keys and groups that they use.  The subject is     *)
(* who can compute which epoch's secrets, so trees and paths are those who *)
(* are in the group; proposals and races are the subject of other modules. *)
(*                                                                         *)
(* A delivery service takes one commit per epoch.  An application writes a *)
(* group to storage before it sends what the group produced, and writes it *)
(* at times of its own otherwise; processes end at any time.               *)
(***************************************************************************)
EXTENDS KeySchedule, FiniteSets

CONSTANTS Client,
          Founder,      \* the client that creates the first group
          Setups,       \* clients: those that take part; single: one Welcome for
                        \* all new members; mayBranch, mayReInit, mayJoin: whether
                        \* groups branch, are reinitialized, take external commits;
                        \* mayAdd: key packages per commit; paths: commits without,
                        \* with path; psks: kinds of PSK proposals; bounds
                        \* maxCommits, maxPackages, maxCrashes
          Retention     \* max_epoch_retention of the group state storage

ASSUME ClientsAssumption ==
    /\ Founder \in Client /\ Retention \in Nat \ {0}
    /\ \A x \in Setups : /\ x.clients \subseteq Client /\ Founder \in x.clients
                         /\ x.single \in BOOLEAN /\ x.psks \subseteq {"external", "resumption"}
                         /\ x.mayBranch \in BOOLEAN /\ x.mayReInit \in BOOLEAN
                         /\ x.mayJoin \in BOOLEAN /\ x.paths \subseteq BOOLEAN
                         /\ {x.mayAdd, x.maxCommits, x.maxPackages, x.maxCrashes} \subseteq Nat

\* Group ids: the first group, a subgroup of it, and its successor.
GroupId == {"main", "sub", "next"}

VARIABLES setup,
          packages,  \* packages[c]: the references in c's key package storage
          made,      \* made[c]: key packages generated by c
          pool,      \* published key packages that nobody has used
          psks,      \* psks[c]: whether c's PSK storage has the external PSK
          group,     \* group[c][g]: c's Group, or Out
          reinit,    \* reinit[c]: c's ReinitClient, or none
          writing,   \* writing[c]: the group that write_to_storage is busy with
          disk,      \* disk[c][g]: the group state storage
          log,       \* log[g]: the commits of g; log[g][n] begins epoch n
          welcomes,
          truth,     \* truth[g]: the states of g, by epoch, as its committers
                     \* have them (history)
          crashes

vars == <<setup, packages, made, pool, psks, group, reinit, writing, disk, log, welcomes,
          truth, crashes>>

Out == [in |-> FALSE]

Init ==
    /\ setup \in Setups
    /\ packages = [c \in Client |-> {}] /\ made = [c \in Client |-> 0] /\ pool = {}
    /\ psks = [c \in Client |-> FALSE]
    /\ group = [c \in Client |-> [g \in GroupId |-> Out]]
    /\ disk = group
    /\ reinit = [c \in Client |-> <<>>] /\ writing = [c \in Client |-> <<>>]
    /\ log = [g \in GroupId |-> <<>>] /\ truth = [g \in GroupId |-> <<>>]
    /\ welcomes = {} /\ crashes = 0

-----------------------------------------------------------------------------
(* Groups                                                                  *)

\* A GroupContext; its transcript hash is named by the epoch, as there is one
\* commit for each.
Context(g, epoch, params) == <<g, epoch, params>>

\* A Group; since is the first epoch that its client was a member in (history).
MakeGroup(g, epoch, params, members, schedule, used, since) ==
    [in |-> TRUE, id |-> g,
     epoch |-> epoch, params |-> params,                      \* state.context
     members |-> members,                                     \* state.public_tree
     schedule |-> schedule,                                   \* key_schedule, epoch_secrets
     pending |-> {},                                          \* pending_commit
     reinit |-> <<>>,                                         \* state.pending_reinit
     inserts |-> <<>>,                                        \* state_repo: pending_commit
     used |-> used,                    \* state_repo: pending_key_package_removal
     since |-> since]

\* Group::new
NewGroup(c, g, params) ==
    MakeGroup(g, 0, params, {<<c, 0>>}, FromRandomEpochSecret(g), {}, 0)

-----------------------------------------------------------------------------
(* Storage                                                                 *)

StoredInserts(stored, inserts) ==
    LET all == stored \cup {inserts[i] : i \in DOMAIN inserts}
    IN  {x \in all : \A y \in all : y.epoch < x.epoch + Retention}

WrittenNoReInit(old, x) ==               \* faulty variant: pending_reinit is not stored
    [in |-> TRUE, state |-> [x EXCEPT !.inserts = <<>>, !.used = {}, !.reinit = <<>>],
     epochs |-> StoredInserts(IF old.in THEN old.epochs ELSE {}, x.inserts)]

\* The group state storage after GroupStateStorage::write of x.
Written(old, x) ==
    [in |-> TRUE, state |-> [x EXCEPT !.inserts = <<>>, !.used = {}],
     epochs |-> StoredInserts(IF old.in THEN old.epochs ELSE {}, x.inserts)]

\* The Group after a successful write_to_storage, which keeps the reference of
\* the key package and will delete it again.
Flushed(x) == [x EXCEPT !.inserts = <<>>]

\* GroupStateRepository::resumption_secret: a set of at most one secret.
ResumptionFromInserts(c, x, epoch) ==    \* faulty variant: with inserts, the storage is not asked
    IF x.inserts # <<>> \/ ~disk[c][x.id].in
    THEN {x.inserts[i].secret : i \in {j \in DOMAIN x.inserts : x.inserts[j].epoch = epoch}}
    ELSE {y.secret : y \in {z \in disk[c][x.id].epochs : z.epoch = epoch}}

StoredResumptionSecret(c, x, epoch) ==
    IF x.inserts # <<>> /\ epoch >= x.inserts[1].epoch
    THEN {x.inserts[i].secret : i \in {epoch - x.inserts[1].epoch + 1} \cap DOMAIN x.inserts}
    ELSE IF ~disk[c][x.id].in THEN {}
    ELSE {y.secret : y \in {z \in disk[c][x.id].epochs : z.epoch = epoch}}

-----------------------------------------------------------------------------
(* Pre-shared keys                                                         *)

\* PreSharedKeyID with the nonce that was drawn for message n.
External(n) == [kind |-> "external", nonce |-> n]

Resumption(usage, g, epoch, n) ==
    [kind |-> "resumption", usage |-> usage, group |-> g, epoch |-> epoch, nonce |-> n]

\* resolve_resumption of a Group x; a client without one finds nothing.
ResolveResumption(c, x, epoch) ==
    IF epoch = x.epoch THEN {ResumptionSecret(x.schedule)} ELSE StoredResumptionSecret(c, x, epoch)

\* resolve_external: PreSharedKeyStorage::get
ResolveExternal(c) == IF psks[c] THEN {<<"external">>} ELSE {}

\* PskResolver::resolve for the group x of c, or for no group: the psks that are
\* found for one id.
Resolve(c, x, id) ==
    IF id.kind = "external" THEN ResolveExternal(c)
    ELSE IF x.in THEN ResolveResumption(c, x, id.epoch) ELSE {}

\* resolve_to_secret, as a set of at most one secret.
ResolveToSecret(c, x, ids) ==
    IF \E i \in DOMAIN ids : Resolve(c, x, ids[i]) = {} THEN {}
    ELSE {PskSecret([i \in DOMAIN ids |->
            [id |-> ids[i], psk |-> CHOOSE psk \in Resolve(c, x, ids[i]) : TRUE]])}

\* resumption_psk_input
ResumptionPskInput(x, usage, n) ==
    [id |-> Resumption(usage, x.id, x.epoch, n), psk |-> ResumptionSecret(x.schedule)]

-----------------------------------------------------------------------------
(* Commits                                                                 *)

CommitSecret(k) == IF k.path THEN <<"path", k.group, k.epoch>> ELSE <<"none">>

\* The key schedule that commit k begins, from the schedule base.
NextSchedule(base, k, pskSecret) ==
    FromKeySchedule(base, CommitSecret(k), Context(k.group, k.epoch + 1, k.params), pskSecret)

Tag(schedule, k) == ConfirmationTag(schedule, Context(k.group, k.epoch + 1, k.params))

MakeCommit(c, x, external, adds, ids, path, re) ==
    [group |-> x.id, epoch |-> x.epoch, params |-> x.params, sender |-> c, external |-> external,
     adds |-> adds, psks |-> ids, path |-> path, reinit |-> re]

AdvancedKeepsPending(x, k, schedule) ==  \* faulty variant: a pending commit stays
    [x EXCEPT !.epoch = @ + 1,
              !.members = @ \cup k.adds \cup (IF k.external THEN {<<k.sender, 0>>} ELSE {}),
              !.schedule = schedule, !.reinit = k.reinit,
              !.inserts = Append(@, [epoch |-> x.epoch, secret |-> ResumptionSecret(x.schedule)])]

\* The end of update_key_schedule: the old epoch goes to the repository.
Advanced(x, k, schedule) ==
    [x EXCEPT !.epoch = @ + 1,
              !.members = @ \cup k.adds \cup (IF k.external THEN {<<k.sender, 0>>} ELSE {}),
              !.schedule = schedule, !.pending = {}, !.reinit = k.reinit,
              !.inserts = Append(@, [epoch |-> x.epoch, secret |-> ResumptionSecret(x.schedule)])]

\* What the delivery service and a GroupInfo show of a group, and its secrets.
StateOf(x) == [schedule |-> x.schedule, members |-> x.members, params |-> x.params,
               reinit |-> x.reinit]

\* The Welcomes of commit k from x to y: each has the group secrets for its
\* recipients, and the sealed GroupInfo.
Welcomes(x, y, k, pskSecret) ==
    LET joiner == JoinerSecret(x.schedule, CommitSecret(k), Context(k.group, y.epoch, k.params))
        To(refs) == [group |-> k.group, epoch |-> y.epoch, params |-> k.params, refs |-> refs,
                     joiner |-> joiner, psks |-> k.psks, members |-> y.members,
                     sealed |-> WelcomeSecret(joiner, pskSecret), tag |-> Tag(y.schedule, k)]
    IN  IF setup.single THEN {To(refs) : refs \in {SetToSeq(k.adds)} \ {<<>>}}
        ELSE {To(<<ref>>) : ref \in k.adds}

Idle(c) == writing[c] = <<>>

Commits == Len(log["main"]) + Len(log["sub"]) + Len(log["next"])

\* KeyPackageStorage::delete
PackagesDeleted(c, refs) == [packages EXCEPT ![c] = @ \ refs]

\* write_to_storage of the Group x of c, to its end.
Saved(c, x) ==
    /\ disk' = [disk EXCEPT ![c][x.id] = Written(@, x)]
    /\ packages' = PackagesDeleted(c, x.used)

\* The delivery service has taken commit k from x to y and the Welcomes; first
\* are the states of the group before k if it is new to the service.
Sent(x, y, k, pskSecret, first) ==
    /\ log' = [log EXCEPT ![x.id] = Append(@, k @@ [tag |-> Tag(y.schedule, k)])]
    /\ truth' = [truth EXCEPT ![x.id] = @ \o first \o <<StateOf(y)>>]
    /\ welcomes' = welcomes \cup Welcomes(x, y, k, pskSecret)
    /\ pool' = pool \ k.adds

\* Whether the clients of the key packages may be added to x.
CanAdd(x, adds) ==
    /\ adds \subseteq pool
    /\ \A r, q \in adds : r[1] = q[1] => r = q
    /\ \A r \in adds, m \in x.members : r[1] # m[1]

\* Group::commit with proposals by value, write_to_storage with the commit
\* pending, and apply_pending_commit when the service has taken the commit.
Commit(c, g, adds, ids, path, re) ==
    LET x == group[c][g]
        k == MakeCommit(c, x, FALSE, adds, ids, path, re)
    IN  /\ Idle(c) /\ x.in /\ x.epoch = Len(log[g])
        /\ Commits < setup.maxCommits
        /\ x.pending = {} /\ x.reinit = <<>>
        /\ CanAdd(x, adds)
        /\ re # <<>> => adds = {} /\ ids = <<>>
        /\ adds = {} /\ ids = <<>> /\ re = <<>> => path
        /\ \E pskSecret \in ResolveToSecret(c, x, ids) :
              \E y \in {Advanced(Flushed(x), k, NextSchedule(x.schedule, k, pskSecret))} :
                  /\ Sent(x, y, k, pskSecret, <<>>)
                  /\ group' = [group EXCEPT ![c][g] = y]
        /\ Saved(c, [x EXCEPT !.pending = {x.epoch}])
        /\ UNCHANGED <<setup, made, psks, reinit, writing, crashes>>

BaseOfMember(x, k) ==                    \* faulty variant: external commits are like others
    x.schedule

\* The init secret that a receiver uses for k.
Base(x, k) == IF k.external /\ x.pending = {} THEN DeriveForExternal(x.schedule, <<k.group, k.epoch>>)
              ELSE x.schedule

\* process_incoming_message of commit k, own ones included that were pending
\* when the group was stored: the new Group, or nothing if k is refused.
Processed(c, x, k) ==
    IF x.reinit # <<>> \/ (k.sender = c /\ k.epoch \notin x.pending) THEN {}
    ELSE {Advanced(x, k, NextSchedule(Base(x, k), k, pskSecret)) :
            pskSecret \in {s \in ResolveToSecret(c, x, k.psks) :
                              Tag(NextSchedule(Base(x, k), k, s), k) = k.tag}}

ProcessCommit(c, g) ==
    LET x == group[c][g]
    IN  /\ Idle(c) /\ x.in /\ x.epoch < Len(log[g])
        /\ \E y \in Processed(c, x, log[g][x.epoch + 1]) : group' = [group EXCEPT ![c][g] = y]
        /\ UNCHANGED <<setup, packages, made, pool, psks, reinit, writing, disk, log, welcomes,
                       truth, crashes>>

-----------------------------------------------------------------------------
(* Joining                                                                 *)

\* The reference of the key package that c generates next.
NextReference(c) == <<c, made[c] + 1>>

\* KeyPackageStorage::insert
PackageInserted(c, ref) == [packages EXCEPT ![c] = @ \cup {ref}]

\* Client::generate_key_package_message; the application publishes it.
GenerateKeyPackage(c) ==
    /\ c \in setup.clients /\ made[c] < setup.maxPackages /\ \A r \in pool : r[1] # c
    /\ made' = [made EXCEPT ![c] = @ + 1]
    /\ packages' = PackageInserted(c, NextReference(c))
    /\ pool' = pool \cup {NextReference(c)}
    /\ UNCHANGED <<setup, psks, group, reinit, writing, disk, log, welcomes, truth, crashes>>

\* find_key_package_generation
FindKeyPackage(c, w) ==
    {w.refs[i] : i \in {j \in DOMAIN w.refs : /\ w.refs[j] \in packages[c]
                                              /\ \A h \in 1 .. j - 1 : w.refs[h] \notin packages[c]}}

WelcomePskOwnNonce(c, w, extra) ==       \* faulty variant: the nonce is not taken over
    IF extra = <<>> THEN ResolveToSecret(c, Out, w.psks)
    ELSE IF w.psks = <<>> \/ w.psks[1].kind = "external" \/ w.psks[1].usage = "application" THEN {}
    ELSE {PskSecret(<<extra[1]>>)}

\* The PSK secret of a new member: from its PSK storage, or from the resumption
\* PSK of the group it comes from.
WelcomePsk(c, w, extra) ==
    IF extra = <<>> THEN ResolveToSecret(c, Out, w.psks)
    ELSE IF w.psks = <<>> \/ w.psks[1].kind = "external" \/ w.psks[1].usage = "application" THEN {}
    ELSE {PskSecret(<<[extra[1] EXCEPT !.id.nonce = w.psks[1].nonce]>>)}

WelcomeScheduleBefore(w, pskSecret) ==   \* faulty variant: the epoch before the commit
    FromJoiner(w.joiner, Context(w.group, w.epoch - 1, w.params), pskSecret)

WelcomeSchedule(w, pskSecret) ==
    FromJoiner(w.joiner, Context(w.group, w.epoch, w.params), pskSecret)

\* from_welcome_message: the Group, or nothing.  The GroupInfo must open, the own
\* leaf must be in the tree, and the confirmation tag must match.
FromWelcome(c, w, extra) ==
    {MakeGroup(w.group, w.epoch, w.params, w.members, WelcomeSchedule(w, secret), {ref}, w.epoch) :
        ref \in FindKeyPackage(c, w) \cap w.members,
        secret \in {s \in WelcomePsk(c, w, extra) :
            /\ WelcomeSecret(w.joiner, s) = w.sealed
            /\ ConfirmationTag(WelcomeSchedule(w, s), Context(w.group, w.epoch, w.params)) = w.tag}}

CanJoin(c, g) == Idle(c) /\ ~group[c][g].in /\ ~disk[c][g].in

Joined(c, g, x) ==
    /\ group' = [group EXCEPT ![c][g] = x]
    /\ UNCHANGED <<setup, packages, made, pool, psks, writing, disk, log, welcomes, truth, crashes>>

JoinGroupErases(c, w) ==                 \* faulty variant: the key package goes at once
    /\ CanJoin(c, w.group)
    /\ \E x \in FromWelcome(c, w, <<>>) :
          /\ group' = [group EXCEPT ![c][w.group] = x]
          /\ packages' = PackagesDeleted(c, x.used)
    /\ UNCHANGED <<setup, made, pool, psks, reinit, writing, disk, log, welcomes, truth, crashes>>

\* Client::join_group
JoinGroup(c, w) ==
    /\ CanJoin(c, w.group)
    /\ \E x \in FromWelcome(c, w, <<>>) : Joined(c, w.group, x)
    /\ UNCHANGED reinit

\* c has committed k in a group x that it has just made, applied k, stored the
\* group and sent what it made.
Founded(c, x, k, pskSecret, first) ==
    \E y \in {Advanced(x, k, NextSchedule(x.schedule, k, pskSecret))} :
        /\ Sent(x, y, k, pskSecret, first)
        /\ Saved(c, y)
        /\ group' = [group EXCEPT ![c][x.id] = Flushed(y)]

\* The group with which an external commit begins: it has the public state of
\* the GroupInfo, an init secret, and no other secrets.
ExternalGroup(c, g) ==
    LET last == Last(truth[g])
    IN  MakeGroup(g, Len(log[g]), last.params, last.members,
                  NewKeySchedule(ExternalInitSecret(ExternalKeyPair(last.schedule),
                                                    <<g, Len(log[g])>>)), {}, Len(log[g]) + 1)

\* ExternalCommitBuilder::build, with the external PSK or without; the group is
\* stored in its new epoch before the commit is sent.
CommitExternal(c, g, ids) ==
    LET x == ExternalGroup(c, g)
        k == MakeCommit(c, x, TRUE, {}, ids, TRUE, <<>>)
    IN  /\ CanJoin(c, g) /\ truth[g] # <<>> /\ Last(truth[g]).reinit = <<>>
        /\ Commits < setup.maxCommits
        /\ \A m \in x.members : m[1] # c
        /\ \E pskSecret \in ResolveToSecret(c, x, ids) : Founded(c, x, k, pskSecret, <<>>)
        /\ UNCHANGED <<setup, made, psks, reinit, writing, crashes>>

\* Client::create_group_with_id; the group is stored.
CreateGroup ==
    LET x == NewGroup(Founder, "main", "old")
    IN  /\ truth["main"] = <<>> /\ Idle(Founder)
        /\ Saved(Founder, x)
        /\ group' = [group EXCEPT ![Founder]["main"] = x]
        /\ truth' = [truth EXCEPT !["main"] = <<StateOf(x)>>]
        /\ UNCHANGED <<setup, made, pool, psks, reinit, writing, log, welcomes, crashes>>

\* The application puts the external PSK into the PSK storage.
InstallPsk(c) ==
    /\ c \in setup.clients /\ "external" \in setup.psks /\ ~psks[c]
    /\ psks' = [psks EXCEPT ![c] = TRUE]
    /\ UNCHANGED <<setup, packages, made, pool, group, reinit, writing, disk, log, welcomes,
                   truth, crashes>>

-----------------------------------------------------------------------------
(* Branches and reinitialization                                           *)

\* resumption_create_group: the new group's first commit adds the others and
\* has the resumption PSK of the old one, which is in no proposal.
ResumptionCreateGroup(c, g, params, input, adds) ==
    LET x == NewGroup(c, g, params)
        k == MakeCommit(c, x, FALSE, adds, <<input.id>>, adds = {}, <<>>)
    IN  /\ CanJoin(c, g) /\ truth[g] = <<>> /\ Commits < setup.maxCommits
        /\ CanAdd(x, adds)
        /\ Founded(c, x, k, PskSecret(<<input>>), <<StateOf(x)>>)
        /\ UNCHANGED <<setup, made, psks, writing, crashes>>

\* Group::branch with key packages of members.
Branch(c, adds) ==
    LET x == group[c]["main"]
    IN  /\ setup.mayBranch /\ x.in
        /\ \A r \in adds : \E m \in x.members : m[1] = r[1]
        /\ ResumptionCreateGroup(c, "sub", x.params, ResumptionPskInput(x, "branch", <<c>>), adds)
        /\ UNCHANGED reinit

\* resumption_join_group: the parameters must be those expected.
ResumptionJoinGroup(c, w, input, params, ids) ==
    {x \in FromWelcome(c, w, <<input>>) : x.params = params /\ x.id \in ids}

\* Group::join_subgroup
JoinSubgroup(c, w) ==
    LET x == group[c]["main"]
    IN  /\ CanJoin(c, w.group) /\ x.in
        /\ \E y \in ResumptionJoinGroup(c, w, ResumptionPskInput(x, "branch", <<c>>), x.params, GroupId) :
              Joined(c, w.group, y)
        /\ UNCHANGED reinit

\* Group::get_reinit_client, which consumes the Group; it has been stored.
GetReinitClient(c) ==
    LET x == group[c]["main"]
    IN  /\ Idle(c) /\ x.in /\ x.reinit # <<>> /\ Written(disk[c]["main"], x) = disk[c]["main"]
        /\ reinit' = [reinit EXCEPT ![c] = <<x.reinit[1] @@
                                             [input |-> ResumptionPskInput(x, "reinit", <<c>>)]>>]
        /\ group' = [group EXCEPT ![c]["main"] = Out]
        /\ UNCHANGED <<setup, packages, made, pool, psks, writing, disk, log, welcomes, truth, crashes>>

\* ReinitClient::commit
ReinitCommit(c, adds) ==
    /\ reinit[c] # <<>>
    /\ ResumptionCreateGroup(c, reinit[c][1].group, reinit[c][1].params, reinit[c][1].input, adds)
    /\ reinit' = [reinit EXCEPT ![c] = <<>>]

\* ReinitClient::join, which consumes the ReinitClient even if it fails, as it
\* does on the Welcome of another group.
ReinitJoin(c, w) ==
    LET r == reinit[c][1]
        joined == ResumptionJoinGroup(c, w, r.input, r.params, {r.group})
    IN  /\ reinit[c] # <<>> /\ CanJoin(c, r.group)
        /\ reinit' = [reinit EXCEPT ![c] = <<>>]
        /\ \/ \E x \in joined : Joined(c, w.group, x)
           \/ joined = {} /\ Joined(c, w.group, group[c][w.group])

-----------------------------------------------------------------------------
(* Storage and the ends of processes                                       *)

\* write_to_storage up to the return of GroupStateStorage::write.
WriteGroup(c, g) ==
    LET x == group[c][g]
    IN  /\ Idle(c) /\ x.in /\ Written(disk[c][g], x) # disk[c][g]
        /\ disk' = [disk EXCEPT ![c][g] = Written(@, x)]
        /\ writing' = [writing EXCEPT ![c] = <<g>>]
        /\ UNCHANGED <<setup, packages, made, pool, psks, group, reinit, log, welcomes, truth, crashes>>

\* The rest of write_to_storage: the key package is deleted.
FinishWrite(c) ==
    /\ writing[c] # <<>>
    /\ LET g == writing[c][1]
       IN  /\ packages' = PackagesDeleted(c, group[c][g].used)
           /\ group' = [group EXCEPT ![c][g] = Flushed(@)]
    /\ writing' = [writing EXCEPT ![c] = <<>>]
    /\ UNCHANGED <<setup, made, pool, psks, reinit, disk, log, welcomes, truth, crashes>>

\* The process of c ends; its storages stay.
Crash(c) ==
    /\ crashes < setup.maxCrashes
    /\ \E g \in GroupId : group[c][g].in
    /\ crashes' = crashes + 1
    /\ group' = [group EXCEPT ![c] = [g \in GroupId |-> Out]]
    /\ reinit' = [reinit EXCEPT ![c] = <<>>] /\ writing' = [writing EXCEPT ![c] = <<>>]
    /\ UNCHANGED <<setup, packages, made, pool, psks, disk, log, welcomes, truth>>

\* Client::load_group
LoadGroup(c, g) ==
    /\ Idle(c) /\ ~group[c][g].in /\ disk[c][g].in /\ reinit[c] = <<>>
    /\ group' = [group EXCEPT ![c][g] = disk[c][g].state]
    /\ UNCHANGED <<setup, packages, made, pool, psks, reinit, writing, disk, log, welcomes,
                   truth, crashes>>

-----------------------------------------------------------------------------
(* The system                                                              *)

\* The PSK proposals of a commit in x, with fresh nonces.
PskChoices(x) ==
    LET n == <<x.id, x.epoch>>
        ext == IF "external" \in setup.psks THEN {<<External(n)>>} ELSE {}
        res == IF "resumption" \in setup.psks
               THEN {<<Resumption("application", x.id, e, n)>> :
                       e \in x.since .. x.epoch}
               ELSE {}
    IN  {<<>>} \cup ext \cup res \cup {r \o q : r \in res, q \in ext}

AddChoices == {adds \in SUBSET pool : Cardinality(adds) <= setup.mayAdd}

ReInitChoices(g) ==
    {<<>>} \cup (IF setup.mayReInit /\ g = "main" THEN {<<[group |-> "next", params |-> "new"]>>} ELSE {})

Next ==
    \/ CreateGroup
    \/ \E c \in Client :
          \/ GenerateKeyPackage(c) \/ InstallPsk(c) \/ FinishWrite(c) \/ Crash(c)
          \/ GetReinitClient(c)
          \/ \E adds \in AddChoices : Branch(c, adds) \/ ReinitCommit(c, adds)
          \/ \E w \in welcomes : JoinGroup(c, w) \/ JoinSubgroup(c, w) \/ ReinitJoin(c, w)
          \/ \E g \in GroupId :
                \/ ProcessCommit(c, g) \/ WriteGroup(c, g) \/ LoadGroup(c, g)
                \/ /\ group[c][g].in
                   /\ \E adds \in AddChoices, ids \in PskChoices(group[c][g]), path \in setup.paths,
                         re \in ReInitChoices(g) : Commit(c, g, adds, ids, path, re)
                \/ /\ setup.mayJoin /\ c \in setup.clients
                   /\ \E ids \in {<<>>} \cup (IF "external" \in setup.psks
                                              THEN {<<External(<<c, g>>)>>} ELSE {}) :
                         CommitExternal(c, g, ids)

Spec == Init /\ [][Next]_vars

\* What an application does with its client for as long as there is something
\* to do: take the Welcomes, provide the PSKs, write the group it has joined.
KeepUp(c) ==
    \/ InstallPsk(c) \/ FinishWrite(c) \/ WriteGroup(c, "main")
    \/ \E w \in welcomes : JoinGroup(c, w)

FairSpec == Spec /\ \A c \in Client : WF_vars(KeepUp(c))

-----------------------------------------------------------------------------
(* Properties                                                              *)

\* Type invariant; a client that is in a group is in one of its epochs.
TypeOK ==
    /\ setup \in Setups /\ crashes \in 0 .. setup.maxCrashes
    /\ \A c \in Client :
          /\ made[c] \in 0 .. setup.maxPackages /\ psks[c] \in BOOLEAN
          /\ packages[c] \subseteq {c} \X (1 .. made[c])
          /\ \A g \in GroupId : group[c][g].in =>
                /\ group[c][g].id = g /\ group[c][g].epoch \in group[c][g].since .. Len(log[g])
                /\ group[c][g].pending \subseteq {group[c][g].epoch}

\* Whoever is in an epoch has the same secrets, members, parameters and pending
\* reinitialization as the client that began the epoch, whether it got there by
\* a commit, by a Welcome, by an external commit, or from its storage
\* (update_key_schedule, from_welcome_message, ExternalCommitBuilder::build,
\* Client::load_group).
EpochAgreed(x) == StateOf(x) = truth[x.id][x.epoch + 1]

SecretsAgree ==
    \A c \in Client, g \in GroupId : /\ group[c][g].in => EpochAgreed(group[c][g])
                                     /\ disk[c][g].in => EpochAgreed(disk[c][g].state)

\* The resumption secrets that a member can be asked for: those of its epochs
\* that the storage does not trim.
Kept(x) == {e \in x.since .. x.epoch : e + Retention >= x.epoch}

\* A member finds the resumption secret of each of those epochs, and finds the
\* right one, wherever the epoch is: current, not yet written, or stored
\* (PskResolver::resolve_resumption, GroupStateRepository::resumption_secret).
ResumptionKept ==
    \A c \in Client, g \in GroupId :
        Idle(c) /\ group[c][g].in =>
            \A e \in Kept(group[c][g]) :
                ResolveResumption(c, group[c][g], e) = {ResumptionSecret(truth[g][e + 1].schedule)}

\* Whether c has the PSKs that commit k names.
HasPsks(c, x, k) ==
    \A i \in DOMAIN k.psks : IF k.psks[i].kind = "external" THEN psks[c]
                             ELSE k.psks[i].epoch \in Kept(x)

\* A member that has the PSKs can process the next commit of its group, also its
\* own one after a restart, and also one from outside (process_commit,
\* KeySchedule::derive_for_external, get_psk): nobody who keeps up is left behind.
CommitProcessable ==
    \A c \in Client, g \in GroupId :
        LET x == group[c][g]
        IN  Idle(c) /\ x.in =>
                \A k \in {log[g][i] : i \in {x.epoch + 1} \cap DOMAIN log[g]} :
                    HasPsks(c, x, k) => Processed(c, x, k) # {}

\* A client that was sent a Welcome has its key package or has stored the group,
\* at every moment at which the process may end (write_to_storage deletes the
\* key package after the group is written).
WelcomeNotLost ==
    \A w \in welcomes : \A i \in DOMAIN w.refs :
        LET ref == w.refs[i] IN ref \in packages[ref[1]] \/ disk[ref[1]][w.group].in

\* The Welcome of a branch or of a reinitialized group is of use exactly to those
\* it was made for that are in the epoch of the old group from which the new one
\* was made, and never without that group's secret (from_welcome_message with an
\* additional PSK, resumption_join_group).
ResumptionJoin ==
    \A w \in {v \in welcomes : v.psks # <<>> /\ v.group # "main" /\ v.epoch = 1} : \A c \in Client :
        FindKeyPackage(c, w) # {} =>
            /\ FromWelcome(c, w, <<>>) = {}
            /\ w.group = "sub" /\ group[c]["main"].in =>
                  (FromWelcome(c, w, <<ResumptionPskInput(group[c]["main"], "branch", <<c>>)>>) # {}
                      <=> group[c]["main"].epoch = w.psks[1].epoch)
            /\ w.group = "next" /\ reinit[c] # <<>> =>
                  FromWelcome(c, w, <<reinit[c][1].input>>) # {}

\* Clients that are sent a Welcome that needs no secrets of older epochs become
\* members and store that they are, whatever processes end in between: there is
\* always a later time at which nobody is left over (find_key_package_generation,
\* from_welcome_message, write_to_storage).
WelcomeLeadsToMember ==
    []<>(\A w \in {v \in welcomes : v.group = "main"} :
            (\A i \in DOMAIN w.psks : w.psks[i].kind = "external") =>
                \A i \in DOMAIN w.refs : disk[w.refs[i][1]]["main"].in)

=============================================================================
