------------------------- MODULE GroupStateRepository -------------------------
(***************************************************************************)
(* GroupStateRepository (mls-rs/src/group/state_repo.rs): the prior epochs *)
(* of a group, partly cached, partly in a GroupStateStorage, and the use   *)
(* Group makes of it.  The storage provider is a parameter, as it is in    *)
(* the code (S: GroupStateStorage); what it holds for the group is a value *)
(* that only the Storage operators look into.  One instance of the group is in  *)
(* use at a time; the process may end at any point.                        *)
(*                                                                         *)
(* A prior epoch is a record with its id and the number of messages that   *)
(* were decrypted with its secrets, which stands for its secret tree.      *)
(***************************************************************************)
EXTENDS Integers, Sequences, FiniteSets

CONSTANTS FirstEpoch,        \* epoch in which the group was created or joined
          Retention,         \* max_epoch_retention of the storage
          MaxEpoch, MaxUsed, \* bounds: epochs, messages decrypted per epoch
          EmptyStorage,          \* the storages that hold nothing, one per provider
          StorageState(_),       \* GroupStateStorage::state
          StorageEpoch(_, _),
          StorageMaxEpochId(_),
          StorageWrite(_, _, _, _, _),
          StorageDeleteGroup(_),
          DeleteMayFail(_)       \* KeyPackageStorage::delete may return an error

ASSUME RepositoryAssumption ==
    /\ FirstEpoch \in Nat /\ MaxEpoch \in Nat /\ MaxUsed \in Nat
    /\ Retention \in Nat \ {0}
    /\ \A s \in EmptyStorage : DeleteMayFail(s) \in BOOLEAN

VARIABLES epoch,       \* Group.state.context.epoch
          inserts,     \* pending_commit.inserts
          updates,     \* pending_commit.updates
          removal,     \* pending_key_package_removal is set
          storage,     \* what the storage provider holds for the group
          keyPackage,  \* the key package used to join is still stored
          intact       \* the stored group was not deleted since the caches were last written (history)

vars == <<epoch, inserts, updates, removal, storage, keyPackage, intact>>

\* A group this client created (no key package) or joined by a Welcome.
Init ==
    /\ epoch = FirstEpoch
    /\ inserts = <<>>
    /\ updates = {}
    /\ removal \in BOOLEAN
    /\ keyPackage = removal
    /\ storage \in EmptyStorage
    /\ intact = TRUE

-----------------------------------------------------------------------------
\* find_max_id: at most one element.
FindMaxId ==
    IF inserts = <<>> THEN StorageMaxEpochId(storage)
    ELSE {inserts[Len(inserts)].id}

\* The inserts are searched by position; an id below theirs is not.
InInserts(id) == inserts # <<>> /\ id >= inserts[1].id

InsertIndex(id) == id - inserts[1].id + 1

\* find_pending
FindPending(id) == {u \in updates : u.id = id}

\* The record get_epoch_mut hands out, one or none.
FindEpoch(id) ==
    IF InInserts(id) THEN {inserts[i] : i \in {InsertIndex(id)} \cap DOMAIN inserts}
    ELSE IF FindPending(id) # {} THEN FindPending(id)
    ELSE StorageEpoch(storage, id)

\* resumption_secret of a psk of this group: the epochs whose secret it may
\* return, the same three places in the same order.
ResumptionSecret(id) ==
    IF InInserts(id) THEN {inserts[i].id : i \in {InsertIndex(id)} \cap DOMAIN inserts}
    ELSE IF FindPending(id) # {} THEN {id}
    ELSE {r.id : r \in StorageEpoch(storage, id)}

-----------------------------------------------------------------------------
InsertNextId ==                          \* faulty variant: the epoch that begins
    /\ epoch < MaxEpoch
    /\ inserts' = Append(inserts, [id |-> epoch + 1, used |-> 0])
    /\ epoch' = epoch + 1
    /\ UNCHANGED <<updates, removal, storage, keyPackage, intact>>

\* Group::update_key_schedule with insert: a commit was processed or applied,
\* the epoch that ends becomes a prior one.  With any other id than the
\* expected one insert returns InvalidEpoch, and the group stays where it is.
InsertAllowed == \A max \in FindMaxId : epoch = max + 1

Insert ==
    /\ epoch < MaxEpoch
    /\ InsertAllowed
    /\ inserts' = Append(inserts, [id |-> epoch, used |-> 0])
    /\ epoch' = epoch + 1
    /\ UNCHANGED <<updates, removal, storage, keyPackage, intact>>

\* Group::decrypt_incoming_ciphertext with get_epoch_mut for a message of a
\* prior epoch: the record found is changed where it is cached, and a stored
\* one is cached first.  When the message does not open (n = 0) the record was
\* cached all the same.  EpochNotFound changes nothing.
DecryptPrior(id, n) ==
    \E found \in FindEpoch(id) :
        LET rec == [found EXCEPT !.used = @ + n]
        IN  /\ rec.used <= MaxUsed
            /\ IF InInserts(id)
               THEN /\ inserts' = [inserts EXCEPT ![InsertIndex(id)] = rec]
                    /\ UNCHANGED updates
               ELSE /\ updates' = (updates \ FindPending(id)) \cup {rec}
                    /\ UNCHANGED inserts
            /\ UNCHANGED <<epoch, removal, storage, keyPackage, intact>>

\* write_to_storage: the storage first, then the key package, then the caches.
\* An error of either returns at once, with what was done so far.
Write ==
    LET res == StorageWrite(storage, epoch, inserts, updates, Retention)
    IN  IF ~res.ok
        THEN UNCHANGED vars
        ELSE /\ storage' = res.data
             /\ \/ /\ keyPackage' = (keyPackage /\ ~removal)
                   /\ inserts' = <<>>
                   /\ updates' = {}
                   /\ intact' = TRUE
                \/ /\ DeleteMayFail(storage) /\ removal
                   /\ UNCHANGED <<keyPackage, inserts, updates, intact>>
             /\ UNCHANGED <<epoch, removal>>

LoadKeepsEpoch ==                        \* faulty variant: the snapshot is not applied
    /\ StorageState(storage) # {}
    /\ inserts' = <<>>
    /\ updates' = {}
    /\ removal' = FALSE
    /\ UNCHANGED <<epoch, storage, keyPackage, intact>>

\* The process ends and Client::load_group restores the group from its
\* snapshot, with empty caches and nothing to remove.
Load ==
    /\ epoch' \in StorageState(storage)
    /\ inserts' = <<>>
    /\ updates' = {}
    /\ removal' = FALSE
    /\ UNCHANGED <<storage, keyPackage, intact>>

\* delete_group of the storage provider, called by the application.
DeleteGroup ==
    /\ storage' = StorageDeleteGroup(storage)
    /\ intact' = FALSE
    /\ UNCHANGED <<epoch, inserts, updates, removal, keyPackage>>

Next ==
    \/ Insert
    \/ \E id \in 0 .. MaxEpoch, n \in {0, 1} : DecryptPrior(id, n)
    \/ Write
    \/ Load
    \/ DeleteGroup

Spec == Init /\ [][Next]_vars

-----------------------------------------------------------------------------
(* Properties *)

Record == [id : 0 .. MaxEpoch - 1, used : 0 .. MaxUsed]

\* Type invariant.
TypeOK ==
    /\ epoch \in 0 .. MaxEpoch
    /\ \A i \in DOMAIN inserts : inserts[i] \in Record
    /\ updates \subseteq Record
    /\ removal \in BOOLEAN /\ keyPackage \in BOOLEAN /\ intact \in BOOLEAN
    /\ StorageState(storage) \subseteq 0 .. MaxEpoch
    /\ \A id \in 0 .. MaxEpoch : StorageEpoch(storage, id) \subseteq Record

\* The group never gets stuck in an epoch because insert answers InvalidEpoch:
\* what is stored or cached ends just below the current epoch, also after a
\* reload and after the stored group was deleted.
InsertNeverRefused == InsertAllowed

\* get_epoch_mut, resumption_secret and the storage find a record by its id
\* though two of them compute a position from it.
FoundById ==
    \A id \in 0 .. MaxEpoch :
        /\ \A r \in FindEpoch(id) \cup StorageEpoch(storage, id) : r.id = id
        /\ ResumptionSecret(id) = {r.id : r \in FindEpoch(id)}

View(Find(_)) ==
    [id \in {x \in 0 .. MaxEpoch : Find(x) # {}} |-> (CHOOSE r \in Find(id) : TRUE).used]

StoredEpoch(id) == StorageEpoch(storage, id)

Abstract ==
    INSTANCE PriorEpochs
        WITH cur    <- epoch,
             view   <- View(FindEpoch),
             saved  <- [cur  |-> StorageState(storage),
                        view |-> View(StoredEpoch)],
             intact <- intact

\* The three places a prior epoch can be in look like one map: no use of an
\* epoch's keys is undone by a write, by a trim or by reading an older copy,
\* and exactly the newest Retention epochs survive a write.
KeepsPriorEpochs == Abstract!Spec
=============================================================================
