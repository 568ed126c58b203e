---------------------- MODULE InMemoryGroupStateStorage ----------------------
(***************************************************************************)
(* What the in-memory storage provider keeps for one group                 *)
(* (storage_provider/in_memory/group_state_storage.rs): the snapshot of    *)
(* the group, here the epoch it was taken in, and a queue of prior epochs  *)
(* that is indexed by position.                                            *)
(***************************************************************************)
EXTENDS Integers, Sequences

NoGroup == [present |-> FALSE, state |-> 0, epochs |-> <<>>]

IndexByOne(data, id) ==                  \* faulty variant
    IF data.epochs = <<>> THEN 0 ELSE id - data.epochs[1].id

\* get_epoch_data_index: the position follows from the first record's id.
Index(data, id) == IF data.epochs = <<>> THEN 0 ELSE id - data.epochs[1].id + 1

\* get_epoch: the records found for an id, one or none.
Epoch(data, id) ==
    {data.epochs[i] : i \in {Index(data, id)} \cap DOMAIN data.epochs}

\* max_epoch_id: the id of the last record, if there is one.
MaxEpochId(data) == {data.epochs[i].id : i \in {Len(data.epochs)} \ {0}}

\* update_epoch for every update: an id without a position is ignored.
UpdateEpochs(epochs, updates) ==
    LET at(i) == {u \in updates : Index([epochs |-> epochs], u.id) = i}
    IN  [i \in DOMAIN epochs |->
            IF at(i) = {} THEN epochs[i] ELSE CHOOSE u \in at(i) : TRUE]

\* trim_epochs
TrimEpochs(epochs, retention) ==
    IF Len(epochs) <= retention THEN epochs
    ELSE SubSeq(epochs, Len(epochs) - retention + 1, Len(epochs))

WriteIgnoresUpdates(data, state, inserts, updates, retention) ==   \* faulty variant
    [ok   |-> TRUE,
     data |-> [present |-> TRUE, state |-> state,
               epochs |-> TrimEpochs(data.epochs \o inserts, retention)]]

\* GroupStateStorage::write, which cannot fail.  No two updates have the same
\* id: get_epoch_mut looks for a cached one first.
Write(data, state, inserts, updates, retention) ==
    [ok   |-> TRUE,
     data |-> [present |-> TRUE, state |-> state,
               epochs |-> TrimEpochs(UpdateEpochs(data.epochs \o inserts, updates),
                                     retention)]]
=============================================================================
