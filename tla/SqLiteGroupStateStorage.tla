----------------------- MODULE SqLiteGroupStateStorage -----------------------
(***************************************************************************)
(* What the SQLite storage provider keeps for one group                    *)
(* (mls-rs-provider-sqlite/src/group_state.rs): its row of mls_group and   *)
(* its rows of epoch, whose primary key is (group_id, epoch_id).  Every    *)
(* call is one statement or one transaction.                               *)
(***************************************************************************)
EXTENDS Integers, Sequences, FiniteSetsExt

NoGroup == [present |-> FALSE, state |-> 0, epochs |-> {}]

Rows(seq) == {seq[i] : i \in DOMAIN seq}

Ids(rows) == {row.id : row \in rows}

\* get_epoch_data
Epoch(data, id) == {row \in data.epochs : row.id = id}

\* max_epoch_id
MaxEpochId(data) == IF data.epochs = {} THEN {} ELSE {Max(Ids(data.epochs))}

\* The last statement of update_group_state, run only when there were inserts.
TrimRows(rows, last, retention) ==
    {row \in rows : ~(last >= retention /\ row.id <= last - retention)}

\* update_group_state: one transaction, which fails as a whole when an
\* inserted epoch has a row already.
Write(data, state, inserts, updates, retention) ==
    LET fails    == Ids(Rows(inserts)) \cap Ids(data.epochs) # {}
        inserted == data.epochs \cup Rows(inserts)
        kept     == {row \in inserted : row.id \notin Ids(updates)}
        changed  == {u \in updates : u.id \in Ids(inserted)}
        rows     == kept \cup changed
    IN  IF fails THEN [ok |-> FALSE, data |-> data]
        ELSE [ok   |-> TRUE,
              data |-> [present |-> TRUE, state |-> state,
                        epochs |-> IF inserts = <<>> THEN rows
                                   ELSE TrimRows(rows, inserts[Len(inserts)].id, retention)]]
=============================================================================
