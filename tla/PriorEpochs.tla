----------------------------- MODULE PriorEpochs -----------------------------
(***************************************************************************)
(* What a group may rely on when it keeps its prior epochs in a            *)
(* GroupStateRepository: it sees one map from the prior epochs it can      *)
(* still use to their state, here the number of messages decrypted with    *)
(* their secrets.  Where a record lives, in the list of inserts, the list  *)
(* of updates or the storage, and how often it was copied, do not show.    *)
(***************************************************************************)
EXTENDS Integers, FiniteSets

CONSTANTS Retention,    \* how many prior epochs the storage keeps
          FirstEpoch    \* epoch in which the group was created or joined

VARIABLES cur,      \* the current epoch
          view,     \* the prior epochs that can be used now
          saved,    \* [cur, view] as of the last write; cur empty before it
          intact    \* the stored group was not deleted since the last write

vars == <<cur, view, saved, intact>>

Only(f, S) == [e \in S |-> f[e]]

Newest(f) ==
    Only(f, {e \in DOMAIN f : Cardinality({x \in DOMAIN f : x >= e}) <= Retention})

Nothing == [e \in {} |-> 0]

Init ==
    /\ cur = FirstEpoch
    /\ view = Nothing
    /\ saved = [cur |-> {}, view |-> Nothing]
    /\ intact = TRUE

\* A commit ends the current epoch, which becomes the newest prior epoch.
Advance ==
    /\ cur' = cur + 1
    /\ view' = [e \in DOMAIN view \cup {cur} |-> IF e = cur THEN 0 ELSE view[e]]
    /\ UNCHANGED <<saved, intact>>

\* A message of a prior epoch is decrypted.
Decrypt(e) ==
    /\ e \in DOMAIN view
    /\ view' = [view EXCEPT ![e] = @ + 1]
    /\ UNCHANGED <<cur, saved, intact>>

\* Everything is written, and all but the newest epochs are given up.  If the
\* group was deleted behind the repository's back only a part may be left.
Save ==
    /\ \E S \in SUBSET DOMAIN view :
          /\ intact => S = DOMAIN view
          /\ saved' = [cur |-> {cur}, view |-> Newest(Only(view, S))]
    /\ view' = saved'.view
    /\ intact' = TRUE
    /\ UNCHANGED cur

\* The same, but the call returns an error after the storage was written:
\* epochs that were to be given up may still be seen.
SaveInterrupted ==
    /\ \E S \in SUBSET DOMAIN view : \E T \in SUBSET DOMAIN view :
          /\ intact => S = DOMAIN view
          /\ saved' = [cur |-> {cur}, view |-> Newest(Only(view, S))]
          /\ DOMAIN saved'.view \subseteq T
          /\ view' = Only(view, T)
    /\ UNCHANGED <<cur, intact>>

\* The group is loaded again: what was not written is lost, nothing else.
Load ==
    /\ saved.cur = {cur'}
    /\ view' = saved.view
    /\ UNCHANGED <<saved, intact>>

\* The stored group is deleted while it is in use.
Delete ==
    /\ saved' = [cur |-> {}, view |-> Nothing]
    /\ \E S \in SUBSET DOMAIN view : view' = Only(view, S)
    /\ intact' = FALSE
    /\ UNCHANGED cur

Next ==
    \/ Advance
    \/ \E e \in DOMAIN view : Decrypt(e)
    \/ Save
    \/ SaveInterrupted
    \/ Load
    \/ Delete

Spec == Init /\ [][Next]_vars
=============================================================================
