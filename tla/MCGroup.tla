------------------------------- MODULE MCGroup -------------------------------
(* Instances of Group for TLC. *)
EXTENDS Group

CONSTANTS a, b, c

Setup(clients, founders, clear, reinit, fails, messages, mayCrash, crash, mayClear) ==
    [clients |-> clients, founders |-> founders, newIdentity |-> FALSE, clearFirst |-> clear,
     mayReInit |-> reinit, storageFails |-> fails, maxMessages |-> messages, mayCrash |-> mayCrash,
     maxCrashes |-> crash, mayClear |-> mayClear]

\* Two members, the storage of one failing and its process ending, or the storage of both
\* failing; and two with a third client that joins.  The founders are alike, so that it
\* suffices to let one of them end.  And two of which one clears its cache.
TwoAndThree == {Setup({a, b}, {a, b}, TRUE, FALSE, {a}, 3, {a}, 1, {}),
                Setup({a, b}, {a, b}, TRUE, FALSE, {a, b}, 2, {a}, 1, {}),
                Setup({a, b, c}, {a, b}, TRUE, TRUE, {}, 2, {a, c}, 1, {}),
                Setup({a, b}, {a, b}, TRUE, FALSE, {a}, 2, {a}, 1, {a})}

\* A member whose application does not clear a commit, and a joining client.
PendingAndExternal == {Setup({a, c}, {a}, FALSE, FALSE, {a}, 2, {}, 0, {})}
=============================================================================
