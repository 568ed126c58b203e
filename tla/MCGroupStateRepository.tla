----------------------- MODULE MCGroupStateRepository -----------------------
(***************************************************************************)
(* GroupStateRepository over each of the two storage providers.  A storage *)
(* is the provider's name and what the provider holds.                     *)
(***************************************************************************)
EXTENDS GroupStateRepository

CONSTANTS Provider,     \* the providers, of "InMemory" and "SqLite"
          DeleteFails   \* those whose key package storage may fail to delete

Mem == INSTANCE InMemoryGroupStateStorage

Sql == INSTANCE SqLiteGroupStateStorage

MCEmpty ==
    {[provider |-> p, data |-> IF p = "InMemory" THEN Mem!NoGroup ELSE Sql!NoGroup] : p \in Provider}

MCState(s) == IF s.data.present THEN {s.data.state} ELSE {}

MCEpoch(s, id) ==
    IF s.provider = "InMemory" THEN Mem!Epoch(s.data, id) ELSE Sql!Epoch(s.data, id)

MCMaxEpochId(s) ==
    IF s.provider = "InMemory" THEN Mem!MaxEpochId(s.data) ELSE Sql!MaxEpochId(s.data)

Written(s, res) == [ok |-> res.ok, data |-> [s EXCEPT !.data = res.data]]

MCWrite(s, state, ins, ups, retention) ==
    Written(s, IF s.provider = "InMemory" THEN Mem!Write(s.data, state, ins, ups, retention)
               ELSE Sql!Write(s.data, state, ins, ups, retention))

MCDeleteGroup(s) ==
    [s EXCEPT !.data = IF s.provider = "InMemory" THEN Mem!NoGroup ELSE Sql!NoGroup]

MCDeleteMayFail(s) == s.provider \in DeleteFails
=============================================================================
