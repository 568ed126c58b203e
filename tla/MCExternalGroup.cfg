SPECIFICATION Spec
CONSTANTS
    U64 = 16
    CredentialType <- MCCredentialType
    FirstInfo <- MCFirstInfo
    Joiners <- MCJoiners
    Server = "server"
    Setups <- MCSetups
    MaxCached = 2
INVARIANT TypeOK
INVARIANT ObserverAgrees
INVARIANT RosterTracked
INVARIANT OwnProposalAccepted
INVARIANT ObserverNotStuck
CHECK_DEADLOCK FALSE
