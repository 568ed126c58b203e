SPECIFICATION Spec
CONSTANTS
    U64 = 16
    CredentialType <- MCCredentialType
    FirstInfo <- MCFirstInfo
    Joiners <- MCJoiners
    Server = "server"
    Setups <- MCJitter
    MaxCached = 2
INVARIANT JitterKeepsEpochs
CHECK_DEADLOCK FALSE
