SPECIFICATION Spec
CONSTANTS
    Clients = {0, 1, 2, 3, 4, 5}
    Scenarios <- MCScenarios
INVARIANTS
    TypeOK
    CommitSecretShared
    WelcomeAccepted
    ExportedTreeAgrees
    PrivateKeysMatchTree
    KeysConfined
    CachedHashesCurrent
CHECK_DEADLOCK FALSE
