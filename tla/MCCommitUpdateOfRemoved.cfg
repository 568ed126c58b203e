SPECIFICATION Spec
CONSTANTS
  Scenarios <- MCUpdateOfRemoved
  CredentialType <- MCCredentialType
  Externals <- MCExternals
  MaxProposals = 3
  MaxRounds = 1
CHECK_DEADLOCK FALSE
INVARIANT
  SentIsAlwaysAccepted
