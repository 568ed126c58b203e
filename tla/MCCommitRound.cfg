SPECIFICATION Spec
CONSTANTS
  Scenarios <- MCScenarios
  CredentialType <- MCCredentialType
  Externals <- MCExternals
  MaxProposals = 3
  MaxRounds = 1
CHECK_DEADLOCK FALSE
INVARIANTS
  TypeOK
  SentIsAccepted
  AppliedExactly
  UniqueLeaves
  FilterKeepsValid
