SPECIFICATION FairSpec
CONSTANTS
  a = a
  b = b
  c = c
  Client = {a, b, c}
  Setups <- TwoAndThree
INVARIANTS
  TypeOK
  NextCommitProcessable
  TreesAgree
  PendingCommitFits
  LeafKeyHeld
  SignerMatchesLeaf
PROPERTY
  CatchesUp
CHECK_DEADLOCK FALSE
