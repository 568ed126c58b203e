SPECIFICATION Spec
CONSTANTS
  LeafCount = 4
  Node <- MCNode
  Leaf <- MCLeaf
  Root <- MCRoot
  Left <- MCLeft
  Right <- MCRight
  Up <- MCUp
  MAX_RATCHET_BACK_HISTORY = 1
  U32 = 3
  Member = {0, 2}
  MaxMessages = 3
  MaxSteps = 4
INVARIANTS
  TypeOK
  KeysNeverReused
  NoSecondDecryption
  OutOfOrderTolerated
  LeafLostIffRefused
