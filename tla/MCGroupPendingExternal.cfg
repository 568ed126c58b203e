SPECIFICATION Spec
CONSTANTS
  a = a
  b = b
  c = c
  Client = {a, b, c}
  Setups <- PendingAndExternal
INVARIANTS
  CommitSupersedesPending
CHECK_DEADLOCK FALSE
