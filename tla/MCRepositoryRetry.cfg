SPECIFICATION Spec
CONSTANTS
  FirstEpoch = 1
  Retention = 2
  MaxEpoch = 5
  MaxUsed = 1
  Provider = {"InMemory"}
  DeleteFails = {"InMemory"}
  EmptyStorage <- MCEmpty
  StorageState <- MCState
  StorageEpoch <- MCEpoch
  StorageMaxEpochId <- MCMaxEpochId
  StorageWrite <- MCWrite
  StorageDeleteGroup <- MCDeleteGroup
  DeleteMayFail <- MCDeleteMayFail
INVARIANTS
  FoundById
