SPECIFICATION Spec
CONSTANTS
  Txn <- MCThreeTxn
  Kinds = {"activity", "settings", "screen", "haAdd", "haRemove"}
  SaveFaults = TRUE
  RestoreFaults = FALSE
  EngineRejects = FALSE
  DigestFaults = FALSE
  MaxCrashes = 0
  RemotePaired = TRUE
CHECK_DEADLOCK FALSE
INVARIANTS
  EngineNeverRunsHalfASave
  RemoteIsUpToDate
