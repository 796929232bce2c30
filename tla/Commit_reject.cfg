SPECIFICATION Spec
CONSTANTS
  Txn <- MCTxn
  Kinds = {"activity"}
  SaveFaults = FALSE
  RestoreFaults = FALSE
  EngineRejects = TRUE
  DigestFaults = FALSE
  MaxCrashes = 0
  RemotePaired = TRUE
CHECK_DEADLOCK FALSE
INVARIANTS
  RemoteIsUpToDate
