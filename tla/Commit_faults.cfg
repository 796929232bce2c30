SPECIFICATION FairSpec
CONSTANTS
  Txn <- MCTxn
  Kinds = {"activity", "settings", "screen", "haAdd", "haRemove"}
  SaveFaults = TRUE
  RestoreFaults = TRUE
  EngineRejects = TRUE
  DigestFaults = TRUE
  MaxCrashes = 1
  RemotePaired = FALSE
CHECK_DEADLOCK FALSE
INVARIANTS
  TypeOK
  RolledBackLeavesNoTrace
  SavedIsLive
  ReadyMeansRebuilt
PROPERTIES
  ImplementsAtomicCommit
  RequestsEnd
