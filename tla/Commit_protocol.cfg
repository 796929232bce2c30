SPECIFICATION Spec
CONSTANTS
  Txn <- MCTxn
  Kinds = {"haAdd", "haRemove"}
  SaveFaults = FALSE
  RestoreFaults = FALSE
  EngineRejects = FALSE
  DigestFaults = FALSE
  MaxCrashes = 1
  RemotePaired = FALSE
CHECK_DEADLOCK FALSE
INVARIANTS
  NoDeviceWithoutProtocol
