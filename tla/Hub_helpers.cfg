SPECIFICATION Spec
CONSTANTS
  Parts = {"devices", "reload", "batch", "radio", "guard", "pairing", "control", "update"}
  Child = {"c1", "c2"}
  DeviceRequests <- MCRequests
  Texts <- MCTexts
  Names = {"n1", "n2", "n3"}
  Keyed = {"n2"}
  FirstLists <- MCFirstLists
  Imported <- MCRestored
  NamedIds = {{}, {1}}
  Floor = 4
  Spread = 2
  MaxCommands = 2
  MaxSaves = 1
  MaxBusy = 2
  MaxFaults = 1
  Batches <- MCBatches
  Id = {"a", "b"}
  Limit = 2
  Pause = 2
  Windows = {10, 120}
  Room = 15
  HalWait = 8
  Cooldown = 3
  Teardown = 2
  MaxTime = 4
  Host = {"h1"}
  Settle = 3
  Retry = 2
  MaxAttempts = 2
  Block = 1
  Deadline = 8
  MaxLinkEvents = 4
  Peer = {"h1", "h2"}
  HubCid = {64, 65}
  PeerCid = {80, 81}
  Opens <- MCOpens
  Update = {"u1", "u2"}
  Order <- MCOrder
  Reboots = {"init"}
  Releases <- MCReleases
  FirstFiles <- MCFirstFiles
  MaxFailures = 1
INVARIANTS
  PartsTypeOK
  NoEditLost
  ListsAreSound
  DeletedIsUnreferenced
  StaleIsOnItsWay
  CancelIsHonoured
  WindowIsAlone
  HalNeverReadsFreed
  CompletedIsLinked
  ReplyReachesAsker
  ResultIsTrue
PROPERTY HubCatchesUp
CHECK_DEADLOCK FALSE
