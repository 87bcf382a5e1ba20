SPECIFICATION Spec
CONSTANTS
  Rows = {1, 2, 3, 4, 5}
  Ids = {1, 2, 3}
  Syncs = {1, 2}
  Serials = {"S1", "S2"}
  Places = {"P1", "P2"}
  Verdicts = {"ready"}
  Nets = {"sound", "broken", "bare"}
  Snap <- MCSnap
  SiteVlans <- MCSiteVlans
  Manifests <- MCManifests
  MgmtIp <- MCMgmtIp
  Starts <- MCStarts
  Settings <- MCSettings
  PageSize = 1
  MaxDevices = 3
  MaxEdits = 2
  MaxEvaluations = 1
  MaxFaults = 1
  MaxDisturbances = 2
INVARIANTS TypeOK OneWriterPerDevice MirroredEntriesHold
PROPERTIES QuietSyncLinksRecords QuietRunBacksStatus OperatorEditsSurvive SyncEnds
CHECK_DEADLOCK FALSE
