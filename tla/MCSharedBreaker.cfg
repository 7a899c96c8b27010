SPECIFICATION Spec
CONSTANTS
  Enabled = TRUE
  ErrorThreshold = 2
  RecoveryTimeout = 1
  Rates = {2, 3}
  Procs = {backend, worker}
  SyncInterval = 1
  MaxOpens = 1
  MaxProbes = 0
  MaxFailures = 1
  MaxClock = 2
  MaxCrashes = 1
  MaxFaults = 1
  LastFault = 1
INVARIANTS
  NoMixedSnapshot
  OpeningsAreRecorded
PROPERTIES
  NoOpeningIsPermanent
  TripReachesAll
