SPECIFICATION Spec
CONSTANTS
  Enabled = TRUE
  ErrorThreshold = 2
  RecoveryTimeout = 2
  Rates = {2, 3}
  Procs = {backend}
  SyncInterval = 1
  MaxOpens = 3
  MaxFailures = 2
  MaxProbes = 3
  MaxClock = 5
  MaxCrashes = 2
  MaxFaults = 0
  LastFault = 0
PROPERTIES
  ImplementsContract
