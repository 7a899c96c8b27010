SPECIFICATION Spec
CONSTANTS
  worker = worker
  api = api
  Consumers = {worker, api}
  Apis = {api}
  Topics <- Messages
  First <- Groups
  Enabled = TRUE
  ErrorThreshold = 30
  RecoveryTimeout = 1
  Rates = {}
  Window = 1
  Scale = 60
  MinSample = 2
  FlushEvents = 2
  BatchEvents = 2
  MaxVerdicts = 1
  MaxOutcomes = 3
  MaxFaults = 1
  MaxSnapshots = 1
  MaxClock = 2
INVARIANTS
  NothingInvalidSlips
PROPERTIES
  EveryTripIsRaised
  TripsOnEvidence
CHECK_DEADLOCK FALSE
