SPECIFICATION Spec
CONSTANTS
  api1 = api1
  api2 = api2
  worker = worker
  Threads = {api1, api2, worker}
  Home <- HomeOf
  Does <- Asked
  MaxAttempts = 1
  MaxIncidents = 2
  MaxCalls = 5
  MaxFaults = 1
INVARIANTS
  AttemptsCounted
  OneActiveIncident
  RemediatingMeansRunning
  RecoveredIsRecorded
CHECK_DEADLOCK FALSE
