SPECIFICATION Spec
CONSTANTS
  backend = backend
  worker = worker
  api = api
  healer = healer
  remote = remote
  Controllers = {backend, worker}
  Threads = {api, healer, remote}
  Home <- MCHome
  MaxPolls = 2
  MaxJobs = 2
  MaxCalls = 3
INVARIANTS
  PointerIsCurrent
PROPERTIES
  PausedJobStops
CHECK_DEADLOCK FALSE
