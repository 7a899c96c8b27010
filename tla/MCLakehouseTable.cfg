SPECIFICATION Spec
CONSTANTS
  Batches = {healed}
  Maintainers = {m1, m2}
  MaxRetries = 2
  CompactRetries = 2
  MinFiles = 2
  Retain = 2
  SafetyBuffer = 3
  WriteTime = 1
  ScanTime = 1
  Operations = {{"compact", "expire", "orphans"}}
  Flags = {{}}
  DryRun = {FALSE, TRUE}
  ManifestErrors = FALSE
  MaxFiles = 4
  MaxStream = 1
  MaxCalls = 1
  MaxRuns = 2
  MaxFaults = 1
  MaxClock = 3
INVARIANTS
  TableHoldsEveryAppend
  LiveFilesExist
  SinkCounts
PROPERTIES
  NewestRetained
CHECK_DEADLOCK FALSE
SYMMETRY Symmetry
