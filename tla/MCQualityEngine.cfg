SPECIFICATION BatchSpec
CONSTANTS
  PlainFields <- MCPlain
  ListedFields <- MCListed
  Events <- MCAllEvents
  Recovered <- MCRecovered
  Baseline <- v1
  Window = 1
  Tolerance = 0
  Lateness = 1
  MaxAttempts = 2
  Entries <- MCEntries
  Batches <- MCBatches
  Versions <- MCVersions
  Registered <- MCRegistered
  Schemas <- MCSchemas
  Shipped <- MCShipped
  RenameMap <- MCRenameMap
  Values = {}
  MaxEvents = 3
  MaxClock = 2
INVARIANTS
  DuplicateIffRecent
  ErrorExplainsVerdict
  BatchVerdictExplained
CONSTRAINT
  BatchesApart
CHECK_DEADLOCK FALSE
