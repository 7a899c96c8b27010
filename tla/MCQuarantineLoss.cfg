SPECIFICATION WriterSpec
CONSTANTS
  Threads = {consumer, other}
  Flushers = {consumer, other}
  Records = {r1, r2, r3}
  Poison = {}
  BatchSize = 3
  MaxRetries = 5
  MaxFailures = 0
INVARIANTS
  NoRecordLost
