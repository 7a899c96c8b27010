SPECIFICATION WriterSpec
CONSTANTS
  Threads = {consumer, other}
  Flushers = {consumer}
  Records = {r1, r2, r3, poison}
  Poison = {poison}
  BatchSize = 3
  MaxRetries = 5
  MaxFailures = 6
INVARIANTS
  AtLeastOnceInOrder
  AckedIsDurable
PROPERTIES
  EveryRecordArrives
  KeepsPromise
