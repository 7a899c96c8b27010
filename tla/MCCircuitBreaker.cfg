SPECIFICATION Spec
CONSTANTS
  Enabled = TRUE
  ErrorThreshold = 2
  RecoveryTimeout = 2
  Rates = {2, 3}
  MaxHistory = 3
  MaxOpens = 3
  MaxClock = 6
INVARIANTS
  OutcomesWithinOpenings
  OneProbePerOpening
  OpeningTimeKnown
  HistoryIsChain
  CooldownRestarts
  IInv
PROPERTIES
  OpenTimesOut
  ImplementsContract
