SPECIFICATION Spec
CONSTANTS
  Workers = {w1, w2}
  MaxIncidents = 2
  MaxFaults = 1
  MaxRecoveryAttempts = 2
SYMMETRY Symmetry
INVARIANTS
  SingleRemediation
  RecoveredMeansDelivered
  DeliveriesWithinLimit
  NothingStranded
PROPERTIES
  KeepsBreakerContract
