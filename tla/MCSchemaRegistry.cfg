SPECIFICATION Spec
CONSTANTS
  Versions <- MCVersions
  Registered <- MCRegistered
  Schemas <- MCSchemas
  Shipped <- MCShipped
  RenameMap <- MCRenameMap
  Values <- MCValues
INVARIANTS
  CompatibleIsReadable
  BreakingIsReal
