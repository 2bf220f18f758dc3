SPECIFICATION LiveSpec
CONSTANTS
  None = None
  Catalogs = {"cat"}
  MaxDigest = 2
  Rollbacks = FALSE
  MaxUser = 2
  MaxFaults = 1
INVARIANTS PinnedExact UnavailableClean
PROPERTIES  ServiceContract  OrphanContentCollected
