SPECIFICATION Spec
CONSTANTS
  x = x
  y = y
  z = z
  Nobody = Nobody
  Extensions = {"ext"}
  MaxRevision = 2
  Objects = {x, y, z}
  Preexisting = {}
  Images = {"A"}
  Configs = {"c", "d"}
  PhasesOf <- Shrinking
  Protection = "Prevent"
  RetentionLimit = 1
  ObjectLag = FALSE
  RevisionLag = FALSE
  HasDeadline = TRUE
  MaxFaults = 1
INVARIANTS NoDeadlineAfterSuccess TeardownComplete
PROPERTY TeardownOrder
