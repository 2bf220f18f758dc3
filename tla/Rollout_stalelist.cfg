SPECIFICATION Spec
CONSTANTS
  x = x
  y = y
  z = z
  Nobody = Nobody
  Extensions = {"ext"}
  MaxRevision = 4
  Objects = {x}
  Preexisting = {}
  Images = {"A", "B"}
  Configs = {"c"}
  PhasesOf <- OneObject
  Protection = "Prevent"
  RetentionLimit = 2
  ObjectLag = FALSE
  RevisionLag = TRUE
  HasDeadline = FALSE
  MaxFaults = 0
PROPERTIES NumbersSequential RetentionKeepsNewest
