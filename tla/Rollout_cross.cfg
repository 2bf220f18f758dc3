SPECIFICATION Spec
CONSTANTS
  x = x
  y = y
  z = z
  Nobody = Nobody
  Extensions = {"e", "f"}
  MaxRevision = 2
  Objects = {x, y}
  Preexisting = {}
  Images = {"A"}
  Configs = {"c", "d"}
  PhasesOf <- Disjoint
  Protection = "Prevent"
  RetentionLimit = 1
  ObjectLag = FALSE
  RevisionLag = FALSE
  HasDeadline = FALSE
  MaxFaults = 0
PROPERTIES ForeignKept
