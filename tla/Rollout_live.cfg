SPECIFICATION LiveSpec
CONSTANTS
  x = x
  y = y
  z = z
  Nobody = Nobody
  Extensions = {"ext"}
  MaxRevision = 2
  Objects = {x}
  Preexisting = {}
  Images = {"A"}
  Configs = {"c", "d"}
  PhasesOf <- OneObject
  Protection = "Prevent"
  RetentionLimit = 1
  ObjectLag = TRUE
  RevisionLag = FALSE
  HasDeadline = FALSE
  MaxFaults = 1
PROPERTIES ArchivedReleased 
