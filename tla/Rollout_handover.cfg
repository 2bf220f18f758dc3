SPECIFICATION Spec
CONSTANTS
  x = x
  y = y
  z = z
  Nobody = Nobody
  Extensions = {"ext"}
  MaxRevision = 3
  Objects = {x, y}
  Preexisting = {}
  Images = {"A", "B"}
  Configs = {"c", "d"}
  PhasesOf <- Shifting
  Protection = "Prevent"
  RetentionLimit = 1
  ObjectLag = FALSE
  RevisionLag = FALSE
  HasDeadline = FALSE
  MaxFaults = 0
INVARIANTS TypeOK ArchivedSuperseded 
  
