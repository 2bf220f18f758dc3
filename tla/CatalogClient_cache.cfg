SPECIFICATION LiveSpec
CONSTANTS
  None = None
  Catalogs = {"cat"}
  Digests = {"d1", "d2"}
  PackageFiles = 2
  MaxPuts = 2
  MaxFaults = 1
INVARIANTS CachedNotOlder ReadNotOlder
PROPERTY Populated
