SPECIFICATION PartsSpec
CONSTANTS
  BundleReleaseSupport = TRUE
  Runtimes = {"helm", "boxcutter"}
  ExtSources <- mcSources
  CatalogLists <- mcCatalogLists
  RenderedManifest <- mcRender
  maxHelmReleaseHistory = 3
  MaxExtEdits = 2
  MaxExtFaults = 1
INVARIANTS NoUnpackedLeft ResolveExact
PROPERTIES UpgradeEdgesOnly Settles
CHECK_DEADLOCK FALSE
