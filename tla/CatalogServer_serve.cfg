SPECIFICATION PartsSpec
CONSTANTS
  remapFieldName <- mcRemap
  sanitizeTypeName <- mcType
  queryFieldName <- mcField
  MaxPage = 2
  ServedCatalogs = {"c"}
  Clients = {"a1", "a2"}
  ContentMetas <- mcMetas
  RequestsOf <- mcRequests
  enableMetas = TRUE
  enableGraphQL = TRUE
  MaxStores = 2
  MaxRestarts = 1
  Reconciler = "reconciler"
INVARIANTS AtomicView CatalogQueries
PROPERTY ServerProgress
