SPECIFICATION PlatformSpec
CONSTANTS
  Rank <- mcRank
  maxSecretDataSize = 3
  gzipThreshold = 3
  BundleContents <- mcContents
  HelmHistories <- mcHelm
  MaxRevs = 3
  KeepRevisions = 1
  MaxRefFaults = 1
  SecretEdits = {2}
  GVKs = {g1, g2}
  MaxSources = 3
  MaxFaults = 1
  MaxEvents = 2
  Requests = {r1, r2}
  ExpirationDuration = 2
  RotationThreshold = 1
  MaxTime = 2
  MaxAccounts = 3
  GlobalSecret = "g"
  PullSecrets = {"p"}
  PullLists <- mcPullLists
  Contents <- mcPullContents
  MaxPsEdits = 2
  MaxPsFaults = 1
  Pods <- mcPods
  Flags <- mcFlags
  CertDirs = {"a", "b", "empty"}
  SslCertPaths = TRUE
  MaxCrashes = 2
  MaxRotations = 2
  maxNameLength = 6
INVARIANTS RefsResolve MigratedFirst ContentExact RenderExact  DeadSourceRequeued AuthFileFresh
PROPERTIES DigestsPinned LatestOwned TokensHeal UpdateCompletes
CHECK_DEADLOCK FALSE
