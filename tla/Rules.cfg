SPECIFICATION Spec
CHECK_DEADLOCK FALSE
CONSTANTS
  SkippablePorts <- MCSkippable
  UrlPort <- MCUrlPort
  SaneName <- MCSaneName
  Paths <- MCPaths
  JobClaim <- MCJobClaim
INVARIANTS
  ComposeIsFaithful
  ManifestIsRead
  DevPodsHoldTogether
  PlatformIsTold
  BuildsAreReusedSafely
  RemoteRunsAreFaithful
