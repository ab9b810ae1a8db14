SPECIFICATION DeploymentsSpec
CONSTANT
  CommandKinds = {"pipelineDeploy", "pipelineDestroy", "previewDeploy", "previewDestroy", "namespaceDelete", "destroyAll"}
  Names = {"a", "b", "z"}
  Scenarios <- Selected
  MaxRestarts = 1
INVARIANTS
  WaitsTellTheTruth
  ComposeTellsTheTruth
PROPERTIES
  ComposeForeignWorkloadsStay
  DeploymentsEnd
\* Both end.
CHECK_DEADLOCK FALSE
