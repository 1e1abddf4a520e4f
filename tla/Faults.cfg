CONSTANTS
  p0 = p0
  s1 = s1
  s2 = s2
  s3 = s3
  e1 = e1
  e2 = e2
  w1 = w1
  w2 = w2
  NoStep = NoStep
  NoTask = NoTask
  NoPartition = NoPartition
  Executions = {e1}
  Steps = {s1, s2}
  Workers = {w1}
  Partitions = {p0}
  PartitionOf <- OnePartition
  InitialPlans <- OneOrTwo
  FaultKinds = {"crash", "lost", "duplicated", "child", "raise", "cache"}
  MaxFaults = 1
  MaxCommands = 1
SPECIFICATION Spec
VIEW FutureView
CONSTRAINT CommandOrFault
INVARIANTS
  TypeOK
  CommittedRequestsAreAnswered
  CompletionIsEarned
  ProgressIsEarned
PROPERTIES
  CancelledReleasesNothing
  CancelledIsLeftOnlyToFailed
  OrchestrationRuns
CHECK_DEADLOCK FALSE
