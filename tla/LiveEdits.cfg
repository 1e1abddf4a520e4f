CONSTANTS
  p0 = p0
  s1 = s1
  s2 = s2
  s3 = s3
  e1 = e1
  e2 = e2
  w1 = w1
  w2 = w2
  NoStep = NoStep
  NoTask = NoTask
  NoPartition = NoPartition
  Executions = {e1}
  Steps = {s1, s2, s3}
  Workers = {w1, w2}
  Partitions = {p0}
  PartitionOf <- OnePartition
  InitialPlans <- PlanOfTwo
  FaultKinds = {}
  MaxFaults = 0
  MaxCommands = 1
  EditKinds = {"reorder", "active", "delete", "create"}
  MaxEdits = 2
SPECIFICATION EditSpec
CONSTRAINT ShortTopic
SYMMETRY AlikeWorkers
INVARIANTS
  CommittedRequestsAreAnswered
  SequentialUntilRaised
CHECK_DEADLOCK FALSE
