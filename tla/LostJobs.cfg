CONSTANTS
  e1 = e1
  e2 = e2
  NoTime = NoTime
  Executions = {e1}
  MaxTime = 2
  FaultKinds = {"crash"}
  MaxFaults = 1
SPECIFICATION Spec
INVARIANTS
  CommittedSchedulesAreKept
CHECK_DEADLOCK FALSE
