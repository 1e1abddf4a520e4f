CONSTANTS
  e1 = e1
  e2 = e2
  NoTime = NoTime
  Executions = {e1}
  MaxTime = 4
  FaultKinds = {"crash", "late", "lost", "duplicated"}
  MaxFaults = 3
SPECIFICATION FairSpec
INVARIANTS
  TypeOK
  KeptSinceTheStart
  CancelledSchedulesDoNotRun
  FaultsRepeatRequests
PROPERTIES
  RequestsAreDue
  FutureSchedulesAreRequested
CHECK_DEADLOCK FALSE
