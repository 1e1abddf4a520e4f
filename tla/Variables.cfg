CONSTANTS
  e1 = e1
  e2 = e2
  w1 = w1
  w2 = w2
  Executions = {e1, e2}
  Workers = {w1, w2}
  Plan <- ThreeSteps
  Responses <- FewAnswers
  Given <- FewGiven
  FaultKinds = {"duplicated", "crash", "raise"}
  MaxFaults = 1
SPECIFICATION Spec
ACTION_CONSTRAINT OnceE1IsOver
VIEW SecondView
SYMMETRY AlikeWorkers
INVARIANTS
  TypeOK
  ExtractsAreWhole
  CompletedStepsAreKnown
  ValuesTravelUnchanged
  ReadersAgree
CHECK_DEADLOCK FALSE
