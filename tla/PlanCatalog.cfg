CONSTANTS
  c1 = c1
  c2 = c2
  Clients = {c1, c2}
  InitialRows <- SmallPlans
  Payloads <- FewPayloads
  MaxSteps = 3
  MaxRequests = 4
SPECIFICATION FairSpec
INVARIANTS
  TypeOK
  SequencesAreUnique
  DowngradeSucceeds
  DeadlocksHaveACause
PROPERTIES
  DeletionsAreFinal
  LoneRequestsSucceed
  ReorderedAsAsked
  RequestsAreAnswered
CHECK_DEADLOCK FALSE
