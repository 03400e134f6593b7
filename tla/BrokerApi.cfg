SPECIFICATION FairApiSpec
CONSTANTS
  Names = {n1, n2}
  Clients = {c1, c2}
  Testers = {c1}
  MaxQueues = 2
  NoName = NoName
  Nobody = Nobody
INVARIANTS
  ApiTypeOK
  RemovedLeftAlone
  TestFindsItsQueue
PROPERTIES
  DeleteStopsItsOwnOnly
  RequestsAnswered
CHECK_DEADLOCK FALSE
