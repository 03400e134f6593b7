SPECIFICATION FairLoadSpec
CONSTANTS
  Callers = {c1}
  Runs = {r1, r2}
  MessageCount = 2
  PublishMayThrow = TRUE
  Simulations = FALSE
  NoRun = NoRun
  OtherQueue = OtherQueue
INVARIANTS
  CompletedMeansSettled
  StoppedMeansOver
  RunHasConsumers
PROPERTIES
  ResultStands
  LoadCallsReturn
  TestsEnd
