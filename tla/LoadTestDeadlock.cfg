SPECIFICATION FairLoadSpec
CONSTANTS
  Callers = {c1, c2}
  Runs = {r1, r2}
  MessageCount = 1
  PublishMayThrow = FALSE
  Simulations = FALSE
  NoRun = NoRun
  OtherQueue = OtherQueue
PROPERTY LoadCallsReturn
CHECK_DEADLOCK FALSE
