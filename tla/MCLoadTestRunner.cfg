SPECIFICATION LoadSpec
CONSTANTS
  Callers = {c1, c2}
  Runs = {r1, r2}
  MessageCount = 1
  PublishMayThrow = FALSE
  Simulations = TRUE
  NoRun = NoRun
  OtherQueue = OtherQueue
INVARIANTS
  LoadTypeOK
  EveryRunIsOwned
CHECK_DEADLOCK FALSE
SYMMETRY Symmetry
