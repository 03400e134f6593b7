SPECIFICATION DurableSpec
CONSTANTS
  Keys = {k1}
  NoKey = NoKey
  VisibilityTimeout = 1
  MaxReceiveCount = 1
  DeduplicationWindow = 1
  SinkMayThrow = TRUE
  MaxMessages = 1
  Queue = "q"
  Faults = {"type"}
  MaxRestarts = 1
INVARIANT CanRestart
