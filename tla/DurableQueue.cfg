SPECIFICATION DurableFairSpec
CONSTANTS
  Keys = {k1}
  NoKey = NoKey
  VisibilityTimeout = 1
  MaxReceiveCount = 2
  DeduplicationWindow = 1
  SinkMayThrow = TRUE
  MaxMessages = 2
  Queue = "q"
  Faults = {"nothing", "type", "queue", "rest", "unterminated"}
  MaxRestarts = 1
INVARIANTS
  LogMirrorsMemory
  NothingLost
  NoneComesBack
  OldHandlesStayDead
  DeliveriesBoundedByRestarts
PROPERTY DurablySettled
