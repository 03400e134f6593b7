SPECIFICATION Spec
CONSTANTS
  Keys = {k1}
  NoKey = NoKey
  VisibilityTimeout = 1
  MaxReceiveCount = 2
  DeduplicationWindow = 2
  SinkMayThrow = TRUE
  MaxMessages = 2
INVARIANT ConfirmedWasAccepted
