SPECIFICATION MonitorFairSpec
CONSTANTS
  Keys = {k1}
  NoKey = NoKey
  VisibilityTimeout = 1
  MaxReceiveCount = 2
  DeduplicationWindow = 1
  SinkMayThrow = FALSE
  MaxMessages = 2
  Clients = {c1, c2}
  Pollers = {c1}
INVARIANTS
  NoLostWakeup
PROPERTIES
  MessageQueueWithFairReaper
  ShutdownCompletes
