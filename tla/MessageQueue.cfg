SPECIFICATION FairSpec
CONSTANTS
  Keys = {k1}
  NoKey = NoKey
  VisibilityTimeout = 2
  MaxReceiveCount = 2
  DeduplicationWindow = 3
  SinkMayThrow = TRUE
  MaxMessages = 3
INVARIANTS
  TypeOK
  ExactlyOnePlace
  OldHandlesStayDead
  OneAcceptedPerWindow
  MetricsAgree
PROPERTIES
  NoOvertaking
  DeliversAtLeastOnce
  EventuallySettled
