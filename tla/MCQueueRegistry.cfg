SPECIFICATION RegistrySpec
CONSTANTS
  Names = {n1, n2}
  Objects = {q1, q2, q3, q4}
  Users = {u1}
  Settings = "settings"
  MaxMessages = 1
  MaxRestarts = 1
  Faults = {"nothing", "type", "queue", "rest", "unterminated"}
  Shortened <- MCShortened
  Nothing = Nothing
INVARIANTS
  RegistryTypeOK
  LogMatchesRegistry
  RegistryRemembers
  DiscardedStayGone
  MetricsFollowQueues
SYMMETRY Symmetry
CHECK_DEADLOCK FALSE
