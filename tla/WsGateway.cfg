\* One page, with and without StrictMode, two notifications, one glitch.
SPECIFICATION FairSpec
CONSTANTS
  MaxSockets = 3
  MaxPublished = 2
  MaxGlitches = 1
INVARIANTS
  GapFree
  OneSocket
PROPERTIES
  SubscriptionSpec
  QueueReleased
  StaysConnected
CHECK_DEADLOCK FALSE
