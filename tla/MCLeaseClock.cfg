SPECIFICATION ClockSpec
CONSTANTS
  StaleSeconds = 20
  LongestPause = 1
  ShortestPause = 1
  Statement = 1
  Checkout = 2
  Grace = 1
  PollSeconds = 1
  ShortestRecovery = 1
  Unreadable = 1
  Recovered = 1
  CycleWork = 0
  MaxMisses = 1
INVARIANTS
  OneFailureIsTolerated
  KeptWhileHealthy
  StopsInTime
  RecoveredInTime
CHECK_DEADLOCK FALSE
