SPECIFICATION WorkerSpec
CONSTANTS
  r1 = r1
  l1 = l1
  w1 = w1
  NULL = NULL
  Runs = {r1, l1}
  Workers = {w1}
  MaxAttempts = 2
  MaxQuarantined = 1
  RecoveryBatch = 2
  LegacyRuns = {l1}
  Reliable = {}
  BatchSize = 2
  MaxPollFailures = 3
  MaxFaults = 2
INVARIANTS
  WorkerTypeOK
PROPERTIES
  StopIsHonoured
CHECK_DEADLOCK FALSE
