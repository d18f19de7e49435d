SPECIFICATION WorkerSpec
CONSTANTS
  r1 = r1
  l1 = l1
  w1 = w1
  NULL = NULL
  Runs = {r1, l1}
  Workers = {w1}
  MaxAttempts = 1
  MaxQuarantined = 1
  RecoveryBatch = 2
  LegacyRuns = {l1}
  Reliable = {w1}
  BatchSize = 1
  MaxPollFailures = 2
  MaxFaults = 0
PROPERTIES
  StaleRunIsRecovered
CHECK_DEADLOCK FALSE
