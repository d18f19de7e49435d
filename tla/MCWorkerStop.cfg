SPECIFICATION WorkerSpec
CONSTANTS
  r1 = r1
  r2 = r2
  w1 = w1
  w2 = w2
  NULL = NULL
  Runs = {r1, r2}
  Workers = {w1, w2}
  MaxAttempts = 1
  MaxQuarantined = 1
  RecoveryBatch = 1
  LegacyRuns = {}
  Reliable = {}
  BatchSize = 2
  MaxPollFailures = 2
  MaxFaults = 0
SYMMETRY Symmetry
PROPERTIES
  NoClaimAfterStop
CHECK_DEADLOCK FALSE
