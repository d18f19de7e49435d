SPECIFICATION WorkerSpec
CONSTANTS
  r1 = r1
  w1 = w1
  w2 = w2
  NULL = NULL
  Runs = {r1}
  Workers = {w1, w2}
  MaxAttempts = 2
  MaxQuarantined = 1
  RecoveryBatch = 1
  LegacyRuns = {}
  Reliable = {w1}
  BatchSize = 2
  MaxPollFailures = 2
  MaxFaults = 1
INVARIANTS
  LostLeaseStopsExecution
PROPERTIES
  ImplementsStore
  GivenUpOnlyByVerdict
  EveryRunEnds
CHECK_DEADLOCK FALSE
