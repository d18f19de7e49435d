SPECIFICATION TxSpec
CONSTANTS
  r1 = r1
  r2 = r2
  w1 = w1
  w2 = w2
  s1 = s1
  s2 = s2
  s3 = s3
  NULL = NULL
  Runs = {r1, r2}
  Workers = {w1, w2}
  Sessions = {s1, s2, s3}
  MaxAttempts = 2
  MaxQuarantined = 2
  RecoveryBatch = 2
  LegacyRuns = {}
  OneAttempt = {r2}
CONSTRAINT Bound
SYMMETRY Symmetry
INVARIANTS
  EventNumbersUnique
  HoldersNeverWait
PROPERTIES
  ImplementsRunStore
CHECK_DEADLOCK FALSE
