SPECIFICATION Spec
CONSTANTS
  r1 = r1
  r2 = r2
  w1 = w1
  w2 = w2
  NULL = NULL
  Runs = {r1, r2}
  Workers = {w1, w2}
  MaxAttempts = 2
  MaxQuarantined = 2
  RecoveryBatch = 2
  LegacyRuns = {}
SYMMETRY Symmetry
INVARIANTS
  TypeOK
  LeaseFencesAttempt
  NoStrandedRun
  FinishedRowIsWhole
  EventLogTellsHistory
PROPERTIES
  TerminalIsFinal
  ImplementsLifecycle
CHECK_DEADLOCK FALSE
