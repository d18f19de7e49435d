SPECIFICATION MigrationSpec
CONSTANTS
  r1 = r1
  r2 = r2
  Runs = {r1, r2}
  MaxAborts = 2
  MaxReruns = 1
INVARIANTS
  MigrationTypeOK
  FinishedIsSound
PROPERTIES
  RerunLeavesWork
  MigrationFinishes
CHECK_DEADLOCK FALSE
