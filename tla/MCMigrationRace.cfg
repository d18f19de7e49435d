SPECIFICATION MigrationSpec
CONSTANTS
  r1 = r1
  Runs = {r1}
  MaxAborts = 2
  MaxReruns = 1
INVARIANT RecoverableIsKept
CHECK_DEADLOCK FALSE
