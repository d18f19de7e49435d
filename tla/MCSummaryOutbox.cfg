SPECIFICATION OutboxSpec
CONSTANTS
  r1 = r1
  w1 = w1
  w2 = w2
  w3 = w3
  m1 = m1
  m2 = m2
  NULL = NULL
  Runs = {r1}
  Workers <- MCWorkers
  Models = {m1, m2}
  Embeds <- MCEmbeds
  Reliable = {w1}
  MaxFaults = 3
INVARIANTS
  OutboxTypeOK
  OneMemoryPerRun
  DeliveredIsRemembered
PROPERTIES
  OnlyHolderSettles
  EverySummarySettles
CHECK_DEADLOCK FALSE
