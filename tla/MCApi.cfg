SPECIFICATION ApiSpec
CONSTANTS
  NULL = NULL
  BLANK = BLANK
  t1 = t1
  t2 = t2
  s1 = s1
  s2 = s2
  k1 = k1
  k2 = k2
  k3 = k3
  m1 = m1
  m2 = m2
  m3 = m3
  m4 = m4
  r1 = r1
  r2 = r2
  c1 = c1
  c2 = c2
  Clients = {c1, c2}
  Runs = {r1, r2}
  Tenants = {t1, t2}
  Subjects = {s1, s2}
  NonAscii = {s2}
  Tokens = {k1, k2, k3}
  RawKeys <- MCRawKeys
  Embedded = TRUE
  PoolSize = 1
  Preset <- MCPreset
  Memories = {m1, m2, m3, m4}
  Distance <- MCDistance
  Relevance <- MCRelevance
  Importance <- MCImportance
  SearchDepth = 2
INVARIANTS
  ApiTypeOK
  ScopeIsKept
  AcceptedIsStored
  ShutdownIsOrderly
PROPERTIES
  SearchIsRanked
  NothingHangs
CHECK_DEADLOCK FALSE
