SPECIFICATION ThreadsSpec
CHECK_DEADLOCK FALSE
CONSTANTS
  Nodes = {n, m}
  Addresses = {addr}
  Openers = {o}
  MaxOutbound = 1
  MaxInbound = 1
  Threads = {t, u}
  nProcessors = 2
  Limits <- MCLimits
  MaxBest = 2
  MaxUpdates = 0
  CheckHeight = TRUE
  DbThreads = {t, u}
  fDetachDB = FALSE
  MaxRecords = 1
  Phrases = {"right", "wrong"}
  MaxKeys = 3
  MaxMasters = 2
INVARIANTS
  PaidOnce
  NotUsedAfterDelete
  NotUsedAfterClose
  FilesAreWhole
  KeysSurvive
  PlainKeysAreGone
PROPERTIES
  StaleIsAbandoned
  ThreadsEnd
