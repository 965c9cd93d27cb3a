SPECIFICATION Spec
CONSTANTS
  t1 = t1
  t2 = t2
  r1 = r1
  r2 = r2
  v1 = v1
  v2 = v2
  Tables = {t1, t2}
  Rows = {r1}
  Values = {v1}
  NoRow = NoRow
  Untouched = Untouched
  NoOperation = NoOperation
  NoTable = NoTable
  WorkerEnabled = FALSE
  DirtyRowsTracking = TRUE
  RootContents <- MCRootContents
  AtomicCommits <- Transfers
  MaxPendingWrites = 2
  MaxWrites = 1
  MaxFaults = 1
PROPERTIES
  LastChanceFlush
