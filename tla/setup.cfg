SPECIFICATION SetUpSpec
CONSTANTS
  d = d
  a = a
  b = b
  c = c
  e = e
  pk = pk
  ix = ix
  iy = iy
  Databases = {d}
  Names = {a, b}
  Tables <- MCTables
  Keys = {k1, k2}
  Vals = {v1}
  None = None
  Columns <- MCColumns
  InitialContents <- MCInitialContents
  Workload = {}
  MaxLog = 10
  MaxFiles = 1
  Database = d
  Added = {a}
  NoTable = NoTable
  NoEvent = NoEvent
  ReadsBool = TRUE
  MaxCrashes = 1
  IndexNames = {pk, ix, iy}
  Indexes <- MCIndexes
  Mappable = {a}
  ReadOnly = TRUE
  MaxSources = 2
  MaxAdds = 1
CHECK_DEADLOCK FALSE
INVARIANTS MirrorAfterSetUp NoFailure
