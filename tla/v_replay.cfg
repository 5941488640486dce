SPECIFICATION SetUpSpec
CONSTANTS
  d = d
  a = a
  b = b
  c = c
  e = e
  pk = pk
  ix = ix
  iy = iy
  Databases = {d}
  Names = {a}
  Tables <- MCTables
  Keys = {k1}
  Vals = {v1}
  None = None
  Columns <- MCColumns
  InitialContents <- MCInitialContents
  Workload = {}
  MaxLog = 8
  MaxFiles = 1
  Database = d
  Added = {a}
  NoTable = NoTable
  NoEvent = NoEvent
  ReadsBool = TRUE
  MaxCrashes = 0
  IndexNames = {pk, ix, iy}
  Indexes <- MCIndexes
  Mappable = {a}
  ReadOnly = FALSE
  MaxSources = 1
  MaxAdds = 1
CHECK_DEADLOCK FALSE
INVARIANTS RowIsNew
