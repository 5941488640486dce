SPECIFICATION SetUpSpec
CONSTANTS
  d = d
  a = a
  b = b
  c = c
  e = e
  pk = pk
  ix = ix
  iy = iy
  Databases = {d}
  Names = {a, b, c, e}
  Tables <- MCTables
  Keys = {k1}
  Vals = {v1}
  None = None
  Columns <- MCColumns
  InitialContents <- MCInitialContents
  Workload = {}
  MaxLog = 8
  MaxFiles = 1
  Database = d
  Added = {a, b, c, e}
  NoTable = NoTable
  NoEvent = NoEvent
  ReadsBool = TRUE
  MaxCrashes = 1
  IndexNames = {pk, ix, iy}
  Indexes <- MCIndexes
  Mappable = {a, b, c}
  ReadOnly = FALSE
  MaxSources = 2
  MaxAdds = 3
CHECK_DEADLOCK FALSE
INVARIANTS SetUpTypeOK WholeOrNothing TablesKnown
