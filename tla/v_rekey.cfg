SPECIFICATION Spec
CONSTANTS
  d = d
  o = o
  a = a
  b = b
  Databases = {d, o}
  Names = {a, b}
  Tables <- MCTables
  Keys = {k1, k2}
  Vals = {v1, v2}
  None = None
  Columns <- MCColumns
  InitialContents <- MCInitialContents
  Workload = {"rekey"}
  MaxLog = 8
  MaxFiles = 1
  Database = d
  Added = {a}
  NoTable = NoTable
  NoEvent = NoEvent
  ReadsBool = TRUE
  MaxCrashes = 0
CHECK_DEADLOCK FALSE
INVARIANTS OneRowPerChange
