SPECIFICATION Spec
CONSTANTS
  d = d
  o = o
  a = a
  b = b
  Databases = {d, o}
  Names = {a, b}
  Tables <- MCOneTable
  Keys = {k1}
  Vals = {v1, v2}
  None = None
  Columns <- MCColumns
  InitialContents <- MCEmptyContents
  Workload = {"ddl", "rotate"}
  MaxLog = 10
  MaxFiles = 2
  Database = d
  Added = {a}
  NoTable = NoTable
  NoEvent = NoEvent
  ReadsBool = TRUE
  MaxCrashes = 1
CHECK_DEADLOCK FALSE
INVARIANTS OneRowPerChange
