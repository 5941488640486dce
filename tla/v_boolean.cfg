SPECIFICATION FairSpec
CONSTANTS
  d = d
  o = o
  a = a
  b = b
  Databases = {d, o}
  Names = {a, b}
  Tables <- MCOneTable
  Keys = {k1}
  Vals = {v1, v2}
  None = None
  Columns <- MCColumns
  InitialContents <- MCInitialContents
  Workload = {}
  MaxLog = 4
  MaxFiles = 1
  Database = d
  Added = {a}
  NoTable = NoTable
  NoEvent = NoEvent
  ReadsBool = FALSE
  MaxCrashes = 0
CHECK_DEADLOCK FALSE
PROPERTIES Delivered
