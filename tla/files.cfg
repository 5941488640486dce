SPECIFICATION FairSpec
CONSTANTS
  d = d
  o = o
  a = a
  b = b
  Databases = {d, o}
  Names = {a, b}
  Tables <- MCOneTable
  Keys = {k1}
  Vals = {v1, v2}
  None = None
  Columns <- MCColumns
  InitialContents <- MCInitialContents
  Workload = {"rotate", "ddl"}
  MaxLog = 10
  MaxFiles = 3
  Database = d
  Added = {a}
  NoTable = NoTable
  NoEvent = NoEvent
  ReadsBool = TRUE
  MaxCrashes = 0
CHECK_DEADLOCK FALSE
INVARIANTS AtomicMirror PositionTrue
PROPERTIES Delivered
