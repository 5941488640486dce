SPECIFICATION Spec
CONSTANTS
  d = d
  o = o
  a = a
  b = b
  Databases = {d, o}
  Names = {a, b}
  Tables <- MCTables
  Keys = {k1, k2}
  Vals = {v1, v2}
  None = None
  Columns <- MCColumns
  InitialContents <- MCInitialContents
  Workload = {"ddl", "nontrans", "rotate", "restart", "multi", "rekey"}
  MaxLog = 6
  MaxFiles = 2
  Database = d
  Added = {a}
  NoTable = NoTable
  NoEvent = NoEvent
  ReadsBool = TRUE
  MaxCrashes = 1
CHECK_DEADLOCK FALSE
INVARIANTS TypeOK
PROPERTIES ChangesAtCommit
