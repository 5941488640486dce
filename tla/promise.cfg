SPECIFICATION FairSpec
CONSTANTS
  d = d
  o = o
  a = a
  b = b
  Databases = {d, o}
  Names = {a, b}
  Tables <- MCTwoTables
  Keys = {k1}
  Vals = {v1, v2}
  None = None
  Columns <- MCColumns
  InitialContents <- MCInitialContents
  Workload = {"ddl", "nontrans"}
  MaxLog = 8
  MaxFiles = 1
  Database = d
  Added = {a}
  NoTable = NoTable
  NoEvent = NoEvent
  ReadsBool = TRUE
  MaxCrashes = 2
CHECK_DEADLOCK FALSE
INVARIANTS
  TransactionPerGroup
  AtomicMirror
  PositionTrue
  NoFailure
PROPERTIES
  ImplementsReplica
  Delivered
