SPECIFICATION Spec
CONSTANTS
  Tables <- MCTables
  Streams <- MCStreams
  NoMap = NoMap
INVARIANTS
  MetadataInStep
  OwnMap
  DataInStep
  OwnCells
  Kept
  RefusesCopy
  RefusesRows
PROPERTY
  ThrowsRightly
\* A reader that has been refused, or has read all there is, stops.
CHECK_DEADLOCK FALSE
