SPECIFICATION Spec
CONSTANTS
  EventType <- MCEventType
  Log <- MCLog
  Targets <- MCTargets
  Unhandled = {"annotate"}
  Opens = {"gtid"}
  Closes = {"xid"}
INVARIANTS
  NoLostWakeup
  CommittedOnReturn
PROPERTIES
  StopAfterEnds
\* The test ends, or waits for a thread that has failed.
CHECK_DEADLOCK FALSE
