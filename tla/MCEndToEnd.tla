------------------------------ MODULE MCEndToEnd ------------------------------
(* Two transactions and a rotation, and the kinds of targets the tests wait for: a  *)
(* whole transaction, rows without their XID, everything up to the rotation.        *)
EXTENDS EndToEnd

MCEventType == {"gtid", "write", "annotate", "xid", "rotate"}
MCLog == <<"gtid", "annotate", "write", "write", "xid", "gtid", "write", "xid", "rotate">>

MCTarget(gtids, writes, xids, rotates) ==
  [e \in MCEventType |-> CASE e = "gtid"   -> gtids
                           [] e = "write"  -> writes
                           [] e = "xid"    -> xids
                           [] e = "rotate" -> rotates
                           [] OTHER        -> 0]

MCTargets == {MCTarget(1, 2, 1, 0), MCTarget(0, 2, 0, 0), MCTarget(0, 3, 1, 0), MCTarget(0, 3, 0, 1)}
=============================================================================
