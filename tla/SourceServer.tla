---------------------------- MODULE SourceServer ----------------------------
(***************************************************************************)
(* The MariaDB server mygrate replicates from, as src/ relies on it: the   *)
(* tables it stores and the row binlog it writes about them.  The server   *)
(* is external; the shape of its events is the one the handlers of         *)
(* EventHandlerBase read.                                                  *)
(*                                                                         *)
(* The binlog is one sequence, log, cut into files by starts.  An event    *)
(* has length one, so that its next_event_pos is its number in its file.   *)
(* A commit makes a whole group of events visible, but the dump thread     *)
(* sends them one by one and a reader cannot tell how many are to follow:  *)
(* the log therefore grows by one event at a time, in the order a group    *)
(* prescribes.                                                             *)
(***************************************************************************)
EXTENDS Integers, Sequences

CONSTANTS
  Databases, Names,   \* database names and table names of the server
  Tables,             \* its tables, as <<database, name>>
  Keys, Vals, None,   \* primary keys, the rest of a row, and no row
  Columns,            \* how many columns each table has
  InitialContents,    \* what the tables may hold when replication starts
  Workload,           \* what the server does beside plain transactions
  MaxLog, MaxFiles    \* bounds for TLC: events and files of the binlog

Workloads == {"ddl", "nontrans", "rotate", "restart", "multi", "rekey"}

Content == [Tables -> [Keys -> Vals \union {None}]]

ASSUME SourceAssumption ==
  /\ Tables \subseteq Databases \X Names
  /\ None \notin Vals
  /\ Columns \in [Tables -> Nat]
  /\ InitialContents \subseteq Content
  /\ Workload \subseteq Workloads
  /\ MaxLog \in Nat /\ MaxFiles \in Nat

VARIABLES
  log,      \* the events of the binlog, all files in order
  starts,   \* starts[f]: how many events lie before file f
  history,  \* history[i + 1]: what the tables hold after i events
  mapped    \* tables of the current statement whose rows are not yet written

sourceVars == <<log, starts, history, mapped>>

-----------------------------------------------------------------------------
Image == [key : Keys, val : Vals]

GtidEvent     == [type : {"gtid"}, standalone : BOOLEAN, next_event_pos : Nat]
TableMapEvent == [type : {"table_map"}, table : Tables, next_event_pos : Nat]
\* A rows event carries one changed row: its image before and after the change
\* (the same image twice where the binlog has only one of them).
RowsTypes     == {"write", "update", "delete"}
RowsEvent     == [type : RowsTypes, table : Tables,
                  before : Image, after : Image, next_event_pos : Nat]
RotateEvent   == [type : {"rotate"}, artificial : BOOLEAN,
                  filename : Nat, position : Nat, next_event_pos : Nat]
PlainEvent    == [type : {"xid", "query", "stop"}, next_event_pos : Nat]

Event == GtidEvent \union TableMapEvent \union RowsEvent
           \union RotateEvent \union PlainEvent

\* No group is open after i events: the source holds what it has committed.
Quiet(i) ==
  i > 0 => \/ log[i].type \in {"xid", "query", "rotate", "stop"}
           \/ log[i].type = "gtid" /\ log[i].standalone

Current == history[Len(log) + 1]

\* The content of the tables after a rows event on top of content c.
Changed(c, type, t, before, after) ==
  [c EXCEPT ![t] =
     [k \in Keys |-> IF type # "delete" /\ k = after.key THEN after.val
                     ELSE IF type # "write" /\ k = before.key THEN None
                     ELSE c[t][k]]]

-----------------------------------------------------------------------------
NextEventPos == Len(log) + 1 - starts[Len(starts)]

\* Write event e, after which the tables hold content c.
Write(e, c) ==
  /\ Len(log) < MaxLog
  /\ log' = Append(log, e)
  /\ history' = Append(history, c)

Idle == Quiet(Len(log))

\* The server ended the file it was writing and has to open the next one.
Stopped == Len(log) > 0 /\ log[Len(log)].type = "stop"
             /\ starts[Len(starts)] # Len(log)

\* Only the QUERY event that says what it did follows a standalone GTID.
AwaitsQuery == Len(log) > 0 /\ log[Len(log)].type = "gtid" /\ log[Len(log)].standalone

BeginGroup(standalone) ==
  /\ Idle /\ ~Stopped /\ ~AwaitsQuery
  /\ standalone => "ddl" \in Workload
  /\ Write([type |-> "gtid", standalone |-> standalone,
            next_event_pos |-> NextEventPos], Current)
  /\ UNCHANGED <<starts, mapped>>

\* A statement over several tables maps each of them before it writes any row.
MapTable(t) ==
  /\ ~Idle
  /\ \/ mapped = {}
     \/ "multi" \in Workload /\ log[Len(log)].type = "table_map" /\ t \notin mapped
  /\ Write([type |-> "table_map", table |-> t,
            next_event_pos |-> NextEventPos], Current)
  /\ mapped' = mapped \union {t}
  /\ UNCHANGED starts

WriteRows(t, type, before, after) ==
  /\ t \in mapped
  /\ Write([type |-> type, table |-> t, before |-> before, after |-> after,
            next_event_pos |-> NextEventPos],
           Changed(Current, type, t, before, after))
  /\ mapped' = mapped \ {t}
  /\ UNCHANGED starts

InsertSource(t, k, v) ==
  /\ Current[t][k] = None
  /\ LET image == [key |-> k, val |-> v] IN WriteRows(t, "write", image, image)

DeleteSource(t, k) ==
  /\ Current[t][k] # None
  /\ LET image == [key |-> k, val |-> Current[t][k]] IN WriteRows(t, "delete", image, image)

UpdateSource(t, k, newkey, v) ==
  /\ Current[t][k] # None
  /\ IF newkey = k THEN v # Current[t][k]
     ELSE "rekey" \in Workload /\ Current[t][newkey] = None
  /\ WriteRows(t, "update", [key |-> k, val |-> Current[t][k]], [key |-> newkey, val |-> v])

\* XID ends a group of a transactional engine, the QUERY event COMMIT any other.
EndGroup(type) ==
  /\ ~Idle /\ mapped = {}
  /\ log[Len(log)].type \in RowsTypes
  /\ type = "query" => "nontrans" \in Workload
  /\ Write([type |-> type, next_event_pos |-> NextEventPos], Current)
  /\ UNCHANGED <<starts, mapped>>

DdlQuery ==
  /\ AwaitsQuery
  /\ Write([type |-> "query", next_event_pos |-> NextEventPos], Current)
  /\ UNCHANGED <<starts, mapped>>

\* FLUSH LOGS, or max_binlog_size: the file ends with a ROTATE event that names
\* the next one.
RotateLog ==
  /\ "rotate" \in Workload
  /\ Idle /\ ~Stopped /\ ~AwaitsQuery /\ Len(starts) < MaxFiles
  /\ Write([type |-> "rotate", artificial |-> FALSE, filename |-> Len(starts) + 1,
            position |-> 0, next_event_pos |-> NextEventPos], Current)
  /\ starts' = Append(starts, Len(log) + 1)
  /\ UNCHANGED mapped

\* A clean shutdown ends the file with STOP; the restarted server opens another.
StopServer ==
  /\ "restart" \in Workload
  /\ Idle /\ ~Stopped /\ ~AwaitsQuery /\ Len(starts) < MaxFiles
  /\ Write([type |-> "stop", next_event_pos |-> NextEventPos], Current)
  /\ UNCHANGED <<starts, mapped>>

RestartServer ==
  /\ Stopped
  /\ starts' = Append(starts, Len(log))
  /\ UNCHANGED <<log, history, mapped>>

-----------------------------------------------------------------------------
SourceInit ==
  /\ log = <<>>
  /\ starts = <<0>>
  /\ \E c \in InitialContents : history = <<c>>
  /\ mapped = {}

ChangeRow ==
  \E t \in mapped, k \in Keys :
    \/ \E v \in Vals : InsertSource(t, k, v)
    \/ \E newkey \in Keys, v \in Vals : UpdateSource(t, k, newkey, v)
    \/ DeleteSource(t, k)

SourceNext ==
  \/ \E standalone \in BOOLEAN : BeginGroup(standalone)
  \/ \E t \in Tables : MapTable(t)
  \/ ChangeRow
  \/ \E type \in {"xid", "query"} : EndGroup(type)
  \/ DdlQuery
  \/ RotateLog
  \/ StopServer
  \/ RestartServer

\* A file ends where the next one begins, or at the end of the log.
FileEnd(f) == IF f < Len(starts) THEN starts[f + 1] ELSE Len(log)

SourceTypeOK ==
  /\ log \in Seq(Event)
  /\ starts \in Seq(Nat) /\ Len(starts) > 0
  /\ history \in Seq(Content) /\ Len(history) = Len(log) + 1
  /\ mapped \subseteq Tables
=============================================================================
