--------------------------- MODULE UpdateDatabase ---------------------------
(***************************************************************************)
(* The replicator: main() reads the source and its position from           *)
(* PostgreSQL, ReplicationStream::readEvents fetches the binlog's events    *)
(* one by one, and UpdateDatabase applies each of them over its one         *)
(* connection.  A step is one SQL statement, or a handler that issues none, *)
(* so that the process can die between any two statements.                  *)
(***************************************************************************)
EXTENDS SourceServer

CONSTANTS
  Database,    \* source.database: the database that is replicated
  Added,       \* names of the tables addTable has recorded for this source
  NoTable,     \* tables.end()
  NoEvent,
  ReadsBool,   \* PqRecordSet::at knows the type of selectColumns' is_pk
  MaxCrashes   \* bound for TLC: how often the process is lost

ASSUME ReplicatorAssumption ==
  /\ Added \subseteq Names
  /\ \A n \in Added : <<Database, n>> \in Tables
  /\ NoTable \notin Added
  /\ ReadsBool \in BOOLEAN
  /\ MaxCrashes \in Nat

VARIABLES
  pc,          \* where the process is
  cur,         \* the event being handled
  rfile, rpos, \* the file the dump thread reads, events sent (of the whole log)
  selected,    \* UpdateDatabase::selected
  intx,        \* UpdateDatabase::intx
  pgtx,        \* a transaction is open on the PostgreSQL connection
  session,     \* what that connection sees
  committed,   \* what PostgreSQL has committed
  applied,     \* the event at which the last commit was made
  failure,     \* the verify or the constraint that killed the process last
  crashes

stream == <<cur, rfile, rpos>>
memory == <<selected, intx>>
target == <<pgtx, session, committed, applied>>
ghosts == <<failure, crashes>>
replicatorVars == <<pc, cur, rfile, rpos, selected, intx, pgtx, session,
                    committed, applied, failure, crashes>>
vars == <<sourceVars, replicatorVars>>

\* mygrate.source's filename and position, beside the replicated tables.
Target == [data : [Added -> [Keys -> Vals \union {None}]], file : Nat, pos : Nat]

Replicated(c) == [n \in Added |-> c[<<Database, n>>]]

Failures == {"none", "columns", "inserted", "updated", "deleted"}

-----------------------------------------------------------------------------
\* The end of the process, whatever its cause: it has no memory and the server
\* rolls its open transaction back.
ProcessGone ==
  /\ pc' = "down"
  /\ cur' = NoEvent
  /\ rfile' = 0 /\ rpos' = 0
  /\ selected' = NoTable
  /\ intx' = FALSE
  /\ pgtx' = FALSE
  /\ session' = committed

\* No handler's exception is caught between readEvents and main.
Throw(cause) ==
  /\ ProcessGone
  /\ failure' = cause
  /\ UNCHANGED <<committed, applied, crashes>>

\* The columns of a recorded table, is_pk among them, make a TableOutput: a boolean
\* PqRecordSet::at has no case for becomes text, and no bool from there.
TablesReadBack == ReadsBool \/ Added = {}

\* Faulty: a restart forgets the offset and reads the file from its beginning.
StartAtFileBeginning ==
  /\ pc = "down"
  /\ TablesReadBack
  /\ pc' = "open"
  /\ rfile' = committed.file
  /\ rpos' = starts[committed.file]
  /\ UNCHANGED <<cur, memory, target, ghosts>>

\* The constructor reads the recorded tables back, or throws before it has done
\* anything; then getSource() reads the position.
Start ==
  /\ pc = "down"
  /\ TablesReadBack
  /\ pc' = "open"
  /\ rfile' = committed.file
  /\ rpos' = starts[committed.file] + committed.pos
  /\ UNCHANGED <<cur, memory, target, ghosts>>

ArtificialRotate(f) ==
  [type |-> "rotate", artificial |-> TRUE, filename |-> f, position |-> 0,
   next_event_pos |-> 0]

\* The dump of a file begins with an artificial ROTATE event that names it.
OpenStream ==
  /\ pc = "open"
  /\ rpos <= FileEnd(rfile)
  /\ cur' = ArtificialRotate(rfile)
  /\ pc' = "handle"
  /\ UNCHANGED <<rfile, rpos, memory, target, ghosts>>

\* A position outside the file: mariadb_rpl_fetch returns NULL, main returns.
StreamRefused ==
  /\ pc = "open"
  /\ rpos > FileEnd(rfile)
  /\ ProcessGone
  /\ UNCHANGED <<committed, applied, ghosts>>

Fetch ==
  /\ pc = "fetch"
  /\ rpos < FileEnd(rfile)
  /\ rpos' = rpos + 1
  /\ cur' = log[rpos']
  /\ pc' = "handle"
  /\ UNCHANGED <<rfile, memory, target, ghosts>>

\* The dump thread goes on to the next file.
FetchNextFile ==
  /\ pc = "fetch"
  /\ rfile < Len(starts) /\ rpos = FileEnd(rfile)
  /\ rfile' = rfile + 1
  /\ cur' = ArtificialRotate(rfile')
  /\ pc' = "handle"
  /\ UNCHANGED <<rpos, memory, target, ghosts>>

-----------------------------------------------------------------------------
\* Faulty: the database of the event is not compared.
TableMapOfAnyDatabase ==
  /\ pc = "handle"
  /\ cur.type = "table_map"
  /\ selected' = IF cur.table[2] \in Added THEN cur.table[2] ELSE NoTable
  /\ pc' = "fetch"
  /\ UNCHANGED <<stream, intx, target, ghosts>>

\* Faulty: a table that is not replicated leaves the last one selected.
TableMapKeepsSelected ==
  /\ pc = "handle"
  /\ cur.type = "table_map"
  /\ selected' = IF cur.table[1] = Database /\ cur.table[2] \in Added
                 THEN cur.table[2] ELSE selected
  /\ pc' = "fetch"
  /\ UNCHANGED <<stream, intx, target, ghosts>>

\* Faulty: any table of the database is taken for a replicated one.
TableMapOfAnyTable ==
  /\ pc = "handle"
  /\ cur.type = "table_map"
  /\ selected' = IF cur.table[1] = Database THEN cur.table[2] ELSE NoTable
  /\ pc' = "fetch"
  /\ UNCHANGED <<stream, intx, target, ghosts>>

TableMap ==
  /\ pc = "handle"
  /\ cur.type = "table_map"
  /\ selected' = IF cur.table[1] = Database /\ cur.table[2] \in Added
                 THEN cur.table[2] ELSE NoTable
  /\ pc' = "fetch"
  /\ UNCHANGED <<stream, intx, target, ghosts>>

\* Faulty: the artificial ROTATE that opens every dump is applied.
IgnoredButArtificial ==
  \/ cur.type \in {"query", "stop"}
  \/ cur.type \in RowsTypes /\ selected = NoTable

\* Events without a handler, and those whose handler returns at once.
Ignored ==
  \/ cur.type \in {"query", "stop"}
  \/ cur.type = "rotate" /\ cur.artificial
  \/ cur.type \in RowsTypes /\ selected = NoTable

IgnoreEvent ==
  /\ pc = "handle"
  /\ Ignored
  /\ pc' = "fetch"
  /\ UNCHANGED <<stream, memory, target, ghosts>>

\* verifyRow: the row's columns are counted against the selected table's.
ColumnsAgree ==
  cur.type \in RowsTypes => Columns[cur.table] = Columns[<<Database, selected>>]

VerifyRowFails ==
  /\ pc = "handle"
  /\ cur.type # "table_map" /\ ~Ignored
  /\ ~ColumnsAgree
  /\ Throw("columns")

\* Faulty: no transaction is begun.
BeforeEventWithoutBegin ==
  /\ pc = "handle"
  /\ cur.type # "table_map" /\ ~Ignored
  /\ ColumnsAgree
  /\ pc' = "body"
  /\ UNCHANGED <<stream, memory, target, ghosts>>

\* BEGIN on a connection that is in a transaction already is only a warning.
BeforeEvent ==
  /\ pc = "handle"
  /\ cur.type # "table_map" /\ ~Ignored
  /\ ColumnsAgree
  /\ pgtx' = (pgtx \/ ~intx)
  /\ pc' = "body"
  /\ UNCHANGED <<stream, memory, session, committed, applied, ghosts>>

\* Statements succeeded: outside a transaction each of them commits itself.
Executed(result) ==
  /\ session' = result
  /\ committed' = IF pgtx THEN committed ELSE result

InBody(types) == pc = "body" /\ cur.type \in types

Stored(k) == session.data[selected][k]

InsertRow ==
  /\ InBody({"write"})
  /\ Stored(cur.after.key) = None
  /\ Executed([session EXCEPT !.data[selected][cur.after.key] = cur.after.val])
  /\ pc' = "after"
  /\ UNCHANGED <<stream, memory, pgtx, applied, ghosts>>

\* The primary key copyIndexes created refuses the row.
InsertRowFails ==
  /\ InBody({"write"})
  /\ Stored(cur.after.key) # None
  /\ Throw("inserted")

\* Every image of the event is an UPDATE of the row that has the image's key:
\* the one before the change sets the row to what it is, the one after it looks
\* the row up by its new key.
UpdateRow ==
  /\ InBody({"update"})
  /\ Stored(cur.before.key) # None /\ Stored(cur.after.key) # None
  /\ Executed([session EXCEPT
       !.data[selected][cur.before.key] = cur.before.val,
       !.data[selected][cur.after.key] = cur.after.val])
  /\ pc' = "after"
  /\ UNCHANGED <<stream, memory, pgtx, applied, ghosts>>

UpdateRowFails ==
  /\ InBody({"update"})
  /\ Stored(cur.before.key) = None \/ Stored(cur.after.key) = None
  /\ Throw("updated")

DeleteRow ==
  /\ InBody({"delete"})
  /\ Stored(cur.before.key) # None
  /\ Executed([session EXCEPT !.data[selected][cur.before.key] = None])
  /\ pc' = "after"
  /\ UNCHANGED <<stream, memory, pgtx, applied, ghosts>>

DeleteRowFails ==
  /\ InBody({"delete"})
  /\ Stored(cur.before.key) = None
  /\ Throw("deleted")

\* Faulty: the name of the new file is not stored.
RotateWithoutFile ==
  /\ InBody({"rotate"})
  /\ Executed([session EXCEPT !.pos = cur.position])
  /\ pc' = "after"
  /\ UNCHANGED <<stream, memory, pgtx, applied, ghosts>>

Rotate ==
  /\ InBody({"rotate"})
  /\ Executed([session EXCEPT !.file = cur.filename, !.pos = cur.position])
  /\ pc' = "after"
  /\ UNCHANGED <<stream, memory, pgtx, applied, ghosts>>

Gtid ==
  /\ InBody({"gtid"})
  /\ intx' = (intx \/ ~cur.standalone)
  /\ pc' = "after"
  /\ UNCHANGED <<stream, selected, target, ghosts>>

\* Faulty: the group is not left.
XidStaysInTx ==
  /\ InBody({"xid"})
  /\ pc' = "after"
  /\ UNCHANGED <<stream, memory, target, ghosts>>

Xid ==
  /\ InBody({"xid"})
  /\ intx' = FALSE
  /\ pc' = "after"
  /\ UNCHANGED <<stream, selected, target, ghosts>>

-----------------------------------------------------------------------------
\* afterEvent inside a group of the source: the transaction stays open.
StayInTx ==
  /\ pc = "after"
  /\ intx
  /\ pc' = "fetch"
  /\ UNCHANGED <<stream, memory, target, ghosts>>

\* updateSourcePosition: only the position, whatever the handler stored before.
SavePosition ==
  /\ pc = "after"
  /\ ~intx
  /\ Executed([session EXCEPT !.pos = cur.next_event_pos])
  /\ pc' = "commit"
  /\ UNCHANGED <<stream, memory, pgtx, applied, ghosts>>

CommitTx ==
  /\ pc = "commit"
  /\ committed' = session
  /\ pgtx' = FALSE
  /\ applied' = rpos
  /\ pc' = "fetch"
  /\ UNCHANGED <<stream, memory, session, ghosts>>

\* The process is killed, or loses one of its connections.
Crash ==
  /\ pc # "down"
  /\ crashes < MaxCrashes
  /\ crashes' = crashes + 1
  /\ ProcessGone
  /\ UNCHANGED <<committed, applied, failure>>

-----------------------------------------------------------------------------
Init ==
  /\ SourceInit
  /\ pc = "down" /\ cur = NoEvent
  /\ rfile = 0 /\ rpos = 0
  /\ selected = NoTable
  /\ intx = FALSE /\ pgtx = FALSE
  /\ committed = [data |-> Replicated(Current), file |-> 1, pos |-> 0]
  /\ session = committed
  /\ applied = 0
  /\ failure = "none" /\ crashes = 0

\* One iteration's steps of the process, apart from its being started.
Process ==
  \/ OpenStream \/ StreamRefused \/ Fetch \/ FetchNextFile
  \/ TableMap \/ IgnoreEvent \/ VerifyRowFails \/ BeforeEvent
  \/ InsertRow \/ InsertRowFails \/ UpdateRow \/ UpdateRowFails
  \/ DeleteRow \/ DeleteRowFails \/ Rotate \/ Gtid \/ Xid
  \/ StayInTx \/ SavePosition \/ CommitTx

Replicator == Start \/ Process \/ Crash

Next ==
  \/ SourceNext /\ UNCHANGED replicatorVars
  \/ Replicator /\ UNCHANGED sourceVars

Spec == Init /\ [][Next]_vars

\* The process runs as long as it can, and whatever supervises it starts it again.
Fairness == WF_vars(Process /\ UNCHANGED sourceVars) /\ WF_vars(Start /\ UNCHANGED sourceVars)

FairSpec == Spec /\ Fairness
-----------------------------------------------------------------------------
(* Type invariant. *)
TypeOK ==
  /\ SourceTypeOK
  /\ pc \in {"down", "open", "fetch", "handle", "body", "after", "commit"}
  /\ cur \in Event \union {NoEvent}
  /\ rfile \in Nat /\ rpos \in Nat
  /\ selected \in Added \union {NoTable}
  /\ intx \in BOOLEAN /\ pgtx \in BOOLEAN
  /\ session \in Target /\ committed \in Target
  /\ applied \in Nat
  /\ failure \in Failures
  /\ crashes \in Nat

(* What PostgreSQL has committed of the replicated tables is what the source held   *)
(* at the event of the last commit, and the source was inside no transaction there: *)
(* a crash between two of the handlers' statements leaves no half-applied group and *)
(* repeats or loses none.                                                           *)
AtomicMirror ==
  /\ Quiet(applied)
  /\ committed.data = Replicated(history[applied + 1])

(* The file and position getSource() would resume from are those of the event that  *)
(* was committed last.  The commit of a rotate is left out: afterEvent overwrites   *)
(* the position rotate stored, until the next commit puts it right.                 *)
PositionTrue ==
  (applied = 0 \/ log[applied].type # "rotate")
    => starts[committed.file] + committed.pos = applied

\* A group that ended with QUERY, which has no handler (eventHandlers.h:19).
EndsUnseen(i) == log[i].type = "query" /\ log[i - 1].type # "gtid"

(* Between two events a PostgreSQL transaction is open exactly while the source's   *)
(* own group is, or since one that ended unseen: none else is held open while       *)
(* mygrate waits for the next group.                                                *)
TransactionPerGroup ==
  pc = "fetch" =>
    (pgtx <=> ~Quiet(rpos) \/ \E i \in (applied + 1)..rpos : EndsUnseen(i))

(* No binlog of the workload makes a verify or a constraint fail: every row an      *)
(* event changes is found, with the number of columns addTable saw.                 *)
NoFailure == failure = "none"

(* No statement of a handler runs outside BEGIN and COMMIT: the database changes    *)
(* at a COMMIT alone, whichever statement fails or is cut off by a crash.           *)
ChangesAtCommit == [][committed' # committed => pc = "commit" /\ pgtx]_vars

(* updateRow and deleteRow verify that each statement touched exactly one row       *)
(* (updateDatabase.cpp:269, 300).                                                   *)
OneRowPerChange == failure \notin {"updated", "deleted"}

(* insertRow's row is accepted: it was not there yet (updateDatabase.cpp:332).      *)
RowIsNew == failure # "inserted"

(* verifyRow: the row data has the number of columns of the table it is applied to  *)
(* (updateDatabase.cpp:226).                                                        *)
ColumnsMatch == failure # "columns"

(* Every transaction in the binlog reaches the target.                              *)
Delivered ==
  \A i \in 1..MaxLog : (i <= Len(log) /\ log[i].type = "xid") ~> applied >= i

(* The replicator implements Replica: the copy jumps from one quiet point of the    *)
(* source to a later one.                                                           *)
Promise == INSTANCE Replica WITH
  Copied <- Replicated,
  states <- history,
  quiet  <- {i \in 0..Len(log) : Quiet(i)},
  at     <- applied,
  copy   <- committed.data

ImplementsReplica == Promise!Spec
=============================================================================
