------------------------------- MODULE AddTable -------------------------------
(***************************************************************************)
(* How a source comes to be replicated: createNew registers it with the    *)
(* position its binlog has, addTable copies one table after another, and   *)
(* then UpdateDatabase follows the binlog from the registered position.    *)
(* The source goes on writing all the while.  A step ends where something  *)
(* else can come between, or where addTable can fail; the statements it    *)
(* sends PostgreSQL in between are visible to nobody before its COMMIT.    *)
(***************************************************************************)
EXTENDS UpdateDatabase

CONSTANTS
  IndexNames,
  Indexes,     \* the names copyIndexes gives the indexes of a table
  Mappable,    \* the tables whose column types TypeMapper knows
  ReadOnly,    \* nobody writes the tables while they are added
  MaxSources, MaxAdds  \* bounds for TLC: sources, and table_ids drawn

ASSUME SetUpAssumption ==
  /\ Indexes \in [Added -> SUBSET IndexNames]
  /\ Mappable \subseteq Added
  /\ ReadOnly \in BOOLEAN
  /\ ReadsBool        \* a process that comes back reads its tables
  /\ MaxSources \in Nat /\ MaxAdds \in Nat

VARIABLES
  step,     \* where addTable is; "none" before createNew
  adding,   \* its tableName
  start,    \* the position it read, in events of the whole log
  tables,   \* UpdateDatabase::tables
  sources,  \* the rows of mygrate.source are numbered 1..sources
  lastid,   \* the sequence of mygrate.tables, which no rollback sets back
  catalog,  \* mygrate.tables, and the relations of the schema, as committed
  draft,    \* the same, as the connection sees them
  refused   \* why addTable failed last

TableRow == [table_id : Nat, name : Added, start_position : Nat]

\* A table and an index cannot have the same name.
Catalog == [tables : SUBSET TableRow, relations : SUBSET (Names \union IndexNames)]

setUpVars == <<step, adding, start, tables, sources, lastid, catalog, draft, refused>>
allVars == <<vars, setUpVars>>

Refusals == {"none", "duplicate", "reference", "type", "name"}

Named(c) == {row.name : row \in c.tables}

\* The process and its memory as they are while nothing is replicated.
noProcess == <<pc, cur, rfile, rpos, selected, intx, failure>>

SetUpOver == step = "replicating"

-----------------------------------------------------------------------------
\* Faulty: the source is registered with the beginning of the current file.
CreateNewAtFileStart ==
  /\ step = "none"
  /\ Idle
  /\ sources < MaxSources
  /\ step' = "idle"
  /\ sources' = sources + 1
  /\ committed' = [committed EXCEPT !.file = Len(starts), !.pos = 0]
  /\ session' = committed'
  /\ applied' = starts[Len(starts)]
  /\ UNCHANGED <<noProcess, pgtx, crashes, adding, start, tables, lastid, catalog,
                 draft, refused>>

\* SHOW MASTER STATUS sees no group of which it does not see the end.
CreateNew ==
  /\ step = "none"
  /\ Idle
  /\ sources < MaxSources
  /\ step' = "idle"
  /\ sources' = sources + 1
  /\ committed' = [committed EXCEPT !.file = Len(starts),
                                    !.pos = Len(log) - starts[Len(starts)]]
  /\ session' = committed'
  /\ applied' = Len(log)
  /\ UNCHANGED <<noProcess, pgtx, crashes, adding, start, tables, lastid, catalog,
                 draft, refused>>

\* createNew for some other database, whose tables go into a schema of its own.
CreateOther ==
  /\ sources < MaxSources
  /\ sources' = sources + 1
  /\ UNCHANGED <<replicatorVars, step, adding, start, tables, lastid, catalog,
                 draft, refused>>

-----------------------------------------------------------------------------
\* LOCK TABLE waits for the transactions that write the table.
LockTable(n) ==
  /\ step = "idle" /\ lastid < MaxAdds
  /\ Idle
  /\ step' = "locked"
  /\ adding' = n
  /\ UNCHANGED <<replicatorVars, start, tables, sources, lastid, catalog, draft, refused>>

\* SHOW MASTER STATUS, then UNLOCK TABLES: the transaction has no view yet.
ReadPosition ==
  /\ step = "locked"
  /\ Idle
  /\ step' = "positioned"
  /\ start' = Len(log)
  /\ UNCHANGED <<replicatorVars, adding, tables, sources, lastid, catalog, draft, refused>>

\* insertTable draws a table_id; fk_table_source compares it with source_id.
TableRefusal ==
  IF adding \in Named(catalog) THEN "duplicate"
  ELSE IF lastid + 1 \notin 1..sources THEN "reference"
  ELSE IF adding \notin Mappable THEN "type"
  ELSE IF adding \in catalog.relations THEN "name"
  ELSE "none"

\* Faulty: the transactions are committed, whatever unwinds them.
CommitOnException(why) ==
  /\ step' = "idle"
  /\ adding' = NoTable
  /\ refused' = why
  /\ pgtx' = FALSE
  /\ committed' = session
  /\ catalog' = draft
  /\ UNCHANGED <<noProcess, applied, crashes, session, start, tables, sources, draft>>

\* The exception leaves addTable through both transactions' destructors.
Refuse(why) ==
  /\ step' = "idle"
  /\ adding' = NoTable
  /\ refused' = why
  /\ pgtx' = FALSE
  /\ session' = committed
  /\ draft' = catalog
  /\ UNCHANGED <<noProcess, committed, applied, crashes, start, tables, sources, catalog>>

\* BEGIN, insertTable, insertColumn for each column, CREATE TABLE.
RecordTable ==
  /\ step = "positioned"
  /\ TableRefusal = "none"
  /\ step' = "recorded"
  /\ pgtx' = TRUE
  /\ lastid' = lastid + 1
  /\ draft' =
       [tables |-> draft.tables \union
          {[table_id |-> lastid + 1, name |-> adding, start_position |-> start]},
        relations |-> draft.relations \union {adding}]
  /\ UNCHANGED <<noProcess, session, committed, applied, crashes, adding, start, tables,
                 sources, catalog, refused>>

RecordTableFails ==
  /\ step = "positioned"
  /\ TableRefusal # "none"
  /\ lastid' = lastid + 1
  /\ Refuse(TableRefusal)

\* The SELECT of the cursor opens the transaction's view of the source.
CopyTableContent ==
  /\ step = "recorded"
  /\ Idle
  /\ step' = "copied"
  /\ session' = [session EXCEPT !.data[adding] = Current[<<Database, adding>>]]
  /\ UNCHANGED <<noProcess, pgtx, committed, applied, crashes, adding, start, tables,
                 sources, lastid, catalog, draft, refused>>

CopyIndexes ==
  /\ step = "copied"
  /\ Indexes[adding] \intersect draft.relations = {}
  /\ step' = "indexed"
  /\ draft' = [draft EXCEPT !.relations = @ \union Indexes[adding]]
  /\ UNCHANGED <<replicatorVars, adding, start, tables, sources, lastid, catalog, refused>>

CopyIndexesFails ==
  /\ step = "copied"
  /\ Indexes[adding] \intersect draft.relations # {}
  /\ Refuse("name")
  /\ UNCHANGED lastid

\* Faulty: the name is moved from before it is remembered.
CommitAddMovedName ==
  /\ step = "indexed"
  /\ step' = "idle"
  /\ adding' = NoTable
  /\ pgtx' = FALSE
  /\ committed' = session
  /\ catalog' = draft
  /\ tables' = tables \union {adding'}
  /\ UNCHANGED <<noProcess, session, applied, crashes, start, sources, lastid, draft, refused>>

\* Faulty: the added table is not remembered.
CommitAddForgets ==
  /\ step = "indexed"
  /\ step' = "idle"
  /\ adding' = NoTable
  /\ pgtx' = FALSE
  /\ committed' = session
  /\ catalog' = draft
  /\ UNCHANGED <<noProcess, session, applied, crashes, start, tables, sources, lastid,
                 draft, refused>>

\* COMMIT, tables.emplace, and the end of the transaction on the source.
CommitAdd ==
  /\ step = "indexed"
  /\ step' = "idle"
  /\ adding' = NoTable
  /\ pgtx' = FALSE
  /\ committed' = session
  /\ catalog' = draft
  /\ tables' = tables \union {adding}
  /\ UNCHANGED <<noProcess, session, applied, crashes, start, sources, lastid, draft, refused>>

\* The process is killed; the next one reads its tables back.
SetUpCrash ==
  /\ step \notin {"none", "replicating"}
  /\ crashes < MaxCrashes
  /\ crashes' = crashes + 1
  /\ step' = "idle"
  /\ adding' = NoTable
  /\ pgtx' = FALSE
  /\ session' = committed
  /\ draft' = catalog
  /\ tables' = Named(catalog)
  /\ UNCHANGED <<noProcess, committed, applied, start, sources, lastid, catalog, refused>>

\* Replication is started once every table of it has been added.
BeginReplication ==
  /\ step = "idle"
  /\ tables = Added
  /\ step' = "replicating"
  /\ UNCHANGED <<replicatorVars, adding, start, tables, sources, lastid, catalog, draft,
                 refused>>

-----------------------------------------------------------------------------
\* A locked table is not written, nor is one nobody writes while it is added.
Writable(t) ==
  /\ ~(step = "locked" /\ t = <<Database, adding>>)
  /\ ~(ReadOnly /\ step # "none" /\ ~SetUpOver /\ t \in {Database} \X Added)

SetUpInit ==
  /\ SourceInit
  /\ pc = "down" /\ cur = NoEvent
  /\ rfile = 0 /\ rpos = 0
  /\ selected = NoTable
  /\ intx = FALSE /\ pgtx = FALSE
  /\ committed = [data |-> [n \in Added |-> [k \in Keys |-> None]], file |-> 1, pos |-> 0]
  /\ session = committed
  /\ applied = 0
  /\ failure = "none" /\ crashes = 0
  /\ step = "none" /\ adding = NoTable /\ start = 0
  /\ tables = {}
  /\ sources = 0 /\ lastid = 0
  /\ catalog = [tables |-> {}, relations |-> {}]
  /\ draft = catalog
  /\ refused = "none"

SetUp ==
  \/ CreateNew \/ CreateOther
  \/ \E n \in Added : LockTable(n)
  \/ ReadPosition
  \/ RecordTable \/ RecordTableFails
  \/ CopyTableContent
  \/ CopyIndexes \/ CopyIndexesFails
  \/ CommitAdd \/ SetUpCrash \/ BeginReplication

SourceMoves ==
  /\ SourceNext
  /\ \A t \in mapped' \ mapped : Writable(t)
  /\ UNCHANGED <<replicatorVars, setUpVars>>

Replicates ==
  /\ SetUpOver
  /\ Replicator
  /\ UNCHANGED <<sourceVars, setUpVars>>

SetUpNext ==
  \/ SetUp /\ UNCHANGED sourceVars
  \/ SourceMoves
  \/ Replicates

SetUpSpec == SetUpInit /\ [][SetUpNext]_allVars

-----------------------------------------------------------------------------
(* Type invariant of the set-up. *)
SetUpTypeOK ==
  /\ step \in {"none", "idle", "locked", "positioned", "recorded", "copied", "indexed",
               "replicating"}
  /\ adding \in Added \union {NoTable}
  /\ start \in Nat
  /\ tables \subseteq Added
  /\ sources \in Nat /\ lastid \in Nat
  /\ catalog \in Catalog /\ draft \in Catalog
  /\ refused \in Refusals

(* A table is in the target as a whole or not at all, whatever ends addTable: its   *)
(* row in mygrate.tables, the relation, all of its indexes, and the content it had  *)
(* on the source at one quiet moment, no earlier than its start_position.           *)
WholeOrNothing ==
  /\ catalog.relations =
       Named(catalog) \union UNION {Indexes[n] : n \in Named(catalog)}
  /\ ~SetUpOver =>
       \A n \in Added :
         IF n \in Named(catalog)
         THEN \E row \in catalog.tables, i \in 0..Len(log) :
                /\ row.name = n /\ row.start_position <= i /\ Quiet(i)
                /\ committed.data[n] = history[i + 1][<<Database, n>>]
         ELSE committed.data[n] = [k \in Keys |-> None]

(* The tables in UpdateDatabase's memory are those a new process would read back,   *)
(* whether the last addTable succeeded, threw, or died with its process.            *)
TablesKnown == tables = Named(catalog)

(* A source whose tables rest while they are added is mirrored from the first event *)
(* on, although createNew read the position long before the tables were copied.     *)
MirrorAfterSetUp == SetUpOver => AtomicMirror /\ PositionTrue
=============================================================================
