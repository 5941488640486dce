# mygrate in TLA+

mygrate copies tables of a MariaDB database into PostgreSQL and then follows the
MariaDB binlog, applying each event to the copy as it arrives. This directory
models the program, checks it with TLC and proves theorems about it with TLAPS.

## 1. The system

One process, one thread, two connections. `main` (src/main/main.cpp) builds an
`UpdateDatabase`, which is a PostgreSQL connection with memory; `getSource` reads
`mygrate.source` and builds a `ReplicationStream`, which is a MariaDB connection;
`readEvents` fetches binlog events one after another and calls the handler that
`eventHandlers` lists for each. Every exception ends the process.

| Part | State | Operations | Interacts with | What makes it correct |
|---|---|---|---|---|
| UpdateDatabase, replication | `selected`, `table_map`, `intx`, prepared statements, the transaction open on its connection; in PostgreSQL the replicated tables and `mygrate.source` | `tableMap`, `insertRow`, `updateRow`, `deleteRow`, `rotate`, `gtid`, `xid`, `beforeEvent`, `afterEvent` | called by ReplicationStream; SQL on PostgreSQL | the committed copy is the source at a quiet point; the stored position is the copy's; one transaction per source group; no legal event makes a handler throw |
| UpdateDatabase, set-up | `tables`; `mygrate.tables`, `table_columns`, the new tables | `createNew`, `addTable`, `copyTableContent`, `copyIndexes` | MySQLConn, PqConn, Tx, TypeMapper, COPY encoder | the snapshot and the events replayed after it make the source, no change twice, none lost; an error leaves nothing behind |
| ReplicationStream | `filename`, `position`, counters | constructor, `readEvents`, `stopEvents` (from another thread) | MariaDB's dump thread; the handlers | hands over every event once, in order |
| main | none | start, end | both | a restart resumes |
| DumpToConsole | `tableMaps` by table id | `tableMap`, row handlers | called by ReplicationStream | a row is decoded with its own table's map |
| Row decoding (Row, mysql_types, RawDataReader, BitSet) | read offsets | `fromRowsEvent`, `Type<T>::read` | called by the row handlers | consumes exactly what the server wrote; every value and null comes back |
| COPY encoder | a FILE | one operator per type | called by `copyTableContent` | PostgreSQL reads back what was written |
| TypeMapper | two lists of rules | `map` | called by `addTable` | every value of the source type fits the target type |
| PostgreSQL client (PqConn, PqPrepStmt, PqRecordSet, Tx) | connection, statement and cursor numbers | `query`, `prepare`, `beginTx`..., bulk upload | libpq | no statement outlives its connection; a transaction is closed on every path |
| MySQL client | connection, bound buffers | `query`, `prepare`, `cursor` | libmysql | fetched values survive until they are read |
| compileTimeFormatter | none (templates) | `scprintf` | everywhere | text |
| EventCounter and the end-to-end harness | counters, a mutex, `failed` | `tick`, `waitFor`, `run`, `stopAfter` | the only concurrent caller of the library | the waiter wakes when its target is reached, or when it never will be |
| helpers, streamSupport, fixedString | none | `verify` and formatting | everywhere | - |

Hard behaviours: the process can die between any two SQL statements of a handler
and comes back with nothing but what PostgreSQL committed; the flag `intx` is set
and cleared by different events; `selected` outlives the statement it was set
for; positions count from the beginning of a file while files change under the
stream; the source goes on writing while tables are added; a test thread stops
the stream while events are in flight. PROJECT.json lists these hazards with
their lines and the properties aimed at each.

## 2. Modules

| Module | Models | Kind |
|---|---|---|
| `SourceServer` | the MariaDB server: tables, binlog, files | external, from what the handlers read of it |
| `UpdateDatabase` | main, readEvents, the replication handlers, PostgreSQL's connection; the properties | system |
| `Replica` | what mygrate promises: the copy moves from quiet point to quiet point | abstract specification |
| `MCUpdateDatabase` | instances for TLC | model checking |
| `UpdateDatabaseProofs` | type correctness, no change outside BEGIN and COMMIT | proofs |
| `MirrorProofs` | the copy, the stored position, no failures | proofs |
| `ReplicaProofs` | one transaction per group, `UpdateDatabase` implements `Replica` | proofs |
| `AddTable` | createNew, addTable, Tx, mygrate.tables; then `UpdateDatabase` from the registered position | system, composed with `UpdateDatabase` |
| `MCAddTable` | instances for TLC | model checking |
| `AddTableProofs` | what addTable leaves behind | proofs |
| `SetUpMirrorProofs` | the copy after a set-up | proofs |
| `RawData` | RawDataReader, BitSet, bitslice, mod100_extract, ntoh | pure operators |
| `MySQLTypes` | `Type<T>::read`, the metadata each reads and Row skips | pure operators |
| `RowDecode` | DumpToConsole's and UpdateDatabase's maps, `Row::fromRowsEvent` | system |
| `RowDecodeProofs` | metadata, row data and cells stay in step, the right map, which reads throw | proofs |
| `PqValues` | TypeMapper, the COPY text, Bindings; external: what PostgreSQL takes; PqRecordSet | pure operators |
| `SourceRows` | a server's fields and binlog bytes for a table's rows | external, from what the readers expect |
| `TableCopy` | copyTableContent: bound buffers, cursor, fields, COPY | system |
| `ValuePaths` | `TableCopy`, then `RowDecode` into INSERTs, or into DumpToConsole; the properties | composition |
| `MCValuePaths` | columns of every type with the values at their edges | model checking |
| `ValuePathsProofs` | the same of both readers in the composition; values read back from their bytes | proofs |
| `EndToEnd` | the test harness's two threads, EventCounter, `stopEvents` | system |
| `MCEndToEnd` | a log and targets for TLC | model checking |
| `EndToEndProofs` | no notification is lost, what was waited for is committed | proofs |

### SourceServer

`log` is the binlog, all files in one sequence, and `starts[f]` the number of
events before file `f`. `history[i + 1]` is what the tables hold after `i`
events: a record of the past which no handler reads. An event has length one, so
`next_event_pos`, a byte offset in the code, is the event's number in its file.
A real server makes a committed group visible at once, but the dump thread sends
it event by event, and a reader cannot tell how many are still to come; letting
the log itself grow event by event gives the reader the same views, and also the
stream that stalls in the middle of a group.

`Workload` chooses what the server does beside plain transactions over several
tables: `ddl` (standalone GTID, then QUERY), `nontrans` (groups that end with
QUERY COMMIT), `rotate`, `restart` (STOP, then a new file), `multi` (a statement
over several tables: all its TABLE_MAPs before its rows) and `rekey` (updates
that change a primary key). A rows event carries one row; the code's loop over
the rows of an event runs inside `beforeEvent` and `afterEvent`, and the same
rows in several events give the same statements in the same transaction.

### UpdateDatabase

| Variable | In the code |
|---|---|
| `pc` | where `readEvents` and the handler are; `down` when no process runs |
| `cur` | the event the handler was given |
| `rfile`, `rpos` | the dump thread's file and offset (in events of the whole log) |
| `selected`, `intx` | members of the same names (`NoTable` is `tables.end()`) |
| `pgtx` | a transaction is open on the connection |
| `session`, `committed` | the replicated tables and `mygrate.source`'s filename and position, as the connection sees them and as committed |
| `applied` | the event of the last commit, a history variable |
| `failure` | which `verify` or constraint killed the process last |

A step is one SQL statement or a handler that issues none: `BeforeEvent` is
BEGIN, then one of `InsertRow`, `UpdateRow`, `DeleteRow`, `Rotate`, `Gtid`, `Xid`
(each row handler with a `...Fails` twin for its `verify` or constraint), then
`StayInTx`, or `SavePosition` and `CommitTx`. `Crash` may come between any two of
them and models a killed process and a lost connection alike: PostgreSQL rolls
back, the process restarts at `Start`, which reads the stored file and position.
`session` and `committed` are the same outside a transaction (`Executed`).

`ReadsBool` stands for one line: whether `PqRecordSet::at` has a case for a boolean
(pqRecordSet.cpp:41, a TODO). It has not, and the constructor, which reads `is_pk`
for every recorded column, throws: as the code is, a process started with tables
in `mygrate.tables` ends at once. `v_boolean` runs the code as it is (`FALSE`); all
other runs are of the program with that TODO done (`TRUE`). The theorems hold for
either value; with `FALSE` and a table added, `Start` is never taken and they say
little.

Reduced: prepared statement caching (a statement is the same each time), counters
(`tick`), the rows' encoding (a row is its key and one value), the number of
columns (the one thing `verifyRow` looks at, `Columns`). A table has a primary
key of one column.

`SourceServer`'s events have length one, so every offset is the beginning of an
event. In the code's byte offsets the position `v_rotate` resumes from may also
lie inside an event, which the server answers like an offset behind the end of
the file (`StreamRefused`); the model has only the other outcome there.

### AddTable

`AddTable` extends `UpdateDatabase`: the source, the target and the replicating
process are those of the modules above, and `step` says how far the set-up is.

| Variable | In the code |
|---|---|
| `step`, `adding` | where `addTable` is, and its `tableName` |
| `start` | `pos`, the position between LOCK TABLE and UNLOCK TABLES |
| `tables` | the member of the same name |
| `sources`, `lastid` | `mygrate.source`'s rows, and the sequence of `mygrate.tables.table_id`, which a rollback does not set back |
| `catalog`, `draft` | `mygrate.tables` and the names of the schema's relations, as committed and as the connection sees them |
| `refused` | what ended `addTable` last: the unique name, the foreign key, TypeMapper or a relation's name |

`LockTable` ends where LOCK TABLE has waited for the table's writers;
`ReadPosition` is SHOW MASTER STATUS and UNLOCK TABLES; `RecordTable` is BEGIN and
the statements up to CREATE TABLE; `CopyTableContent` is the SELECT that opens the
transaction's view, with the COPY; `CopyIndexes`, then `CommitAdd`. Between any two of
them the source writes (`SourceMoves`) or the process dies (`SetUpCrash`, which also
reads the tables back). Statements in between that nobody else can observe share a
step. A refused statement leaves through the destructors of both `Tx` (`Refuse`).
`SET autocommit=0`, which `MySQLConn::beginTx` sends, does not release the
table lock, and UNLOCK TABLES ends the transaction LOCK TABLE began, so the view
is that of the first SELECT that reads the table. `BeginReplication` is `main`,
once every table of `Added` has been added.

Reduced: a table's columns (only whether TypeMapper knows them, `Mappable`) and the
COPY text, which are `TableCopy`'s; the statements' wording. A table's indexes are the names copyIndexes
gives them (`Indexes`).

### RowDecode

A reader is given a stream of TABLE_MAP and rows events, as bytes. `keeps` says whose
maps it uses: `by_id` is DumpToConsole, which keeps all of them by table id, `last`
is UpdateDatabase, which keeps one.

| Variable | In the code |
|---|---|
| `tableMaps`, `last` | `DumpToConsole::tableMaps`, `UpdateDatabase::table_map` |
| `tm` | the map handed to `fromRowsEvent` |
| `md`, `data` | its two RawDataReaders |
| `nulls`, `nullIter`, `colIter` | the row's null flags and the two BitSet iterators |
| `c`, `row`, `rows` | the loop over the columns and what it has made |

A step is one column of one row: `AbsentColumn`, `NullColumn` or `ValueColumn`, each with
the readers and iterators it moves, or `DecodeFails`, where any reader throws.
A value is `read` by its type from the bytes, with the arithmetic of the code
(`bitslice`, `mod100_extract`, `ntoh`). TLC's integers have 32 bits, so a wider number is
its two halves, and a length that no data can have is one number for all of them.
The bytes of a FLOAT or DOUBLE stand for a decimal's digits and exponent instead
of IEEE's mantissa and exponent: the properties ask which digits survive. A FLOAT is
a number of 24 bits, so a decimal that is none (one tenth) is no FLOAT of the model
(`FloatAssumption`); a DOUBLE is the double nearest to its decimal.

An event carries, beside its bytes, what the reader does not see: where a server began
each column's metadata (`starts`), each row and column (`begins`), and the source's
`cells`. `StreamAssumption` says that the bytes are what a server writes for them: null
flags for the columns that are there, then these columns, each with as many bytes as
its type and metadata ask for (`IsValue`). TLC evaluates it for every stream of run
`values`, whose streams `SourceRows` makes from declared columns and rows
(`PathAssumption`).

`RightlyRead` names the events that Row can make sense of; the properties of the row data
are claimed of these. It leaves out

- rows decoded with another table's map (`v_multi`);
- row images without enough columns: `Row` reads as many bytes of null flags as the
  whole table needs (row.cpp:17), the server writes those of the columns that are there,
  so an image of eight columns of a table of nine is read one byte too far;
- a missing column that has metadata, which nothing skips (`NothingSkipped`, the one
  condition of `MetadataInStep`);
- fractions of a second: DATETIME2 and TIME2 leave their bytes to the column after them.

GEOMETRY, whose NULLs leave their metadata unskipped, is not among `LoggedTypes`; no
table with one can be replicated.

### TableCopy and ValuePaths

`TableCopy` is addTable from CREATE TABLE to the end of the upload for one table:
`MapColumns`, `PrepareCopy` (the buffer for each field), `FetchRow`, `WriteField` and
`EndRecord` for the COPY text, and `EndBulkUpload`, where PostgreSQL reads all of the
text or refuses it. Text is a sequence of tokens: strings character by character,
because escaping is what goes wrong in them, and everything else one token.

`fetch` throws for a value its buffer cannot take (`Truncated`): an unsigned integer above
the signed maximum, and a DECIMAL of more than eight characters, since it is bound to a
double. A shorter DECIMAL leaves its characters in the double, which makes a number so
small that every scale rounds it to 0. TypeMapper gives a DOUBLE a `real`, PostgreSQL's
float4: `Input` refuses what is too large or too small for one (`FitsReal`) and
otherwise makes the decimal the real nearest to it (`NearestReal`), which is the same
number only if 24 bits hold it (`IsReal`). 123456789 and 10^12 come back as other
numbers on either path, 1234567.5 comes back from a replicated row (a real is printed with
all the digits it takes, as PostgreSQL does since its version 12).
What the nearest real is, the model does not work out; `LeftOpen` takes from `Kept` the
one case where it matters, a DOUBLE that a real holds but whose text has lost digits:
536870976 is copied as 5.36871e+08, and the real nearest to that is 536870976.

`ValuePaths` puts the two ways side by side. A table's first `copied` rows go through
`TableCopy`; the rest arrive as a rows event, go through `RowDecode`, and `InsertRow`
binds them to a prepared statement, one row a step, until `Commit`. A reader that
dumps has no copy to make. UPDATE and DELETE bind the same decoded rows with the same
`Bindings`, and are left to `UpdateDatabase`.

### EndToEnd

| Variable | In test-e2e.cpp |
|---|---|
| `rpc`, `tpc` | where MockSetup's thread and the test's are |
| `mutex`, `asleep` | `m` and the wait on `cv` |
| `processed` | the EventCounter |
| `src`, `failed` | members of the same names, read by the test's thread with no lock |
| `cancelled` | `stopEvents` was called |
| `committed` | how many events' effects are committed, from `intx` as in `UpdateDatabase` |

A step is what happens between two points the other thread can observe: `Lock`,
`AfterEvent` with its unlock, `NotifyAll`; `LockToWait`, `Predicate`, `Sleep`
(which gives the lock up and goes to sleep at once), `Wake`; `StopEvents`, `Join`.
The replicating thread may throw in `Open` and in every `Body`, and the waiter may
wake for no reason.

## 3. Runs

| Run | Workload and bounds | Shows |
|---|---|---|
| `promise` | ddl, nontrans; the added table and one of its name in another database, 8 events, 2 crashes, fair | `UpdateDatabase` implements `Replica` (`ImplementsReplica`), `AtomicMirror`, `PositionTrue`, `NoFailure`, `TransactionPerGroup`, `Delivered` |
| `files` | rotate, ddl; one table, 10 events, 3 files, no crash, fair | `AtomicMirror`, `PositionTrue` and `Delivered` over two rotations |
| `everything` | all of them; three tables, 6 events, 2 files, 1 crash | `TypeOK`, `ChangesAtCommit`, on every path that fails |
| `addtable` | four tables (three of them with a `PRIMARY`, one of which has a type TypeMapper does not know), 1 key, 8 events, 2 sources, 3 table_ids, 1 crash | `SetUpTypeOK`, `WholeOrNothing`, `TablesKnown`, with duplicate and refused additions |
| `setup` | one table that rests while it is added and another that does not, 2 keys, 10 events, 1 crash | `MirrorAfterSetUp`, `NoFailure`: set-up and replication together |
| `values` | tables of two columns (every type with its edge values, before and after each of four columns of other widths), three rows with NULLs in either column, all splits into copied and replicated rows, partial row images | `MetadataInStep`, `OwnMap`, `DataInStep`, `OwnCells`, `ThrowsRightly`; `Kept`, `RefusesCopy`, `RefusesRows` |
| `harness` | 9 events: two transactions, an unhandled event and a rotation; four targets | `NoLostWakeup`, `CommittedOnReturn`, `StopAfterEnds` |
| `v_rotate`, `v_multi`, `v_rekey`, `v_replay`, `v_boolean` | the one special workload, set of tables or constant each needs | the disagreements below |

Bounds. A complete transaction with one change is four events (GTID, TABLE_MAP,
rows, XID): eight events hold two of them, or one with two statements beside a DDL
group, which is enough for the second to depend on what the first left behind
(`selected`, `intx`, the stored position, the row). Two crashes let a restarted
process crash again before its first commit. Three files let the second rotation
meet what the first has stored. `MaxLog` is why runs stop: deadlock is not checked,
because the bounded source ends and the replicator then waits for ever. In `values`
two columns are enough because what a column leaves behind for the ones after it
is the position of two readers and two iterators, which the second column shows; the
third row shows what the second leaves. In `harness` the first transaction has two
rows, so that a target can be reached in the middle of it.

Fairness. `files`, `promise`: the process takes its next step when it has one (it is
one thread and blocks only in `mariadb_rpl_fetch`, that is when there is no event),
and a process that ended is started again, which the code leaves to whoever
operates it. Nothing is assumed of the source, nor of crashes. `harness`: both threads
go on while they can, and the replicating thread, which finds the mutex free
again and again, takes it at some time (strong fairness of `Lock`). Without the latter a
waiter that wakes for nothing for ever could keep it out; a mutex of the platform
does not promise more than that, and the test relies on it.

What the violations show:

- `v_rotate`: `rotate` stores the new file and its start position, and `afterEvent`
  (updateDatabase.cpp:218) then overwrites that position with the rotate event's
  own `next_event_pos`. Until the next commit the stored pair is the new file's name with
  the old file's offset. A process restarted then skips the new file's beginning,
  or is refused by the server if the file is still shorter. This is why
  `PositionTrue` leaves the commit of a rotate out, and why `files` has no crash.
- `v_multi`: `tableMap` keeps one map; the rows of a statement over two tables all
  go to the table mapped last.
- `v_rekey`: both images of an update are executed as UPDATEs by key; if the key
  changed, one of them finds no row.
- `v_replay`: replication begins where createNew was, not where each table was copied.
  A row written in between is in the copy and is inserted again. With tables
  that rest from createNew until replication begins (`ReadOnly`, what the comment at
  updateDatabase.cpp:93 calls "readonly") this cannot happen: that is run `setup`.
- `v_boolean`: the constructor cannot read `is_pk` back, so nothing is ever delivered
  by a process started after its tables were added. The process that added
  them has them in memory, which is how the tests use it.

More that the models show without a run of their own:

- addTable unlocks the table before its transaction has read anything, so the copy
  can be later than the position recorded with it (`WholeOrNothing` claims no more
  than "not before").
- `pk_PRIMARY` is one name in a PostgreSQL schema, so the second table with a primary
  key is refused by `CopyIndexesFails`, after its content was copied.
- `fk_table_source` compares `table_id` with `source_id` (schema.sql:184). With one source,
  one table can be added; after a refused attempt, none. This and the name are why run
  `addtable` has two sources and a table without a `PRIMARY`.
- A restarted server announces its new file with an artificial ROTATE only, which
  updateDatabase.cpp:341 ignores, while STOP has no handler: the stored file name stays the
  old one. `everything` has the restart; `PositionTrue` is not claimed there.
- With `nontrans` no handler sees the end of a group (QUERY_EVENT has none,
  eventHandlers.h:19): the PostgreSQL transaction stays open and later groups join it,
  so the copy falls behind but is never wrong. `TransactionPerGroup` says how far: a
  transaction is open between groups only since a group that ended unseen. `Delivered`
  speaks of groups that end with an XID, which commits whatever is open.
- A harness whose replicating thread throws after stopAfter has looked at `failed`
  (test-e2e.cpp:122) waits for ever; `StopAfterEnds` excepts exactly this.
  `CommittedOnReturn` is about targets that are first reached at the end of a
  transaction; a target of rows alone is reached before their XID, and the copy may be
  read without them.

What the two paths of a value lose, all of it named in `ValuePaths` and, by the
equivalences there, nothing else in the instances checked:

| Lost in the copy (`LosesCopied`) | Lost in replication (`LosesReplicated`) |
|---|---|
| every DECIMAL but 0 (its digits are read as a double's bytes) | the sign of a MEDIUMINT |
| a DOUBLE that is no number of 24 bits (`real`) | the same |
| digits of a FLOAT or DOUBLE after the sixth | decimals after the sixth (`std::to_string`) |
| fractions of a second, the sign of a TIME | hours of a TIME modulo 32, its sign |
| the length of a CHAR (padded) | unsigned values above the signed maximum |
| a backslash and the character behind it | the label of an ENUM |

TIME 24:00:00 is stored as itself, but `PqRecordSet` cannot read it back (`LastTime`).

| Refused in the copy (`UnfitCopied`, `SwallowsEnd`) | Ends replication (`UnfitReplicated`) |
|---|---|
| TINYINT(1) other than 0 and 1; zero dates; NUL characters | the same |
| TIME after 24:00:00 | TIME after 24:00:00 as it is read: hours modulo 32, a negative one with bits of its two's complement |
| a DOUBLE too large or too small for `real`, as `%g` prints it | a DOUBLE too large for `real` |
| unsigned values above the signed maximum | |
| DECIMALs of more than eight characters | |
| a backslash at the end of a field | any CHAR, BINARY, DECIMAL or TIMESTAMP column's value |
| SET and BIT columns | a row image that leaves a column out |

## 4. Proofs

TLC's runs are small instances; the theorems hold for every value of the constants
that satisfies the ASSUMEs of the modules a theorem is about, which TLC evaluates in
every run of them.

- `UpdateDatabaseProofs`: `TypeCorrect` and `Typed` (`Spec => []TypeOK`) and
  `CommitsAlone` (`Spec => ChangesAtCommit`), for every workload. `TypeOK` alone is
  not inductive: `Start` computes `rpos` from `starts[committed.file]`, so the
  stored file has to be one of the log's files (`FilesOfReplicator`), files lie in
  order inside the log (`FilesOfLog`), and a handler past its early returns has a
  selected table and an event of the right kind (`InHand`). `ChangesAtCommit`
  needs `Bracket`: in the middle of a handler a transaction is open.
- `MirrorProofs`: `Mirrors` (`[]AtomicMirror`), `ResumesRight` (`[]PositionTrue`)
  and `NeverFails` (`[]NoFailure`), assuming `PlainWorkload`: transactions, DDL and
  non-transactional groups, and either any number of crashes or any number of
  rotations. The runs `v_*` are the reason for the assumption: each workload it leaves
  out, and a crash behind a rotation, breaks one of the three. The invariant
  `MirrorInv` adds to the types `PlainLog` (each rows event follows, in its group, the
  TABLE_MAP of its own table, keeps the key, and finds in `history` what its kind
  promises; each file but the last ends with the ROTATE that names the next, and
  `next_event_pos` counts from the beginning of its own file), `InStep` (what is
  committed is a quiet point of the past and a restart from its position finds
  `applied`) and `Following` (what the session sees is `history` at the event it
  handles; `intx` says whether a group is open there; `selected` is the last
  TABLE_MAP's table; `rfile` is the file the next event is in, `NextIn`). The stored
  pair of file and position is right (`Resumes`) except while the event committed last is
  a ROTATE, which a process that does not crash gets past.
- `ReplicaProofs`: `OpenWithGroup` (`[]TransactionPerGroup`) and `KeepsPromise`
  (`Spec => ImplementsReplica`), under the same assumption. `Opened` adds to
  `MirrorInv` that `intx` is set exactly while the target owes a commit to what has been
  handled (`Owed`: a group is open, or one has ended unseen since the last commit), and
  that the PostgreSQL transaction is open between events with it and only with it.
  The refinement maps `Replica`'s past to the source's `history` and its position to
  `applied`: each event of the source is a `Change`, `CommitTx` is an `Advance`, from one
  quiet point to a later one, since a commit comes only where `applied` is behind the
  event in hand; all other steps, `Crash` among them, stutter.

- `AddTableProofs`: `AddedWhole` (`[]WholeOrNothing`), `Remembered` (`[]TablesKnown`)
  and `SetUpTyped` (`[]SetUpTypeOK`), for every workload, with written and resting
  tables alike. `WholeOrNothing` speaks of what is committed; the invariant
  `SetUpInv` adds `Drafted`, what the connection will commit: it differs from the
  committed catalog by the row, the relation and, from `CopyIndexes` on, the indexes
  of the one table being added, whose name is new and whose rows are those of a
  quiet moment not before `start`. The source's steps keep it because they only append
  to the log and never change the past (`PastKept`).
- `SetUpMirrorProofs`: `MirrorsAfterSetUp` (`SetUpSpec => []MirrorAfterSetUp`) and
  `SetUpNeverFails` (`SetUpSpec => []NoFailure`), assuming `PlainWorkload` and that the
  source writes no table of `Added` until replication begins (`ReadOnly`, without which
  `v_replay` breaks both). Until replication begins, `Registered` says that createNew's
  position is still the one of a quiet point, that each added table has rested since
  (`Rested`), and that its copy is therefore what the source held there; from then on
  the invariant is that of `MirrorProofs`, and `ReadyToReplicate` is the step between
  the two.
- `RowDecodeProofs`: `InStep` (`DumpSpec => []MetadataInStep`), `OwnRows` (`[]OwnMap`),
  `OwnBytes` (`[]DataInStep`), `RowsOfCells` (`[]OwnCells`) and `ThrowsOnlyThere`
  (`ThrowsRightly`), for every sequence of events that `StreamAssumption` allows:
  tables of any number of columns of `LoggedTypes`, any rows and images, ids used again
  for other tables. Two invariants carry them. `DecodeInv`: every map kept for an
  id is the stream's last one for it, and inside a row the metadata reader reads the map
  in use and, while no column with metadata has been left out, stands where the column's
  metadata starts. The sizes a NULL's metadata is skipped by, and the ones each type
  reads, are kept in different places of the code; `SkippedIsWritten` and `ReadIsWritten`
  compare both with what a server writes, type by type. `ReadInv`: the rows so far
  are the first of the event, cell by cell, and inside a row the null flags are the
  row's own, the iterator over them stands at the column's place among those that are
  there, and the data reader where the column begins. Its step is the lemma `ReadAgrees`:
  a read at some place in the row data does what it does on the bytes of its own
  value alone, takes all of them, and throws only where the read of those bytes
  would; so no size check fails, and what `OwnCells` says of a decoded row is said
  of single values.
- `ValuePathsProofs` has the two halves of a value's way through the binlog.
  `PathsRead` carries the five properties over to `ValuePaths`, with UpdateDatabase and
  DumpToConsole as readers: every step of the composition is one of a reader
  (`ReaderSpec`), whose handler may also give up. The other theorems are about one
  value, written by a server (`Encode`) and read by `Type<T>::read`, for every value the
  type has: `IntegersBack` and `TimesBack` show that a TINYINT, SMALLINT, MEDIUMINT, INT
  or TIME is read without an exception and as itself exactly where `LosesReplicated`, on
  which `Kept` rests, does not say otherwise; `BigintsBack`, `StringsBack` (TEXT, BLOB,
  VARCHAR, VARBINARY of every length; of a LONGBLOB those below 16 MiB, where `Length` has
  numbers for them) and `DatesBack` that nothing is lost at all; `DatetimesBack` that a
  DATETIME is read to the second and how many bytes of its fraction are left over. Each
  goes through the bytes: a number is put together from its bytes and taken apart
  again with division and remainder by powers of two. `TimesBack` and `DatetimesBack`
  are about the formats of current servers; those of old ones (`Columns[i].old`) have
  decimal digits, which are made by a fold.
- `EndToEndProofs`: `Awoken` (`Spec => []NoLostWakeup`) for every log, every set of
  targets, a failing thread and spurious wakeups. `WakeInv` adds `LockHeld`: who is
  inside the lock holds it, and the test goes to sleep inside it, on a target it has
  found unreached; so the counters cannot have moved in between.
  `CommittedWhenReturned` (`Spec => []CommittedOnReturn`): `CommitInv` ties the counters
  to the log (`Counted`: they are those of the events that have gone through
  `afterEvent`) and `committed` to the last place where the log leaves no transaction open
  (`CommittedTo`), and remembers, once the wait has returned (`Returned`), that the target
  is reached. A target's events are a beginning of the log, so a counter that has
  reached it (`CountsGrow`) means they have all been handled, and if they end outside a
  transaction they are committed. `HarnessAssumption` asks that an event either opens or
  ends a transaction, and that neither kind is without a handler (eventHandlers.h).

Only model-checked, with the reason:

- `Delivered` and `StopAfterEnds` are liveness under fairness, which needs ENABLED.
- `Kept`, `RefusesCopy` and `RefusesRows` are about whole tables: the text of COPY that is
  written and parsed character by character, the bytes of rows put one behind the
  other, the decimal digits of the old formats and of a float. All of these are folds,
  and what a fold computes for every input is an induction over data. The theorems of
  `ValuePathsProofs` are what can be had of `Kept` without one.
- The violations: each is one behaviour, which TLC prints.

## 5. Not modelled, and the plan

Every safety property and the refinement the runs check are theorems, but for the
three about the values of whole tables. What is missing to prove `Kept` for replicated
rows: that `RowParts` and `RowsEventOf` lay out rows as `StreamAssumption` says (TLC
evaluates it for the streams of `values`; in general an induction over columns and
rows), the old TIME and DATETIME formats, DECIMALs' digits, and `Bindings`' text read
back by PostgreSQL.

Not modelled, with the reason:

- Tables with a composite key: copyKeys appends to the row it iterates over
  (updateDatabase.cpp:267), and from the second key column on reads memory the append may
  have freed; there is no set of values TLC could choose the result from. Keys of one
  column are read before the append.
- Tables without a key: keyed content is what `SourceServer` and `Replica` are built on.
  An UPDATE or DELETE without WHERE touches every row, and the `verify` behind it
  (one row) ends the process unless the table has exactly one.
- The order in which selectColumns.sql returns the columns: none is asked for, and a
  restarted process does not get as far as using it (`v_boolean`).
- The cache of prepared statements, the numbers of statements and cursors, the
  parameters of MySQLPrepStmt: a statement is the same each time it is made.
- The readers Row has no use for: packed integers, the types' unsigned variants.
- The counters of ReplicationStream, which nothing reads, and its check
  of `@@binlog_format`.
- compileTimeFormatter and fixedString (text made at compile time), streamSupport,
  the command line, build files.
