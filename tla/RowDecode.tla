------------------------------ MODULE RowDecode ------------------------------
(***************************************************************************)
(* From the events of the binlog to rows of values.  A reader keeps the    *)
(* TABLE_MAP events, DumpToConsole all of them by table id, UpdateDatabase *)
(* the last one, and decodes the rows of a rows event with one of them:    *)
(* Row::fromRowsEvent walks over the row data, the null flags, the column  *)
(* bitmap and the metadata, four things that have to stay in step.  A step *)
(* is one column of one row.                                               *)
(***************************************************************************)
EXTENDS MySQLTypes

CONSTANTS
  Streams,     \* sequences of events a server may send
  NoMap

\* The types a server writes for columns.  GEOMETRY is one more, of which no table
\* can be replicated; a dump of its NULLs goes wrong, their metadata is not skipped.
LoggedTypes == EventTypes \ {"DECIMAL", "JSON", "VAR_STRING", "GEOMETRY", "NULL"}

\* An event as it arrives, with what the reader does not see of it: the table it
\* is about, of a TABLE_MAP where each column's metadata begins, of a rows event the
\* rows as the source has them and where each one's columns begin.
IsMap(e) == e.event = "table_map"

MetadataOf(m, i) == SubSeq(m.metadata, m.starts[i] + 1, m.starts[i + 1])

\* What Type<T>::read relies on of the metadata.
MetadataFits(type, md) ==
  /\ type \in DOMAIN FloatSize => md[1] = FloatSize[type]
  /\ type \in BlobTypes \union {"BLOB"} => md[1] \in 1..4
  /\ type \in StringTypes => md[1] # VAR_STRING

MapStarts(m) ==
  /\ DOMAIN m.types = 1..Len(m.types) /\ Len(m.types) \in Nat \ {0}
  /\ m.metadata \in Seq(Byte)
  /\ \A i \in 1..(Len(m.types) + 1) : m.starts[i] \in 0..Len(m.metadata)
  /\ m.starts[1] = 0
  /\ \A i \in 1..Len(m.types) :
       /\ m.types[i] \in LoggedTypes
       /\ m.starts[i + 1] = m.starts[i] + MetadataSize(m.types[i])
       /\ MetadataFits(m.types[i], MetadataOf(m, i))

\* The i-th column is in the rows of the event, and how many of the first i are.
There(e, i) == Bit(e.column_bitmap, i - 1) = 1
Place(e, i) == Cardinality({k \in 1..i : There(e, k)})

\* The bytes of the i-th column in the r-th row, for 0 those of the row's null flags.
Part(e, r, i) == SubSeq(e.row_data, e.begins[r][i] + 1, e.begins[r][i + 1])

CellWritten(e, m, r, i) ==
  /\ e.begins[r][i] <= e.begins[r][i + 1]
  /\ There(e, i) => (e.cells[r][i] = Null <=> Bit(Part(e, r, 0), Place(e, i) - 1) = 1)
  /\ IF There(e, i) /\ e.cells[r][i] # Null THEN IsValue(m.types[i], MetadataOf(m, i), Part(e, r, i))
     ELSE e.begins[r][i + 1] = e.begins[r][i]

\* The rows of an event, one after the other: null flags of the columns that are there,
\* then these columns.
RowsWritten(e, m) ==
  LET n == Len(m.types)
  IN /\ e.row_data \in Seq(Byte) /\ Len(e.cells) \in Nat
     /\ \A r \in 1..(Len(e.cells) + 1), i \in 0..(n + 1) : e.begins[r][i] \in 0..Len(e.row_data)
     /\ e.begins[1][0] = 0 /\ e.begins[Len(e.cells) + 1][0] = Len(e.row_data)
     /\ \A r \in 1..Len(e.cells) :
          /\ e.begins[r][1] = e.begins[r][0] + (Place(e, n) + 7) \div 8
          /\ \A i \in 1..n : CellWritten(e, m, r, i)
          /\ e.begins[r + 1][0] = e.begins[r][n + 1]

\* The j-th event is the TABLE_MAP that names the i-th one's table.
MapFor(s, i, j) ==
  /\ IsMap(s[j]) /\ s[j].table_id = s[i].table_id
  /\ \A k \in (j + 1)..(i - 1) : IsMap(s[k]) => s[k].table_id # s[i].table_id

ASSUME StreamAssumption ==
  \A s \in Streams :
    /\ Len(s) \in Nat
    /\ \A i \in 1..Len(s) :
         /\ IsMap(s[i]) => MapStarts(s[i])
         /\ ~IsMap(s[i]) => \E j \in 1..(i - 1) :
              MapFor(s, i, j) /\ s[j].table = s[i].table /\ RowsWritten(s[i], s[j])

VARIABLES
  stream,    \* the events
  at,        \* how many of them have been handled, or are being handled
  keeps,     \* which maps the reader uses: "by_id" or "last"
  tableMaps, \* the TABLE_MAP events kept, by table id
  last,      \* the one kept last
  tm,        \* the one that is used for the current rows event
  dstep,     \* "next" event, "more" rows, "column", or "decoded" or "thrown"
  md, data,  \* the readers of metadata and row data
  nulls,     \* the null flags of the row
  nullIter, colIter,
  c,         \* the column
  row, rows  \* what has been decoded

keeping  == <<stream, keeps, tableMaps, last>>
decoding == <<tm, md, data, nulls, nullIter, colIter, c, row, rows>>
decodeVars == <<keeping, at, dstep, decoding>>

Event == stream[at]
column_count == Len(tm.types)
\* Faulty: the bytes of the null flags are rounded down.
flagBytesDown == column_count \div 8

flagBytes == (column_count + 7) \div 8

-----------------------------------------------------------------------------
\* Faulty: the map kept for an id that is used again is the first one's.
TableMapInserted ==
  /\ dstep = "next"
  /\ at < Len(stream) /\ IsMap(stream[at + 1])
  /\ LET e == stream[at + 1]
         ids == DOMAIN tableMaps \union {e.table_id}
     IN /\ tableMaps' = [id \in ids |-> IF id \in DOMAIN tableMaps THEN tableMaps[id] ELSE e]
        /\ last' = e
  /\ at' = at + 1
  /\ UNCHANGED <<stream, keeps, dstep, decoding>>

\* tableMap: insert_or_assign by id, and table_map = std::move(event).
TableMap ==
  /\ dstep = "next"
  /\ at < Len(stream) /\ IsMap(stream[at + 1])
  /\ LET e == stream[at + 1]
         ids == DOMAIN tableMaps \union {e.table_id}
     IN /\ tableMaps' = [id \in ids |-> IF id = e.table_id THEN e ELSE tableMaps[id]]
        /\ last' = e
  /\ at' = at + 1
  /\ UNCHANGED <<stream, keeps, dstep, decoding>>

\* dumpRowData looks the map up by the event's table id, insertRow takes the last.
RowsEvent ==
  /\ dstep = "next"
  /\ at < Len(stream) /\ ~IsMap(stream[at + 1])
  /\ keeps = "by_id" => stream[at + 1].table_id \in DOMAIN tableMaps
  /\ keeps = "last" => last # NoMap
  /\ at' = at + 1
  /\ tm' = IF keeps = "by_id" THEN tableMaps[stream[at + 1].table_id] ELSE last
  /\ data' = Reader(stream[at + 1].row_data)
  /\ rows' = <<>>
  /\ dstep' = "more"
  /\ UNCHANGED <<keeping, md, nulls, nullIter, colIter, c, row>>

\* while (data.more()): a reader of the metadata from its beginning, the row's null
\* flags as a view into its data.
NextRow ==
  /\ dstep = "more" /\ more(data) /\ Holds(data, flagBytes)
  /\ md' = Reader(tm.metadata)
  /\ nulls' = Ahead(data, flagBytes)
  /\ data' = discard(data, flagBytes)
  /\ nullIter' = 0 /\ colIter' = 0
  /\ c' = 1
  /\ row' = <<>>
  /\ dstep' = "column"
  /\ UNCHANGED <<keeping, at, tm, rows>>

InColumn == dstep = "column" /\ c <= column_count

Present == Bit(Event.column_bitmap, colIter) = 1
IsNull  == Bit(nulls, nullIter) = 1

\* Faulty: a column that is not there is taken for a NULL.
AbsentColumnIsNull ==
  /\ InColumn /\ ~Present
  /\ colIter' = colIter + 1
  /\ c' = c + 1
  /\ row' = Append(row, Null)
  /\ UNCHANGED <<keeping, at, dstep, tm, md, data, nulls, nullIter, rows>>

\* A column that is not there has no null flag; its metadata is not passed over.
AbsentColumn ==
  /\ InColumn /\ ~Present
  /\ colIter' = colIter + 1
  /\ c' = c + 1
  /\ UNCHANGED <<keeping, at, dstep, tm, md, data, nulls, nullIter, row, rows>>

\* Faulty: the metadata of a NULL is left to the column after it.
NullColumnKeepsMetadata ==
  /\ InColumn /\ Present /\ IsNull
  /\ row' = Append(row, Null)
  /\ colIter' = colIter + 1 /\ nullIter' = nullIter + 1
  /\ c' = c + 1
  /\ UNCHANGED <<keeping, at, dstep, tm, md, data, nulls, rows>>

NullColumn ==
  /\ InColumn /\ Present /\ IsNull
  /\ md' = discard(md, MetadataSkipped(tm.types[c]))
  /\ row' = Append(row, Null)
  /\ colIter' = colIter + 1 /\ nullIter' = nullIter + 1
  /\ c' = c + 1
  /\ UNCHANGED <<keeping, at, dstep, tm, data, nulls, rows>>

\* The bytes of metadata the type's read takes; the readers of TIME2 and DATETIME2
\* discard theirs.
ColumnMetadata == Ahead(md, MetadataRead(tm.types[c], md))

Readable ==
  /\ tm.types[c] \notin Unreadable
  /\ tm.types[c] \notin {"TIME2", "DATETIME2"} => Holds(md, MetadataRead(tm.types[c], md))

ValueColumn ==
  /\ InColumn /\ Present /\ ~IsNull /\ Readable
  /\ LET result == read(tm.types[c], ColumnMetadata, data)
     IN /\ ~result.thrown
        /\ row' = Append(row, result.value)
        /\ data' = result.data
  /\ md' = discard(md, MetadataRead(tm.types[c], md))
  /\ colIter' = colIter + 1 /\ nullIter' = nullIter + 1
  /\ c' = c + 1
  /\ UNCHANGED <<keeping, at, dstep, tm, nulls, rows>>

\* Every exception of the readers leaves fromRowsEvent with no row returned.
DecodeFails ==
  /\ \/ dstep = "more" /\ more(data) /\ ~Holds(data, flagBytes)
     \/ /\ InColumn /\ Present /\ ~IsNull
        /\ Readable => read(tm.types[c], ColumnMetadata, data).thrown
  /\ dstep' = "thrown"
  /\ UNCHANGED <<keeping, at, decoding>>

EndRow ==
  /\ dstep = "column" /\ c > column_count
  /\ rows' = Append(rows, row)
  /\ dstep' = "more"
  /\ UNCHANGED <<keeping, at, tm, md, data, nulls, nullIter, colIter, c, row>>

AllRows ==
  /\ dstep = "more" /\ ~more(data)
  /\ dstep' = "decoded"
  /\ UNCHANGED <<keeping, at, decoding>>

\* The handler is done with the rows.
Handled ==
  /\ dstep' = "next"
  /\ UNCHANGED <<keeping, at, decoding>>

-----------------------------------------------------------------------------
DecodeStart ==
  /\ at = 0
  /\ tableMaps = <<>> /\ last = NoMap /\ tm = NoMap
  /\ dstep = "next"
  /\ md = Reader(<<>>) /\ data = Reader(<<>>)
  /\ nulls = <<>> /\ nullIter = 0 /\ colIter = 0
  /\ c = 0
  /\ row = <<>> /\ rows = <<>>

DecodeInit ==
  /\ stream \in Streams
  /\ keeps \in {"by_id", "last"}
  /\ DecodeStart

Decode ==
  \/ TableMap \/ RowsEvent \/ NextRow
  \/ AbsentColumn \/ NullColumn \/ ValueColumn
  \/ EndRow \/ AllRows \/ DecodeFails

\* DumpToConsole: the rows are printed and forgotten.
DumpSpec ==
  DecodeInit /\ [][Decode \/ (dstep = "decoded" /\ Handled)]_decodeVars

-----------------------------------------------------------------------------
\* The properties take an event's rows e and the map m they are decoded with.
\* No column with metadata is missing, as none is with binlog_row_image=FULL.
NothingSkipped(e, m) ==
  \A i \in 1..Len(m.types) : ~There(e, i) => MetadataSize(m.types[i]) = 0

(* The metadata reader stands at the metadata of the column that is read next, for  *)
(* NULLs and values alike: the sizes Row skips and the ones each type reads are     *)
(* those the server wrote (row.cpp:27-51, mysql_types.cpp).                         *)
MetadataInStep ==
  dstep = "column" /\ NothingSkipped(Event, tm) => md.offset = tm.starts[c]

(* A reader that keeps every map by its id decodes rows with the map of their own   *)
(* table, also where ids are used again (dumpToConsole.cpp:20, 71).                 *)
OwnMap ==
  keeps = "by_id" /\ dstep \in {"more", "column", "decoded"} => tm.table = Event.table

\* What Row can make sense of: rows of the map's table, as many bytes of null flags as
\* if every column were there, no metadata of missing columns, no fraction of a second.
RightlyRead(e, m) ==
  /\ m.table_id = e.table_id
  /\ (Place(e, Len(m.types)) + 7) \div 8 = (Len(m.types) + 7) \div 8
  /\ NothingSkipped(e, m)
  /\ \A i \in 1..Len(m.types) : m.types[i] \in DOMAIN WholeSize => MetadataOf(m, i)[1] = 0

InRows == dstep \in {"more", "column", "decoded"} /\ RightlyRead(Event, tm)

(* The reader of the row data stands where the server began the row, or the column, *)
(* that is read next, and stops behind the last row: every read takes exactly the   *)
(* bytes of its value (row.cpp:17-110, mysql_types.cpp).                            *)
DataInStep ==
  InRows => /\ data.offset = Event.begins[Len(rows) + 1][IF dstep = "column" THEN c ELSE 0]
            /\ dstep = "decoded" => Len(rows) = Len(Event.cells)

\* What the i-th column's read makes of its own bytes in the r-th row.
OwnRead(e, m, r, i) == read(m.types[i], MetadataOf(m, i), Reader(Part(e, r, i)))

\* NULL where the source has NULL, else what is read of the column's own bytes.
IsCell(value, e, m, r, i) ==
  IF e.cells[r][i] = Null THEN value = Null
  ELSE value # Null /\ ~OwnRead(e, m, r, i).thrown /\ value = OwnRead(e, m, r, i).value

\* The values are those of the first i columns of the r-th row, as far as they are there.
HasCells(values, e, m, r, i) ==
  /\ Len(values) = Place(e, i)
  /\ \A k \in 1..i : There(e, k) => IsCell(values[Place(e, k)], e, m, r, k)

(* A decoded row has the cells of the source's row, NULL for NULL, each read from   *)
(* its own bytes with its own metadata, whatever its neighbours are, and also in    *)
(* images that leave columns out (row.cpp:22-110).                                  *)
OwnCells ==
  InRows => /\ \A r \in 1..Len(rows) : HasCells(rows[r], Event, tm, r, column_count)
            /\ dstep = "column" => HasCells(row, Event, tm, Len(rows) + 1, c - 1)

\* The reads that throw though the bytes of the value are there: those not written, a
\* number that does not fit, a fraction of no digits, a CHAR or SET.
MayThrow(e, m, r, i) ==
  \/ m.types[i] \in Unreadable
  \/ /\ m.types[i] \in {"TIME", "DATETIME", "TIMESTAMP2"} \union StringTypes
     /\ OwnRead(e, m, r, i).thrown

DecodeThrows == dstep \in {"more", "column"} /\ dstep' = "thrown"

(* No decoding ends in an exception but at a column that is not NULL and of a type  *)
(* whose read may throw: the size checks of the reader never fail                   *)
(* (rawDataReader.h:43, 57, row.cpp:110, mysql_types.cpp).                          *)
ThrowsRightly ==
  [][DecodeThrows /\ RightlyRead(Event, tm)
       => /\ dstep = "column" /\ There(Event, c)
          /\ Event.cells[Len(rows) + 1][c] # Null /\ MayThrow(Event, tm, Len(rows) + 1, c)]_decodeVars
=============================================================================
