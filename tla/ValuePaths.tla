------------------------------ MODULE ValuePaths ------------------------------
(***************************************************************************)
(* The two ways a value takes from a table to its copy: through the SELECT *)
(* and the COPY of addTable for the rows that are there, through the       *)
(* binlog, Row, Bindings and a prepared INSERT for those written later.    *)
(* Composes TableCopy and RowDecode; the other reader of the binlog,       *)
(* DumpToConsole, prints what it decodes.                                  *)
(***************************************************************************)
EXTENDS TableCopy, RowDecode

VARIABLES
  inserted, \* rows of the event inserted so far
  draft     \* what they have put into the open transaction

vars == <<copyVars, decodeVars, inserted, draft>>

-----------------------------------------------------------------------------
Inputs(r) == [i \in DOMAIN r |-> LET b == Binding(r[i]) IN Input(types[i], b.format, b.text)]

\* The statement has a parameter for each column, and each is one its type takes.
Accepted(r) ==
  /\ \A i \in DOMAIN r : Bindable(r[i])
  /\ Len(r) = cols
  /\ \A i \in DOMAIN r : Inputs(r)[i] # Refused

Inserting == dstep = "decoded" /\ keeps = "last"

\* insertInto->execute.
InsertRow ==
  /\ Inserting /\ inserted < Len(rows) /\ Accepted(rows[inserted + 1])
  /\ draft' = Append(draft, Inputs(rows[inserted + 1]))
  /\ inserted' = inserted + 1
  /\ UNCHANGED <<copyVars, decodeVars>>

\* The exception ends the process, and its transaction.
InsertRowFails ==
  /\ Inserting /\ inserted < Len(rows) /\ ~Accepted(rows[inserted + 1])
  /\ draft' = <<>>
  /\ dstep' = "thrown"
  /\ UNCHANGED <<copyVars, keeping, at, decoding, inserted>>

Commit ==
  /\ Inserting /\ inserted = Len(rows)
  /\ content' = content \o draft
  /\ draft' = <<>> /\ inserted' = 0
  /\ Handled
  /\ UNCHANGED <<table, cstep, types, cursor, ordinal, text>>

\* dumpRowData.
DumpRowData ==
  /\ dstep = "decoded" /\ keeps = "by_id"
  /\ Handled
  /\ UNCHANGED <<copyVars, inserted, draft>>

-----------------------------------------------------------------------------
\* The binlog a reader gets: a second table's TABLE_MAP with an id that this table
\* has later, and for a reader that keeps maps by their id one in between as well.
StreamOf(t) ==
  LET other == <<Column("int", <<>>, "", FALSE)>>
      own   == <<TableMapEvent(7, "other", other), TableMapEvent(7, "own", t.columns)>>
      later == SubSeq(t.rows, t.copied + 1, Len(t.rows))
  IN own \o (IF t.reader = "by_id" THEN <<TableMapEvent(8, "other", other)>> ELSE <<>>)
         \o <<RowsEventOf(7, "own", t.columns, t.image, later)>>

ASSUME PathAssumption ==
  /\ \A t \in Tables : t.reader \in {"by_id", "last"}
  /\ {StreamOf(t) : t \in Tables} \subseteq Streams

ASSUME FloatAssumption ==
  \A t \in Tables : \A r \in DOMAIN t.rows, i \in DOMAIN t.columns :
    t.columns[i].declared.base = "float" /\ t.rows[r][i] # Null => IsReal(t.rows[r][i].of)

Init ==
  /\ CopyInit
  /\ stream = StreamOf(table)
  /\ keeps = table.reader
  /\ DecodeStart
  /\ inserted = 0 /\ draft = <<>>

Next ==
  \/ keeps = "last" /\ Copy /\ UNCHANGED <<decodeVars, inserted, draft>>
  \/ (cstep = "copied" \/ keeps = "by_id") /\ Decode /\ UNCHANGED <<copyVars, inserted, draft>>
  \/ InsertRow \/ InsertRowFails \/ Commit \/ DumpRowData

Spec == Init /\ [][Next]_vars

-----------------------------------------------------------------------------
Base(i) == Columns[i].declared.base
Copied(r) == r <= table.copied
Backslashed(cell) == cell.is = "string" /\ \E i \in DOMAIN cell.of : cell.of[i] = Backslash

\* What the target should have of a cell, and what it keeps something else for.
Truth(cell) == IF cell.is = "enum" THEN DbValue("string", Tail(cell.of)) ELSE cell

\* PqRecordSet reads every TIME back but the last.
LastTime(cell) == cell.is = "time" /\ cell.of[1] = 24

LosesCopied(i, cell) ==
  \/ Base(i) = "decimal" /\ cell.of[1] # 0
  \/ Base(i) = "double" /\ ~IsReal(cell.of)
  \/ cell.is = "decimal" /\ DigitCount(cell.of[1]) > 6
  \/ cell.is \in {"time", "datetime"} /\ Len(cell.of) # Len(getValue(Columns[i], cell).of)
  \/ Base(i) = "char" /\ Len(cell.of) < Columns[i].declared.args[1]
  \/ Backslashed(cell)

\* The largest number of a type that is signed.
SignedMax == [tinyint |-> 127, smallint |-> 32767, int |-> 2147483647]

LosesReplicated(i, cell) ==
  \/ Base(i) = "mediumint" /\ cell.of[1] < 0
  \/ Base(i) \in DOMAIN SignedMax /\ cell.of[1] > SignedMax[Base(i)]
  \/ Base(i) = "double" /\ ~IsReal(cell.of)
  \/ cell.is = "decimal" /\ cell.of[2] < -6
  \/ cell.is = "time" /\ (cell.of[1] >= 32 \/ Len(cell.of) = 4)
  \/ cell.is = "enum"

\* A fraction of a second, which DATETIME2's read leaves to the column after it.
Fractional == \E i \in DOMAIN Columns : Base(i) = "datetime" /\ Columns[i].declared.args # <<>>

\* A DOUBLE that a real could hold, in a text with fewer digits: the real nearest to
\* the text may be the same number after all.
LeftOpen(r, i, cell) ==
  /\ Base(i) = "double" /\ cell # Null /\ IsReal(cell.of)
  /\ (IF Copied(r) THEN General(cell.of) ELSE ToDecimals(cell.of, 6)) # cell.of

(* A row of the target reads back, as the tests read it, as the source's row, and   *)
(* does so exactly for the values not listed above: what each path loses is lost in *)
(* every combination with other columns and NULLs, and nothing else is              *)
(* (writePqCopyStrm.cpp, mysqlRecordSet.cpp, typeMapper.cpp, row.cpp,               *)
(* mysql_types.cpp, pqBindings.h; the tests compare alike, test-e2e.cpp:329).       *)
Kept ==
  \A r \in DOMAIN content : (Copied(r) \/ ~Fractional) =>
    \A i \in DOMAIN Columns :
      LET cell   == table.rows[r][i]
          stored == content[r][i]
          back   == IF types[i].base \in {"boolean", "bytea"} THEN stored
                    ELSE PqRecordSetAt(types[i], stored)
          loses  == cell # Null /\ (LastTime(cell) \/ IF Copied(r) THEN LosesCopied(i, cell)
                                                      ELSE LosesReplicated(i, cell))
      IN LeftOpen(r, i, cell) \/ (back = Truth(cell) <=> ~loses)

\* What PostgreSQL has no value for, in either way.
Unfit(i, cell) ==
  \/ Base(i) = "tinyint" /\ Columns[i].declared.args = <<1>> /\ cell.of[1] \notin {0, 1}
  \/ cell.is \in {"date", "datetime"} /\ ~IsDate(cell.of)
  \/ cell.is = "string" /\ \E k \in DOMAIN cell.of : cell.of[k] = 0

\* PostgreSQL's last time is 24:00:00.
TooLate(t) == t[2] >= 60 \/ t[3] >= 60 \/ 3600 * t[1] + 60 * t[2] + t[3] > 86400

UnfitCopied(i, cell) ==
  \/ Unfit(i, cell)
  \/ cell.is = "time" /\ TooLate(cell.of)
  \/ Base(i) \in DOMAIN SignedMax /\ cell.of[1] > SignedMax[Base(i)]
  \/ Base(i) = "decimal" /\ TextLength(Columns[i], cell.of) > 8
  \/ Base(i) = "double" /\ ~FitsReal(General(cell.of))

\* A backslash at the end of a field takes the tab or line feed behind it.
SwallowsEnd(r, i) ==
  LET cell == table.rows[r][i]
  IN /\ cell.is = "string" /\ cell.of # <<>> /\ Last(cell.of) = Backslash
     /\ r < table.copied \/ i < cols

\* The hours, minutes and seconds that the readers of a TIME take its bytes for.
TimeTaken(i, cell) ==
  LET bits == TimeBits(cell.of)
  IN IF Columns[i].old THEN cell.of
     ELSE <<(bits \div Pow2(12)) % 32, (bits \div Pow2(6)) % 64, bits % 64>>

UnfitReplicated(i, cell) ==
  \/ Unfit(i, cell)
  \/ cell.is = "time" /\ TooLate(TimeTaken(i, cell))
  \/ Base(i) = "double" /\ Above(cell.of, LARGEST)
  \/ Base(i) \in {"char", "binary", "decimal", "timestamp"}

\* A cell of the rows from..to, as its column and its value.
Cells(from, to) ==
  {x \in UNION {{<<i, table.rows[r][i]>> : i \in DOMAIN Columns} : r \in from..to} : x[2] # Null}

(* addTable refuses a table exactly if it has a column without a mapping or a       *)
(* buffer, or a row with a value listed above; no other row keeps a table from      *)
(* being copied (updateDatabase.cpp:100-163).                                       *)
RefusesCopy ==
  LET hopeless == \E i \in DOMAIN Columns : Base(i) \in {"set", "bit"}
      unfit    == (\E x \in Cells(1, table.copied) : UnfitCopied(x[1], x[2]))
                    \/ \E r \in 1..table.copied : \E i \in DOMAIN Columns : SwallowsEnd(r, i)
  IN /\ cstep = "refused" => hopeless \/ unfit
     /\ cstep = "copied" => ~hopeless /\ ~unfit

(* Replication of a table ends exactly at a row with a value listed above, or at a  *)
(* row image that leaves a column out (updateDatabase.cpp:306-336).                 *)
RefusesRows ==
  LET unfit == \E x \in Cells(table.copied + 1, Len(table.rows)) : UnfitReplicated(x[1], x[2])
      whole == \A i \in DOMAIN Columns : table.image[i] = 1
  IN keeps = "last" /\ ~Fractional =>
       /\ dstep = "thrown" => unfit \/ ~whole
       /\ dstep = "next" /\ at = Len(stream) => ~unfit /\ whole
=============================================================================
