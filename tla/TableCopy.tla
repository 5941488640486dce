------------------------------ MODULE TableCopy ------------------------------
(***************************************************************************)
(* The rows addTable copies: TypeMapper's types for the columns, then a    *)
(* SELECT whose fields are bound to buffers of fixed types, each fetched   *)
(* row written as a line of COPY text, and the whole text read by          *)
(* PostgreSQL when the upload is closed.  A step is one fetch or field.    *)
(***************************************************************************)
EXTENDS SourceRows

CONSTANT Tables  \* tables of the source: their columns, their rows and how many of
                 \* these are there when the table is added

ASSUME TableAssumption ==
  \A t \in Tables : t.copied \in 0..Len(t.rows)
                      /\ \A i \in DOMAIN t.rows : DOMAIN t.rows[i] = DOMAIN t.columns

VARIABLES
  table,    \* the table that is added
  cstep,    \* "map", "prepare", "fetch", "write", "upload", then "copied" or "refused"
  types,    \* the types of the target's columns
  cursor,   \* rows fetched
  ordinal,  \* fields written of the last one
  text,     \* the COPY text so far
  content   \* the target's rows

copyVars == <<table, cstep, types, cursor, ordinal, text, content>>

Columns == table.columns
cols == Len(Columns)

Bound ==
  [TINY |-> "int8", SHORT |-> "int16", YEAR |-> "int16", LONG |-> "int32", INT24 |-> "int32",
   LONGLONG |-> "int64", FLOAT |-> "float", DOUBLE |-> "double", NEWDECIMAL |-> "double",
   DATETIME |-> "DateTime", TIMESTAMP |-> "DateTime", TIME |-> "Time", DATE |-> "Date",
   VAR_STRING |-> "string", STRING |-> "string", BLOB |-> "string"]

\* The type of the buffer a field is bound to; BIT, SET and GEOMETRY have none.
getBind(column) ==
  IF FieldType(column) \notin DOMAIN Bound THEN "unsupported"
  ELSE IF Bound[FieldType(column)] = "string" /\ IsBinary(column) THEN "Blob"
  ELSE Bound[FieldType(column)]

\* The characters of a DECIMAL's text: a sign, digits before the point, at least one,
\* and those its scale has behind it.
TextLength(column, d) ==
  LET scale == column.declared.args[2]
  IN (IF d[1] < 0 THEN 1 ELSE 0) + Max({1, DigitCount(d[1]) + d[2]})
       + (IF scale > 0 THEN 1 + scale ELSE 0)

\* What the signed types of the buffers hold, and the bytes of a double's.
Largest == [int8 |-> 127, int16 |-> 32767, int32 |-> 2147483647]
DoubleBytes == 8

\* The connector reports a number its buffer's type cannot hold, and a text that is
\* longer than its buffer: fetch throws.
Truncated(column, cell) ==
  /\ cell # Null
  /\ \/ getBind(column) \in DOMAIN Largest /\ cell.of[1] > Largest[getBind(column)]
     \/ FieldType(column) = "NEWDECIMAL" /\ TextLength(column, cell.of) > DoubleBytes

\* The text of a DECIMAL that is short enough, as the bytes of a double: next to nothing.
DigitsAsDouble == DbValue("decimal", <<1, -308>>)

\* ResultData::getValue, or "thrown" where a field of a date does not fit.
getValue(column, cell) ==
  LET bound == getBind(column)
  IN IF cell = Null THEN Null
     ELSE CASE FieldType(column) = "NEWDECIMAL" -> DigitsAsDouble
            [] bound = "Time"      -> IF cell.of[1] > 255 THEN DbValue("thrown", <<>>)
                                      ELSE DbValue("time", SubSeq(cell.of, 1, 3))
            [] bound = "DateTime"  -> DbValue("datetime", SubSeq(cell.of, 1, 6))
            [] cell.is = "enum"    -> DbValue("string", Tail(cell.of))
            [] OTHER               -> cell

-----------------------------------------------------------------------------
\* addTable's CREATE TABLE.
MapColumns ==
  /\ cstep = "map"
  /\ types' = [i \in DOMAIN Columns |-> map(Columns[i].declared)]
  /\ cstep' = IF \E i \in DOMAIN Columns : types'[i] = NoMapping THEN "refused" ELSE "prepare"
  /\ UNCHANGED <<table, cursor, ordinal, text, content>>

\* beginBulkUpload, prepare, execute and cursor.
PrepareCopy ==
  /\ cstep = "prepare"
  /\ cstep' = IF \E i \in DOMAIN Columns : getBind(Columns[i]) = "unsupported"
              THEN "refused" ELSE "fetch"
  /\ UNCHANGED <<table, types, cursor, ordinal, text, content>>

FetchRow ==
  /\ cstep = "fetch" /\ cursor < table.copied
  /\ cursor' = cursor + 1
  /\ ordinal' = 0
  /\ cstep' = IF \E i \in DOMAIN Columns : Truncated(Columns[i], table.rows[cursor'][i])
              THEN "refused" ELSE "write"
  /\ UNCHANGED <<table, types, text, content>>

Field == getValue(Columns[ordinal + 1], table.rows[cursor][ordinal + 1])

\* nextField but for the first, and the field's value.
WriteField ==
  /\ cstep = "write" /\ ordinal < cols
  /\ Copyable(Field) /\ Field.is # "thrown"
  /\ text' = text \o (IF ordinal > 0 THEN <<Char(TAB)>> ELSE <<>>) \o CopyText(Field)
  /\ ordinal' = ordinal + 1
  /\ UNCHANGED <<table, cstep, types, cursor, content>>

WriteFieldFails ==
  /\ cstep = "write" /\ ordinal < cols
  /\ ~Copyable(Field) \/ Field.is = "thrown"
  /\ cstep' = "refused"
  /\ UNCHANGED <<table, types, cursor, ordinal, text, content>>

\* nextRecord.
EndRecord ==
  /\ cstep = "write" /\ ordinal = cols
  /\ text' = Append(text, Char(LF))
  /\ cstep' = "fetch"
  /\ UNCHANGED <<table, types, cursor, ordinal, content>>

\* fetch finds no row, fclose ends the upload, and PostgreSQL takes all of it or
\* nothing.
EndBulkUpload ==
  /\ cstep = "fetch" /\ cursor = table.copied
  /\ LET records == CopyRecords(text)
         values  == [r \in DOMAIN records |->
                       [i \in DOMAIN records[r] |->
                          IF i \in DOMAIN types THEN Input(types[i], 0, records[r][i]) ELSE Refused]]
     IN IF \E r \in DOMAIN values : Len(values[r]) # cols \/ \E i \in 1..cols : values[r][i] = Refused
        THEN cstep' = "refused" /\ UNCHANGED content
        ELSE cstep' = "copied" /\ content' = values
  /\ UNCHANGED <<table, types, cursor, ordinal, text>>

CopyInit ==
  /\ table \in Tables
  /\ cstep = "map"
  /\ types = <<>>
  /\ cursor = 0 /\ ordinal = 0
  /\ text = <<>>
  /\ content = <<>>

Copy ==
  \/ MapColumns \/ PrepareCopy \/ FetchRow
  \/ WriteField \/ WriteFieldFails \/ EndRecord \/ EndBulkUpload
=============================================================================
