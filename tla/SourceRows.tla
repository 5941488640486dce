----------------------------- MODULE SourceRows -----------------------------
(***************************************************************************)
(* What a MariaDB server sends of a table's rows: in the binlog, bytes,    *)
(* and to a client, fields.  None of it is the program's; it follows from  *)
(* what the program reads.  A column is its declared type and whether the  *)
(* temporal formats of old are used; a cell of it is a DbValue, with what  *)
(* the program drops at its end: the fraction of a second, the sign of a   *)
(* TIME, and before an ENUM's label its index.                             *)
(***************************************************************************)
EXTENDS PqValues

Column(base, args, sign, old) == [declared |-> Declared(base, args, sign), old |-> old]

FieldTypes ==
  [tinyint |-> "TINY", smallint |-> "SHORT", mediumint |-> "INT24", int |-> "LONG",
   bigint |-> "LONGLONG", year |-> "YEAR", float |-> "FLOAT", double |-> "DOUBLE",
   decimal |-> "NEWDECIMAL", bit |-> "BIT", date |-> "DATE", time |-> "TIME",
   datetime |-> "DATETIME", timestamp |-> "TIMESTAMP", char |-> "STRING",
   binary |-> "STRING", enum |-> "STRING", set |-> "STRING", varchar |-> "VAR_STRING",
   varbinary |-> "VAR_STRING", tinytext |-> "BLOB", text |-> "BLOB", tinyblob |-> "BLOB",
   blob |-> "BLOB", longblob |-> "BLOB"]

\* The type of a result's field, and whether its character set is the binary one.
FieldType(column) == FieldTypes[column.declared.base]
IsBinary(column) == column.declared.base \in {"binary", "varbinary", "tinyblob", "blob", "longblob"}

\* The type and the metadata of a column in a TABLE_MAP event.
NewFormats == [TIME |-> "TIME2", DATETIME |-> "DATETIME2", TIMESTAMP |-> "TIMESTAMP2"]

BinlogType(column) ==
  LET type == FieldType(column)
  IN CASE type = "VAR_STRING" -> "VARCHAR"
       [] type \in DOMAIN NewFormats /\ ~column.old -> NewFormats[type]
       [] OTHER -> type

LengthBytes == [tinytext |-> 1, text |-> 2, tinyblob |-> 1, blob |-> 2, longblob |-> 4]
RealTypes   == [char |-> 254, binary |-> 254, enum |-> ENUM, set |-> 248]

Metadata(column) ==
  LET type == column.declared.base
      args == column.declared.args
  IN CASE type \in DOMAIN RealTypes   -> <<RealTypes[type], IF args = <<>> THEN 1 ELSE args[1]>>
       [] type \in DOMAIN LengthBytes -> <<LengthBytes[type]>>
       [] type \in {"varchar", "varbinary"} -> <<args[1] % 256, args[1] \div 256>>
       [] type = "float"              -> <<4>>
       [] type = "double"             -> <<8>>
       [] type \in {"bit", "decimal"} -> <<8, 2>>
       [] BinlogType(column) \in DOMAIN WholeSize -> <<IF args = <<>> THEN 0 ELSE args[1]>>
       [] OTHER                       -> <<>>

-----------------------------------------------------------------------------
\* The l lowest bytes of a number, at most four.
LittleEndian(n, l) ==
  LET shifted == <<n, n \div 256, n \div 65536, n \div 16777216>>
  IN [i \in 1..l |-> shifted[i] % 256]

BigEndian(n, l) == Reverse(LittleEndian(n, l))

Pow2(n) == 2^n

LongLong(of) ==
  IF Len(of) = 2 THEN LittleEndian(of[2], 4) \o LittleEndian(of[1], 4)
  ELSE LittleEndian(of[1], 4) \o LittleEndian(IF of[1] < 0 THEN -1 ELSE 0, 4)

\* A decimal's digits, and its exponent in the last byte.
DecimalBytes(of, l) ==
  [i \in 1..l |-> IF i = l THEN of[2] + 128 ELSE IF i <= 4 THEN LittleEndian(of[1], 4)[i] ELSE 0]

\* Two decimal digits for each field, as one number of l bytes.
Hundreds(of, l) ==
  LET times100(bytes, d) ==
        FoldLeft(LAMBDA acc, b : [carry |-> (100 * b + acc.carry) \div 256,
                                  out   |-> Append(acc.out, (100 * b + acc.carry) % 256)],
                 [carry |-> d, out |-> <<>>], bytes).out
  IN FoldLeft(times100, [i \in 1..l |-> 0], of)

TimeBits(of) ==
  LET n == Pow2(12) * of[1] + Pow2(6) * of[2] + of[3]
  IN Pow2(23) + (IF Len(of) = 4 THEN -n ELSE n)

DateTimeBytes(of) ==
  BigEndian(Pow2(23) + Pow2(6) * (13 * of[1] + of[2]) + 2 * of[3] + of[4] \div 16, 3)
    \o BigEndian(Pow2(12) * (of[4] % 16) + Pow2(6) * of[5] + of[6], 2)

\* The bytes of a cell in the row data.
Encode(column, cell) ==
  LET of   == cell.of
      type == BinlogType(column)
      base == column.declared.base
  IN CASE type \in DOMAIN IntegerSize -> LittleEndian(of[1], IntegerSize[type])
       [] type = "INT24"     -> LittleEndian(of[1], 3)
       [] type = "LONGLONG"  -> LongLong(of)
       [] type = "YEAR"      -> <<IF of[1] = 0 THEN 0 ELSE of[1] - 1900>>
       [] type \in DOMAIN FloatSize -> DecimalBytes(of, FloatSize[type])
       [] type = "DATE"      -> LittleEndian(Pow2(9) * of[1] + Pow2(5) * of[2] + of[3], 3)
       [] type = "TIME2"     -> BigEndian(TimeBits(of), 3)
       [] type = "TIME"      -> Hundreds(SubSeq(of, 1, 3), 3)
       [] type = "DATETIME"  -> Hundreds(SubSeq(of, 1, 6), 8)
       [] type = "DATETIME2" ->
            DateTimeBytes(of)
              \o (IF Len(of) = 7 THEN BigEndian(of[7], (column.declared.args[1] + 1) \div 2) ELSE <<>>)
       [] base = "enum"      -> <<of[1]>>
       [] base \in DOMAIN LengthBytes -> LittleEndian(Len(of), LengthBytes[base]) \o of
       [] type = "VARCHAR"   ->
            LittleEndian(Len(of), IF column.declared.args[1] > 255 THEN 2 ELSE 1) \o of
       [] type \in {"TIMESTAMP", "TIMESTAMP2"} -> <<101, 1, 2, 3>>
       [] type = "NEWDECIMAL" -> <<128, 0, 0, 12, 50>>
       [] OTHER              -> <<Len(of)>> \o of

-----------------------------------------------------------------------------
\* Bits as bytes, the first bit the lowest.
Bitmap(bits) ==
  [i \in 1..((Len(bits) + 7) \div 8) |->
     FoldRight(LAMBDA k, n : 2 * n + (IF 8 * (i - 1) + k <= Len(bits) THEN bits[8 * (i - 1) + k] ELSE 0),
               [k \in 1..8 |-> k], 0)]

\* The null flags of the columns that are there, and the bytes of each column: those
\* of a value, for NULLs and for columns that are not there none.
RowParts(columns, image, cells) ==
  LET there == SelectSeq([i \in DOMAIN columns |-> i], LAMBDA i : image[i] = 1)
  IN <<Bitmap([i \in DOMAIN there |-> IF cells[there[i]] = Null THEN 1 ELSE 0])>>
       \o [i \in DOMAIN columns |->
             IF image[i] = 0 \/ cells[i] = Null THEN <<>> ELSE Encode(columns[i], cells[i])]

TableMapEvent(id, name, columns) ==
  [event |-> "table_map", table_id |-> id, table |-> name,
   types |-> [i \in DOMAIN columns |-> BinlogType(columns[i])],
   metadata |-> FlattenSeq([i \in DOMAIN columns |-> Metadata(columns[i])]),
   starts |-> [i \in 1..(Len(columns) + 1) |->
                 Len(FlattenSeq([j \in 1..(i - 1) |-> Metadata(columns[j])]))]]

RowsEventOf(id, name, columns, image, rows) ==
  LET parts  == [r \in DOMAIN rows |-> RowParts(columns, image, rows[r])]
      before(r, i) == Len(FlattenSeq(FlattenSeq(SubSeq(parts, 1, r - 1))))
                        + (IF r \in DOMAIN rows THEN Len(FlattenSeq(SubSeq(parts[r], 1, i))) ELSE 0)
  IN [event |-> "rows", table_id |-> id, table |-> name,
      column_bitmap |-> Bitmap(image),
      row_data |-> FlattenSeq(FlattenSeq(parts)),
      cells |-> rows,
      begins |-> [r \in 1..(Len(rows) + 1) |-> [i \in 0..(Len(columns) + 1) |-> before(r, i)]]]
=============================================================================
