----------------------------- MODULE MySQLTypes -----------------------------
(***************************************************************************)
(* How each MySQL type is read from a row of the binlog: Type<T>::read,    *)
(* which takes the column's metadata from one reader and its value from    *)
(* another, and the bytes of metadata Row skips instead where the value is *)
(* NULL.  Row names no type's unsigned variant.                            *)
(***************************************************************************)
EXTENDS RawData

\* DbValue: which of its types it holds, and the value as numbers: one for an
\* integer, the character codes of a string, the fields of a date.
DbValue(is, of) == [is |-> is, of |-> of]
Null == DbValue("null", <<>>)

IntegerSize  == [TINY |-> 1, SHORT |-> 2, LONG |-> 4]
FloatSize    == [FLOAT |-> 4, DOUBLE |-> 8]
Unreadable   == {"DECIMAL", "NEWDECIMAL", "BIT", "NEWDATE"}
BlobTypes    == {"TINY_BLOB", "MEDIUM_BLOB", "LONG_BLOB", "GEOMETRY"}
StringTypes  == {"STRING", "JSON", "SET", "ENUM"}

EventTypes ==
  {"TINY", "SHORT", "LONG", "LONGLONG", "INT24", "YEAR", "NULL", "FLOAT", "DOUBLE",
   "TIMESTAMP", "DATE", "TIME", "DATETIME", "TIMESTAMP2", "TIME2", "DATETIME2",
   "BLOB", "VARCHAR", "VAR_STRING"}
    \union Unreadable \union BlobTypes \union StringTypes

\* MYSQL_TYPE_ENUM and MYSQL_TYPE_VAR_STRING, as bytes of metadata.
ENUM       == 247
VAR_STRING == 253

-----------------------------------------------------------------------------
\* Bytes of metadata that read takes or discards; a VAR_STRING's length is one of
\* one byte or two there.
MetadataRead(type, md) ==
  CASE type \in StringTypes \union {"VARCHAR"} -> 2
    [] type = "VAR_STRING" -> IF Holds(md, 2) /\ Ahead(md, 2)[2] > 0 THEN 4 ELSE 3
    [] type \in BlobTypes \union {"BLOB", "FLOAT", "DOUBLE",
                                  "TIMESTAMP2", "DATETIME2", "TIME2"} -> 1
    [] OTHER -> 0

\* Bytes of metadata Row discards where the column is NULL.
MetadataSkipped(type) ==
  CASE type \in {"BIT", "ENUM", "SET", "NEWDECIMAL", "DECIMAL",
                 "VARCHAR", "VAR_STRING", "STRING"} -> 2
    [] type \in {"TINY_BLOB", "MEDIUM_BLOB", "LONG_BLOB", "BLOB",
                 "FLOAT", "DOUBLE", "TIMESTAMP2", "DATETIME2", "TIME2"} -> 1
    [] OTHER -> 0

\* Bytes of metadata the server writes for a column.
MetadataSize(type) ==
  CASE type \in {"STRING", "ENUM", "SET", "VARCHAR", "VAR_STRING", "BIT", "NEWDECIMAL"} -> 2
    [] type \in BlobTypes \union {"BLOB", "JSON", "FLOAT", "DOUBLE",
                                  "TIMESTAMP2", "DATETIME2", "TIME2"} -> 1
    [] OTHER -> 0

\* Types with a fraction of a second, and the bytes before it.
WholeSize == [TIME2 |-> 3, TIMESTAMP2 |-> 4, DATETIME2 |-> 5]

\* The bytes are a length of l bytes, and as many bytes as it says.
HasLength(l, bytes) == l <= Len(bytes) /\ Len(bytes) = l + Length(SubSeq(bytes, 1, l))

\* The bytes are as many as the server writes for a value of the type; for the types
\* that no read is written for, any.
IsValue(type, md, bytes) ==
  CASE type \in DOMAIN IntegerSize -> Len(bytes) = IntegerSize[type]
    [] type \in DOMAIN FloatSize   -> Len(bytes) = FloatSize[type]
    [] type \in DOMAIN WholeSize   -> Len(bytes) = WholeSize[type] + (md[1] + 1) \div 2
    [] type \in {"LONGLONG", "DATETIME"}     -> Len(bytes) = 8
    [] type \in {"INT24", "DATE", "TIME"}    -> Len(bytes) = 3
    [] type = "YEAR"                         -> Len(bytes) = 1
    [] type = "TIMESTAMP"                    -> Len(bytes) = 4
    [] type \in BlobTypes \union {"BLOB"}    -> HasLength(md[1], bytes)
    [] type = "VARCHAR"                      -> HasLength(IF md[2] > 0 THEN 2 ELSE 1, bytes)
    [] type \in StringTypes /\ md[1] = ENUM  -> Len(bytes) = md[2]
    [] OTHER -> TRUE

-----------------------------------------------------------------------------
\* What read returns, with its data reader as it leaves it.
Threw(data) == [thrown |-> TRUE, value |-> Null, data |-> data]

\* A value of l bytes, of which the fields are made.
Fixed(data, l, is, fields) ==
  IF Holds(data, l)
  THEN [thrown |-> FALSE, value |-> DbValue(is, fields), data |-> discard(data, l)]
  ELSE Threw(data)

\* numeric_cast of the first field.
Cast(result, max) ==
  IF ~result.thrown /\ result.value.of[1] > max THEN Threw(result.data) ELSE result

\* Some bytes that hold a length, and as many bytes as it says.
Counted(data, lenlen, is) ==
  IF lenlen \in 1..8 /\ Holds(data, lenlen)
  THEN LET length == Length(Ahead(data, lenlen))
           rest   == discard(data, lenlen)
       IN Fixed(rest, length, is, Ahead(rest, length))
  ELSE Threw(data)

\* The bytes of a FLOAT or DOUBLE stand for the digits of a decimal, in as many of
\* them as a number has, and its exponent in the last.
Decimal(b) == <<Number(SubSeq(b, 1, Len(b) - 1)), Last(b) - 128>>

\* Faulty: the year 0 is moved as well.
yearMoved(b) == b[1] + 1900

year(b) == IF b[1] = 0 THEN 0 ELSE b[1] + 1900

dateFrom24bit(b) == <<bitslice(b, 14, 9), bitslice(b, 4, 5), bitslice(b, 5, 0)>>

time2From24bit(b) == <<bitslice(b, 5, 20), bitslice(b, 6, 14), bitslice(b, 6, 8)>>

datetime2From40bit(b) ==
  LET months == bitslice(b, 17, 46)
  IN <<months \div 13, months % 13, bitslice(b, 5, 41),
       bitslice(b, 5, 36), bitslice(b, 6, 30), bitslice(b, 6, 24)>>

\* The fields of a number that has two decimal digits for each, the first without
\* bound: the last of them are extracted one by one.
InHundreds(b, fields) ==
  LET step(acc, i) == LET r == mod100_extract(acc.quot)
                      IN [quot |-> r.quot, of |-> <<r.rem>> \o acc.of]
      all == FoldLeft(step, [quot |-> b, of |-> <<>>], [i \in 1..(fields - 1) |-> i])
  IN <<Length(all.quot)>> \o all.of

\* Type<T>::read with the bytes of metadata it takes, of a type it is written for.
read(type, md, data) ==
  LET b(l) == Ahead(data, l)
  IN CASE type \in DOMAIN IntegerSize ->
            Fixed(data, IntegerSize[type], "int", <<Signed(b(IntegerSize[type]))>>)
       [] type = "LONGLONG"  -> Fixed(data, 8, "int", Wide(b(8)))
       [] type = "INT24"     -> Fixed(data, 3, "int", <<Number(b(3))>>)
       [] type = "YEAR"      -> Fixed(data, 1, "int", <<year(b(1))>>)
       [] type = "NULL"      -> Fixed(data, 0, "null", <<>>)
       [] type \in DOMAIN FloatSize ->
            IF md[1] = FloatSize[type]
            THEN Fixed(data, FloatSize[type], "decimal", Decimal(b(FloatSize[type])))
            ELSE Threw(data)
       [] type = "TIMESTAMP" -> Fixed(data, 4, "timespec", <<Signed(b(4))>>)
       [] type = "DATE"      -> Fixed(data, 3, "date", dateFrom24bit(b(3)))
       [] type = "TIME"      -> Cast(Fixed(data, 3, "time", InHundreds(b(3), 3)), 255)
       [] type = "DATETIME"  -> Cast(Fixed(data, 8, "datetime", InHundreds(b(8), 6)), 65535)
       [] type = "TIMESTAMP2" ->
            IF md[1] \in 1..8 /\ Holds(data, 4 + md[1])
            THEN Fixed(data, 4 + md[1], "timespec", <<Signed(b(4))>>)
            ELSE Threw(data)
       [] type = "TIME2"     -> Fixed(data, 3, "time", time2From24bit(ntoh(b(3), 4)))
       [] type = "DATETIME2" -> Fixed(data, 5, "datetime", datetime2From40bit(ntoh(b(5), 8)))
       [] type = "BLOB"      -> Counted(data, md[1], "string")
       [] type \in BlobTypes -> Counted(data, md[1], "blob")
       [] type = "VARCHAR"   -> Counted(data, IF md[2] > 0 THEN 2 ELSE 1, "string")
       [] type = "VAR_STRING" -> LET l == Number(SubSeq(md, 3, Len(md))) IN Fixed(data, l, "string", b(l))
       [] type \in StringTypes ->
            IF md[1] \in {ENUM, VAR_STRING} THEN Fixed(data, md[2], "string", b(md[2]))
            ELSE Threw(data)
=============================================================================
