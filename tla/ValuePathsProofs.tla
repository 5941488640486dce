--------------------------- MODULE ValuePathsProofs ---------------------------
(***************************************************************************)
(* Both readers of the binlog that ValuePaths composes decode it rightly,  *)
(* and what the program reads of a value's bytes, for every value of a     *)
(* type: the two halves of a value's way to the copy by the binlog.        *)
(***************************************************************************)
EXTENDS ValuePaths, RowDecodeProofs

-----------------------------------------------------------------------------
\* Every step is a reader's: it decodes, is done with an event, gives an event up
\* with the insert that fails, or leaves the reader alone.
LEMMA PathReads == Spec => ReaderSpec
  <1>1. Init => DecodeInit
    BY PathAssumption DEF Init, CopyInit, DecodeInit
  <1>2. [Next]_vars => [Decode \/ GivenUp]_decodeVars
    <2> SUFFICES ASSUME [Next]_vars
                 PROVE  [Decode \/ GivenUp]_decodeVars
      OBVIOUS
    <2>1. CASE Copy /\ UNCHANGED <<decodeVars, inserted, draft>>
      BY <2>1
    <2>2. CASE Decode
      BY <2>2
    <2>3. CASE InsertRow
      BY <2>3 DEF InsertRow
    <2>4. CASE InsertRowFails
      BY <2>4 DEF InsertRowFails, Inserting, GivenUp
    <2>5. CASE Commit
      BY <2>5 DEF Commit, Inserting, Handled, GivenUp
    <2>6. CASE DumpRowData
      BY <2>6 DEF DumpRowData, Handled, GivenUp
    <2>7. CASE UNCHANGED vars
      BY <2>7 DEF vars
    <2> QED
      BY <2>1, <2>2, <2>3, <2>4, <2>5, <2>6, <2>7 DEF Next
  <1> QED
    BY <1>1, <1>2, PTL DEF Spec, ReaderSpec

(* Whatever the tables, their columns, rows and images, the metadata and the data   *)
(* stay in step with the columns, a row is decoded with its own table's map, each   *)
(* value is read from its own bytes, rows have a cell for each column and only the  *)
(* types listed throw: for the inserts of UpdateDatabase and for DumpToConsole      *)
(* (row.cpp:5-73, mysql_types.cpp, updateDatabase.cpp:285-336).                     *)
THEOREM PathsRead ==
  Spec => []MetadataInStep /\ []OwnMap /\ []DataInStep /\ []OwnCells /\ ThrowsRightly
  BY PathReads, ReaderKeeps, PTL

-----------------------------------------------------------------------------
\* The number of each number of bytes.
LEMMA Number1 ==
  ASSUME NEW p \in Int
  PROVE  Number(<<p>>) = p
  BY SMT DEF Number

LEMMA Number2 ==
  ASSUME NEW p \in Int, NEW q \in Int
  PROVE  Number(<<p, q>>) = p + 256 * q
  BY SMT DEF Number

LEMMA Number3 ==
  ASSUME NEW p \in Int, NEW q \in Int, NEW r \in Int
  PROVE  Number(<<p, q, r>>) = p + 256 * q + 65536 * r
  BY SMT DEF Number

LEMMA Number4 ==
  ASSUME NEW p \in Int, NEW q \in Int, NEW r \in Int, NEW s \in Int
  PROVE  Number(<<p, q, r, s>>) = p + 256 * q + 65536 * r + 16777216 * s
  BY SMT DEF Number

\* Two's complement.
LEMMA Signed1 ==
  ASSUME NEW p \in Int
  PROVE  Signed(<<p>>) = IF p < 128 THEN p ELSE p - 256
  <1>1. [i \in DOMAIN <<p>> |-> 255 - <<p>>[i]] = <<255 - p>> /\ Last(<<p>>) = p
    BY SMT DEF Last
  <1>2. Signed(<<p>>) = IF p < 128 THEN Number(<<p>>) ELSE -1 - Number(<<255 - p>>)
    BY <1>1, SMT DEF Signed
  <1>3. Number(<<p>>) = p /\ Number(<<255 - p>>) = 255 - p
    BY Number1, SMT
  <1> QED
    BY <1>2, <1>3, SMT

LEMMA Signed2 ==
  ASSUME NEW p \in Int, NEW q \in Int
  PROVE  Signed(<<p, q>>) = IF q < 128 THEN p + 256 * q ELSE p + 256 * q - 65536
  <1>1. /\ [i \in DOMAIN <<p, q>> |-> 255 - <<p, q>>[i]] = <<255 - p, 255 - q>>
        /\ Last(<<p, q>>) = q
    BY SMT DEF Last
  <1>2. Signed(<<p, q>>)
          = IF q < 128 THEN Number(<<p, q>>) ELSE -1 - Number(<<255 - p, 255 - q>>)
    BY <1>1, SMT DEF Signed
  <1>3. /\ Number(<<p, q>>) = p + 256 * q
        /\ Number(<<255 - p, 255 - q>>) = (255 - p) + 256 * (255 - q)
    BY Number2, SMT
  <1> QED
    BY <1>2, <1>3, SMT

LEMMA Signed4 ==
  ASSUME NEW p \in Int, NEW q \in Int, NEW r \in Int, NEW s \in Int
  PROVE  Signed(<<p, q, r, s>>)
           = IF s < 128 THEN p + 256 * q + 65536 * r + 16777216 * s
             ELSE p + 256 * q + 65536 * r + 16777216 * s - 4294967296
  <1>1. /\ [i \in DOMAIN <<p, q, r, s>> |-> 255 - <<p, q, r, s>>[i]]
             = <<255 - p, 255 - q, 255 - r, 255 - s>>
        /\ Last(<<p, q, r, s>>) = s
    BY SMT DEF Last
  <1>2. Signed(<<p, q, r, s>>)
          = IF s < 128 THEN Number(<<p, q, r, s>>)
            ELSE -1 - Number(<<255 - p, 255 - q, 255 - r, 255 - s>>)
    BY <1>1, SMT DEF Signed
  <1>3. Number(<<p, q, r, s>>) = p + 256 * q + 65536 * r + 16777216 * s
    BY Number4, SMT
  <1>4. Number(<<255 - p, 255 - q, 255 - r, 255 - s>>)
          = (255 - p) + 256 * (255 - q) + 65536 * (255 - r) + 16777216 * (255 - s)
    BY Number4, SMT
  <1> QED
    BY <1>2, <1>3, <1>4, SMT

\* A number of two bytes, three and four, by its bytes.
LEMMA Divided2 ==
  ASSUME NEW n \in Int
  PROVE  /\ (n % 256) + 256 * ((n \div 256) % 256) = n % 65536
         /\ (n \div 256) % 256 < 128 <=> n % 65536 < 32768
  <1>1. (n % 256) + 256 * ((n \div 256) % 256) = n % 65536
    BY SMT
  <1>2. (n \div 256) % 256 < 128 <=> n % 65536 < 32768
    BY SMT
  <1> QED
    BY <1>1, <1>2, SMT

LEMMA Divided3 ==
  ASSUME NEW n \in Int
  PROVE  (n % 65536) + 65536 * ((n \div 65536) % 256) = n % 16777216
  BY SMT

LEMMA Divided4 ==
  ASSUME NEW n \in Int
  PROVE  /\ (n % 16777216) + 16777216 * ((n \div 16777216) % 256) = n % 4294967296
         /\ (n \div 16777216) % 256 < 128 <=> n % 4294967296 < 2147483648
  <1>1. (n % 16777216) + 16777216 * ((n \div 16777216) % 256) = n % 4294967296
    BY SMT
  <1>2. (n \div 16777216) % 256 < 128 <=> n % 4294967296 < 2147483648
    BY SMT
  <1> QED
    BY <1>1, <1>2, SMT

\* What a number's lowest bytes are read as, with a sign and without.
LEMMA LittleNumber3 ==
  ASSUME NEW n \in Int
  PROVE  Number(LittleEndian(n, 3)) = n % 16777216
  <1>1. PICK p \in Int, q \in Int, r \in Int :
          p = n % 256 /\ q = (n \div 256) % 256 /\ r = (n \div 65536) % 256
    BY SMT
  <1>2. p + 256 * q = n % 65536 /\ (n % 65536) + 65536 * r = n % 16777216
    BY <1>1, Divided2, Divided3, SMT
  <1>3. LittleEndian(n, 3) = <<p, q, r>>
    BY <1>1, SMT DEF LittleEndian
  <1>4. Number(<<p, q, r>>) = p + 256 * q + 65536 * r
    BY Number3
  <1> QED
    BY <1>2, <1>3, <1>4, SMT

LEMMA LittleSigned1 ==
  ASSUME NEW n \in Int
  PROVE  Signed(LittleEndian(n, 1)) = IF n % 256 < 128 THEN n % 256 ELSE (n % 256) - 256
  <1>1. PICK p \in Int :
          p = n % 256
    BY SMT
  <1>2. LittleEndian(n, 1) = <<p>>
    BY <1>1, SMT DEF LittleEndian
  <1>3. Signed(<<p>>) = IF p < 128 THEN p ELSE p - 256
    BY Signed1
  <1> QED
    BY <1>1, <1>2, <1>3

LEMMA LittleSigned2 ==
  ASSUME NEW n \in Int
  PROVE  Signed(LittleEndian(n, 2))
           = IF n % 65536 < 32768 THEN n % 65536 ELSE (n % 65536) - 65536
  <1>1. PICK p \in Int, q \in Int :
          p = n % 256 /\ q = (n \div 256) % 256
    BY SMT
  <1>2. PICK two \in Int : two = n % 65536
    BY SMT
  <1>3. two = p + 256 * q /\ (q < 128 <=> two < 32768)
    BY <1>1, <1>2, Divided2, SMT
  <1>4. LittleEndian(n, 2) = <<p, q>>
    BY <1>1, SMT DEF LittleEndian
  <1>5. Signed(<<p, q>>) = IF two < 32768 THEN two ELSE two - 65536
    BY <1>3, Signed2, SMT
  <1> QED
    BY <1>2, <1>4, <1>5, SMT

LEMMA LittleSigned4 ==
  ASSUME NEW n \in Int
  PROVE  Signed(LittleEndian(n, 4))
           = IF n % 4294967296 < 2147483648 THEN n % 4294967296
             ELSE (n % 4294967296) - 4294967296
  <1>1. PICK p \in Int, q \in Int, r \in Int, s \in Int :
          /\ p = n % 256 /\ q = (n \div 256) % 256
          /\ r = (n \div 65536) % 256 /\ s = (n \div 16777216) % 256
    BY SMT
  <1>2. PICK two \in Int, three \in Int, four \in Int :
          two = n % 65536 /\ three = n % 16777216 /\ four = n % 4294967296
    BY SMT
  <1>3. two = p + 256 * q
    BY <1>1, <1>2, Divided2, SMT
  <1>4. three = two + 65536 * r
    BY <1>1, <1>2, Divided3, SMT
  <1>5. four = three + 16777216 * s /\ (s < 128 <=> four < 2147483648)
    BY <1>1, <1>2, Divided4, SMT
  <1>6. LittleEndian(n, 4) = <<p, q, r, s>>
    BY <1>1, SMT DEF LittleEndian
  <1>7. Signed(<<p, q, r, s>>) = IF four < 2147483648 THEN four ELSE four - 4294967296
    BY <1>3, <1>4, <1>5, Signed4, SMT
  <1> QED
    BY <1>2, <1>6, <1>7, SMT

-----------------------------------------------------------------------------
\* What the program reads of the bytes that the server writes of a cell.
ReadBack(column, cell) ==
  read(BinlogType(column), Metadata(column), Reader(Encode(column, cell)))

\* A value of all the bytes that there are.
LEMMA AllOf ==
  ASSUME NEW b \in Seq(Byte), NEW l \in Int, Len(b) = l, NEW is, NEW fields
  PROVE  /\ Ahead(Reader(b), l) = b
         /\ Fixed(Reader(b), l, is, fields)
              = [thrown |-> FALSE, value |-> DbValue(is, fields),
                 data |-> [rawdata |-> b, offset |-> l]]
  <1>1. Ahead(Reader(b), l) = b
    BY SMT DEF Ahead, Reader
  <1>2. Holds(Reader(b), l) /\ discard(Reader(b), l) = [rawdata |-> b, offset |-> l]
    BY SMT DEF Holds, Reader, discard
  <1> QED
    BY <1>1, <1>2 DEF Fixed

\* A number's bytes are bytes, and as many as asked for.
LEMMA LittleBytes ==
  ASSUME NEW n \in Int, NEW l \in 1..4
  PROVE  LittleEndian(n, l) \in Seq(Byte) /\ Len(LittleEndian(n, l)) = l
  <1> DEFINE shifted == <<n, n \div 256, n \div 65536, n \div 16777216>>
  <1>1. \A k \in Int : k % 256 \in Byte
    BY SMT DEF Byte
  <1>2. \A k \in 1..l : shifted[k] \in Int
    BY SMT
  <1>3. LittleEndian(n, l) = [k \in 1..l |-> shifted[k] % 256]
    BY DEF LittleEndian
  <1> HIDE DEF shifted
  <1>4. \A k \in 1..l : shifted[k] % 256 \in Byte
    BY <1>1, <1>2, SMT
  <1>5. LittleEndian(n, l) \in [1..l -> Byte]
    BY <1>3, <1>4, SMT
  <1> QED
    BY <1>5, SMT

\* What the server writes of an integer, and what is read of it.
LEMMA IntegerBytes ==
  ASSUME NEW column, NEW n \in Int, NEW base, NEW type, NEW l,
         <<base, type, l>> \in {<<"tinyint", "TINY", 1>>, <<"smallint", "SHORT", 2>>,
                                <<"int", "LONG", 4>>},
         column.declared.base = base
  PROVE  LET back == ReadBack(column, DbValue("int", <<n>>))
         IN ~back.thrown /\ back.value = DbValue("int", <<Signed(LittleEndian(n, l))>>)
  <1> DEFINE b == LittleEndian(n, l)
  <1>1. /\ l \in 1..4 /\ l \in Nat /\ type \in DOMAIN IntegerSize /\ IntegerSize[type] = l
        /\ type \in {"TINY", "SHORT", "LONG"} /\ base \in {"tinyint", "smallint", "int"}
    BY SMT DEF IntegerSize
  <1>2. BinlogType(column) = type
    BY SMT DEF BinlogType, NewFormats, FieldType, FieldTypes
  <1>3. b \in Seq(Byte) /\ Len(b) = l
    BY <1>1, LittleBytes
  <1>4. DbValue("int", <<n>>).of[1] = n
    BY DEF DbValue
  <1>5. Encode(column, DbValue("int", <<n>>)) = b
    <2>1. CASE type = "TINY"
      <3>1. BinlogType(column) = "TINY" /\ l = IntegerSize["TINY"]
        BY <1>1, <1>2, <2>1
      <3> QED
        BY <1>4, <3>1, SMT DEF Encode, IntegerSize, FloatSize, LengthBytes
    <2>2. CASE type = "SHORT"
      <3>1. BinlogType(column) = "SHORT" /\ l = IntegerSize["SHORT"]
        BY <1>1, <1>2, <2>2
      <3> QED
        BY <1>4, <3>1, SMT DEF Encode, IntegerSize, FloatSize, LengthBytes
    <2>3. CASE type = "LONG"
      <3>1. BinlogType(column) = "LONG" /\ l = IntegerSize["LONG"]
        BY <1>1, <1>2, <2>3
      <3> QED
        BY <1>4, <3>1, SMT DEF Encode, IntegerSize, FloatSize, LengthBytes
    <2> QED
      BY <1>1, <2>1, <2>2, <2>3, SMT
  <1> HIDE DEF b
  <1>6. read(type, Metadata(column), Reader(b))
          = Fixed(Reader(b), l, "int", <<Signed(Ahead(Reader(b), l))>>)
    BY <1>1, SMT DEF read, IntegerSize, FloatSize, BlobTypes, StringTypes
  <1>7. /\ Ahead(Reader(b), l) = b
        /\ Fixed(Reader(b), l, "int", <<Signed(b)>>).thrown = FALSE
        /\ Fixed(Reader(b), l, "int", <<Signed(b)>>).value = DbValue("int", <<Signed(b)>>)
    BY <1>1, <1>3, AllOf, SMT
  <1> QED
    BY <1>2, <1>5, <1>6, <1>7 DEF ReadBack, b

\* The same of a mediumint, whose three bytes are read without a sign.
LEMMA MediumintBytes ==
  ASSUME NEW column, NEW n \in Int, column.declared.base = "mediumint"
  PROVE  LET back == ReadBack(column, DbValue("int", <<n>>))
         IN ~back.thrown /\ back.value = DbValue("int", <<Number(LittleEndian(n, 3))>>)
  <1> DEFINE b == LittleEndian(n, 3)
  <1>1. BinlogType(column) = "INT24"
    BY SMT DEF BinlogType, NewFormats, FieldType, FieldTypes
  <1>2. b \in Seq(Byte) /\ Len(b) = 3
    <2>1. 3 \in 1..4
      BY SMT
    <2> QED
      BY <2>1, LittleBytes
  <1>3. DbValue("int", <<n>>).of[1] = n
    BY DEF DbValue
  <1>4. Encode(column, DbValue("int", <<n>>)) = b
    BY <1>1, <1>3, SMT DEF Encode, IntegerSize, FloatSize, LengthBytes
  <1> HIDE DEF b
  <1>5. read("INT24", Metadata(column), Reader(b))
          = Fixed(Reader(b), 3, "int", <<Number(Ahead(Reader(b), 3))>>)
    BY SMT DEF read, IntegerSize, FloatSize, BlobTypes, StringTypes
  <1>6. /\ Ahead(Reader(b), 3) = b
        /\ Fixed(Reader(b), 3, "int", <<Number(b)>>).thrown = FALSE
        /\ Fixed(Reader(b), 3, "int", <<Number(b)>>).value = DbValue("int", <<Number(b)>>)
    <2>1. PICK l \in Int : l = 3
      BY SMT
    <2>2. b \in Seq(Byte) /\ Len(b) = l
      BY <1>2, <2>1
    <2>3. /\ Ahead(Reader(b), l) = b
          /\ Fixed(Reader(b), l, "int", <<Number(b)>>).thrown = FALSE
          /\ Fixed(Reader(b), l, "int", <<Number(b)>>).value = DbValue("int", <<Number(b)>>)
      BY <2>2, AllOf, SMT
    <2> QED
      BY <2>1, <2>3
  <1> QED
    BY <1>1, <1>4, <1>5, <1>6 DEF ReadBack, b

\* The integers a column's type has, with a sign or without.
IsOf(base, n) ==
  \/ base = "tinyint"   /\ -128 <= n /\ n < 256
  \/ base = "smallint"  /\ -32768 <= n /\ n < 65536
  \/ base = "mediumint" /\ -8388608 <= n /\ n < 16777216
  \/ base = "int"       /\ -2147483648 <= n /\ n < 4294967296

(* An integer of one, two, three or four bytes, whatever its value, is read, and     *)
(* read as itself but for the two cases the property Kept lists: an unsigned one     *)
(* above its type's signed maximum, as Row names no unsigned type, and a negative    *)
(* mediumint, whose three bytes are read into an unsigned number                     *)
(* (mysql_types.cpp:25-52, row.cpp:53-63).                                           *)
THEOREM IntegersBack ==
  ASSUME NEW i \in DOMAIN Columns, NEW n \in Int, IsOf(Base(i), n)
  PROVE  LET cell == DbValue("int", <<n>>)
             back == ReadBack(Columns[i], cell)
         IN ~back.thrown /\ (back.value = cell <=> ~LosesReplicated(i, cell))
  <1> DEFINE cell == DbValue("int", <<n>>)
             back == ReadBack(Columns[i], cell)
  <1>1. cell.is = "int" /\ cell.of[1] = n /\ \A k : DbValue("int", <<k>>) = cell <=> k = n
    BY DEF DbValue
  <1>2. LosesReplicated(i, cell) <=> \/ Base(i) = "mediumint" /\ n < 0
                                     \/ Base(i) = "tinyint" /\ n > 127
                                     \/ Base(i) = "smallint" /\ n > 32767
                                     \/ Base(i) = "int" /\ n > 2147483647
    <2>1. Base(i) # "double"
      BY DEF IsOf
    <2> QED
      BY <1>1, <2>1, SMT DEF LosesReplicated, SignedMax
  <1>3. SUFFICES \E k : ~back.thrown /\ back.value = DbValue("int", <<k>>)
                        /\ (k = n <=> ~LosesReplicated(i, cell))
    BY <1>1, Zenon
  <1> HIDE DEF cell
  <1>tinyint. CASE Base(i) = "tinyint"
    <2> DEFINE k == Signed(LittleEndian(n, 1))
    <2>1. ~back.thrown /\ back.value = DbValue("int", <<k>>)
      BY <1>tinyint, IntegerBytes, SMT DEF Base, cell
    <2>2. -128 <= n /\ n < 256
      BY <1>tinyint, SMT DEF IsOf
    <2>3. n % 256 = IF n < 0 THEN n + 256 ELSE n
      BY <2>2, SMT
    <2>4. k = IF n % 256 < 128 THEN n % 256 ELSE (n % 256) - 256
      BY LittleSigned1, SMT
    <2>5. k = n <=> n < 128
      BY <2>2, <2>3, <2>4, SMT
    <2>6. ~LosesReplicated(i, cell) <=> n < 128
      BY <1>2, <1>tinyint, SMT
    <2> QED
      BY <2>1, <2>5, <2>6
  <1>smallint. CASE Base(i) = "smallint"
    <2> DEFINE k == Signed(LittleEndian(n, 2))
    <2>1. ~back.thrown /\ back.value = DbValue("int", <<k>>)
      BY <1>smallint, IntegerBytes, SMT DEF Base, cell
    <2>2. -32768 <= n /\ n < 65536
      BY <1>smallint, SMT DEF IsOf
    <2>3. n % 65536 = IF n < 0 THEN n + 65536 ELSE n
      BY <2>2, SMT
    <2>4. k = IF n % 65536 < 32768 THEN n % 65536 ELSE (n % 65536) - 65536
      BY LittleSigned2, SMT
    <2>5. k = n <=> n < 32768
      BY <2>2, <2>3, <2>4, SMT
    <2>6. ~LosesReplicated(i, cell) <=> n < 32768
      BY <1>2, <1>smallint, SMT
    <2> QED
      BY <2>1, <2>5, <2>6
  <1>int. CASE Base(i) = "int"
    <2> DEFINE k == Signed(LittleEndian(n, 4))
    <2>1. ~back.thrown /\ back.value = DbValue("int", <<k>>)
      BY <1>int, IntegerBytes, SMT DEF Base, cell
    <2>2. -2147483648 <= n /\ n < 4294967296
      BY <1>int, SMT DEF IsOf
    <2>3. n % 4294967296 = IF n < 0 THEN n + 4294967296 ELSE n
      BY <2>2, SMT
    <2>4. k = IF n % 4294967296 < 2147483648 THEN n % 4294967296 ELSE (n % 4294967296) - 4294967296
      BY LittleSigned4, SMT
    <2>5. k = n <=> n < 2147483648
      BY <2>2, <2>3, <2>4, SMT
    <2>6. ~LosesReplicated(i, cell) <=> n < 2147483648
      BY <1>2, <1>int, SMT
    <2> QED
      BY <2>1, <2>5, <2>6
  <1>mediumint. CASE Base(i) = "mediumint"
    <2> DEFINE k == Number(LittleEndian(n, 3))
    <2>1. ~back.thrown /\ back.value = DbValue("int", <<k>>)
      BY <1>mediumint, MediumintBytes, SMT DEF Base, cell
    <2>2. -8388608 <= n /\ n < 16777216
      BY <1>mediumint, SMT DEF IsOf
    <2>3. n % 16777216 = IF n < 0 THEN n + 16777216 ELSE n
      BY <2>2, SMT
    <2>4. k = n % 16777216
      BY LittleNumber3, SMT
    <2>5. k = n <=> n >= 0
      BY <2>2, <2>3, <2>4, SMT
    <2>6. ~LosesReplicated(i, cell) <=> n >= 0
      BY <1>2, <1>mediumint, SMT
    <2> QED
      BY <2>1, <2>5, <2>6
  <1>4. Base(i) \in {"tinyint", "smallint", "int", "mediumint"}
    BY SMT DEF IsOf
  <1> QED
    BY <1>tinyint, <1>smallint, <1>int, <1>mediumint, <1>4

-----------------------------------------------------------------------------
\* A length is the number of its bytes, of at most three.
LEMMA Length1 ==
  ASSUME NEW p \in Int
  PROVE  Length(<<p>>) = Number(<<p>>)
  <1>1. <<p>> \in Seq(Int) /\ Len(<<p>>) = 1 /\ DOMAIN <<p>> = 1..1
    BY SMT
  <1>2. SubSeq(<<p>>, 1, 1) = <<p>>
    BY <1>1, SubSeqFull
  <1>3. \A i \in 1..1 : ~(i > 3)
    BY SMT
  <1> DEFINE b == <<p>>
  <1>4. \A i \in DOMAIN b : i > 3 => b[i] = 0
    BY <1>1, <1>3, Zenon
  <1> HIDE DEF b
  <1>5. Length(b) = Number(SubSeq(b, 1, IF Len(b) < 3 THEN Len(b) ELSE 3))
    BY <1>4, SMT DEF Length
  <1>6. (IF Len(b) < 3 THEN Len(b) ELSE 3) = 1
    BY <1>1, SMT DEF b
  <1> QED
    BY <1>2, <1>5, <1>6, Zenon DEF b

LEMMA Length2 ==
  ASSUME NEW p \in Int, NEW q \in Int
  PROVE  Length(<<p, q>>) = Number(<<p, q>>)
  <1> DEFINE b == <<p, q>>
  <1>1. b \in Seq(Int) /\ Len(b) = 2 /\ DOMAIN b = 1..2
    BY SMT
  <1>2. \A i \in 1..2 : ~(i > 3)
    BY SMT
  <1> HIDE DEF b
  <1>3. SubSeq(b, 1, 2) = b
    BY <1>1, SubSeqFull
  <1>4. \A i \in DOMAIN b : i > 3 => b[i] = 0
    BY <1>1, <1>2, Zenon
  <1>5. Length(b) = Number(SubSeq(b, 1, IF Len(b) < 3 THEN Len(b) ELSE 3))
    BY <1>4, SMT DEF Length
  <1>6. (IF Len(b) < 3 THEN Len(b) ELSE 3) = 2
    BY <1>1, SMT
  <1> QED
    BY <1>3, <1>5, <1>6, Zenon DEF b

LEMMA Length4 ==
  ASSUME NEW p \in Int, NEW q \in Int, NEW r \in Int
  PROVE  Length(<<p, q, r, 0>>) = Number(<<p, q, r>>)
  <1> DEFINE b == <<p, q, r, 0>>
  <1>1. b \in Seq(Int) /\ Len(b) = 4 /\ DOMAIN b = 1..4 /\ b[4] = 0
    BY SMT
  <1>2. \A i \in 1..4 : i > 3 => i = 4
    BY SMT
  <1>3. SubSeq(b, 1, 3) = <<p, q, r>>
    <2>1. \A i \in 1..3 : b[i] \in Int /\ b[i] = <<p, q, r>>[i]
      BY SMT
    <2>2. <<p, q, r>> \in Seq(Int) /\ Len(<<p, q, r>>) = 3
      BY SMT
    <2> DEFINE v == <<p, q, r>>
               w == SubSeq(b, 1, 3)
    <2> HIDE DEF b
    <2>3. w \in Seq(Int) /\ Len(w) = 3 /\ \A i \in 1..3 : w[i] = b[i]
      BY <2>1, SubSeqProperties, SMT
    <2> HIDE DEF w, v
    <2>4. v \in Seq(Int) /\ Len(w) = Len(v) /\ \A i \in 1..Len(w) : w[i] = v[i]
      BY <2>1, <2>2, <2>3 DEF v
    <2>5. w = v
      BY <2>3, <2>4, SeqEqual
    <2> QED
      BY <2>5 DEF w, v
  <1> HIDE DEF b
  <1>4. \A i \in DOMAIN b : i > 3 => b[i] = 0
    BY <1>1, <1>2, Zenon
  <1>5. Length(b) = Number(SubSeq(b, 1, IF Len(b) < 3 THEN Len(b) ELSE 3))
    BY <1>4, SMT DEF Length
  <1>6. (IF Len(b) < 3 THEN Len(b) ELSE 3) = 3
    BY <1>1, SMT
  <1> QED
    BY <1>3, <1>5, <1>6, Zenon DEF b

\* A length's bytes, and the length they are read as.
Counts(l, n) == n < 16777216 /\ (l = 1 => n < 256) /\ (l = 2 => n < 65536)

LEMMA LengthBack ==
  ASSUME NEW n \in Nat, NEW l \in {1, 2, 4}, Counts(l, n)
  PROVE  Length(LittleEndian(n, l)) = n
  <1>1. PICK p \in Int, q \in Int, r \in Int, s \in Int :
          /\ p = n % 256 /\ q = (n \div 256) % 256
          /\ r = (n \div 65536) % 256 /\ s = (n \div 16777216) % 256
    BY SMT
  <1>2. p + 256 * q = n % 65536 /\ (n % 65536) + 65536 * r = n % 16777216
    BY <1>1, Divided2, Divided3, SMT
  <1>3. CASE l = 1
    <2>1. LittleEndian(n, 1) = <<p>>
      BY <1>1, SMT DEF LittleEndian
    <2>2. Number(<<p>>) = n
      BY <1>1, <1>3, Number1, SMT DEF Counts
    <2> QED
      BY <1>3, <2>1, <2>2, Length1, Zenon
  <1>4. CASE l = 2
    <2>1. LittleEndian(n, 2) = <<p, q>>
      BY <1>1, SMT DEF LittleEndian
    <2>2. Number(<<p, q>>) = n
      <3>1. p + 256 * q = n
        BY <1>2, <1>4, SMT DEF Counts
      <3> QED
        BY <3>1, Number2, SMT
    <2> QED
      BY <1>4, <2>1, <2>2, Length2, Zenon
  <1>5. CASE l = 4
    <2>1. LittleEndian(n, 4) = <<p, q, r, 0>>
      <3>1. s = 0
        BY <1>1, SMT DEF Counts
      <3>2. LittleEndian(n, 4) = <<p, q, r, s>>
        BY <1>1, SMT DEF LittleEndian
      <3> QED
        BY <3>1, <3>2, Zenon
    <2>2. Number(<<p, q, r>>) = n
      <3>1. p + 256 * q + 65536 * r = n
        BY <1>2, SMT DEF Counts
      <3> QED
        BY <3>1, Number3, SMT
    <2> QED
      BY <1>5, <2>1, <2>2, Length4, Zenon
  <1> QED
    BY <1>3, <1>4, <1>5, Zenon

\* Some bytes behind their number.
LEMMA CountedBack ==
  ASSUME NEW of \in Seq(Byte), NEW l \in {1, 2, 4}, Counts(l, Len(of))
  PROVE  LET back == Counted(Reader(LittleEndian(Len(of), l) \o of), l, "string")
         IN ~back.thrown /\ back.value = DbValue("string", of)
  <1> DEFINE head == LittleEndian(Len(of), l)
             data1 == Reader(head \o of)
             rest == discard(data1, l)
  <1>1. head \in Seq(Byte) /\ Len(head) = l /\ l \in 1..8
    <2>1. l \in 1..4 /\ l \in 1..8 /\ Len(of) \in Int
      BY SMT
    <2> QED
      BY <2>1, LittleBytes, Zenon
  <1>2. Length(head) = Len(of)
    BY LengthBack, SMT
  <1> HIDE DEF head
  <1>3. /\ Len(head \o of) = l + Len(of) /\ head \o of \in Seq(Byte)
        /\ SubSeq(head \o of, 1, l) = head
        /\ SubSeq(head \o of, l + 1, l + Len(of)) = of
    BY <1>1, SMT
  <1>4. Holds(data1, l) /\ Ahead(data1, l) = head
    BY <1>1, <1>3, SMT DEF Holds, Ahead, Reader
  <1>5. Holds(rest, Len(of)) /\ Ahead(rest, Len(of)) = of
    BY <1>1, <1>3, SMT DEF Holds, Ahead, Reader, discard
  <1>6. Counted(data1, l, "string") = Fixed(rest, Len(of), "string", of)
    BY <1>1, <1>2, <1>4, <1>5, SMT DEF Counted
  <1>7. /\ Fixed(rest, Len(of), "string", of).thrown = FALSE
        /\ Fixed(rest, Len(of), "string", of).value = DbValue("string", of)
    BY <1>5, SMT DEF Fixed
  <1> QED
    BY <1>6, <1>7, SMT DEF head

\* The lengths a column's values may have, those of a longblob as far as Length tells
\* them apart.
FitsIn(column, length) ==
  LET base == column.declared.base
  IN \/ base \in {"tinytext", "tinyblob"} /\ length < 256
     \/ base \in {"text", "blob"} /\ length < 65536
     \/ base = "longblob" /\ length < 16777216
     \/ /\ base \in {"varchar", "varbinary"}
        /\ column.declared.args[1] \in Nat /\ column.declared.args[1] < 65536
        /\ length <= column.declared.args[1]

(* A value of a text, blob, varchar or varbinary column is read as the bytes that    *)
(* were written, whatever they are and however many the column may have: the bytes   *)
(* of the length that read counts are those the server writes, from the metadata of  *)
(* a blob and from whether a varchar's declared length needs two                     *)
(* (mysql_types.cpp, the reads of VARCHAR and BLOB).                                 *)
THEOREM StringsBack ==
  ASSUME NEW column, NEW is, NEW of \in Seq(Byte), FitsIn(column, Len(of))
  PROVE  LET back == ReadBack(column, DbValue(is, of))
         IN ~back.thrown /\ back.value = DbValue("string", of)
  <1> DEFINE base == column.declared.base
             cell == DbValue(is, of)
  <1>1. cell.of = of /\ Len(of) \in Nat
    BY SMT DEF DbValue
  <1>2. CASE base \in DOMAIN LengthBytes
    <2>1. base \in {"tinytext", "text", "tinyblob", "blob", "longblob"}
      BY <1>2, SMT DEF LengthBytes
    <2>2. BinlogType(column) = "BLOB"
      <3>1. FieldType(column) = "BLOB"
        BY <2>1, SMT DEF FieldType, FieldTypes
      <3> QED
        BY <3>1, SMT DEF BinlogType, NewFormats
    <2>3. PICK l \in {1, 2, 4} : l = LengthBytes[base]
      BY <1>2, SMT DEF LengthBytes
    <2>4. Metadata(column)[1] = l
      <3>1. base \notin DOMAIN RealTypes
        BY <1>2, SMT DEF RealTypes, LengthBytes
      <3>2. Metadata(column) = <<LengthBytes[base]>>
        BY <1>2, <2>1, <2>2, <3>1, SMT DEF Metadata, WholeSize
      <3> QED
        BY <2>3, <3>2, SMT
    <2>5. Encode(column, cell) = LittleEndian(Len(of), l) \o of
      <3>1. base # "enum"
        BY <1>2, SMT DEF LengthBytes
      <3> QED
        BY <1>1, <1>2, <2>2, <2>3, <3>1, SMT DEF Encode, IntegerSize, FloatSize
    <2>6. Counts(l, Len(of))
      BY <1>1, <1>2, <2>3, SMT DEF FitsIn, LengthBytes, Counts
    <2>7. \A r : read("BLOB", Metadata(column), r) = Counted(r, l, "string")
      BY <2>4, SMT DEF read, IntegerSize, FloatSize, BlobTypes, StringTypes
    <2> QED
      BY <2>2, <2>5, <2>6, <2>7, CountedBack, SMT DEF ReadBack
  <1>3. CASE base \in {"varchar", "varbinary"}
    <2> DEFINE length == column.declared.args[1]
               l == IF length > 255 THEN 2 ELSE 1
    <2>1. BinlogType(column) = "VARCHAR"
      <3>1. FieldType(column) = "VAR_STRING"
        BY <1>3, SMT DEF FieldType, FieldTypes
      <3> QED
        BY <3>1, SMT DEF BinlogType, NewFormats
    <2>2. length \in Nat /\ Len(of) <= length /\ length < 65536
      BY <1>3, SMT DEF FitsIn
    <2>3. Metadata(column)[2] = length \div 256
      <3>1. base \notin DOMAIN RealTypes /\ base \notin DOMAIN LengthBytes
        BY <1>3, SMT DEF RealTypes, LengthBytes
      <3>2. Metadata(column) = <<length % 256, length \div 256>>
        BY <1>3, <2>1, <3>1, SMT DEF Metadata, WholeSize
      <3> QED
        BY <3>2, SMT
    <2>4. l = IF Metadata(column)[2] > 0 THEN 2 ELSE 1
      BY <1>1, <2>2, <2>3, SMT
    <2>5. Encode(column, cell) = LittleEndian(Len(of), l) \o of
      BY <1>1, <1>3, <2>1, SMT DEF Encode, IntegerSize, FloatSize, LengthBytes
    <2>6. Counts(l, Len(of))
      BY <1>1, <2>2, SMT DEF Counts
    <2>7. \A r : read("VARCHAR", Metadata(column), r) = Counted(r, l, "string")
      BY <2>4, SMT DEF read, IntegerSize, FloatSize, BlobTypes, StringTypes
    <2>8. l \in {1, 2, 4}
      BY SMT
    <2> HIDE DEF l
    <2> QED
      BY <2>1, <2>5, <2>6, <2>7, <2>8, CountedBack, SMT DEF ReadBack
  <1> QED
    BY <1>2, <1>3, SMT DEF FitsIn, LengthBytes

-----------------------------------------------------------------------------
\* Two halves of four bytes.
LEMMA Halves ==
  ASSUME NEW l \in Seq(Byte), NEW h \in Seq(Byte), Len(l) = 4, Len(h) = 4
  PROVE  /\ l \o h \in Seq(Byte) /\ Len(l \o h) = 8
         /\ SubSeq(l \o h, 1, 4) = l /\ SubSeq(l \o h, 5, 8) = h
  <1>1. PICK k \in Nat : k = 4
    BY SMT
  <1>2. Len(l) = k /\ Len(h) = k
    BY <1>1
  <1>3. /\ l \o h \in Seq(Byte) /\ Len(l \o h) = k + k
        /\ SubSeq(l \o h, 1, k) = l /\ SubSeq(l \o h, k + 1, k + k) = h
    BY <1>2, SMT
  <1>4. k + 1 = 5 /\ k + k = 8
    BY <1>1, SMT
  <1> QED
    BY <1>1, <1>3, <1>4, Zenon

\* The numbers of four bytes.
IsInt32(n) == n \in Int /\ -2147483648 <= n /\ n < 2147483648

LEMMA FourBytesBack ==
  ASSUME NEW n, IsInt32(n)
  PROVE  Signed(LittleEndian(n, 4)) = n
  <1>1. n \in Int /\ -2147483648 <= n /\ n < 2147483648
    BY SMT DEF IsInt32
  <1>2. n % 4294967296 = IF n < 0 THEN n + 4294967296 ELSE n
    BY <1>1, SMT
  <1>3. Signed(LittleEndian(n, 4))
          = IF n % 4294967296 < 2147483648 THEN n % 4294967296
            ELSE (n % 4294967296) - 4294967296
    BY <1>1, LittleSigned4, SMT
  <1> QED
    BY <1>1, <1>2, <1>3, SMT

(* A bigint is read as itself, from its two halves, the lower one alone where the    *)
(* other has only its sign (mysql_types.cpp, the read of LONGLONG).                  *)
THEOREM BigintsBack ==
  ASSUME NEW column, column.declared.base = "bigint",
         NEW low \in Int, IsInt32(low), NEW high \in Int, IsInt32(high)
  PROVE  LET of   == IF high = (IF low < 0 THEN -1 ELSE 0) THEN <<low>> ELSE <<high, low>>
             back == ReadBack(column, DbValue("int", of))
         IN ~back.thrown /\ back.value = DbValue("int", of)
  <1> DEFINE of == IF high = (IF low < 0 THEN -1 ELSE 0) THEN <<low>> ELSE <<high, low>>
             cell == DbValue("int", of)
             l == LittleEndian(low, 4)
             h == LittleEndian(high, 4)
             b == l \o h
  <1>1. BinlogType(column) = "LONGLONG"
    BY SMT DEF BinlogType, NewFormats, FieldType, FieldTypes
  <1>2. LongLong(of) = b
    <2>1. CASE high = (IF low < 0 THEN -1 ELSE 0)
      <3>1. of = <<low>>
        BY <2>1, Zenon
      <3>2. Len(<<low>>) = 1 /\ <<low>>[1] = low
        BY SMT
      <3>3. LongLong(<<low>>) = l \o LittleEndian(IF low < 0 THEN -1 ELSE 0, 4)
        BY <3>2, SMT DEF LongLong
      <3> QED
        BY <2>1, <3>1, <3>3, Zenon
    <2>2. CASE high # (IF low < 0 THEN -1 ELSE 0)
      <3>1. of = <<high, low>>
        BY <2>2, Zenon
      <3>2. Len(<<high, low>>) = 2 /\ <<high, low>>[1] = high /\ <<high, low>>[2] = low
        BY SMT
      <3>3. LongLong(<<high, low>>) = l \o h
        BY <3>2, SMT DEF LongLong
      <3> QED
        BY <3>1, <3>3, Zenon
    <2> QED
      BY <2>1, <2>2, Zenon
  <1>3. l \in Seq(Byte) /\ Len(l) = 4 /\ h \in Seq(Byte) /\ Len(h) = 4
    <2>1. 4 \in 1..4
      BY SMT
    <2> QED
      BY <2>1, LittleBytes, SMT
  <1>4. Signed(l) = low /\ Signed(h) = high
    BY FourBytesBack, Zenon
  <1> HIDE DEF l, h
  <1>5. b \in Seq(Byte) /\ Len(b) = 8 /\ SubSeq(b, 1, 4) = l /\ SubSeq(b, 5, 8) = h
    BY <1>3, Halves
  <1> HIDE DEF b
  <1>6. Wide(b) = of
    BY <1>4, <1>5, Zenon DEF Wide
  <1>7. Encode(column, cell) = b
    <2>1. cell.of = of
      BY SMT DEF DbValue
    <2>2. Encode(column, cell) = LongLong(of)
      BY <1>1, <2>1, SMT DEF Encode, IntegerSize, FloatSize, LengthBytes
    <2> QED
      BY <1>2, <2>2, Zenon DEF b
  <1> HIDE DEF of
  <1>8. read("LONGLONG", Metadata(column), Reader(b))
          = Fixed(Reader(b), 8, "int", Wide(Ahead(Reader(b), 8)))
    BY SMT DEF read, IntegerSize, FloatSize, BlobTypes, StringTypes
  <1>9. /\ Ahead(Reader(b), 8) = b
        /\ Fixed(Reader(b), 8, "int", of).thrown = FALSE
        /\ Fixed(Reader(b), 8, "int", of).value = DbValue("int", of)
    <2>1. PICK k \in Int : k = 8
      BY SMT
    <2>2. b \in Seq(Byte) /\ Len(b) = k
      BY <1>5, <2>1, SMT
    <2>3. /\ Ahead(Reader(b), k) = b
          /\ Fixed(Reader(b), k, "int", of).thrown = FALSE
          /\ Fixed(Reader(b), k, "int", of).value = DbValue("int", of)
      BY <2>2, AllOf, SMT
    <2> QED
      BY <2>1, <2>3, SMT
  <1>10. ~ReadBack(column, cell).thrown /\ ReadBack(column, cell).value = DbValue("int", of)
    BY <1>1, <1>6, <1>7, <1>8, <1>9, Zenon DEF ReadBack
  <1> QED
    BY <1>10, Zenon DEF of

-----------------------------------------------------------------------------
\* The three bytes of a number, and what is left of it without the lowest.
LEMMA ThreeBytes ==
  ASSUME NEW n \in Nat, NEW p \in Int, NEW q \in Int, NEW r \in Int, n < 16777216,
         p = n % 256, q = (n \div 256) % 256, r = (n \div 65536) % 256
  PROVE  /\ p \in Byte /\ q \in Byte /\ r \in Byte
         /\ p + 256 * q + 65536 * r = n
         /\ q + 256 * r = n \div 256
         /\ r = n \div 65536
  <1>1. p \in Byte /\ q \in Byte /\ r \in Byte
    BY SMT DEF Byte
  <1>2. r = n \div 65536
    BY SMT
  <1>3. q + 256 * r = n \div 256
    BY <1>2, SMT
  <1>4. p + 256 * q + 65536 * r = n
    BY <1>3, SMT
  <1> QED
    BY <1>1, <1>2, <1>3, <1>4

\* What is cut out of three bytes.
LEMMA Slices3 ==
  ASSUME NEW p \in Byte, NEW q \in Byte, NEW r \in Byte
  PROVE  /\ bitslice(<<p, q, r>>, 5, 0) = (p + 256 * q + 65536 * r) % 32
         /\ bitslice(<<p, q, r>>, 4, 5) = ((p + 256 * q + 65536 * r) \div 32) % 16
         /\ bitslice(<<p, q, r>>, 14, 9) = ((q + 256 * r) \div 2) % 16384
  <1>1. bitslice(<<p, q, r>>, 5, 0) = (p + 256 * q + 65536 * r) % 32
    BY SMT DEF bitslice, Byte
  <1>2. bitslice(<<p, q, r>>, 4, 5) = ((p + 256 * q + 65536 * r) \div 32) % 16
    BY SMT DEF bitslice, Byte
  <1>3. bitslice(<<p, q, r>>, 14, 9) = ((q + 256 * r) \div 2) % 16384
    BY SMT DEF bitslice, Byte
  <1> QED
    BY <1>1, <1>2, <1>3

\* The fields of a date, in one number of three bytes.
LEMMA DateFields ==
  ASSUME NEW y \in Nat, NEW m \in 0..15, NEW d \in 0..31, NEW n \in Int,
         y < 16384, n = 512 * y + 32 * m + d
  PROVE  /\ n \in Nat /\ n < 16777216
         /\ n % 32 = d
         /\ n \div 32 = 16 * y + m
         /\ (n \div 512) % 16384 = y
  <1>1. n \in Nat /\ n < 16777216
    BY SMT
  <1>2. n % 32 = d
    BY SMT
  <1>3. n \div 32 = 16 * y + m
    BY SMT
  <1>4. n \div 512 = y /\ y % 16384 = y
    BY SMT
  <1> QED
    BY <1>1, <1>2, <1>3, <1>4

(* A date is read as itself, zeroes in it or not, from the bits of three bytes       *)
(* (mysql_types.cpp:193-202).                                                        *)
THEOREM DatesBack ==
  ASSUME NEW column, column.declared.base = "date",
         NEW y \in Nat, y < 10000, NEW m \in 0..12, NEW d \in 0..31
  PROVE  LET cell == DbValue("date", <<y, m, d>>)
             back == ReadBack(column, cell)
         IN ~back.thrown /\ back.value = cell
  <1>n. PICK n \in Int : n = 512 * y + 32 * m + d
    BY SMT
  <1> DEFINE cell == DbValue("date", <<y, m, d>>)
             b == LittleEndian(n, 3)
  <1>1. BinlogType(column) = "DATE"
    BY SMT DEF BinlogType, NewFormats, FieldType, FieldTypes
  <1>2. /\ n \in Nat /\ n < 16777216
        /\ n % 32 = d /\ (n \div 32) % 16 = m /\ (n \div 512) % 16384 = y
    <2>1. y \in Nat /\ y < 16384 /\ m \in 0..15
      BY SMT
    <2>2. n \in Nat /\ n < 16777216
      BY <1>n, <2>1, DateFields, SMT
    <2>3. n % 32 = d
      BY <1>n, <2>1, DateFields, SMT
    <2>4. (n \div 32) % 16 = m
      <3>1. n \div 32 = 16 * y + m
        BY <1>n, <2>1, DateFields, SMT
      <3> QED
        BY <3>1, SMT
    <2>5. (n \div 512) % 16384 = y
      BY <1>n, <2>1, DateFields, SMT
    <2> QED
      BY <2>2, <2>3, <2>4, <2>5
  <1>3. Encode(column, cell) = b
    <2>1. cell.of = <<y, m, d>>
      BY DEF DbValue
    <2>2. Encode(column, cell) = LittleEndian(Pow2(9) * y + Pow2(5) * m + d, 3)
      BY <1>1, <2>1, SMT DEF Encode, IntegerSize, FloatSize, LengthBytes
    <2>3. Pow2(9) = 512 /\ Pow2(5) = 32
      BY SMT DEF Pow2
    <2> QED
      BY <1>n, <2>2, <2>3
  <1>4. PICK p \in Byte, q \in Byte, r \in Byte :
          /\ b = <<p, q, r>> /\ p + 256 * q + 65536 * r = n /\ q + 256 * r = n \div 256
    <2> DEFINE p == n % 256
               q == (n \div 256) % 256
               r == (n \div 65536) % 256
    <2>1. b = <<p, q, r>>
      BY <1>2, SMT DEF LittleEndian
    <2>2. /\ p \in Byte /\ q \in Byte /\ r \in Byte
          /\ p + 256 * q + 65536 * r = n /\ q + 256 * r = n \div 256
      BY <1>2, ThreeBytes, SMT
    <2> QED
      BY <2>1, <2>2
  <1> HIDE DEF b
  <1>5. dateFrom24bit(b) = <<y, m, d>>
    <2>1. (n \div 256) \div 2 = n \div 512
      BY <1>2, SMT
    <2>2. /\ bitslice(b, 14, 9) = y /\ bitslice(b, 4, 5) = m /\ bitslice(b, 5, 0) = d
      BY <1>2, <1>4, <2>1, Slices3
    <2> QED
      BY <2>2 DEF dateFrom24bit
  <1>6. PICK l \in Int : l = 3
    BY SMT
  <1>7. b \in Seq(Byte) /\ Len(b) = l
    BY <1>4, <1>6, SMT
  <1>8. read("DATE", Metadata(column), Reader(b))
          = Fixed(Reader(b), l, "date", dateFrom24bit(Ahead(Reader(b), l)))
    BY <1>6, SMT DEF read, IntegerSize, FloatSize, BlobTypes, StringTypes
  <1>9. /\ Ahead(Reader(b), l) = b
        /\ Fixed(Reader(b), l, "date", <<y, m, d>>).thrown = FALSE
        /\ Fixed(Reader(b), l, "date", <<y, m, d>>).value = cell
    BY <1>7, AllOf, SMT
  <1> QED
    BY <1>1, <1>3, <1>5, <1>8, <1>9 DEF ReadBack

\* The bytes of a big number, as the machine has them.
LEMMA Turned3 ==
  ASSUME NEW p \in Byte, NEW q \in Byte, NEW r \in Byte
  PROVE  /\ Reverse(<<p, q, r>>) = <<r, q, p>>
         /\ ntoh(<<r, q, p>>, 4) = <<0, p, q, r>>
  <1>1. Reverse(<<p, q, r>>) = <<r, q, p>>
    BY SMT DEF Reverse
  <1>2. ntoh(<<r, q, p>>, 4) = <<0, p, q, r>>
    BY SMT DEF ntoh
  <1> QED
    BY <1>1, <1>2

LEMMA Slices4 ==
  ASSUME NEW p \in Byte, NEW q \in Byte, NEW r \in Byte
  PROVE  /\ bitslice(<<0, p, q, r>>, 6, 8) = (p + 256 * q + 65536 * r) % 64
         /\ bitslice(<<0, p, q, r>>, 6, 14) = ((p + 256 * q + 65536 * r) \div 64) % 64
         /\ bitslice(<<0, p, q, r>>, 5, 20) = ((q + 256 * r) \div 16) % 32
  <1>1. bitslice(<<0, p, q, r>>, 6, 8) = (p + 256 * q + 65536 * r) % 64
    BY SMT DEF bitslice, Byte
  <1>2. bitslice(<<0, p, q, r>>, 6, 14) = ((p + 256 * q + 65536 * r) \div 64) % 64
    BY SMT DEF bitslice, Byte
  <1>3. bitslice(<<0, p, q, r>>, 5, 20) = ((q + 256 * r) \div 16) % 32
    BY SMT DEF bitslice, Byte
  <1> QED
    BY <1>1, <1>2, <1>3

LEMMA Slices8 ==
  ASSUME NEW p \in Byte, NEW q \in Byte, NEW r \in Byte, NEW s \in Byte, NEW t \in Byte
  PROVE  LET b == <<0, 0, 0, p, q, r, s, t>>
         IN /\ bitslice(b, 6, 24) = (p + 256 * q + 65536 * r) % 64
            /\ bitslice(b, 6, 30) = ((p + 256 * q + 65536 * r) \div 64) % 64
            /\ bitslice(b, 5, 36) = ((q + 256 * r + 65536 * s) \div 16) % 32
            /\ bitslice(b, 5, 41) = ((r + 256 * s + 65536 * t) \div 2) % 32
            /\ bitslice(b, 17, 46) = ((r + 256 * s + 65536 * t) \div 64) % 131072
  <1> DEFINE b == <<0, 0, 0, p, q, r, s, t>>
  <1>1. bitslice(b, 6, 24) = (p + 256 * q + 65536 * r) % 64
    BY SMT DEF bitslice, Byte
  <1>2. bitslice(b, 6, 30) = ((p + 256 * q + 65536 * r) \div 64) % 64
    BY SMT DEF bitslice, Byte
  <1>3. bitslice(b, 5, 36) = ((q + 256 * r + 65536 * s) \div 16) % 32
    BY SMT DEF bitslice, Byte
  <1>4. bitslice(b, 5, 41) = ((r + 256 * s + 65536 * t) \div 2) % 32
    BY SMT DEF bitslice, Byte
  <1>5. bitslice(b, 17, 46) = ((r + 256 * s + 65536 * t) \div 64) % 131072
    BY SMT DEF bitslice, Byte
  <1> QED
    BY <1>1, <1>2, <1>3, <1>4, <1>5

\* The numbers of three bytes, and the bytes, from the highest down.
InThree(n) == n \in Nat /\ n < 16777216

LEMMA BigThree ==
  ASSUME NEW n, InThree(n)
  PROVE  \E p \in Byte, q \in Byte, r \in Byte :
           /\ BigEndian(n, 3) = <<r, q, p>>
           /\ p + 256 * q + 65536 * r = n /\ q + 256 * r = n \div 256 /\ r = n \div 65536
  <1>1. n \in Nat /\ n < 16777216
    BY DEF InThree
  <1>2. PICK p \in Int, q \in Int, r \in Int :
          p = n % 256 /\ q = (n \div 256) % 256 /\ r = (n \div 65536) % 256
    BY <1>1, SMT
  <1>3. LittleEndian(n, 3) = <<p, q, r>>
    BY <1>1, <1>2, SMT DEF LittleEndian
  <1>4. /\ p \in Byte /\ q \in Byte /\ r \in Byte
        /\ p + 256 * q + 65536 * r = n /\ q + 256 * r = n \div 256 /\ r = n \div 65536
    BY <1>1, <1>2, ThreeBytes, SMT
  <1>5. p \in Byte /\ q \in Byte /\ r \in Byte
    BY <1>4
  <1>6. BigEndian(n, 3) = <<r, q, p>>
    <2>1. Reverse(<<p, q, r>>) = <<r, q, p>>
      BY <1>5, Turned3
    <2> QED
      BY <1>3, <2>1 DEF BigEndian
  <1> QED
    BY <1>4, <1>6, SMT

\* The fields that are cut out of a TIME2.
LEMMA TimeCut ==
  ASSUME NEW n, InThree(n)
  PROVE  LET b == BigEndian(n, 3)
         IN /\ b \in Seq(Byte) /\ Len(b) = 3
            /\ time2From24bit(ntoh(b, 4)) = <<((n \div 256) \div 16) % 32, (n \div 64) % 64, n % 64>>
  <1>1. PICK p \in Byte, q \in Byte, r \in Byte :
          /\ BigEndian(n, 3) = <<r, q, p>>
          /\ p + 256 * q + 65536 * r = n /\ q + 256 * r = n \div 256
    BY BigThree, SMT
  <1>2. ntoh(<<r, q, p>>, 4) = <<0, p, q, r>>
    BY Turned3, Zenon
  <1>3. <<r, q, p>> \in Seq(Byte) /\ Len(<<r, q, p>>) = 3
    BY SMT
  <1>4. bitslice(<<0, p, q, r>>, 5, 20) = ((n \div 256) \div 16) % 32
    BY <1>1, Slices4, SMT
  <1>5. bitslice(<<0, p, q, r>>, 6, 14) = (n \div 64) % 64
    BY <1>1, Slices4, SMT
  <1>6. bitslice(<<0, p, q, r>>, 6, 8) = n % 64
    BY <1>1, Slices4, SMT
  <1>7. time2From24bit(<<0, p, q, r>>) = <<((n \div 256) \div 16) % 32, (n \div 64) % 64, n % 64>>
    BY <1>4, <1>5, <1>6, Zenon DEF time2From24bit
  <1>8. BigEndian(n, 3) = <<r, q, p>>
    BY <1>1
  <1> QED
    BY <1>2, <1>3, <1>7, <1>8, Zenon

LEMMA TimeFields ==
  ASSUME NEW h \in Nat, NEW m \in Nat, NEW s \in Nat, NEW n \in Int,
         h < 839, m < 60, s < 60, n = 4096 * h + 64 * m + s
  PROVE  LET k == 8388608 + n
         IN /\ k \in Nat /\ k < 16777216 /\ 8388608 - n \in Nat /\ 8388608 - n < 16777216
            /\ k % 64 = s
            /\ k \div 64 = 64 * (2048 + h) + m
            /\ (k \div 256) \div 16 = 2048 + h
  <1>1. PICK k \in Int : k = 8388608 + n
    BY SMT
  <1>2. k \in Nat /\ k < 16777216 /\ 8388608 - n \in Nat /\ 8388608 - n < 16777216
    BY <1>1, SMT
  <1>3. k = 4096 * (2048 + h) + 64 * m + s
    BY <1>1, SMT
  <1>4. k % 64 = s
    BY <1>3, SMT
  <1>5. k \div 64 = 64 * (2048 + h) + m
    BY <1>3, SMT
  <1>6. k \div 256 = 16 * (2048 + h) + ((64 * m + s) \div 256)
    BY <1>3, SMT
  <1>7. (k \div 256) \div 16 = 2048 + h
    BY <1>6, SMT
  <1> QED
    BY <1>1, <1>2, <1>4, <1>5, <1>7, SMT

\* What is read of a TIME2, whatever its three bytes are.
LEMMA TimeRead ==
  ASSUME NEW column, column.declared.base = "time", ~column.old, NEW of, NEW n \in Nat,
         InThree(n), TimeBits(of) = n
  PROVE  LET back == ReadBack(column, DbValue("time", of))
         IN /\ ~back.thrown
            /\ back.value
                 = DbValue("time", <<((n \div 256) \div 16) % 32, (n \div 64) % 64, n % 64>>)
  <1> DEFINE b == BigEndian(n, 3)
             fields == <<((n \div 256) \div 16) % 32, (n \div 64) % 64, n % 64>>
  <1>1. BinlogType(column) = "TIME2"
    <2>1. FieldType(column) = "TIME"
      BY SMT DEF FieldType, FieldTypes
    <2> QED
      BY <2>1, SMT DEF BinlogType, NewFormats
  <1>2. Encode(column, DbValue("time", of)) = b
    <2>1. DbValue("time", of).of = of
      BY DEF DbValue, SMT
    <2> QED
      BY <1>1, <2>1, SMT DEF Encode, IntegerSize, FloatSize, LengthBytes
  <1>3. b \in Seq(Byte) /\ Len(b) = 3 /\ time2From24bit(ntoh(b, 4)) = fields
    BY TimeCut
  <1> HIDE DEF b, fields
  <1>4. PICK l \in Int : l = 3
    BY SMT
  <1>5. read("TIME2", Metadata(column), Reader(b))
          = Fixed(Reader(b), l, "time", time2From24bit(ntoh(Ahead(Reader(b), l), 4)))
    BY <1>4, SMT DEF read, IntegerSize, FloatSize, BlobTypes, StringTypes
  <1>l. b \in Seq(Byte) /\ Len(b) = l
    BY <1>3, <1>4, SMT
  <1>6. /\ Ahead(Reader(b), l) = b
        /\ Fixed(Reader(b), l, "time", fields).thrown = FALSE
        /\ Fixed(Reader(b), l, "time", fields).value = DbValue("time", fields)
    BY <1>l, AllOf, SMT
  <1> QED
    <2>1. ReadBack(column, DbValue("time", of)) = Fixed(Reader(b), l, "time", fields)
      BY <1>1, <1>2, <1>3, <1>5, <1>6, Zenon DEF ReadBack
    <2> QED
      BY <1>6, <2>1 DEF fields

(* A time of either sign is read without an exception, and as itself but for what    *)
(* the property Kept lists: of the hours five bits are kept, and a sign is dropped    *)
(* (mysql_types.cpp:176-191).                                                        *)
THEOREM TimesBack ==
  ASSUME NEW i \in DOMAIN Columns, Base(i) = "time", ~Columns[i].old,
         NEW h \in Nat, NEW m \in Nat, NEW s \in Nat, h < 839, m < 60, s < 60,
         NEW of \in {<<h, m, s>>, <<h, m, s, -1>>}
  PROVE  LET cell == DbValue("time", of)
             back == ReadBack(Columns[i], cell)
         IN /\ ~back.thrown
            /\ Len(of) = 3 => back.value = DbValue("time", <<h % 32, m, s>>)
            /\ back.value = cell <=> ~LosesReplicated(i, cell)
  <1> DEFINE cell == DbValue("time", of)
             back == ReadBack(Columns[i], cell)
  <1>n. PICK n \in Int : n = 4096 * h + 64 * m + s
    BY SMT
  <1>1. /\ 8388608 + n \in Nat /\ 8388608 + n < 16777216
        /\ 8388608 - n \in Nat /\ 8388608 - n < 16777216
        /\ (8388608 + n) % 64 = s
        /\ (8388608 + n) \div 64 = 64 * (2048 + h) + m
        /\ ((8388608 + n) \div 256) \div 16 = 2048 + h
    BY <1>n, TimeFields, SMT
  <1>2. /\ of[1] = h /\ of[2] = m /\ of[3] = s
        /\ Len(of) = 4 <=> of # <<h, m, s>>
        /\ Len(of) \in {3, 4}
    BY SMT
  <1>3. LosesReplicated(i, cell) <=> h >= 32 \/ Len(of) = 4
    <2>1. cell.is = "time" /\ cell.of = of
      BY DEF DbValue, SMT
    <2> QED
      BY <1>2, <2>1, SMT DEF LosesReplicated, SignedMax
  <1>4. TimeBits(of) = IF Len(of) = 4 THEN 8388608 - n ELSE 8388608 + n
    <2>1. Pow2(12) = 4096 /\ Pow2(6) = 64 /\ Pow2(23) = 8388608
      BY SMT DEF Pow2
    <2> QED
      BY <1>n, <1>2, <2>1, SMT DEF TimeBits
  <1>c. Columns[i].declared.base = "time"
    BY SMT DEF Base
  <1>5. CASE Len(of) = 3
    <2>1. of = <<h, m, s>> /\ TimeBits(of) = 8388608 + n
      BY <1>2, <1>4, <1>5, SMT
    <2>2. (64 * (2048 + h) + m) % 64 = m /\ (2048 + h) % 32 = h % 32
      BY SMT
    <2>3. ~back.thrown /\ back.value = DbValue("time", <<h % 32, m, s>>)
      <3>1. PICK k \in Nat : k = 8388608 + n
        BY <1>1, SMT
      <3>2. /\ k < 16777216 /\ TimeBits(of) = k
            /\ k % 64 = s /\ k \div 64 = 64 * (2048 + h) + m
            /\ (k \div 256) \div 16 = 2048 + h
        BY <1>1, <2>1, <3>1, SMT
      <3>3. /\ ~back.thrown
            /\ back.value = DbValue("time", <<((k \div 256) \div 16) % 32, (k \div 64) % 64, k % 64>>)
        BY <1>c, <3>2, TimeRead, SMT DEF InThree
      <3>4. ((k \div 256) \div 16) % 32 = h % 32
        BY <2>2, <3>2, SMT
      <3>5. (k \div 64) % 64 = m
        BY <2>2, <3>2, SMT
      <3>6. k % 64 = s
        BY <3>2, SMT
      <3> HIDE DEF back
      <3> QED
        BY <3>3, <3>4, <3>5, <3>6, SMT
    <2>4. back.value = cell <=> h % 32 = h
      BY <2>1, <2>3, SMT DEF DbValue
    <2>5. h % 32 = h <=> h < 32
      BY SMT
    <2> QED
      BY <1>3, <1>5, <2>3, <2>4, <2>5, SMT
  <1>6. CASE Len(of) = 4
    <2>1. PICK k \in Nat : k = 8388608 - n
      BY <1>1, SMT
    <2> DEFINE fields == <<((k \div 256) \div 16) % 32, (k \div 64) % 64, k % 64>>
    <2>2. ~back.thrown /\ back.value = DbValue("time", fields)
      <3>1. k < 16777216 /\ TimeBits(of) = k
        BY <1>1, <1>4, <1>6, <2>1, SMT
      <3> QED
        BY <1>c, <3>1, TimeRead, SMT DEF InThree
    <2>3. Len(fields) = 3
      BY SMT
    <2> HIDE DEF back, fields
    <2>4. back.value # cell
      <3>1. back.value.of = fields /\ cell.of = of
        BY <2>2, SMT DEF DbValue
      <3> QED
        BY <1>6, <2>3, <3>1, SMT
    <2>5. Len(of) # 3 /\ LosesReplicated(i, cell)
      BY <1>3, <1>6, SMT
    <2> QED
      BY <2>2, <2>4, <2>5 DEF back
  <1> QED
    BY <1>2, <1>5, <1>6, SMT

\* The numbers of two bytes, and five bytes as the machine has them.
InTwo(n) == n \in Nat /\ n < 65536

LEMMA BigTwo ==
  ASSUME NEW n, InTwo(n)
  PROVE  \E p \in Byte, q \in Byte :
           BigEndian(n, 2) = <<q, p>> /\ p + 256 * q = n /\ q = n \div 256
  <1>1. n \in Nat /\ n < 65536
    BY DEF InTwo
  <1>2. PICK p \in Int, q \in Int : p = n % 256 /\ q = (n \div 256) % 256
    BY <1>1, SMT
  <1>3. LittleEndian(n, 2) = <<p, q>>
    BY <1>1, <1>2, SMT DEF LittleEndian
  <1>4. p \in Byte /\ q \in Byte /\ p + 256 * q = n /\ q = n \div 256
    <2>1. p \in Byte /\ q \in Byte
      BY <1>1, <1>2, SMT DEF Byte
    <2>2. q = n \div 256
      BY <1>1, <1>2, SMT
    <2>3. p + 256 * q = n
      BY <1>1, <1>2, <2>2, SMT
    <2> QED
      BY <2>1, <2>2, <2>3
  <1>5. Reverse(<<p, q>>) = <<q, p>>
    BY SMT DEF Reverse
  <1>6. BigEndian(n, 2) = <<q, p>>
    BY <1>3, <1>5, Zenon DEF BigEndian
  <1> QED
    BY <1>4, <1>6, SMT

\* The bits of a DATETIME2's first three bytes and of its last two, as fields.
Cut(hi, lo, months, d, h, m, s) ==
  /\ months = (hi \div 64) % 131072 /\ d = (hi \div 2) % 32
  /\ h = 16 * (hi % 2) + lo \div 4096 /\ m = (lo \div 64) % 64 /\ s = lo % 64

\* Five bytes that are read as the fields.
AreFields(bytes, fields) ==
  bytes \in Seq(Byte) /\ Len(bytes) = 5 /\ datetime2From40bit(ntoh(bytes, 8)) = fields

\* The fields that are cut out of a DATETIME2.
LEMMA DateTimeCut ==
  ASSUME NEW hi, InThree(hi), NEW lo, InTwo(lo),
         NEW months, NEW d, NEW h, NEW m, NEW s, Cut(hi, lo, months, d, h, m, s)
  PROVE  AreFields(BigEndian(hi, 3) \o BigEndian(lo, 2),
                   <<months \div 13, months % 13, d, h, m, s>>)
  <1>0. /\ months = (hi \div 64) % 131072 /\ d = (hi \div 2) % 32
        /\ h = 16 * (hi % 2) + lo \div 4096 /\ m = (lo \div 64) % 64 /\ s = lo % 64
    BY DEF Cut
  <1>1. PICK b1 \in Byte, b2 \in Byte :
          BigEndian(lo, 2) = <<b2, b1>> /\ b1 + 256 * b2 = lo /\ b2 = lo \div 256
    BY BigTwo, SMT
  <1>2. PICK b3 \in Byte, b4 \in Byte, b5 \in Byte :
          /\ BigEndian(hi, 3) = <<b5, b4, b3>>
          /\ b3 + 256 * b4 + 65536 * b5 = hi /\ b4 + 256 * b5 = hi \div 256
    BY BigThree, SMT
  <1>3. BigEndian(lo, 2) = <<b2, b1>>
    BY <1>1, SMT
  <1>4. BigEndian(hi, 3) = <<b5, b4, b3>>
    BY <1>2, SMT
  <1> DEFINE w == <<0, 0, 0, b1, b2, b3, b4, b5>>
  <1>5. /\ <<b5, b4, b3>> \o <<b2, b1>> = <<b5, b4, b3, b2, b1>>
        /\ ntoh(<<b5, b4, b3, b2, b1>>, 8) = w
    <2>1. <<b5, b4, b3>> \o <<b2, b1>> = <<b5, b4, b3, b2, b1>>
      <3> DEFINE u == <<b5, b4, b3>>
                 v == <<b2, b1>>
                 x == <<b5, b4, b3, b2, b1>>
      <3>1. u \in Seq(Byte) /\ v \in Seq(Byte) /\ x \in Seq(Byte)
        BY SMT
      <3>2. PICK k \in Nat, l \in Nat : k = 3 /\ l = 2
        BY SMT
      <3>3. Len(u) = k /\ Len(v) = l /\ Len(x) = k + l
        BY <3>2, SMT
      <3>4. \A i \in 1..(k + l) : x[i] = IF i <= k THEN u[i] ELSE v[i - k]
        BY <3>2, SMT
      <3> HIDE DEF u, v, x
      <3>5. /\ u \o v \in Seq(Byte) /\ Len(u \o v) = k + l
            /\ \A i \in 1..(k + l) : (u \o v)[i] = IF i <= k THEN u[i] ELSE v[i - k]
        BY <3>1, <3>3, ConcatProperties
      <3>6. \A i \in 1..Len(u \o v) : (u \o v)[i] = x[i]
        BY <3>4, <3>5
      <3>7. u \o v = x
        BY <3>1, <3>3, <3>5, <3>6, SeqEqual
      <3> QED
        BY <3>7 DEF u, v, x
    <2>2. ntoh(<<b5, b4, b3, b2, b1>>, 8) = w
      BY SMT DEF ntoh
    <2> QED
      BY <2>1, <2>2, Zenon
  <1>6. lo \in Nat /\ hi \in Nat /\ b1 \in Nat /\ b2 \in Nat /\ b3 \in Nat /\ b4 \in Nat /\ b5 \in Nat
    BY SMT DEF InTwo, InThree, Byte
  <1>7. bitslice(w, 6, 24) = s /\ bitslice(w, 6, 30) = m
    <2>1. PICK z \in Nat : z = b1 + 256 * b2 + 65536 * b3
      BY <1>6, SMT
    <2>2. bitslice(w, 6, 24) = z % 64 /\ bitslice(w, 6, 30) = (z \div 64) % 64
      BY <2>1, Slices8, SMT
    <2>3. z = lo + 65536 * b3
      BY <1>1, <1>6, <2>1, SMT
    <2>4. z % 64 = lo % 64
      BY <1>6, <2>3, SMT
    <2>5. z \div 64 = lo \div 64 + 1024 * b3
      BY <1>6, <2>3, SMT
    <2>6. (z \div 64) % 64 = (lo \div 64) % 64
      BY <1>6, <2>5, SMT
    <2> QED
      BY <1>0, <2>2, <2>4, <2>6, SMT
  <1>8. bitslice(w, 5, 36) = h
    <2>1. PICK z \in Nat, k \in Nat, e \in Nat :
            z = b2 + 256 * b3 + 65536 * b4 /\ k = b3 + 256 * b4 /\ e = b2 \div 16
      BY <1>6, SMT
    <2>2. bitslice(w, 5, 36) = (z \div 16) % 32
      BY <2>1, Slices8, SMT
    <2>3. z = b2 + 256 * k
      BY <1>6, <2>1, SMT
    <2>4. z \div 16 = e + 16 * k
      BY <1>6, <2>1, <2>3, SMT
    <2>5. e = lo \div 4096 /\ e < 16
      BY <1>1, <1>6, <2>1, SMT DEF Byte
    <2>6. k % 2 = hi % 2
      BY <1>2, <1>6, <2>1, SMT
    <2>7. (e + 16 * k) % 32 = e + 16 * (k % 2)
      <3>1. PICK j \in Int, t \in Int : j = k \div 2 /\ t = k % 2
        BY <2>1, SMT
      <3>2. k = 2 * j + t /\ t \in {0, 1}
        BY <2>1, <3>1, SMT
      <3>3. e + 16 * k = 32 * j + (e + 16 * t) /\ e + 16 * t \in 0..31
        BY <2>1, <2>5, <3>2, SMT
      <3>4. (32 * j + (e + 16 * t)) % 32 = e + 16 * t
        BY <3>3, SMT
      <3> QED
        BY <3>1, <3>3, <3>4, SMT
    <2> QED
      BY <1>0, <2>2, <2>4, <2>5, <2>6, <2>7, SMT
  <1>9. bitslice(w, 5, 41) = d /\ bitslice(w, 17, 46) = months
    BY <1>0, <1>2, Slices8, SMT
  <1> HIDE DEF w
  <1>10. datetime2From40bit(w) = <<months \div 13, months % 13, d, h, m, s>>
    BY <1>7, <1>8, <1>9, Zenon DEF datetime2From40bit
  <1>11. <<b5, b4, b3, b2, b1>> \in Seq(Byte) /\ Len(<<b5, b4, b3, b2, b1>>) = 5
    BY SMT
  <1> DEFINE b == BigEndian(hi, 3) \o BigEndian(lo, 2)
  <1>12. b = <<b5, b4, b3, b2, b1>>
    BY <1>3, <1>4, <1>5, Zenon
  <1> HIDE DEF b
  <1>13. datetime2From40bit(ntoh(b, 8)) = <<months \div 13, months % 13, d, h, m, s>>
    BY <1>5, <1>10, <1>12, Zenon
  <1>14. b \in Seq(Byte) /\ Len(b) = 5
    BY <1>11, <1>12, Zenon
  <1>15. AreFields(b, <<months \div 13, months % 13, d, h, m, s>>)
    BY <1>13, <1>14, Zenon DEF AreFields
  <1> QED
    BY <1>15 DEF b

\* The fields of a moment, but for its fraction.
InDay(y, mo, d, h, m, s) ==
  /\ y \in Nat /\ mo \in Nat /\ d \in Nat /\ h \in Nat /\ m \in Nat /\ s \in Nat
  /\ y < 10000 /\ mo < 13 /\ d < 32 /\ h < 24 /\ m < 60 /\ s < 60

\* The bits that the server packs them into.
Packed(hi, lo, y, mo, d, h, m, s) ==
  /\ hi = 8388608 + 64 * (13 * y + mo) + 2 * d + h \div 16
  /\ lo = 4096 * (h % 16) + 64 * m + s

LEMMA DateTimeFields ==
  ASSUME NEW y, NEW mo, NEW d, NEW h, NEW m, NEW s, InDay(y, mo, d, h, m, s),
         NEW hi, NEW lo, Packed(hi, lo, y, mo, d, h, m, s)
  PROVE  \E k : /\ InThree(hi) /\ InTwo(lo) /\ Cut(hi, lo, k, d, h, m, s)
               /\ k \div 13 = y /\ k % 13 = mo
  <1>y. y \in Nat /\ y < 10000 /\ mo \in Nat /\ mo < 13 /\ d \in Nat /\ d < 32
    BY SMT DEF InDay
  <1>h. h \in Nat /\ h < 24 /\ m \in Nat /\ m < 60 /\ s \in Nat /\ s < 60
    BY SMT DEF InDay
  <1>p. /\ hi = 8388608 + 64 * (13 * y + mo) + 2 * d + h \div 16
        /\ lo = 4096 * (h % 16) + 64 * m + s
    BY DEF Packed
  <1>1. PICK a \in Int, e \in Int, k \in Int :
          a = h \div 16 /\ e = h % 16 /\ k = 13 * y + mo
    BY <1>y, <1>h, SMT
  <1>2. a \in {0, 1} /\ e \in 0..15 /\ h = 16 * a + e /\ k \in Nat /\ k < 130000
    BY <1>y, <1>h, <1>p, <1>1, SMT
  <1>3. hi = 8388608 + 64 * k + 2 * d + a /\ lo = 4096 * e + 64 * m + s
    BY <1>y, <1>h, <1>p, <1>1, SMT
  <1>4. InThree(hi) /\ InTwo(lo)
    BY <1>y, <1>h, <1>p, <1>2, <1>3, SMT DEF InThree, InTwo
  <1>5. hi \div 64 = 131072 + k
    BY <1>y, <1>h, <1>p, <1>2, <1>3, SMT
  <1>6. (hi \div 64) % 131072 = k
    BY <1>y, <1>h, <1>p, <1>2, <1>5, SMT
  <1>7. k \div 13 = y /\ k % 13 = mo
    BY <1>y, <1>h, <1>p, <1>1, SMT
  <1>8. hi \div 2 = 4194304 + 32 * k + d
    BY <1>y, <1>h, <1>p, <1>2, <1>3, SMT
  <1>9. (hi \div 2) % 32 = d
    BY <1>y, <1>h, <1>p, <1>2, <1>8, SMT
  <1>10. hi % 2 = a
    BY <1>y, <1>h, <1>p, <1>2, <1>3, SMT
  <1>11. lo \div 4096 = e
    BY <1>y, <1>h, <1>p, <1>2, <1>3, SMT
  <1>12. lo % 64 = s /\ lo \div 64 = 64 * e + m
    BY <1>y, <1>h, <1>p, <1>2, <1>3, SMT
  <1>13. (lo \div 64) % 64 = m
    BY <1>y, <1>h, <1>p, <1>2, <1>12, SMT
  <1>14. h = 16 * (hi % 2) + lo \div 4096
    BY <1>2, <1>10, <1>11, SMT
  <1>15. Cut(hi, lo, k, d, h, m, s)
    BY <1>6, <1>9, <1>12, <1>13, <1>14, SMT DEF Cut
  <1> QED
    BY <1>4, <1>7, <1>15

\* A value before other bytes.
LEMMA FirstOf ==
  ASSUME NEW w \in Seq(Byte), NEW v \in Seq(Byte), NEW l \in Int, Len(w) = l
  PROVE  /\ Ahead(Reader(w \o v), l) = w
         /\ Holds(Reader(w \o v), l)
         /\ discard(Reader(w \o v), l) = [rawdata |-> w \o v, offset |-> l]
  <1>1. w \o v \in Seq(Byte) /\ Len(w \o v) = l + Len(v) /\ Len(v) \in Nat
    BY SMT
  <1>2. Ahead(Reader(w \o v), l) = w
    <2>1. SubSeq(w \o v, 1, Len(w)) = w
      BY SMT
    <2>2. Ahead(Reader(w \o v), l) = SubSeq(w \o v, 0 + 1, 0 + l)
      BY DEF Ahead, Reader
    <2> QED
      BY <2>1, <2>2, SMT
  <1> DEFINE x == w \o v
  <1> HIDE DEF x
  <1>3. Holds(Reader(x), l) /\ discard(Reader(x), l) = [rawdata |-> x, offset |-> l]
    <2>1. Len(x) = l + Len(v) /\ Len(v) \in Nat
      BY <1>1 DEF x
    <2>2. Reader(x).offset = 0 /\ Reader(x).rawdata = x
      BY DEF Reader
    <2>3. Holds(Reader(x), l)
      BY <2>1, <2>2, SMT DEF Holds
    <2>4. discard(Reader(x), l) = [rawdata |-> x, offset |-> 0 + l]
      BY DEF Reader, discard
    <2>5. 0 + l = l
      BY SMT
    <2> QED
      BY <2>3, <2>4, <2>5
  <1> QED
    BY <1>2, <1>3 DEF x

LEMMA BigBytes ==
  ASSUME NEW n \in Int, NEW l \in 1..4
  PROVE  BigEndian(n, l) \in Seq(Byte) /\ Len(BigEndian(n, l)) = l
  <1> DEFINE b == LittleEndian(n, l)
  <1>1. b \in Seq(Byte) /\ Len(b) = l
    BY LittleBytes
  <1> HIDE DEF b
  <1>2. Reverse(b) \in Seq(Byte) /\ Len(Reverse(b)) = l
    BY <1>1, SMT DEF Reverse
  <1> QED
    BY <1>2 DEF BigEndian, b

\* What a moment's five bytes are read as.
LEMMA DateTimeRead ==
  ASSUME NEW y, NEW mo, NEW d, NEW h, NEW m, NEW s, InDay(y, mo, d, h, m, s), NEW of,
         of[1] = y, of[2] = mo, of[3] = d, of[4] = h, of[5] = m, of[6] = s
  PROVE  AreFields(DateTimeBytes(of), <<y, mo, d, h, m, s>>)
  <1>1. PICK hi, lo :
          /\ hi = Pow2(23) + Pow2(6) * (13 * of[1] + of[2]) + 2 * of[3] + of[4] \div 16
          /\ lo = Pow2(12) * (of[4] % 16) + Pow2(6) * of[5] + of[6]
    OBVIOUS
  <1>2. Packed(hi, lo, y, mo, d, h, m, s)
    <2>1. Pow2(23) = 8388608 /\ Pow2(12) = 4096 /\ Pow2(6) = 64
      BY SMT DEF Pow2
    <2> QED
      BY <1>1, <2>1, SMT DEF Packed
  <1>3. PICK k : /\ InThree(hi) /\ InTwo(lo) /\ Cut(hi, lo, k, d, h, m, s)
                 /\ k \div 13 = y /\ k % 13 = mo
    BY <1>2, DateTimeFields
  <1>4. AreFields(BigEndian(hi, 3) \o BigEndian(lo, 2), <<k \div 13, k % 13, d, h, m, s>>)
    BY <1>3, DateTimeCut
  <1>5. DateTimeBytes(of) = BigEndian(hi, 3) \o BigEndian(lo, 2)
    BY <1>1 DEF DateTimeBytes
  <1> QED
    BY <1>3, <1>4, <1>5

(* A DATETIME2 is read as its date and its time to the second, whatever they are and *)
(* without an exception; all bytes of its fraction are left for the column after it  *)
(* to read (mysql_types.cpp:223-241).                                                *)
THEOREM DatetimesBack ==
  ASSUME NEW column, column.declared.base = "datetime", ~column.old,
         NEW y, NEW mo, NEW d, NEW h, NEW m, NEW s, InDay(y, mo, d, h, m, s), NEW f \in Nat,
         NEW of \in {<<y, mo, d, h, m, s>>, <<y, mo, d, h, m, s, f>>},
         Len(of) = 7 => column.declared.args[1] \in 1..6
  PROVE  LET cell == DbValue("datetime", of)
             back == ReadBack(column, cell)
             left == Len(Encode(column, cell)) - back.data.offset
         IN /\ ~back.thrown
            /\ back.value = DbValue("datetime", <<y, mo, d, h, m, s>>)
            /\ left = IF Len(of) = 7 THEN (column.declared.args[1] + 1) \div 2 ELSE 0
  <1> DEFINE cell == DbValue("datetime", of)
             l == (column.declared.args[1] + 1) \div 2
             v == IF Len(of) = 7 THEN BigEndian(of[7], l) ELSE <<>>
             w == DateTimeBytes(of)
             fields == <<y, mo, d, h, m, s>>
  <1>0. /\ of[1] = y /\ of[2] = mo /\ of[3] = d /\ of[4] = h /\ of[5] = m /\ of[6] = s
        /\ Len(of) \in {6, 7} /\ Len(of) = 7 => of[7] = f
    BY SMT
  <1>1. BinlogType(column) = "DATETIME2"
    <2>1. FieldType(column) = "DATETIME"
      BY SMT DEF FieldType, FieldTypes
    <2> QED
      BY <2>1, SMT DEF BinlogType, NewFormats
  <1>2. Encode(column, cell) = w \o v
    <2>1. cell.of = of
      BY DEF DbValue
    <2>2. /\ "DATETIME2" \notin DOMAIN IntegerSize /\ "DATETIME2" \notin DOMAIN FloatSize
          /\ column.declared.base # "enum" /\ column.declared.base \notin DOMAIN LengthBytes
      BY SMT DEF IntegerSize, FloatSize, LengthBytes
    <2>3. Encode(column, cell)
            = DateTimeBytes(cell.of)
                \o (IF Len(cell.of) = 7
                    THEN BigEndian(cell.of[7], (column.declared.args[1] + 1) \div 2) ELSE <<>>)
      <3> HIDE DEF cell
      <3> QED
        BY <1>1, <2>2, Zenon DEF Encode
    <2> QED
      BY <2>1, <2>3, Zenon
  <1>3. w \in Seq(Byte) /\ Len(w) = 5 /\ datetime2From40bit(ntoh(w, 8)) = fields
    <2>1. AreFields(w, fields)
      BY <1>0, DateTimeRead
    <2> HIDE DEF w, fields
    <2> QED
      BY <2>1 DEF AreFields
  <1>4. v \in Seq(Byte) /\ Len(v) = IF Len(of) = 7 THEN l ELSE 0
    <2>1. CASE Len(of) = 7
      <3>1. l \in 1..4
        BY <2>1, SMT
      <3>2. of[7] \in Int
        BY <1>0, <2>1, SMT
      <3> HIDE DEF l
      <3>3. BigEndian(of[7], l) \in Seq(Byte) /\ Len(BigEndian(of[7], l)) = l
        BY <3>1, <3>2, BigBytes, Zenon
      <3> QED
        BY <2>1, <3>3, Zenon
    <2>2. CASE Len(of) # 7
      <3>1. <<>> \in Seq(Byte) /\ Len(<<>>) = 0
        BY SMT
      <3>2. v = <<>>
        BY <2>2
      <3> HIDE DEF v, l
      <3>3. v \in Seq(Byte) /\ Len(v) = 0
        BY <3>1, <3>2
      <3> QED
        BY <2>2, <3>3
    <2> HIDE DEF l, v
    <2> QED
      BY <2>1, <2>2, Zenon
  <1> HIDE DEF w, v, fields, l, cell
  <1>d. PICK k \in Int : k = 5
    BY SMT
  <1>5. \A r : read("DATETIME2", Metadata(column), r)
                = Fixed(r, k, "datetime", datetime2From40bit(ntoh(Ahead(r, k), 8)))
    BY <1>d, SMT DEF read, IntegerSize, FloatSize, BlobTypes, StringTypes
  <1>l. Len(w) = k
    BY <1>3, <1>d
  <1>6. /\ Ahead(Reader(w \o v), k) = w
        /\ Fixed(Reader(w \o v), k, "datetime", fields)
             = [thrown |-> FALSE, value |-> DbValue("datetime", fields),
                data |-> [rawdata |-> w \o v, offset |-> k]]
    <2>1. w \in Seq(Byte) /\ v \in Seq(Byte)
      BY <1>3, <1>4
    <2>2. Ahead(Reader(w \o v), k) = w
      BY <1>l, <2>1, FirstOf, Zenon
    <2>3. Fixed(Reader(w \o v), k, "datetime", fields)
            = [thrown |-> FALSE, value |-> DbValue("datetime", fields),
               data |-> [rawdata |-> w \o v, offset |-> k]]
      <3>1. /\ Holds(Reader(w \o v), k)
            /\ discard(Reader(w \o v), k) = [rawdata |-> w \o v, offset |-> k]
        BY <1>l, <2>1, FirstOf, Zenon
      <3> QED
        BY <3>1, Zenon DEF Fixed
    <2> QED
      BY <2>2, <2>3
  <1>7. Len(w \o v) - k = IF Len(of) = 7 THEN l ELSE 0
    <2>1. PICK z \in Nat : z = IF Len(of) = 7 THEN l ELSE 0
      BY <1>4, SMT
    <2>2. Len(v) = z
      BY <1>4, <2>1
    <2>3. Len(w \o v) = k + z
      BY <1>3, <1>4, <1>l, <2>2, ConcatProperties
    <2>4. k + z - k = z
      BY SMT
    <2> QED
      BY <2>1, <2>3, <2>4
  <1>8. ReadBack(column, cell) = [thrown |-> FALSE, value |-> DbValue("datetime", fields),
                                  data |-> [rawdata |-> w \o v, offset |-> k]]
    BY <1>1, <1>2, <1>3, <1>5, <1>6, Zenon DEF ReadBack
  <1>9. /\ ~ReadBack(column, cell).thrown
        /\ ReadBack(column, cell).value = DbValue("datetime", fields)
        /\ ReadBack(column, cell).data.offset = k
    BY <1>8
  <1>10. Len(Encode(column, cell)) - ReadBack(column, cell).data.offset
            = IF Len(of) = 7 THEN l ELSE 0
    BY <1>2, <1>7, <1>9
  <1> QED
    BY <1>9, <1>10 DEF fields, l, cell
=============================================================================
