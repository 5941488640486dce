--------------------------- MODULE RowDecodeProofs ---------------------------
(***************************************************************************)
(* For every stream a server may send, whatever its tables' types, its     *)
(* images and its values: decoding never takes one column's metadata or    *)
(* bytes for another's, a row has the cells that the source's row has, and *)
(* a reader that keeps the maps by id uses the right one.                  *)
(***************************************************************************)
EXTENDS RowDecode, TLAPS, FiniteSetTheorems, SequenceTheorems

(* What Row discards for a NULL is what the server wrote for the column.            *)
LEMMA SkippedIsWritten ==
  ASSUME NEW type \in LoggedTypes
  PROVE  MetadataSkipped(type) = MetadataSize(type)
  BY DEF LoggedTypes, EventTypes, Unreadable, BlobTypes, StringTypes,
         MetadataSkipped, MetadataSize

(* What a type's read takes is what the server wrote, of all types that are read.   *)
LEMMA ReadIsWritten ==
  ASSUME NEW type \in LoggedTypes \ {"BIT", "NEWDECIMAL"}, NEW r
  PROVE  MetadataRead(type, r) = MetadataSize(type)
  BY DEF LoggedTypes, EventTypes, Unreadable, BlobTypes, StringTypes,
         MetadataRead, MetadataSize

-----------------------------------------------------------------------------
LEMMA BytesAreNumbers == Byte \subseteq Nat
  BY DEF Byte

LEMMA NumberIsNat ==
  ASSUME NEW bytes \in Seq(Byte)
  PROVE  Number(bytes) \in Nat
  <1> DEFINE b == [i \in 1..4 |-> IF i <= Len(bytes) THEN bytes[i] ELSE 0]
  <1>1. ASSUME NEW i \in 1..4 PROVE b[i] \in Nat
    <2>1. CASE i <= Len(bytes)
      <3>1. i \in 1..Len(bytes)
        BY <2>1
      <3>2. bytes[i] \in Byte
        BY <3>1, ElementOfSeq
      <3>3. bytes[i] \in Nat
        BY <3>2, BytesAreNumbers
      <3> QED
        BY <2>1, <3>3
    <2>2. CASE ~(i <= Len(bytes))
      BY <2>2
    <2> QED
      BY <2>1, <2>2
  <1>2. Number(bytes) = b[1] + 256 * b[2] + 65536 * b[3] + 16777216 * b[4]
    BY DEF Number
  <1> HIDE DEF b
  <1>3. b[1] \in Nat /\ b[2] \in Nat /\ b[3] \in Nat /\ b[4] \in Nat
    BY <1>1
  <1>4. PICK p \in Nat, q \in Nat, r \in Nat, s \in Nat :
          p = b[1] /\ q = b[2] /\ r = b[3] /\ s = b[4]
    BY <1>3
  <1>5. Number(bytes) = p + 256 * q + 65536 * r + 16777216 * s
    BY <1>2, <1>4, SMT
  <1>6. p + 256 * q + 65536 * r + 16777216 * s \in Nat
    BY SMT
  <1> QED
    BY <1>5, <1>6, SMT

LEMMA LengthIsNat ==
  ASSUME NEW bytes \in Seq(Byte)
  PROVE  Length(bytes) \in Nat
  <1>1. \A l \in 0..Len(bytes) : SubSeq(bytes, 1, l) \in Seq(Byte)
    OBVIOUS
  <1>2. (IF Len(bytes) < 3 THEN Len(bytes) ELSE 3) \in 0..Len(bytes)
    OBVIOUS
  <1>3. Number(SubSeq(bytes, 1, IF Len(bytes) < 3 THEN Len(bytes) ELSE 3)) \in Nat
    BY <1>1, <1>2, NumberIsNat
  <1> QED
    BY <1>3, SMT DEF Length

\* The bytes behind the o-th up to the e-th.
Slice(s, o, e) == SubSeq(s, o + 1, e)

\* A part of a part of the data.
LEMMA Window ==
  ASSUME NEW s \in Seq(Byte), NEW o \in Nat, NEW e \in o..Len(s)
  PROVE  /\ Slice(s, o, e) \in Seq(Byte) /\ Len(Slice(s, o, e)) = e - o
         /\ \A k, l \in Nat : k + l <= e - o =>
              Slice(Slice(s, o, e), k, k + l) = Slice(s, o + k, o + k + l)
  <1>1. Len(s) \in Nat /\ e \in Nat /\ \A i \in (o + 1)..e : s[i] \in Byte
    BY ElementOfSeq
  <1>2. /\ SubSeq(s, o + 1, e) \in Seq(Byte)
        /\ Len(SubSeq(s, o + 1, e)) = IF o + 1 <= e THEN e - (o + 1) + 1 ELSE 0
    BY <1>1, SubSeqProperties
  <1>3. Slice(s, o, e) \in Seq(Byte) /\ Len(Slice(s, o, e)) = e - o
    <2>1. (IF o + 1 <= e THEN e - (o + 1) + 1 ELSE 0) = e - o
      BY <1>1
    <2> QED
      BY <1>2, <2>1 DEF Slice
  <1>4. ASSUME NEW k \in Nat, NEW l \in Nat, k + l <= e - o
        PROVE  SubSeq(SubSeq(s, o + 1, e), k + 1, k + l) = SubSeq(s, o + k + 1, o + k + l)
    <2>1. CASE l = 0
      <3>1. SubSeq(SubSeq(s, o + 1, e), k + 1, k + l) = <<>>
        BY <2>1, SubSeqEmpty
      <3>2. SubSeq(s, o + k + 1, o + k + l) = <<>>
        BY <2>1, SubSeqEmpty
      <3> QED
        BY <3>1, <3>2
    <2>2. CASE l # 0
      <3>1. /\ o + 1 \in 1..Len(s) /\ e \in 1..Len(s)
            /\ k + 1 \in 1..(e - (o + 1) + 1) /\ k + l \in 1..(e - (o + 1) + 1)
        BY <1>1, <1>4, <2>2
      <3>2. SubSeq(SubSeq(s, o + 1, e), k + 1, k + l)
              = SubSeq(s, (o + 1) + (k + 1) - 1, (o + 1) + (k + l) - 1)
        BY <3>1, SubSeqOfSubSeq
      <3>3. (o + 1) + (k + 1) - 1 = o + k + 1 /\ (o + 1) + (k + l) - 1 = o + k + l
        OBVIOUS
      <3> QED
        BY <3>2, <3>3
    <2> QED
      BY <2>1, <2>2
  <1> QED
    BY <1>3, <1>4 DEF Slice

LEMMA AheadIs ==
  ASSUME NEW s, NEW o, NEW l
  PROVE  Ahead([rawdata |-> s, offset |-> o], l) = Slice(s, o, o + l)
  BY DEF Ahead, Slice

LEMMA DiscardIs ==
  ASSUME NEW s, NEW o, NEW l
  PROVE  discard([rawdata |-> s, offset |-> o], l) = [rawdata |-> s, offset |-> o + l]
  BY DEF discard

-----------------------------------------------------------------------------
\* What is made of a value in the middle of the data and what of its bytes alone is
\* the same, and the first reader stops behind them.
Agrees(result, own, s, e) ==
  /\ result.thrown \in BOOLEAN /\ own.thrown = result.thrown
  /\ ~result.thrown =>
       /\ result.value = own.value /\ result.value # Null
       /\ result.data = [rawdata |-> s, offset |-> e]

\* Both readers have the value's bytes before them.
LEMMA AheadAgrees ==
  ASSUME NEW s \in Seq(Byte), NEW o \in Nat, NEW e \in o..Len(s),
         NEW bytes, bytes = Slice(s, o, e),
         NEW from, from = [rawdata |-> s, offset |-> o],
         NEW l \in 0..(e - o)
  PROVE  /\ Ahead(from, l) = Slice(bytes, 0, l) /\ Ahead(Reader(bytes), l) = Slice(bytes, 0, l)
         /\ Holds(from, l) /\ Holds(Reader(bytes), l)
  <1>1. /\ Len(s) \in Nat /\ e \in Nat /\ l \in Nat /\ 0 \in Nat /\ 0 + l <= e - o
        /\ 0 + l = l /\ o + 0 = o /\ o + 0 + l = o + l
    OBVIOUS
  <1>2. Reader(bytes) = [rawdata |-> bytes, offset |-> 0]
    BY DEF Reader
  <1>3. Ahead(from, l) = Slice(s, o, o + l) /\ Ahead(Reader(bytes), l) = Slice(bytes, 0, 0 + l)
    BY <1>2, AheadIs
  <1>4. Len(bytes) = e - o /\ Slice(bytes, 0, 0 + l) = Slice(s, o + 0, o + 0 + l)
    <2>1. Len(bytes) = e - o
      BY Window
    <2>2. \A k, j \in Nat : k + j <= e - o =>
            Slice(Slice(s, o, e), k, k + j) = Slice(s, o + k, o + k + j)
      BY Window
    <2>3. Slice(Slice(s, o, e), 0, 0 + l) = Slice(s, o + 0, o + 0 + l)
      BY <1>1, <2>2
    <2> QED
      BY <2>1, <2>3
  <1>5. Holds(from, l) /\ Holds(Reader(bytes), l)
    <2>1. from.rawdata = s /\ from.offset = o /\ Reader(bytes).rawdata = bytes /\ Reader(bytes).offset = 0
      BY <1>2
    <2> QED
      BY <1>1, <1>4, <2>1 DEF Holds
  <1> QED
    BY <1>1, <1>3, <1>4, <1>5

LEMMA FixedAgrees ==
  ASSUME NEW s \in Seq(Byte), NEW o \in Nat, NEW e \in o..Len(s),
         NEW bytes, bytes = Slice(s, o, e),
         NEW from, from = [rawdata |-> s, offset |-> o], NEW own, own = Reader(bytes),
         NEW is, is # "null", NEW fields
  PROVE  /\ ~Fixed(from, e - o, is, fields).thrown
         /\ Agrees(Fixed(from, e - o, is, fields), Fixed(own, e - o, is, fields), s, e)
  <1>1. Holds(from, e - o) /\ Holds(own, e - o)
    <2>1. e - o \in 0..(e - o)
      OBVIOUS
    <2> QED
      BY <2>1, AheadAgrees
  <1>2. DbValue(is, fields) # Null
    <2>1. DbValue(is, fields).is = is /\ Null.is = "null"
      BY DEF DbValue, Null
    <2> QED
      BY <2>1
  <1>3. discard(from, e - o) = [rawdata |-> s, offset |-> e]
    <2>1. o + (e - o) = e
      OBVIOUS
    <2> QED
      BY <2>1, DiscardIs
  <1> DEFINE x == Fixed(from, e - o, is, fields)
             y == Fixed(own, e - o, is, fields)
  <1>4. /\ x.thrown = FALSE /\ y.thrown = FALSE /\ x.value = DbValue(is, fields)
        /\ y.value = DbValue(is, fields) /\ x.data = [rawdata |-> s, offset |-> e]
    BY <1>1, <1>3 DEF Fixed
  <1> HIDE DEF x, y
  <1>5. Agrees(x, y, s, e)
    BY <1>2, <1>4 DEF Agrees
  <1> QED
    BY <1>4, <1>5 DEF x, y

LEMMA CastAgrees ==
  ASSUME NEW s, NEW e, NEW result, NEW own, NEW max, Agrees(result, own, s, e)
  PROVE  Agrees(Cast(result, max), Cast(own, max), s, e)
  BY DEF Agrees, Cast, Threw

LEMMA CountedAgrees ==
  ASSUME NEW s \in Seq(Byte), NEW o \in Nat, NEW e \in o..Len(s),
         NEW bytes, bytes = Slice(s, o, e),
         NEW from, from = [rawdata |-> s, offset |-> o], NEW own, own = Reader(bytes),
         NEW is, is # "null", NEW l \in 1..4, HasLength(l, bytes)
  PROVE  /\ ~Counted(from, l, is).thrown
         /\ Agrees(Counted(from, l, is), Counted(own, l, is), s, e)
  <1> DEFINE n == Length(Slice(bytes, 0, l))
  <1>1. Len(s) \in Nat /\ e \in Nat /\ 0 \in Nat /\ l \in Nat
    OBVIOUS
  <1>2. bytes \in Seq(Byte) /\ Len(bytes) = e - o
    BY <1>1, Window
  <1>3. l <= e - o /\ e - o = l + n
    BY <1>2 DEF HasLength, Slice
  <1>4. n \in Nat
    <2>1. 0 \in Nat /\ l \in 0..Len(bytes)
      BY <1>2, <1>3
    <2>2. Slice(bytes, 0, l) \in Seq(Byte)
      BY <1>2, <2>1, Window
    <2> QED
      BY <2>2, LengthIsNat
  <1>5. /\ Length(Ahead(from, l)) = n /\ Length(Ahead(own, l)) = n
        /\ Holds(from, l) /\ Holds(own, l)
    <2>1. l \in 0..(e - o)
      BY <1>1, <1>3
    <2> QED
      BY <2>1, AheadAgrees
  <1> HIDE DEF n
  <1>6. own = [rawdata |-> bytes, offset |-> 0]
    BY DEF Reader
  <1>7. /\ discard(from, l) = [rawdata |-> s, offset |-> o + l]
        /\ discard(own, l) = [rawdata |-> bytes, offset |-> 0 + l]
    BY <1>6, DiscardIs
  <1>8. Ahead(discard(from, l), n) = Ahead(discard(own, l), n)
    <2>1. /\ Ahead(discard(from, l), n) = Slice(s, o + l, o + l + n)
          /\ Ahead(discard(own, l), n) = Slice(bytes, 0 + l, 0 + l + n)
      BY <1>7, AheadIs
    <2>2. l + n <= e - o /\ 0 + l = l
      BY <1>1, <1>3, <1>4
    <2>3. Slice(bytes, l, l + n) = Slice(s, o + l, o + l + n)
      <3>1. \A k, j \in Nat : k + j <= e - o =>
              Slice(Slice(s, o, e), k, k + j) = Slice(s, o + k, o + k + j)
        BY Window
      <3>2. Slice(Slice(s, o, e), l, l + n) = Slice(s, o + l, o + l + n)
        BY <1>1, <1>4, <2>2, <3>1
      <3> QED
        BY <3>2
    <2> QED
      BY <2>1, <2>2, <2>3
  <1>9. /\ Holds(discard(from, l), n) /\ Holds(discard(own, l), n)
        /\ discard(discard(from, l), n) = [rawdata |-> s, offset |-> e]
    <2>1. n <= Len(s) - (o + l) /\ n <= Len(bytes) - (0 + l) /\ o + l + n = e
      BY <1>1, <1>2, <1>3, <1>4
    <2>2. /\ discard(from, l).rawdata = s /\ discard(from, l).offset = o + l
          /\ discard(own, l).rawdata = bytes /\ discard(own, l).offset = 0 + l
      BY <1>7
    <2>3. Holds(discard(from, l), n) /\ Holds(discard(own, l), n)
      BY <2>1, <2>2 DEF Holds
    <2>4. discard(discard(from, l), n) = [rawdata |-> s, offset |-> o + l + n]
      BY <1>7, DiscardIs
    <2> QED
      BY <2>1, <2>3, <2>4
  <1>10. DbValue(is, Ahead(discard(from, l), n)) # Null
    BY DEF DbValue, Null
  <1>11. /\ Counted(from, l, is) = Fixed(discard(from, l), n, is, Ahead(discard(from, l), n))
         /\ Counted(own, l, is) = Fixed(discard(own, l), n, is, Ahead(discard(own, l), n))
    BY <1>5 DEF Counted
  <1> DEFINE x == Counted(from, l, is)
             y == Counted(own, l, is)
             v == DbValue(is, Ahead(discard(from, l), n))
  <1>12. /\ x.thrown = FALSE /\ y.thrown = FALSE /\ x.value = v /\ y.value = v
         /\ x.data = [rawdata |-> s, offset |-> e]
    BY <1>8, <1>9, <1>11 DEF Fixed
  <1> HIDE DEF x, y
  <1>13. Agrees(x, y, s, e)
    BY <1>10, <1>12 DEF Agrees
  <1> QED
    BY <1>12, <1>13 DEF x, y

LEMMA ReadAgrees ==
  ASSUME NEW s \in Seq(Byte), NEW o \in Nat, NEW e \in o..Len(s),
         NEW bytes, bytes = Slice(s, o, e),
         NEW from, from = [rawdata |-> s, offset |-> o], NEW own, own = Reader(bytes),
         NEW type \in LoggedTypes \ Unreadable, NEW meta,
         MetadataFits(type, meta), IsValue(type, meta, bytes),
         type \in DOMAIN WholeSize => meta[1] = 0
  PROVE  /\ Agrees(read(type, meta, from), read(type, meta, own), s, e)
         /\ read(type, meta, from).thrown
              => type \in {"TIME", "DATETIME", "TIMESTAMP2"} \union StringTypes
  <1> DEFINE Goal == /\ Agrees(read(type, meta, from), read(type, meta, own), s, e)
                     /\ read(type, meta, from).thrown
                          => type \in {"TIME", "DATETIME", "TIMESTAMP2"} \union StringTypes
  <1> SUFFICES Goal
    OBVIOUS
  <1>1. Len(bytes) = e - o
    BY Window
  <1>2. ASSUME 4 <= e - o
        PROVE  Ahead(from, 4) = Slice(bytes, 0, 4) /\ Ahead(own, 4) = Slice(bytes, 0, 4)
    <2>1. 4 \in 0..(e - o)
      BY <1>2
    <2> QED
      BY <2>1, AheadAgrees
  <1>3. Ahead(from, e - o) = Ahead(own, e - o)
    <2>1. e - o \in 0..(e - o)
      OBVIOUS
    <2> QED
      BY <2>1, AheadAgrees
  <1>4. ASSUME NEW is, is # "null", NEW fields,
               read(type, meta, from) = Fixed(from, e - o, is, fields),
               read(type, meta, own) = Fixed(own, e - o, is, fields)
        PROVE  Goal
    <2>1. /\ ~Fixed(from, e - o, is, fields).thrown
          /\ Agrees(Fixed(from, e - o, is, fields), Fixed(own, e - o, is, fields), s, e)
      BY <1>4, FixedAgrees
    <2> QED
      BY <1>4, <2>1
  <1>5. ASSUME NEW is, is # "null", NEW fields, NEW max,
               read(type, meta, from) = Cast(Fixed(from, e - o, is, fields), max),
               read(type, meta, own) = Cast(Fixed(own, e - o, is, fields), max),
               type \in {"TIME", "DATETIME"}
        PROVE  Goal
    <2>1. Agrees(Fixed(from, e - o, is, fields), Fixed(own, e - o, is, fields), s, e)
      BY <1>5, FixedAgrees
    <2>2. Agrees(Cast(Fixed(from, e - o, is, fields), max), Cast(Fixed(own, e - o, is, fields), max), s, e)
      BY <2>1, CastAgrees
    <2> QED
      BY <1>5, <2>2
  <1>6. ASSUME read(type, meta, from) = Threw(from), read(type, meta, own) = Threw(own),
               type \in {"TIMESTAMP2"} \union StringTypes
        PROVE  Goal
    <2>1. Threw(from).thrown = TRUE /\ Threw(own).thrown = TRUE
      BY DEF Threw
    <2> QED
      BY <1>6, <2>1 DEF Agrees
  <1>7. ASSUME NEW l \in 1..4, HasLength(l, bytes), NEW is, is # "null",
               read(type, meta, from) = Counted(from, l, is),
               read(type, meta, own) = Counted(own, l, is)
        PROVE  Goal
    <2>1. /\ ~Counted(from, l, is).thrown
          /\ Agrees(Counted(from, l, is), Counted(own, l, is), s, e)
      BY <1>7, CountedAgrees
    <2> QED
      BY <1>7, <2>1
  <1> HIDE DEF Goal
  <1>8. CASE type = "LONGLONG"
    <2>1. e - o = 8
      BY <1>1, <1>8 DEF IsValue, IntegerSize, FloatSize, WholeSize, BlobTypes, StringTypes
    <2>2. \A r : read(type, meta, r) = Fixed(r, 8, "int", Wide(Ahead(r, 8)))
      BY <1>8 DEF read, IntegerSize, FloatSize, BlobTypes, StringTypes
    <2>3. /\ read(type, meta, from) = Fixed(from, e - o, "int", Wide(Ahead(from, e - o)))
          /\ read(type, meta, own) = Fixed(own, e - o, "int", Wide(Ahead(from, e - o)))
      BY <1>3, <2>1, <2>2
    <2> QED
      BY <1>8, <1>4, <2>3
  <1>9. CASE type = "INT24"
    <2>1. e - o = 3
      BY <1>1, <1>9 DEF IsValue, IntegerSize, FloatSize, WholeSize, BlobTypes, StringTypes
    <2>2. \A r : read(type, meta, r) = Fixed(r, 3, "int", <<Number(Ahead(r, 3))>>)
      BY <1>9 DEF read, IntegerSize, FloatSize, BlobTypes, StringTypes
    <2>3. /\ read(type, meta, from) = Fixed(from, e - o, "int", <<Number(Ahead(from, e - o))>>)
          /\ read(type, meta, own) = Fixed(own, e - o, "int", <<Number(Ahead(from, e - o))>>)
      BY <1>3, <2>1, <2>2
    <2> QED
      BY <1>9, <1>4, <2>3
  <1>10. CASE type = "YEAR"
    <2>1. e - o = 1
      BY <1>1, <1>10 DEF IsValue, IntegerSize, FloatSize, WholeSize, BlobTypes, StringTypes
    <2>2. \A r : read(type, meta, r) = Fixed(r, 1, "int", <<year(Ahead(r, 1))>>)
      BY <1>10 DEF read, IntegerSize, FloatSize, BlobTypes, StringTypes
    <2>3. /\ read(type, meta, from) = Fixed(from, e - o, "int", <<year(Ahead(from, e - o))>>)
          /\ read(type, meta, own) = Fixed(own, e - o, "int", <<year(Ahead(from, e - o))>>)
      BY <1>3, <2>1, <2>2
    <2> QED
      BY <1>10, <1>4, <2>3
  <1>11. CASE type = "TIMESTAMP"
    <2>1. e - o = 4
      BY <1>1, <1>11 DEF IsValue, IntegerSize, FloatSize, WholeSize, BlobTypes, StringTypes
    <2>2. \A r : read(type, meta, r) = Fixed(r, 4, "timespec", <<Signed(Ahead(r, 4))>>)
      BY <1>11 DEF read, IntegerSize, FloatSize, BlobTypes, StringTypes
    <2>3. /\ read(type, meta, from) = Fixed(from, e - o, "timespec", <<Signed(Ahead(from, e - o))>>)
          /\ read(type, meta, own) = Fixed(own, e - o, "timespec", <<Signed(Ahead(from, e - o))>>)
      BY <1>3, <2>1, <2>2
    <2> QED
      BY <1>11, <1>4, <2>3
  <1>12. CASE type = "DATE"
    <2>1. e - o = 3
      BY <1>1, <1>12 DEF IsValue, IntegerSize, FloatSize, WholeSize, BlobTypes, StringTypes
    <2>2. \A r : read(type, meta, r) = Fixed(r, 3, "date", dateFrom24bit(Ahead(r, 3)))
      BY <1>12 DEF read, IntegerSize, FloatSize, BlobTypes, StringTypes
    <2>3. /\ read(type, meta, from) = Fixed(from, e - o, "date", dateFrom24bit(Ahead(from, e - o)))
          /\ read(type, meta, own) = Fixed(own, e - o, "date", dateFrom24bit(Ahead(from, e - o)))
      BY <1>3, <2>1, <2>2
    <2> QED
      BY <1>12, <1>4, <2>3
  <1>13. CASE type = "TIME2"
    <2>1. e - o = 3
      BY <1>1, <1>13 DEF IsValue, IntegerSize, FloatSize, WholeSize, BlobTypes, StringTypes
    <2>2. \A r : read(type, meta, r) = Fixed(r, 3, "time", time2From24bit(ntoh(Ahead(r, 3), 4)))
      BY <1>13 DEF read, IntegerSize, FloatSize, BlobTypes, StringTypes
    <2>3. /\ read(type, meta, from) = Fixed(from, e - o, "time", time2From24bit(ntoh(Ahead(from, e - o), 4)))
          /\ read(type, meta, own) = Fixed(own, e - o, "time", time2From24bit(ntoh(Ahead(from, e - o), 4)))
      BY <1>3, <2>1, <2>2
    <2> QED
      BY <1>13, <1>4, <2>3
  <1>14. CASE type = "DATETIME2"
    <2>1. e - o = 5
      BY <1>1, <1>14 DEF IsValue, IntegerSize, FloatSize, WholeSize, BlobTypes, StringTypes
    <2>2. \A r : read(type, meta, r) = Fixed(r, 5, "datetime", datetime2From40bit(ntoh(Ahead(r, 5), 8)))
      BY <1>14 DEF read, IntegerSize, FloatSize, BlobTypes, StringTypes
    <2>3. /\ read(type, meta, from) = Fixed(from, e - o, "datetime", datetime2From40bit(ntoh(Ahead(from, e - o), 8)))
          /\ read(type, meta, own) = Fixed(own, e - o, "datetime", datetime2From40bit(ntoh(Ahead(from, e - o), 8)))
      BY <1>3, <2>1, <2>2
    <2> QED
      BY <1>14, <1>4, <2>3
  <1>15. CASE type = "TIME"
    <2>1. e - o = 3
      BY <1>1, <1>15 DEF IsValue, IntegerSize, FloatSize, WholeSize, BlobTypes, StringTypes
    <2>2. \A r : read(type, meta, r) = Cast(Fixed(r, 3, "time", InHundreds(Ahead(r, 3), 3)), 255)
      BY <1>15 DEF read, IntegerSize, FloatSize, BlobTypes, StringTypes
    <2>3. /\ read(type, meta, from) = Cast(Fixed(from, e - o, "time", InHundreds(Ahead(from, e - o), 3)), 255)
          /\ read(type, meta, own) = Cast(Fixed(own, e - o, "time", InHundreds(Ahead(from, e - o), 3)), 255)
      BY <1>3, <2>1, <2>2
    <2> QED
      BY <1>15, <1>5, <2>3
  <1>16. CASE type = "DATETIME"
    <2>1. e - o = 8
      BY <1>1, <1>16 DEF IsValue, IntegerSize, FloatSize, WholeSize, BlobTypes, StringTypes
    <2>2. \A r : read(type, meta, r) = Cast(Fixed(r, 8, "datetime", InHundreds(Ahead(r, 8), 6)), 65535)
      BY <1>16 DEF read, IntegerSize, FloatSize, BlobTypes, StringTypes
    <2>3. /\ read(type, meta, from) = Cast(Fixed(from, e - o, "datetime", InHundreds(Ahead(from, e - o), 6)), 65535)
          /\ read(type, meta, own) = Cast(Fixed(own, e - o, "datetime", InHundreds(Ahead(from, e - o), 6)), 65535)
      BY <1>3, <2>1, <2>2
    <2> QED
      BY <1>16, <1>5, <2>3
  <1>17. CASE type \in DOMAIN IntegerSize
    <2>1. e - o = IntegerSize[type]
      BY <1>1, <1>17 DEF IsValue, IntegerSize, FloatSize, WholeSize, BlobTypes, StringTypes
    <2>2. /\ type \in DOMAIN IntegerSize /\ type \notin DOMAIN FloatSize
          /\ type \notin BlobTypes /\ type \notin StringTypes
      BY <1>17 DEF IntegerSize, FloatSize, BlobTypes, StringTypes
    <2>3. \A r : read(type, meta, r) = Fixed(r, IntegerSize[type], "int", <<Signed(Ahead(r, IntegerSize[type]))>>)
      BY <1>17, <2>2 DEF read, IntegerSize
    <2>4. /\ read(type, meta, from) = Fixed(from, e - o, "int", <<Signed(Ahead(from, e - o))>>)
          /\ read(type, meta, own) = Fixed(own, e - o, "int", <<Signed(Ahead(from, e - o))>>)
      BY <1>3, <2>1, <2>3
    <2> QED
      BY <1>17, <1>4, <2>4
  <1>18. CASE type \in DOMAIN FloatSize
    <2>1. /\ e - o = FloatSize[type] /\ 4 <= e - o /\ meta[1] = FloatSize[type]
          /\ type \notin DOMAIN IntegerSize /\ type \in DOMAIN FloatSize
          /\ type \notin BlobTypes /\ type \notin StringTypes
      BY <1>1, <1>18 DEF IsValue, MetadataFits, IntegerSize, FloatSize, WholeSize, BlobTypes, StringTypes
    <2>2. \A r : read(type, meta, r)
                   = Fixed(r, FloatSize[type], "decimal", Decimal(Ahead(r, FloatSize[type])))
      BY <1>18, <2>1 DEF read, FloatSize
    <2>3. /\ read(type, meta, from) = Fixed(from, e - o, "decimal", Decimal(Ahead(from, e - o)))
          /\ read(type, meta, own) = Fixed(own, e - o, "decimal", Decimal(Ahead(from, e - o)))
      BY <1>3, <2>1, <2>2
    <2> QED
      BY <1>4, <2>3
  <1>19. CASE type = "TIMESTAMP2"
    <2>1. /\ meta[1] = 0 /\ type \notin DOMAIN IntegerSize /\ type \notin DOMAIN FloatSize
          /\ type \notin BlobTypes /\ type \notin StringTypes
      BY <1>19 DEF IntegerSize, FloatSize, WholeSize, BlobTypes, StringTypes
    <2>2. \A r : read(type, meta, r) = Threw(r)
      BY <1>19, <2>1 DEF read
    <2> QED
      BY <1>6, <1>19, <2>2
  <1>20. CASE type \in BlobTypes \union {"BLOB"}
    <2>1. /\ meta[1] \in 1..4 /\ HasLength(meta[1], bytes)
      BY <1>20 DEF IsValue, MetadataFits, IntegerSize, FloatSize, WholeSize, BlobTypes, StringTypes
    <2>2. /\ type \notin DOMAIN IntegerSize /\ type \notin DOMAIN FloatSize /\ type \notin StringTypes
      BY <1>20 DEF IntegerSize, FloatSize, BlobTypes, StringTypes
    <2>3. PICK is \in {"string", "blob"} : \A r : read(type, meta, r) = Counted(r, meta[1], is)
      <3>1. type = "BLOB" => \A r : read(type, meta, r) = Counted(r, meta[1], "string")
        BY <2>2 DEF read, BlobTypes
      <3>2. type # "BLOB" => \A r : read(type, meta, r) = Counted(r, meta[1], "blob")
        BY <1>20, <2>2 DEF read, BlobTypes
      <3> QED
        BY <3>1, <3>2
    <2> QED
      BY <1>7, <2>1, <2>3
  <1>21. CASE type = "VARCHAR"
    <2> DEFINE l == IF meta[2] > 0 THEN 2 ELSE 1
    <2>1. l \in 1..4 /\ HasLength(l, bytes)
      BY <1>21 DEF IsValue, IntegerSize, FloatSize, WholeSize, BlobTypes, StringTypes
    <2>2. /\ type \notin DOMAIN IntegerSize /\ type \notin DOMAIN FloatSize
          /\ type \notin BlobTypes /\ type \notin StringTypes
      BY <1>21 DEF IntegerSize, FloatSize, BlobTypes, StringTypes
    <2>3. \A r : read(type, meta, r) = Counted(r, l, "string")
      BY <1>21, <2>2 DEF read
    <2> HIDE DEF l
    <2> QED
      BY <1>7, <2>1, <2>3
  <1>22. CASE type \in StringTypes
    <2>1. /\ type \notin DOMAIN IntegerSize /\ type \notin DOMAIN FloatSize
          /\ type \notin BlobTypes /\ meta[1] # VAR_STRING
      BY <1>22 DEF MetadataFits, IntegerSize, FloatSize, BlobTypes, StringTypes
    <2>2. CASE meta[1] = ENUM
      <3>1. e - o = meta[2]
        BY <1>1, <1>22, <2>2 DEF IsValue, IntegerSize, FloatSize, WholeSize, BlobTypes, StringTypes
      <3>2. \A r : read(type, meta, r) = Fixed(r, meta[2], "string", Ahead(r, meta[2]))
        BY <1>22, <2>1, <2>2 DEF read, StringTypes
      <3>3. /\ read(type, meta, from) = Fixed(from, e - o, "string", Ahead(from, e - o))
            /\ read(type, meta, own) = Fixed(own, e - o, "string", Ahead(from, e - o))
        BY <1>3, <3>1, <3>2
      <3> QED
        BY <1>4, <3>3
    <2>3. CASE meta[1] # ENUM
      <3>1. \A r : read(type, meta, r) = Threw(r)
        BY <1>22, <2>1, <2>3 DEF read, StringTypes
      <3> QED
        BY <1>6, <1>22, <3>1
    <2> QED
      BY <2>2, <2>3
  <1> QED
    <2>1. \/ type \in {"LONGLONG", "INT24", "YEAR", "TIMESTAMP", "DATE", "TIME2", "DATETIME2",
                      "TIME", "DATETIME", "TIMESTAMP2", "VARCHAR"}
          \/ type \in DOMAIN IntegerSize \/ type \in DOMAIN FloatSize
          \/ type \in BlobTypes \union {"BLOB"} \/ type \in StringTypes
      BY DEF LoggedTypes, EventTypes, Unreadable, IntegerSize, FloatSize, BlobTypes, StringTypes
    <2> QED
      BY <1>8, <1>9, <1>10, <1>11, <1>12, <1>13, <1>14, <1>15, <1>16, <1>17, <1>18, <1>19,
         <1>20, <1>21, <1>22, <2>1

-----------------------------------------------------------------------------
\* Among the first columns, those that are there.
LEMMA PlaceOf ==
  ASSUME NEW e, NEW i \in Nat
  PROVE  /\ Place(e, 0) = 0 /\ Place(e, i) \in Nat
         /\ Place(e, i + 1) = Place(e, i) + (IF There(e, i + 1) THEN 1 ELSE 0)
  <1> DEFINE S(j) == {k \in 1..j : There(e, k)}
  <1>1. \A j \in Nat : IsFiniteSet(S(j)) /\ Cardinality(S(j)) \in Nat
    <2> SUFFICES ASSUME NEW j \in Nat
                 PROVE  IsFiniteSet(S(j)) /\ Cardinality(S(j)) \in Nat
      OBVIOUS
    <2>1. IsFiniteSet(1..j)
      BY FS_Interval
    <2>2. S(j) \subseteq 1..j
      OBVIOUS
    <2> HIDE DEF S
    <2>3. IsFiniteSet(S(j))
      BY <2>1, <2>2, FS_Subset
    <2> QED
      BY <2>3, FS_CardinalityType
  <1>2. S(0) = {}
    OBVIOUS
  <1>3. Cardinality(S(0)) = 0
    BY <1>2, FS_EmptySet
  <1>4. S(i + 1) = IF There(e, i + 1) THEN S(i) \union {i + 1} ELSE S(i)
    <2>1. 1..(i + 1) = 1..i \union {i + 1}
      OBVIOUS
    <2> QED
      BY <2>1
  <1>5. i + 1 \notin S(i)
    OBVIOUS
  <1>6. \A j : Place(e, j) = Cardinality(S(j))
    BY DEF Place
  <1> HIDE DEF S
  <1>7. Cardinality(S(i) \union {i + 1}) = Cardinality(S(i)) + 1
    BY <1>1, <1>5, FS_AddElement
  <1> QED
    BY <1>1, <1>3, <1>4, <1>6, <1>7

LEMMA PlaceWithin ==
  ASSUME NEW e, NEW i \in Nat, NEW k \in 1..i, There(e, k)
  PROVE  Place(e, k) \in 1..Place(e, i)
  <1> DEFINE S(j) == {l \in 1..j : There(e, l)}
  <1>1. IsFiniteSet(1..i)
    BY FS_Interval
  <1>2. S(i) \subseteq 1..i /\ S(k) \subseteq S(i) /\ k \in S(k)
    OBVIOUS
  <1>3. Place(e, i) = Cardinality(S(i)) /\ Place(e, k) = Cardinality(S(k))
    BY DEF Place
  <1> HIDE DEF S
  <1>4. IsFiniteSet(S(i)) /\ Cardinality(S(k)) <= Cardinality(S(i))
    BY <1>1, <1>2, FS_Subset
  <1>5. IsFiniteSet(S(k)) /\ S(k) # {}
    BY <1>2, <1>4, FS_Subset
  <1>6. Cardinality(S(k)) # 0
    BY <1>5, FS_EmptySet
  <1>7. k \in Nat /\ Place(e, i) \in Nat /\ Place(e, k) \in Nat
    <2>1. k \in Nat
      OBVIOUS
    <2> QED
      BY <2>1, PlaceOf
  <1> QED
    BY <1>3, <1>4, <1>6, <1>7

-----------------------------------------------------------------------------
IsSequence(s) == \E S : s \in Seq(S)

LEMMA Appended ==
  ASSUME NEW s, IsSequence(s), NEW v
  PROVE  /\ IsSequence(Append(s, v)) /\ Len(s) \in Nat
         /\ Len(Append(s, v)) = Len(s) + 1
         /\ \A k \in 1..Len(s) : Append(s, v)[k] = s[k]
         /\ Append(s, v)[Len(s) + 1] = v
  <1>1. PICK S : s \in Seq(S)
    BY DEF IsSequence
  <1> DEFINE T == S \union {v}
  <1>2. s \in Seq(T) /\ v \in T
    <2>1. S \subseteq T /\ v \in T
      OBVIOUS
    <2> HIDE DEF T
    <2> QED
      BY <1>1, <2>1
  <1> HIDE DEF T
  <1>3. /\ Append(s, v) \in Seq(T) /\ Len(Append(s, v)) = Len(s) + 1 /\ Len(s) \in Nat
        /\ \A k \in 1..Len(s) : Append(s, v)[k] = s[k]
        /\ Append(s, v)[Len(s) + 1] = v
    BY <1>2, AppendProperties
  <1> QED
    BY <1>3 DEF IsSequence

LEMMA EmptySequence == IsSequence(<<>>) /\ Len(<<>>) = 0
  <1>1. <<>> \in Seq({}) /\ Len(<<>>) = 0
    OBVIOUS
  <1> QED
    BY <1>1 DEF IsSequence

\* The cells of the columns up to one, and those up to the next.
LEMMA NoCells ==
  ASSUME NEW e, NEW m, NEW r
  PROVE  HasCells(<<>>, e, m, r, 0)
  <1>1. Place(e, 0) = 0
    BY PlaceOf
  <1> QED
    BY <1>1, EmptySequence DEF HasCells

LEMMA CellsPast ==
  ASSUME NEW e, NEW m, NEW r, NEW i \in Nat, NEW values,
         HasCells(values, e, m, r, i), ~There(e, i + 1)
  PROVE  HasCells(values, e, m, r, i + 1)
  <1>1. Place(e, i + 1) = Place(e, i)
    <2>1. Place(e, i) \in Nat /\ Place(e, i + 1) = Place(e, i) + 0
      BY PlaceOf
    <2> QED
      BY <2>1
  <1>2. 1..(i + 1) = 1..i \union {i + 1}
    OBVIOUS
  <1> QED
    BY <1>1, <1>2 DEF HasCells

LEMMA CellsAppended ==
  ASSUME NEW e, NEW m, NEW r, NEW i \in Nat, NEW values, IsSequence(values), NEW v,
         HasCells(values, e, m, r, i), There(e, i + 1), IsCell(v, e, m, r, i + 1)
  PROVE  HasCells(Append(values, v), e, m, r, i + 1)
  <1>1. Place(e, i) \in Nat /\ Place(e, i + 1) = Place(e, i) + 1
    BY PlaceOf
  <1>2. Len(values) = Place(e, i)
    BY DEF HasCells
  <1>3. ASSUME NEW k \in 1..(i + 1), There(e, k)
        PROVE  IsCell(Append(values, v)[Place(e, k)], e, m, r, k)
    <2>1. CASE k = i + 1
      <3>1. Append(values, v)[Place(e, k)] = v
        BY <1>1, <1>2, <2>1, Appended
      <3> QED
        BY <2>1, <3>1
    <2>2. CASE k # i + 1
      <3>1. k \in 1..i
        BY <2>2
      <3>2. Place(e, k) \in 1..Len(values)
        BY <1>2, <1>3, <3>1, PlaceWithin
      <3>3. Append(values, v)[Place(e, k)] = values[Place(e, k)]
        BY <3>2, Appended
      <3> QED
        BY <1>3, <3>1, <3>3 DEF HasCells
    <2> QED
      BY <2>1, <2>2
  <1>4. Len(Append(values, v)) = Place(e, i + 1)
    BY <1>1, <1>2, Appended
  <1> QED
    BY <1>3, <1>4 DEF HasCells

-----------------------------------------------------------------------------
DataAt(e, r, i) == [rawdata |-> e.row_data, offset |-> e.begins[r][i]]

\* Rows of an event that Row can make sense of, and the map of their columns.
Rightly(e, m) == MapStarts(m) /\ RowsWritten(e, m) /\ RightlyRead(e, m)

\* What the server wrote of a row.
LEMMA RowWritten ==
  ASSUME NEW e, NEW m, Rightly(e, m), NEW r \in 1..Len(e.cells)
  PROVE  /\ e.row_data \in Seq(Byte) /\ Len(e.row_data) \in Nat
         /\ e.begins[r][0] \in Nat /\ (Len(m.types) + 7) \div 8 \in Nat \ {0}
         /\ e.begins[r][1] = e.begins[r][0] + (Len(m.types) + 7) \div 8
         /\ e.begins[r][1] <= Len(e.row_data)
         /\ e.begins[r + 1][0] = e.begins[r][Len(m.types) + 1]
  <1>1. /\ e.row_data \in Seq(Byte) /\ Len(m.types) \in Nat \ {0} /\ Len(e.cells) \in Nat
        /\ \A q \in 1..(Len(e.cells) + 1), i \in 0..(Len(m.types) + 1) :
             e.begins[q][i] \in 0..Len(e.row_data)
    BY DEF Rightly, MapStarts, RowsWritten
  <1>2. /\ e.begins[r][1] = e.begins[r][0] + (Place(e, Len(m.types)) + 7) \div 8
        /\ e.begins[r + 1][0] = e.begins[r][Len(m.types) + 1]
    BY DEF Rightly, RowsWritten
  <1>3. (Place(e, Len(m.types)) + 7) \div 8 = (Len(m.types) + 7) \div 8
    BY DEF Rightly, RightlyRead
  <1>4. Len(e.row_data) \in Nat
    BY <1>1
  <1>5. e.begins[r][0] \in 0..Len(e.row_data) /\ e.begins[r][1] \in 0..Len(e.row_data)
    <2>1. r \in 1..(Len(e.cells) + 1) /\ 0 \in 0..(Len(m.types) + 1) /\ 1 \in 0..(Len(m.types) + 1)
      BY <1>1
    <2> QED
      BY <1>1, <2>1
  <1>6. (Len(m.types) + 7) \div 8 \in Nat \ {0}
    <2>1. \A n \in Nat \ {0} : (n + 7) \div 8 \in Nat \ {0}
      OBVIOUS
    <2> QED
      BY <1>1, <2>1
  <1>7. e.begins[r][0] \in Nat /\ e.begins[r][1] <= Len(e.row_data)
    BY <1>4, <1>5
  <1>8. e.begins[r][1] = e.begins[r][0] + (Len(m.types) + 7) \div 8
    BY <1>2, <1>3, Zenon
  <1> QED
    BY <1>1, <1>2, <1>4, <1>6, <1>7, <1>8, Zenon

\* What the server wrote of a column in a row.
LEMMA ColumnWritten ==
  ASSUME NEW e, NEW m, Rightly(e, m), NEW r \in 1..Len(e.cells), NEW i \in 1..Len(m.types)
  PROVE  /\ e.begins[r][i] \in Nat /\ e.begins[r][i + 1] \in e.begins[r][i]..Len(e.row_data)
         /\ CellWritten(e, m, r, i)
  <1>1. /\ Len(m.types) \in Nat /\ Len(e.cells) \in Nat /\ e.row_data \in Seq(Byte)
        /\ \A q \in 1..(Len(e.cells) + 1), j \in 0..(Len(m.types) + 1) :
             e.begins[q][j] \in 0..Len(e.row_data)
    BY DEF Rightly, MapStarts, RowsWritten
  <1>2. CellWritten(e, m, r, i)
    BY DEF Rightly, RowsWritten
  <1>3. e.begins[r][i] \in 0..Len(e.row_data) /\ e.begins[r][i + 1] \in 0..Len(e.row_data)
    <2>1. /\ r \in 1..(Len(e.cells) + 1)
          /\ i \in 0..(Len(m.types) + 1) /\ i + 1 \in 0..(Len(m.types) + 1)
      BY <1>1
    <2> QED
      BY <1>1, <2>1
  <1>4. e.begins[r][i] <= e.begins[r][i + 1] /\ Len(e.row_data) \in Nat
    BY <1>1, <1>2 DEF CellWritten
  <1> QED
    BY <1>2, <1>3, <1>4

\* A value in its row is read as its own bytes are, up to the next column.
LEMMA ValueRead ==
  ASSUME NEW e, NEW m, Rightly(e, m), NEW r \in 1..Len(e.cells), NEW i \in 1..Len(m.types),
         There(e, i), e.cells[r][i] # Null, m.types[i] \notin Unreadable,
         NEW from, from = DataAt(e, r, i)
  PROVE  /\ Agrees(read(m.types[i], MetadataOf(m, i), from), OwnRead(e, m, r, i),
                   e.row_data, e.begins[r][i + 1])
         /\ read(m.types[i], MetadataOf(m, i), from).thrown
              => m.types[i] \in {"TIME", "DATETIME", "TIMESTAMP2"} \union StringTypes
  <1> DEFINE s == e.row_data
             type == m.types[i]
             meta == MetadataOf(m, i)
             bytes == Part(e, r, i)
             own == Reader(bytes)
             o == e.begins[r][i]
             end == e.begins[r][i + 1]
  <1>1. s \in Seq(Byte) /\ o \in Nat /\ end \in o..Len(s)
    BY RowWritten, ColumnWritten
  <1>2. bytes = Slice(s, o, end) /\ from = [rawdata |-> s, offset |-> o]
    BY DEF Part, Slice, DataAt
  <1>3. type \in LoggedTypes \ Unreadable /\ MetadataFits(type, meta)
    BY DEF Rightly, MapStarts
  <1>4. IsValue(type, meta, bytes)
    BY ColumnWritten DEF CellWritten
  <1>5. type \in DOMAIN WholeSize => meta[1] = 0
    BY DEF Rightly, RightlyRead
  <1>6. OwnRead(e, m, r, i) = read(type, meta, own)
    BY DEF OwnRead
  <1> HIDE DEF s, type, meta, bytes, o, end
  <1>7. /\ Agrees(read(type, meta, from), read(type, meta, own), s, end)
        /\ read(type, meta, from).thrown
             => type \in {"TIME", "DATETIME", "TIMESTAMP2"} \union StringTypes
    BY <1>1, <1>2, <1>3, <1>4, <1>5, ReadAgrees
  <1> QED
    BY <1>6, <1>7 DEF s, type, meta, end

-----------------------------------------------------------------------------
Maps == {stream[i] : i \in {k \in 1..at : IsMap(stream[k])}}

\* The map kept for an id is the last one that came with it.
KeptMaps ==
  \A id \in DOMAIN tableMaps :
    \E j \in 1..at :
      /\ IsMap(stream[j]) /\ stream[j].table_id = id /\ tableMaps[id] = stream[j]
      /\ \A k \in (j + 1)..at : IsMap(stream[k]) => stream[k].table_id # id

\* The one kept last is the last one.
LastMap ==
  \E j \in 1..at :
    IsMap(stream[j]) /\ last = stream[j] /\ \A k \in (j + 1)..at : ~IsMap(stream[k])

\* The map in use, if it has the id of the rows, is the map of their table.
UsedMap ==
  /\ tm \in Maps
  /\ keeps = "by_id" => tm.table_id = Event.table_id
  /\ tm.table_id = Event.table_id => tm.table = Event.table /\ RowsWritten(Event, tm)

\* In a row the iterator over the bitmap and the reader of the metadata stand at the
\* same column.
InRow ==
  /\ c \in 1..(column_count + 1)
  /\ colIter = c - 1
  /\ NothingSkipped(Event, tm) => md = [rawdata |-> tm.metadata, offset |-> tm.starts[c]]

DecodeInv ==
  /\ stream \in Streams /\ keeps \in {"by_id", "last"}
  /\ at \in 0..Len(stream)
  /\ DOMAIN tableMaps = {stream[k].table_id : k \in {k \in 1..at : IsMap(stream[k])}}
  /\ KeptMaps
  /\ last # NoMap => LastMap
  /\ dstep \in {"next", "more", "column", "decoded", "thrown"}
  /\ dstep \in {"more", "column", "decoded"} =>
       /\ at \in 1..Len(stream) /\ ~IsMap(Event)
       /\ UsedMap
  /\ dstep = "column" => InRow

LEMMA InitDecodeInv == DecodeInit => DecodeInv
  <1> SUFFICES ASSUME DecodeInit PROVE DecodeInv
    OBVIOUS
  <1>1. stream \in Streams /\ keeps \in {"by_id", "last"} /\ at = 0 /\ tableMaps = <<>> /\ last = NoMap /\ dstep = "next"
    BY DEF DecodeInit, DecodeStart
  <1>2. Len(stream) \in Nat
    BY <1>1, StreamAssumption
  <1>3. DOMAIN tableMaps = {}
    BY <1>1
  <1> QED
    BY <1>1, <1>2, <1>3 DEF DecodeInv, KeptMaps

\* What holds of the events whatever step is taken.
LEMMA EventFacts ==
  ASSUME DecodeInv
  PROVE  /\ Len(stream) \in Nat /\ at \in Nat
         /\ \A e \in Maps : MapStarts(e)
         /\ at < Len(stream) => Maps \subseteq {stream[i] : i \in {k \in 1..(at + 1) : IsMap(stream[k])}}
  BY StreamAssumption DEF DecodeInv, Maps

LEMMA TableMapStep ==
  ASSUME DecodeInv, TableMap
  PROVE  DecodeInv'
  <1> DEFINE e == stream[at + 1]
  <1>1. /\ stream \in Streams /\ at \in Nat /\ at + 1 \in 1..Len(stream) /\ Len(stream) \in Nat
        /\ IsMap(e) /\ dstep = "next"
    BY EventFacts DEF DecodeInv, TableMap
  <1>2. /\ stream' = stream /\ keeps' = keeps /\ at' = at + 1 /\ dstep' = "next" /\ last' = e
        /\ DOMAIN tableMaps' = DOMAIN tableMaps \union {e.table_id}
        /\ tableMaps'[e.table_id] = e
        /\ \A id \in DOMAIN tableMaps : id # e.table_id => tableMaps'[id] = tableMaps[id]
    BY <1>1 DEF TableMap
  <1>3. {k \in 1..(at + 1) : IsMap(stream[k])} = {k \in 1..at : IsMap(stream[k])} \union {at + 1}
    BY <1>1
  <1>4. DOMAIN tableMaps' = {stream[k].table_id : k \in {k \in 1..(at + 1) : IsMap(stream[k])}}
    BY <1>2, <1>3 DEF DecodeInv
  <1>5. KeptMaps'
    <2> SUFFICES ASSUME NEW id \in DOMAIN tableMaps'
                 PROVE  \E j \in 1..(at + 1) :
                          /\ IsMap(stream[j]) /\ stream[j].table_id = id
                          /\ tableMaps'[id] = stream[j]
                          /\ \A k \in (j + 1)..(at + 1) : IsMap(stream[k]) => stream[k].table_id # id
      BY <1>2 DEF KeptMaps
    <2>1. CASE id = e.table_id
      <3>1. (at + 1 + 1)..(at + 1) = {}
        BY <1>1
      <3> QED
        BY <1>1, <1>2, <2>1, <3>1
    <2>2. CASE id # e.table_id
      <3>1. PICK j \in 1..at :
              /\ IsMap(stream[j]) /\ stream[j].table_id = id /\ tableMaps[id] = stream[j]
              /\ \A k \in (j + 1)..at : IsMap(stream[k]) => stream[k].table_id # id
        BY <1>2, <2>2 DEF DecodeInv, KeptMaps
      <3>2. (j + 1)..(at + 1) = ((j + 1)..at) \union {at + 1}
        BY <1>1
      <3> QED
        BY <1>1, <1>2, <2>2, <3>1, <3>2
    <2> QED
      BY <2>1, <2>2
  <1>6. LastMap'
    <2>1. /\ at + 1 \in 1..at' /\ (at + 1 + 1)..at' = {}
          /\ IsMap(stream'[at + 1]) /\ last' = stream'[at + 1]
      BY <1>1, <1>2
    <2> QED
      BY <2>1 DEF LastMap
  <1> QED
    BY <1>1, <1>2, <1>4, <1>5, <1>6 DEF DecodeInv

LEMMA RowsEventStep ==
  ASSUME DecodeInv, RowsEvent
  PROVE  DecodeInv'
  <1> DEFINE e == stream[at + 1]
  <1>1. /\ stream \in Streams /\ at \in Nat /\ at + 1 \in 1..Len(stream) /\ Len(stream) \in Nat
        /\ ~IsMap(e)
    BY EventFacts DEF DecodeInv, RowsEvent
  <1>2. /\ stream' = stream /\ keeps' = keeps /\ at' = at + 1 /\ dstep' = "more"
        /\ keeps \in {"by_id", "last"}
        /\ tableMaps' = tableMaps /\ last' = last /\ Event' = e
        /\ keeps = "by_id" => e.table_id \in DOMAIN tableMaps /\ tm' = tableMaps[e.table_id]
        /\ keeps # "by_id" => tm' = last
        /\ keeps = "last" => last # NoMap
    BY DEF DecodeInv, RowsEvent, keeping, Event
  <1>3. {k \in 1..(at + 1) : IsMap(stream[k])} = {k \in 1..at : IsMap(stream[k])}
    BY <1>1
  <1>4. Maps' = Maps
    BY <1>2, <1>3 DEF Maps
  <1>5. KeptMaps'
    <2> SUFFICES ASSUME NEW id \in DOMAIN tableMaps
                 PROVE  \E j \in 1..(at + 1) :
                          /\ IsMap(stream[j]) /\ stream[j].table_id = id
                          /\ tableMaps[id] = stream[j]
                          /\ \A k \in (j + 1)..(at + 1) : IsMap(stream[k]) => stream[k].table_id # id
      BY <1>2 DEF KeptMaps
    <2>1. PICK j \in 1..at :
            /\ IsMap(stream[j]) /\ stream[j].table_id = id /\ tableMaps[id] = stream[j]
            /\ \A k \in (j + 1)..at : IsMap(stream[k]) => stream[k].table_id # id
      BY DEF DecodeInv, KeptMaps
    <2>2. (j + 1)..(at + 1) = ((j + 1)..at) \union {at + 1}
      BY <1>1
    <2> QED
      BY <1>1, <2>1, <2>2
  <1>6. last # NoMap => LastMap'
    <2>1. ASSUME NEW j \in 1..at
          PROVE  (j + 1)..(at + 1) = ((j + 1)..at) \union {at + 1}
      BY <1>1
    <2> QED
      BY <1>1, <1>2, <2>1 DEF DecodeInv, LastMap
  <1>7. PICK i \in 1..at :
          MapFor(stream, at + 1, i) /\ stream[i].table = e.table /\ RowsWritten(e, stream[i])
    BY <1>1, StreamAssumption
  <1>8. PICK j \in 1..at :
          /\ IsMap(stream[j]) /\ tm' = stream[j]
          /\ keeps = "by_id" => stream[j].table_id = e.table_id
          /\ \A k \in (j + 1)..at : IsMap(stream[k]) => stream[k].table_id # stream[j].table_id
    <2>1. CASE keeps = "by_id"
      <3>1. e.table_id \in DOMAIN tableMaps /\ KeptMaps /\ tm' = tableMaps[e.table_id]
        BY <1>2, <2>1 DEF DecodeInv
      <3> QED
        BY <3>1 DEF KeptMaps
    <2>2. CASE keeps # "by_id"
      <3>1. LastMap /\ tm' = last
        BY <1>2, <2>2 DEF DecodeInv
      <3> QED
        BY <2>2, <3>1 DEF LastMap
    <2> QED
      BY <2>1, <2>2
  <1>9. stream[j].table_id = e.table_id => i = j
    <2>1. IsMap(stream[i]) /\ stream[i].table_id = e.table_id
      BY <1>7 DEF MapFor
    <2>2. stream[j].table_id = e.table_id => ~(j < i)
      BY <1>1, <1>8, <2>1
    <2>3. stream[j].table_id = e.table_id => ~(i < j)
      BY <1>1, <1>7, <1>8 DEF MapFor
    <2> QED
      BY <1>1, <2>2, <2>3
  <1>10. UsedMap'
    <2>1. tm' \in Maps
      BY <1>8 DEF Maps
    <2> QED
      BY <1>2, <1>4, <1>7, <1>8, <1>9, <2>1 DEF UsedMap
  <1> QED
    BY <1>1, <1>2, <1>3, <1>4, <1>5, <1>6, <1>10 DEF DecodeInv

\* The events, the maps and the iteration over rows stay as they are in a step about
\* one column.
LEMMA InsideRowStep ==
  ASSUME DecodeInv, UNCHANGED <<keeping, at, tm>>,
         dstep \in {"more", "column", "decoded"},
         dstep' \in {"next", "more", "column", "decoded", "thrown"},
         dstep' = "column" => InRow'
  PROVE  DecodeInv'
  <1>1. stream' = stream /\ keeps' = keeps /\ tableMaps' = tableMaps /\ last' = last
        /\ at' = at /\ tm' = tm
    BY DEF keeping
  <1>2. /\ Event' = Event /\ Maps' = Maps /\ (KeptMaps <=> KeptMaps')
        /\ (LastMap <=> LastMap') /\ (UsedMap <=> UsedMap')
    BY <1>1 DEF Event, Maps, KeptMaps, LastMap, UsedMap
  <1> QED
    BY <1>1, <1>2 DEF DecodeInv

LEMMA MapInUse ==
  ASSUME DecodeInv, dstep \in {"more", "column", "decoded"}
  PROVE  /\ MapStarts(tm) /\ column_count \in Nat
         /\ DOMAIN tm.types = 1..column_count
  BY EventFacts DEF DecodeInv, UsedMap, MapStarts, column_count

LEMMA NextRowStep ==
  ASSUME DecodeInv, NextRow
  PROVE  DecodeInv'
  <1>1. /\ dstep = "more" /\ dstep' = "column" /\ UNCHANGED <<keeping, at, tm>>
        /\ md' = [rawdata |-> tm.metadata, offset |-> 0] /\ colIter' = 0 /\ c' = 1
    BY DEF NextRow, Reader
  <1>2. MapStarts(tm) /\ column_count \in Nat
    BY <1>1, MapInUse
  <1>3. InRow'
    BY <1>1, <1>2 DEF InRow, column_count, MapStarts
  <1> QED
    BY <1>1, <1>3, InsideRowStep

\* One column further with the reader of the metadata where the server began the next.
LEMMA ColumnStep ==
  ASSUME DecodeInv, InColumn, UNCHANGED <<keeping, at, tm, dstep>>,
         colIter' = colIter + 1, c' = c + 1,
         NothingSkipped(Event, tm) => md' = discard(md, MetadataSize(tm.types[c]))
  PROVE  DecodeInv'
  <1>1. /\ dstep = "column" /\ InRow /\ column_count \in Nat
        /\ MapStarts(tm) /\ c \in 1..column_count /\ Len(tm.types) = column_count
    BY MapInUse DEF DecodeInv, InColumn, InRow, column_count
  <1>2. Event' = Event /\ tm' = tm /\ column_count' = column_count
    BY DEF column_count, Event, keeping
  <1>3. NothingSkipped(Event, tm) => md' = [rawdata |-> tm.metadata, offset |-> tm.starts[c + 1]]
    <2> SUFFICES ASSUME NothingSkipped(Event, tm)
                 PROVE  md' = [rawdata |-> tm.metadata, offset |-> tm.starts[c + 1]]
      OBVIOUS
    <2>1. md = [rawdata |-> tm.metadata, offset |-> tm.starts[c]]
      BY <1>1 DEF InRow
    <2>2. tm.starts[c + 1] = tm.starts[c] + MetadataSize(tm.types[c])
      BY <1>1 DEF MapStarts
    <2> QED
      BY <2>1, <2>2 DEF discard
  <1>4. InRow'
    BY <1>1, <1>2, <1>3 DEF InRow
  <1> QED
    BY <1>1, <1>4, InsideRowStep

LEMMA AbsentColumnStep ==
  ASSUME DecodeInv, AbsentColumn
  PROVE  DecodeInv'
  <1>1. /\ InColumn /\ UNCHANGED <<keeping, at, tm, dstep>>
        /\ colIter' = colIter + 1 /\ c' = c + 1
    BY DEF AbsentColumn
  <1>2. NothingSkipped(Event, tm) => md' = discard(md, MetadataSize(tm.types[c]))
    <2> SUFFICES ASSUME NothingSkipped(Event, tm)
                 PROVE  md' = discard(md, MetadataSize(tm.types[c]))
      OBVIOUS
    <2>1. InRow /\ c \in 1..column_count /\ MapStarts(tm) /\ column_count \in Nat
      BY <1>1, MapInUse DEF InColumn, DecodeInv, InRow
    <2>2. ~There(Event, c)
      BY <2>1 DEF AbsentColumn, Present, There, InRow
    <2>3. MetadataSize(tm.types[c]) = 0
      BY <2>1, <2>2 DEF NothingSkipped, column_count
    <2>4. md = [rawdata |-> tm.metadata, offset |-> tm.starts[c]] /\ tm.starts[c] \in Nat
      BY <2>1 DEF InRow, MapStarts, column_count
    <2>5. discard(md, 0) = [rawdata |-> tm.metadata, offset |-> tm.starts[c] + 0]
      BY <2>4, DiscardIs
    <2>6. md' = md
      BY DEF AbsentColumn
    <2> QED
      BY <2>3, <2>4, <2>5, <2>6
  <1> QED
    BY <1>1, <1>2, ColumnStep

LEMMA TypeLogged ==
  ASSUME DecodeInv, InColumn
  PROVE  tm.types[c] \in LoggedTypes
  <1>1. MapStarts(tm) /\ column_count \in Nat /\ c \in 1..column_count
    BY MapInUse DEF InColumn, DecodeInv, InRow
  <1> QED
    BY <1>1 DEF MapStarts, column_count

LEMMA NullColumnStep ==
  ASSUME DecodeInv, NullColumn
  PROVE  DecodeInv'
  <1>1. /\ InColumn /\ UNCHANGED <<keeping, at, tm, dstep>>
        /\ colIter' = colIter + 1 /\ c' = c + 1
        /\ md' = discard(md, MetadataSkipped(tm.types[c]))
    BY DEF NullColumn
  <1>2. MetadataSkipped(tm.types[c]) = MetadataSize(tm.types[c])
    BY <1>1, TypeLogged, SkippedIsWritten
  <1> QED
    BY <1>1, <1>2, ColumnStep

LEMMA ValueColumnStep ==
  ASSUME DecodeInv, ValueColumn
  PROVE  DecodeInv'
  <1>1. /\ InColumn /\ UNCHANGED <<keeping, at, tm, dstep>>
        /\ colIter' = colIter + 1 /\ c' = c + 1
        /\ md' = discard(md, MetadataRead(tm.types[c], md))
        /\ tm.types[c] \notin Unreadable
    BY DEF ValueColumn, Readable
  <1>2. tm.types[c] \in LoggedTypes \ {"BIT", "NEWDECIMAL"}
    BY <1>1, TypeLogged DEF Unreadable
  <1>3. MetadataRead(tm.types[c], md) = MetadataSize(tm.types[c])
    BY <1>2, ReadIsWritten
  <1> QED
    BY <1>1, <1>3, ColumnStep

\* What every reader does: when the rows are decoded its handler is done with them, or
\* throws on its own account.
GivenUp ==
  dstep = "decoded" /\ dstep' \in {"next", "thrown"} /\ UNCHANGED <<keeping, at, decoding>>

ReaderSpec == DecodeInit /\ [][Decode \/ GivenUp]_decodeVars

LEMMA NextDecodeInv == DecodeInv /\ [Decode \/ GivenUp]_decodeVars => DecodeInv'
  <1> SUFFICES ASSUME DecodeInv, [Decode \/ GivenUp]_decodeVars
               PROVE  DecodeInv'
    OBVIOUS
  <1>1. CASE TableMap
    BY <1>1, TableMapStep
  <1>2. CASE RowsEvent
    BY <1>2, RowsEventStep
  <1>3. CASE NextRow
    BY <1>3, NextRowStep
  <1>4. CASE AbsentColumn
    BY <1>4, AbsentColumnStep
  <1>5. CASE NullColumn
    BY <1>5, NullColumnStep
  <1>6. CASE ValueColumn
    BY <1>6, ValueColumnStep
  <1>7. CASE EndRow \/ AllRows \/ DecodeFails \/ GivenUp
    <2>1. /\ UNCHANGED <<keeping, at, tm>>
          /\ dstep \in {"more", "column", "decoded"}
          /\ dstep' \in {"next", "more", "decoded", "thrown"}
      BY <1>7 DEF EndRow, AllRows, DecodeFails, GivenUp, decoding, InColumn
    <2> QED
      BY <2>1, InsideRowStep
  <1>8. CASE UNCHANGED decodeVars
    <2>1. UNCHANGED <<keeping, at, tm, dstep, md, colIter, c>>
      BY <1>8 DEF decodeVars, decoding
    <2>2. /\ stream' = stream /\ keeps' = keeps /\ tableMaps' = tableMaps /\ last' = last
          /\ at' = at /\ tm' = tm /\ dstep' = dstep
      BY <2>1 DEF keeping
    <2>3. /\ Event' = Event /\ Maps' = Maps /\ (KeptMaps <=> KeptMaps') /\ (InRow <=> InRow')
          /\ (LastMap <=> LastMap') /\ (UsedMap <=> UsedMap')
      BY <2>1, <2>2 DEF Event, Maps, KeptMaps, InRow, LastMap, UsedMap, column_count
    <2> QED
      BY <2>2, <2>3 DEF DecodeInv
  <1> QED
    BY <1>1, <1>2, <1>3, <1>4, <1>5, <1>6, <1>7, <1>8 DEF Decode

-----------------------------------------------------------------------------
\* In a row the null flags are the row's own, the iterator over them is where the column
\* is among those that are there, and the reader of the data where it begins.
InReadRow ==
  /\ Len(rows) < Len(Event.cells)
  /\ data = DataAt(Event, Len(rows) + 1, c)
  /\ nulls = Part(Event, Len(rows) + 1, 0) /\ nullIter = Place(Event, c - 1)
  /\ IsSequence(row) /\ HasCells(row, Event, tm, Len(rows) + 1, c - 1)

\* The rows decoded so far are the first of the event, and the reader is behind them.
BehindRows ==
  /\ IsSequence(rows) /\ Len(rows) <= Len(Event.cells)
  /\ \A r \in 1..Len(rows) : HasCells(rows[r], Event, tm, r, column_count)
  /\ dstep \in {"more", "decoded"} => data = DataAt(Event, Len(rows) + 1, 0)
  /\ dstep = "decoded" => Len(rows) = Len(Event.cells)
  /\ dstep = "column" => InReadRow

ReadInv == InRows => BehindRows

LEMMA RightlyWritten ==
  ASSUME DecodeInv, InRows
  PROVE  /\ Rightly(Event, tm) /\ column_count = Len(tm.types) /\ column_count \in Nat \ {0}
         /\ Len(Event.cells) \in Nat
  <1>1. dstep \in {"more", "column", "decoded"} /\ RightlyRead(Event, tm) /\ UsedMap
    BY DEF DecodeInv, InRows
  <1>2. tm \in Maps /\ RowsWritten(Event, tm)
    BY <1>1 DEF UsedMap, RightlyRead
  <1>3. MapStarts(tm)
    BY <1>2, EventFacts
  <1> QED
    BY <1>1, <1>2, <1>3 DEF Rightly, MapStarts, RowsWritten, column_count

\* The reader before a row: there is one more as long as the server wrote one more.
LEMMA BeforeRow ==
  ASSUME DecodeInv, ReadInv, InRows, dstep = "more"
  PROVE  /\ more(data) <=> Len(rows) < Len(Event.cells)
         /\ more(data) => Holds(data, flagBytes)
         /\ more(data) => Ahead(data, flagBytes) = Part(Event, Len(rows) + 1, 0)
         /\ more(data) => discard(data, flagBytes) = DataAt(Event, Len(rows) + 1, 1)
  <1>1. /\ Rightly(Event, tm) /\ flagBytes = (Len(tm.types) + 7) \div 8
        /\ Len(Event.cells) \in Nat
    BY RightlyWritten DEF flagBytes
  <1>2. /\ IsSequence(rows) /\ Len(rows) <= Len(Event.cells) /\ Len(rows) \in Nat
        /\ data = [rawdata |-> Event.row_data, offset |-> Event.begins[Len(rows) + 1][0]]
    BY Appended DEF ReadInv, BehindRows, DataAt
  <1>3. CASE Len(rows) < Len(Event.cells)
    <2> DEFINE r == Len(rows) + 1
    <2>1. r \in 1..Len(Event.cells)
      BY <1>1, <1>2, <1>3
    <2> HIDE DEF r
    <2>2. /\ Len(Event.row_data) \in Nat /\ Event.begins[r][0] \in Nat /\ flagBytes \in Nat \ {0}
          /\ Event.begins[r][1] = Event.begins[r][0] + flagBytes
          /\ Event.begins[r][1] <= Len(Event.row_data)
      BY <1>1, <2>1, RowWritten
    <2>3. data = [rawdata |-> Event.row_data, offset |-> Event.begins[r][0]]
      BY <1>2 DEF r
    <2>4. data.rawdata = Event.row_data /\ data.offset = Event.begins[r][0]
      BY <2>3
    <2>5. more(data) /\ Holds(data, flagBytes)
      BY <2>2, <2>4 DEF more, Holds
    <2>6. Ahead(data, flagBytes) = Part(Event, r, 0)
      <3>1. Ahead(data, flagBytes)
              = Slice(Event.row_data, Event.begins[r][0], Event.begins[r][0] + flagBytes)
        BY <2>3, AheadIs
      <3>2. Part(Event, r, 0) = Slice(Event.row_data, Event.begins[r][0], Event.begins[r][1])
        BY DEF Part, Slice
      <3> QED
        BY <2>2, <3>1, <3>2
    <2>7. discard(data, flagBytes) = DataAt(Event, r, 1)
      BY <2>2, <2>3, DiscardIs DEF DataAt
    <2> QED
      BY <1>3, <2>5, <2>6, <2>7 DEF r
  <1>4. CASE Len(rows) >= Len(Event.cells)
    <2>1. Len(rows) = Len(Event.cells)
      BY <1>1, <1>2, <1>4
    <2>2. Event.begins[Len(Event.cells) + 1][0] = Len(Event.row_data)
      BY <1>1 DEF Rightly, RowsWritten
    <2>3. data.offset = Len(data.rawdata) /\ data.offset \in Nat
      <3>1. Event.row_data \in Seq(Byte)
        BY <1>1 DEF Rightly, RowsWritten
      <3> QED
        BY <1>2, <2>1, <2>2, <3>1
    <2>4. ~more(data)
      BY <2>3 DEF more
    <2>5. ~(Len(rows) < Len(Event.cells))
      BY <1>1, <1>2, <1>4
    <2> QED
      BY <2>4, <2>5, Zenon
  <1>5. Len(rows) < Len(Event.cells) \/ Len(rows) >= Len(Event.cells)
    BY <1>1, <1>2
  <1> QED
    BY <1>3, <1>4, <1>5, Zenon

\* The reader at a column: the bit and the flag it looks at are the column's own.
LEMMA AtColumn ==
  ASSUME DecodeInv, ReadInv, InRows, InColumn
  PROVE  /\ Rightly(Event, tm) /\ InReadRow
         /\ Len(rows) + 1 \in 1..Len(Event.cells) /\ c \in 1..Len(tm.types)
         /\ Present <=> There(Event, c)
         /\ There(Event, c) => (IsNull <=> Event.cells[Len(rows) + 1][c] = Null)
         /\ ~There(Event, c) \/ Event.cells[Len(rows) + 1][c] = Null
              => DataAt(Event, Len(rows) + 1, c + 1) = DataAt(Event, Len(rows) + 1, c)
  <1> DEFINE r == Len(rows) + 1
  <1>1. /\ Rightly(Event, tm) /\ column_count = Len(tm.types) /\ Len(tm.types) \in Nat
        /\ Len(Event.cells) \in Nat
    BY RightlyWritten
  <1>2. /\ dstep = "column" /\ InRow /\ InReadRow /\ Len(rows) \in Nat
        /\ Len(rows) < Len(Event.cells) /\ c <= column_count
    BY Appended DEF DecodeInv, ReadInv, BehindRows, InColumn, InReadRow
  <1>3. c \in 1..Len(tm.types) /\ colIter = c - 1 /\ r \in 1..Len(Event.cells)
    BY <1>1, <1>2 DEF InRow
  <1>4. Present <=> There(Event, c)
    BY <1>3 DEF Present, There
  <1>5. ASSUME There(Event, c)
        PROVE  IsNull <=> Event.cells[r][c] = Null
    <2>1. Place(Event, c) - 1 = Place(Event, c - 1)
      <3>1. c - 1 \in Nat /\ (c - 1) + 1 = c
        BY <1>3
      <3>2. Place(Event, c - 1) \in Nat /\ Place(Event, c) = Place(Event, c - 1) + 1
        BY <1>5, <3>1, PlaceOf
      <3> QED
        BY <3>2
    <2>2. nulls = Part(Event, r, 0) /\ nullIter = Place(Event, c) - 1
      BY <1>2, <2>1 DEF InReadRow
    <2>3. CellWritten(Event, tm, r, c)
      BY <1>1, <1>3, ColumnWritten
    <2> QED
      BY <1>5, <2>2, <2>3 DEF IsNull, CellWritten
  <1>6. ASSUME ~There(Event, c) \/ Event.cells[r][c] = Null
        PROVE  DataAt(Event, r, c + 1) = DataAt(Event, r, c)
    <2>1. CellWritten(Event, tm, r, c)
      BY <1>1, <1>3, ColumnWritten
    <2> QED
      BY <1>6, <2>1 DEF CellWritten, DataAt
  <1> QED
    BY <1>1, <1>2, <1>3, <1>4, <1>5, <1>6

\* The reader at a column that holds a value.
LEMMA AtValue ==
  ASSUME DecodeInv, ReadInv, InRows, InColumn, There(Event, c),
         Event.cells[Len(rows) + 1][c] # Null, tm.types[c] \notin Unreadable
  PROVE  /\ Readable
         /\ Agrees(read(tm.types[c], ColumnMetadata, data), OwnRead(Event, tm, Len(rows) + 1, c),
                   Event.row_data, Event.begins[Len(rows) + 1][c + 1])
         /\ read(tm.types[c], ColumnMetadata, data).thrown
              => tm.types[c] \in {"TIME", "DATETIME", "TIMESTAMP2"} \union StringTypes
  <1>1. /\ Rightly(Event, tm) /\ Len(rows) + 1 \in 1..Len(Event.cells) /\ c \in 1..Len(tm.types)
        /\ data = DataAt(Event, Len(rows) + 1, c)
    BY AtColumn DEF InReadRow
  <1>2. MetadataRead(tm.types[c], md) = MetadataSize(tm.types[c])
    <2>1. tm.types[c] \in LoggedTypes \ {"BIT", "NEWDECIMAL"}
      BY TypeLogged DEF Unreadable
    <2> QED
      BY <2>1, ReadIsWritten
  <1>3. md = [rawdata |-> tm.metadata, offset |-> tm.starts[c]]
    <2>1. dstep = "column" /\ NothingSkipped(Event, tm)
      BY DEF InColumn, InRows, RightlyRead
    <2> QED
      BY <2>1 DEF DecodeInv, InRow
  <1>4. /\ tm.starts[c + 1] = tm.starts[c] + MetadataSize(tm.types[c])
        /\ tm.starts[c] \in Nat /\ tm.starts[c + 1] <= Len(tm.metadata)
        /\ Len(tm.metadata) \in Nat /\ MetadataSize(tm.types[c]) \in Nat
    <2>1. /\ Len(tm.types) \in Nat /\ tm.metadata \in Seq(Byte)
          /\ \A i \in 1..(Len(tm.types) + 1) : tm.starts[i] \in 0..Len(tm.metadata)
          /\ tm.starts[c + 1] = tm.starts[c] + MetadataSize(tm.types[c])
      BY <1>1 DEF Rightly, MapStarts
    <2>2. c \in 1..(Len(tm.types) + 1) /\ c + 1 \in 1..(Len(tm.types) + 1)
      BY <1>1, <2>1
    <2>3. tm.starts[c] \in 0..Len(tm.metadata) /\ tm.starts[c + 1] \in 0..Len(tm.metadata)
      BY <2>1, <2>2
    <2>4. MetadataSize(tm.types[c]) \in Nat
      BY DEF MetadataSize
    <2> QED
      BY <2>1, <2>3, <2>4
  <1>5. Readable
    <2>1. md.rawdata = tm.metadata /\ md.offset = tm.starts[c]
      BY <1>3
    <2> QED
      BY <1>2, <1>4, <2>1 DEF Readable, Holds
  <1>6. ColumnMetadata = MetadataOf(tm, c)
    <2>1. Ahead(md, MetadataSize(tm.types[c]))
            = Slice(tm.metadata, tm.starts[c], tm.starts[c] + MetadataSize(tm.types[c]))
      BY <1>3, AheadIs
    <2>2. MetadataOf(tm, c) = Slice(tm.metadata, tm.starts[c], tm.starts[c + 1])
      BY DEF MetadataOf, Slice
    <2> QED
      BY <1>2, <1>4, <2>1, <2>2 DEF ColumnMetadata
  <1> QED
    BY <1>1, <1>5, <1>6, ValueRead

-----------------------------------------------------------------------------
\* What the steps that go on with an event's rows leave alone.
LEMMA SameRows ==
  ASSUME UNCHANGED <<keeping, at, tm>>
  PROVE  /\ Event' = Event /\ tm' = tm /\ column_count' = column_count
         /\ InRows' => RightlyRead(Event, tm)
  <1>1. Event' = Event /\ tm' = tm
    BY DEF Event, keeping
  <1> QED
    BY <1>1 DEF InRows, column_count

LEMMA NextRowReads ==
  ASSUME DecodeInv, ReadInv, NextRow
  PROVE  ReadInv'
  <1> SUFFICES ASSUME InRows'
               PROVE  BehindRows'
    BY DEF ReadInv
  <1>1. /\ dstep = "more" /\ dstep' = "column" /\ more(data) /\ UNCHANGED <<keeping, at, tm, rows>>
        /\ nulls' = Ahead(data, flagBytes) /\ data' = discard(data, flagBytes)
        /\ nullIter' = 0 /\ c' = 1 /\ row' = <<>>
    BY DEF NextRow
  <1>2. /\ Event' = Event /\ tm' = tm /\ column_count' = column_count
        /\ RightlyRead(Event, tm) /\ rows' = rows
    BY <1>1, SameRows
  <1>3. InRows
    BY <1>1, <1>2 DEF InRows
  <1>4. /\ Len(rows) < Len(Event.cells)
        /\ nulls' = Part(Event, Len(rows) + 1, 0) /\ data' = DataAt(Event, Len(rows) + 1, 1)
    BY <1>1, <1>3, BeforeRow
  <1>5. InReadRow'
    <2>1. 1 - 1 = 0
      OBVIOUS
    <2>2. Place(Event, 0) = 0
      BY PlaceOf
    <2>3. IsSequence(row') /\ HasCells(row', Event, tm, Len(rows) + 1, 0)
      BY <1>1, NoCells, EmptySequence
    <2> QED
      BY <1>1, <1>2, <1>4, <2>1, <2>2, <2>3 DEF InReadRow
  <1>6. BehindRows
    BY <1>3 DEF ReadInv
  <1> QED
    BY <1>1, <1>2, <1>5, <1>6 DEF BehindRows

\* A column further, with the row's cells up to it.
LEMMA ColumnReads ==
  ASSUME DecodeInv, ReadInv, InColumn, UNCHANGED <<keeping, at, tm, dstep, nulls, rows>>,
         c' = c + 1,
         InRows => /\ nullIter' = Place(Event, c) /\ data' = DataAt(Event, Len(rows) + 1, c + 1)
                   /\ IsSequence(row') /\ HasCells(row', Event, tm, Len(rows) + 1, c)
  PROVE  ReadInv'
  <1> SUFFICES ASSUME InRows'
               PROVE  BehindRows'
    BY DEF ReadInv
  <1>1. /\ Event' = Event /\ tm' = tm /\ column_count' = column_count
        /\ RightlyRead(Event, tm) /\ rows' = rows /\ nulls' = nulls
    BY SameRows
  <1>2. InRows /\ dstep = "column" /\ dstep' = "column"
    BY <1>1 DEF InRows, InColumn
  <1>3. BehindRows /\ InReadRow /\ c \in 1..Len(tm.types) /\ Len(tm.types) \in Nat
    BY <1>2, AtColumn, RightlyWritten DEF ReadInv
  <1>4. (c + 1) - 1 = c
    BY <1>3
  <1>5. InReadRow'
    BY <1>1, <1>2, <1>3, <1>4 DEF InReadRow
  <1> QED
    BY <1>1, <1>2, <1>3, <1>5 DEF BehindRows

\* Where a column is among those that are there.
LEMMA NextPlace ==
  ASSUME DecodeInv, ReadInv, InRows, InColumn
  PROVE  /\ c - 1 \in Nat /\ (c - 1) + 1 = c /\ nullIter = Place(Event, c - 1)
         /\ Place(Event, c) = nullIter + (IF There(Event, c) THEN 1 ELSE 0) /\ nullIter \in Nat
  <1>1. c \in 1..Len(tm.types) /\ nullIter = Place(Event, c - 1) /\ Len(tm.types) \in Nat
    BY AtColumn, RightlyWritten DEF InReadRow
  <1>2. c - 1 \in Nat /\ (c - 1) + 1 = c
    BY <1>1
  <1>3. /\ Place(Event, c - 1) \in Nat
        /\ Place(Event, (c - 1) + 1)
             = Place(Event, c - 1) + (IF There(Event, (c - 1) + 1) THEN 1 ELSE 0)
    BY <1>2, PlaceOf
  <1> QED
    BY <1>1, <1>2, <1>3

LEMMA AbsentColumnReads ==
  ASSUME DecodeInv, ReadInv, AbsentColumn
  PROVE  ReadInv'
  <1>1. /\ InColumn /\ ~Present /\ UNCHANGED <<keeping, at, tm, dstep, nulls, rows>>
        /\ c' = c + 1 /\ data' = data /\ nullIter' = nullIter /\ row' = row
    BY DEF AbsentColumn
  <1>2. ASSUME InRows
        PROVE  /\ nullIter' = Place(Event, c) /\ data' = DataAt(Event, Len(rows) + 1, c + 1)
               /\ IsSequence(row') /\ HasCells(row', Event, tm, Len(rows) + 1, c)
    <2>1. ~There(Event, c) /\ InReadRow /\ data' = DataAt(Event, Len(rows) + 1, c + 1)
      BY <1>1, <1>2, AtColumn DEF InReadRow
    <2>2. /\ c - 1 \in Nat /\ (c - 1) + 1 = c /\ nullIter \in Nat
          /\ Place(Event, c) = nullIter + 0
      BY <1>1, <1>2, <2>1, NextPlace
    <2>3. HasCells(row, Event, tm, Len(rows) + 1, (c - 1) + 1)
      BY <2>1, <2>2, CellsPast DEF InReadRow
    <2> QED
      BY <1>1, <2>1, <2>2, <2>3 DEF InReadRow
  <1> QED
    BY <1>1, <1>2, ColumnReads

\* A cell appended to the row.
LEMMA CellReads ==
  ASSUME DecodeInv, ReadInv, InRows, InColumn, There(Event, c),
         NEW v, IsCell(v, Event, tm, Len(rows) + 1, c)
  PROVE  /\ nullIter + 1 = Place(Event, c) /\ IsSequence(Append(row, v))
         /\ HasCells(Append(row, v), Event, tm, Len(rows) + 1, c)
  <1>1. IsSequence(row) /\ HasCells(row, Event, tm, Len(rows) + 1, c - 1)
    BY AtColumn DEF InReadRow
  <1>2. /\ c - 1 \in Nat /\ (c - 1) + 1 = c
        /\ Place(Event, c) = nullIter + 1
    BY NextPlace
  <1>3. HasCells(Append(row, v), Event, tm, Len(rows) + 1, (c - 1) + 1)
    BY <1>1, <1>2, CellsAppended
  <1> QED
    BY <1>1, <1>2, <1>3, Appended

LEMMA NullColumnReads ==
  ASSUME DecodeInv, ReadInv, NullColumn
  PROVE  ReadInv'
  <1>1. /\ InColumn /\ Present /\ IsNull /\ UNCHANGED <<keeping, at, tm, dstep, nulls, rows>>
        /\ c' = c + 1 /\ data' = data /\ nullIter' = nullIter + 1 /\ row' = Append(row, Null)
    BY DEF NullColumn
  <1>2. ASSUME InRows
        PROVE  /\ nullIter' = Place(Event, c) /\ data' = DataAt(Event, Len(rows) + 1, c + 1)
               /\ IsSequence(row') /\ HasCells(row', Event, tm, Len(rows) + 1, c)
    <2>1. /\ There(Event, c) /\ Event.cells[Len(rows) + 1][c] = Null
          /\ data' = DataAt(Event, Len(rows) + 1, c + 1)
      BY <1>1, <1>2, AtColumn DEF InReadRow
    <2>2. IsCell(Null, Event, tm, Len(rows) + 1, c)
      BY <2>1 DEF IsCell
    <2> QED
      BY <1>1, <1>2, <2>1, <2>2, CellReads
  <1> QED
    BY <1>1, <1>2, ColumnReads

LEMMA ValueColumnReads ==
  ASSUME DecodeInv, ReadInv, ValueColumn
  PROVE  ReadInv'
  <1> DEFINE result == read(tm.types[c], ColumnMetadata, data)
  <1>1. /\ InColumn /\ Present /\ ~IsNull /\ UNCHANGED <<keeping, at, tm, dstep, nulls, rows>>
        /\ tm.types[c] \notin Unreadable /\ ~result.thrown
        /\ c' = c + 1 /\ data' = result.data /\ nullIter' = nullIter + 1
        /\ row' = Append(row, result.value)
    BY DEF ValueColumn, Readable
  <1>2. ASSUME InRows
        PROVE  /\ nullIter' = Place(Event, c) /\ data' = DataAt(Event, Len(rows) + 1, c + 1)
               /\ IsSequence(row') /\ HasCells(row', Event, tm, Len(rows) + 1, c)
    <2>1. There(Event, c) /\ Event.cells[Len(rows) + 1][c] # Null
      BY <1>1, <1>2, AtColumn
    <2>2. Agrees(result, OwnRead(Event, tm, Len(rows) + 1, c),
                 Event.row_data, Event.begins[Len(rows) + 1][c + 1])
      BY <1>1, <1>2, <2>1, AtValue
    <2>3. /\ result.value = OwnRead(Event, tm, Len(rows) + 1, c).value /\ result.value # Null
          /\ ~OwnRead(Event, tm, Len(rows) + 1, c).thrown
          /\ result.data = DataAt(Event, Len(rows) + 1, c + 1)
      BY <1>1, <2>2 DEF Agrees, DataAt
    <2>4. IsCell(result.value, Event, tm, Len(rows) + 1, c)
      BY <2>1, <2>3 DEF IsCell
    <2> HIDE DEF result
    <2> QED
      BY <1>1, <1>2, <2>1, <2>3, <2>4, CellReads
  <1> QED
    BY <1>1, <1>2, ColumnReads

LEMMA EndRowReads ==
  ASSUME DecodeInv, ReadInv, EndRow
  PROVE  ReadInv'
  <1> SUFFICES ASSUME InRows'
               PROVE  BehindRows'
    BY DEF ReadInv
  <1>1. /\ dstep = "column" /\ dstep' = "more" /\ c > column_count
        /\ UNCHANGED <<keeping, at, tm, data>> /\ rows' = Append(rows, row)
    BY DEF EndRow
  <1>2. /\ Event' = Event /\ tm' = tm /\ column_count' = column_count
        /\ RightlyRead(Event, tm) /\ data' = data
    BY <1>1, SameRows
  <1>3. InRows
    BY <1>1, <1>2 DEF InRows
  <1>4. BehindRows /\ InReadRow /\ InRow
    BY <1>1, <1>3 DEF ReadInv, BehindRows, DecodeInv
  <1>5. /\ Rightly(Event, tm) /\ column_count = Len(tm.types) /\ column_count \in Nat
        /\ Len(Event.cells) \in Nat
    BY <1>3, RightlyWritten
  <1>6. /\ IsSequence(rows') /\ Len(rows) \in Nat /\ Len(rows') = Len(rows) + 1
        /\ \A k \in 1..Len(rows) : rows'[k] = rows[k]
        /\ rows'[Len(rows) + 1] = row
    BY <1>1, <1>4, Appended DEF BehindRows
  <1>7. c = column_count + 1 /\ c - 1 = column_count
    BY <1>1, <1>4, <1>5 DEF InRow
  <1>8. Len(rows) + 1 \in 1..Len(Event.cells)
    BY <1>4, <1>5, <1>6 DEF InReadRow
  <1>9. \A k \in 1..Len(rows') : HasCells(rows'[k], Event, tm, k, column_count)
    <2>1. \A k \in 1..Len(rows) : HasCells(rows'[k], Event, tm, k, column_count)
      BY <1>4, <1>6 DEF BehindRows
    <2>2. HasCells(rows'[Len(rows) + 1], Event, tm, Len(rows) + 1, column_count)
      BY <1>4, <1>6, <1>7 DEF InReadRow
    <2>3. 1..Len(rows') = 1..Len(rows) \union {Len(rows) + 1}
      BY <1>6
    <2> QED
      BY <2>1, <2>2, <2>3
  <1>10. data' = DataAt(Event, Len(rows') + 1, 0)
    <2>1. data = DataAt(Event, Len(rows) + 1, Len(tm.types) + 1)
      BY <1>4, <1>5, <1>7 DEF InReadRow
    <2>2. Event.begins[(Len(rows) + 1) + 1][0] = Event.begins[Len(rows) + 1][Len(tm.types) + 1]
      BY <1>5, <1>8, RowWritten
    <2> QED
      BY <1>2, <1>6, <2>1, <2>2 DEF DataAt
  <1>11. Len(rows') <= Len(Event.cells)
    BY <1>5, <1>6, <1>8
  <1> QED
    BY <1>1, <1>2, <1>6, <1>9, <1>10, <1>11 DEF BehindRows

LEMMA AllRowsReads ==
  ASSUME DecodeInv, ReadInv, AllRows
  PROVE  ReadInv'
  <1> SUFFICES ASSUME InRows'
               PROVE  BehindRows'
    BY DEF ReadInv
  <1>1. /\ dstep = "more" /\ ~more(data) /\ dstep' = "decoded"
        /\ UNCHANGED <<keeping, at, tm, data, rows>>
    BY DEF AllRows, decoding
  <1>2. /\ Event' = Event /\ tm' = tm /\ column_count' = column_count
        /\ RightlyRead(Event, tm) /\ data' = data /\ rows' = rows
    BY <1>1, SameRows
  <1>3. InRows
    BY <1>1, <1>2 DEF InRows
  <1>4. BehindRows /\ Len(rows) \in Nat /\ Len(Event.cells) \in Nat /\ Len(rows) <= Len(Event.cells)
    BY <1>3, Appended, RightlyWritten DEF ReadInv, BehindRows
  <1>5. ~(Len(rows) < Len(Event.cells))
    BY <1>1, <1>3, BeforeRow
  <1>6. Len(rows) = Len(Event.cells)
    BY <1>4, <1>5
  <1> QED
    BY <1>1, <1>2, <1>4, <1>6 DEF BehindRows

LEMMA RowsEventReads ==
  ASSUME DecodeInv', RowsEvent
  PROVE  ReadInv'
  <1> SUFFICES ASSUME InRows'
               PROVE  BehindRows'
    BY DEF ReadInv
  <1>1. dstep' = "more" /\ rows' = <<>> /\ data' = Reader(stream[at + 1].row_data)
        /\ stream' = stream /\ at' = at + 1
    BY DEF RowsEvent, keeping
  <1>2. Event' = stream[at + 1]
    BY <1>1 DEF Event
  <1>3. RowsWritten(Event', tm')
    BY <1>1 DEF DecodeInv, UsedMap, InRows, RightlyRead
  <1>4. Len(Event'.cells) \in Nat /\ Event'.begins[1][0] = 0
    BY <1>3 DEF RowsWritten
  <1>5. IsSequence(rows') /\ Len(rows') = 0 /\ 0 + 1 = 1 /\ 1..0 = {}
    BY <1>1, EmptySequence
  <1>6. data' = DataAt(Event', 1, 0)
    BY <1>1, <1>2, <1>4 DEF Reader, DataAt
  <1> QED
    BY <1>1, <1>4, <1>5, <1>6 DEF BehindRows

LEMMA NextReadInv ==
  DecodeInv /\ DecodeInv' /\ ReadInv /\ [Decode \/ GivenUp]_decodeVars
    => ReadInv'
  <1> SUFFICES ASSUME DecodeInv, DecodeInv', ReadInv,
                      [Decode \/ GivenUp]_decodeVars
               PROVE  ReadInv'
    OBVIOUS
  <1>1. CASE RowsEvent
    BY <1>1, RowsEventReads
  <1>2. CASE NextRow
    BY <1>2, NextRowReads
  <1>3. CASE AbsentColumn
    BY <1>3, AbsentColumnReads
  <1>4. CASE NullColumn
    BY <1>4, NullColumnReads
  <1>5. CASE ValueColumn
    BY <1>5, ValueColumnReads
  <1>6. CASE EndRow
    BY <1>6, EndRowReads
  <1>7. CASE AllRows
    BY <1>7, AllRowsReads
  <1>8. CASE TableMap \/ DecodeFails \/ GivenUp
    <2>1. dstep' \in {"next", "thrown"}
      BY <1>8 DEF TableMap, DecodeFails, GivenUp
    <2> QED
      BY <2>1 DEF ReadInv, InRows
  <1>9. CASE UNCHANGED decodeVars
    <2>1. UNCHANGED <<stream, at, tm, dstep, data, nulls, nullIter, c, row, rows>>
      BY <1>9 DEF decodeVars, keeping, decoding
    <2>2. Event' = Event /\ column_count' = column_count
      BY <2>1 DEF Event, column_count
    <2>3. (InRows' <=> InRows) /\ (InReadRow' <=> InReadRow)
      BY <2>1, <2>2 DEF InRows, InReadRow
    <2>4. BehindRows' <=> BehindRows
      BY <2>1, <2>2, <2>3 DEF BehindRows
    <2> QED
      BY <2>3, <2>4 DEF ReadInv
  <1> QED
    BY <1>1, <1>2, <1>3, <1>4, <1>5, <1>6, <1>7, <1>8, <1>9 DEF Decode

LEMMA InitReadInv == DecodeInit => ReadInv
  BY DEF DecodeInit, DecodeStart, ReadInv, InRows

LEMMA ReadsRightly == ReaderSpec => [](DecodeInv /\ ReadInv)
  <1>1. DecodeInit => DecodeInv /\ ReadInv
    BY InitDecodeInv, InitReadInv
  <1>2. DecodeInv /\ ReadInv /\ [Decode \/ GivenUp]_decodeVars => (DecodeInv /\ ReadInv)'
    BY NextDecodeInv, NextReadInv
  <1> QED
    BY <1>1, <1>2, PTL DEF ReaderSpec

\* What the two invariants say of a state and of a step.
LEMMA InStepNow == DecodeInv => MetadataInStep /\ OwnMap
  BY DEF DecodeInv, UsedMap, InRow, MetadataInStep, OwnMap

LEMMA DataInStepNow == ReadInv => DataInStep
  <1> SUFFICES ASSUME ReadInv, InRows
               PROVE  /\ data.offset = Event.begins[Len(rows) + 1][IF dstep = "column" THEN c ELSE 0]
                      /\ dstep = "decoded" => Len(rows) = Len(Event.cells)
    BY DEF DataInStep
  <1>1. dstep \in {"more", "column", "decoded"} /\ BehindRows
    BY DEF ReadInv, InRows
  <1>2. \A e, r, i : DataAt(e, r, i).offset = e.begins[r][i]
    BY DEF DataAt
  <1> QED
    BY <1>1, <1>2 DEF BehindRows, InReadRow

LEMMA OwnCellsNow == ReadInv => OwnCells
  BY DEF ReadInv, BehindRows, InReadRow, OwnCells

LEMMA ThrowsRightlyNow ==
  ASSUME DecodeInv, ReadInv, [Decode \/ GivenUp]_decodeVars, DecodeThrows, RightlyRead(Event, tm)
  PROVE  /\ dstep = "column" /\ There(Event, c)
         /\ Event.cells[Len(rows) + 1][c] # Null
         /\ MayThrow(Event, tm, Len(rows) + 1, c)
  <1>1. dstep \in {"more", "column"} /\ dstep' = "thrown"
    BY DEF DecodeThrows
  <1>2. DecodeFails
    BY <1>1 DEF Decode, TableMap, RowsEvent, NextRow, AbsentColumn, NullColumn, ValueColumn,
                EndRow, AllRows, GivenUp, InColumn, decodeVars
  <1>3. InRows
    BY <1>1 DEF InRows
  <1>4. CASE dstep = "more"
    <2>1. more(data) /\ ~Holds(data, flagBytes)
      BY <1>2, <1>4 DEF DecodeFails, InColumn
    <2> QED
      BY <1>3, <1>4, <2>1, BeforeRow
  <1>5. CASE dstep = "column"
    <2>1. /\ InColumn /\ Present /\ ~IsNull
          /\ Readable => read(tm.types[c], ColumnMetadata, data).thrown
      BY <1>2, <1>5 DEF DecodeFails
    <2>2. There(Event, c) /\ Event.cells[Len(rows) + 1][c] # Null
      BY <1>3, <2>1, AtColumn
    <2>3. ASSUME tm.types[c] \notin Unreadable
          PROVE  /\ tm.types[c] \in {"TIME", "DATETIME", "TIMESTAMP2"} \union StringTypes
                 /\ OwnRead(Event, tm, Len(rows) + 1, c).thrown
      BY <1>3, <2>1, <2>2, <2>3, AtValue DEF Agrees
    <2> QED
      BY <1>5, <2>2, <2>3 DEF MayThrow
  <1> QED
    BY <1>1, <1>4, <1>5

LEMMA ReaderKeeps ==
  ReaderSpec => []MetadataInStep /\ []OwnMap /\ []DataInStep /\ []OwnCells /\ ThrowsRightly
  <1> DEFINE Rightful ==
        DecodeThrows /\ RightlyRead(Event, tm)
          => /\ dstep = "column" /\ There(Event, c)
             /\ Event.cells[Len(rows) + 1][c] # Null /\ MayThrow(Event, tm, Len(rows) + 1, c)
  <1>1. DecodeInv /\ ReadInv => MetadataInStep /\ OwnMap /\ DataInStep /\ OwnCells
    BY InStepNow, DataInStepNow, OwnCellsNow
  <1>2. DecodeInv /\ ReadInv /\ [Decode \/ GivenUp]_decodeVars => [Rightful]_decodeVars
    BY ThrowsRightlyNow
  <1> QED
    BY <1>1, <1>2, ReadsRightly, PTL DEF ReaderSpec, ThrowsRightly

LEMMA DumpReads == DumpSpec => ReaderSpec
  <1>1. [Decode \/ (dstep = "decoded" /\ Handled)]_decodeVars => [Decode \/ GivenUp]_decodeVars
    BY DEF Handled, GivenUp
  <1> QED
    BY <1>1, PTL DEF DumpSpec, ReaderSpec

-----------------------------------------------------------------------------
(* The reader of the metadata is at the column that is read next, in every row of   *)
(* every event that leaves no column with metadata out (row.cpp:27-51).             *)
THEOREM InStep == DumpSpec => []MetadataInStep
  BY DumpReads, ReaderKeeps, PTL

(* A reader that keeps the maps by id decodes each event with its own table's       *)
(* (dumpToConsole.cpp:20, 71).                                                      *)
THEOREM OwnRows == DumpSpec => []OwnMap
  BY DumpReads, ReaderKeeps, PTL

(* The reader of the row data is at the column, or the row, that is read next, and  *)
(* behind the last row in the end: each type's read takes exactly the bytes of a    *)
(* value, wherever in the data they are (row.cpp:17-110, mysql_types.cpp).          *)
THEOREM OwnBytes == DumpSpec => []DataInStep
  BY DumpReads, ReaderKeeps, PTL

(* Every row has the cells of the source's row, NULL for NULL and else what is read *)
(* of the cell's own bytes and metadata (row.cpp:22-110).                           *)
THEOREM RowsOfCells == DumpSpec => []OwnCells
  BY DumpReads, ReaderKeeps, PTL

(* Decoding ends in an exception only at a value of a type whose read may throw: no *)
(* size check fails, in no row (rawDataReader.h:43, 57, row.cpp:110).               *)
THEOREM ThrowsOnlyThere == DumpSpec => ThrowsRightly
  BY DumpReads, ReaderKeeps, PTL
=============================================================================
