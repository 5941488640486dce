------------------------------- MODULE RawData -------------------------------
(***************************************************************************)
(* Bytes as the binlog has them: RawDataReader, BitSet, and the arithmetic *)
(* of helpers.h that the temporal types are read with.  A number is the    *)
(* sequence of its bytes, least significant first, as memcpy leaves it in  *)
(* an integer of the machine.  TLC's integers have 32 bits: what may need  *)
(* more is kept as its two halves.                                         *)
(***************************************************************************)
EXTENDS Integers, Sequences, SequencesExt

Byte == 0..255

\* A RawDataReader: what it reads, and its offset.
Reader(bytes) == [rawdata |-> bytes, offset |-> 0]

more(r) == r.offset < Len(r.rawdata)

\* Faulty: the last byte cannot be read.
HoldsLess(r, l) == l < Len(r.rawdata) - r.offset

\* offsetSizeCheck: l more bytes can be read.
Holds(r, l) == l <= Len(r.rawdata) - r.offset

\* discard checks nothing.
discard(r, l) == [r EXCEPT !.offset = @ + l]

\* The l bytes that readValue and viewValue take next.
Ahead(r, l) == SubSeq(r.rawdata, r.offset + 1, r.offset + l)

-----------------------------------------------------------------------------
\* The unsigned number of at most four bytes, less than 2^31.
Number(bytes) ==
  LET b(i) == IF i <= Len(bytes) THEN bytes[i] ELSE 0
  IN b(1) + 256 * b(2) + 65536 * b(3) + 16777216 * b(4)

Signed(bytes) ==
  IF Last(bytes) < 128 THEN Number(bytes)
  ELSE -1 - Number([i \in DOMAIN bytes |-> 255 - bytes[i]])

\* A signed number of eight bytes, as one number if it fits and else as two.
Wide(bytes) ==
  LET low  == Signed(SubSeq(bytes, 1, 4))
      high == Signed(SubSeq(bytes, 5, 8))
  IN IF high = (IF low < 0 THEN -1 ELSE 0) THEN <<low>> ELSE <<high, low>>

\* A length whose bytes make a number no data can have.
Length(bytes) ==
  IF \A i \in DOMAIN bytes : i > 3 => bytes[i] = 0
  THEN Number(SubSeq(bytes, 1, IF Len(bytes) < 3 THEN Len(bytes) ELSE 3))
  ELSE 16777216

\* Faulty: the bytes are taken in the machine's order.
ntohSkipped(bytes, word) == bytes \o [i \in 1..(word - Len(bytes)) |-> 0]

\* ntoh of a number that a machine of the other byte order has written into the
\* first bytes of a word.
ntoh(bytes, word) ==
  [i \in 1..word |-> IF i > word - Len(bytes) THEN bytes[word + 1 - i] ELSE 0]

\* BitSet::Iterator, a byte's address and a mask, is the number of its bit.
Bit(bytes, i) == (bytes[i \div 8 + 1] \div 2^(i % 8)) % 2

\* The bits of a number from offset on, as many as size, in three of its bytes at most.
bitslice(bytes, size, offset) ==
  LET b(i) == IF offset \div 8 + i <= Len(bytes) THEN bytes[offset \div 8 + i] ELSE 0
  IN ((b(1) + 256 * b(2) + 65536 * b(3)) \div 2^(offset % 8)) % 2^size

\* A number's remainder and quotient by 100, from the most significant byte down.
mod100_extract(bytes) ==
  FoldRight(LAMBDA b, acc : LET n == 256 * acc.rem + b
                            IN [rem |-> n % 100, quot |-> <<n \div 100>> \o acc.quot],
            bytes, [rem |-> 0, quot |-> <<>>])
=============================================================================
