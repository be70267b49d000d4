------------------------------- MODULE ProtoWire -------------------------------
(***************************************************************************)
(* The wire format as the Writer and the Reader of protobuf.js have it:    *)
(* the numbers that a call of the writer makes of a value, the bytes that  *)
(* the operation leaves in a buffer, and what the reader takes from bytes, *)
(* also where the buffer ends too early.                                   *)
(*                                                                         *)
(* A byte of a varint holds Septet values and the fifth byte gives Nibble  *)
(* values to a 32-bit word.  The code has 128 and 16.  All the other       *)
(* constants of the code follow from these two, so that a smaller word,    *)
(* whose numbers TLC can count, has the same cases: 32 and 8 make a word   *)
(* of 23 bits in five bytes, and a long of 46 bits in ten.                 *)
(***************************************************************************)
EXTENDS Integers, Sequences, FiniteSets

CONSTANTS Septet, Nibble

ASSUME WireAssumption ==
  /\ Septet \in Nat /\ Nibble \in Nat
  /\ Nibble >= 2 /\ Nibble % 2 = 0
  /\ Septet > Nibble /\ Septet % Nibble = 0
  /\ 2 * Septet = Nibble * Nibble  \* 64 bits in nine bytes and a bit

Power == <<1, Septet, Septet * Septet, Septet * Septet * Septet, Septet * Septet * Septet * Septet>>

Byte == 2 * Septet                  \* 256
Word == Power[5] * Nibble           \* 2^32
Half == Power[5] * (Nibble \div 2)  \* 2^31

\* value | 0, and the complement of a word.
Signed(v) == IF v % Word >= Half THEN (v % Word) - Word ELSE v % Word
Not(v) == Word - 1 - v

-----------------------------------------------------------------------------
(* LongBits: the two words of a 64-bit number.                             *)

LongBits == [lo : 0 .. Word - 1, hi : 0 .. Word - 1]

\* The two's complement of a number; what is above 64 bits is cut off.
FromNumber(value) ==
  LET magnitude == IF value < 0 THEN -value ELSE value
      lo == magnitude % Word
      hi == (magnitude \div Word) % Word
  IN IF value >= 0 THEN [lo |-> lo, hi |-> hi]
     ELSE IF lo = 0 THEN [lo |-> 0, hi |-> (Not(hi) + 1) % Word]
     ELSE [lo |-> Not(lo) + 1, hi |-> Not(hi)]

ToNumber(bits, unsigned) ==
  LET lo == (Not(bits.lo) + 1) % Word
      hi == IF lo = 0 THEN (Not(bits.hi) + 1) % Word ELSE Not(bits.hi)
  IN IF ~unsigned /\ bits.hi >= Half THEN -(lo + hi * Word) ELSE bits.lo + bits.hi * Word

\* Shifted left by one, and inverted if it was negative.
ZzEncode(bits) ==
  LET lo == (2 * bits.lo) % Word
      hi == ((2 * bits.hi) % Word) + (IF bits.lo >= Half THEN 1 ELSE 0)
  IN IF bits.hi >= Half THEN [lo |-> Not(lo), hi |-> Not(hi)] ELSE [lo |-> lo, hi |-> hi]

ZzDecode(bits) ==
  LET lo == (bits.lo \div 2) + ((bits.hi % 2) * Half)
      hi == bits.hi \div 2
  IN IF bits.lo % 2 = 1 THEN [lo |-> Not(lo), hi |-> Not(hi)] ELSE [lo |-> lo, hi |-> hi]

\* The bytes of a varint, from the 28 low bits, the next 28 and the last 8.
Length64(bits) ==
  LET part0 == bits.lo
      part1 == (bits.lo \div Power[5]) + ((bits.hi % (Power[5] \div Nibble)) * Nibble)
      part2 == bits.hi \div (Power[5] \div Nibble)
  IN IF part2 # 0 THEN IF part2 < Septet THEN 9 ELSE 10
     ELSE IF part1 # 0
     THEN IF part1 < Power[3] THEN IF part1 < Septet THEN 5 ELSE 6
          ELSE IF part1 < Power[4] THEN 7 ELSE 8
     ELSE IF part0 < Power[3] THEN IF part0 < Septet THEN 1 ELSE 2
          ELSE IF part0 < Power[4] THEN 3 ELSE 4

Length32(v) ==
  IF v < Power[2] THEN 1 ELSE IF v < Power[3] THEN 2 ELSE IF v < Power[4] THEN 3
  ELSE IF v < Power[5] THEN 4 ELSE 5

-----------------------------------------------------------------------------
(* What a call of the writer appends: operations with the length that is   *)
(* counted for them now and the value that finish() will write.            *)

Op(fn, len, val) == [fn |-> fn, len |-> len, val |-> val]

Uint32(v) == << Op("varint32", Length32(v % Word), v % Word) >>
Uint64(v) == << Op("varint64", Length64(FromNumber(v)), FromNumber(v)) >>
Int32(v) == IF v < 0 THEN << Op("varint64", 10, FromNumber(v)) >> ELSE Uint32(v)

ZigZag32(v) == IF Signed(v) < 0 THEN Not((2 * v) % Word) ELSE (2 * v) % Word
Sint32(v) == Uint32(ZigZag32(v))

Sint64(v) ==
  LET bits == ZzEncode(FromNumber(v)) IN << Op("varint64", Length64(bits), bits) >>

Bool(truthy) == << Op("byte", 1, IF truthy THEN 1 ELSE 0) >>
Fixed32(v) == << Op("fixed32", 4, v % Word) >>
Fixed64(v) ==
  LET bits == FromNumber(v) IN << Op("fixed32", 4, bits.lo), Op("fixed32", 4, bits.hi) >>

Bytes(s) ==
  IF s = <<>> THEN << Op("byte", 1, 0) >> ELSE Uint32(Len(s)) \o << Op("bytes", Len(s), s) >>

\* writeVarint64 shifts the two words right together.
Shift(bits) ==
  [lo |-> (bits.lo \div Septet) + ((bits.hi % Septet) * (Word \div Septet)), hi |-> bits.hi \div Septet]

Septets[bits \in LongBits] ==
  IF bits.hi = 0 /\ bits.lo < Septet THEN <<bits.lo>>
  ELSE <<(bits.lo % Septet) + Septet>> \o Septets[Shift(bits)]

WriteVarint32(v) == Septets[[lo |-> v, hi |-> 0]]
WriteFixed32(v) ==
  <<v % Byte, (v \div Byte) % Byte, (v \div (Byte * Byte)) % Byte, v \div (Byte * Byte * Byte)>>

\* The bytes that an operation writes.
Written(op) ==
  CASE op.fn = "varint32" -> WriteVarint32(op.val)
    [] op.fn = "varint64" -> Septets[op.val]
    [] op.fn = "fixed32"  -> WriteFixed32(op.val)
    [] op.fn = "byte"     -> <<op.val>>
    [] op.fn = "bytes"    -> op.val

\* writeVarint64 uses its value up: the operation writes one byte the next time.
Spent(op) ==
  IF op.fn # "varint64" THEN op
  ELSE LET septets == Septets[op.val]
       IN [op EXCEPT !.val = [lo |-> septets[Len(septets)], hi |-> 0]]

-----------------------------------------------------------------------------
(* Reading buf from pos, which counts from 0.                              *)

Read(value, pos) == [ok |-> TRUE, value |-> value, pos |-> pos]
OutOfRange(buf) == [ok |-> FALSE, value |-> 0, pos |-> Len(buf)]

\* A result with another value, and what follows a result.
Converted(r, op(_)) == IF r.ok THEN [r EXCEPT !.value = op(@)] ELSE r
Onward(r, next(_, _)) == IF r.ok THEN next(r.value, r.pos) ELSE r

\* Past the end there is undefined: it has no bits, and is not below 128.
Octet(buf, pos) == IF pos < Len(buf) THEN buf[pos + 1] ELSE Byte

\* The last byte of the varint at pos: the first without continuation, among
\* n bytes; n if there is none.
LastOctet(buf, pos, n) ==
  LET ends == {i \in 0 .. n - 1 : Octet(buf, pos + i) < Septet}
  IN IF ends = {} THEN n ELSE CHOOSE i \in ends : \A j \in ends : i <= j

Payload(buf, pos, i, last) == IF i > last THEN 0 ELSE Octet(buf, pos + i) % Septet

\* The low word of the varint whose last byte is pos + last.
LowWord(buf, pos, last) ==
  Payload(buf, pos, 0, last) + Payload(buf, pos, 1, last) * Power[2]
    + Payload(buf, pos, 2, last) * Power[3] + Payload(buf, pos, 3, last) * Power[4]
    + (Payload(buf, pos, 4, last) % Nibble) * Power[5]

\* Mutant of ReadUint32: the end of the buffer is not looked at.
ReadUint32Unchecked(buf, pos) ==
  LET last == LastOctet(buf, pos, 5)
  IN IF last < 5 THEN Read(LowWord(buf, pos, last), pos + last + 1)
     ELSE Read(LowWord(buf, pos, 4), pos + 10)

\* The bits above 32 of a varint longer than five bytes are passed over unread.
ReadUint32(buf, pos) ==
  LET last == LastOctet(buf, pos, 5)
  IN IF last < 5 THEN Read(LowWord(buf, pos, last), pos + last + 1)
     ELSE IF pos + 10 > Len(buf) THEN OutOfRange(buf)
     ELSE Read(LowWord(buf, pos, 4), pos + 10)

ReadInt32(buf, pos) == Converted(ReadUint32(buf, pos), Signed)

ZagZig32(v) == IF v % 2 = 1 THEN -(v \div 2) - 1 ELSE v \div 2
ReadSint32(buf, pos) == Converted(ReadUint32(buf, pos), ZagZig32)

\* readLongVarint.  With four bytes left or fewer the fourth is taken for the
\* last one, also if it says that more follow, or is not there.
LastOfLong(buf, pos) ==
  IF Len(buf) - pos > 4 THEN LastOctet(buf, pos, 10) ELSE LastOctet(buf, pos, 3)

HighWord(buf, pos, last) ==
  LET high(i) == Payload(buf, pos, i, last)
  IN ((high(4) \div Nibble)
        + (Septet \div Nibble) * (high(5) + high(6) * Power[2] + high(7) * Power[3]
                                    + high(8) * Power[4] + high(9) * Power[5])) % Word

LongAt(buf, pos, last) ==
  IF last = 10 \/ (last = 3 /\ Len(buf) - pos < 3) THEN OutOfRange(buf)
  ELSE Read([lo |-> LowWord(buf, pos, last), hi |-> HighWord(buf, pos, last)], pos + last + 1)

ReadLongVarint(buf, pos) == LongAt(buf, pos, LastOfLong(buf, pos))

ReadInt64(buf, pos) == Converted(ReadLongVarint(buf, pos), LAMBDA bits : ToNumber(bits, FALSE))
ReadUint64(buf, pos) == Converted(ReadLongVarint(buf, pos), LAMBDA bits : ToNumber(bits, TRUE))
ReadSint64(buf, pos) ==
  Converted(ReadLongVarint(buf, pos), LAMBDA bits : ToNumber(ZzDecode(bits), FALSE))

Fixed32At(buf, pos) ==
  buf[pos + 1] + buf[pos + 2] * Byte + buf[pos + 3] * Byte * Byte + buf[pos + 4] * Byte * Byte * Byte

ReadFixed32(buf, pos) ==
  IF pos + 4 > Len(buf) THEN OutOfRange(buf) ELSE Read(Fixed32At(buf, pos), pos + 4)
ReadSfixed32(buf, pos) == Converted(ReadFixed32(buf, pos), Signed)

ReadFixed64(buf, pos) ==
  IF pos + 8 > Len(buf) THEN OutOfRange(buf)
  ELSE Read([lo |-> Fixed32At(buf, pos), hi |-> Fixed32At(buf, pos + 4)], pos + 8)

BytesAt(buf, length) ==
  IF ~length.ok \/ length.pos + length.value > Len(buf) THEN OutOfRange(buf)
  ELSE Read(SubSeq(buf, length.pos + 1, length.pos + length.value), length.pos + length.value)

ReadBytes(buf, pos) == BytesAt(buf, ReadUint32(buf, pos))

\* skip with and without a length.
Skip(buf, pos, length) ==
  IF pos + length > Len(buf) THEN OutOfRange(buf) ELSE Read(0, pos + length)

SkipVarint(buf, pos) ==
  LET last == LastOctet(buf, pos, Len(buf) - pos)
  IN IF pos + last >= Len(buf) THEN OutOfRange(buf) ELSE Read(0, pos + last + 1)
=============================================================================
