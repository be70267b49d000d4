--------------------------- MODULE ProtoWire_proofs ---------------------------
(***************************************************************************)
(* Theorems about the wire format, for words of any size: also for the     *)
(* real ones, which are beyond TLC.  In their order:                       *)
(*   numbers and varints, and what the reader makes of bytes (ProtoWire);  *)
(*   the buffers of the pool (BufferPool);                                 *)
(*   texts, how long they are (ProtoText);                                 *)
(*   the writer: what it counts is what it writes, and it keeps the        *)
(*   promise of ByteStack (ProtoWriter);                                   *)
(*   texts, how they are read back (ProtoText);                            *)
(*   numbers of a fixed size (ProtoWire).                                  *)
(***************************************************************************)
EXTENDS ProtoWriter, SequenceTheorems, WellFoundedInduction, TLAPS

Octets == 0 .. Byte - 1
Buffers == Seq(Octets)

LEMMA WordSizes ==
  /\ Word = 2 * Half /\ Half \in Nat \ {0} /\ Word \in Nat \ {0}
  /\ Byte \in Nat \ {0} /\ Septet \in Nat \ {0} /\ Nibble \in Nat \ {0}
<1>1. /\ Septet \in Nat \ {0} /\ Nibble \in Nat \ {0} /\ Nibble = 2 * (Nibble \div 2)
      /\ Nibble \div 2 \in Nat \ {0}
  BY WireAssumption
<1>2. Power[5] \in Nat \ {0}
  BY <1>1 DEF Power
<1>3. Power[5] * Nibble = 2 * (Power[5] * (Nibble \div 2)) /\ Power[5] * (Nibble \div 2) \in Nat \ {0}
  BY <1>1, <1>2
<1> QED BY <1>1, <1>3 DEF Word, Half, Byte

LEMMA DivMod ==
  ASSUME NEW w \in Nat \ {0}, NEW x \in Int
  PROVE  x = (x \div w) * w + (x % w) /\ x % w \in 0 .. w - 1 /\ x \div w \in Int
OBVIOUS

LEMMA ModOfSmall == ASSUME NEW w \in Nat \ {0}, NEW x \in 0 .. w - 1 PROVE x % w = x /\ x \div w = 0
OBVIOUS

LEMMA ModOfNegative == ASSUME NEW w \in Nat \ {0}, NEW x \in -w .. -1 PROVE x % w = x + w
OBVIOUS

LEMMA TwoDigits ==
  ASSUME NEW w \in Nat \ {0}, NEW x \in 0 .. w - 1, NEW y \in Nat
  PROVE  (x + y * w) % w = x /\ (x + y * w) \div w = y
OBVIOUS

LEMMA DivDiv ==
  ASSUME NEW a \in Nat \ {0}, NEW b \in Nat \ {0}, NEW x \in Nat
  PROVE  x \div (a * b) = (x \div a) \div b
OBVIOUS

LEMMA Digit ==
  ASSUME NEW w \in Nat \ {0}, NEW n \in Nat \ {0}, NEW x \in 0 .. w - 1, NEW d \in 0 .. n - 1
  PROVE  x + d * w \in 0 .. (n * w) - 1
<1>1. d * w >= 0 /\ (n - 1 - d) * w >= 0
  OBVIOUS
<1>2. (n - 1 - d) * w = n * w - w - d * w
  OBVIOUS
<1> QED BY <1>1, <1>2

LEMMA Halves ==
  ASSUME NEW n \in Int
  PROVE  /\ (2 * n) \div 2 = n /\ (2 * n) % 2 = 0
         /\ (2 * n + 1) \div 2 = n /\ (2 * n + 1) % 2 = 1
OBVIOUS

-----------------------------------------------------------------------------
(* What sint32() of the writer makes of a 32-bit number, sint32() of the    *)
(* reader turns back, and it is a 32-bit word.                             *)
THEOREM ZigZag32Inverse ==
  \A v \in -Half .. Half - 1 : ZigZag32(v) \in 0 .. Word - 1 /\ ZagZig32(ZigZag32(v)) = v
<1> SUFFICES ASSUME NEW v \in -Half .. Half - 1
             PROVE  ZigZag32(v) \in 0 .. Word - 1 /\ ZagZig32(ZigZag32(v)) = v
  OBVIOUS
<1>0. Word = 2 * Half /\ Half \in Nat \ {0} /\ Word \in Nat \ {0}
  BY WordSizes
<1>1. CASE v >= 0
  <2>1. v \in 0 .. Word - 1 /\ 2 * v \in 0 .. Word - 1
    BY <1>0, <1>1
  <2>2. v % Word = v /\ (2 * v) % Word = 2 * v
    BY <1>0, <2>1, ModOfSmall
  <2>3. ZigZag32(v) = 2 * v
    BY <1>0, <1>1, <2>2 DEF ZigZag32, Signed
  <2> QED BY <1>0, <1>1, <2>1, <2>3 DEF ZagZig32
<1>2. CASE v < 0
  <2>1. v \in -Word .. -1 /\ 2 * v \in -Word .. -1
    BY <1>0, <1>2
  <2>2. v % Word = v + Word /\ (2 * v) % Word = 2 * v + Word
    BY <1>0, <2>1, ModOfNegative
  <2>3. ZigZag32(v) = -2 * v - 1
    BY <1>0, <1>2, <2>2 DEF ZigZag32, Signed, Not
  <2> QED BY <1>0, <1>2, <2>1, <2>3 DEF ZagZig32
<1> QED BY <1>1, <1>2

(* zzEncode and zzDecode of LongBits, which shift two words through their   *)
(* carry, are inverse for all 64 bits.                                     *)
THEOREM ZigZag64Inverse ==
  \A bits \in LongBits : ZzEncode(bits) \in LongBits /\ ZzDecode(ZzEncode(bits)) = bits
<1> SUFFICES ASSUME NEW bits \in LongBits
             PROVE  ZzEncode(bits) \in LongBits /\ ZzDecode(ZzEncode(bits)) = bits
  OBVIOUS
<1> DEFINE carry == IF bits.lo >= Half THEN 1 ELSE 0
           lo == (2 * bits.lo) % Word
           hi == ((2 * bits.hi) % Word) + carry
<1>0. /\ Word = 2 * Half /\ Half \in Nat \ {0} /\ Word \in Nat \ {0}
      /\ bits.lo \in 0 .. Word - 1 /\ bits.hi \in 0 .. Word - 1
      /\ bits = [lo |-> bits.lo, hi |-> bits.hi]
  BY WordSizes DEF LongBits
<1>1. ASSUME NEW x \in 0 .. Word - 1
      PROVE  (2 * x) % Word = IF x >= Half THEN 2 * x - Word ELSE 2 * x
  <2>1. CASE x < Half
    <3>1. 2 * x \in 0 .. Word - 1
      BY <1>0, <2>1
    <3> QED BY <1>0, <2>1, <3>1, ModOfSmall
  <2>2. CASE x >= Half
    <3>1. 2 * x - Word \in 0 .. Word - 1 /\ 2 * x = (2 * x - Word) + 1 * Word
      BY <1>0, <2>2
    <3>2. ((2 * x - Word) + 1 * Word) % Word = 2 * x - Word
      BY <1>0, <3>1, TwoDigits
    <3> QED BY <2>2, <3>1, <3>2
  <2> QED BY <1>0, <2>1, <2>2
<1>2. /\ lo = IF bits.lo >= Half THEN 2 * bits.lo - Word ELSE 2 * bits.lo
      /\ hi = (IF bits.hi >= Half THEN 2 * bits.hi - Word ELSE 2 * bits.hi) + carry
  BY <1>0, <1>1
<1>3. lo \in 0 .. Word - 1 /\ hi \in 0 .. Word - 1 /\ lo % 2 = 0 /\ hi % 2 = carry
  BY <1>0, <1>2
<1>4. ZzEncode(bits) = IF bits.hi >= Half THEN [lo |-> Not(lo), hi |-> Not(hi)] ELSE [lo |-> lo, hi |-> hi]
  BY DEF ZzEncode
<1> HIDE DEF lo, hi
<1>5. CASE bits.hi < Half
  <2>1. ZzEncode(bits) = [lo |-> lo, hi |-> hi]
    BY <1>0, <1>4, <1>5
  <2>2. (lo \div 2) + ((hi % 2) * Half) = bits.lo /\ hi \div 2 = bits.hi
    BY <1>0, <1>2, <1>3, <1>5
  <2> QED BY <1>0, <1>3, <2>1, <2>2 DEF ZzDecode, LongBits
<1>6. CASE bits.hi >= Half
  <2>1. ZzEncode(bits) = [lo |-> Not(lo), hi |-> Not(hi)]
    BY <1>4, <1>6
  <2>2. Not(lo) \in 0 .. Word - 1 /\ Not(hi) \in 0 .. Word - 1 /\ Not(lo) % 2 = 1
    BY <1>0, <1>3 DEF Not
  <2>3. /\ Not((Not(lo) \div 2) + ((Not(hi) % 2) * Half)) = bits.lo
        /\ Not(Not(hi) \div 2) = bits.hi
    <3>1. CASE bits.lo >= Half
      <4>1. lo = 2 * (bits.lo - Half) /\ hi = 2 * (bits.hi - Half) + 1
        BY <1>0, <1>2, <1>6, <3>1
      <4>2. Not(lo) \div 2 = Word - 1 - bits.lo /\ Not(hi) \div 2 = Word - 1 - bits.hi /\ Not(hi) % 2 = 0
        BY <1>0, <4>1 DEF Not
      <4> QED BY <1>0, <4>2 DEF Not
    <3>2. CASE bits.lo < Half
      <4>1. lo = 2 * bits.lo /\ hi = 2 * (bits.hi - Half)
        BY <1>0, <1>2, <1>6, <3>2
      <4>2. /\ Not(lo) = 2 * (Half - 1 - bits.lo) + 1
            /\ Not(hi) = 2 * (Word - 1 - bits.hi) + 1
        BY <1>0, <4>1 DEF Not
      <4>3. Half - 1 - bits.lo \in Int /\ Word - 1 - bits.hi \in Int
        BY <1>0
      <4>4. Not(lo) \div 2 = Half - 1 - bits.lo /\ Not(hi) \div 2 = Word - 1 - bits.hi /\ Not(hi) % 2 = 1
        BY <4>2, <4>3, Halves
      <4>5. (Not(lo) \div 2) + ((Not(hi) % 2) * Half) = Word - 1 - bits.lo
        BY <1>0, <4>4
      <4> QED BY <1>0, <4>4, <4>5 DEF Not
    <3> QED BY <1>0, <3>1, <3>2
  <2> QED BY <1>0, <2>1, <2>2, <2>3 DEF ZzDecode, LongBits
<1> QED BY <1>0, <1>5, <1>6

(* LongBits.fromNumber and toNumber are inverse for the signed numbers of   *)
(* 64 bits, with the carry from the low word to the high one.              *)
THEOREM LongBitsInverse ==
  \A v \in -(Half * Word) .. (Half * Word) - 1 :
    FromNumber(v) \in LongBits /\ ToNumber(FromNumber(v), FALSE) = v
<1> SUFFICES ASSUME NEW v \in -(Half * Word) .. (Half * Word) - 1
             PROVE  FromNumber(v) \in LongBits /\ ToNumber(FromNumber(v), FALSE) = v
  OBVIOUS
<1> DEFINE m == IF v < 0 THEN -v ELSE v
           lo == m % Word
           top == m \div Word
<1>0. Word = 2 * Half /\ Half \in Nat \ {0} /\ Word \in Nat \ {0}
  BY WordSizes
<1>1. m \in Nat /\ m <= Half * Word /\ (v >= 0 => m < Half * Word) /\ v \in Int
  BY <1>0
<1>m. m = IF v < 0 THEN -v ELSE v
  OBVIOUS
<1> HIDE DEF m
<1>2. m = lo + top * Word /\ lo \in 0 .. Word - 1 /\ top \in Int
  <2>1. m = (m \div Word) * Word + (m % Word) /\ m % Word \in 0 .. Word - 1 /\ m \div Word \in Int
    <3>1. m \in Int /\ Word \in Nat \ {0}
      BY <1>0, <1>1
    <3> QED BY <3>1, DivMod, Zenon
  <2> QED BY <1>0, <2>1
<1> HIDE DEF lo, top
<1>3. top \in 0 .. Half /\ (m < Half * Word => top < Half) /\ (lo # 0 => top < Half)
  <2>1. top >= 0
    BY <1>0, <1>1, <1>2
  <2>2. top <= Half
    BY <1>0, <1>1, <1>2
  <2>3. ASSUME top = Half PROVE m >= Half * Word /\ lo = 0
    BY <1>0, <1>1, <1>2, <2>3
  <2> QED BY <1>0, <1>1, <1>2, <2>1, <2>2, <2>3
<1>4. top % Word = top
  BY <1>0, <1>3, ModOfSmall
<1>5. CASE v >= 0
  <2>1. FromNumber(v) = [lo |-> lo, hi |-> top]
    BY <1>1, <1>4, <1>5, <1>m DEF FromNumber, lo, top, m
  <2>2. top < Half /\ m = v
    BY <1>1, <1>3, <1>5, <1>m
  <2> QED BY <1>0, <1>2, <1>3, <2>1, <2>2 DEF ToNumber, LongBits
<1>6. CASE v < 0 /\ lo = 0
  <2>1. top # 0 /\ m = -v
    BY <1>0, <1>1, <1>2, <1>3, <1>6, <1>m
  <2>2. (Not(top) + 1) % Word = Word - top
    BY <1>0, <1>3, <2>1, ModOfSmall DEF Not
  <2>3. FromNumber(v) = [lo |-> 0, hi |-> Word - top]
    BY <1>1, <1>4, <1>6, <2>2 DEF FromNumber, lo, top, m
  <2>4. (Not(0) + 1) % Word = 0
    BY <1>0 DEF Not
  <2>5. (Not(Word - top) + 1) % Word = top /\ Word - top >= Half
    BY <1>0, <1>3, <2>1, ModOfSmall DEF Not
  <2>6. ToNumber([lo |-> 0, hi |-> Word - top], FALSE) = -(0 + top * Word)
    BY <2>4, <2>5 DEF ToNumber
  <2>7. -(0 + top * Word) = v
    BY <1>0, <1>1, <1>2, <1>3, <1>6, <2>1
  <2>8. Word - top \in 0 .. Word - 1 /\ 0 \in 0 .. Word - 1
    BY <1>0, <1>3, <2>1
  <2>9. FromNumber(v) \in LongBits
    BY <2>3, <2>8 DEF LongBits
  <2> QED BY <2>3, <2>6, <2>7, <2>9, Zenon
<1>7. CASE v < 0 /\ lo # 0
  <2>1. top < Half /\ m = -v
    BY <1>1, <1>3, <1>7, <1>m
  <2>2. FromNumber(v) = [lo |-> Word - lo, hi |-> Word - 1 - top]
    BY <1>0, <1>1, <1>2, <1>4, <1>7 DEF FromNumber, Not, lo, top, m
  <2>3. (Not(Word - lo) + 1) % Word = lo
    BY <1>0, <1>2, ModOfSmall DEF Not
  <2>4. Not(Word - 1 - top) = top /\ Word - 1 - top >= Half
    BY <1>0, <1>3, <2>1 DEF Not
  <2>5. ToNumber([lo |-> Word - lo, hi |-> Word - 1 - top], FALSE) = -(lo + top * Word)
    BY <1>7, <2>3, <2>4 DEF ToNumber
  <2>6. -(lo + top * Word) = v
    BY <1>0, <1>1, <1>2, <1>3, <2>1
  <2>7. Word - lo \in 0 .. Word - 1 /\ Word - 1 - top \in 0 .. Word - 1
    BY <1>0, <1>2, <1>3, <1>7, <2>1
  <2>8. FromNumber(v) \in LongBits
    BY <2>2, <2>7 DEF LongBits
  <2> QED BY <2>2, <2>5, <2>6, <2>8, Zenon
<1>8. v >= 0 \/ v < 0
  BY <1>1
<1> QED BY <1>5, <1>6, <1>7, <1>8, Zenon

-----------------------------------------------------------------------------
(* The bytes of a buffer, and where a varint of at most five bytes ends.   *)
LEMMA OctetOf ==
  ASSUME NEW buf \in Buffers, NEW pos \in Nat
  PROVE  Octet(buf, pos) \in Nat /\ (Octet(buf, pos) < Septet => pos < Len(buf))
<1>1. Byte = 2 * Septet /\ Septet \in Nat \ {0} /\ Len(buf) \in Nat
  BY WordSizes DEF Byte, Buffers
<1>2. CASE pos < Len(buf)
  <2>1. pos + 1 \in 1 .. Len(buf)
    BY <1>1, <1>2
  <2>2. buf[pos + 1] \in Octets
    BY <2>1 DEF Buffers
  <2> QED BY <1>1, <1>2, <2>2 DEF Octet, Octets
<1>3. CASE ~(pos < Len(buf))
  BY <1>1, <1>3 DEF Octet
<1> QED BY <1>2, <1>3

LEMMA LastOfFive ==
  ASSUME NEW buf \in Buffers, NEW pos \in Nat
  PROVE  /\ LastOctet(buf, pos, 5) \in 0 .. 5
         /\ LastOctet(buf, pos, 5) < 5 => pos + LastOctet(buf, pos, 5) < Len(buf)
<1> DEFINE ends == {i \in 0 .. 4 : Octet(buf, pos + i) < Septet}
<1>1. LastOctet(buf, pos, 5) = IF ends = {} THEN 5 ELSE CHOOSE i \in ends : \A j \in ends : i <= j
  BY DEF LastOctet
<1>2. \A i \in ends : i \in 0 .. 4 /\ pos + i < Len(buf)
  BY OctetOf
<1>3. CASE ends = {}
  BY <1>1, <1>3
<1>4. CASE ends # {}
  <2>1. \E i \in ends : \A j \in ends : i <= j
    <3>1. ends \subseteq {0, 1, 2, 3, 4}
      OBVIOUS
    <3> HIDE DEF ends
    <3>2. CASE 0 \in ends
      BY <3>1, <3>2
    <3>3. CASE 0 \notin ends /\ 1 \in ends
      BY <3>1, <3>3
    <3>4. CASE 0 \notin ends /\ 1 \notin ends /\ 2 \in ends
      BY <3>1, <3>4
    <3>5. CASE 0 \notin ends /\ 1 \notin ends /\ 2 \notin ends /\ 3 \in ends
      BY <3>1, <3>5
    <3>6. CASE ends \subseteq {4}
      <4>1. ends = {4}
        BY <1>4, <3>6
      <4> QED BY <4>1
    <3> QED BY <3>1, <3>2, <3>3, <3>4, <3>5, <3>6
  <2> HIDE DEF ends
  <2>2. LastOctet(buf, pos, 5) \in ends
    BY <1>1, <1>4, <2>1
  <2> QED BY <1>2, <2>2
<1> QED BY <1>3, <1>4

LEMMA LowWordIsWord ==
  ASSUME NEW buf \in Buffers, NEW pos \in Nat, NEW last \in 0 .. 4
  PROVE  LowWord(buf, pos, last) \in 0 .. Word - 1
<1> DEFINE p(i) == Payload(buf, pos, i, last)
           low == p(0) + p(1) * Power[2] + p(2) * Power[3] + p(3) * Power[4]
<1>1. Septet \in Nat \ {0} /\ Nibble \in Nat \ {0}
  BY WordSizes
<1>2. \A i \in 0 .. 4 : p(i) \in 0 .. Septet - 1
  <2> TAKE i \in 0 .. 4
  <2>1. Octet(buf, pos + i) \in Nat
    BY OctetOf
  <2> QED BY <1>1, <2>1 DEF Payload
<1> HIDE DEF p
<1>3. p(0) \in 0 .. Septet - 1 /\ p(1) \in 0 .. Septet - 1 /\ p(2) \in 0 .. Septet - 1
      /\ p(3) \in 0 .. Septet - 1 /\ p(4) % Nibble \in 0 .. Nibble - 1
  BY <1>1, <1>2
<1>4. /\ Power[2] = Septet /\ Power[3] = Septet * Power[2] /\ Power[4] = Septet * Power[3]
      /\ Power[5] = Septet * Power[4] /\ Power[2] \in Nat \ {0} /\ Power[3] \in Nat \ {0}
      /\ Power[4] \in Nat \ {0} /\ Power[5] \in Nat \ {0}
  BY <1>1 DEF Power
<1>5. p(0) + p(1) * Power[2] \in 0 .. Power[3] - 1
  BY <1>1, <1>3, <1>4, Digit
<1>6. p(0) + p(1) * Power[2] + p(2) * Power[3] \in 0 .. Power[4] - 1
  BY <1>1, <1>3, <1>4, <1>5, Digit
<1>7. low \in 0 .. Power[5] - 1
  BY <1>1, <1>3, <1>4, <1>6, Digit
<1>8. low + (p(4) % Nibble) * Power[5] \in 0 .. (Nibble * Power[5]) - 1
  BY <1>1, <1>3, <1>4, <1>7, Digit
<1>9. Word = Nibble * Power[5]
  BY <1>1, <1>4 DEF Word
<1> QED BY <1>8, <1>9 DEF LowWord, p

LEMMA ReadParts == \A x, p : Read(x, p).value = x /\ Read(x, p).pos = p
BY DEF Read

(* Whatever the bytes are, uint32() of the reader throws or moves forward,  *)
(* to the end of the buffer at most, and has a word.                       *)
THEOREM ReadUint32Bounded ==
  \A buf \in Buffers, pos \in Nat :
    LET r == ReadUint32(buf, pos)
    IN r.ok => r.pos \in pos + 1 .. Len(buf) /\ r.value \in 0 .. Word - 1
<1> SUFFICES ASSUME NEW buf \in Buffers, NEW pos \in Nat, ReadUint32(buf, pos).ok
             PROVE  /\ ReadUint32(buf, pos).pos \in pos + 1 .. Len(buf)
                    /\ ReadUint32(buf, pos).value \in 0 .. Word - 1
  BY Zenon
<1> DEFINE last == LastOctet(buf, pos, 5)
<1>0. Len(buf) \in Nat
  BY DEF Buffers
<1>1. last \in 0 .. 5 /\ (last < 5 => pos + last < Len(buf))
  BY LastOfFive
<1>2. ReadUint32(buf, pos) = IF last < 5 THEN Read(LowWord(buf, pos, last), pos + last + 1)
                             ELSE IF pos + 10 > Len(buf) THEN OutOfRange(buf)
                             ELSE Read(LowWord(buf, pos, 4), pos + 10)
  BY DEF ReadUint32
<1> HIDE DEF last
<1>3. CASE last < 5
  <2>0. last \in 0 .. 4
    BY <1>1, <1>3
  <2>1. LowWord(buf, pos, last) \in 0 .. Word - 1
    BY <2>0, LowWordIsWord
  <2>2. pos + last + 1 \in pos + 1 .. Len(buf)
    BY <1>0, <1>1, <1>3
  <2> QED BY <1>2, <1>3, <2>1, <2>2 DEF Read
<1>4. CASE ~(last < 5) /\ pos + 10 > Len(buf)
  BY <1>2, <1>4 DEF OutOfRange
<1>5. CASE ~(last < 5) /\ ~(pos + 10 > Len(buf))
  <2>1. LowWord(buf, pos, 4) \in 0 .. Word - 1
    BY LowWordIsWord
  <2>2. pos + 10 \in pos + 1 .. Len(buf)
    BY <1>0, <1>5
  <2> QED BY <1>2, <1>5, <2>1, <2>2 DEF Read
<1> QED BY <1>3, <1>4, <1>5

(* bytes() and string() of the reader throw or give bytes of the buffer     *)
(* only, as many as they move over.                                        *)
THEOREM ReadBytesBounded ==
  \A buf \in Buffers, pos \in Nat :
    LET r == ReadBytes(buf, pos)
    IN r.ok => /\ r.pos \in pos + 1 .. Len(buf)
               /\ \E from \in pos + 1 .. r.pos : r.value = SubSeq(buf, from + 1, r.pos)
<1> SUFFICES ASSUME NEW buf \in Buffers, NEW pos \in Nat, ReadBytes(buf, pos).ok
             PROVE  /\ ReadBytes(buf, pos).pos \in pos + 1 .. Len(buf)
                    /\ \E from \in pos + 1 .. ReadBytes(buf, pos).pos :
                         ReadBytes(buf, pos).value = SubSeq(buf, from + 1, ReadBytes(buf, pos).pos)
  BY Zenon
<1> DEFINE length == ReadUint32(buf, pos)
<1>0. Len(buf) \in Nat /\ Word \in Nat \ {0}
  BY WordSizes DEF Buffers
<1>1. ReadBytes(buf, pos) =
        IF ~length.ok \/ length.pos + length.value > Len(buf) THEN OutOfRange(buf)
        ELSE Read(SubSeq(buf, length.pos + 1, length.pos + length.value), length.pos + length.value)
  BY DEF ReadBytes, BytesAt
<1>2. length.ok => length.pos \in pos + 1 .. Len(buf) /\ length.value \in 0 .. Word - 1
  BY ReadUint32Bounded
<1> HIDE DEF length
<1>3. length.ok /\ ~(length.pos + length.value > Len(buf))
  BY <1>1 DEF OutOfRange
<1>4. /\ ReadBytes(buf, pos).pos = length.pos + length.value
      /\ ReadBytes(buf, pos).value = SubSeq(buf, length.pos + 1, length.pos + length.value)
  <2> DEFINE bytes == SubSeq(buf, length.pos + 1, length.pos + length.value)
             end == length.pos + length.value
  <2>1. ReadBytes(buf, pos) = Read(bytes, end)
    BY <1>1, <1>3, Zenon
  <2>2. Read(bytes, end).pos = end /\ Read(bytes, end).value = bytes
    <3> HIDE DEF bytes, end
    <3> QED BY ReadParts
  <2>3. ReadBytes(buf, pos).pos = end
    BY <2>1, <2>2, Zenon
  <2>4. ReadBytes(buf, pos).value = bytes
    BY <2>1, <2>2, Zenon
  <2> QED BY <2>3, <2>4, Zenon
<1>5. length.pos + length.value \in pos + 1 .. Len(buf) /\ length.pos \in pos + 1 .. length.pos + length.value
  BY <1>0, <1>2, <1>3
<1> QED BY <1>4, <1>5

LEMMA Distribute == ASSUME NEW x \in Int, NEW y \in Int, NEW z \in Int
                    PROVE  (x + y) * z = x * z + y * z
OBVIOUS

LEMMA DivNat == ASSUME NEW w \in Nat \ {0}, NEW x \in Nat
                PROVE  x \div w \in Nat /\ x % w \in Nat /\ x = (x \div w) * w + (x % w)
OBVIOUS

LEMMA FourDigits ==
  ASSUME NEW b \in Nat \ {0}, NEW v \in Nat
  PROVE  v = (v % b) + ((v \div b) % b) * b + ((v \div (b * b)) % b) * b * b
               + (v \div (b * b * b)) * b * b * b
<1> DEFINE q1 == v \div b
           q2 == q1 \div b
           q3 == q2 \div b
           d0 == v % b
           d1 == q1 % b
           d2 == q2 % b
<1>1. q1 \in Nat /\ d0 \in Nat /\ v = q1 * b + d0
  BY DivNat, Zenon
<1>2. q2 \in Nat /\ d1 \in Nat /\ q1 = q2 * b + d1
  BY <1>1, DivNat, Zenon
<1>3. q3 \in Nat /\ d2 \in Nat /\ q2 = q3 * b + d2
  BY <1>2, DivNat, Zenon
<1>0. b * b \in Nat \ {0} /\ b \in Int
  OBVIOUS
<1>4. v \div (b * b) = q2
  BY DivDiv, Zenon
<1>5. v \div (b * b * b) = q3
  <2>1. v \div ((b * b) * b) = (v \div (b * b)) \div b
    BY <1>0, DivDiv, Zenon
  <2> QED BY <2>1, <1>4, Zenon
<1>6. (v \div b) % b = d1 /\ v % b = d0 /\ (v \div (b * b)) % b = d2
  BY <1>4, Zenon
<1> HIDE DEF q1, q2, q3, d0, d1, d2
<1>7. q1 * b = q2 * b * b + d1 * b
  <2>1. q2 * b \in Int
    BY <1>0, <1>2
  <2> QED BY <1>0, <1>2, <2>1, Distribute
<1>8. q2 * b * b = q3 * b * b * b + d2 * b * b
  <2>1. q3 * b \in Int /\ q3 * b * b \in Int /\ d2 * b \in Int
    BY <1>0, <1>3
  <2>2. q2 * b = q3 * b * b + d2 * b
    BY <1>0, <1>3, <2>1, Distribute
  <2> QED BY <1>0, <2>1, <2>2, Distribute
<1>9. v = d0 + d1 * b + d2 * b * b + q3 * b * b * b
  <2>1. q3 * b * b * b \in Int /\ d2 * b * b \in Int /\ d1 * b \in Int /\ q2 * b * b \in Int /\ q1 * b \in Int
    BY <1>0, <1>1, <1>2, <1>3
  <2>2. v = q2 * b * b + d1 * b + d0
    BY <1>1, <1>7, Zenon
  <2>3. v = q3 * b * b * b + d2 * b * b + d1 * b + d0
    BY <1>8, <2>2, Zenon
  <2> DEFINE x0 == d1 * b
             x1 == d2 * b * b
             x2 == q3 * b * b * b
  <2> HIDE DEF x0, x1, x2
  <2>4. x2 + x1 + x0 + d0 = d0 + x0 + x1 + x2
    BY <1>1, <2>1 DEF x0, x1, x2
  <2> QED BY <2>3, <2>4, Zenon DEF x0, x1, x2
<1> QED BY <1>4, <1>5, <1>6, <1>9, Zenon

(* What fixed32() writes, fixed32() reads, wherever it lies in a buffer.   *)
THEOREM Fixed32Inverse ==
  \A buf \in Buffers, pos \in Nat, v \in 0 .. Word - 1 :
    /\ pos + 4 <= Len(buf)
    /\ \A i \in 1 .. 4 : buf[pos + i] = WriteFixed32(v)[i]
    => ReadFixed32(buf, pos) = Read(v, pos + 4)
<1> SUFFICES ASSUME NEW buf \in Buffers, NEW pos \in Nat, NEW v \in 0 .. Word - 1,
                    pos + 4 <= Len(buf), \A i \in 1 .. 4 : buf[pos + i] = WriteFixed32(v)[i]
             PROVE  ReadFixed32(buf, pos) = Read(v, pos + 4)
  OBVIOUS
<1>0. Byte \in Nat \ {0} /\ v \in Nat /\ Len(buf) \in Nat
  BY WordSizes DEF Buffers
<1>1. /\ buf[pos + 1] = v % Byte /\ buf[pos + 2] = (v \div Byte) % Byte
      /\ buf[pos + 3] = (v \div (Byte * Byte)) % Byte /\ buf[pos + 4] = v \div (Byte * Byte * Byte)
  BY DEF WriteFixed32
<1>2. v = (v % Byte) + ((v \div Byte) % Byte) * Byte + ((v \div (Byte * Byte)) % Byte) * Byte * Byte
            + (v \div (Byte * Byte * Byte)) * Byte * Byte * Byte
  BY <1>0, FourDigits, Zenon
<1>3. Fixed32At(buf, pos) = v
  BY <1>1, <1>2, Zenon DEF Fixed32At
<1> QED BY <1>0, <1>3 DEF ReadFixed32

-----------------------------------------------------------------------------
(* Varints.  Septets is a recursive function on pairs of words: it meets its *)
(* equation because each step divides the number by Septet, and no number  *)
(* is left after ten.                                                      *)
Number(bits) == bits.lo + bits.hi * Word

Short(bits) == bits.hi = 0 /\ bits.lo < Septet
First(bits) == (bits.lo % Septet) + Septet

Unrolled(f) ==
  [bits \in LongBits |->
    IF Short(bits) THEN <<bits.lo>> ELSE <<First(bits)>> \o f[Shift(bits)]]

Agree(f, g, bound) == \A bits \in LongBits : Number(bits) < bound => f[bits] = g[bits]

LEMMA PowerSteps ==
  /\ Septet \in Nat \ {0} /\ Nibble \in Nat \ {0} /\ Septet >= 3
  /\ Power[2] = Septet /\ Power[3] = Power[2] * Septet /\ Power[4] = Power[3] * Septet
  /\ Power[5] = Power[4] * Septet
  /\ Power[2] \in Nat \ {0} /\ Power[3] \in Nat \ {0} /\ Power[4] \in Nat \ {0}
  /\ Power[5] \in Nat \ {0} /\ Word = Power[5] * Nibble
  /\ Nibble * Nibble = 2 * Septet
<1>1. Septet \in Nat \ {0} /\ Nibble \in Nat \ {0} /\ Septet >= 3
  BY WireAssumption
<1>2. /\ Power[2] = Septet /\ Power[3] = Power[2] * Septet /\ Power[4] = Power[3] * Septet
      /\ Power[5] = Power[4] * Septet
  BY DEF Power
<1>3. Power[2] \in Nat \ {0} /\ Power[3] \in Nat \ {0}
  BY <1>1, <1>2
<1>4. Power[4] \in Nat \ {0} /\ Power[5] \in Nat \ {0}
  BY <1>1, <1>2, <1>3
<1> QED BY <1>1, <1>2, <1>3, <1>4, WireAssumption DEF Word

LEMMA DigitBelow ==
  ASSUME NEW w \in Nat \ {0}, NEW r \in 0 .. w - 1, NEW m \in Nat, NEW bound \in Nat
  PROVE  r + m * w < bound * w <=> m < bound
<1>1. m * w \in Nat /\ bound * w \in Nat
  OBVIOUS
<1>2. ASSUME m < bound PROVE m * w + w <= bound * w
  <2>1. (m + 1) * w <= bound * w
    BY <1>2
  <2>2. (m + 1) * w = m * w + w
    OBVIOUS
  <2> QED BY <2>1, <2>2
<1>3. ASSUME ~(m < bound) PROVE bound * w <= m * w
  BY <1>3
<1> QED BY <1>1, <1>2, <1>3

LEMMA NumberIsNat == ASSUME NEW bits \in LongBits PROVE Number(bits) \in Nat
<1>1. bits.lo \in Nat /\ bits.hi \in Nat /\ Word \in Nat
  BY WordSizes DEF LongBits
<1>2. bits.hi * Word \in Nat
  BY <1>1
<1> QED BY <1>1, <1>2 DEF Number

\* A step takes the lowest digit off.
LEMMA ShiftNumber ==
  ASSUME NEW bits \in LongBits
  PROVE  /\ Shift(bits) \in LongBits
         /\ Number(bits) = (bits.lo % Septet) + Number(Shift(bits)) * Septet
         /\ bits.lo % Septet \in 0 .. Septet - 1
<1> DEFINE q == Power[4] * Nibble
           a == bits.lo % Septet
           l == bits.lo \div Septet
           c == bits.hi % Septet
           h == bits.hi \div Septet
<1>1. /\ bits.lo \in 0 .. Word - 1 /\ bits.hi \in 0 .. Word - 1
      /\ bits.lo \in Int /\ bits.hi \in Int /\ Word \in Nat \ {0} /\ Septet \in Nat \ {0}
  BY WordSizes DEF LongBits
<1>2. Word = q * Septet /\ q \in Nat \ {0} /\ Word \div Septet = q
  <2>1. q \in Nat \ {0}
    BY PowerSteps
  <2>2. Word = q * Septet
    BY PowerSteps
  <2> HIDE DEF q
  <2> QED BY <1>1, <2>1, <2>2
<1>3. bits.lo = a + l * Septet /\ a \in 0 .. Septet - 1 /\ l \in Int
  <2>1. bits.lo = l * Septet + a /\ a \in 0 .. Septet - 1 /\ l \in Int
    BY <1>1, DivMod, Zenon
  <2> HIDE DEF a, l
  <2> QED BY <1>1, <2>1
<1>4. bits.hi = c + h * Septet /\ c \in 0 .. Septet - 1 /\ h \in Int
  <2>1. bits.hi = h * Septet + c /\ c \in 0 .. Septet - 1 /\ h \in Int
    BY <1>1, DivMod, Zenon
  <2> HIDE DEF c, h
  <2> QED BY <1>1, <2>1
<1>5. Shift(bits) = [lo |-> l + c * q, hi |-> h]
  BY <1>2 DEF Shift
<1> HIDE DEF q, a, l, c, h
<1>6. l \in 0 .. q - 1
  <2>1. l >= 0
    BY <1>1, <1>3
  <2>2. a + l * Septet < q * Septet
    BY <1>1, <1>2, <1>3
  <2> QED BY <1>1, <1>2, <1>3, <2>1, <2>2, DigitBelow
<1>7. h \in 0 .. Word - 1
  <2>1. h >= 0
    BY <1>1, <1>4
  <2>2. h * Septet >= h
    BY <1>1, <1>4, <2>1
  <2>3. h * Septet \in Int
    BY <1>1, <1>4
  <2> QED BY <1>1, <1>4, <2>1, <2>2, <2>3
<1>8. l + c * q \in 0 .. (Septet * q) - 1
  BY <1>1, <1>2, <1>4, <1>6, Digit
<1>9. Shift(bits) \in LongBits
  <2>1. Septet * q = Word
    BY <1>1, <1>2
  <2> QED BY <1>5, <1>7, <1>8, <2>1 DEF LongBits
<1>10. Number(bits) = a + ((l + c * q) + h * Word) * Septet
  <2>1. Number(bits) = (a + l * Septet) + (c + h * Septet) * (q * Septet)
    BY <1>2, <1>3, <1>4 DEF Number
  <2>2. (a + l * Septet) + (c + h * Septet) * (q * Septet)
          = a + ((l + c * q) + h * (q * Septet)) * Septet
    BY <1>1, <1>2, <1>3, <1>4
  <2> QED BY <1>2, <2>1, <2>2
<1> QED BY <1>3, <1>5, <1>9, <1>10 DEF Number, a

\* The numbers of one byte.
LEMMA ShortNumber ==
  ASSUME NEW bits \in LongBits
  PROVE  Short(bits) <=> Number(bits) < Septet
<1>1. /\ bits.lo \in Nat /\ bits.hi \in Nat /\ Word \in Nat /\ Septet \in Nat
      /\ Word >= Septet
  <2>1. Word = (Power[4] * Nibble) * Septet /\ Power[4] * Nibble \in Nat \ {0}
    BY PowerSteps
  <2>2. (Power[4] * Nibble) * Septet >= Septet
    BY <2>1, PowerSteps
  <2> QED BY <2>1, <2>2, WordSizes DEF LongBits
<1>2. bits.hi # 0 => bits.hi * Word >= Word
  BY <1>1
<1>3. bits.hi * Word \in Nat /\ (bits.hi = 0 => bits.hi * Word = 0)
  BY <1>1
<1> QED BY <1>1, <1>2, <1>3 DEF Short, Number

LEMMA AgreeFirst == ASSUME NEW f, NEW g PROVE Agree(Unrolled(f), Unrolled(g), Septet)
BY ShortNumber DEF Agree, Unrolled

LEMMA AgreeNext ==
  ASSUME NEW f, NEW g, NEW bound \in Nat, Agree(f, g, bound)
  PROVE  Agree(Unrolled(f), Unrolled(g), bound * Septet)
<1> SUFFICES ASSUME NEW bits \in LongBits, Number(bits) < bound * Septet
             PROVE  Unrolled(f)[bits] = Unrolled(g)[bits]
  BY DEF Agree
<1>1. Shift(bits) \in LongBits /\ Number(Shift(bits)) \in Nat
  BY ShiftNumber, NumberIsNat
<1>2. Number(Shift(bits)) < bound
  BY <1>1, ShiftNumber, DigitBelow, PowerSteps
<1>3. f[Shift(bits)] = g[Shift(bits)]
  BY <1>1, <1>2 DEF Agree
<1> QED BY <1>3 DEF Unrolled

\* No number of two words has more than ten digits.
LEMMA NumberBound ==
  ASSUME NEW bits \in LongBits
  PROVE  Number(bits) < Power[5] * Power[5] * Septet * Septet
<1> DEFINE p == Power[5]
<1>1. /\ bits.lo \in 0 .. Word - 1 /\ bits.hi \in 0 .. Word - 1
      /\ p \in Nat \ {0} /\ Septet \in Nat \ {0} /\ Septet >= 3 /\ Nibble \in Nat \ {0}
      /\ Word = p * Nibble /\ Nibble * Nibble = 2 * Septet /\ Word \in Nat \ {0}
  BY PowerSteps, WordSizes DEF LongBits
<1> HIDE DEF p
<1>2. Number(bits) \in 0 .. (Word * Word) - 1
  BY <1>1, Digit DEF Number
<1>3. Word * Word = (p * p) * (2 * Septet)
  <2>1. Word * Word = (p * p) * (Nibble * Nibble)
    BY <1>1
  <2> QED BY <1>1, <2>1
<1>4. (p * p) * (2 * Septet) <= (p * p) * (Septet * Septet)
  <2>1. 2 * Septet <= Septet * Septet /\ p * p \in Nat /\ 2 * Septet \in Nat
        /\ Septet * Septet \in Nat
    BY <1>1
  <2>2. \A m, x, y \in Nat : x <= y => m * x <= m * y
    OBVIOUS
  <2> QED BY <2>1, <2>2
<1>5. (p * p) * (Septet * Septet) = p * p * Septet * Septet
  BY <1>1
<1> QED BY <1>1, <1>2, <1>3, <1>4, <1>5 DEF p

LEMMA SeptetsEquation == Septets = Unrolled(Septets)
<1> DEFINE f0 == [bits \in LongBits |-> <<>>]
           f1 == Unrolled(f0)
           f2 == Unrolled(f1)
           f3 == Unrolled(f2)
           f4 == Unrolled(f3)
           f5 == Unrolled(f4)
           f6 == Unrolled(f5)
           f7 == Unrolled(f6)
           f8 == Unrolled(f7)
           f9 == Unrolled(f8)
           f10 == Unrolled(f9)
           p == Power[5] * Power[5]
<1> HIDE DEF f0
<1>0. /\ Septet \in Nat /\ Power[2] = Septet /\ Power[3] = Power[2] * Septet
      /\ Power[4] = Power[3] * Septet /\ Power[5] = Power[4] * Septet
      /\ Power[3] \in Nat /\ Power[4] \in Nat /\ Power[5] \in Nat
  BY PowerSteps
<1>1. Agree(f1, f2, Septet)
  BY AgreeFirst
<1> HIDE DEF f1
<1>2. Agree(f2, f3, Power[3])
  BY <1>0, <1>1, AgreeNext
<1> HIDE DEF f2
<1>3. Agree(f3, f4, Power[4])
  BY <1>0, <1>2, AgreeNext
<1> HIDE DEF f3
<1>4. Agree(f4, f5, Power[5])
  BY <1>0, <1>3, AgreeNext
<1> HIDE DEF f4
<1>a. Power[5] * Septet \in Nat
  BY <1>0
<1>5. Agree(f5, f6, Power[5] * Septet)
  BY <1>0, <1>4, AgreeNext
<1> HIDE DEF f5
<1>b. (Power[5] * Septet) * Septet \in Nat /\ (Power[5] * Septet) * Septet = Power[5] * Power[3]
  BY <1>0
<1>6. Agree(f6, f7, Power[5] * Power[3])
  BY <1>0, <1>5, <1>a, <1>b, AgreeNext
<1> HIDE DEF f6
<1>c. /\ Power[5] * Power[3] \in Nat /\ Power[5] * Power[4] \in Nat
      /\ (Power[5] * Power[3]) * Septet = Power[5] * Power[4]
  BY <1>0
<1>7. Agree(f7, f8, Power[5] * Power[4])
  BY <1>0, <1>6, <1>c, AgreeNext
<1> HIDE DEF f7
<1>d. p \in Nat /\ (Power[5] * Power[4]) * Septet = p
  BY <1>0
<1>8. Agree(f8, f9, p)
  BY <1>0, <1>7, <1>c, <1>d, AgreeNext
<1> HIDE DEF f8
<1>e. p * Septet \in Nat
  BY <1>0, <1>d
<1> HIDE DEF p
<1>9. Agree(f9, f10, p * Septet)
  BY <1>0, <1>8, <1>d, AgreeNext
<1> HIDE DEF f9
<1>10. Agree(f10, Unrolled(f10), p * Septet * Septet)
  BY <1>0, <1>9, <1>e, AgreeNext
<1>11. \A bits \in LongBits : f10[bits] = Unrolled(f10)[bits]
  BY <1>10, NumberBound DEF Agree, p
<1>12. f10 = Unrolled(f10)
  BY <1>11 DEF Unrolled
<1> HIDE DEF f10
<1>13. Septets = CHOOSE g : g = Unrolled(g)
  BY DEF Septets, Unrolled, Short, First
<1> QED BY <1>12, <1>13

LEMMA SeptetsOf ==
  ASSUME NEW bits \in LongBits
  PROVE  /\ Short(bits) => Septets[bits] = <<bits.lo>>
         /\ ~Short(bits) => Septets[bits] = <<First(bits)>> \o Septets[Shift(bits)]
BY SeptetsEquation DEF Unrolled

-----------------------------------------------------------------------------
(* Their lengths: a digit more for a number Septet times as large.         *)
Encoded(low, high, n) ==
  \A bits \in LongBits :
    low <= Number(bits) /\ Number(bits) < high
      => Septets[bits] \in Buffers /\ Len(Septets[bits]) = n

LEMMA Prepended ==
  ASSUME NEW S, NEW x \in S, NEW s \in Seq(S)
  PROVE  /\ <<x>> \in Seq(S) /\ Len(<<x>>) = 1
         /\ <<x>> \o s \in Seq(S) /\ Len(<<x>> \o s) = Len(s) + 1
         /\ (<<x>> \o s)[1] = x
         /\ \A i \in 1 .. Len(s) : (<<x>> \o s)[i + 1] = s[i]
OBVIOUS

LEMMA OneByte == Encoded(0, Septet, 1)
<1> SUFFICES ASSUME NEW bits \in LongBits, Number(bits) < Septet
             PROVE  Septets[bits] \in Buffers /\ Len(Septets[bits]) = 1
  BY DEF Encoded
<1>1. Short(bits) /\ bits.lo \in Nat /\ Byte = 2 * Septet /\ Septet \in Nat
  BY ShortNumber, WordSizes DEF LongBits, Byte
<1>2. bits.lo \in Octets
  BY <1>1 DEF Short, Octets
<1>3. Septets[bits] = <<bits.lo>>
  BY <1>1, SeptetsOf
<1>4. <<>> \in Seq(Octets)
  OBVIOUS
<1>5. <<bits.lo>> \in Seq(Octets) /\ Len(<<bits.lo>>) = 1
  BY <1>2, <1>4, Prepended
<1> QED BY <1>3, <1>5 DEF Buffers

LEMMA OneByteMore ==
  ASSUME NEW low \in Nat \ {0}, NEW high \in Nat, NEW n \in Nat, Encoded(low, high, n)
  PROVE  Encoded(low * Septet, high * Septet, n + 1)
<1> SUFFICES ASSUME NEW bits \in LongBits,
                    low * Septet <= Number(bits), Number(bits) < high * Septet
             PROVE  Septets[bits] \in Buffers /\ Len(Septets[bits]) = n + 1
  BY DEF Encoded
<1>0. /\ Septet \in Nat \ {0} /\ Number(bits) \in Nat /\ Byte = 2 * Septet
      /\ low * Septet \in Nat /\ low * Septet >= Septet
  <2>1. Septet \in Nat \ {0}
    BY WordSizes
  <2>2. low * Septet \in Nat /\ low * Septet >= Septet
    BY <2>1
  <2> QED BY <2>1, <2>2, NumberIsNat DEF Byte
<1>1. Shift(bits) \in LongBits /\ Number(Shift(bits)) \in Nat
  BY ShiftNumber, NumberIsNat
<1>2. Number(Shift(bits)) < high
  BY <1>0, <1>1, ShiftNumber, DigitBelow
<1>3. ~(Number(Shift(bits)) < low)
  <2>1. ~(Number(bits) < low * Septet)
    BY <1>0
  <2> DEFINE m == Number(Shift(bits))
             r == bits.lo % Septet
  <2>2. Number(bits) = r + m * Septet /\ r \in 0 .. Septet - 1 /\ m \in Nat
    BY <1>1, ShiftNumber
  <2> HIDE DEF m, r
  <2>3. r + m * Septet < low * Septet <=> m < low
    BY <1>0, <2>2, DigitBelow
  <2> QED BY <2>1, <2>2, <2>3 DEF m
<1>4. Septets[Shift(bits)] \in Buffers /\ Len(Septets[Shift(bits)]) = n
  BY <1>1, <1>2, <1>3 DEF Encoded
<1>5. First(bits) \in Octets
  <2>1. bits.lo % Septet \in 0 .. Septet - 1
    BY ShiftNumber
  <2> QED BY <1>0, <2>1 DEF First, Octets
<1>6. ~Short(bits)
  BY <1>0, ShortNumber
<1>7. Septets[bits] = <<First(bits)>> \o Septets[Shift(bits)]
  BY <1>6, SeptetsOf
<1>8. /\ <<First(bits)>> \o Septets[Shift(bits)] \in Seq(Octets)
      /\ Len(<<First(bits)>> \o Septets[Shift(bits)]) = Len(Septets[Shift(bits)]) + 1
  <2> DEFINE x == First(bits)
             s == Septets[Shift(bits)]
  <2>1. x \in Octets /\ s \in Seq(Octets)
    BY <1>4, <1>5 DEF Buffers
  <2> HIDE DEF x, s
  <2>2. <<x>> \o s \in Seq(Octets) /\ Len(<<x>> \o s) = Len(s) + 1
    BY <2>1, Prepended
  <2> QED BY <2>2 DEF x, s
<1> QED BY <1>4, <1>7, <1>8 DEF Buffers

\* The bounds of the numbers with n digits.
LEMMA Digits ==
  /\ Encoded(0, Septet, 1)
  /\ Encoded(Septet, Power[3], 2)
  /\ Encoded(Power[3], Power[4], 3)
  /\ Encoded(Power[4], Power[5], 4)
  /\ Encoded(Power[5], Septet * Power[5], 5)
  /\ Encoded(Septet * Power[5], Power[3] * Power[5], 6)
  /\ Encoded(Power[3] * Power[5], Power[4] * Power[5], 7)
  /\ Encoded(Power[4] * Power[5], Power[5] * Power[5], 8)
  /\ Encoded(Power[5] * Power[5], Septet * (Power[5] * Power[5]), 9)
  /\ Encoded(Septet * (Power[5] * Power[5]), Septet * (Septet * (Power[5] * Power[5])), 10)
<1> DEFINE p5 == Power[5]
           p6 == Septet * p5
           p7 == Power[3] * p5
           p8 == Power[4] * p5
           p9 == p5 * p5
           p10 == Septet * p9
           p11 == Septet * p10
<1>0. /\ Septet \in Nat \ {0} /\ Power[3] \in Nat \ {0} /\ Power[4] \in Nat \ {0}
      /\ p5 \in Nat \ {0} /\ Power[3] = Septet * Septet /\ Power[4] = Power[3] * Septet /\ p5 = Power[4] * Septet
  BY PowerSteps
<1> HIDE DEF p5
<1>1. p6 \in Nat \ {0} /\ p6 = p5 * Septet
  BY <1>0
<1>2. p7 \in Nat \ {0} /\ p7 = p6 * Septet
  BY <1>0
<1>3. p8 \in Nat \ {0} /\ p8 = p7 * Septet
  BY <1>0
<1>4. p9 \in Nat \ {0} /\ p9 = p8 * Septet
  BY <1>0
<1> HIDE DEF p6, p7, p8, p9
<1>5. p10 \in Nat \ {0} /\ p10 = p9 * Septet
  BY <1>0, <1>4
<1> HIDE DEF p10
<1>6. p11 \in Nat /\ p11 = p10 * Septet
  BY <1>0, <1>5
<1> HIDE DEF p11
<1>11. Encoded(0, Septet, 1) /\ Encoded(1, Septet, 1)
  BY OneByte, NumberIsNat DEF Encoded
<1>12. Encoded(Septet, Power[3], 2)
  <2>1. Encoded(1 * Septet, Septet * Septet, 1 + 1)
    BY <1>0, <1>11, OneByteMore
  <2> QED BY <1>0, <2>1
<1>13. Encoded(Power[3], Power[4], 3)
  <2>1. Encoded(Septet * Septet, Power[3] * Septet, 2 + 1)
    BY <1>0, <1>12, OneByteMore
  <2> QED BY <1>0, <2>1
<1>14. Encoded(Power[4], p5, 4)
  <2>1. Encoded(Power[3] * Septet, Power[4] * Septet, 3 + 1)
    BY <1>0, <1>13, OneByteMore
  <2> QED BY <1>0, <2>1
<1>15. Encoded(p5, p6, 5)
  <2>1. Encoded(Power[4] * Septet, p5 * Septet, 4 + 1)
    BY <1>0, <1>14, OneByteMore
  <2> QED BY <1>0, <1>1, <2>1
<1>16. Encoded(p6, p7, 6)
  <2>1. Encoded(p5 * Septet, p6 * Septet, 5 + 1)
    BY <1>0, <1>1, <1>15, OneByteMore
  <2> QED BY <1>1, <1>2, <2>1
<1>17. Encoded(p7, p8, 7)
  <2>1. Encoded(p6 * Septet, p7 * Septet, 6 + 1)
    BY <1>1, <1>2, <1>16, OneByteMore
  <2> QED BY <1>2, <1>3, <2>1
<1>18. Encoded(p8, p9, 8)
  <2>1. Encoded(p7 * Septet, p8 * Septet, 7 + 1)
    BY <1>2, <1>3, <1>17, OneByteMore
  <2> QED BY <1>3, <1>4, <2>1
<1>19. Encoded(p9, p10, 9)
  <2>1. Encoded(p8 * Septet, p9 * Septet, 8 + 1)
    BY <1>3, <1>4, <1>18, OneByteMore
  <2> QED BY <1>4, <1>5, <2>1
<1>20. Encoded(p10, p11, 10)
  <2>1. Encoded(p9 * Septet, p10 * Septet, 9 + 1)
    BY <1>4, <1>5, <1>19, OneByteMore
  <2> QED BY <1>5, <1>6, <2>1
<1> QED
  BY <1>11, <1>12, <1>13, <1>14, <1>15, <1>16, <1>17, <1>18, <1>19, <1>20
  DEF p5, p6, p7, p8, p9, p10, p11

\* The three parts Length64 looks at are digits of the number.
LEMMA Parts ==
  ASSUME NEW bits \in LongBits
  PROVE  LET h == Power[5] \div Nibble
             part1 == (bits.lo \div Power[5]) + ((bits.hi % h) * Nibble)
             part2 == bits.hi \div h
         IN  \E low \in 0 .. Power[5] - 1 :
               /\ part1 \in 0 .. Power[5] - 1 /\ part2 \in Nat
               /\ Number(bits) = (low + part1 * Power[5]) + part2 * (Power[5] * Power[5])
               /\ part1 = 0 /\ part2 = 0 => low = bits.lo
<1> DEFINE p == Power[5]
           h == p \div Nibble
           k == bits.lo \div p
           low == bits.lo % p
           g == bits.hi % h
           top == bits.hi \div h
<1>1. /\ bits.lo \in 0 .. Word - 1 /\ bits.hi \in 0 .. Word - 1
      /\ p \in Nat \ {0} /\ Nibble \in Nat \ {0} /\ Word = p * Nibble
      /\ Septet \in Nat \ {0} /\ Word \in Nat /\ bits.lo \in Int /\ bits.hi \in Int
  BY PowerSteps, WordSizes DEF LongBits
<1>2. h \in Nat \ {0} /\ p = h * Nibble
  <2>1. Septet % Nibble = 0
    BY WireAssumption
  <2>2. p = Power[4] * Septet /\ Power[4] \in Nat \ {0}
    BY PowerSteps
  <2>3. Septet = (Septet \div Nibble) * Nibble + 0 /\ Septet \div Nibble \in Int
    BY <1>1, <2>1, DivMod
  <2> DEFINE s == Septet \div Nibble
  <2> HIDE DEF p, s
  <2>4. Septet = s * Nibble /\ s \in Nat \ {0}
    BY <1>1, <2>3 DEF s
  <2>5. p = (Power[4] * s) * Nibble /\ Power[4] * s \in Nat \ {0}
    BY <1>1, <2>2, <2>4
  <2>6. ASSUME NEW x \in Nat \ {0}, NEW y \in Nat \ {0} PROVE (x * y) \div y = x
    OBVIOUS
  <2>7. p \div Nibble = Power[4] * s
    BY <1>1, <2>5, <2>6
  <2> QED BY <2>5, <2>7
<1> HIDE DEF p
<1>3. bits.lo = low + k * p /\ low \in 0 .. p - 1 /\ k \in Int
  <2>1. bits.lo = k * p + low /\ low \in 0 .. p - 1 /\ k \in Int
    BY <1>1, DivMod, Zenon
  <2> HIDE DEF k, low
  <2> QED BY <1>1, <2>1
<1> HIDE DEF h
<1>4. bits.hi = g + top * h /\ g \in 0 .. h - 1 /\ top \in Int
  <2>1. bits.hi = top * h + g /\ g \in 0 .. h - 1 /\ top \in Int
    BY <1>1, <1>2, DivMod, Zenon
  <2> HIDE DEF top, g
  <2> QED BY <1>1, <1>2, <2>1
<1> HIDE DEF k, low, g, top
<1>5. k \in 0 .. Nibble - 1
  <2>1. k >= 0
    BY <1>1, <1>3
  <2>2. low + k * p < Nibble * p
    BY <1>1, <1>3
  <2> QED BY <1>1, <1>3, <2>1, <2>2, DigitBelow
<1>6. top \in Nat
  BY <1>1, <1>2, <1>4
<1>7. k + g * Nibble \in 0 .. p - 1
  BY <1>1, <1>2, <1>4, <1>5, Digit
<1>8. Number(bits) = (low + (k + g * Nibble) * p) + top * (p * p)
  <2>1. Number(bits) = (low + k * p) + (g + top * h) * (p * Nibble)
    BY <1>1, <1>3, <1>4 DEF Number
  <2>2. (low + k * p) + (g + top * h) * (p * Nibble)
          = (low + (k + g * Nibble) * p) + top * (p * (h * Nibble))
    BY <1>1, <1>2, <1>3, <1>4
  <2> QED BY <1>2, <2>1, <2>2
<1>9. k + g * Nibble = 0 => low = bits.lo
  BY <1>1, <1>2, <1>3, <1>4, <1>5
<1> QED BY <1>3, <1>6, <1>7, <1>8, <1>9 DEF p, h, k, low, g, top

\* Length64 puts a number into the range its digits put it.
LEMMA Length64Of ==
  ASSUME NEW bits \in LongBits
  PROVE  Septets[bits] \in Buffers /\ Len(Septets[bits]) = Length64(bits)
<1> DEFINE p == Power[5]
           n == Number(bits)
           pp == p * p
           h == p \div Nibble
           part1 == (bits.lo \div p) + ((bits.hi % h) * Nibble)
           part2 == bits.hi \div h
<1>0. /\ Septet \in Nat \ {0} /\ Power[3] \in Nat \ {0} /\ Power[4] \in Nat \ {0} /\ p \in Nat \ {0}
      /\ pp \in Nat \ {0} /\ n \in Nat /\ Power[3] = Septet * Septet
      /\ Power[4] = Power[3] * Septet /\ p = Power[4] * Septet
  <2>1. /\ Septet \in Nat \ {0} /\ Power[3] \in Nat \ {0} /\ Power[4] \in Nat \ {0}
        /\ p \in Nat \ {0} /\ n \in Nat /\ Power[3] = Septet * Septet
        /\ Power[4] = Power[3] * Septet /\ p = Power[4] * Septet
    BY PowerSteps, NumberIsNat
  <2> HIDE DEF p
  <2> QED BY <2>1
<1>1. PICK low \in 0 .. p - 1 :
        /\ part1 \in 0 .. p - 1 /\ part2 \in Nat
        /\ n = (low + part1 * p) + part2 * pp
        /\ part1 = 0 /\ part2 = 0 => low = bits.lo
  BY Parts
<1>2. Length64(bits) =
        IF part2 # 0 THEN IF part2 < Septet THEN 9 ELSE 10
        ELSE IF part1 # 0
        THEN IF part1 < Power[3] THEN IF part1 < Septet THEN 5 ELSE 6
             ELSE IF part1 < Power[4] THEN 7 ELSE 8
        ELSE IF bits.lo < Power[3] THEN IF bits.lo < Septet THEN 1 ELSE 2
             ELSE IF bits.lo < Power[4] THEN 3 ELSE 4
  BY DEF Length64
<1> DEFINE Is(k) == Septets[bits] \in Buffers /\ Len(Septets[bits]) = k
<1>3. /\ n < Septet => Is(1)
      /\ Septet <= n /\ n < Power[3] => Is(2)
      /\ Power[3] <= n /\ n < Power[4] => Is(3)
      /\ Power[4] <= n /\ n < p => Is(4)
      /\ p <= n /\ n < Septet * p => Is(5)
      /\ Septet * p <= n /\ n < Power[3] * p => Is(6)
      /\ Power[3] * p <= n /\ n < Power[4] * p => Is(7)
      /\ Power[4] * p <= n /\ n < pp => Is(8)
      /\ pp <= n /\ n < Septet * pp => Is(9)
      /\ Septet * pp <= n /\ n < Septet * (Septet * pp) => Is(10)
  <2>1. 0 <= n
    BY <1>0
  <2> QED BY <2>1, Digits DEF Encoded
<1>4. n < Septet * (Septet * pp)
  <2>1. p * p * Septet * Septet = Septet * (Septet * pp)
    BY <1>0
  <2> QED BY <2>1, NumberBound
<1> HIDE DEF p, n, h, part1, part2, Is
<1>5. low + part1 * p \in 0 .. pp - 1
  BY <1>0, <1>1, Digit
<1> HIDE DEF pp
<1>6. CASE part2 # 0
  <2>1. n < 1 * pp <=> part2 < 1
    BY <1>0, <1>1, <1>5, DigitBelow
  <2>2. n < Septet * pp <=> part2 < Septet
    BY <1>0, <1>1, <1>5, DigitBelow
  <2>3. Septet * pp \in Nat
    BY <1>0
  <2>4. ~(part2 < 1) /\ 1 * pp = pp
    BY <1>0, <1>1, <1>6
  <2>5. ~(n < pp)
    BY <2>1, <2>4
  <2>6. pp <= n
    BY <1>0, <2>5
  <2>7. CASE part2 < Septet
    <3>1. Is(9)
      BY <1>3, <2>2, <2>6, <2>7
    <3> QED BY <1>2, <1>6, <2>7, <3>1 DEF Is
  <2>8. CASE ~(part2 < Septet)
    <3>1. Septet * pp <= n
      BY <1>0, <2>2, <2>3, <2>8
    <3>2. Is(10)
      BY <1>3, <1>4, <3>1
    <3> QED BY <1>2, <1>6, <2>8, <3>2 DEF Is
  <2> QED BY <2>7, <2>8 DEF Is
<1>7. CASE part2 = 0 /\ part1 # 0
  <2>1. n = low + part1 * p
    BY <1>0, <1>1, <1>7
  <2>2. /\ n < 1 * p <=> part1 < 1
        /\ n < Septet * p <=> part1 < Septet
    BY <1>0, <1>1, <2>1, DigitBelow
  <2>3. /\ n < Power[3] * p <=> part1 < Power[3]
        /\ n < Power[4] * p <=> part1 < Power[4]
    BY <1>0, <1>1, <2>1, DigitBelow
  <2>4. n < pp
    BY <1>0, <1>5, <2>1
  <2>5. /\ Septet * p \in Nat /\ Power[3] * p \in Nat /\ Power[4] * p \in Nat
        /\ 1 * p = p /\ ~(part1 < 1)
    BY <1>0, <1>1, <1>7
  <2> DEFINE s6 == Septet * p
             s7 == Power[3] * p
             s8 == Power[4] * p
  <2> HIDE DEF s6, s7, s8
  <2>6. /\ p <= n /\ n < s6 => Is(5)
        /\ s6 <= n /\ n < s7 => Is(6)
        /\ s7 <= n /\ n < s8 => Is(7)
        /\ s8 <= n /\ n < pp => Is(8)
    BY <1>3 DEF s6, s7, s8
  <2>7. /\ ~(n < p) /\ (n < s6 <=> part1 < Septet) /\ (n < s7 <=> part1 < Power[3])
        /\ (n < s8 <=> part1 < Power[4]) /\ s6 \in Nat /\ s7 \in Nat /\ s8 \in Nat
    BY <2>2, <2>3, <2>5 DEF s6, s7, s8
  <2>8. p <= n
    BY <1>0, <2>7
  <2>9. CASE part1 < Power[3]
    <3>1. CASE part1 < Septet
      BY <1>2, <1>7, <2>6, <2>7, <2>8, <2>9, <3>1 DEF Is
    <3>2. CASE ~(part1 < Septet)
      <4>1. Is(6)
        BY <1>0, <2>6, <2>7, <2>9, <3>2
      <4> QED BY <1>2, <1>7, <2>9, <3>2, <4>1 DEF Is
    <3> QED BY <3>1, <3>2
  <2>10. CASE ~(part1 < Power[3])
    <3>1. CASE part1 < Power[4]
      <4>1. Is(7)
        BY <1>0, <2>6, <2>7, <2>10, <3>1
      <4> QED BY <1>2, <1>7, <2>10, <3>1, <4>1 DEF Is
    <3>2. CASE ~(part1 < Power[4])
      <4>1. Is(8)
        BY <1>0, <2>4, <2>6, <2>7, <2>10, <3>2
      <4> QED BY <1>2, <1>7, <2>10, <3>2, <4>1 DEF Is
    <3> QED BY <3>1, <3>2
  <2> QED BY <2>9, <2>10
<1>8. CASE part2 = 0 /\ part1 = 0
  <2>1. n = bits.lo /\ n < p
    BY <1>0, <1>1, <1>8
  <2>2. CASE n < Septet
    <3>1. Is(1) /\ n < Power[3]
      BY <1>0, <1>3, <2>2
    <3> QED BY <1>2, <1>8, <2>1, <2>2, <3>1 DEF Is
  <2>3. CASE ~(n < Septet) /\ n < Power[3]
    <3>1. Is(2)
      BY <1>0, <1>3, <2>3
    <3> QED BY <1>2, <1>8, <2>1, <2>3, <3>1 DEF Is
  <2>4. CASE ~(n < Power[3]) /\ n < Power[4]
    <3>1. Is(3)
      BY <1>0, <1>3, <2>4
    <3> QED BY <1>2, <1>8, <2>1, <2>4, <3>1 DEF Is
  <2>5. CASE ~(n < Power[3]) /\ ~(n < Power[4])
    <3>1. Is(4)
      BY <1>0, <1>3, <2>1, <2>5
    <3> QED BY <1>2, <1>8, <2>1, <2>5, <3>1 DEF Is
  <2> QED BY <2>2, <2>3, <2>4, <2>5
<1> QED BY <1>1, <1>6, <1>7, <1>8

LEMMA Length32Of ==
  ASSUME NEW v \in 0 .. Word - 1
  PROVE  WriteVarint32(v) \in Buffers /\ Len(WriteVarint32(v)) = Length32(v)
<1> DEFINE bits == [lo |-> v, hi |-> 0]
           p == Power[5]
           s == Septet * p
<1>0. /\ Word \in Nat \ {0} /\ Word = p * Nibble /\ Nibble \in Nat /\ Nibble <= Septet
      /\ Septet \in Nat \ {0} /\ Power[2] = Septet /\ Power[3] \in Nat /\ Power[4] \in Nat
      /\ p \in Nat
  BY PowerSteps, WordSizes, WireAssumption
<1>1. bits \in LongBits /\ Number(bits) = v
  BY <1>0 DEF LongBits, Number
<1> HIDE DEF p
<1>2. v < s
  <2>1. p * Nibble <= p * Septet /\ p * Septet = s
    BY <1>0
  <2> QED BY <1>0, <2>1
<1>3. s \in Nat
  BY <1>0
<1> HIDE DEF bits, s
<1> DEFINE Is(k) == Septets[bits] \in Buffers /\ Len(Septets[bits]) = k
<1>4. /\ v < Septet => Is(1)
      /\ Septet <= v /\ v < Power[3] => Is(2)
      /\ Power[3] <= v /\ v < Power[4] => Is(3)
      /\ Power[4] <= v /\ v < p => Is(4)
      /\ p <= v /\ v < s => Is(5)
  <2>1. 0 <= v
    OBVIOUS
  <2> QED BY <1>1, <2>1, Digits DEF Encoded, p, s
<1> HIDE DEF Is
<1>5. Is(Length32(v))
  BY <1>0, <1>2, <1>3, <1>4 DEF Length32, p
<1> QED BY <1>5 DEF WriteVarint32, Is, bits

-----------------------------------------------------------------------------
(* The length that a call of the writer counts is that of the bytes which   *)
(* finish() writes for it.                                                 *)
Exact(ops) == \A i \in 1 .. Len(ops) : Len(Written(ops[i])) = ops[i].len

LEMMA OneOp == ASSUME NEW op, Len(Written(op)) = op.len PROVE Exact(<<op>>)
<1>1. Len(<<op>>) = 1 /\ <<op>>[1] = op
  OBVIOUS
<1> QED BY <1>1 DEF Exact

LEMMA TwoOps ==
  ASSUME NEW op1, NEW op2, Len(Written(op1)) = op1.len, Len(Written(op2)) = op2.len
  PROVE  Exact(<<op1, op2>>) /\ Exact(<<op1>> \o <<op2>>)
<1>1. Len(<<op1, op2>>) = 2 /\ <<op1, op2>>[1] = op1 /\ <<op1, op2>>[2] = op2
  OBVIOUS
<1>2. /\ Len(<<op1>> \o <<op2>>) = 2
      /\ (<<op1>> \o <<op2>>)[1] = op1 /\ (<<op1>> \o <<op2>>)[2] = op2
  OBVIOUS
<1> QED BY <1>1, <1>2 DEF Exact

LEMMA WordOf == ASSUME NEW v \in Int PROVE v % Word \in 0 .. Word - 1
BY WordSizes

\* A number is kept in two words, a negative one as its complement.
LEMMA FromNumberLong == ASSUME NEW v \in Int PROVE FromNumber(v) \in LongBits
<1> DEFINE m == IF v < 0 THEN -v ELSE v
           lo == m % Word
           hi == (m \div Word) % Word
<1>1. Word \in Nat \ {0} /\ m \in Nat
  BY WordSizes
<1> HIDE DEF m
<1>2. lo \in 0 .. Word - 1 /\ hi \in 0 .. Word - 1
  BY <1>1
<1>3. FromNumber(v) = IF v >= 0 THEN [lo |-> lo, hi |-> hi]
                      ELSE IF lo = 0 THEN [lo |-> 0, hi |-> (Not(hi) + 1) % Word]
                      ELSE [lo |-> Not(lo) + 1, hi |-> Not(hi)]
  BY DEF FromNumber, m
<1> HIDE DEF lo, hi
<1>4. (Not(hi) + 1) % Word \in 0 .. Word - 1
  BY <1>1, <1>2 DEF Not
<1> QED BY <1>1, <1>2, <1>3, <1>4 DEF LongBits, Not

LEMMA NegativeNumber ==
  ASSUME NEW v \in -(Word * Word) .. -1
  PROVE  Number(FromNumber(v)) = Word * Word + v
<1> DEFINE m == -v
           lo == m % Word
           q == m \div Word
<1>1. Word \in Nat \ {0} /\ m \in 1 .. Word * Word /\ Word * Word \in Nat
  BY WordSizes
<1>2. m = lo + q * Word /\ lo \in 0 .. Word - 1 /\ q \in Int
  <2>1. m \in Int
    BY <1>1
  <2>2. m = q * Word + lo /\ lo \in 0 .. Word - 1 /\ q \in Int
    BY <1>1, <2>1, DivMod, Zenon
  <2> HIDE DEF m, lo, q
  <2> QED BY <1>1, <2>2
<1>3. FromNumber(v) = IF lo = 0 THEN [lo |-> 0, hi |-> (Not(q % Word) + 1) % Word]
                      ELSE [lo |-> Not(lo) + 1, hi |-> Not(q % Word)]
  BY DEF FromNumber
<1>m. m = -v
  OBVIOUS
<1> HIDE DEF m, lo, q
<1>4. q \in Nat
  BY <1>1, <1>2
<1>5. CASE lo = 0
  <2>1. q * Word = m
    BY <1>1, <1>2, <1>4, <1>5
  <2>2. q \in 1 .. Word
    <3>1. q # 0
      BY <1>1, <2>1
    <3>2. ~(q > Word)
      <4>1. q > Word => q * Word >= (Word + 1) * Word
        BY <1>1, <1>4
      <4>2. (Word + 1) * Word = Word * Word + Word
        BY <1>1
      <4> QED BY <1>1, <2>1, <4>1, <4>2
    <3> QED BY <1>1, <1>4, <3>1, <3>2
  <2>3. (Not(q % Word) + 1) % Word = Word - q
    <3>1. CASE q = Word
      <4>1. q % Word = 0
        BY <1>1, <3>1
      <4>2. Not(q % Word) + 1 = Word
        BY <1>1, <4>1 DEF Not
      <4> QED BY <1>1, <3>1, <4>2
    <3>2. CASE q # Word
      <4>1. q % Word = q
        BY <1>1, <2>2, <3>2, ModOfSmall
      <4>2. Not(q % Word) + 1 = Word - q /\ Word - q \in 0 .. Word - 1
        BY <1>1, <2>2, <4>1 DEF Not
      <4> QED BY <1>1, <4>2, ModOfSmall
    <3> QED BY <3>1, <3>2
  <2>4. Number(FromNumber(v)) = (Word - q) * Word
    BY <1>1, <1>3, <1>5, <2>2, <2>3 DEF Number
  <2>5. (Word - q) * Word = Word * Word - q * Word
    BY <1>1, <1>4
  <2> QED BY <1>m, <1>1, <2>1, <2>4, <2>5
<1>6. CASE lo # 0
  <2>1. q < Word
    <3>1. q * Word < Word * Word
      BY <1>1, <1>2, <1>4, <1>6
    <3>2. q >= Word => q * Word >= Word * Word
      BY <1>1, <1>4
    <3> QED BY <1>1, <1>4, <3>1, <3>2
  <2>2. q % Word = q
    BY <1>1, <1>4, <2>1, ModOfSmall
  <2>3. Number(FromNumber(v)) = (Word - lo) + (Word - 1 - q) * Word
    BY <1>1, <1>2, <1>3, <1>4, <1>6, <2>2 DEF Number, Not
  <2>4. (Word - 1 - q) * Word = Word * Word - Word - q * Word
    BY <1>1, <1>4
  <2> QED BY <1>m, <1>1, <1>2, <1>4, <2>3, <2>4
<1> QED BY <1>5, <1>6

\* Ten bytes is what a negative number of 64 bits takes.
LEMMA NegativeIsLong ==
  ASSUME NEW v \in -(Half * Word) .. -1
  PROVE  Len(Septets[FromNumber(v)]) = 10
<1> DEFINE p == Power[5]
           low == Septet * (p * p)
           n == Number(FromNumber(v))
<1>1. /\ Word \in Nat \ {0} /\ Half \in Nat \ {0} /\ Word = 2 * Half /\ Word = p * Nibble
      /\ p \in Nat \ {0} /\ Septet \in Nat \ {0} /\ Nibble \in Nat /\ Nibble * Nibble = 2 * Septet
      /\ Septet >= 2
  BY WordSizes, PowerSteps
<1> HIDE DEF p
<1>2. Word * Word = 2 * low /\ low \in Nat /\ Half * Word = low
  <2>1. Word * Word = (p * p) * (Nibble * Nibble)
    BY <1>1
  <2>2. (p * p) * (Nibble * Nibble) = 2 * (Septet * (p * p))
    BY <1>1
  <2>3. Word * Word = 2 * (Half * Word)
    BY <1>1
  <2>4. Half * Word \in Nat /\ Septet * (p * p) \in Nat
    BY <1>1
  <2> QED BY <2>1, <2>2, <2>3, <2>4
<1> HIDE DEF low
<1>3. v \in -(Word * Word) .. -1 /\ v \in Int
  BY <1>1, <1>2
<1>4. n = Word * Word + v
  BY <1>3, NegativeNumber
<1>5. low <= n /\ n < 2 * low
  BY <1>2, <1>3, <1>4
<1>6. 2 * low <= Septet * low
  BY <1>1, <1>2
<1>7. n < Septet * low
  BY <1>1, <1>2, <1>3, <1>4, <1>5, <1>6
<1>8. FromNumber(v) \in LongBits
  BY <1>3, FromNumberLong
<1>9. Encoded(low, Septet * low, 10)
  BY Digits DEF low, p
<1> QED BY <1>5, <1>7, <1>8, <1>9 DEF Encoded

LEMMA VarintExact ==
  /\ \A v \in 0 .. Word - 1 : Len(Written(Op("varint32", Length32(v), v))) = Length32(v)
  /\ \A bits \in LongBits : Len(Written(Op("varint64", Length64(bits), bits))) = Length64(bits)
  /\ \A v : Len(Written(Op("fixed32", 4, v))) = 4
  /\ \A v : Len(Written(Op("byte", 1, v))) = 1
<1>1. \A fn, len, val : /\ Op(fn, len, val).fn = fn /\ Op(fn, len, val).len = len
                        /\ Op(fn, len, val).val = val
  BY DEF Op
<1>2. \A v \in 0 .. Word - 1 : Len(Written(Op("varint32", Length32(v), v))) = Length32(v)
  BY <1>1, Length32Of DEF Written
<1>3. \A bits \in LongBits : Len(Written(Op("varint64", Length64(bits), bits))) = Length64(bits)
  BY <1>1, Length64Of DEF Written
<1>4. \A v : Len(WriteFixed32(v)) = 4
  BY DEF WriteFixed32
<1>5. \A v : Len(Written(Op("fixed32", 4, v))) = 4
  BY <1>1, <1>4 DEF Written
<1>6. \A v : Len(Written(Op("byte", 1, v))) = 1
  <2>1. \A v : Len(<<v>>) = 1
    OBVIOUS
  <2> QED BY <1>1, <2>1 DEF Written
<1> QED BY <1>2, <1>3, <1>5, <1>6

LEMMA Uint32Exact == ASSUME NEW v \in Int PROVE Exact(Uint32(v))
<1> DEFINE w == v % Word
<1>1. w \in 0 .. Word - 1
  BY WordOf
<1> HIDE DEF w
<1>2. Len(Written(Op("varint32", Length32(w), w))) = Op("varint32", Length32(w), w).len
  BY <1>1, VarintExact DEF Op
<1> QED BY <1>2, OneOp DEF Uint32, w

LEMMA Varint64Exact ==
  ASSUME NEW bits \in LongBits PROVE Exact(<<Op("varint64", Length64(bits), bits)>>)
<1>1. Len(Written(Op("varint64", Length64(bits), bits))) = Op("varint64", Length64(bits), bits).len
  BY VarintExact DEF Op
<1> QED BY <1>1, OneOp

(* For a number, a truth value and bytes the writer counts what finish()    *)
(* writes: int32 has 10 for a negative number at once, which is the length  *)
(* of the varint of any negative number of 64 bits.                        *)
THEOREM CountedIsWritten ==
  /\ \A v \in Int : /\ Exact(Uint32(v)) /\ Exact(Uint64(v))
                    /\ Exact(Sint32(v)) /\ Exact(Sint64(v))
                    /\ Exact(Fixed32(v)) /\ Exact(Fixed64(v))
                    /\ v >= -(Half * Word) => Exact(Int32(v))
  /\ \A truthy : Exact(Bool(truthy))
  /\ \A s \in Buffers : Exact(Bytes(s))
<1>1. ASSUME NEW v \in Int PROVE Exact(Uint64(v))
  BY FromNumberLong, Varint64Exact DEF Uint64
<1>2. ASSUME NEW v \in Int PROVE Exact(Sint32(v))
  <2>1. (2 * v) % Word \in 0 .. Word - 1
    BY WordOf
  <2>2. ZigZag32(v) \in Int
    BY <2>1, WordSizes DEF ZigZag32, Not
  <2> QED BY <2>2, Uint32Exact DEF Sint32
<1>3. ASSUME NEW v \in Int PROVE Exact(Sint64(v))
  BY FromNumberLong, ZigZag64Inverse, Varint64Exact DEF Sint64
<1>4. \A v : Len(Written(Op("fixed32", 4, v))) = Op("fixed32", 4, v).len
  BY VarintExact DEF Op
<1>5. ASSUME NEW v PROVE Exact(Fixed32(v)) /\ Exact(Fixed64(v))
  <2>1. Exact(Fixed32(v))
    BY <1>4, OneOp DEF Fixed32
  <2> DEFINE op1 == Op("fixed32", 4, FromNumber(v).lo)
             op2 == Op("fixed32", 4, FromNumber(v).hi)
  <2>2. Len(Written(op1)) = op1.len /\ Len(Written(op2)) = op2.len
    BY <1>4
  <2>3. Fixed64(v) = <<op1, op2>>
    BY DEF Fixed64
  <2> HIDE DEF op1, op2
  <2> QED BY <2>1, <2>2, <2>3, TwoOps
<1>6. ASSUME NEW v \in Int, v >= -(Half * Word) PROVE Exact(Int32(v))
  <2>1. CASE v < 0
    <3>1. v \in -(Half * Word) .. -1
      BY <1>6, <2>1, WordSizes
    <3>2. Len(Written(Op("varint64", 10, FromNumber(v)))) = 10
      BY <3>1, NegativeIsLong DEF Written, Op
    <3>3. Op("varint64", 10, FromNumber(v)).len = 10
      BY DEF Op
    <3> QED BY <2>1, <3>2, <3>3, OneOp DEF Int32
  <2>2. CASE ~(v < 0)
    BY <2>2, Uint32Exact DEF Int32
  <2> QED BY <2>1, <2>2
<1>7. ASSUME NEW truthy PROVE Exact(Bool(truthy))
  <2>1. \A v : Len(Written(Op("byte", 1, v))) = Op("byte", 1, v).len
    BY VarintExact DEF Op
  <2> QED BY <2>1, OneOp DEF Bool
<1>8. ASSUME NEW s \in Buffers PROVE Exact(Bytes(s))
  <2>1. CASE s = <<>>
    <3>1. Len(Written(Op("byte", 1, 0))) = Op("byte", 1, 0).len
      BY VarintExact DEF Op
    <3> QED BY <2>1, <3>1, OneOp DEF Bytes
  <2>2. CASE s # <<>>
    <3> DEFINE w == Len(s) % Word
               op1 == Op("varint32", Length32(w), w)
               op2 == Op("bytes", Len(s), s)
    <3>1. Len(s) \in Int
      BY DEF Buffers
    <3>2. w \in 0 .. Word - 1
      BY <3>1, WordOf
    <3>3. Len(Written(op1)) = op1.len
      BY <3>2, VarintExact DEF Op
    <3>4. Len(Written(op2)) = op2.len
      BY DEF Op, Written
    <3>5. Bytes(s) = <<op1>> \o <<op2>>
      BY <2>2 DEF Bytes, Uint32
    <3> HIDE DEF op1, op2
    <3> QED BY <3>3, <3>4, <3>5, TwoOps
  <2> QED BY <2>1, <2>2
<1> QED BY <1>1, <1>2, <1>3, <1>5, <1>6, <1>7, <1>8, Uint32Exact

-----------------------------------------------------------------------------
(* Varints read back.  d has the ten digits of a number; the first k + 1 of  *)
(* them are in the buffer, and the others are 0.                           *)
Lies(buf, pos, bytes) ==
  /\ pos + Len(bytes) <= Len(buf)
  /\ \A i \in 1 .. Len(bytes) : buf[pos + i] = bytes[i]

Digits10 == [0 .. 9 -> 0 .. Septet - 1]

Value(d) ==
  d[0] + Septet * (d[1] + Septet * (d[2] + Septet * (d[3] + Septet * (d[4]
    + Septet * (d[5] + Septet * (d[6] + Septet * (d[7] + Septet * (d[8] + Septet * d[9]))))))))

InBuffer(buf, pos, d, k) ==
  /\ \A j \in 0 .. 9 : j < k => Octet(buf, pos + j) = d[j] + Septet
  /\ Octet(buf, pos + k) = d[k]
  /\ \A j \in 0 .. 9 : j > k => d[j] = 0

AsDigits(bits, k) ==
  \A buf \in Buffers, pos \in Nat : Lies(buf, pos, Septets[bits]) =>
    \E d \in Digits10 : Value(d) = Number(bits) /\ InBuffer(buf, pos, d, k)

OfLength(n) == \A bits \in LongBits : Len(Septets[bits]) = n => AsDigits(bits, n - 1)

LEMMA FirstByte ==
  ASSUME NEW bits \in LongBits, NEW buf \in Buffers, NEW pos \in Nat,
         Lies(buf, pos, Septets[bits])
  PROVE  /\ Short(bits) => Octet(buf, pos) = bits.lo /\ Len(Septets[bits]) = 1
         /\ ~Short(bits) => /\ Octet(buf, pos) = (bits.lo % Septet) + Septet
                            /\ Lies(buf, pos + 1, Septets[Shift(bits)])
                            /\ Len(Septets[bits]) = Len(Septets[Shift(bits)]) + 1
                            /\ Len(Septets[Shift(bits)]) \in Nat \ {0}
<1>1. Len(buf) \in Nat
  BY DEF Buffers
<1>2. CASE Short(bits)
  <2>1. Septets[bits] = <<bits.lo>>
    BY <1>2, SeptetsOf
  <2>2. Len(<<bits.lo>>) = 1 /\ <<bits.lo>>[1] = bits.lo
    OBVIOUS
  <2> QED BY <1>1, <1>2, <2>1, <2>2 DEF Lies, Octet
<1>3. CASE ~Short(bits)
  <2> DEFINE x == First(bits)
             s == Septets[Shift(bits)]
             all == Septets[bits]
  <2>1. all = <<x>> \o s /\ s \in Seq(Octets) /\ x \in Octets /\ Len(s) \in Nat \ {0}
    <3>1. Shift(bits) \in LongBits /\ bits.lo % Septet \in 0 .. Septet - 1
      BY ShiftNumber
    <3>2. s \in Seq(Octets) /\ Len(s) = Length64(Shift(bits))
      BY <3>1, Length64Of DEF Buffers
    <3>3. Len(s) # 0
      BY <3>2 DEF Length64
    <3>4. x \in Octets
      BY <3>1, WordSizes DEF First, Octets, Byte
    <3>5. all = <<x>> \o s
      BY <1>3, SeptetsOf
    <3> HIDE DEF x, s, all
    <3> QED BY <3>2, <3>3, <3>4, <3>5
  <2>2. pos + Len(all) <= Len(buf) /\ \A i \in 1 .. Len(all) : buf[pos + i] = all[i]
    BY DEF Lies
  <2> HIDE DEF s, all
  <2>3. Len(all) = Len(s) + 1 /\ all[1] = x /\ \A i \in 1 .. Len(s) : all[i + 1] = s[i]
    <3> HIDE DEF x
    <3> QED BY <2>1, Prepended
  <2>4. buf[pos + 1] = x /\ pos < Len(buf)
    BY <1>1, <2>1, <2>2, <2>3
  <2>5. Octet(buf, pos) = (bits.lo % Septet) + Septet
    BY <2>4 DEF Octet, First
  <2>6. pos + 1 + Len(s) <= Len(buf)
    BY <1>1, <2>1, <2>2, <2>3
  <2>7. ASSUME NEW i \in 1 .. Len(s) PROVE buf[(pos + 1) + i] = s[i]
    <3>1. i + 1 \in 1 .. Len(all) /\ pos + (i + 1) = (pos + 1) + i
      BY <2>1, <2>3
    <3> QED BY <2>2, <2>3, <3>1
  <2>8. Lies(buf, pos + 1, s)
    BY <2>6, <2>7 DEF Lies
  <2> QED BY <1>3, <2>1, <2>3, <2>5, <2>8 DEF s, all
<1> QED BY <1>2, <1>3

LEMMA OfLengthOne == OfLength(1)
<1> SUFFICES ASSUME NEW bits \in LongBits, Len(Septets[bits]) = 1,
                    NEW buf \in Buffers, NEW pos \in Nat, Lies(buf, pos, Septets[bits])
             PROVE  \E d \in Digits10 : Value(d) = Number(bits) /\ InBuffer(buf, pos, d, 0)
  BY DEF OfLength, AsDigits
<1>1. Short(bits) /\ Octet(buf, pos) = bits.lo
  <2> DEFINE n == Len(Septets[Shift(bits)])
  <2>1. ~Short(bits) => Len(Septets[bits]) = n + 1 /\ n \in Nat \ {0}
    BY FirstByte
  <2>2. Short(bits)
    <3> HIDE DEF n
    <3> QED BY <2>1
  <2> QED BY <2>2, FirstByte
<1> DEFINE d == [j \in 0 .. 9 |-> IF j = 0 THEN bits.lo ELSE 0]
<1>2. bits.lo \in 0 .. Septet - 1 /\ Number(bits) = bits.lo /\ Septet \in Nat \ {0}
  BY <1>1, WordSizes DEF Short, Number, LongBits
<1>3. d \in Digits10
  BY <1>2 DEF Digits10
<1>4. d[0] = bits.lo /\ \A j \in 0 .. 9 : j > 0 => d[j] = 0
  OBVIOUS
<1> HIDE DEF d
<1>5. Value(d) = bits.lo
  BY <1>2, <1>4 DEF Value
<1>6. InBuffer(buf, pos, d, 0)
  BY <1>1, <1>4 DEF InBuffer
<1> QED BY <1>2, <1>3, <1>5, <1>6

LEMMA OfLengthMore ==
  ASSUME NEW n \in 1 .. 9, OfLength(n)
  PROVE  OfLength(n + 1)
<1> SUFFICES ASSUME NEW bits \in LongBits, Len(Septets[bits]) = n + 1,
                    NEW buf \in Buffers, NEW pos \in Nat, Lies(buf, pos, Septets[bits])
             PROVE  \E d \in Digits10 : Value(d) = Number(bits) /\ InBuffer(buf, pos, d, n)
  BY DEF OfLength, AsDigits
<1>1. ~Short(bits)
  <2>1. Len(Septets[bits]) # 1
    OBVIOUS
  <2>2. Short(bits) => Len(Septets[bits]) = 1
    BY FirstByte
  <2> QED BY <2>1, <2>2
<1>2. /\ Octet(buf, pos) = (bits.lo % Septet) + Septet
      /\ Lies(buf, pos + 1, Septets[Shift(bits)])
      /\ Len(Septets[Shift(bits)]) = n
  BY <1>1, FirstByte
<1>3. Shift(bits) \in LongBits /\ bits.lo % Septet \in 0 .. Septet - 1
      /\ Number(bits) = (bits.lo % Septet) + Number(Shift(bits)) * Septet
      /\ Number(Shift(bits)) \in Nat /\ Septet \in Nat \ {0}
  BY ShiftNumber, NumberIsNat, WordSizes
<1>4. PICK e \in Digits10 : Value(e) = Number(Shift(bits)) /\ InBuffer(buf, pos + 1, e, n - 1)
  BY <1>2, <1>3 DEF OfLength, AsDigits
<1> DEFINE x == bits.lo % Septet
           d == [j \in 0 .. 9 |-> IF j = 0 THEN x ELSE e[j - 1]]
<1> HIDE DEF x
<1>5. d \in Digits10
  BY <1>3 DEF Digits10, x
<1>d. d[0] = x /\ \A j \in 1 .. 9 : d[j] = e[j - 1]
  OBVIOUS
<1>6. /\ d[0] = x /\ d[1] = e[0] /\ d[2] = e[1] /\ d[3] = e[2] /\ d[4] = e[3] /\ d[5] = e[4]
      /\ d[6] = e[5] /\ d[7] = e[6] /\ d[8] = e[7] /\ d[9] = e[8]
  OBVIOUS
<1> HIDE DEF d
<1>7. e[9] = 0 /\ e[8] \in Nat
  <2>1. 9 \in 0 .. 9 /\ 9 > n - 1
    OBVIOUS
  <2>2. e[9] = 0
    BY <1>4, <2>1 DEF InBuffer
  <2>3. e[8] \in 0 .. Septet - 1
    BY DEF Digits10
  <2> QED BY <1>3, <2>2, <2>3
<1>8. e[8] + Septet * e[9] = e[8]
  BY <1>3, <1>7
<1>9. Value(d) = x + Septet * Value(e)
  BY <1>6, <1>8 DEF Value
<1>10. Value(d) = Number(bits)
  BY <1>3, <1>4, <1>9 DEF x
<1>11. InBuffer(buf, pos, d, n)
  <2>1. ASSUME NEW j \in 0 .. 9, j < n PROVE Octet(buf, pos + j) = d[j] + Septet
    <3>1. CASE j = 0
      BY <1>2, <1>d, <3>1 DEF x
    <3>2. CASE j # 0
      <4>1. j \in 1 .. 9 /\ j - 1 \in 0 .. 9 /\ j - 1 < n - 1 /\ (pos + 1) + (j - 1) = pos + j
        BY <2>1, <3>2
      <4>2. Octet(buf, (pos + 1) + (j - 1)) = e[j - 1] + Septet
        BY <1>4, <4>1 DEF InBuffer
      <4>3. d[j] = e[j - 1]
        BY <1>d, <4>1
      <4> QED BY <4>1, <4>2, <4>3
    <3> QED BY <3>1, <3>2
  <2>2. Octet(buf, pos + n) = d[n]
    <3>1. (pos + 1) + (n - 1) = pos + n
      OBVIOUS
    <3>2. d[n] = e[n - 1]
      BY <1>d
    <3> QED BY <1>4, <3>1, <3>2 DEF InBuffer
  <2>3. ASSUME NEW j \in 0 .. 9, j > n PROVE d[j] = 0
    <3>1. j \in 1 .. 9 /\ j - 1 \in 0 .. 9 /\ j - 1 > n - 1
      BY <2>3
    <3>2. d[j] = e[j - 1]
      BY <1>d, <3>1
    <3> QED BY <1>4, <3>1, <3>2 DEF InBuffer
  <2> QED BY <2>1, <2>2, <2>3 DEF InBuffer
<1> QED BY <1>5, <1>10, <1>11

LEMMA ReadDigits ==
  ASSUME NEW bits \in LongBits
  PROVE  Len(Septets[bits]) \in 1 .. 10 /\ AsDigits(bits, Len(Septets[bits]) - 1)
<1>1. Len(Septets[bits]) \in 1 .. 10
  <2>1. Length64(bits) \in 1 .. 10
    BY DEF Length64
  <2> QED BY <2>1, Length64Of
<1>2. OfLength(1) /\ OfLength(2) /\ OfLength(3) /\ OfLength(4) /\ OfLength(5)
  <2>1. OfLength(1 + 1)
    BY OfLengthOne, OfLengthMore
  <2>2. OfLength(2 + 1)
    BY <2>1, OfLengthMore
  <2>3. OfLength(3 + 1)
    BY <2>2, OfLengthMore
  <2>4. OfLength(4 + 1)
    BY <2>3, OfLengthMore
  <2> QED BY <2>1, <2>2, <2>3, <2>4, OfLengthOne
<1>3. OfLength(6) /\ OfLength(7) /\ OfLength(8) /\ OfLength(9) /\ OfLength(10)
  <2>1. OfLength(5 + 1)
    BY <1>2, OfLengthMore
  <2>2. OfLength(6 + 1)
    BY <2>1, OfLengthMore
  <2>3. OfLength(7 + 1)
    BY <2>2, OfLengthMore
  <2>4. OfLength(8 + 1)
    BY <2>3, OfLengthMore
  <2>5. OfLength(9 + 1)
    BY <2>4, OfLengthMore
  <2> QED BY <2>1, <2>2, <2>3, <2>4, <2>5
<1> DEFINE n == Len(Septets[bits])
<1>4. n \in 1 .. 10
  BY <1>1
<1>5. OfLength(n)
  <2> HIDE DEF n
  <2> QED BY <1>2, <1>3, <1>4
<1> QED BY <1>1, <1>5 DEF OfLength

LEMMA PayloadOf ==
  ASSUME NEW buf \in Buffers, NEW pos \in Nat, NEW d \in Digits10, NEW k \in 0 .. 9,
         InBuffer(buf, pos, d, k), NEW last \in 0 .. 9, NEW j \in 0 .. 9,
         last = k \/ (last < k /\ j <= last)
  PROVE  Payload(buf, pos, j, last) = d[j]
<1>1. d[j] \in 0 .. Septet - 1 /\ Septet \in Nat \ {0}
  BY WordSizes DEF Digits10
<1>2. CASE j < k
  <2>1. Octet(buf, pos + j) = d[j] + Septet /\ ~(j > last)
    BY <1>2 DEF InBuffer
  <2>2. (d[j] + Septet) % Septet = d[j]
    <3>1. \A w \in Nat \ {0} : \A x \in 0 .. w - 1 : (x + w) % w = x
      OBVIOUS
    <3> QED BY <1>1, <3>1
  <2> QED BY <2>1, <2>2 DEF Payload
<1>3. CASE j = k
  <2>1. Octet(buf, pos + j) = d[j] /\ ~(j > last)
    BY <1>3 DEF InBuffer
  <2>2. d[j] % Septet = d[j]
    BY <1>1, ModOfSmall
  <2> QED BY <2>1, <2>2 DEF Payload
<1>4. CASE j > k
  <2>1. d[j] = 0 /\ j > last
    BY <1>4 DEF InBuffer
  <2> QED BY <2>1 DEF Payload
<1> QED BY <1>2, <1>3, <1>4

\* The first byte without continuation is that of the last digit.
LEMMA LastIs ==
  ASSUME NEW buf \in Buffers, NEW pos \in Nat, NEW d \in Digits10, NEW k \in 0 .. 9,
         InBuffer(buf, pos, d, k), NEW n \in 0 .. 10
  PROVE  LastOctet(buf, pos, n) = IF k < n THEN k ELSE n
<1> DEFINE ends == {i \in 0 .. n - 1 : Octet(buf, pos + i) < Septet}
<1>1. \A j \in 0 .. 9 : d[j] \in 0 .. Septet - 1
  BY DEF Digits10
<1>2. \A i \in ends : i >= k
  <2> SUFFICES ASSUME NEW i \in ends, ~(i >= k) PROVE FALSE
    OBVIOUS
  <2>1. i \in 0 .. 9 /\ i < k /\ Octet(buf, pos + i) < Septet
    BY SMT
  <2>2. Octet(buf, pos + i) = d[i] + Septet
    BY <2>1 DEF InBuffer
  <2> QED BY <1>1, <2>1, <2>2, WordSizes
<1>3. LastOctet(buf, pos, n)
        = IF ends = {} THEN n ELSE CHOOSE i \in ends : \A j \in ends : i <= j
  BY DEF LastOctet
<1>4. CASE k < n
  <2>1. Octet(buf, pos + k) < Septet
    BY <1>1, WordSizes DEF InBuffer
  <2>2. k \in ends
    BY <1>4, <2>1
  <2>3. ends \subseteq Int
    OBVIOUS
  <2> HIDE DEF ends
  <2>4. \A i \in ends : (\A j \in ends : i <= j) => i = k
    BY <1>2, <2>2, <2>3
  <2>5. \A j \in ends : k <= j
    BY <1>2, <2>3
  <2> QED BY <1>3, <1>4, <2>2, <2>4, <2>5
<1>5. CASE ~(k < n)
  <2>1. ends = {}
    BY <1>2, <1>5
  <2> QED BY <1>3, <1>5, <2>1
<1> QED BY <1>4, <1>5

\* The two words that the reader puts together of the digits.
LEMMA WordsOf ==
  ASSUME NEW bits \in LongBits, NEW d \in Digits10, Value(d) = Number(bits)
  PROVE  /\ bits.lo = d[0] + d[1] * Power[2] + d[2] * Power[3] + d[3] * Power[4]
                        + (d[4] % Nibble) * Power[5]
         /\ bits.hi = ((d[4] \div Nibble)
                         + (Septet \div Nibble) * (d[5] + d[6] * Power[2] + d[7] * Power[3]
                                                     + d[8] * Power[4] + d[9] * Power[5])) % Word
<1> DEFINE s == Septet
           p3 == Power[3]
           p4 == Power[4]
           p5 == Power[5]
           r == d[4] % Nibble
           q == d[4] \div Nibble
           m == Septet \div Nibble
           t == d[5] + d[6] * s + d[7] * p3 + d[8] * p4 + d[9] * p5
           low4 == d[0] + d[1] * s + d[2] * p3 + d[3] * p4
           low == low4 + r * p5
           high == q + m * t
<1>1. /\ s \in Nat \ {0} /\ Nibble \in Nat \ {0} /\ Power[2] = s
      /\ p3 \in Nat \ {0} /\ p4 \in Nat \ {0} /\ p5 \in Nat \ {0}
      /\ p3 = s * s /\ p4 = p3 * s /\ p5 = p4 * s /\ Word = p5 * Nibble
  BY PowerSteps
<1>2. s = m * Nibble /\ m \in Nat
  <2>1. Septet % Nibble = 0 /\ Septet \in Int
    BY <1>1, WireAssumption
  <2>2. Septet = m * Nibble + 0
    BY <1>1, <2>1, DivMod
  <2>3. m \in Nat
    BY <1>1, DivNat
  <2> HIDE DEF m
  <2> QED BY <1>1, <2>1, <2>2, <2>3
<1>3. /\ d[0] \in 0 .. s - 1 /\ d[1] \in 0 .. s - 1 /\ d[2] \in 0 .. s - 1 /\ d[3] \in 0 .. s - 1
      /\ d[4] \in 0 .. s - 1 /\ d[5] \in 0 .. s - 1 /\ d[6] \in 0 .. s - 1 /\ d[7] \in 0 .. s - 1
      /\ d[8] \in 0 .. s - 1 /\ d[9] \in 0 .. s - 1
  BY DEF Digits10
<1>4. d[4] = r + q * Nibble /\ r \in 0 .. Nibble - 1 /\ q \in Nat
  <2>1. d[4] \in Int /\ d[4] \in Nat
    BY <1>1, <1>3
  <2>2. d[4] = q * Nibble + r /\ r \in 0 .. Nibble - 1 /\ q \in Int
    BY <1>1, <2>1, DivMod, Zenon
  <2>3. q \in Nat
    BY <1>1, <2>1, DivNat
  <2> HIDE DEF q, r
  <2> QED BY <1>1, <2>2, <2>3
<1> HIDE DEF m, q, r, s, p3, p4, p5
<1>5. low4 \in 0 .. p5 - 1
  <2>1. d[0] + d[1] * s \in 0 .. s * s - 1
    BY <1>1, <1>3, Digit
  <2> DEFINE x == d[0] + d[1] * s
  <2> HIDE DEF x
  <2>2. x \in 0 .. p3 - 1
    BY <1>1, <2>1 DEF x
  <2>3. x + d[2] * p3 \in 0 .. s * p3 - 1
    BY <1>1, <1>3, <2>2, Digit
  <2> DEFINE y == x + d[2] * p3
  <2> HIDE DEF y
  <2>4. y \in 0 .. p4 - 1
    BY <1>1, <2>3 DEF y
  <2>5. y + d[3] * p4 \in 0 .. s * p4 - 1
    BY <1>1, <1>3, <2>4, Digit
  <2>6. s * p4 = p5
    BY <1>1
  <2> QED BY <2>5, <2>6 DEF x, y
<1>6. low \in 0 .. Word - 1
  <2> HIDE DEF low4
  <2>1. low4 + r * p5 \in 0 .. Nibble * p5 - 1
    BY <1>1, <1>4, <1>5, Digit
  <2>2. Nibble * p5 = Word
    BY <1>1
  <2> QED BY <2>1, <2>2
<1>7. t \in Nat /\ high \in Nat
  <2>1. /\ d[6] * s \in Nat /\ d[7] * p3 \in Nat /\ d[8] * p4 \in Nat /\ d[9] * p5 \in Nat
        /\ d[5] \in Nat
    BY <1>1, <1>3
  <2>2. t \in Nat
    BY <2>1
  <2> HIDE DEF t
  <2>3. m * t \in Nat
    BY <1>2, <2>2
  <2> QED BY <1>4, <2>2, <2>3
<1>8. Number(bits) = low + high * Word
  <2> DEFINE u == d[5] + s * (d[6] + s * (d[7] + s * (d[8] + s * d[9])))
  <2>1. t = u
    BY <1>1, <1>3
  <2> HIDE DEF t, u
  <2>2. Value(d) = d[0] + s * (d[1] + s * (d[2] + s * (d[3] + s * (d[4] + s * u))))
    BY DEF Value, s, u
  <2>3. d[4] + s * u = r + high * Nibble
    <3>1. d[4] + s * u = (r + q * Nibble) + (m * Nibble) * t
      BY <1>2, <1>4, <2>1
    <3>2. (q + m * t) * Nibble = q * Nibble + (m * Nibble) * t
      BY <1>1, <1>2, <1>4, <1>7
    <3>3. q * Nibble \in Nat /\ (m * Nibble) * t \in Nat
      BY <1>1, <1>2, <1>4, <1>7
    <3> QED BY <1>4, <3>1, <3>2, <3>3
  <2> HIDE DEF high
  <2>4. d[0] + s * (d[1] + s * (d[2] + s * (d[3] + s * (r + high * Nibble))))
          = low + high * (p5 * Nibble)
    BY <1>1, <1>3, <1>4, <1>7
  <2> QED BY <1>1, <2>2, <2>3, <2>4
<1> HIDE DEF low, high, t
<1>9. bits.lo = low /\ bits.hi = high
  <2>1. bits.lo \in 0 .. Word - 1 /\ bits.hi \in Nat /\ Word \in Nat \ {0}
    BY WordSizes DEF LongBits
  <2>2. bits.lo + bits.hi * Word = low + high * Word
    BY <1>8 DEF Number
  <2>3. /\ (bits.lo + bits.hi * Word) % Word = bits.lo
        /\ (bits.lo + bits.hi * Word) \div Word = bits.hi
    BY <2>1, TwoDigits
  <2>4. (low + high * Word) % Word = low /\ (low + high * Word) \div Word = high
    BY <1>6, <1>7, <2>1, TwoDigits
  <2> QED BY <2>2, <2>3, <2>4
<1>10. high % Word = high
  <2>1. bits.hi \in 0 .. Word - 1 /\ Word \in Nat \ {0}
    BY WordSizes DEF LongBits
  <2> QED BY <1>9, <2>1, ModOfSmall
<1> QED BY <1>1, <1>9, <1>10 DEF low, low4, high, t, r, q, m, s, p3, p4, p5

LEMMA ReadUint32Of ==
  ASSUME NEW buf \in Buffers, NEW pos \in Nat, NEW bits \in LongBits,
         Lies(buf, pos, Septets[bits]),
         Len(Septets[bits]) <= 5 \/ Len(Septets[bits]) = 10
  PROVE  ReadUint32(buf, pos) = Read(bits.lo, pos + Len(Septets[bits]))
<1> DEFINE n == Len(Septets[bits])
           k == n - 1
<1>1. n \in 1 .. 10 /\ pos + n <= Len(buf) /\ (n <= 5 \/ n = 10)
  BY ReadDigits DEF Lies
<1>2. PICK d \in Digits10 : Value(d) = Number(bits) /\ InBuffer(buf, pos, d, k)
  BY ReadDigits DEF AsDigits
<1> HIDE DEF n
<1>3. k \in 0 .. 9
  BY <1>1
<1>4. LastOctet(buf, pos, 5) = IF k < 5 THEN k ELSE 5
  BY <1>2, <1>3, LastIs
<1> DEFINE last == IF k < 5 THEN k ELSE 4
<1>5. LowWord(buf, pos, last) = bits.lo
  <2>1. \A j \in 0 .. 4 : Payload(buf, pos, j, last) = d[j]
    <3> TAKE j \in 0 .. 4
    <3>1. last \in 0 .. 9 /\ j \in 0 .. 9 /\ (last = k \/ (last < k /\ j <= last))
      BY <1>3
    <3>2. CASE last = k
      BY <1>2, <1>3, <3>1, <3>2, PayloadOf
    <3>3. CASE last < k /\ j <= last
      BY <1>2, <1>3, <3>1, <3>3, PayloadOf
    <3> QED BY <3>1, <3>2, <3>3
  <2>2. Payload(buf, pos, 0, last) = d[0] /\ Payload(buf, pos, 1, last) = d[1]
        /\ Payload(buf, pos, 2, last) = d[2] /\ Payload(buf, pos, 3, last) = d[3]
        /\ Payload(buf, pos, 4, last) = d[4]
    BY <2>1
  <2> QED BY <1>2, <2>2, WordsOf DEF LowWord
<1>6. CASE n <= 5
  <2>1. LastOctet(buf, pos, 5) = k /\ last = k /\ k < 5 /\ pos + k + 1 = pos + n
    BY <1>1, <1>4, <1>6
  <2> QED BY <1>5, <2>1 DEF ReadUint32, n
<1>7. CASE n = 10
  <2>1. LastOctet(buf, pos, 5) = 5 /\ last = 4 /\ ~(pos + 10 > Len(buf)) /\ pos + 10 = pos + n
    BY <1>1, <1>4, <1>7 DEF Buffers
  <2> QED BY <1>5, <2>1 DEF ReadUint32, n
<1> QED BY <1>1, <1>6, <1>7

LEMMA ReadLongOf ==
  ASSUME NEW buf \in Buffers, NEW pos \in Nat, NEW bits \in LongBits,
         Lies(buf, pos, Septets[bits])
  PROVE  ReadLongVarint(buf, pos) = Read(bits, pos + Len(Septets[bits]))
<1> DEFINE n == Len(Septets[bits])
           k == n - 1
<1>1. n \in 1 .. 10 /\ pos + n <= Len(buf) /\ Len(buf) \in Nat
  BY ReadDigits DEF Lies, Buffers
<1>2. PICK d \in Digits10 : Value(d) = Number(bits) /\ InBuffer(buf, pos, d, k)
  BY ReadDigits DEF AsDigits
<1>n. pos + Len(Septets[bits]) = pos + n
  OBVIOUS
<1> HIDE DEF n
<1>3. k \in 0 .. 9
  BY <1>1
<1>4. LastOfLong(buf, pos) = k /\ ~(k = 10) /\ ~(k = 3 /\ Len(buf) - pos < 3)
  <2>1. LastOctet(buf, pos, 10) = IF k < 10 THEN k ELSE 10
    BY <1>2, <1>3, LastIs
  <2>2. LastOctet(buf, pos, 3) = IF k < 3 THEN k ELSE 3
    BY <1>2, <1>3, LastIs
  <2> QED BY <1>1, <1>3, <2>1, <2>2 DEF LastOfLong
<1>5. \A j \in 0 .. 9 : Payload(buf, pos, j, k) = d[j]
  BY <1>2, <1>3, PayloadOf
<1>6. LowWord(buf, pos, k) = bits.lo
  BY <1>2, <1>5, WordsOf DEF LowWord
<1>7. HighWord(buf, pos, k) = bits.hi
  BY <1>2, <1>5, WordsOf DEF HighWord
<1>8. bits = [lo |-> bits.lo, hi |-> bits.hi]
  BY DEF LongBits
<1>9. pos + k + 1 = pos + n
  BY <1>1
<1> QED BY <1>n, <1>4, <1>6, <1>7, <1>8, <1>9 DEF ReadLongVarint, LongAt

-----------------------------------------------------------------------------
LEMMA WordAsLong ==
  ASSUME NEW v \in 0 .. Word - 1
  PROVE  /\ [lo |-> v, hi |-> 0] \in LongBits
         /\ Len(Septets[[lo |-> v, hi |-> 0]]) = Length32(v) /\ Length32(v) <= 5
<1>1. Word \in Nat \ {0}
  BY WordSizes
<1> QED BY <1>1, Length32Of DEF LongBits, WriteVarint32, Length32

\* uint32 reads what was written for a word.
LEMMA WordBack ==
  ASSUME NEW buf \in Buffers, NEW pos \in Nat, NEW v \in 0 .. Word - 1,
         Lies(buf, pos, Written(Op("varint32", Length32(v), v)))
  PROVE  ReadUint32(buf, pos) = Read(v, pos + Length32(v))
<1> DEFINE bits == [lo |-> v, hi |-> 0]
<1>1. bits \in LongBits /\ Len(Septets[bits]) = Length32(v) /\ Length32(v) <= 5
  BY WordAsLong
<1>2. Lies(buf, pos, Septets[bits]) /\ bits.lo = v
  BY DEF Written, Op, WriteVarint32
<1> HIDE DEF bits
<1> QED BY <1>1, <1>2, ReadUint32Of

LEMMA LongBack ==
  ASSUME NEW buf \in Buffers, NEW pos \in Nat, NEW bits \in LongBits,
         Lies(buf, pos, Written(Op("varint64", Length64(bits), bits)))
  PROVE  ReadLongVarint(buf, pos) = Read(bits, pos + Length64(bits))
<1>1. Lies(buf, pos, Septets[bits])
  BY DEF Written, Op
<1> QED BY <1>1, ReadLongOf, Length64Of

\* The reader converts the value that it has read.
LEMMA ConvertedRead ==
  /\ \A v, p : Converted(Read(v, p), Signed) = Read(Signed(v), p)
  /\ \A v, p : Converted(Read(v, p), ZagZig32) = Read(ZagZig32(v), p)
  /\ \A v, p : Converted(Read(v, p), LAMBDA bits : ToNumber(bits, FALSE))
                 = Read(ToNumber(v, FALSE), p)
  /\ \A v, p : Converted(Read(v, p), LAMBDA bits : ToNumber(bits, TRUE))
                 = Read(ToNumber(v, TRUE), p)
  /\ \A v, p : Converted(Read(v, p), LAMBDA bits : ToNumber(ZzDecode(bits), FALSE))
                 = Read(ToNumber(ZzDecode(v), FALSE), p)
BY DEF Converted, Read

\* Where the bytes of an operation are, r is its value and the position behind.
ReadBack(buf, pos, ops, r, v) ==
  Lies(buf, pos, Written(ops[1])) => r = Read(v, pos + ops[1].len)

LEMMA BackConverted ==
  ASSUME NEW buf, NEW pos, NEW ops, NEW v
  PROVE  /\ ReadBack(buf, pos, ops, ReadUint32(buf, pos), v) =>
              /\ ReadBack(buf, pos, ops, ReadInt32(buf, pos), Signed(v))
              /\ ReadBack(buf, pos, ops, ReadSint32(buf, pos), ZagZig32(v))
         /\ ReadBack(buf, pos, ops, ReadLongVarint(buf, pos), v) =>
              /\ ReadBack(buf, pos, ops, ReadInt64(buf, pos), ToNumber(v, FALSE))
              /\ ReadBack(buf, pos, ops, ReadUint64(buf, pos), ToNumber(v, TRUE))
              /\ ReadBack(buf, pos, ops, ReadSint64(buf, pos), ToNumber(ZzDecode(v), FALSE))
<1> SUFFICES ASSUME Lies(buf, pos, Written(ops[1])), NEW p, p = pos + ops[1].len
             PROVE  /\ ReadUint32(buf, pos) = Read(v, p) =>
                         /\ ReadInt32(buf, pos) = Read(Signed(v), p)
                         /\ ReadSint32(buf, pos) = Read(ZagZig32(v), p)
                    /\ ReadLongVarint(buf, pos) = Read(v, p) =>
                         /\ ReadInt64(buf, pos) = Read(ToNumber(v, FALSE), p)
                         /\ ReadUint64(buf, pos) = Read(ToNumber(v, TRUE), p)
                         /\ ReadSint64(buf, pos) = Read(ToNumber(ZzDecode(v), FALSE), p)
  BY DEF ReadBack
<1>1. ReadUint32(buf, pos) = Read(v, p) =>
        /\ ReadInt32(buf, pos) = Read(Signed(v), p)
        /\ ReadSint32(buf, pos) = Read(ZagZig32(v), p)
  BY ConvertedRead DEF ReadInt32, ReadSint32
<1>2. ASSUME ReadLongVarint(buf, pos) = Read(v, p)
      PROVE  ReadInt64(buf, pos) = Read(ToNumber(v, FALSE), p)
  BY <1>2, ConvertedRead DEF ReadInt64
<1>3. ASSUME ReadLongVarint(buf, pos) = Read(v, p)
      PROVE  ReadUint64(buf, pos) = Read(ToNumber(v, TRUE), p)
  BY <1>3, ConvertedRead DEF ReadUint64
<1>4. ASSUME ReadLongVarint(buf, pos) = Read(v, p)
      PROVE  ReadSint64(buf, pos) = Read(ToNumber(ZzDecode(v), FALSE), p)
  BY <1>4, ConvertedRead DEF ReadSint64
<1> QED BY <1>1, <1>2, <1>3, <1>4

LEMMA OpParts ==
  \A fn, len, val : /\ <<Op(fn, len, val)>>[1] = Op(fn, len, val)
                    /\ Op(fn, len, val).len = len /\ Op(fn, len, val).val = val
BY DEF Op

LEMMA Uint32Back ==
  ASSUME NEW buf \in Buffers, NEW pos \in Nat, NEW v \in Int
  PROVE  ReadBack(buf, pos, Uint32(v), ReadUint32(buf, pos), v % Word)
<1>1. v % Word \in 0 .. Word - 1
  BY WordOf
<1> QED BY <1>1, OpParts, WordBack DEF ReadBack, Uint32

LEMMA Uint64Back ==
  ASSUME NEW buf \in Buffers, NEW pos \in Nat, NEW v \in Int
  PROVE  ReadBack(buf, pos, Uint64(v), ReadLongVarint(buf, pos), FromNumber(v))
BY FromNumberLong, OpParts, LongBack DEF ReadBack, Uint64

LEMMA NegativeLow ==
  ASSUME NEW v \in -Half .. -1
  PROVE  FromNumber(v).lo = v + Word /\ Signed(v + Word) = v
<1>1. Word = 2 * Half /\ Half \in Nat \ {0} /\ Word \in Nat \ {0}
  BY WordSizes
<1>2. -v \in 0 .. Word - 1 /\ v + Word \in 0 .. Word - 1 /\ v + Word >= Half /\ -v # 0
  BY <1>1
<1>3. (-v) % Word = -v /\ (v + Word) % Word = v + Word
  BY <1>1, <1>2, ModOfSmall
<1>4. FromNumber(v).lo = Not(-v) + 1
  BY <1>2, <1>3 DEF FromNumber
<1> QED BY <1>1, <1>2, <1>3, <1>4 DEF Not, Signed

LEMMA Int32Back ==
  ASSUME NEW buf \in Buffers, NEW pos \in Nat, NEW v \in -Half .. Half - 1
  PROVE  ReadBack(buf, pos, Int32(v), ReadInt32(buf, pos), v)
<1>1. Word = 2 * Half /\ Half \in Nat \ {0} /\ Word \in Nat \ {0} /\ v \in Int
  BY WordSizes
<1>2. CASE v < 0
  <2> DEFINE op == Op("varint64", 10, FromNumber(v))
  <2>1. Int32(v) = <<op>>
    BY <1>2 DEF Int32
  <2>2. Written(op) = Septets[FromNumber(v)] /\ op.len = 10
    BY DEF Written, Op
  <2> HIDE DEF op
  <2>3. Int32(v)[1] = op
    BY <2>1
  <2>4. v \in -(Half * Word) .. -1
    <3>1. Half * Word >= Half /\ Half * Word \in Nat
      BY <1>1
    <3> QED BY <1>1, <1>2, <3>1
  <2>5. Len(Septets[FromNumber(v)]) = 10 /\ FromNumber(v) \in LongBits
    BY <1>1, <2>4, NegativeIsLong, FromNumberLong
  <2>6. ReadBack(buf, pos, Int32(v), ReadUint32(buf, pos), FromNumber(v).lo)
    BY <2>2, <2>3, <2>5, ReadUint32Of DEF ReadBack
  <2>7. v \in -Half .. -1
    BY <1>1, <1>2
  <2>8. FromNumber(v).lo = v + Word /\ Signed(v + Word) = v
    BY <2>7, NegativeLow
  <2> QED BY <2>6, <2>8, BackConverted
<1>3. CASE ~(v < 0)
  <2>1. v % Word = v /\ Int32(v) = Uint32(v)
    BY <1>1, <1>3, ModOfSmall DEF Int32
  <2>2. Signed(v) = v
    BY <1>1, <1>3, <2>1 DEF Signed
  <2>3. ReadBack(buf, pos, Uint32(v), ReadUint32(buf, pos), v)
    BY <1>1, <2>1, Uint32Back
  <2> QED BY <2>1, <2>2, <2>3, BackConverted
<1> QED BY <1>2, <1>3

LEMMA Sint32Back ==
  ASSUME NEW buf \in Buffers, NEW pos \in Nat, NEW v \in -Half .. Half - 1
  PROVE  ReadBack(buf, pos, Sint32(v), ReadSint32(buf, pos), v)
<1>1. ZigZag32(v) \in 0 .. Word - 1 /\ ZagZig32(ZigZag32(v)) = v /\ Word \in Nat \ {0}
  BY ZigZag32Inverse, WordSizes
<1>2. ZigZag32(v) % Word = ZigZag32(v) /\ ZigZag32(v) \in Int
  BY <1>1, ModOfSmall
<1>3. ReadBack(buf, pos, Sint32(v), ReadUint32(buf, pos), ZigZag32(v))
  BY <1>2, Uint32Back DEF Sint32
<1> QED BY <1>1, <1>3, BackConverted

LEMMA Unsigned64 ==
  ASSUME NEW v \in 0 .. Word * Word - 1 PROVE ToNumber(FromNumber(v), TRUE) = v
<1> DEFINE lo == v % Word
           q == v \div Word
<1>1. Word \in Nat \ {0} /\ v \in Int /\ v >= 0 /\ v < Word * Word
  BY WordSizes
<1>2. v = lo + q * Word /\ lo \in 0 .. Word - 1 /\ q \in Int
  <2>1. v = q * Word + lo /\ lo \in 0 .. Word - 1 /\ q \in Int
    BY <1>1, DivMod, Zenon
  <2> HIDE DEF lo, q
  <2> QED BY <1>1, <2>1
<1>3. FromNumber(v) = [lo |-> lo, hi |-> q % Word]
  BY <1>1 DEF FromNumber
<1> HIDE DEF lo, q
<1>4. q \in 0 .. Word - 1
  <2>1. q >= 0
    BY <1>1, <1>2
  <2>2. lo + q * Word < Word * Word
    BY <1>1, <1>2
  <2> QED BY <1>1, <1>2, <2>1, <2>2, DigitBelow
<1>5. q % Word = q
  BY <1>1, <1>4, ModOfSmall
<1>6. ToNumber(FromNumber(v), TRUE) = FromNumber(v).lo + FromNumber(v).hi * Word
  BY DEF ToNumber
<1>7. FromNumber(v).lo = lo /\ FromNumber(v).hi = q
  BY <1>3, <1>5
<1> QED BY <1>2, <1>6, <1>7

LEMMA LongsBack ==
  ASSUME NEW buf \in Buffers, NEW pos \in Nat
  PROVE  /\ \A v \in 0 .. Word * Word - 1 :
              ReadBack(buf, pos, Uint64(v), ReadUint64(buf, pos), v)
         /\ \A v \in -(Half * Word) .. (Half * Word) - 1 :
              /\ ReadBack(buf, pos, Uint64(v), ReadInt64(buf, pos), v)
              /\ ReadBack(buf, pos, Sint64(v), ReadSint64(buf, pos), v)
<1>1. ASSUME NEW v \in 0 .. Word * Word - 1
      PROVE  ReadBack(buf, pos, Uint64(v), ReadUint64(buf, pos), v)
  <2>1. v \in Int /\ ToNumber(FromNumber(v), TRUE) = v
    <3>1. v \in Int
      OBVIOUS
    <3>2. ToNumber(FromNumber(v), TRUE) = v
      BY Unsigned64
    <3> QED BY <3>1, <3>2
  <2>2. ReadBack(buf, pos, Uint64(v), ReadLongVarint(buf, pos), FromNumber(v))
    BY <2>1, Uint64Back
  <2> QED BY <2>1, <2>2, BackConverted
<1>2. ASSUME NEW v \in -(Half * Word) .. (Half * Word) - 1
      PROVE  ReadBack(buf, pos, Uint64(v), ReadInt64(buf, pos), v)
  <2>1. v \in Int /\ ToNumber(FromNumber(v), FALSE) = v
    <3>1. v \in Int
      OBVIOUS
    <3>2. ToNumber(FromNumber(v), FALSE) = v
      BY LongBitsInverse
    <3> QED BY <3>1, <3>2
  <2>2. ReadBack(buf, pos, Uint64(v), ReadLongVarint(buf, pos), FromNumber(v))
    BY <2>1, Uint64Back
  <2> QED BY <2>1, <2>2, BackConverted
<1>3. ASSUME NEW v \in -(Half * Word) .. (Half * Word) - 1
      PROVE  ReadBack(buf, pos, Sint64(v), ReadSint64(buf, pos), v)
  <2> DEFINE bits == ZzEncode(FromNumber(v))
  <2>1. FromNumber(v) \in LongBits /\ ToNumber(FromNumber(v), FALSE) = v
    BY LongBitsInverse
  <2>2. bits \in LongBits /\ ZzDecode(bits) = FromNumber(v)
    BY <2>1, ZigZag64Inverse
  <2>3. Sint64(v) = <<Op("varint64", Length64(bits), bits)>>
    BY DEF Sint64
  <2> HIDE DEF bits
  <2>4. ReadBack(buf, pos, Sint64(v), ReadLongVarint(buf, pos), bits)
    BY <2>2, <2>3, OpParts, LongBack DEF ReadBack
  <2> QED BY <2>1, <2>2, <2>4, BackConverted
<1> QED BY <1>1, <1>2, <1>3

(* What the writer writes for a number the reader reads from the same       *)
(* place, whatever is around it, and goes on right behind it: with each of  *)
(* the varint types, for all the numbers of the type, also where an int32   *)
(* is written with ten bytes and where less than five bytes are left.       *)
THEOREM VarintsInverse ==
  \A buf \in Buffers, pos \in Nat :
    /\ \A v \in 0 .. Word - 1 : ReadBack(buf, pos, Uint32(v), ReadUint32(buf, pos), v)
    /\ \A v \in -Half .. Half - 1 : /\ ReadBack(buf, pos, Int32(v), ReadInt32(buf, pos), v)
                                    /\ ReadBack(buf, pos, Sint32(v), ReadSint32(buf, pos), v)
    /\ \A v \in 0 .. Word * Word - 1 : ReadBack(buf, pos, Uint64(v), ReadUint64(buf, pos), v)
    /\ \A v \in -(Half * Word) .. (Half * Word) - 1 :
         /\ ReadBack(buf, pos, Uint64(v), ReadInt64(buf, pos), v)
         /\ ReadBack(buf, pos, Sint64(v), ReadSint64(buf, pos), v)
<1> SUFFICES ASSUME NEW buf \in Buffers, NEW pos \in Nat,
                    NEW v \in 0 .. Word - 1
             PROVE  ReadBack(buf, pos, Uint32(v), ReadUint32(buf, pos), v)
  BY Int32Back, Sint32Back, LongsBack
<1>1. v % Word = v /\ v \in Int
  BY WordSizes, ModOfSmall
<1> QED BY <1>1, Uint32Back

\* Every byte of a varint but the last says that another one follows.
LEMMA Continued ==
  ASSUME NEW bits \in LongBits, NEW j \in 1 .. Len(Septets[bits]) - 1
  PROVE  Septets[bits][j] >= Septet
<1> DEFINE s == Septets[bits]
<1>1. s \in Buffers /\ Len(s) \in Nat
  BY Length64Of DEF Buffers
<1>2. Lies(s, 0, s)
  <2> HIDE DEF s
  <2> QED BY <1>1 DEF Lies
<1>3. PICK d \in Digits10 : InBuffer(s, 0, d, Len(s) - 1)
  BY <1>1, <1>2, ReadDigits DEF AsDigits
<1>4. Len(s) \in 1 .. 10 /\ j - 1 \in 0 .. 9 /\ j - 1 < Len(s) - 1
  <2>1. PICK m \in 1 .. 10 : m = Len(s)
    BY ReadDigits
  <2>2. j \in 1 .. m - 1
    BY <2>1
  <2>3. j - 1 \in 0 .. 9 /\ j - 1 < m - 1
    BY <2>2
  <2> QED BY <2>1, <2>3
<1>5. Octet(s, 0 + (j - 1)) = d[j - 1] + Septet /\ d[j - 1] \in 0 .. Septet - 1
  BY <1>3, <1>4 DEF InBuffer, Digits10
<1>6. Octet(s, 0 + (j - 1)) = s[j]
  <2> HIDE DEF s
  <2>1. 0 + (j - 1) < Len(s) /\ (0 + (j - 1)) + 1 = j
    BY <1>1, <1>4
  <2> QED BY <2>1 DEF Octet
<1> QED BY <1>5, <1>6, WordSizes

(* If the buffer ends within a varint, reading it as a number of 32 bits     *)
(* throws, and so does passing it over as the field of an unknown type, and *)
(* taking it for the length of bytes.                                      *)
THEOREM CutVarintThrows ==
  \A buf \in Buffers, pos \in Nat, bits \in LongBits :
    /\ pos <= Len(buf) /\ Len(buf) < pos + Len(Septets[bits])
    /\ \A i \in 1 .. Len(buf) - pos : buf[pos + i] = Septets[bits][i]
    => ~ReadUint32(buf, pos).ok /\ ~SkipVarint(buf, pos).ok /\ ~ReadBytes(buf, pos).ok
<1> SUFFICES ASSUME NEW buf \in Buffers, NEW pos \in Nat, NEW bits \in LongBits,
                    pos <= Len(buf), Len(buf) < pos + Len(Septets[bits]),
                    \A i \in 1 .. Len(buf) - pos : buf[pos + i] = Septets[bits][i]
             PROVE  ~ReadUint32(buf, pos).ok /\ ~SkipVarint(buf, pos).ok /\ ~ReadBytes(buf, pos).ok
  OBVIOUS
<1> DEFINE s == Septets[bits]
           n == Len(buf) - pos
<1>s. /\ s \in Seq(Octets) /\ Len(s) \in 1 .. 10 /\ Len(buf) < pos + Len(s)
      /\ \A i \in 1 .. n : buf[pos + i] = s[i]
  BY Length64Of, ReadDigits DEF Buffers
<1>c. \A j \in 1 .. Len(s) - 1 : s[j] >= Septet
  BY Continued
<1> HIDE DEF s
<1>1. Len(buf) \in Nat /\ n \in 0 .. 9 /\ pos + n = Len(buf) /\ n < Len(s)
  <2>1. PICK l \in Nat : l = Len(buf)
    BY DEF Buffers
  <2>2. PICK m \in 1 .. 10 : m = Len(s)
    BY <1>s
  <2>3. pos <= l /\ l < pos + m
    BY <1>s, <2>1, <2>2
  <2>4. l - pos \in 0 .. 9 /\ pos + (l - pos) = l /\ l - pos < m
    BY <2>3
  <2> QED BY <2>1, <2>2, <2>4
<1>o. \A i \in Nat : Octet(buf, pos + i) = IF i < n THEN buf[pos + (i + 1)] ELSE Byte
  <2> HIDE DEF n
  <2> TAKE i \in Nat
  <2>1. PICK m \in 0 .. 9 : m = n /\ pos + m = Len(buf)
    BY <1>1
  <2>2. (pos + i) + 1 = pos + (i + 1) /\ (pos + i < pos + m <=> i < m)
    OBVIOUS
  <2> QED BY <2>1, <2>2 DEF Octet
<1> HIDE DEF n
<1>2. \A i \in Nat : ~(Octet(buf, pos + i) < Septet)
  <2> SUFFICES ASSUME NEW i \in Nat PROVE ~(Octet(buf, pos + i) < Septet)
    OBVIOUS
  <2>1. CASE i < n
    <3>1. i + 1 \in 1 .. n /\ i + 1 \in 1 .. Len(s) - 1 /\ i + 1 \in 1 .. Len(s)
      BY <1>s, <1>1, <2>1
    <3>2. Octet(buf, pos + i) = s[i + 1]
      BY <1>s, <1>o, <2>1, <3>1
    <3>3. s[i + 1] >= Septet /\ s[i + 1] \in Octets
      BY <1>s, <1>c, <3>1
    <3> QED BY <3>2, <3>3, WordSizes DEF Octets
  <2>2. CASE ~(i < n)
    <3>1. Octet(buf, pos + i) = Byte
      BY <1>o, <2>2
    <3> QED BY <3>1, WordSizes DEF Byte
  <2> QED BY <2>1, <2>2
<1>3. \A m \in Nat : LastOctet(buf, pos, m) = m
  <2> TAKE m \in Nat
  <2>1. \A i \in 0 .. m - 1 : ~(Octet(buf, pos + i) < Septet)
    <3>1. \A i \in 0 .. m - 1 : i \in Nat
      OBVIOUS
    <3> QED BY <1>2, <3>1
  <2>2. {i \in 0 .. m - 1 : Octet(buf, pos + i) < Septet} = {}
    BY <2>1
  <2> QED BY <2>2 DEF LastOctet
<1>4. OutOfRange(buf).ok = FALSE
  BY DEF OutOfRange
<1>5. ReadUint32(buf, pos) = OutOfRange(buf)
  <2>1. LastOctet(buf, pos, 5) = 5 /\ pos + 10 > Len(buf)
    BY <1>1, <1>3
  <2> QED BY <2>1 DEF ReadUint32
<1>6. SkipVarint(buf, pos) = OutOfRange(buf)
  <2>1. LastOctet(buf, pos, n) = n /\ pos + n >= Len(buf)
    BY <1>1, <1>3
  <2> QED BY <2>1 DEF SkipVarint, n
<1>7. ReadBytes(buf, pos) = OutOfRange(buf)
  BY <1>4, <1>5 DEF ReadBytes, BytesAt
<1> QED BY <1>4, <1>5, <1>6, <1>7

LEMMA LiesParts ==
  ASSUME NEW buf \in Buffers, NEW pos \in Nat, NEW s \in Buffers, NEW t \in Buffers,
         Lies(buf, pos, s \o t)
  PROVE  Lies(buf, pos, s) /\ Lies(buf, pos + Len(s), t)
<1>1. /\ Len(s \o t) = Len(s) + Len(t) /\ Len(s) \in Nat /\ Len(t) \in Nat /\ Len(buf) \in Nat
      /\ \A i \in 1 .. Len(s) : (s \o t)[i] = s[i]
      /\ \A i \in 1 .. Len(t) : (s \o t)[Len(s) + i] = t[i]
  BY DEF Buffers
<1>2. Lies(buf, pos, s)
  <2>1. pos + Len(s) <= Len(buf)
    BY <1>1 DEF Lies
  <2>2. ASSUME NEW i \in 1 .. Len(s) PROVE buf[pos + i] = s[i]
    <3>1. i \in 1 .. Len(s \o t)
      BY <1>1
    <3>2. buf[pos + i] = (s \o t)[i]
      BY <3>1 DEF Lies
    <3> QED BY <1>1, <3>2
  <2> QED BY <2>1, <2>2 DEF Lies
<1>3. ASSUME NEW i \in 1 .. Len(t) PROVE buf[(pos + Len(s)) + i] = t[i]
  <2>1. Len(s) + i \in 1 .. Len(s \o t) /\ pos + (Len(s) + i) = (pos + Len(s)) + i
    BY <1>1
  <2> QED BY <1>1, <2>1 DEF Lies
<1> QED BY <1>1, <1>2, <1>3 DEF Lies

LEMMA SubSeqOfLying ==
  ASSUME NEW buf \in Buffers, NEW pos \in Nat, NEW s \in Buffers, Lies(buf, pos, s)
  PROVE  SubSeq(buf, pos + 1, pos + Len(s)) = s
<1> DEFINE t == SubSeq(buf, pos + 1, pos + Len(s))
<1>1. Len(s) \in Nat /\ Len(buf) \in Nat /\ pos + Len(s) <= Len(buf)
  BY DEF Buffers, Lies
<1>2. \A i \in pos + 1 .. pos + Len(s) : buf[i] \in Octets
  BY <1>1 DEF Buffers
<1>3. t \in Seq(Octets) /\ Len(t) = Len(s)
      /\ \A i \in 1 .. Len(s) : t[i] = buf[pos + i]
  <2>1. t \in Seq(Octets)
    BY <1>1, <1>2, SubSeqProperties
  <2>2. Len(t) = Len(s)
    BY <1>1
  <2>3. \A i \in 1 .. Len(s) : t[i] = buf[pos + i]
    BY <1>1
  <2> QED BY <2>1, <2>2, <2>3
<1>4. \A i \in 1 .. Len(t) : t[i] = s[i]
  BY <1>3 DEF Lies
<1> HIDE DEF t
<1>5. t = s
  BY <1>3, <1>4, SeqEqual DEF Buffers
<1> QED BY <1>5 DEF t

\* All the bytes that the operations of Bytes(s) write.
BytesWritten(s) ==
  LET ops == Bytes(s)
  IN IF s = <<>> THEN Written(ops[1]) ELSE Written(ops[1]) \o Written(ops[2])

LEMMA BytesAfterLength ==
  ASSUME NEW buf \in Buffers, NEW pos \in Nat, NEW n \in Nat, NEW s \in Buffers,
         ReadUint32(buf, pos) = Read(Len(s), pos + n), Lies(buf, pos + n, s)
  PROVE  ReadBytes(buf, pos) = Read(s, (pos + n) + Len(s))
<1> DEFINE r == Read(Len(s), pos + n)
<1>1. r.ok /\ r.pos = pos + n /\ r.value = Len(s)
  BY DEF Read
<1>2. Len(s) \in Nat /\ Len(buf) \in Nat /\ ~((pos + n) + Len(s) > Len(buf)) /\ pos + n \in Nat
  BY DEF Buffers, Lies
<1>3. SubSeq(buf, (pos + n) + 1, (pos + n) + Len(s)) = s
  BY <1>2, SubSeqOfLying
<1>4. ReadBytes(buf, pos) = BytesAt(buf, r)
  BY DEF ReadBytes
<1> HIDE DEF r
<1> QED BY <1>1, <1>2, <1>3, <1>4 DEF BytesAt

(* Bytes are read back with the length in front of them, also no bytes, and *)
(* the reader goes on behind them.                                         *)
THEOREM BytesInverse ==
  \A buf \in Buffers, pos \in Nat, s \in Buffers :
    Len(s) < Word /\ Lies(buf, pos, BytesWritten(s))
      => ReadBytes(buf, pos) = Read(s, pos + Len(BytesWritten(s)))
<1> SUFFICES ASSUME NEW buf \in Buffers, NEW pos \in Nat, NEW s \in Buffers,
                    Len(s) < Word, Lies(buf, pos, BytesWritten(s))
             PROVE  ReadBytes(buf, pos) = Read(s, pos + Len(BytesWritten(s)))
  OBVIOUS
<1> DEFINE l == Len(s)
<1>1. l \in 0 .. Word - 1 /\ Word \in Nat \ {0}
  BY WordSizes DEF Buffers
<1>2. /\ Lies(buf, pos, WriteVarint32(l)) => ReadUint32(buf, pos) = Read(l, pos + Length32(l))
      /\ WriteVarint32(l) \in Buffers /\ Len(WriteVarint32(l)) = Length32(l) /\ Length32(l) \in Nat
  <2>1. Written(Op("varint32", Length32(l), l)) = WriteVarint32(l)
    BY DEF Written, Op
  <2>2. Length32(l) \in Nat
    BY DEF Length32
  <2> HIDE DEF l
  <2> QED BY <1>1, <2>1, <2>2, WordBack, Length32Of
<1>3. CASE s = <<>>
  <2>1. l = 0
    BY <1>3
  <2>2. [lo |-> 0, hi |-> 0] \in LongBits /\ Short([lo |-> 0, hi |-> 0])
    BY <1>1, WordSizes DEF LongBits, Short
  <2>3. WriteVarint32(0) = <<0>>
    BY <2>2, SeptetsOf DEF WriteVarint32
  <2>4. BytesWritten(s) = <<0>>
    BY <1>3, OpParts DEF BytesWritten, Bytes, Written, Op
  <2>5. Len(<<0>>) = 1
    OBVIOUS
  <2>6. Length32(l) = 1
    BY <1>2, <2>1, <2>3, <2>5
  <2>7. ReadUint32(buf, pos) = Read(l, pos + 1)
    BY <1>2, <2>1, <2>3, <2>4, <2>6
  <2>8. Lies(buf, pos + 1, s)
    <3>1. Len(buf) \in Nat /\ pos + 1 <= Len(buf)
      BY <2>4, <2>5 DEF Lies, Buffers
    <3> QED BY <1>3, <3>1 DEF Lies
  <2>9. ReadBytes(buf, pos) = Read(s, (pos + 1) + l)
    BY <2>7, <2>8, BytesAfterLength
  <2> QED BY <2>1, <2>4, <2>5, <2>9
<1>4. CASE s # <<>>
  <2> DEFINE op1 == Op("varint32", Length32(l), l)
             op2 == Op("bytes", l, s)
             n == Length32(l)
  <2>1. l % Word = l
    BY <1>1, ModOfSmall
  <2>2. Bytes(s) = <<op1>> \o <<op2>>
    BY <1>4, <2>1 DEF Bytes, Uint32
  <2>3. Written(op1) = WriteVarint32(l) /\ Written(op2) = s
    BY DEF Written, Op
  <2> HIDE DEF op1, op2
  <2>4. Bytes(s)[1] = op1 /\ Bytes(s)[2] = op2
    BY <2>2
  <2>5. BytesWritten(s) = WriteVarint32(l) \o s
    BY <1>4, <2>3, <2>4 DEF BytesWritten
  <2>6. Lies(buf, pos, WriteVarint32(l)) /\ Lies(buf, pos + n, s)
    <3> DEFINE w == WriteVarint32(l)
    <3>1. w \in Buffers /\ Len(w) = n /\ Lies(buf, pos, w \o s)
      BY <1>2, <2>5
    <3> HIDE DEF w
    <3>2. Lies(buf, pos, w) /\ Lies(buf, pos + n, s)
      BY <3>1, LiesParts
    <3> QED BY <3>2 DEF w
  <2>7. ReadBytes(buf, pos) = Read(s, (pos + n) + l)
    BY <1>2, <2>6, BytesAfterLength
  <2>8. Len(BytesWritten(s)) = n + l
    <3> DEFINE w == WriteVarint32(l)
    <3>1. w \in Seq(Octets) /\ Len(w) = n /\ s \in Seq(Octets)
      BY <1>2 DEF Buffers
    <3> HIDE DEF w
    <3>2. Len(w \o s) = n + l
      BY <3>1
    <3> QED BY <2>5, <3>2 DEF w
  <2>9. (pos + n) + l = pos + (n + l)
    BY <1>1, <1>2
  <2> QED BY <2>7, <2>8, <2>9
<1> QED BY <1>3, <1>4

------------------------------------------------------------------------------
(* Theorems about BufferPool, for any size of the slabs and any bytes.     *)

Octet8 == 0 .. 255
Arrays == Seq(Octet8)
Views == [array : Nat \ {0}, at : Nat, bytes : Arrays]

PoolTypeOK ==
  /\ memory \in Seq(Arrays)
  /\ slab \in 0 .. Len(memory) /\ offset \in Nat
  /\ views \in Seq(Views)

(* The slab being filled is a whole one; before the first, nothing fits.   *)
SlabFilled == IF slab = 0 THEN offset = SlabSize ELSE Len(memory[slab]) = SlabSize

(* A view of the arrays m lies in its array and, in slab s, below what is   *)
(* free, and the array holds its bytes.                                    *)
InPlace(v, m, s, free) ==
  /\ v.array <= Len(m) /\ v.at + Len(v.bytes) <= Len(m[v.array])
  /\ v.array = s => v.at + Len(v.bytes) <= free
Holds(v, m) == \A i \in 1 .. Len(v.bytes) : m[v.array][v.at + i] = v.bytes[i]

Inv ==
  /\ PoolTypeOK /\ SlabFilled
  /\ \A n \in 1 .. Len(views) : InPlace(views[n], memory, slab, offset) /\ Holds(views[n], memory)

-----------------------------------------------------------------------------
LEMMA AlignedAbove == ASSUME NEW n \in Nat PROVE Aligned(n) \in Nat /\ Aligned(n) >= n
BY DEF Aligned

LEMMA OverwrittenBytes ==
  ASSUME NEW array \in Arrays, NEW at \in Nat, NEW bytes \in Arrays
  PROVE  /\ Overwritten(array, at, bytes) \in Arrays
         /\ Len(Overwritten(array, at, bytes)) = Len(array)
         /\ \A i \in 1 .. Len(array) :
              Overwritten(array, at, bytes)[i] = IF at < i /\ i <= at + Len(bytes) THEN bytes[i - at] ELSE array[i]
<1>1. /\ Len(array) \in Nat /\ Len(bytes) \in Nat
      /\ \A i \in 1 .. Len(array) : array[i] \in Octet8
      /\ \A i \in 1 .. Len(bytes) : bytes[i] \in Octet8
  BY DEF Arrays
<1>2. ASSUME NEW i \in 1 .. Len(array)
      PROVE  (IF at < i /\ i <= at + Len(bytes) THEN bytes[i - at] ELSE array[i]) \in Octet8
  <2>1. CASE at < i /\ i <= at + Len(bytes)
    <3>1. i - at \in 1 .. Len(bytes)
      BY <1>1, <2>1
    <3> QED BY <1>1, <2>1, <3>1
  <2>2. CASE ~(at < i /\ i <= at + Len(bytes))
    BY <1>1, <2>2
  <2> QED BY <2>1, <2>2
<1> QED BY <1>1, <1>2 DEF Overwritten, Arrays

LEMMA BlankBytes ==
  ASSUME NEW size \in Nat PROVE Blank(size) \in Arrays /\ Len(Blank(size)) = size
<1>1. 0 \in Octet8
  BY DEF Octet8
<1> QED BY <1>1 DEF Blank, Arrays

(* The new view holds its bytes; the others keep theirs and their places.  *)
LEMMA Viewed ==
  ASSUME Inv, NEW array \in Nat \ {0}, NEW at \in Nat, NEW bytes \in Arrays, View(array, at, bytes),
         NEW m, NEW s, NEW free,
         \A n \in 1 .. Len(views) : InPlace(views[n], m, s, free) /\ Holds(views[n], m),
         InPlace([array |-> array, at |-> at, bytes |-> bytes], m, s, free),
         Holds([array |-> array, at |-> at, bytes |-> bytes], m)
  PROVE  /\ views' \in Seq(Views)
         /\ \A n \in 1 .. Len(views') : InPlace(views'[n], m, s, free) /\ Holds(views'[n], m)
<1> DEFINE v == [array |-> array, at |-> at, bytes |-> bytes]
<1>1. views' = Append(views, v) /\ views \in Seq(Views)
  BY DEF View, Inv, PoolTypeOK
<1>2. v \in Views /\ InPlace(v, m, s, free) /\ Holds(v, m)
  BY DEF Views
<1> HIDE DEF v
<1>3. views' \in Seq(Views) /\ Len(views') = Len(views) + 1 /\ Len(views) \in Nat
  BY <1>1, <1>2
<1>4. \A n \in 1 .. Len(views) : views'[n] = views[n]
  BY <1>1, <1>2
<1>5. views'[Len(views) + 1] = v
  BY <1>1, <1>2
<1> QED BY <1>2, <1>3, <1>4, <1>5

LEMMA InitInv == PoolInit => Inv
BY SlabAssumption DEF PoolInit, Inv, PoolTypeOK, SlabFilled

(* A view where an array is added, which may be the next slab.             *)
LEMMA Stays ==
  ASSUME Inv, NEW n \in 1 .. Len(views), NEW array \in Arrays, NEW s, NEW free,
         s = Len(memory) + 1 \/ (s = slab /\ free = offset)
  PROVE  /\ Holds(views[n], Append(memory, array))
         /\ InPlace(views[n], Append(memory, array), s, free)
<1>1. views[n] \in Views /\ memory \in Seq(Arrays)
  BY DEF Inv, PoolTypeOK
<1>2. InPlace(views[n], memory, slab, offset) /\ Holds(views[n], memory)
  BY DEF Inv
<1>3. views[n].array \in 1 .. Len(memory) /\ Len(memory) \in Nat
  BY <1>1, <1>2 DEF Views, InPlace
<1>4. /\ Append(memory, array)[views[n].array] = memory[views[n].array]
      /\ Len(Append(memory, array)) = Len(memory) + 1
  BY <1>1, <1>3
<1> QED BY <1>2, <1>3, <1>4 DEF Holds, InPlace

(* The new array that the bytes begin.                                     *)
LEMMA Begins ==
  ASSUME Inv, NEW bytes \in Arrays, NEW array \in Arrays, Len(bytes) <= Len(array),
         \A i \in 1 .. Len(bytes) : array[i] = bytes[i],
         NEW s, NEW free \in Nat, s = Len(memory) + 1 => Len(bytes) <= free
  PROVE  LET v == [array |-> Len(memory) + 1, at |-> 0, bytes |-> bytes]
             m == Append(memory, array)
         IN m \in Seq(Arrays) /\ Len(m) = Len(memory) + 1 /\ InPlace(v, m, s, free) /\ Holds(v, m)
<1>1. memory \in Seq(Arrays) /\ Len(memory) \in Nat
  BY DEF Inv, PoolTypeOK
<1>2. /\ Append(memory, array) \in Seq(Arrays)
      /\ Len(Append(memory, array)) = Len(memory) + 1
      /\ Append(memory, array)[Len(memory) + 1] = array
  BY <1>1
<1>3. Len(bytes) \in Nat /\ \A i \in 1 .. Len(bytes) : 0 + i = i
  BY DEF Arrays
<1> QED BY <1>1, <1>2, <1>3 DEF InPlace, Holds

LEMMA OwnArrayStep == ASSUME Inv, NEW bytes \in Arrays, OwnArray(bytes) PROVE Inv'
<1>1. /\ memory' = Append(memory, bytes) /\ View(Len(memory) + 1, 0, bytes)
      /\ slab' = slab /\ offset' = offset
  BY DEF OwnArray
<1>2. memory \in Seq(Arrays) /\ slab \in 0 .. Len(memory) /\ offset \in Nat /\ Len(memory) \in Nat
  BY DEF Inv, PoolTypeOK
<1>3. Len(bytes) <= Len(bytes) /\ (slab = Len(memory) + 1 => Len(bytes) <= offset)
  BY <1>2 DEF Arrays
<1>4. /\ memory' \in Seq(Arrays) /\ Len(memory') = Len(memory) + 1
      /\ InPlace([array |-> Len(memory) + 1, at |-> 0, bytes |-> bytes], memory', slab, offset)
      /\ Holds([array |-> Len(memory) + 1, at |-> 0, bytes |-> bytes], memory')
  BY <1>1, <1>2, <1>3, Begins
<1>5. \A n \in 1 .. Len(views) : InPlace(views[n], memory', slab, offset) /\ Holds(views[n], memory')
  BY <1>1, Stays
<1>6. Len(memory) + 1 \in Nat \ {0} /\ 0 \in Nat
  BY <1>2
<1>7. /\ views' \in Seq(Views)
      /\ \A n \in 1 .. Len(views') : InPlace(views'[n], memory', slab, offset) /\ Holds(views'[n], memory')
  BY <1>1, <1>4, <1>5, <1>6, Viewed
<1>8. PoolTypeOK'
  BY <1>1, <1>2, <1>4, <1>7 DEF PoolTypeOK
<1>9. SlabFilled'
  BY <1>1, <1>2 DEF SlabFilled, Inv
<1> QED BY <1>1, <1>7, <1>8, <1>9 DEF Inv

LEMMA NewSlabStep == ASSUME Inv, NEW bytes \in Arrays, NewSlab(bytes) PROVE Inv'
<1> DEFINE array == Overwritten(Blank(SlabSize), 0, bytes)
           free == Aligned(Len(bytes))
<1>1. /\ memory' = Append(memory, array) /\ View(Len(memory) + 1, 0, bytes)
      /\ slab' = Len(memory) + 1 /\ offset' = free
  BY DEF NewSlab
<1>2. memory \in Seq(Arrays) /\ Len(memory) \in Nat
  BY DEF Inv, PoolTypeOK
<1>3. Len(bytes) \in Nat /\ 1 <= Len(bytes) /\ Len(bytes) <= SlabSize
  BY SlabAssumption DEF NewSlab, Pooled, Arrays
<1>4. free \in Nat /\ Len(bytes) <= free
  BY <1>3, AlignedAbove
<1>5. Blank(SlabSize) \in Arrays /\ Len(Blank(SlabSize)) = SlabSize
  BY SlabAssumption, BlankBytes
<1>6. array \in Arrays /\ Len(array) = SlabSize /\ \A i \in 1 .. Len(bytes) : array[i] = bytes[i]
  <2>1. 0 + Len(bytes) <= Len(Blank(SlabSize))
    BY <1>3, <1>5
  <2>2. /\ array \in Arrays /\ Len(array) = SlabSize
        /\ \A i \in 1 .. SlabSize :
             array[i] = IF 0 < i /\ i <= 0 + Len(bytes) THEN bytes[i - 0] ELSE Blank(SlabSize)[i]
    BY <1>5, <2>1, OverwrittenBytes
  <2>3. \A i \in 1 .. Len(bytes) : i \in 1 .. SlabSize /\ 0 < i /\ i <= 0 + Len(bytes) /\ i - 0 = i
    BY <1>3, SlabAssumption
  <2> QED BY <2>2, <2>3
<1> HIDE DEF array, free
<1>7. /\ memory' \in Seq(Arrays) /\ Len(memory') = Len(memory) + 1
      /\ InPlace([array |-> Len(memory) + 1, at |-> 0, bytes |-> bytes], memory', slab', offset')
      /\ Holds([array |-> Len(memory) + 1, at |-> 0, bytes |-> bytes], memory')
  BY <1>1, <1>3, <1>4, <1>6, Begins
<1>8. \A n \in 1 .. Len(views) : InPlace(views[n], memory', slab', offset') /\ Holds(views[n], memory')
  BY <1>1, <1>6, Stays
<1>9. Len(memory) + 1 \in Nat \ {0} /\ 0 \in Nat
  BY <1>2
<1>10. /\ views' \in Seq(Views)
       /\ \A n \in 1 .. Len(views') : InPlace(views'[n], memory', slab', offset') /\ Holds(views'[n], memory')
  BY <1>1, <1>7, <1>8, <1>9, Viewed
<1>11. PoolTypeOK'
  BY <1>1, <1>2, <1>4, <1>7, <1>10 DEF PoolTypeOK
<1>12. SlabFilled'
  <2>1. memory'[slab'] = array /\ slab' # 0
    BY <1>1, <1>2, <1>6
  <2> QED BY <1>6, <2>1 DEF SlabFilled
<1> QED BY <1>10, <1>11, <1>12 DEF Inv

LEMMA SameSlabStep == ASSUME Inv, NEW bytes \in Arrays, SameSlab(bytes) PROVE Inv'
<1> DEFINE old == memory[slab]
           array == Overwritten(old, offset, bytes)
           end == offset + Len(bytes)
           v == [array |-> slab, at |-> offset, bytes |-> bytes]
<1>1. /\ memory' = [memory EXCEPT ![slab] = array] /\ View(slab, offset, bytes)
      /\ slab' = slab /\ offset' = Aligned(end)
  BY DEF SameSlab
<1>2. /\ memory \in Seq(Arrays) /\ Len(memory) \in Nat /\ offset \in Nat
      /\ Len(bytes) \in Nat /\ 1 <= Len(bytes) /\ end <= SlabSize
  BY DEF Inv, PoolTypeOK, SameSlab, Pooled, Fits, Arrays
<1>3. slab \in 1 .. Len(memory) /\ slab \in Nat \ {0} /\ Len(old) = SlabSize
  <2>1. slab # 0
    BY <1>2, SlabAssumption DEF Inv, SlabFilled
  <2> QED BY <1>2, <2>1 DEF Inv, PoolTypeOK, SlabFilled
<1>4. old \in Arrays
  BY <1>2, <1>3
<1>5. end \in Nat /\ Aligned(end) \in Nat /\ end <= Aligned(end) /\ offset <= end
  <2>1. end \in Nat /\ offset <= end
    BY <1>2
  <2> HIDE DEF end
  <2>2. Aligned(end) \in Nat /\ Aligned(end) >= end
    BY <2>1, AlignedAbove
  <2> QED BY <2>1, <2>2
<1>6. /\ array \in Arrays /\ Len(array) = SlabSize
      /\ \A i \in 1 .. SlabSize :
           array[i] = IF offset < i /\ i <= end THEN bytes[i - offset] ELSE old[i]
  BY <1>2, <1>3, <1>4, OverwrittenBytes
<1> HIDE DEF array, old
<1>7. /\ memory' \in Seq(Arrays) /\ Len(memory') = Len(memory) /\ memory'[slab] = array
      /\ \A n \in 1 .. Len(memory) : n # slab => memory'[n] = memory[n]
  BY <1>1, <1>2, <1>3, <1>6
<1>8. InPlace(v, memory', slab', offset')
  <2>1. slab <= Len(memory') /\ offset + Len(bytes) <= Len(memory'[slab])
    BY <1>2, <1>3, <1>6, <1>7
  <2>2. offset + Len(bytes) <= offset'
    BY <1>1, <1>5
  <2> QED BY <2>1, <2>2 DEF InPlace
<1>9. Holds(v, memory')
  <2> SUFFICES ASSUME NEW i \in 1 .. Len(bytes) PROVE array[offset + i] = bytes[i]
    BY <1>7 DEF Holds
  <2>1. /\ offset + i \in 1 .. SlabSize /\ offset < offset + i /\ offset + i <= end
        /\ (offset + i) - offset = i
    BY <1>2, SlabAssumption
  <2> HIDE DEF end
  <2> QED BY <1>6, <2>1
<1>10. ASSUME NEW n \in 1 .. Len(views)
       PROVE  InPlace(views[n], memory', slab', offset') /\ Holds(views[n], memory')
  <2>1. views[n] \in Views /\ InPlace(views[n], memory, slab, offset) /\ Holds(views[n], memory)
    BY DEF Inv, PoolTypeOK
  <2>2. /\ views[n].array \in 1 .. Len(memory) /\ views[n].at \in Nat
        /\ views[n].bytes \in Arrays /\ Len(views[n].bytes) \in Nat
    BY <1>2, <2>1 DEF Views, InPlace, Arrays
  <2>3. CASE views[n].array # slab
    BY <1>1, <1>7, <2>1, <2>2, <2>3 DEF InPlace, Holds
  <2>4. CASE views[n].array = slab
    <3>1. views[n].at + Len(views[n].bytes) <= offset
      BY <2>1, <2>4 DEF InPlace
    <3>2. InPlace(views[n], memory', slab', offset')
      <4>1. slab' = slab \/ views[n].array # slab'
        BY <1>1, <1>2, <1>5, <1>6, <1>7, <2>2, <2>4
      <4> QED
        BY <1>1, <1>2, <1>5, <1>6, <1>7, <2>2, <2>4, <3>1, <4>1, SlabAssumption, SMTT(30) DEF InPlace
    <3>3. ASSUME NEW i \in 1 .. Len(views[n].bytes)
          PROVE  memory'[views[n].array][views[n].at + i] = views[n].bytes[i]
      <4>1. views[n].at + i \in 1 .. SlabSize /\ ~(offset < views[n].at + i)
        <5>1. \A at, len, end1 \in Nat : at + len <= end1 =>
                \A j \in 1 .. len : at + j \in 1 .. end1
          OBVIOUS
        <5>2. views[n].at + i \in 1 .. offset
          BY <1>2, <2>2, <3>1, <5>1
        <5> QED
          BY <1>2, <5>2, SlabAssumption
      <4>2. array[views[n].at + i] = old[views[n].at + i]
        BY <1>6, <4>1
      <4>3. old[views[n].at + i] = views[n].bytes[i]
        BY <2>1, <2>4 DEF Holds, old
      <4> QED BY <1>7, <2>4, <4>2, <4>3
    <3> QED BY <3>2, <3>3 DEF Holds
  <2> QED BY <2>3, <2>4
<1>11. /\ views' \in Seq(Views)
       /\ \A n \in 1 .. Len(views') : InPlace(views'[n], memory', slab', offset') /\ Holds(views'[n], memory')
  BY <1>1, <1>2, <1>3, <1>8, <1>9, <1>10, Viewed
<1>12. PoolTypeOK'
  BY <1>1, <1>3, <1>5, <1>7, <1>11 DEF PoolTypeOK
<1>13. SlabFilled'
  BY <1>1, <1>3, <1>6, <1>7 DEF SlabFilled
<1> QED BY <1>11, <1>12, <1>13 DEF Inv

LEMMA NextInv == ASSUME Inv, [PoolNext]_poolVars PROVE Inv'
<1>1. CASE PoolNext
  <2>1. PICK bytes \in Arrays : Allocate(bytes)
    BY <1>1 DEF PoolNext, Arrays, Octet8
  <2> QED BY <2>1, OwnArrayStep, SameSlabStep, NewSlabStep DEF Allocate
<1>2. CASE UNCHANGED poolVars
  BY <1>2 DEF poolVars, Inv, PoolTypeOK, SlabFilled
<1> QED BY <1>1, <1>2

LEMMA InvAlways == PoolSpec => []Inv
BY InitInv, NextInv, PTL DEF PoolSpec

-----------------------------------------------------------------------------
LEMMA InvKeeps == ASSUME Inv PROVE BuffersKeep
<1> SUFFICES ASSUME NEW n \in 1 .. Len(views) PROVE Contents(views[n]) = views[n].bytes
  BY DEF BuffersKeep
<1>0. views[n] \in Views
  BY DEF Inv, PoolTypeOK
<1>1. views[n].bytes \in Arrays /\ Holds(views[n], memory)
  BY <1>0 DEF Inv, Views
<1>2. views[n].bytes = [i \in 1 .. Len(views[n].bytes) |-> views[n].bytes[i]]
  BY <1>1 DEF Arrays
<1>3. Contents(views[n]) = [i \in 1 .. Len(views[n].bytes) |-> views[n].bytes[i]]
  BY <1>1 DEF Contents, Holds
<1> QED BY <1>2, <1>3

(* A buffer that pool_alloc has handed out keeps its bytes: none that it    *)
(* hands out later shares a place with it.                                 *)
THEOREM PoolBuffersKeep == PoolSpec => []BuffersKeep
BY InvKeeps, InvAlways, PTL

-----------------------------------------------------------------------------
(* Induction over the naturals, as a statement about a set of them.        *)
NatOrder == OpToRel(<, Nat)

LEMMA Induction ==
  ASSUME NEW S, 0 \in S, \A n \in Nat : n \in S => n + 1 \in S
  PROVE  \A n \in Nat : n \in S
<1> DEFINE T == Nat \ S
<1>1. SUFFICES ASSUME T # {} PROVE FALSE
  OBVIOUS
<1>2. IsWellFoundedOn(NatOrder, Nat)
  BY NatLessThanWellFounded, Zenon DEF NatOrder
<1>3. T \subseteq Nat
  OBVIOUS
<1>4. \E x \in T : \A y \in T : ~(<<y, x>> \in NatOrder)
  <2> HIDE DEF T
  <2> QED BY <1>1, <1>2, <1>3, WFMin
<1>5. \A x, y \in Nat : <<x, y>> \in NatOrder <=> x < y
  BY DEF NatOrder, OpToRel
<1>6. PICK x \in T : \A y \in T : ~(y < x)
  BY <1>4, <1>5
<1>7. x # 0 /\ x - 1 \in Nat /\ x - 1 \in S
  BY <1>6
<1> QED BY <1>6, <1>7

\* The sums of the beginnings of a.
Sums(f, a) == f[0] = 0 /\ \A i \in 1 .. Len(a) : f[i] = f[i - 1] + a[i]

LEMMA TotalExists ==
  ASSUME NEW a \in Seq(Int)
  PROVE  \E f : f = [i \in 0 .. Len(a) |-> IF i = 0 THEN 0 ELSE f[i - 1] + a[i]]
<1> DEFINE Upto(f, n) == f = [i \in 0 .. n |-> IF i = 0 THEN 0 ELSE f[i - 1] + a[i]]
           S == {n \in Nat : \E f : Upto(f, n)}
<1>1. 0 \in S
  <2>1. Upto([i \in 0 .. 0 |-> 0], 0)
    OBVIOUS
  <2> QED BY <2>1
<1>2. ASSUME NEW n \in Nat, n \in S PROVE n + 1 \in S
  <2>1. PICK f : Upto(f, n)
    BY <1>2
  <2> DEFINE g == [i \in 0 .. n + 1 |-> IF i <= n THEN f[i] ELSE f[n] + a[n + 1]]
  <2>2. ASSUME NEW i \in 0 .. n + 1 PROVE g[i] = IF i = 0 THEN 0 ELSE g[i - 1] + a[i]
    <3>1. CASE i <= n
      <4>1. f[i] = IF i = 0 THEN 0 ELSE f[i - 1] + a[i]
        BY <2>1, <3>1
      <4>2. i # 0 => i - 1 \in 0 .. n + 1 /\ i - 1 <= n
        BY <3>1
      <4> QED BY <3>1, <4>1, <4>2
    <3>2. CASE i = n + 1
      BY <3>2
    <3> QED BY <3>1, <3>2
  <2>3. g = [i \in 0 .. n + 1 |-> g[i]]
    OBVIOUS
  <2> HIDE DEF g
  <2>4. Upto(g, n + 1)
    BY <2>2, <2>3
  <2> HIDE DEF Upto
  <2>5. n + 1 \in Nat /\ \E h : Upto(h, n + 1)
    BY <2>4
  <2> QED BY <2>5
<1>3. Len(a) \in S
  <2> HIDE DEF S
  <2> QED BY <1>1, <1>2, Induction
<1> QED BY <1>3

LEMMA TotalSums ==
  ASSUME NEW a \in Seq(Int)
  PROVE  \E f \in [0 .. Len(a) -> Int] : Sums(f, a) /\ Total(a) = f[Len(a)]
<1> DEFINE f == CHOOSE g : g = [i \in 0 .. Len(a) |-> IF i = 0 THEN 0 ELSE g[i - 1] + a[i]]
<1>1. f = [i \in 0 .. Len(a) |-> IF i = 0 THEN 0 ELSE f[i - 1] + a[i]]
  BY TotalExists
<1>2. Total(a) = f[Len(a)]
  BY DEF Total
<1> HIDE DEF f
<1>3. Len(a) \in Nat /\ \A i \in 1 .. Len(a) : a[i] \in Int
  OBVIOUS
<1>4. \A i \in 0 .. Len(a) : f[i] = IF i = 0 THEN 0 ELSE f[i - 1] + a[i]
  <2> DEFINE e(i) == IF i = 0 THEN 0 ELSE f[i - 1] + a[i]
  <2>1. f = [i \in 0 .. Len(a) |-> e(i)]
    BY <1>1
  <2> HIDE DEF e
  <2>2. \A i \in 0 .. Len(a) : f[i] = e(i)
    BY <2>1
  <2> QED BY <2>2 DEF e
<1>5. Sums(f, a)
  BY <1>3, <1>4 DEF Sums
<1> DEFINE S == {n \in Nat : n <= Len(a) => f[n] \in Int}
<1>6. 0 \in S
  BY <1>5 DEF Sums
<1>7. ASSUME NEW n \in Nat, n \in S PROVE n + 1 \in S
  <2>1. n + 1 <= Len(a) => f[n + 1] = f[n] + a[n + 1] /\ a[n + 1] \in Int
    BY <1>5, <1>3 DEF Sums
  <2> QED BY <1>7, <1>3, <2>1
<1>8. \A n \in Nat : n \in S
  <2> HIDE DEF S
  <2> QED BY <1>6, <1>7, Induction
<1>9. \A n \in 0 .. Len(a) : f[n] \in Int
  BY <1>3, <1>8
<1>10. f \in [0 .. Len(a) -> Int]
  <2> DEFINE e(i) == IF i = 0 THEN 0 ELSE f[i - 1] + a[i]
  <2>1. f = [i \in 0 .. Len(a) |-> e(i)]
    BY <1>1
  <2> HIDE DEF e
  <2> QED BY <1>9, <2>1
<1> QED BY <1>2, <1>5, <1>10

LEMMA SumsAgree ==
  ASSUME NEW a \in Seq(Int), NEW f, NEW g, Sums(f, a), Sums(g, a)
  PROVE  \A n \in 0 .. Len(a) : f[n] = g[n]
<1> DEFINE S == {n \in Nat : n <= Len(a) => f[n] = g[n]}
<1>1. 0 \in S
  BY DEF Sums
<1>2. ASSUME NEW n \in Nat, n \in S PROVE n + 1 \in S
  BY <1>2 DEF Sums
<1> HIDE DEF S
<1>3. \A n \in Nat : n \in S
  BY <1>1, <1>2, Induction
<1> QED BY <1>3 DEF S

LEMMA TotalIs ==
  ASSUME NEW a \in Seq(Int), NEW f, Sums(f, a)
  PROVE  Total(a) = f[Len(a)]
BY TotalSums, SumsAgree

LEMMA TotalEmpty == Total(<<>>) = 0
<1>1. <<>> \in Seq(Int) /\ Len(<<>>) = 0
  OBVIOUS
<1>2. PICK f : Sums(f, <<>>) /\ Total(<<>>) = f[Len(<<>>)]
  <2>1. \E f \in [0 .. Len(<<>>) -> Int] : Sums(f, <<>>) /\ Total(<<>>) = f[Len(<<>>)]
    BY <1>1, TotalSums
  <2> QED BY <2>1
<1> QED BY <1>1, <1>2 DEF Sums

LEMMA TotalNext ==
  ASSUME NEW a \in Seq(Int), NEW x \in Int
  PROVE  Total(Append(a, x)) = Total(a) + x /\ Total(a) \in Int
<1>1. PICK f \in [0 .. Len(a) -> Int] : Sums(f, a) /\ Total(a) = f[Len(a)]
  BY TotalSums
<1> DEFINE b == Append(a, x)
           h == [i \in 0 .. Len(a) + 1 |-> IF i <= Len(a) THEN f[i] ELSE f[Len(a)] + x]
<1>2. /\ Len(a) \in Nat /\ b \in Seq(Int) /\ Len(b) = Len(a) + 1
      /\ \A i \in 1 .. Len(a) : b[i] = a[i]
      /\ b[Len(a) + 1] = x
  OBVIOUS
<1> HIDE DEF b
<1>3. \A i \in 0 .. Len(a) : h[i] = f[i]
  BY <1>2
<1>4. h[Len(a) + 1] = f[Len(a)] + x
  BY <1>2
<1> HIDE DEF h
<1>5. Sums(h, b)
  <2>1. h[0] = 0
    BY <1>1, <1>2, <1>3 DEF Sums
  <2>2. ASSUME NEW i \in 1 .. Len(b) PROVE h[i] = h[i - 1] + b[i]
    <3>1. CASE i \in 1 .. Len(a)
      <4>1. f[i] = f[i - 1] + a[i]
        BY <1>1, <3>1 DEF Sums
      <4>2. i \in 0 .. Len(a) /\ i - 1 \in 0 .. Len(a)
        BY <1>2, <3>1
      <4>3. h[i] = f[i] /\ h[i - 1] = f[i - 1] /\ b[i] = a[i]
        BY <1>2, <1>3, <3>1, <4>2
      <4> QED BY <4>1, <4>3
    <3>2. CASE i = Len(a) + 1
      BY <1>2, <1>3, <1>4, <3>2
    <3> QED BY <1>2, <3>1, <3>2
  <2> QED BY <2>1, <2>2 DEF Sums
<1>6. Total(b) = h[Len(a) + 1]
  BY <1>2, <1>5, TotalIs
<1>7. f[Len(a)] \in Int
  <2>1. Len(a) \in 0 .. Len(a)
    BY <1>2
  <2> QED BY <1>1, <2>1
<1> QED BY <1>1, <1>4, <1>6, <1>7 DEF b

-----------------------------------------------------------------------------
LEMMA SequenceInduction ==
  ASSUME NEW T, NEW P, <<>> \in P, \A s \in Seq(T), x \in T : s \in P => Append(s, x) \in P
  PROVE  \A s \in Seq(T) : s \in P
<1> DEFINE S == {n \in Nat : \A s \in Seq(T) : Len(s) = n => s \in P}
<1>1. 0 \in S
  <2>1. \A s \in Seq(T) : Len(s) = 0 => s = <<>>
    OBVIOUS
  <2> QED BY <2>1
<1>2. ASSUME NEW n \in Nat, n \in S PROVE n + 1 \in S
  <2>1. ASSUME NEW s \in Seq(T), Len(s) = n + 1 PROVE s \in P
    <3> DEFINE front == [i \in 1 .. n |-> s[i]]
    <3>1. front \in Seq(T) /\ Len(front) = n /\ s[n + 1] \in T
      BY <2>1
    <3>2. Append(front, s[n + 1]) \in Seq(T) /\ Len(Append(front, s[n + 1])) = n + 1
      BY <3>1
    <3>3. \A i \in 1 .. n + 1 : Append(front, s[n + 1])[i] = s[i]
      BY <3>1
    <3>4. s = Append(front, s[n + 1])
      BY <2>1, <3>2, <3>3, SeqEqual
    <3> HIDE DEF front
    <3>5. Append(front, s[n + 1]) \in P
      BY <1>2, <3>1
    <3> QED BY <3>4, <3>5
  <2> QED BY <2>1
<1> HIDE DEF S
<1>3. \A n \in Nat : n \in S
  BY <1>1, <1>2, Induction
<1> QED BY <1>3 DEF S

LEMMA AppendJoined ==
  ASSUME NEW T, NEW a \in Seq(T), NEW s \in Seq(T), NEW x \in T
  PROVE  a \o Append(s, x) = Append(a \o s, x)
BY AppendIsConcat, ConcatAssociative

LEMMA TotalJoined ==
  ASSUME NEW a \in Seq(Int), NEW b \in Seq(Int)
  PROVE  Total(a \o b) = Total(a) + Total(b) /\ Total(a) \in Int
<1> DEFINE P == {s \in Seq(Int) : Total(a \o s) = Total(a) + Total(s)}
<1>1. Total(a) \in Int
  BY TotalNext
<1>2. <<>> \in P
  <2>1. a \o <<>> = a
    OBVIOUS
  <2> QED BY <1>1, <2>1, TotalEmpty
<1>3. ASSUME NEW s \in Seq(Int), NEW x \in Int, s \in P PROVE Append(s, x) \in P
  <2>1. a \o Append(s, x) = Append(a \o s, x)
    BY AppendJoined
  <2>2. a \o s \in Seq(Int) /\ Append(s, x) \in Seq(Int)
    OBVIOUS
  <2>3. Total(Append(a \o s, x)) = Total(a \o s) + x
    BY <2>2, TotalNext
  <2>4. Total(Append(s, x)) = Total(s) + x /\ Total(s) \in Int
    BY TotalNext
  <2>5. Total(a \o s) = Total(a) + Total(s) /\ Total(a \o s) \in Int
    BY <1>3, <2>2, TotalNext
  <2>6. Total(a \o Append(s, x)) = Total(a) + Total(Append(s, x))
    BY <1>1, <2>1, <2>3, <2>4, <2>5
  <2> QED BY <2>2, <2>6
<1> HIDE DEF P
<1>4. b \in P
  BY <1>2, <1>3, SequenceInduction
<1> QED BY <1>1, <1>4 DEF P

-----------------------------------------------------------------------------
\* The beginnings of the strings ss joined.
Join(f, ss, i) == IF i = 1 THEN ss[i] ELSE f[i - 1] \o ss[i]
Joins(f, ss) == \A i \in 1 .. Len(ss) : f[i] = Join(f, ss, i)

LEMMA JoinOf ==
  ASSUME NEW f, NEW ss
  PROVE  /\ Join(f, ss, 1) = ss[1]
         /\ \A i : i # 1 => Join(f, ss, i) = f[i - 1] \o ss[i]
BY Zenon DEF Join

LEMMA JoinSame ==
  ASSUME NEW f, NEW g, NEW ss, NEW tt, NEW i, i # 1 => f[i - 1] = g[i - 1], ss[i] = tt[i]
  PROVE  Join(f, ss, i) = Join(g, tt, i)
BY Zenon DEF Join

LEMMA FlattenExists ==
  ASSUME NEW ss, Len(ss) \in Nat
  PROVE  \E f : f = [i \in 1 .. Len(ss) |-> Join(f, ss, i)]
<1> DEFINE Upto(f, n) == f = [i \in 1 .. n |-> Join(f, ss, i)]
           S == {n \in Nat : \E f : Upto(f, n)}
<1>1. 0 \in S
  <2>1. Upto([i \in 1 .. 0 |-> 0], 0)
    OBVIOUS
  <2> QED BY <2>1
<1>2. ASSUME NEW n \in Nat, n \in S PROVE n + 1 \in S
  <2>1. PICK f : Upto(f, n)
    BY <1>2
  <2> DEFINE g == [i \in 1 .. n + 1 |-> Join(f, ss, i)]
  <2>2. ASSUME NEW i \in 1 .. n + 1 PROVE g[i] = Join(g, ss, i)
    <3>1. i # 1 => i - 1 \in 1 .. n
      OBVIOUS
    <3>2. i # 1 => g[i - 1] = Join(f, ss, i - 1) /\ f[i - 1] = Join(f, ss, i - 1)
      BY <2>1, <3>1
    <3> QED BY <3>2, JoinSame
  <2>3. g = [i \in 1 .. n + 1 |-> g[i]]
    OBVIOUS
  <2> HIDE DEF g
  <2>4. Upto(g, n + 1)
    BY <2>2, <2>3
  <2> HIDE DEF Upto
  <2>5. n + 1 \in Nat /\ \E h : Upto(h, n + 1)
    BY <2>4
  <2> QED BY <2>5
<1>3. Len(ss) \in S
  <2> HIDE DEF S
  <2> QED BY <1>1, <1>2, Induction
<1> QED BY <1>3

LEMMA FlattenEmpty == FlattenSeq(<<>>) = <<>>
BY DEF FlattenSeq

LEMMA FlattenJoins ==
  ASSUME NEW T, NEW ss \in Seq(Seq(T)), ss # <<>>
  PROVE  \E f : /\ Joins(f, ss) /\ FlattenSeq(ss) = f[Len(ss)]
                /\ \A i \in 1 .. Len(ss) : f[i] \in Seq(T)
<1>1. Len(ss) \in Nat /\ Len(ss) # 0 /\ \A i \in 1 .. Len(ss) : ss[i] \in Seq(T)
  OBVIOUS
<1> DEFINE f == CHOOSE g : g = [i \in 1 .. Len(ss) |-> Join(g, ss, i)]
<1>2. f = [i \in 1 .. Len(ss) |-> Join(f, ss, i)]
  BY <1>1, FlattenExists
<1>3. FlattenSeq(ss) = f[Len(ss)]
  BY <1>1 DEF FlattenSeq, Join
<1> HIDE DEF f
<1>4. Joins(f, ss)
  BY <1>2 DEF Joins
<1> DEFINE S == {n \in Nat : n + 1 <= Len(ss) => f[n + 1] \in Seq(T)}
<1>5. 0 \in S
  <2>1. f[1] = Join(f, ss, 1)
    BY <1>1, <1>4 DEF Joins
  <2>2. f[1] = ss[1]
    BY <2>1, JoinOf, Zenon
  <2> QED BY <1>1, <2>2
<1>6. ASSUME NEW n \in Nat, n \in S PROVE n + 1 \in S
  <2>1. CASE n + 2 <= Len(ss)
    <3>1. f[n + 2] = Join(f, ss, n + 2) /\ ss[n + 2] \in Seq(T) /\ f[n + 1] \in Seq(T)
      BY <1>1, <1>4, <1>6, <2>1 DEF Joins
    <3>2. Join(f, ss, n + 2) = f[n + 1] \o ss[n + 2]
      <4>1. n + 2 # 1 /\ (n + 2) - 1 = n + 1
        OBVIOUS
      <4> QED BY <4>1, JoinOf, Zenon
    <3>3. f[n + 2] \in Seq(T)
      <4>1. \A x, y \in Seq(T) : x \o y \in Seq(T)
        OBVIOUS
      <4> QED BY <3>1, <3>2, <4>1, Zenon
    <3> QED BY <3>3
  <2>2. CASE ~(n + 2 <= Len(ss))
    BY <1>1, <2>2
  <2> QED BY <2>1, <2>2
<1>7. \A n \in Nat : n \in S
  <2> HIDE DEF S
  <2> QED BY <1>5, <1>6, Induction
<1>8. ASSUME NEW i \in 1 .. Len(ss) PROVE f[i] \in Seq(T)
  <2>1. i - 1 \in Nat /\ (i - 1) + 1 = i
    BY <1>1
  <2>2. i - 1 \in S
    <3> HIDE DEF S
    <3> QED BY <1>7, <2>1
  <2> QED BY <1>1, <2>1, <2>2
<1> QED BY <1>3, <1>4, <1>8

LEMMA JoinsAgree ==
  ASSUME NEW ss, Len(ss) \in Nat, NEW f, NEW g, Joins(f, ss), Joins(g, ss)
  PROVE  \A n \in 1 .. Len(ss) : f[n] = g[n]
<1> DEFINE S == {n \in Nat : n + 1 <= Len(ss) => f[n + 1] = g[n + 1]}
<1>1. 0 \in S
  <2>1. 1 <= Len(ss) => f[1] = Join(f, ss, 1) /\ g[1] = Join(g, ss, 1)
    BY DEF Joins
  <2>2. Join(f, ss, 1) = ss[1] /\ Join(g, ss, 1) = ss[1]
    BY JoinOf, Zenon
  <2> QED BY <2>1, <2>2
<1>2. ASSUME NEW n \in Nat, n \in S PROVE n + 1 \in S
  <2>1. CASE n + 2 <= Len(ss)
    <3>1. f[n + 2] = Join(f, ss, n + 2) /\ g[n + 2] = Join(g, ss, n + 2) /\ f[n + 1] = g[n + 1]
      BY <1>2, <2>1 DEF Joins
    <3>2. (n + 2) - 1 = n + 1
      OBVIOUS
    <3>3. f[(n + 2) - 1] = g[(n + 2) - 1]
      BY <3>1, <3>2
    <3>4. Join(f, ss, n + 2) = Join(g, ss, n + 2)
      BY <3>3, JoinSame
    <3> QED BY <3>1, <3>4
  <2>2. CASE ~(n + 2 <= Len(ss))
    BY <2>2
  <2> QED BY <2>1, <2>2
<1> HIDE DEF S
<1>3. \A n \in Nat : n \in S
  BY <1>1, <1>2, Induction
<1>4. ASSUME NEW i \in 1 .. Len(ss) PROVE f[i] = g[i]
  <2>1. i - 1 \in S /\ (i - 1) + 1 = i
    BY <1>3
  <2> QED BY <2>1 DEF S
<1> QED BY <1>4

LEMMA FlattenNext ==
  ASSUME NEW T, NEW ss \in Seq(Seq(T)), NEW s \in Seq(T)
  PROVE  FlattenSeq(Append(ss, s)) = FlattenSeq(ss) \o s /\ FlattenSeq(ss) \in Seq(T)
<1> DEFINE b == Append(ss, s)
<1>1. /\ Len(ss) \in Nat /\ b \in Seq(Seq(T)) /\ b # <<>> /\ Len(b) = Len(ss) + 1
      /\ \A i \in 1 .. Len(ss) : b[i] = ss[i]
      /\ b[Len(ss) + 1] = s
  BY AppendProperties
<1> HIDE DEF b
<1>2. PICK g : Joins(g, b) /\ FlattenSeq(b) = g[Len(b)]
  BY <1>1, FlattenJoins
<1>3. CASE ss = <<>>
  <2>1. FlattenSeq(b) = s
    <3>1. Len(b) = 1 /\ b[1] = s
      BY <1>1, <1>3
    <3>2. g[1] = Join(g, b, 1)
      BY <1>2, <3>1 DEF Joins
    <3>3. Join(g, b, 1) = b[1]
      BY JoinOf, Zenon
    <3> QED BY <1>2, <3>1, <3>2, <3>3
  <2>2. FlattenSeq(ss) = <<>> /\ <<>> \in Seq(T) /\ <<>> \o s = s
    BY <1>3, FlattenEmpty
  <2> QED BY <2>1, <2>2 DEF b
<1>4. CASE ss # <<>>
  <2>0. Len(ss) # 0
    BY <1>4
  <2>1. PICK f : /\ Joins(f, ss) /\ FlattenSeq(ss) = f[Len(ss)]
                 /\ \A i \in 1 .. Len(ss) : f[i] \in Seq(T)
    BY <1>4, FlattenJoins
  <2>2. ASSUME NEW i \in 1 .. Len(ss) PROVE g[i] = Join(g, ss, i)
    <3>1. i \in 1 .. Len(b) /\ b[i] = ss[i]
      BY <1>1
    <3>2. g[i] = Join(g, b, i)
      BY <1>2, <3>1 DEF Joins
    <3> QED BY <3>1, <3>2, JoinSame
  <2>3. g[Len(ss)] = f[Len(ss)]
    <3>1. Joins(g, ss)
      BY <2>2 DEF Joins
    <3> QED BY <1>1, <2>0, <2>1, <3>1, JoinsAgree
  <2>4. g[Len(ss) + 1] = g[Len(ss)] \o s
    <3>1. Len(ss) + 1 \in 1 .. Len(b) /\ (Len(ss) + 1) - 1 = Len(ss) /\ Len(ss) + 1 # 1
      BY <1>1, <2>0
    <3>2. g[Len(ss) + 1] = Join(g, b, Len(ss) + 1)
      BY <1>2, <3>1 DEF Joins
    <3>3. Join(g, b, Len(ss) + 1) = g[(Len(ss) + 1) - 1] \o b[Len(ss) + 1]
      BY <3>1, JoinOf, Zenon
    <3> QED BY <1>1, <3>1, <3>2, <3>3
  <2>5. Len(ss) \in 1 .. Len(ss)
    BY <1>1, <2>0
  <2> QED BY <1>1, <1>2, <2>1, <2>3, <2>4, <2>5 DEF b
<1> QED BY <1>3, <1>4

LEMMA FlattenJoined ==
  ASSUME NEW T, NEW a \in Seq(Seq(T)), NEW b \in Seq(Seq(T))
  PROVE  FlattenSeq(a \o b) = FlattenSeq(a) \o FlattenSeq(b)
<1> DEFINE P == {s \in Seq(Seq(T)) : FlattenSeq(a \o s) = FlattenSeq(a) \o FlattenSeq(s)}
<1>1. FlattenSeq(a) \in Seq(T)
  <2>1. <<>> \in Seq(T)
    OBVIOUS
  <2> QED BY <2>1, FlattenNext
<1>2. <<>> \in P
  <2>1. a \o <<>> = a /\ <<>> \in Seq(Seq(T))
    OBVIOUS
  <2>2. FlattenSeq(a) \o <<>> = FlattenSeq(a)
    BY <1>1, ConcatEmptySeq
  <2> QED BY <2>1, <2>2, FlattenEmpty
<1>3. ASSUME NEW s \in Seq(Seq(T)), NEW x \in Seq(T), s \in P PROVE Append(s, x) \in P
  <2>1. a \o Append(s, x) = Append(a \o s, x)
    BY AppendJoined, SMTT(30)
  <2>2. a \o s \in Seq(Seq(T)) /\ Append(s, x) \in Seq(Seq(T))
    OBVIOUS
  <2>3. FlattenSeq(Append(a \o s, x)) = FlattenSeq(a \o s) \o x
    BY <2>2, FlattenNext
  <2>4. FlattenSeq(Append(s, x)) = FlattenSeq(s) \o x /\ FlattenSeq(s) \in Seq(T)
    BY FlattenNext
  <2>5. FlattenSeq(a \o s) = FlattenSeq(a) \o FlattenSeq(s)
    BY <1>3
  <2>6. FlattenSeq(a \o Append(s, x)) = FlattenSeq(a) \o FlattenSeq(Append(s, x))
    <3>1. (FlattenSeq(a) \o FlattenSeq(s)) \o x = FlattenSeq(a) \o (FlattenSeq(s) \o x)
      <4> SUFFICES ASSUME NEW q \in Seq(T), NEW r \in Seq(T) PROVE (q \o r) \o x = q \o (r \o x)
        BY <1>1, <2>4
      <4> QED BY ConcatAssociative, SMTT(30)
    <3> QED BY <2>1, <2>3, <2>4, <2>5, <3>1
  <2> QED BY <2>2, <2>6
<1> HIDE DEF P
<1>4. b \in P
  BY <1>2, <1>3, SequenceInduction
<1> QED BY <1>4 DEF P

LEMMA FlattenLength ==
  ASSUME NEW T, NEW ss \in Seq(Seq(T))
  PROVE  Len(FlattenSeq(ss)) = Total([i \in 1 .. Len(ss) |-> Len(ss[i])])
<1> DEFINE Lens(s) == [i \in 1 .. Len(s) |-> Len(s[i])]
           P == {s \in Seq(Seq(T)) : Len(FlattenSeq(s)) = Total(Lens(s))}
<1>1. <<>> \in P
  <2>1. Lens(<<>>) = <<>> /\ <<>> \in Seq(Seq(T)) /\ Len(<<>>) = 0
    OBVIOUS
  <2> HIDE DEF Lens
  <2> QED BY <2>1, FlattenEmpty, TotalEmpty
<1>2. ASSUME NEW s \in Seq(Seq(T)), NEW x \in Seq(T), s \in P PROVE Append(s, x) \in P
  <2>1. /\ Len(s) \in Nat /\ Len(x) \in Nat /\ Lens(s) \in Seq(Int) /\ Len(Lens(s)) = Len(s)
        /\ \A i \in 1 .. Len(s) : Lens(s)[i] = Len(s[i])
    OBVIOUS
  <2>2. /\ Append(s, x) \in Seq(Seq(T)) /\ Len(Append(s, x)) = Len(s) + 1
        /\ \A i \in 1 .. Len(s) + 1 : Append(s, x)[i] = IF i <= Len(s) THEN s[i] ELSE x
    BY AppendProperties
  <2>3. Lens(Append(s, x)) = Append(Lens(s), Len(x))
    <3> DEFINE c == Append(s, x)
               d == Append(Lens(s), Len(x))
    <3>1. /\ Lens(c) \in Seq(Int) /\ Len(Lens(c)) = Len(s) + 1
          /\ \A i \in 1 .. Len(s) + 1 : Lens(c)[i] = Len(c[i])
      <4> HIDE DEF c
      <4>1. \A i \in 1 .. Len(c) : Len(c[i]) \in Int
        BY <2>2 DEF c
      <4> QED BY <2>1, <2>2, <4>1 DEF c
    <3>2. /\ d \in Seq(Int) /\ Len(d) = Len(s) + 1
          /\ \A i \in 1 .. Len(s) + 1 : d[i] = IF i <= Len(s) THEN Lens(s)[i] ELSE Len(x)
      <4> HIDE DEF Lens
      <4> QED BY <2>1, AppendProperties
    <3>3. \A i \in 1 .. Len(s) + 1 : Len(c[i]) = IF i <= Len(s) THEN Len(s[i]) ELSE Len(x)
      BY <2>2
    <3> HIDE DEF c, d, Lens
    <3>4. ASSUME NEW i \in 1 .. Len(s) + 1 PROVE Lens(c)[i] = d[i]
      <4>1. Lens(c)[i] = Len(c[i]) /\ Len(c[i]) = IF i <= Len(s) THEN Len(s[i]) ELSE Len(x)
        BY <3>1, <3>3
      <4>2. d[i] = IF i <= Len(s) THEN Lens(s)[i] ELSE Len(x)
        BY <3>2
      <4>3. i <= Len(s) => Lens(s)[i] = Len(s[i])
        BY <2>1
      <4> QED BY <4>1, <4>2, <4>3
    <3>5. Lens(c) = d
      BY <3>1, <3>2, <3>4, SeqEqual
    <3> QED BY <3>5 DEF c, d
  <2>4. FlattenSeq(Append(s, x)) = FlattenSeq(s) \o x /\ FlattenSeq(s) \in Seq(T)
    BY FlattenNext
  <2> HIDE DEF Lens
  <2>5. Total(Lens(Append(s, x))) = Total(Lens(s)) + Len(x)
    BY <2>1, <2>3, TotalNext
  <2>6. Len(FlattenSeq(s)) = Total(Lens(s))
    BY <1>2
  <2>7. Len(FlattenSeq(s) \o x) = Len(FlattenSeq(s)) + Len(x)
    BY <2>4, ConcatProperties
  <2> QED BY <2>2, <2>4, <2>5, <2>6, <2>7
<1> HIDE DEF P
<1>3. ss \in P
  BY <1>1, <1>2, SequenceInduction
<1> QED BY <1>3 DEF P

(* Texts.                                                                  *)
LEMMA Septet32Or128 ==
  /\ Septet = 32 \/ Septet = 128
  /\ Septet = 32 => /\ Trail = 16 /\ Lead2 = 48 /\ Lead3 = 56 /\ Lead4 = 60 /\ Unit2 = 128
                    /\ Unit3 = 1024 /\ Block = 16 /\ Byte = 64 /\ Word = 8388608
  /\ Septet = 128 => /\ Trail = 64 /\ Lead2 = 192 /\ Lead3 = 224 /\ Lead4 = 240 /\ Unit2 = 2048
                     /\ Unit3 = 65536 /\ Block = 1024 /\ Byte = 256 /\ Word = 4294967296
<1>1. Septet = 32 \/ Septet = 128
  <2>1. Septet \in {16, 32, 48, 64, 80, 96, 112, 128}
    BY WireAssumption, TextAssumption
  <2>2. Nibble \in 2 .. 128 /\ 2 * Septet = Nibble * Nibble
    BY WireAssumption, TextAssumption
  <2>3. Nibble < 17
    <3>1. Nibble >= 17 => Nibble * Nibble >= 17 * 17
      BY <2>2
    <3> QED BY <2>1, <2>2, <3>1
  <2>4. Nibble \in {2, 3, 4, 5, 6, 7, 8, 9, 10, 11, 12, 13, 14, 15, 16}
    BY <2>2, <2>3
  <2> QED BY <2>1, <2>2, <2>4
<1>2. Septet = 32 => /\ Trail = 16 /\ Lead2 = 48 /\ Lead3 = 56 /\ Lead4 = 60 /\ Unit2 = 128
                     /\ Unit3 = 1024 /\ Block = 16 /\ Byte = 64
  BY DEF Trail, Lead2, Lead3, Lead4, Unit2, Unit3, Block, Byte
<1>3. Septet = 128 => /\ Trail = 64 /\ Lead2 = 192 /\ Lead3 = 224 /\ Lead4 = 240 /\ Unit2 = 2048
                      /\ Unit3 = 65536 /\ Block = 1024 /\ Byte = 256
  BY DEF Trail, Lead2, Lead3, Lead4, Unit2, Unit3, Block, Byte
<1>4. (Septet = 32 => Word = 8388608) /\ (Septet = 128 => Word = 4294967296)
  <2>1. Nibble \in Nat /\ 2 * Septet = Nibble * Nibble
    BY WireAssumption
  <2>2. Nibble >= 17 => Nibble * Nibble >= 17 * 17
    BY <2>1
  <2>3. Septet <= 128
    BY TextAssumption
  <2>4. Nibble \in 0 .. 16
    BY <1>1, <2>1, <2>2, <2>3
  <2>5. Nibble \in {0, 1, 2, 3, 4, 5, 6, 7, 8, 9, 10, 11, 12, 13, 14, 15, 16}
    BY <2>4
  <2>6. (Septet = 32 => Nibble = 8) /\ (Septet = 128 => Nibble = 16)
    BY <2>1, <2>5
  <2>7. Power[5] = Septet * Septet * Septet * Septet
    BY DEF Power
  <2>8. CASE Septet = 32
    BY <2>6, <2>7, <2>8 DEF Word
  <2>9. CASE Septet = 128
    BY <2>6, <2>7, <2>9 DEF Word
  <2> QED BY <1>1, <2>8, <2>9
<1> QED BY <1>1, <1>2, <1>3, <1>4

LEMMA LeadOctets ==
  /\ \A c \in Nat : Trailing(c) \in Octets
  /\ \A c \in 0 .. Septet - 1 : c \in Octets
  /\ \A c \in 0 .. Unit2 - 1 : Lead2 + c \div Trail \in Octets
  /\ \A c \in 0 .. Unit3 - 1 : Lead3 + c \div (Trail * Trail) \in Octets
  /\ \A c, d \in Nat :
       Lead4 + (Unit3 + (c % Block) * Block + (d % Block)) \div (Trail * Trail * Trail) \in Octets
<1>1. CASE Septet = 32
  <2>1. \A c \in Nat : Trailing(c) \in Octets
    BY <1>1, Septet32Or128 DEF Trailing, Octets
  <2>2. \A c \in 0 .. Septet - 1 : c \in Octets
    BY <1>1, Septet32Or128 DEF Octets
  <2>3. \A c \in 0 .. Unit2 - 1 : Lead2 + c \div Trail \in Octets
    BY <1>1, Septet32Or128 DEF Octets
  <2>4. \A c \in 0 .. Unit3 - 1 : Lead3 + c \div (Trail * Trail) \in Octets
    BY <1>1, Septet32Or128 DEF Octets
  <2>5. ASSUME NEW c \in Nat, NEW d \in Nat
        PROVE  Lead4 + (Unit3 + (c % Block) * Block + (d % Block)) \div (Trail * Trail * Trail) \in Octets
    <3>1. c % 16 \in 0 .. 15 /\ d % 16 \in 0 .. 15
      OBVIOUS
    <3> QED BY <1>1, <3>1, Septet32Or128 DEF Octets
  <2> QED BY <2>1, <2>2, <2>3, <2>4, <2>5
<1>2. CASE Septet = 128
  <2>1. \A c \in Nat : Trailing(c) \in Octets
    BY <1>2, Septet32Or128 DEF Trailing, Octets
  <2>2. \A c \in 0 .. Septet - 1 : c \in Octets
    BY <1>2, Septet32Or128 DEF Octets
  <2>3. \A c \in 0 .. Unit2 - 1 : Lead2 + c \div Trail \in Octets
    BY <1>2, Septet32Or128 DEF Octets
  <2>4. \A c \in 0 .. Unit3 - 1 : Lead3 + c \div (Trail * Trail) \in Octets
    BY <1>2, Septet32Or128 DEF Octets
  <2>5. ASSUME NEW c \in Nat, NEW d \in Nat
        PROVE  Lead4 + (Unit3 + (c % Block) * Block + (d % Block)) \div (Trail * Trail * Trail) \in Octets
    <3>1. c % 1024 \in 0 .. 1023 /\ d % 1024 \in 0 .. 1023
      OBVIOUS
    <3> QED BY <1>2, <3>1, Septet32Or128 DEF Octets
  <2> QED BY <2>1, <2>2, <2>3, <2>4, <2>5
<1> QED BY <1>1, <1>2, Septet32Or128

\* The bytes of a unit are as many as are counted for it.
LEMMA UnitCounted ==
  ASSUME NEW s \in Texts, NEW i \in 1 .. Len(s)
  PROVE  UnitBytes(s, i) \in Buffers /\ Len(UnitBytes(s, i)) = UnitLength(s, i)
<1> DEFINE c == s[i]
           p == Unit3 + (c % Block) * Block + (s[i + 1] % Block)
<1>1. Len(s) \in Nat /\ c \in 0 .. Unit3 - 1 /\ c \in Nat /\ (i + 1 <= Len(s) => s[i + 1] \in Nat)
  <2> DEFINE Units == 0 .. Unit3 - 1
  <2>1. s \in Seq(Units)
    BY DEF Texts
  <2> HIDE DEF Units
  <2>2. Len(s) \in Nat /\ \A j \in 1 .. Len(s) : s[j] \in Units
    BY <2>1
  <2>3. i + 1 <= Len(s) => i + 1 \in 1 .. Len(s)
    BY <2>2
  <2>4. \A x \in Units : x \in Nat
    BY DEF Units
  <2> QED BY <2>2, <2>3, <2>4 DEF Units
<1>2. Septet \in Nat /\ Trail \in Nat \ {0} /\ Block \in Nat \ {0} /\ Unit3 \in Nat
  BY Septet32Or128, SMTT(30)
<1>3. CASE Pair(s, i - 1)
  <2>0. ~Pair(s, i)
    <3>1. (i - 1) + 1 = i
      OBVIOUS
    <3> QED BY <1>3, <3>1 DEF Pair, High, Low
  <2>1. UnitBytes(s, i) = <<>> /\ UnitLength(s, i) = 0
    BY <1>3, <2>0 DEF UnitBytes, UnitLength
  <2> QED BY <2>1 DEF Buffers
<1>4. CASE ~Pair(s, i - 1) /\ Pair(s, i)
  <2>1. s[i + 1] \in Nat
    BY <1>1, <1>4 DEF Pair
  <2>2. p \in Nat /\ p \div (Trail * Trail) \in Nat /\ p \div Trail \in Nat
    <3>1. (c % Block) * Block \in Nat /\ s[i + 1] % Block \in Nat
      BY <1>1, <1>2, <2>1, SMTT(30)
    <3>2. p \in Nat
      BY <1>2, <3>1
    <3> HIDE DEF p
    <3>3. Trail * Trail \in Nat \ {0}
      BY <1>2
    <3> QED BY <1>2, <3>2, <3>3, DivNat
  <2>3. UnitBytes(s, i) =
          <<Lead4 + p \div (Trail * Trail * Trail), Trailing(p \div (Trail * Trail)),
            Trailing(p \div Trail), Trailing(p)>>
    BY <1>4 DEF UnitBytes
  <2>4. UnitLength(s, i) = 4
    BY <1>4 DEF UnitLength
  <2>5. Lead4 + p \div (Trail * Trail * Trail) \in Octets
    BY <1>1, <2>1, LeadOctets
  <2>6. /\ Trailing(p \div (Trail * Trail)) \in Octets /\ Trailing(p \div Trail) \in Octets
        /\ Trailing(p) \in Octets
    <3> HIDE DEF p
    <3> QED BY <2>2, LeadOctets
  <2>7. \A w, x, y, z \in Octets : <<w, x, y, z>> \in Seq(Octets) /\ Len(<<w, x, y, z>>) = 4
    OBVIOUS
  <2> HIDE DEF p
  <2> QED BY <2>3, <2>4, <2>5, <2>6, <2>7, Zenon DEF Buffers
<1>5. CASE ~Pair(s, i - 1) /\ ~Pair(s, i)
  <2>1. CASE c < Septet
    <3>1. UnitBytes(s, i) = <<c>> /\ UnitLength(s, i) = 1
      BY <1>5, <2>1 DEF UnitBytes, UnitLength
    <3>2. c \in Octets
      <4>1. c \in 0 .. Septet - 1
        BY <1>1, <1>2, <2>1
      <4> QED BY <4>1, LeadOctets
    <3>3. \A x \in Octets : <<x>> \in Seq(Octets) /\ Len(<<x>>) = 1
      OBVIOUS
    <3> QED BY <3>1, <3>2, <3>3 DEF Buffers
  <2>2. CASE ~(c < Septet) /\ c < Unit2
    <3>1. UnitBytes(s, i) = <<Lead2 + c \div Trail, Trailing(c)>> /\ UnitLength(s, i) = 2
      BY <1>5, <2>2 DEF UnitBytes, UnitLength
    <3>2. c \in 0 .. Unit2 - 1
      BY <1>1, <2>2, Septet32Or128, SMTT(30)
    <3>3. Lead2 + c \div Trail \in Octets /\ Trailing(c) \in Octets
      BY <1>1, <3>2, LeadOctets
    <3>4. \A x, y \in Octets : <<x, y>> \in Seq(Octets) /\ Len(<<x, y>>) = 2
      OBVIOUS
    <3> QED BY <3>1, <3>3, <3>4 DEF Buffers
  <2>3. CASE ~(c < Septet) /\ ~(c < Unit2)
    <3>1. /\ UnitBytes(s, i) = <<Lead3 + c \div (Trail * Trail), Trailing(c \div Trail), Trailing(c)>>
          /\ UnitLength(s, i) = 3
      BY <1>5, <2>3 DEF UnitBytes, UnitLength
    <3>2. c \div Trail \in Nat
      BY <1>1, <1>2, DivNat
    <3>3. /\ Lead3 + c \div (Trail * Trail) \in Octets
          /\ Trailing(c \div Trail) \in Octets /\ Trailing(c) \in Octets
      BY <1>1, <3>2, LeadOctets
    <3>4. \A x, y, z \in Octets : <<x, y, z>> \in Seq(Octets) /\ Len(<<x, y, z>>) = 3
      OBVIOUS
    <3> QED BY <3>1, <3>3, <3>4 DEF Buffers
  <2> QED BY <2>1, <2>2, <2>3
<1> QED BY <1>3, <1>4, <1>5

(* utf8.length counts the bytes that utf8.write writes, for any text, also  *)
(* with pairs of surrogates and with surrogates alone.                     *)
THEOREM TextCounted ==
  \A s \in Texts : Utf8Write(s) \in Buffers /\ Len(Utf8Write(s)) = Utf8Length(s)
<1> SUFFICES ASSUME NEW s \in Texts
             PROVE  Utf8Write(s) \in Buffers /\ Len(Utf8Write(s)) = Utf8Length(s)
  OBVIOUS
<1> DEFINE parts == [i \in 1 .. Len(s) |-> UnitBytes(s, i)]
           lens == [i \in 1 .. Len(s) |-> UnitLength(s, i)]
<1>1. Len(s) \in Nat
  BY DEF Texts
<1>2. /\ parts \in Seq(Seq(Octets)) /\ Len(parts) = Len(s)
      /\ \A i \in 1 .. Len(s) : Len(parts[i]) = UnitLength(s, i)
  BY <1>1, UnitCounted DEF Buffers
<1>3. [i \in 1 .. Len(parts) |-> Len(parts[i])] = lens
  BY <1>2
<1>4. Utf8Write(s) = FlattenSeq(parts) /\ Utf8Length(s) = Total(lens)
  BY DEF Utf8Write, Utf8Length
<1> HIDE DEF parts, lens
<1>5. Len(FlattenSeq(parts)) = Total([i \in 1 .. Len(parts) |-> Len(parts[i])])
  BY <1>2, FlattenLength
<1>6. FlattenSeq(parts) \in Seq(Octets)
  <2>1. <<>> \in Seq(Octets)
    OBVIOUS
  <2> QED BY <1>2, <2>1, FlattenNext
<1> QED BY <1>3, <1>4, <1>5, <1>6 DEF Buffers

-----------------------------------------------------------------------------
(* The writer's operations.                                                *)
Operations ==
  [fn : {"varint32", "fixed32"}, len : Nat, val : 0 .. Word - 1]
    \cup [fn : {"varint64"}, len : Nat, val : LongBits]
    \cup [fn : {"byte"}, len : Nat, val : 0 .. 1]
    \cup [fn : {"bytes"}, len : Nat, val : Buffers]
    \cup [fn : {"text"}, len : Nat, val : Texts]

ExactOps == {op \in Operations : op.len = Len(Stored(op))}

LEMMA StoredBytes == ASSUME NEW op \in Operations PROVE Stored(op) \in Buffers
<1>0. \A x, y, z, w \in Octets :
        <<x>> \in Buffers /\ <<x, y, z, w>> \in Buffers
  BY DEF Buffers
<1>1. CASE op.fn = "varint32"
  <2>1. op.val \in 0 .. Word - 1
    BY <1>1 DEF Operations
  <2> QED BY <1>1, <2>1, Length32Of DEF Stored, Written
<1>2. CASE op.fn = "varint64"
  <2>1. op.val \in LongBits
    BY <1>2 DEF Operations
  <2> QED BY <1>2, <2>1, Length64Of DEF Stored, Written
<1>3. CASE op.fn = "fixed32"
  <2>1. op.val \in 0 .. Word - 1
    BY <1>3 DEF Operations
  <2>2. WriteFixed32(op.val) \in Buffers
    <3> SUFFICES ASSUME NEW v \in 0 .. Word - 1 PROVE WriteFixed32(v) \in Buffers
      BY <2>1
    <3>1. /\ v % Byte \in Octets /\ (v \div Byte) % Byte \in Octets
          /\ (v \div (Byte * Byte)) % Byte \in Octets /\ v \div (Byte * Byte * Byte) \in Octets
      <4>1. CASE Septet = 32
        BY <4>1, Septet32Or128 DEF Octets
      <4>2. CASE Septet = 128
        BY <4>2, Septet32Or128 DEF Octets
      <4> QED BY <4>1, <4>2, Septet32Or128
    <3> QED BY <1>0, <3>1 DEF WriteFixed32
  <2> QED BY <1>3, <2>2 DEF Stored, Written
<1>4. CASE op.fn = "byte"
  <2>1. op.val \in 0 .. 1 /\ Byte \in Nat /\ Byte >= 2
    BY <1>4, WordSizes DEF Operations, Byte
  <2>2. op.val \in Octets
    BY <2>1 DEF Octets
  <2> QED BY <1>0, <1>4, <2>2 DEF Stored, Written
<1>5. CASE op.fn = "bytes"
  <2>1. op.val \in Buffers
    BY <1>5 DEF Operations
  <2> QED BY <1>5, <2>1 DEF Stored, Written
<1>6. CASE op.fn = "text"
  <2>1. op.val \in Texts
    BY <1>6 DEF Operations
  <2> QED BY <1>6, <2>1, TextCounted DEF Stored
<1>7. op.fn \in {"varint32", "varint64", "fixed32", "byte", "bytes", "text"}
  BY DEF Operations
<1> QED BY <1>1, <1>2, <1>3, <1>4, <1>5, <1>6, <1>7

LEMMA SpentOp == ASSUME NEW op \in Operations PROVE Spent(op) \in Operations
<1>1. CASE op.fn # "varint64"
  BY <1>1 DEF Spent
<1>2. CASE op.fn = "varint64"
  <2> DEFINE septets == Septets[op.val]
             last == septets[Len(septets)]
             rest == [lo |-> last, hi |-> 0]
  <2>1. op.val \in LongBits /\ op.len \in Nat
    BY <1>2 DEF Operations
  <2>2. septets \in Seq(Octets)
    BY <2>1, Length64Of DEF Buffers
  <2>3. Len(septets) \in Nat /\ Len(septets) >= 1
    <3>1. Len(septets) = Length64(op.val)
      BY <2>1, Length64Of
    <3> QED BY <3>1 DEF Length64
  <2>4. last \in Octets
    BY <2>2, <2>3
  <2>5. 0 \in 0 .. Word - 1 /\ last \in 0 .. Word - 1
    <3>1. Byte <= Word /\ Word \in Nat \ {0}
      <4>1. Word = Power[5] * Nibble /\ Power[5] \in Nat /\ Power[5] >= Septet
        BY PowerSteps DEF Word, Power
      <4>2. Nibble \in Nat /\ Nibble >= 2 /\ Septet \in Nat
        BY WireAssumption
      <4>3. Power[5] * Nibble >= 2 * Septet
        <5> DEFINE p == Power[5]
        <5> HIDE DEF p
        <5> SUFFICES ASSUME p \in Nat, p >= Septet PROVE p * Nibble >= 2 * Septet
          BY <4>1 DEF p
        <5>1. p * Nibble >= p * 2
          BY <4>2
        <5> QED BY <4>2, <5>1
      <4> QED BY <4>1, <4>3, WordSizes DEF Byte
    <3>2. \A B, W \in Nat : \A x \in 0 .. B - 1 : B <= W => x \in 0 .. W - 1
      OBVIOUS
    <3>3. Byte \in Nat /\ 0 \in Octets
      BY WordSizes DEF Octets
    <3> HIDE DEF last
    <3> QED BY <2>4, <3>1, <3>2, <3>3 DEF Octets
  <2> HIDE DEF last
  <2>6. rest \in LongBits
    BY <2>5 DEF LongBits
  <2>7. Spent(op) = [op EXCEPT !.val = rest]
    BY <1>2 DEF Spent, last
  <2> HIDE DEF rest
  <2>8. op \in [fn : {"varint64"}, len : Nat, val : LongBits]
    BY <1>2 DEF Operations
  <2>9. Spent(op) \in [fn : {"varint64"}, len : Nat, val : LongBits]
    BY <2>6, <2>7, <2>8
  <2> QED BY <2>9 DEF Operations
<1> QED BY <1>1, <1>2

LEMMA OpIs == ASSUME NEW fn, NEW len, NEW val
              PROVE  /\ Op(fn, len, val) = [fn |-> fn, len |-> len, val |-> val]
                     /\ Op(fn, len, val).fn = fn /\ Op(fn, len, val).len = len
                     /\ Op(fn, len, val).val = val
BY DEF Op

(* What a call appends is operations that are as long as they count.       *)
LEMMA ExactOperation ==
  /\ \A v \in 0 .. Word - 1 : Op("varint32", Length32(v), v) \in ExactOps
  /\ \A bits \in LongBits : Op("varint64", Length64(bits), bits) \in ExactOps
  /\ \A v \in -(Half * Word) .. -1 : Op("varint64", 10, FromNumber(v)) \in ExactOps
  /\ \A v \in 0 .. Word - 1 : Op("fixed32", 4, v) \in ExactOps
  /\ \A x \in 0 .. 1 : Op("byte", 1, x) \in ExactOps
  /\ \A s \in Buffers : Op("bytes", Len(s), s) \in ExactOps
  /\ \A s \in Texts : Op("text", Utf8Length(s), s) \in ExactOps
<1>1. ASSUME NEW v \in 0 .. Word - 1 PROVE Op("varint32", Length32(v), v) \in ExactOps
  <2> DEFINE op == Op("varint32", Length32(v), v)
  <2>1. Len(WriteVarint32(v)) = Length32(v) /\ Length32(v) \in Nat
    BY Length32Of DEF Length32
  <2>2. op \in Operations
    BY <2>1 DEF Op, Operations
  <2>3. op.fn = "varint32" /\ op.len = Length32(v) /\ op.val = v
    BY OpIs
  <2> HIDE DEF op
  <2>4. Len(Stored(op)) = Length32(v)
    BY <2>1, <2>3 DEF Stored, Written
  <2> QED BY <2>2, <2>3, <2>4 DEF ExactOps, op
<1>2. ASSUME NEW bits \in LongBits, NEW n \in Nat, Len(Septets[bits]) = n
      PROVE  Op("varint64", n, bits) \in ExactOps
  <2> DEFINE op == Op("varint64", n, bits)
  <2>2. op \in Operations
    BY DEF Op, Operations
  <2>3. op.fn = "varint64" /\ op.len = n /\ op.val = bits
    BY OpIs
  <2> HIDE DEF op
  <2>4. Len(Stored(op)) = n
    BY <1>2, <2>3 DEF Stored, Written
  <2> QED BY <2>2, <2>3, <2>4 DEF ExactOps, op
<1>3. ASSUME NEW bits \in LongBits PROVE Op("varint64", Length64(bits), bits) \in ExactOps
  <2>1. Length64(bits) \in Nat
    BY DEF Length64
  <2> QED BY <1>2, <2>1, Length64Of
<1>4. ASSUME NEW v \in -(Half * Word) .. -1 PROVE Op("varint64", 10, FromNumber(v)) \in ExactOps
  <2>1. FromNumber(v) \in LongBits
    BY FromNumberLong
  <2> QED BY <1>2, <2>1, NegativeIsLong
<1>5. ASSUME NEW v \in 0 .. Word - 1 PROVE Op("fixed32", 4, v) \in ExactOps
  <2> DEFINE op == Op("fixed32", 4, v)
  <2>2. op \in Operations
    BY DEF Op, Operations
  <2>3. op.fn = "fixed32" /\ op.len = 4 /\ op.val = v
    BY OpIs
  <2> HIDE DEF op
  <2>4. Len(Stored(op)) = 4
    <3>1. Len(WriteFixed32(v)) = 4
      BY DEF WriteFixed32
    <3> QED BY <2>3, <3>1 DEF Stored, Written
  <2> QED BY <2>2, <2>3, <2>4 DEF ExactOps, op
<1>6. ASSUME NEW x \in 0 .. 1 PROVE Op("byte", 1, x) \in ExactOps
  <2> DEFINE op == Op("byte", 1, x)
  <2>2. op \in Operations
    BY DEF Op, Operations
  <2>3. op.fn = "byte" /\ op.len = 1 /\ op.val = x
    BY OpIs
  <2> HIDE DEF op
  <2>4. Len(Stored(op)) = 1
    <3>1. Stored(op) = <<x>>
      BY <2>3 DEF Stored, Written
    <3> QED BY <3>1
  <2> QED BY <2>2, <2>3, <2>4 DEF ExactOps, op
<1>7. ASSUME NEW s \in Buffers PROVE Op("bytes", Len(s), s) \in ExactOps
  <2> DEFINE op == Op("bytes", Len(s), s)
  <2>1. Len(s) \in Nat
    BY DEF Buffers
  <2>2. op \in Operations
    BY <2>1 DEF Op, Operations
  <2>3. op.fn = "bytes" /\ op.len = Len(s) /\ op.val = s
    BY OpIs
  <2> HIDE DEF op
  <2>4. Stored(op) = s
    BY <2>3 DEF Stored, Written
  <2> QED BY <2>2, <2>3, <2>4 DEF ExactOps, op
<1>8. ASSUME NEW s \in Texts PROVE Op("text", Utf8Length(s), s) \in ExactOps
  <2> DEFINE op == Op("text", Utf8Length(s), s)
  <2>1. Len(Utf8Write(s)) = Utf8Length(s) /\ Utf8Length(s) \in Nat
    BY TextCounted DEF Buffers
  <2>2. op \in Operations
    BY <2>1 DEF Op, Operations
  <2>3. op.fn = "text" /\ op.len = Utf8Length(s) /\ op.val = s
    BY OpIs
  <2> HIDE DEF op
  <2>4. Stored(op) = Utf8Write(s)
    BY <2>3 DEF Stored
  <2> QED BY <2>1, <2>2, <2>3, <2>4 DEF ExactOps, op
<1> QED BY <1>1, <1>3, <1>4, <1>5, <1>6, <1>7, <1>8

LEMMA FewOps ==
  ASSUME NEW op1 \in ExactOps, NEW op2 \in ExactOps
  PROVE  /\ <<op1>> \in Seq(ExactOps) /\ <<op1, op2>> \in Seq(ExactOps)
         /\ <<op1>> \o <<op2>> \in Seq(ExactOps)
OBVIOUS

LEMMA ExactUint32 == ASSUME NEW v \in Int PROVE Uint32(v) \in Seq(ExactOps)
<1> DEFINE w == v % Word
<1>1. w \in 0 .. Word - 1
  BY WordOf
<1> HIDE DEF w
<1>2. Op("varint32", Length32(w), w) \in ExactOps
  BY <1>1, ExactOperation
<1>3. <<Op("varint32", Length32(w), w)>> \in Seq(ExactOps)
  BY <1>2, FewOps
<1> QED BY <1>3 DEF Uint32, w

LEMMA ExactCall == ASSUME NEW v \in Values PROVE CallOf(v[1], v[2]) \in Seq(ExactOps)
<1> DEFINE t == v[1]
           x == v[2]
<1>1. \/ t \in NumberTypes /\ x \in Int /\ (t = "int32" => x >= -(Half * Word))
      \/ t = "bool" /\ x \in BOOLEAN
      \/ t = "string" /\ x \in Texts
      \/ t = "bytes" /\ x \in Buffers
  BY ValuesAssumption DEF Buffers, Octets
<1> SUFFICES CallOf(t, x) \in Seq(ExactOps)
  OBVIOUS
<1> HIDE DEF t, x
<1>2. ASSUME NEW bits \in LongBits
      PROVE  <<Op("varint64", Length64(bits), bits)>> \in Seq(ExactOps)
  BY ExactOperation, FewOps
<1>3. \A y \in 0 .. 1 : <<Op("byte", 1, y)>> \in Seq(ExactOps)
  BY ExactOperation, FewOps
<1>4. CASE t \in NumberTypes
  <2>1. x \in Int /\ (t = "int32" => x >= -(Half * Word))
    BY <1>1, <1>4 DEF NumberTypes
  <2>2. FromNumber(x) \in LongBits
    BY <2>1, FromNumberLong
  <2>3. t = "int32" => CallOf(t, x) \in Seq(ExactOps)
    <3> SUFFICES ASSUME t = "int32" PROVE Int32(x) \in Seq(ExactOps)
      BY DEF CallOf
    <3>1. CASE x < 0
      <4>1. x \in -(Half * Word) .. -1
        BY <2>1, <3>1, WordSizes
      <4>2. Op("varint64", 10, FromNumber(x)) \in ExactOps
        BY <4>1, ExactOperation
      <4> QED BY <3>1, <4>2, FewOps DEF Int32
    <3>2. CASE ~(x < 0)
      BY <2>1, <3>2, ExactUint32 DEF Int32
    <3> QED BY <3>1, <3>2
  <2>4. t = "uint32" => CallOf(t, x) \in Seq(ExactOps)
    BY <2>1, ExactUint32 DEF CallOf
  <2>5. t = "sint32" => CallOf(t, x) \in Seq(ExactOps)
    <3>1. (2 * x) % Word \in 0 .. Word - 1
      BY <2>1, WordOf
    <3>2. ZigZag32(x) \in Int
      BY <3>1, WordSizes DEF ZigZag32, Not
    <3> QED BY <3>2, ExactUint32 DEF Sint32, CallOf
  <2>6. t \in {"int64", "uint64"} => CallOf(t, x) \in Seq(ExactOps)
    <3>1. Uint64(x) \in Seq(ExactOps)
      BY <1>2, <2>2 DEF Uint64
    <3> QED BY <3>1 DEF CallOf
  <2>7. t = "sint64" => CallOf(t, x) \in Seq(ExactOps)
    <3>1. Sint64(x) \in Seq(ExactOps)
      BY <1>2, <2>2, ZigZag64Inverse DEF Sint64
    <3> QED BY <3>1 DEF CallOf
  <2>8. t \in {"fixed32", "sfixed32"} => CallOf(t, x) \in Seq(ExactOps)
    <3>1. x % Word \in 0 .. Word - 1
      BY <2>1, WordOf
    <3>2. Op("fixed32", 4, x % Word) \in ExactOps
      BY <3>1, ExactOperation
    <3>3. Fixed32(x) \in Seq(ExactOps)
      BY <3>2, FewOps DEF Fixed32
    <3> QED BY <3>3 DEF CallOf
  <2>9. t \in {"fixed64", "sfixed64"} => CallOf(t, x) \in Seq(ExactOps)
    <3>1. FromNumber(x).lo \in 0 .. Word - 1 /\ FromNumber(x).hi \in 0 .. Word - 1
      BY <2>2 DEF LongBits
    <3>2. Op("fixed32", 4, FromNumber(x).lo) \in ExactOps /\ Op("fixed32", 4, FromNumber(x).hi) \in ExactOps
      BY <3>1, ExactOperation
    <3>3. Fixed64(x) \in Seq(ExactOps)
      BY <3>2, FewOps DEF Fixed64
    <3> QED BY <3>3 DEF CallOf
  <2> QED BY <1>4, <2>3, <2>4, <2>5, <2>6, <2>7, <2>8, <2>9 DEF NumberTypes
<1>5. CASE t = "bool"
  <2>1. Bool(x) \in Seq(ExactOps)
    BY <1>3 DEF Bool
  <2> QED BY <1>5, <2>1 DEF CallOf
<1>6. CASE t = "string"
  <2>1. x \in Texts /\ Utf8Length(x) \in Nat
    BY <1>1, <1>6, TextCounted DEF NumberTypes, Buffers
  <2>2. String(x) \in Seq(ExactOps)
    <3>1. CASE Utf8Length(x) = 0
      BY <1>3, <3>1 DEF String
    <3>2. CASE Utf8Length(x) # 0
      <4> DEFINE ops == Uint32(Utf8Length(x))
                 op == Op("text", Utf8Length(x), x)
      <4>1. ops \in Seq(ExactOps) /\ op \in ExactOps
        BY <2>1, ExactUint32, ExactOperation
      <4>2. String(x) = ops \o <<op>>
        BY <3>2 DEF String
      <4> HIDE DEF ops, op
      <4> QED BY <4>1, <4>2
    <3> QED BY <3>1, <3>2
  <2> QED BY <1>6, <2>2 DEF CallOf
<1>7. CASE t = "bytes"
  <2>1. x \in Buffers /\ Len(x) \in Nat
    BY <1>1, <1>7 DEF NumberTypes, Buffers
  <2>2. Bytes(x) \in Seq(ExactOps)
    <3>1. CASE x = <<>>
      BY <1>3, <3>1 DEF Bytes
    <3>2. CASE x # <<>>
      <4> DEFINE ops == Uint32(Len(x))
                 op == Op("bytes", Len(x), x)
      <4>1. ops \in Seq(ExactOps) /\ op \in ExactOps
        BY <2>1, ExactUint32, ExactOperation
      <4>2. Bytes(x) = ops \o <<op>>
        BY <3>2 DEF Bytes
      <4> HIDE DEF ops, op
      <4> QED BY <4>1, <4>2
    <3> QED BY <3>1, <3>2
  <2> QED BY <1>7, <2>2 DEF CallOf
<1> QED BY <1>1, <1>4, <1>5, <1>6, <1>7

-----------------------------------------------------------------------------
(* The lengths and the bytes of operations, one behind the other.          *)
Maps(F, T, U) == F \in [T -> U]
Mapped(F, s) == [i \in 1 .. Len(s) |-> F[s[i]]]

LEMMA MappedParts ==
  ASSUME NEW F, NEW T, NEW U, Maps(F, T, U), NEW s \in Seq(T)
  PROVE  /\ Mapped(F, s) \in Seq(U) /\ Len(Mapped(F, s)) = Len(s)
         /\ \A i \in 1 .. Len(s) : Mapped(F, s)[i] = F[s[i]]
<1>1. Len(s) \in Nat /\ \A i \in 1 .. Len(s) : s[i] \in T
  OBVIOUS
<1>2. \A i \in 1 .. Len(s) : F[s[i]] \in U
  BY <1>1 DEF Maps
<1> DEFINE m == [i \in 1 .. Len(s) |-> F[s[i]]]
<1>3. m \in Seq(U) /\ Len(m) = Len(s)
  BY <1>1, <1>2
<1>4. \A i \in 1 .. Len(s) : m[i] = F[s[i]]
  OBVIOUS
<1> QED BY <1>3, <1>4 DEF Mapped

LEMMA MappedJoined ==
  ASSUME NEW F, NEW T, NEW U, Maps(F, T, U), NEW s \in Seq(T), NEW t \in Seq(T)
  PROVE  Mapped(F, s \o t) = Mapped(F, s) \o Mapped(F, t)
<1>1. /\ s \o t \in Seq(T) /\ Len(s) \in Nat /\ Len(t) \in Nat /\ Len(s \o t) = Len(s) + Len(t)
      /\ \A i \in 1 .. Len(s) + Len(t) : (s \o t)[i] = IF i <= Len(s) THEN s[i] ELSE t[i - Len(s)]
  BY ConcatProperties
<1> DEFINE a == Mapped(F, s)
           b == Mapped(F, t)
           c == Mapped(F, s \o t)
<1>2. /\ a \in Seq(U) /\ Len(a) = Len(s) /\ \A i \in 1 .. Len(s) : a[i] = F[s[i]]
      /\ b \in Seq(U) /\ Len(b) = Len(t) /\ \A i \in 1 .. Len(t) : b[i] = F[t[i]]
  BY MappedParts
<1>3. /\ c \in Seq(U) /\ Len(c) = Len(s) + Len(t)
      /\ \A i \in 1 .. Len(s) + Len(t) : c[i] = F[(s \o t)[i]]
  <2> DEFINE st == s \o t
  <2>1. st \in Seq(T) /\ Len(st) = Len(s) + Len(t)
    BY <1>1
  <2> HIDE DEF st
  <2>2. Mapped(F, st) \in Seq(U) /\ Len(Mapped(F, st)) = Len(st)
    BY <2>1, MappedParts
  <2>3. \A i \in 1 .. Len(st) : Mapped(F, st)[i] = F[st[i]]
    BY <2>1, MappedParts
  <2> QED BY <2>1, <2>2, <2>3, Zenon DEF st
<1> HIDE DEF a, b, c
<1>4. /\ a \o b \in Seq(U) /\ Len(a \o b) = Len(s) + Len(t)
      /\ \A i \in 1 .. Len(s) + Len(t) : (a \o b)[i] = IF i <= Len(s) THEN a[i] ELSE b[i - Len(s)]
  <2>1. /\ a \o b \in Seq(U) /\ Len(a \o b) = Len(a) + Len(b)
        /\ \A i \in 1 .. Len(a) + Len(b) :
             (a \o b)[i] = IF i <= Len(a) THEN a[i] ELSE b[i - Len(a)]
    BY <1>2, ConcatProperties, ZenonT(40)
  <2> QED BY <1>2, <2>1
<1>5. ASSUME NEW i \in 1 .. Len(s) + Len(t) PROVE c[i] = (a \o b)[i]
  <2>1. CASE i <= Len(s)
    <3>1. c[i] = F[s[i]] /\ (a \o b)[i] = a[i]
      BY <1>1, <1>3, <1>4, <2>1
    <3> QED BY <1>2, <2>1, <3>1
  <2>2. CASE ~(i <= Len(s))
    <3>1. c[i] = F[t[i - Len(s)]] /\ (a \o b)[i] = b[i - Len(s)]
      BY <1>1, <1>3, <1>4, <2>2
    <3>2. i - Len(s) \in 1 .. Len(t)
      BY <1>1, <2>2
    <3> QED BY <1>2, <3>1, <3>2
  <2> QED BY <2>1, <2>2
<1>6. c = a \o b
  BY <1>3, <1>4, <1>5, SeqEqual
<1> QED BY <1>6 DEF a, b, c

LenOf == [op \in Operations |-> op.len]
StoredOf == [op \in Operations |-> Stored(op)]

LEMMA MappedOps ==
  /\ Maps(LenOf, Operations, Nat) /\ Maps(LenOf, Operations, Int)
  /\ Maps(StoredOf, Operations, Seq(Octets))
  /\ \A ops \in Seq(Operations) :
       /\ LengthOf(ops) = Total(Mapped(LenOf, ops))
       /\ BytesOf(ops) = FlattenSeq(Mapped(StoredOf, ops))
<1>1. \A op \in Operations : op.len \in Nat
  BY DEF Operations
<1>2. Maps(LenOf, Operations, Nat) /\ Maps(LenOf, Operations, Int)
  BY <1>1 DEF LenOf, Maps
<1>3. Maps(StoredOf, Operations, Seq(Octets))
  BY StoredBytes DEF StoredOf, Buffers, Maps
<1>4. ASSUME NEW ops \in Seq(Operations)
      PROVE  /\ LengthOf(ops) = Total(Mapped(LenOf, ops))
             /\ BytesOf(ops) = FlattenSeq(Mapped(StoredOf, ops))
  <2>1. \A i \in 1 .. Len(ops) : ops[i] \in Operations
    OBVIOUS
  <2>2. [i \in 1 .. Len(ops) |-> ops[i].len] = Mapped(LenOf, ops)
    BY <2>1 DEF Mapped, LenOf
  <2>3. [i \in 1 .. Len(ops) |-> Stored(ops[i])] = Mapped(StoredOf, ops)
    BY <2>1 DEF Mapped, StoredOf
  <2>4. LengthOf(ops) = Total(Mapped(LenOf, ops))
    BY <2>2 DEF LengthOf
  <2>5. BytesOf(ops) = FlattenSeq(Mapped(StoredOf, ops))
    BY <2>3 DEF BytesOf
  <2> QED BY <2>4, <2>5
<1> QED BY <1>2, <1>3, <1>4

LEMMA TotalNat == \A a \in Seq(Nat) : Total(a) \in Nat
<1> DEFINE P == {a \in Seq(Nat) : Total(a) \in Nat}
<1>1. <<>> \in P
  BY TotalEmpty
<1>2. ASSUME NEW a \in Seq(Nat), NEW x \in Nat, a \in P PROVE Append(a, x) \in P
  <2>1. a \in Seq(Int) /\ x \in Int /\ Append(a, x) \in Seq(Nat)
    OBVIOUS
  <2>2. Total(Append(a, x)) = Total(a) + x
    BY <2>1, TotalNext
  <2> QED BY <1>2, <2>1, <2>2
<1> HIDE DEF P
<1>3. \A a \in Seq(Nat) : a \in P
  BY <1>1, <1>2, SequenceInduction
<1> QED BY <1>3 DEF P

LEMMA NoOps == LengthOf(<<>>) = 0 /\ BytesOf(<<>>) = <<>>
<1>1. [i \in 1 .. Len(<<>>) |-> <<>>[i].len] = <<>> /\ [i \in 1 .. Len(<<>>) |-> Stored(<<>>[i])] = <<>>
  OBVIOUS
<1> QED BY <1>1, TotalEmpty, FlattenEmpty DEF LengthOf, BytesOf

LEMMA OpsJoined ==
  ASSUME NEW a \in Seq(Operations), NEW b \in Seq(Operations)
  PROVE  /\ LengthOf(a) \in Nat /\ BytesOf(a) \in Buffers
         /\ LengthOf(a \o b) = LengthOf(a) + LengthOf(b)
         /\ BytesOf(a \o b) = BytesOf(a) \o BytesOf(b)
<1>1. a \o b \in Seq(Operations)
  OBVIOUS
<1>2. /\ Maps(LenOf, Operations, Nat) /\ Maps(LenOf, Operations, Int)
      /\ Maps(StoredOf, Operations, Seq(Octets))
  BY MappedOps
<1>3. Mapped(LenOf, a) \in Seq(Nat) /\ Mapped(LenOf, a) \in Seq(Int) /\ Mapped(LenOf, b) \in Seq(Int)
  BY <1>2, MappedParts
<1>4. Mapped(StoredOf, a) \in Seq(Seq(Octets)) /\ Mapped(StoredOf, b) \in Seq(Seq(Octets))
  BY <1>2, MappedParts
<1>5. Mapped(LenOf, a \o b) = Mapped(LenOf, a) \o Mapped(LenOf, b)
  BY <1>2, MappedJoined, Zenon
<1>6. Mapped(StoredOf, a \o b) = Mapped(StoredOf, a) \o Mapped(StoredOf, b)
  BY <1>2, MappedJoined, Zenon
<1>7. LengthOf(a \o b) = LengthOf(a) + LengthOf(b)
  BY <1>1, <1>3, <1>5, MappedOps, TotalJoined
<1>8. BytesOf(a \o b) = BytesOf(a) \o BytesOf(b)
  <2>1. FlattenSeq(Mapped(StoredOf, a) \o Mapped(StoredOf, b)) =
          FlattenSeq(Mapped(StoredOf, a)) \o FlattenSeq(Mapped(StoredOf, b))
    BY <1>4, FlattenJoined, Zenon
  <2>2. /\ BytesOf(a) = FlattenSeq(Mapped(StoredOf, a)) /\ BytesOf(b) = FlattenSeq(Mapped(StoredOf, b))
        /\ BytesOf(a \o b) = FlattenSeq(Mapped(StoredOf, a \o b))
    BY <1>1, MappedOps
  <2> QED BY <1>6, <2>1, <2>2, Zenon
<1>9. LengthOf(a) \in Nat
  BY <1>3, MappedOps, TotalNat
<1>10. BytesOf(a) \in Buffers
  <2>1. <<>> \in Seq(Octets)
    OBVIOUS
  <2>2. FlattenSeq(Mapped(StoredOf, a)) \in Seq(Octets)
    BY <1>4, <2>1, FlattenNext
  <2> QED BY <2>2, MappedOps DEF Buffers
<1> QED BY <1>7, <1>8, <1>9, <1>10

LEMMA ExactLength ==
  ASSUME NEW ops \in Seq(ExactOps)
  PROVE  ops \in Seq(Operations) /\ Len(BytesOf(ops)) = LengthOf(ops)
<1>1. /\ ops \in Seq(Operations)
      /\ \A i \in 1 .. Len(ops) : ops[i] \in Operations /\ ops[i].len = Len(Stored(ops[i]))
  BY DEF ExactOps
<1> DEFINE ss == Mapped(StoredOf, ops)
<1>2. /\ ss \in Seq(Seq(Octets)) /\ Len(ss) = Len(ops)
      /\ \A i \in 1 .. Len(ops) : ss[i] = StoredOf[ops[i]]
  <2>1. Maps(StoredOf, Operations, Seq(Octets))
    BY MappedOps
  <2> QED BY <1>1, <2>1, MappedParts
<1>3. \A i \in 1 .. Len(ops) : Len(ss[i]) = LenOf[ops[i]]
  BY <1>1, <1>2 DEF StoredOf, LenOf
<1> HIDE DEF ss
<1>4. [i \in 1 .. Len(ss) |-> Len(ss[i])] = Mapped(LenOf, ops)
  BY <1>2, <1>3 DEF Mapped
<1>5. Len(FlattenSeq(ss)) = Total([i \in 1 .. Len(ss) |-> Len(ss[i])])
  BY <1>2, FlattenLength
<1>6. BytesOf(ops) = FlattenSeq(ss) /\ LengthOf(ops) = Total(Mapped(LenOf, ops))
  BY <1>1, MappedOps DEF ss
<1> QED BY <1>1, <1>4, <1>5, <1>6

-----------------------------------------------------------------------------
(* The writer.                                                             *)
Layers == [ops : Seq(Operations), len : Nat]
Writers == [ops : Seq(Operations), len : Nat, states : Seq(Layers), threw : BOOLEAN]

\* A level whose lengths are those of its bytes.
Good(ops, len) == ops \in Seq(ExactOps) /\ len = LengthOf(ops)

Counted(w) ==
  /\ Good(w.ops, w.len)
  /\ \A i \in 1 .. Len(w.states) : Good(w.states[i].ops, w.states[i].len)

WriterInv == writer \in Writers /\ spoiled \in BOOLEAN /\ (~spoiled => Counted(writer))

LEMMA GoodIsExact ==
  ASSUME NEW l, l.ops \in Seq(Operations)
  PROVE  Good(l.ops, l.len) <=> ExactLevel(l)
<1> DEFINE ops == l.ops
<1>1. ops \in Seq(ExactOps) <=> \A i \in 1 .. Len(ops) : ops[i].len = Len(Stored(ops[i]))
  <2>1. \A i \in 1 .. Len(ops) : ops[i] \in Operations
    OBVIOUS
  <2>2. ASSUME ops \in Seq(ExactOps), NEW i \in 1 .. Len(ops) PROVE ops[i].len = Len(Stored(ops[i]))
    <3>1. ops[i] \in ExactOps
      BY <2>2
    <3> QED BY <3>1 DEF ExactOps
  <2>3. ASSUME \A i \in 1 .. Len(ops) : ops[i].len = Len(Stored(ops[i]))
        PROVE  ops \in Seq(ExactOps)
    <3>1. \A i \in 1 .. Len(ops) : ops[i] \in ExactOps
      BY <2>1, <2>3 DEF ExactOps
    <3> QED BY <3>1
  <2> QED BY <2>2, <2>3
<1> QED BY <1>1 DEF Good, ExactLevel

LEMMA WriterParts ==
  ASSUME NEW w \in Writers
  PROVE  /\ w.ops \in Seq(Operations) /\ w.len \in Nat /\ w.states \in Seq(Layers)
         /\ Len(w.states) \in Nat
         /\ \A i \in 1 .. Len(w.states) : /\ w.states[i] \in Layers
                                          /\ w.states[i].ops \in Seq(Operations)
                                          /\ w.states[i].len \in Nat
<1>1. w.ops \in Seq(Operations) /\ w.len \in Nat /\ w.states \in Seq(Layers)
  BY DEF Writers
<1>2. Len(w.states) \in Nat /\ \A i \in 1 .. Len(w.states) : w.states[i] \in Layers
  BY <1>1
<1> QED BY <1>1, <1>2 DEF Layers

LEMMA Joinable ==
  ASSUME NEW a \in Seq(ExactOps), NEW b \in Seq(ExactOps)
  PROVE  /\ a \in Seq(Operations) /\ b \in Seq(Operations) /\ a \o b \in Seq(ExactOps)
         /\ LengthOf(a \o b) = LengthOf(a) + LengthOf(b)
         /\ LengthOf(a) \in Nat /\ LengthOf(b) \in Nat
<1>1. a \in Seq(Operations) /\ b \in Seq(Operations)
  BY ExactLength
<1>2. a \o b \in Seq(ExactOps)
  OBVIOUS
<1> QED BY <1>1, <1>2, OpsJoined

(* What each operation of the writer does to its fields.                   *)
LEMMA PushParts ==
  ASSUME NEW w \in Writers, NEW more \in Seq(ExactOps)
  PROVE  /\ Push(w, more) \in Writers /\ Push(w, more).ops = w.ops \o more
         /\ Push(w, more).len = w.len + LengthOf(more) /\ Push(w, more).states = w.states
<1>1. more \in Seq(Operations) /\ LengthOf(more) \in Nat
  BY ExactLength, OpsJoined
<1>2. w.ops \o more \in Seq(Operations) /\ w.len + LengthOf(more) \in Nat
  BY <1>1, WriterParts
<1> QED BY <1>2 DEF Push, Writers

LEMMA ForkParts ==
  ASSUME NEW w \in Writers
  PROVE  /\ Fork(w) \in Writers /\ Fork(w).ops = <<>> /\ Fork(w).len = 0
         /\ Fork(w).states = <<[ops |-> w.ops, len |-> w.len]>> \o w.states
<1> DEFINE top == [ops |-> w.ops, len |-> w.len]
           states == <<top>> \o w.states
           none == <<>>
<1>1. top \in Layers
  BY WriterParts DEF Layers
<1>2. states \in Seq(Layers)
  <2> HIDE DEF top
  <2> QED BY <1>1, WriterParts
<1>3. none \in Seq(Operations)
  OBVIOUS
<1>4. Fork(w) = [w EXCEPT !.states = states, !.ops = none, !.len = 0]
  BY DEF Fork
<1> HIDE DEF states, none
<1>5. /\ Fork(w) \in Writers /\ Fork(w).ops = none /\ Fork(w).len = 0
      /\ Fork(w).states = states
  <2> SUFFICES ASSUME NEW v, v = Fork(w), NEW n \in Nat, n = 0
               PROVE  v \in Writers /\ v.ops = none /\ v.len = n /\ v.states = states
    OBVIOUS
  <2>1. v = [w EXCEPT !.states = states, !.ops = none, !.len = n]
    BY <1>4
  <2>2. v \in Writers
    BY <1>2, <1>3, <2>1 DEF Writers
  <2>3. v.ops = none
    BY <1>2, <1>3, <2>1 DEF Writers
  <2>4. v.len = n /\ v.states = states
    BY <1>2, <1>3, <2>1 DEF Writers
  <2> QED BY <2>2, <2>3, <2>4
<1> QED BY <1>5 DEF states, none

LEMMA ResetParts ==
  ASSUME NEW w \in Writers
  PROVE  /\ Reset(w) \in Writers
         /\ w.states = <<>> => Reset(w).ops = <<>> /\ Reset(w).len = 0 /\ Reset(w).states = <<>>
         /\ w.states # <<>> => /\ Reset(w).ops = w.states[1].ops /\ Reset(w).len = w.states[1].len
                               /\ Reset(w).states = Tail(w.states)
<1>1. CASE w.states = <<>>
  <2> DEFINE none == <<>>
  <2>1. none \in Seq(Operations)
    OBVIOUS
  <2>2. Reset(w) = [w EXCEPT !.ops = none, !.len = 0]
    BY <1>1 DEF Reset
  <2> HIDE DEF none
  <2>3. /\ Reset(w) \in Writers /\ Reset(w).ops = none /\ Reset(w).len = 0
        /\ Reset(w).states = w.states
    <3> SUFFICES ASSUME NEW v, v = Reset(w), NEW n \in Nat, n = 0
                 PROVE  v \in Writers /\ v.ops = none /\ v.len = n /\ v.states = w.states
      OBVIOUS
    <3>1. v = [w EXCEPT !.ops = none, !.len = n]
      BY <2>2
    <3>2. v \in Writers
      BY <2>1, <3>1 DEF Writers
    <3>3. v.ops = none
      BY <2>1, <3>1 DEF Writers
    <3>4. v.len = n /\ v.states = w.states
      BY <2>1, <3>1 DEF Writers
    <3> QED BY <3>2, <3>3, <3>4
  <2> QED BY <1>1, <2>3 DEF none
<1>2. CASE w.states # <<>>
  <2> DEFINE top == w.states[1]
             rest == Tail(w.states)
  <2>1. top \in Layers /\ rest \in Seq(Layers) /\ Head(w.states) = top
    BY <1>2, WriterParts
  <2>2. Reset(w) = [w EXCEPT !.ops = top.ops, !.len = top.len, !.states = rest]
    BY <1>2, <2>1 DEF Reset
  <2> HIDE DEF top, rest
  <2>3. top.ops \in Seq(Operations) /\ top.len \in Nat
    BY <2>1 DEF Layers
  <2>4. /\ Reset(w) \in Writers /\ Reset(w).ops = top.ops /\ Reset(w).len = top.len
        /\ Reset(w).states = rest
    BY <2>1, <2>2, <2>3 DEF Writers
  <2> QED BY <1>2, <2>4 DEF top, rest
<1> QED BY <1>1, <1>2

LEMMA LdelimParts ==
  ASSUME NEW w \in Writers
  PROVE  /\ Ldelim(w) \in Writers
         /\ Ldelim(w).ops = IF w.len = 0 THEN Reset(w).ops \o Uint32(w.len)
                            ELSE (Reset(w).ops \o Uint32(w.len)) \o w.ops
         /\ Ldelim(w).len = Reset(w).len + LengthOf(Uint32(w.len)) + w.len
         /\ Ldelim(w).states = Reset(w).states
<1> DEFINE number == Uint32(w.len)
           outer == Push(Reset(w), number)
<1>1. w.len \in Nat /\ w.ops \in Seq(Operations)
  BY WriterParts
<1>2. number \in Seq(ExactOps)
  BY <1>1, ExactUint32
<1>3. Reset(w) \in Writers
  BY ResetParts
<1>4. /\ outer \in Writers /\ outer.ops = Reset(w).ops \o number
      /\ outer.len = Reset(w).len + LengthOf(number) /\ outer.states = Reset(w).states
  BY <1>2, <1>3, PushParts
<1>5. Ldelim(w) = IF w.len = 0 THEN outer ELSE [outer EXCEPT !.ops = @ \o w.ops, !.len = @ + w.len]
  BY DEF Ldelim
<1> HIDE DEF outer, number
<1>6. CASE w.len = 0
  <2>1. outer.len \in Nat
    BY <1>4, WriterParts
  <2>2. Ldelim(w) = outer
    BY <1>5, <1>6
  <2> QED BY <1>4, <1>6, <2>1, <2>2 DEF number
<1>7. CASE w.len # 0
  <2> DEFINE ops == outer.ops \o w.ops
             len == outer.len + w.len
  <2>1. outer.ops \in Seq(Operations) /\ outer.len \in Nat
    BY <1>4, WriterParts
  <2>2. ops \in Seq(Operations) /\ len \in Nat
    BY <1>1, <2>1
  <2>3. Ldelim(w) = [outer EXCEPT !.ops = ops, !.len = len]
    BY <1>5, <1>7
  <2> HIDE DEF ops, len
  <2>4. /\ Ldelim(w) \in Writers /\ Ldelim(w).ops = ops
        /\ Ldelim(w).len = len /\ Ldelim(w).states = outer.states
    BY <1>4, <2>2, <2>3 DEF Writers
  <2> QED BY <1>4, <1>7, <2>4 DEF ops, len, number
<1> QED BY <1>6, <1>7

LEMMA Layered ==
  ASSUME NEW s \in Seq(Layers), NEW top \in Layers
  PROVE  /\ Len(<<top>> \o s) = Len(s) + 1
         /\ (<<top>> \o s)[1] = top /\ \A i \in 1 .. Len(s) : (<<top>> \o s)[i + 1] = s[i]
OBVIOUS

LEMMA Below ==
  ASSUME NEW s \in Seq(Layers), s # <<>>
  PROVE  /\ Len(s) >= 1 /\ Len(Tail(s)) = Len(s) - 1
         /\ \A i \in 1 .. Len(s) - 1 : Tail(s)[i] = s[i + 1]
OBVIOUS

(* They keep the lengths exact.                                            *)
LEMMA PushCounted ==
  ASSUME NEW w \in Writers, Counted(w), NEW more \in Seq(ExactOps)
  PROVE  Counted(Push(w, more))
<1>1. Good(w.ops \o more, w.len + LengthOf(more))
  BY Joinable DEF Counted, Good
<1> QED BY <1>1, PushParts DEF Counted

LEMMA ForkCounted == ASSUME NEW w \in Writers, Counted(w) PROVE Counted(Fork(w))
<1> DEFINE top == [ops |-> w.ops, len |-> w.len]
           states == <<top>> \o w.states
<1>1. /\ top \in Layers /\ top.ops = w.ops /\ top.len = w.len
      /\ w.states \in Seq(Layers) /\ Len(w.states) \in Nat
  BY WriterParts DEF Layers
<1> HIDE DEF top
<1>2. /\ Len(states) = Len(w.states) + 1 /\ states[1] = top
      /\ \A i \in 1 .. Len(w.states) : states[i + 1] = w.states[i]
  BY <1>1, Layered
<1> HIDE DEF states
<1>3. ASSUME NEW i \in 1 .. Len(states) PROVE Good(states[i].ops, states[i].len)
  <2>1. CASE i = 1
    BY <1>1, <1>2, <2>1 DEF Counted
  <2>2. CASE i # 1
    <3>1. i - 1 \in 1 .. Len(w.states) /\ (i - 1) + 1 = i
      BY <1>1, <1>2, <2>2
    <3>2. states[i] = w.states[i - 1]
      BY <1>2, <3>1
    <3> QED BY <3>1, <3>2 DEF Counted
  <2> QED BY <2>1, <2>2
<1>4. Good(<<>>, 0)
  BY NoOps DEF Good
<1>5. Fork(w).states = states /\ Fork(w).ops = <<>> /\ Fork(w).len = 0
  BY ForkParts DEF states, top
<1> QED BY <1>3, <1>4, <1>5 DEF Counted

LEMMA ResetCounted ==
  ASSUME NEW w \in Writers, w.states = <<>> \/ Counted(w)
  PROVE  Counted(Reset(w))
<1>1. CASE w.states = <<>>
  <2>1. Reset(w).ops = <<>> /\ Reset(w).len = 0 /\ Reset(w).states = <<>>
    BY <1>1, ResetParts
  <2>2. Good(<<>>, 0) /\ Len(<<>>) = 0
    BY NoOps DEF Good
  <2> QED BY <2>1, <2>2 DEF Counted
<1>2. CASE w.states # <<>>
  <2>1. /\ Reset(w).ops = w.states[1].ops /\ Reset(w).len = w.states[1].len
        /\ Reset(w).states = Tail(w.states)
    BY <1>2, ResetParts
  <2>2. /\ Len(w.states) \in Nat /\ Len(w.states) >= 1 /\ Len(Tail(w.states)) = Len(w.states) - 1
        /\ \A i \in 1 .. Len(w.states) - 1 : Tail(w.states)[i] = w.states[i + 1]
    BY <1>2, WriterParts, Below
  <2>3. 1 \in 1 .. Len(w.states) /\ \A i \in 1 .. Len(w.states) - 1 : i + 1 \in 1 .. Len(w.states)
    BY <2>2
  <2>4. \A i \in 1 .. Len(w.states) : Good(w.states[i].ops, w.states[i].len)
    BY <1>2 DEF Counted
  <2>5. Good(Reset(w).ops, Reset(w).len)
    BY <2>1, <2>3, <2>4
  <2>6. ASSUME NEW i \in 1 .. Len(Reset(w).states)
        PROVE  Good(Reset(w).states[i].ops, Reset(w).states[i].len)
    BY <2>1, <2>2, <2>3, <2>4
  <2> QED BY <2>5, <2>6 DEF Counted
<1> QED BY <1>1, <1>2

LEMMA LdelimCounted == ASSUME NEW w \in Writers, Counted(w) PROVE Counted(Ldelim(w)) /\ Ldelim(w) \in Writers
<1> DEFINE number == Uint32(w.len)
<1>1. w.ops \in Seq(ExactOps) /\ w.len = LengthOf(w.ops) /\ w.len \in Nat
  BY WriterParts DEF Counted, Good
<1>2. number \in Seq(ExactOps)
  BY <1>1, ExactUint32
<1>3. /\ Ldelim(w) \in Writers
      /\ Ldelim(w).ops = IF w.len = 0 THEN Reset(w).ops \o number ELSE (Reset(w).ops \o number) \o w.ops
      /\ Ldelim(w).len = Reset(w).len + LengthOf(number) + w.len
      /\ Ldelim(w).states = Reset(w).states
  BY LdelimParts
<1> HIDE DEF number
<1>4. Counted(Reset(w))
  BY ResetCounted
<1>5. Reset(w).ops \in Seq(ExactOps) /\ Reset(w).len = LengthOf(Reset(w).ops)
  BY <1>4 DEF Counted, Good
<1>6. /\ Reset(w).ops \o number \in Seq(ExactOps)
      /\ LengthOf(Reset(w).ops \o number) = Reset(w).len + LengthOf(number)
      /\ LengthOf(Reset(w).ops \o number) \in Nat
  <2>1. /\ Reset(w).ops \o number \in Seq(ExactOps)
        /\ LengthOf(Reset(w).ops \o number) = Reset(w).len + LengthOf(number)
        /\ Reset(w).ops \in Seq(Operations) /\ number \in Seq(Operations)
    BY <1>2, <1>5, Joinable
  <2>2. Reset(w).ops \o number \in Seq(Operations)
    BY <2>1
  <2> QED BY <2>1, <2>2, OpsJoined
<1>7. Good(Ldelim(w).ops, Ldelim(w).len)
  <2>1. CASE w.len = 0
    BY <1>1, <1>3, <1>6, <2>1 DEF Good
  <2>2. CASE w.len # 0
    <3>1. /\ (Reset(w).ops \o number) \o w.ops \in Seq(ExactOps)
          /\ LengthOf((Reset(w).ops \o number) \o w.ops) =
               LengthOf(Reset(w).ops \o number) + LengthOf(w.ops)
      BY <1>1, <1>6, Joinable
    <3> QED BY <1>1, <1>3, <1>6, <2>2, <3>1 DEF Good
  <2> QED BY <2>1, <2>2
<1> QED BY <1>3, <1>4, <1>7 DEF Counted

LEMMA UsedParts ==
  ASSUME NEW w \in Writers
  PROVE  /\ Used(w) \in Writers /\ Used(w).len = w.len /\ Used(w).states = w.states
         /\ Used(w).ops = [i \in 1 .. Len(w.ops) |-> Spent(w.ops[i])]
<1> DEFINE ops == [i \in 1 .. Len(w.ops) |-> Spent(w.ops[i])]
<1>1. w.ops \in Seq(Operations)
  BY WriterParts
<1>2. Len(w.ops) \in Nat /\ \A i \in 1 .. Len(w.ops) : w.ops[i] \in Operations
  BY <1>1
<1>3. \A i \in 1 .. Len(w.ops) : Spent(w.ops[i]) \in Operations
  BY <1>2, SpentOp
<1>4. ops \in Seq(Operations)
  BY <1>2, <1>3
<1>5. Used(w) = [w EXCEPT !.ops = ops]
  BY DEF Used
<1> HIDE DEF ops
<1>6. /\ Used(w) \in Writers /\ Used(w).len = w.len /\ Used(w).states = w.states
      /\ Used(w).ops = ops
  BY <1>4, <1>5 DEF Writers
<1> QED BY <1>6 DEF ops

LEMMA NewWriterCounted == NewWriter \in Writers /\ Counted(NewWriter)
<1>1. /\ NewWriter.ops = <<>> /\ NewWriter.len = 0 /\ NewWriter.states = <<>>
      /\ NewWriter.threw = FALSE
  BY DEF NewWriter
<1>2. NewWriter \in Writers
  <2> DEFINE none == <<>>
  <2>1. none \in Seq(Operations) /\ none \in Seq(Layers) /\ 0 \in Nat /\ FALSE \in BOOLEAN
    OBVIOUS
  <2>2. NewWriter = [ops |-> none, len |-> 0, states |-> none, threw |-> FALSE]
    BY DEF NewWriter
  <2> HIDE DEF none
  <2> QED BY <2>1, <2>2 DEF Writers
<1>3. Good(<<>>, 0) /\ Len(<<>>) = 0
  BY NoOps DEF Good
<1> QED BY <1>1, <1>2, <1>3 DEF Counted

LEMMA WriterInitInv == WriterInit => WriterInv
BY NewWriterCounted DEF WriterInit, WriterInv

LEMMA WriterNextInv == ASSUME WriterInv, [WriterNext]_writerVars PROVE WriterInv'
<1>0. writer \in Writers /\ spoiled \in BOOLEAN /\ (~spoiled => Counted(writer))
  BY DEF WriterInv
<1>1. ASSUME NEW w \in Writers, writer' = w, NEW b \in BOOLEAN, spoiled' = b, ~b => Counted(w)
      PROVE  WriterInv'
  BY <1>1 DEF WriterInv, Counted, Good
<1>2. ASSUME NEW v \in Values, Call(v) PROVE WriterInv'
  <2> DEFINE more == CallOf(v[1], v[2])
  <2>1. more \in Seq(ExactOps)
    BY ExactCall
  <2>2. writer' = Push(writer, more) /\ spoiled' = spoiled
    BY <1>2 DEF Call
  <2> HIDE DEF more
  <2>3. Push(writer, more) \in Writers
    BY <1>0, <2>1, PushParts
  <2>4. ~spoiled => Counted(Push(writer, more))
    BY <1>0, <2>1, PushCounted
  <2> QED BY <1>0, <1>1, <2>2, <2>3, <2>4
<1>3. CASE BeginFork
  <2>1. writer' = Fork(writer) /\ spoiled' = spoiled
    BY <1>3 DEF BeginFork
  <2> QED BY <1>0, <1>1, <2>1, ForkParts, ForkCounted
<1>4. CASE EndFork
  <2>1. writer' = Ldelim(writer) /\ spoiled' = spoiled
    BY <1>4 DEF EndFork
  <2> QED BY <1>0, <1>1, <2>1, LdelimParts, LdelimCounted
<1>5. CASE Discard
  <2>1. writer' = Reset(writer) /\ spoiled' = (spoiled /\ writer.states # <<>>)
    BY <1>5 DEF Discard
  <2>2. Reset(writer) \in Writers
    BY <1>0, ResetParts
  <2>3. ~(spoiled /\ writer.states # <<>>) => Counted(Reset(writer))
    BY <1>0, ResetCounted
  <2> QED BY <1>0, <1>1, <2>1, <2>2, <2>3
<1>6. CASE FinishWriter
  <2>1. writer' = Used(writer) /\ spoiled' = (spoiled \/ writer'.ops # writer.ops)
    BY <1>6 DEF FinishWriter
  <2>2. /\ Used(writer) \in Writers /\ Used(writer).len = writer.len
        /\ Used(writer).states = writer.states
    BY <1>0, UsedParts
  <2>3. ~spoiled /\ Used(writer).ops = writer.ops => Counted(Used(writer))
    BY <1>0, <2>2 DEF Counted
  <2> QED BY <1>0, <1>1, <2>1, <2>2, <2>3
<1>7. CASE CreateNew
  <2>1. writer' = NewWriter /\ spoiled' = FALSE
    BY <1>7 DEF CreateNew
  <2> QED BY <1>1, <2>1, NewWriterCounted
<1>8. CASE UNCHANGED writerVars
  <2>1. writer' = writer /\ spoiled' = spoiled
    BY <1>8 DEF writerVars
  <2> QED BY <1>0, <1>1, <2>1
<1> QED BY <1>2, <1>3, <1>4, <1>5, <1>6, <1>7, <1>8 DEF WriterNext

LEMMA WriterInvAlways == WriterSpec => []WriterInv
BY WriterInitInv, WriterNextInv, PTL DEF WriterSpec

(* In every state of a writer, also within forks and after finish, the      *)
(* lengths that it has counted are those of the bytes that finish writes,   *)
(* until finish has used up a 64-bit operation: for whatever values a       *)
(* program writes.                                                         *)
THEOREM LengthsExact == WriterSpec => []LenIsExact
<1>1. WriterInv => LenIsExact
  <2> SUFFICES ASSUME WriterInv, ~spoiled
               PROVE  /\ ExactLevel(writer)
                      /\ \A i \in 1 .. Len(writer.states) : ExactLevel(writer.states[i])
    BY DEF LenIsExact
  <2>1. writer \in Writers /\ Counted(writer)
    BY DEF WriterInv
  <2>2. ExactLevel(writer)
    BY <2>1, WriterParts, GoodIsExact DEF Counted
  <2>3. ASSUME NEW i \in 1 .. Len(writer.states) PROVE ExactLevel(writer.states[i])
    BY <2>1, WriterParts, GoodIsExact DEF Counted
  <2> QED BY <2>2, <2>3
<1> QED BY <1>1, WriterInvAlways, PTL

-----------------------------------------------------------------------------
(* What finish writes.                                                     *)
Painted(f, ops, size, i) ==
  IF i = 0 THEN Blank(size)
  ELSE Overwritten(f[i - 1], LengthOf(SubSeq(ops, 1, i - 1)), Stored(ops[i]))

LEMMA PaintedOf ==
  ASSUME NEW f, NEW ops, NEW size
  PROVE  /\ Painted(f, ops, size, 0) = Blank(size)
         /\ \A i : i # 0 => Painted(f, ops, size, i) =
              Overwritten(f[i - 1], LengthOf(SubSeq(ops, 1, i - 1)), Stored(ops[i]))
BY Zenon DEF Painted

LEMMA PaintedSame ==
  ASSUME NEW f, NEW g, NEW ops, NEW size, NEW i, i # 0 => f[i - 1] = g[i - 1]
  PROVE  Painted(f, ops, size, i) = Painted(g, ops, size, i)
BY Zenon DEF Painted

LEMMA ImageExists ==
  ASSUME NEW ops, Len(ops) \in Nat, NEW size
  PROVE  \E f : f = [i \in 0 .. Len(ops) |-> Painted(f, ops, size, i)]
<1> DEFINE Upto(f, n) == f = [i \in 0 .. n |-> Painted(f, ops, size, i)]
           S == {n \in Nat : \E f : Upto(f, n)}
<1>1. 0 \in S
  <2> DEFINE g == [i \in 0 .. 0 |-> Blank(size)]
  <2>1. ASSUME NEW i \in 0 .. 0 PROVE Blank(size) = Painted(g, ops, size, i)
    <3>1. i = 0
      OBVIOUS
    <3> QED BY <3>1, PaintedOf
  <2>2. Upto(g, 0)
    BY <2>1
  <2> HIDE DEF Upto
  <2> QED BY <2>2
<1>2. ASSUME NEW n \in Nat, n \in S PROVE n + 1 \in S
  <2>1. PICK f : Upto(f, n)
    BY <1>2
  <2> DEFINE g == [i \in 0 .. n + 1 |-> Painted(f, ops, size, i)]
  <2>2. ASSUME NEW i \in 0 .. n + 1 PROVE g[i] = Painted(g, ops, size, i)
    <3>1. i # 0 => i - 1 \in 0 .. n
      OBVIOUS
    <3>2. i # 0 => g[i - 1] = Painted(f, ops, size, i - 1) /\ f[i - 1] = Painted(f, ops, size, i - 1)
      BY <2>1, <3>1
    <3> QED BY <3>2, PaintedSame
  <2>3. g = [i \in 0 .. n + 1 |-> g[i]]
    OBVIOUS
  <2> HIDE DEF g
  <2>4. Upto(g, n + 1)
    BY <2>2, <2>3
  <2> HIDE DEF Upto
  <2>5. n + 1 \in Nat /\ \E h : Upto(h, n + 1)
    BY <2>4
  <2> QED BY <2>5
<1>3. Len(ops) \in S
  <2> HIDE DEF S
  <2> QED BY <1>1, <1>2, Induction
<1> QED BY <1>3

\* Bytes of the writer are bytes of the pool.
LEMMA BuffersAreArrays == \A s \in Buffers : s \in Arrays
<1>1. Byte \in Nat /\ Byte <= 256
  BY Septet32Or128
<1>2. Octets \subseteq Octet8
  BY <1>1 DEF Octets, Octet8
<1> QED BY <1>2, SeqMonotonic DEF Buffers, Arrays

\* The images of the beginnings.
Images(f, ops, size) ==
  /\ f[0] = Blank(size)
  /\ \A i \in 1 .. Len(ops) :
       f[i] = Overwritten(f[i - 1], LengthOf(SubSeq(ops, 1, i - 1)), Stored(ops[i]))

LEMMA Beginning ==
  ASSUME NEW T, NEW s \in Seq(T), NEW i \in 0 .. Len(s)
  PROVE  /\ SubSeq(s, 1, i) \in Seq(T) /\ Len(SubSeq(s, 1, i)) = i
         /\ SubSeq(s, i + 1, Len(s)) \in Seq(T)
         /\ s = SubSeq(s, 1, i) \o SubSeq(s, i + 1, Len(s))
         /\ i < Len(s) => SubSeq(s, 1, i + 1) = Append(SubSeq(s, 1, i), s[i + 1])
<1>0. Len(s) \in Nat /\ i \in Nat /\ i <= Len(s) /\ \A j \in 1 .. Len(s) : s[j] \in T
  OBVIOUS
<1> DEFINE a == SubSeq(s, 1, i)
           b == SubSeq(s, i + 1, Len(s))
<1>1. a \in Seq(T) /\ Len(a) = i /\ \A j \in 1 .. i : a[j] = s[j]
  BY <1>0
<1>2. b \in Seq(T) /\ Len(b) = Len(s) - i /\ \A j \in 1 .. Len(s) - i : b[j] = s[i + j]
  BY <1>0
<1>3. s = a \o b
  <2> HIDE DEF a, b
  <2>0. /\ a \o b \in Seq(T) /\ Len(a \o b) = Len(a) + Len(b)
        /\ \A j \in 1 .. Len(a) + Len(b) : (a \o b)[j] = IF j <= Len(a) THEN a[j] ELSE b[j - Len(a)]
    BY <1>1, <1>2, ConcatProperties
  <2>1. /\ a \o b \in Seq(T) /\ Len(a \o b) = Len(s)
        /\ \A j \in 1 .. Len(s) : (a \o b)[j] = IF j <= i THEN a[j] ELSE b[j - i]
    BY <1>0, <1>1, <1>2, <2>0
  <2>2. ASSUME NEW j \in 1 .. Len(s) PROVE (a \o b)[j] = s[j]
    <3>1. CASE j <= i
      BY <1>1, <2>1, <3>1
    <3>2. CASE ~(j <= i)
      <4>1. j - i \in 1 .. Len(s) - i /\ i + (j - i) = j
        BY <1>0, <3>2
      <4> QED BY <1>2, <2>1, <3>2, <4>1
    <3> QED BY <3>1, <3>2
  <2> QED BY <2>1, <2>2, SeqEqual
<1>4. ASSUME i < Len(s) PROVE SubSeq(s, 1, i + 1) = Append(a, s[i + 1])
  <2> DEFINE c == SubSeq(s, 1, i + 1)
             d == Append(a, s[i + 1])
  <2>1. c \in Seq(T) /\ Len(c) = i + 1 /\ \A j \in 1 .. i + 1 : c[j] = s[j]
    BY <1>0, <1>4
  <2>2. s[i + 1] \in T
    BY <1>0, <1>4
  <2> HIDE DEF a
  <2>3. /\ d \in Seq(T) /\ Len(d) = i + 1 /\ \A j \in 1 .. i : d[j] = a[j]
        /\ d[i + 1] = s[i + 1]
    BY <1>0, <1>1, <2>2
  <2> HIDE DEF c, d
  <2>4. ASSUME NEW j \in 1 .. i + 1 PROVE c[j] = d[j]
    BY <1>0, <1>1, <2>1, <2>3
  <2>5. c = d
    BY <2>1, <2>3, <2>4, SeqEqual
  <2> QED BY <2>5 DEF c, d
<1> QED BY <1>1, <1>2, <1>3, <1>4

LEMMA ImageOf ==
  ASSUME NEW ops \in Seq(Operations), NEW size \in Nat
  PROVE  \E f : /\ Images(f, ops, size) /\ Image(ops, size) = f[Len(ops)]
                /\ \A i \in 0 .. Len(ops) : f[i] \in Arrays /\ Len(f[i]) = size
<1>0. Len(ops) \in Nat /\ \A i \in 1 .. Len(ops) : ops[i] \in Operations
  OBVIOUS
<1> DEFINE f == CHOOSE g : g = [i \in 0 .. Len(ops) |-> Painted(g, ops, size, i)]
<1>1. f = [i \in 0 .. Len(ops) |-> Painted(f, ops, size, i)]
  BY <1>0, ImageExists, SMTT(30)
<1>2. Image(ops, size) = f[Len(ops)]
  BY DEF Image, Painted
<1> HIDE DEF f
<1>3. \A i \in 0 .. Len(ops) : f[i] = Painted(f, ops, size, i)
  BY <1>1
<1>4. f[0] = Blank(size)
  BY <1>0, <1>3, PaintedOf
<1>5. ASSUME NEW i \in 1 .. Len(ops)
      PROVE  f[i] = Overwritten(f[i - 1], LengthOf(SubSeq(ops, 1, i - 1)), Stored(ops[i]))
  <2>1. f[i] = Painted(f, ops, size, i) /\ i # 0
    BY <1>3
  <2>2. Painted(f, ops, size, i) =
          Overwritten(f[i - 1], LengthOf(SubSeq(ops, 1, i - 1)), Stored(ops[i]))
    BY <2>1, Zenon DEF Painted
  <2> QED BY <2>1, <2>2
<1>6. Images(f, ops, size)
  BY <1>4, <1>5 DEF Images
<1> DEFINE S == {n \in Nat : n <= Len(ops) => f[n] \in Arrays /\ Len(f[n]) = size}
<1>7. 0 \in S
  BY <1>4, BlankBytes
<1>8. ASSUME NEW n \in Nat, n \in S PROVE n + 1 \in S
  <2>1. CASE n + 1 <= Len(ops)
    <3> DEFINE at == LengthOf(SubSeq(ops, 1, n))
               bytes == Stored(ops[n + 1])
    <3>1. f[n] \in Arrays /\ Len(f[n]) = size
      BY <1>8, <1>0, <2>1
    <3>2. f[n + 1] = Overwritten(f[n], at, bytes)
      <4>1. n + 1 \in 1 .. Len(ops) /\ (n + 1) - 1 = n
        BY <1>0, <2>1
      <4> QED BY <1>5, <4>1
    <3>3. at \in Nat
      <4>1. SubSeq(ops, 1, n) \in Seq(Operations)
        BY <1>0, <2>1, Beginning
      <4> QED BY <4>1, OpsJoined
    <3>4. bytes \in Arrays
      BY <1>0, <2>1, StoredBytes, BuffersAreArrays
    <3> HIDE DEF at, bytes
    <3>5. Overwritten(f[n], at, bytes) \in Arrays /\ Len(Overwritten(f[n], at, bytes)) = Len(f[n])
      BY <3>1, <3>3, <3>4, OverwrittenBytes
    <3> QED BY <3>1, <3>2, <3>5
  <2>2. CASE ~(n + 1 <= Len(ops))
    BY <1>0, <2>2
  <2> QED BY <2>1, <2>2
<1>9. \A n \in Nat : n \in S
  <2> HIDE DEF S
  <2> QED BY <1>7, <1>8, Induction
<1> QED BY <1>0, <1>2, <1>6, <1>9

LEMMA ImageBytes ==
  ASSUME NEW ops \in Seq(Operations), NEW size \in Nat
  PROVE  Image(ops, size) \in Arrays /\ Len(Image(ops, size)) = size
<1>1. Len(ops) \in 0 .. Len(ops)
  OBVIOUS
<1> QED BY <1>1, ImageOf

LEMMA OneStored == ASSUME NEW op \in Operations PROVE BytesOf(<<op>>) = Stored(op)
<1>1. [i \in 1 .. Len(<<op>>) |-> Stored(<<op>>[i])] = <<Stored(op)>>
  OBVIOUS
<1>2. Stored(op) \in Seq(Octets) /\ <<>> \in Seq(Seq(Octets))
  BY StoredBytes DEF Buffers
<1>3. FlattenSeq(Append(<<>>, Stored(op))) = FlattenSeq(<<>>) \o Stored(op)
  BY <1>2, FlattenNext
<1>4. Append(<<>>, Stored(op)) = <<Stored(op)>> /\ <<>> \o Stored(op) = Stored(op)
  BY <1>2
<1> QED BY <1>1, <1>3, <1>4, FlattenEmpty DEF BytesOf

(* Where the lengths are exact, it is the bytes of the operations.         *)
LEMMA ImageIsBytes ==
  ASSUME NEW ops \in Seq(ExactOps)
  PROVE  Image(ops, LengthOf(ops)) = BytesOf(ops)
<1> DEFINE size == LengthOf(ops)
           Begun(i) == SubSeq(ops, 1, i)
           B(i) == BytesOf(Begun(i))
<1>0. /\ ops \in Seq(Operations) /\ Len(ops) \in Nat /\ size \in Nat
      /\ \A i \in 1 .. Len(ops) : ops[i] \in ExactOps /\ ops[i] \in Operations
  <2>1. ops \in Seq(Operations)
    BY ExactLength
  <2> QED BY <2>1, OpsJoined
<1>1. PICK f : /\ Images(f, ops, size) /\ Image(ops, size) = f[Len(ops)]
               /\ \A i \in 0 .. Len(ops) : f[i] \in Arrays /\ Len(f[i]) = size
  BY <1>0, ImageOf
<1>2. ASSUME NEW i \in 0 .. Len(ops)
      PROVE  /\ Begun(i) \in Seq(ExactOps) /\ B(i) \in Buffers /\ Len(B(i)) = LengthOf(Begun(i))
             /\ LengthOf(Begun(i)) \in Nat /\ LengthOf(Begun(i)) <= size
  <2> DEFINE rest == SubSeq(ops, i + 1, Len(ops))
  <2>1. Begun(i) \in Seq(ExactOps) /\ rest \in Seq(ExactOps) /\ ops = Begun(i) \o rest
    BY Beginning
  <2> HIDE DEF Begun, rest
  <2>2. Begun(i) \in Seq(Operations) /\ rest \in Seq(Operations) /\ Len(B(i)) = LengthOf(Begun(i))
    BY <2>1, ExactLength
  <2>3. LengthOf(Begun(i)) \in Nat /\ LengthOf(rest) \in Nat /\ B(i) \in Buffers
    BY <2>2, OpsJoined
  <2>4. LengthOf(Begun(i) \o rest) = LengthOf(Begun(i)) + LengthOf(rest)
    BY <2>2, OpsJoined
  <2> QED BY <2>1, <2>2, <2>3, <2>4
<1>3. ASSUME NEW i \in 0 .. Len(ops), i < Len(ops)
      PROVE  B(i + 1) = B(i) \o Stored(ops[i + 1])
  <2> DEFINE op == ops[i + 1]
  <2>1. Begun(i + 1) = Append(Begun(i), op)
    BY <1>3, Beginning
  <2>2. op \in Operations /\ Begun(i) \in Seq(Operations)
    BY <1>0, <1>2, <1>3, ExactLength
  <2> HIDE DEF Begun, op
  <2>3. Append(Begun(i), op) = Begun(i) \o <<op>> /\ <<op>> \in Seq(Operations)
    BY <2>2
  <2>4. BytesOf(Begun(i) \o <<op>>) = BytesOf(Begun(i)) \o BytesOf(<<op>>)
    BY <2>2, <2>3, OpsJoined
  <2>5. BytesOf(<<op>>) = Stored(op)
    BY <2>2, OneStored
  <2> QED BY <2>1, <2>3, <2>4, <2>5 DEF op
<1> DEFINE Same(i) == \A j \in 1 .. Len(B(i)) : f[i][j] = B(i)[j]
           S == {n \in Nat : n <= Len(ops) => Same(n)}
<1>4. 0 \in S
  <2>1. Begun(0) = <<>>
    OBVIOUS
  <2>2. B(0) = <<>>
    BY <2>1, NoOps
  <2> QED BY <2>2
<1>5. ASSUME NEW n \in Nat, n \in S PROVE n + 1 \in S
  <2>1. CASE n + 1 <= Len(ops)
    <3> DEFINE b == B(n)
               bytes == Stored(ops[n + 1])
               a == f[n]
    <3>1. n \in 0 .. Len(ops) /\ n < Len(ops) /\ n + 1 \in 1 .. Len(ops) /\ (n + 1) - 1 = n
          /\ n + 1 \in 0 .. Len(ops)
      BY <1>0, <2>1
    <3>2. /\ f[n + 1] = Overwritten(a, LengthOf(Begun(n)), bytes)
          /\ a \in Arrays /\ Len(a) = size
      BY <1>1, <3>1 DEF Images
    <3>3. B(n + 1) = b \o bytes
      BY <1>3, <3>1
    <3>4. /\ b \in Buffers /\ Len(b) = LengthOf(Begun(n)) /\ Len(b) \in Nat
          /\ Len(B(n + 1)) <= size
      BY <1>2, <3>1
    <3>5. bytes \in Buffers /\ bytes \in Arrays
      BY <1>0, <3>1, StoredBytes, BuffersAreArrays
    <3>6. \A j \in 1 .. Len(b) : a[j] = b[j]
      BY <1>5, <3>1
    <3> HIDE DEF b, bytes, a
    <3>7. \A j \in 1 .. size :
            f[n + 1][j] = IF Len(b) < j /\ j <= Len(b) + Len(bytes) THEN bytes[j - Len(b)] ELSE a[j]
      BY <3>2, <3>4, <3>5, OverwrittenBytes
    <3>8. /\ Len(bytes) \in Nat /\ Len(b \o bytes) = Len(b) + Len(bytes)
          /\ \A j \in 1 .. Len(b) + Len(bytes) :
               (b \o bytes)[j] = IF j <= Len(b) THEN b[j] ELSE bytes[j - Len(b)]
      <4>1. b \in Seq(Octets) /\ bytes \in Seq(Octets)
        BY <3>4, <3>5 DEF Buffers
      <4> QED BY <4>1, ConcatProperties
    <3>9. ASSUME NEW j \in 1 .. Len(b) + Len(bytes) PROVE f[n + 1][j] = (b \o bytes)[j]
      <4>1. j \in 1 .. size
        BY <3>3, <3>4, <3>8, <1>0
      <4>2. f[n + 1][j] = IF Len(b) < j /\ j <= Len(b) + Len(bytes) THEN bytes[j - Len(b)] ELSE a[j]
        BY <3>7, <4>1
      <4> QED BY <3>4, <3>6, <3>8, <4>2
    <3>10. Same(n + 1)
      BY <3>3, <3>8, <3>9
    <3> QED BY <3>10
  <2>2. CASE ~(n + 1 <= Len(ops))
    BY <1>0, <2>2
  <2> QED BY <2>1, <2>2
<1>6. Same(Len(ops))
  <2>1. Len(ops) \in S
    <3> HIDE DEF S
    <3> QED BY <1>0, <1>4, <1>5, Induction
  <2> QED BY <1>0, <2>1
<1>7. Begun(Len(ops)) = ops
  BY <1>0, SubSeqFull
<1>8. BytesOf(ops) \in Arrays /\ Len(BytesOf(ops)) = size
  BY <1>0, ExactLength, OpsJoined, BuffersAreArrays
<1>9. f[Len(ops)] \in Arrays /\ Len(f[Len(ops)]) = size
  BY <1>0, <1>1
<1>10. \A j \in 1 .. Len(BytesOf(ops)) : f[Len(ops)][j] = BytesOf(ops)[j]
  BY <1>6, <1>7
<1> HIDE DEF size
<1>11. f[Len(ops)] = BytesOf(ops)
  BY <1>8, <1>9, <1>10, SeqEqual DEF Arrays
<1> QED BY <1>1, <1>11 DEF size

-----------------------------------------------------------------------------
(* The writer as a stack of byte strings.                                  *)
RestOf(states) == [i \in 1 .. Len(states) |-> BytesOf(states[i].ops)]
LevelsOf(w) == <<BytesOf(w.ops)>> \o RestOf(w.states)

LEMMA RestParts ==
  ASSUME NEW states \in Seq(Layers)
  PROVE  /\ RestOf(states) \in Seq(Buffers) /\ Len(RestOf(states)) = Len(states)
         /\ \A i \in 1 .. Len(states) : RestOf(states)[i] = BytesOf(states[i].ops)
<1>1. Len(states) \in Nat /\ \A i \in 1 .. Len(states) : states[i] \in Layers
  OBVIOUS
<1>2. \A i \in 1 .. Len(states) : BytesOf(states[i].ops) \in Buffers
  BY <1>1, OpsJoined DEF Layers
<1> DEFINE rest == [i \in 1 .. Len(states) |-> BytesOf(states[i].ops)]
<1>3. rest \in Seq(Buffers) /\ Len(rest) = Len(states)
  BY <1>1, <1>2
<1>4. \A i \in 1 .. Len(states) : rest[i] = BytesOf(states[i].ops)
  OBVIOUS
<1> QED BY <1>3, <1>4 DEF RestOf

LEMMA Topped ==
  ASSUME NEW T, NEW x \in T, NEW s \in Seq(T)
  PROVE  /\ Head(<<x>> \o s) = x /\ Tail(<<x>> \o s) = s
         /\ <<x>> \o s \in Seq(T) /\ Len(<<x>> \o s) = Len(s) + 1
<1> DEFINE t == <<x>> \o s
<1>1. /\ t \in Seq(T) /\ Len(t) = Len(s) + 1 /\ t[1] = x
      /\ \A i \in 1 .. Len(s) : t[i + 1] = s[i]
  BY Prepended
<1> HIDE DEF t
<1>2. Head(t) = x
  BY <1>1
<1>3. Len(t) # 0 /\ t # <<>>
  BY <1>1
<1>4. Tail(t) \in Seq(T) /\ Len(Tail(t)) = Len(s) /\ \A i \in 1 .. Len(s) : Tail(t)[i] = t[i + 1]
  BY <1>1, <1>3
<1>5. \A i \in 1 .. Len(Tail(t)) : Tail(t)[i] = s[i]
  BY <1>1, <1>4
<1>6. Tail(t) = s
  BY <1>4, <1>5, SeqEqual
<1> QED BY <1>1, <1>2, <1>6 DEF t

LEMMA LevelsParts ==
  ASSUME NEW w \in Writers
  PROVE  /\ Head(LevelsOf(w)) = BytesOf(w.ops) /\ Tail(LevelsOf(w)) = RestOf(w.states)
         /\ LevelsOf(w) \in Seq(Buffers) /\ Len(LevelsOf(w)) = Len(w.states) + 1
         /\ BytesOf(w.ops) \in Buffers
<1>1. w.ops \in Seq(Operations) /\ w.states \in Seq(Layers)
  BY WriterParts
<1>2. BytesOf(w.ops) \in Buffers
  BY <1>1, OpsJoined
<1>3. RestOf(w.states) \in Seq(Buffers) /\ Len(RestOf(w.states)) = Len(w.states)
  BY <1>1, RestParts
<1> DEFINE x == BytesOf(w.ops)
           s == RestOf(w.states)
<1>4. LevelsOf(w) = <<x>> \o s
  BY DEF LevelsOf
<1> HIDE DEF x, s
<1>5. /\ Head(LevelsOf(w)) = x /\ Tail(LevelsOf(w)) = s
      /\ LevelsOf(w) \in Seq(Buffers) /\ Len(LevelsOf(w)) = Len(s) + 1
  BY <1>2, <1>3, <1>4, Topped DEF x, s
<1> QED BY <1>2, <1>3, <1>5 DEF x, s

LEMMA NoLevels == LevelsOf(NewWriter) = << <<>> >>
<1>1. NewWriter.ops = <<>> /\ NewWriter.states = <<>>
  BY DEF NewWriter
<1>2. RestOf(<<>>) = <<>> /\ <<BytesOf(<<>>)>> \o <<>> = << <<>> >>
  BY NoOps DEF RestOf
<1> QED BY <1>1, <1>2 DEF LevelsOf

BelowOf(levels) == IF Len(levels) = 1 THEN << <<>> >> ELSE Tail(levels)

LEMMA PushLevels ==
  ASSUME NEW w \in Writers, NEW more \in Seq(ExactOps)
  PROVE  LevelsOf(Push(w, more)) = <<Head(LevelsOf(w)) \o BytesOf(more)>> \o Tail(LevelsOf(w))
<1>1. Push(w, more).ops = w.ops \o more /\ Push(w, more).states = w.states
  BY PushParts
<1>2. w.ops \in Seq(Operations) /\ more \in Seq(Operations)
  BY WriterParts, ExactLength
<1>3. BytesOf(w.ops \o more) = BytesOf(w.ops) \o BytesOf(more)
  BY <1>2, OpsJoined
<1> QED BY <1>1, <1>3, LevelsParts DEF LevelsOf

LEMMA ForkLevels ==
  ASSUME NEW w \in Writers PROVE LevelsOf(Fork(w)) = << <<>> >> \o LevelsOf(w)
<1> DEFINE top == [ops |-> w.ops, len |-> w.len]
           states == <<top>> \o w.states
<1>1. top \in Layers /\ top.ops = w.ops /\ w.states \in Seq(Layers) /\ Len(w.states) \in Nat
  BY WriterParts DEF Layers
<1>2. Fork(w).ops = <<>> /\ Fork(w).states = states
  BY ForkParts
<1> HIDE DEF top
<1>3. /\ states \in Seq(Layers) /\ Len(states) = Len(w.states) + 1 /\ states[1] = top
      /\ \A i \in 1 .. Len(w.states) : states[i + 1] = w.states[i]
  BY <1>1, Layered
<1> HIDE DEF states
<1>4. /\ RestOf(states) \in Seq(Buffers) /\ Len(RestOf(states)) = Len(states)
      /\ \A i \in 1 .. Len(states) : RestOf(states)[i] = BytesOf(states[i].ops)
  BY <1>3, RestParts
<1>5. /\ RestOf(w.states) \in Seq(Buffers) /\ Len(RestOf(w.states)) = Len(w.states)
      /\ \A i \in 1 .. Len(w.states) : RestOf(w.states)[i] = BytesOf(w.states[i].ops)
  BY <1>1, RestParts
<1> DEFINE x == BytesOf(w.ops)
           s == RestOf(w.states)
           t == <<x>> \o s
<1>6. x \in Buffers
  BY LevelsParts
<1> HIDE DEF x, s
<1>7. /\ t \in Seq(Buffers) /\ Len(t) = Len(s) + 1 /\ t[1] = x
      /\ \A i \in 1 .. Len(s) : t[i + 1] = s[i]
  BY <1>5, <1>6, Prepended DEF s
<1> HIDE DEF t
<1>8. ASSUME NEW i \in 1 .. Len(states) PROVE RestOf(states)[i] = t[i]
  <2>1. CASE i = 1
    BY <1>1, <1>3, <1>4, <1>7, <2>1 DEF x
  <2>2. CASE i # 1
    <3>1. i - 1 \in 1 .. Len(w.states) /\ (i - 1) + 1 = i
      BY <1>1, <1>3, <2>2
    <3>2. states[i] = w.states[i - 1]
      BY <1>3, <3>1
    <3>3. t[i] = s[i - 1]
      BY <1>5, <1>7, <3>1 DEF s
    <3>4. RestOf(states)[i] = BytesOf(states[i].ops) /\ s[i - 1] = BytesOf(w.states[i - 1].ops)
      BY <1>4, <1>5, <3>1 DEF s
    <3> QED BY <3>2, <3>3, <3>4
  <2> QED BY <2>1, <2>2
<1>9. RestOf(states) = t
  BY <1>3, <1>4, <1>5, <1>7, <1>8, SeqEqual DEF s
<1> QED BY <1>2, <1>9, NoOps DEF LevelsOf, t, x, s

LEMMA ResetLevels ==
  ASSUME NEW w \in Writers PROVE LevelsOf(Reset(w)) = BelowOf(LevelsOf(w))
<1>0. w.states \in Seq(Layers) /\ Len(w.states) \in Nat
  BY WriterParts
<1>1. CASE w.states = <<>>
  <2>1. Reset(w).ops = <<>> /\ Reset(w).states = <<>>
    BY <1>1, ResetParts
  <2>2. Len(LevelsOf(w)) = 1
    <3>1. Len(w.states) = 0
      BY <1>1
    <3>2. Len(LevelsOf(w)) = Len(w.states) + 1
      BY LevelsParts
    <3> QED BY <3>1, <3>2
  <2>3. RestOf(<<>>) = <<>> /\ <<BytesOf(<<>>)>> \o <<>> = << <<>> >>
    BY NoOps DEF RestOf
  <2> QED BY <2>1, <2>2, <2>3 DEF LevelsOf, BelowOf
<1>2. CASE w.states # <<>>
  <2> DEFINE rest == Tail(w.states)
             x == BytesOf(w.states[1].ops)
             s == RestOf(rest)
             t == <<x>> \o s
  <2>1. Reset(w).ops = w.states[1].ops /\ Reset(w).states = rest
    BY <1>2, ResetParts
  <2>2. /\ Len(w.states) >= 1 /\ Len(rest) = Len(w.states) - 1 /\ rest \in Seq(Layers)
        /\ \A i \in 1 .. Len(w.states) - 1 : rest[i] = w.states[i + 1]
    BY <1>0, <1>2, Below
  <2> HIDE DEF rest
  <2>3. s \in Seq(Buffers) /\ Len(s) = Len(rest) /\ \A i \in 1 .. Len(rest) : s[i] = BytesOf(rest[i].ops)
    BY <2>2, RestParts
  <2>4. /\ RestOf(w.states) \in Seq(Buffers) /\ Len(RestOf(w.states)) = Len(w.states)
        /\ \A i \in 1 .. Len(w.states) : RestOf(w.states)[i] = BytesOf(w.states[i].ops)
    BY <1>0, RestParts
  <2>5. x \in Buffers /\ x = RestOf(w.states)[1]
    <3>1. 1 \in 1 .. Len(w.states)
      BY <1>0, <2>2
    <3> QED BY <2>4, <3>1
  <2> HIDE DEF x, s
  <2>6. /\ t \in Seq(Buffers) /\ Len(t) = Len(s) + 1 /\ t[1] = x
        /\ \A i \in 1 .. Len(s) : t[i + 1] = s[i]
    BY <2>3, <2>5, Prepended
  <2> HIDE DEF t
  <2>7. ASSUME NEW i \in 1 .. Len(w.states) PROVE t[i] = RestOf(w.states)[i]
    <3>1. CASE i = 1
      BY <2>5, <2>6, <3>1
    <3>2. CASE i # 1
      <4>1. i - 1 \in 1 .. Len(rest) /\ i - 1 \in 1 .. Len(w.states) - 1 /\ (i - 1) + 1 = i
        BY <1>0, <2>2, <3>2
      <4>2. t[i] = s[i - 1] /\ s[i - 1] = BytesOf(rest[i - 1].ops)
        BY <2>3, <2>6, <4>1
      <4>3. rest[i - 1] = w.states[i]
        BY <2>2, <4>1
      <4> QED BY <2>4, <4>2, <4>3
    <3> QED BY <3>1, <3>2
  <2>8. Len(t) = Len(w.states)
    BY <1>0, <2>2, <2>3, <2>6
  <2>9. t = RestOf(w.states)
    BY <2>4, <2>6, <2>7, <2>8, SeqEqual
  <2>10. LevelsOf(Reset(w)) = t
    BY <2>1 DEF LevelsOf, t, x, s
  <2>11. Len(LevelsOf(w)) # 1 /\ Tail(LevelsOf(w)) = RestOf(w.states)
    BY <1>0, <2>2, LevelsParts
  <2> QED BY <2>9, <2>10, <2>11 DEF BelowOf
<1> QED BY <1>1, <1>2

LEMMA LdelimLevels ==
  ASSUME NEW w \in Writers, Counted(w)
  PROVE  LevelsOf(Ldelim(w)) =
           <<(Head(BelowOf(LevelsOf(w))) \o LengthBytes(Len(Head(LevelsOf(w))))) \o Head(LevelsOf(w))>>
             \o Tail(BelowOf(LevelsOf(w)))
<1> DEFINE number == Uint32(w.len)
           inner == w.ops
           outer == Reset(w).ops
<1>1. inner \in Seq(ExactOps) /\ w.len = LengthOf(inner) /\ w.len \in Nat
  BY WriterParts DEF Counted, Good
<1>2. number \in Seq(ExactOps)
  BY <1>1, ExactUint32
<1>3. inner \in Seq(Operations) /\ Len(BytesOf(inner)) = w.len /\ number \in Seq(Operations)
  BY <1>1, <1>2, ExactLength
<1>4. Reset(w) \in Writers /\ outer \in Seq(Operations)
  BY ResetParts, WriterParts
<1>5. /\ Ldelim(w).ops = IF w.len = 0 THEN outer \o number ELSE (outer \o number) \o inner
      /\ Ldelim(w).states = Reset(w).states
  BY LdelimParts
<1>6. Head(LevelsOf(w)) = BytesOf(inner)
  BY LevelsParts
<1>7. /\ Head(BelowOf(LevelsOf(w))) = BytesOf(outer)
      /\ Tail(BelowOf(LevelsOf(w))) = RestOf(Reset(w).states)
  BY <1>4, ResetLevels, LevelsParts
<1>8. LengthBytes(Len(Head(LevelsOf(w)))) = BytesOf(number)
  BY <1>3, <1>6 DEF LengthBytes
<1> HIDE DEF number, inner, outer
<1>9. outer \o number \in Seq(Operations)
  BY <1>3, <1>4
<1>10. BytesOf(Ldelim(w).ops) = (BytesOf(outer) \o BytesOf(number)) \o BytesOf(inner)
  <2>1. /\ BytesOf(outer \o number) = BytesOf(outer) \o BytesOf(number)
        /\ BytesOf(outer \o number) \in Buffers
    BY <1>3, <1>4, <1>9, OpsJoined
  <2>2. CASE w.len = 0
    <3>1. BytesOf(inner) \in Seq(Octets) /\ BytesOf(outer \o number) \in Seq(Octets)
      BY <1>3, <2>1, OpsJoined DEF Buffers
    <3>2. BytesOf(inner) = <<>>
      BY <1>3, <2>2, <3>1, EmptySeq
    <3>3. BytesOf(outer \o number) \o <<>> = BytesOf(outer \o number)
      BY <3>1, ConcatEmptySeq
    <3> QED BY <1>5, <2>1, <2>2, <3>2, <3>3
  <2>3. CASE w.len # 0
    <3>1. BytesOf((outer \o number) \o inner) = BytesOf(outer \o number) \o BytesOf(inner)
      BY <1>3, <1>9, OpsJoined
    <3> QED BY <1>5, <2>1, <2>3, <3>1
  <2> QED BY <2>2, <2>3
<1> QED BY <1>5, <1>6, <1>7, <1>8, <1>10 DEF LevelsOf

-----------------------------------------------------------------------------
(* What the buffers hold.                                                  *)
Held == [n \in 1 .. Len(views) |-> Contents(views[n])]
Given(handed) == [n \in 1 .. Len(handed) |-> handed[n].bytes]

LEMMA HeldIsGiven == ASSUME Inv PROVE Held = Given(views)
<1>1. \A n \in 1 .. Len(views) : Contents(views[n]) = views[n].bytes
  BY InvKeeps DEF BuffersKeep
<1> QED BY <1>1 DEF Held, Given

LEMMA GivenOne ==
  ASSUME NEW handed \in Seq(Views), NEW v \in Views
  PROVE  /\ Given(handed) \in Seq(Arrays) /\ Len(Given(handed)) = Len(handed)
         /\ Given(Append(handed, v)) = Append(Given(handed), v.bytes)
<1> DEFINE more == Append(handed, v)
<1>1. Len(handed) \in Nat /\ \A n \in 1 .. Len(handed) : handed[n] \in Views
  OBVIOUS
<1>2. /\ more \in Seq(Views) /\ Len(more) = Len(handed) + 1 /\ more[Len(handed) + 1] = v
      /\ \A n \in 1 .. Len(handed) : more[n] = handed[n]
  OBVIOUS
<1> HIDE DEF more
<1>3. v.bytes \in Arrays /\ \A n \in 1 .. Len(handed) : handed[n].bytes \in Arrays
  BY <1>1 DEF Views
<1>4. /\ Given(handed) \in Seq(Arrays) /\ Len(Given(handed)) = Len(handed)
      /\ \A n \in 1 .. Len(handed) : Given(handed)[n] = handed[n].bytes
  BY <1>1, <1>3 DEF Given
<1>5. \A n \in 1 .. Len(more) : more[n].bytes \in Arrays
  BY <1>1, <1>2, <1>3
<1>6. /\ Given(more) \in Seq(Arrays) /\ Len(Given(more)) = Len(more)
      /\ \A n \in 1 .. Len(more) : Given(more)[n] = more[n].bytes
  BY <1>1, <1>2, <1>5 DEF Given
<1> DEFINE both == Append(Given(handed), v.bytes)
<1>7. /\ both \in Seq(Arrays) /\ Len(both) = Len(handed) + 1 /\ both[Len(handed) + 1] = v.bytes
      /\ \A n \in 1 .. Len(handed) : both[n] = Given(handed)[n]
  BY <1>3, <1>4
<1> HIDE DEF both
<1>8. ASSUME NEW n \in 1 .. Len(more) PROVE Given(more)[n] = both[n]
  <2>1. CASE n = Len(handed) + 1
    BY <1>2, <1>6, <1>7, <2>1
  <2>2. CASE n # Len(handed) + 1
    <3>1. n \in 1 .. Len(handed)
      BY <1>1, <1>2, <2>2
    <3> QED BY <1>2, <1>4, <1>6, <1>7, <3>1
  <2> QED BY <2>1, <2>2
<1>9. Given(more) = both
  BY <1>1, <1>2, <1>6, <1>7, <1>8, SeqEqual
<1> QED BY <1>4, <1>9 DEF both, more

(* The pool and the writer together.                                       *)
BothInv == Inv /\ WriterInv

LEMMA PoolUnchanged == ASSUME Inv, UNCHANGED poolVars PROVE Inv'
BY NextInv

LEMMA Allocated ==
  ASSUME Inv, NEW bytes \in Arrays, Allocate(bytes)
  PROVE  /\ Inv'
         /\ \E v \in Views : v.bytes = bytes /\ views' = Append(views, v)
<1>1. Inv'
  BY OwnArrayStep, SameSlabStep, NewSlabStep DEF Allocate
<1>2. PICK array, at : View(array, at, bytes)
  BY DEF Allocate, OwnArray, SameSlab, NewSlab
<1> DEFINE v == [array |-> array, at |-> at, bytes |-> bytes]
<1>3. views' = Append(views, v) /\ v.bytes = bytes
  BY <1>2 DEF View
<1>4. views \in Seq(Views) /\ views' \in Seq(Views)
  BY <1>1 DEF Inv, PoolTypeOK
<1> HIDE DEF v
<1>5. Len(views) \in Nat /\ Len(views') = Len(views) + 1 /\ views'[Len(views) + 1] = v
  BY <1>3, <1>4
<1>6. v \in Views
  BY <1>4, <1>5
<1> QED BY <1>1, <1>3, <1>6

LEMMA BothInvInit == WriterInit => BothInv
BY InitInv, WriterInitInv DEF WriterInit, BothInv

LEMMA BothInvNext == ASSUME BothInv, [WriterNext]_writerVars PROVE BothInv'
<1>1. WriterInv'
  BY WriterNextInv DEF BothInv
<1>2. CASE FinishWriter
  <2>1. writer.ops \in Seq(Operations) /\ writer.len \in Nat
    BY WriterParts DEF BothInv, WriterInv
  <2>2. Image(writer.ops, writer.len) \in Arrays /\ Allocate(Image(writer.ops, writer.len))
    BY <1>2, <2>1, ImageBytes DEF FinishWriter
  <2> QED BY <1>1, <2>2, Allocated DEF BothInv
<1>3. CASE ~FinishWriter
  <2>1. UNCHANGED poolVars
    BY <1>3 DEF WriterNext, writerVars, Call, BeginFork, EndFork, Discard, CreateNew
  <2> QED BY <1>1, <2>1, PoolUnchanged DEF BothInv
<1> QED BY <1>2, <1>3

-----------------------------------------------------------------------------
(* The writer implements ByteStack.                                        *)
LEMMA PromiseInit == ASSUME WriterInit PROVE Stack!Init
<1>1. Levels = << <<>> >>
  BY NoLevels DEF WriterInit, Levels, LevelsOf, RestOf
<1>2. Held = <<>>
  <2>1. views = <<>>
    BY DEF WriterInit, PoolInit
  <2>2. Len(views) = 0
    BY <2>1
  <2> QED BY <2>2 DEF Held
<1>3. ~spoiled
  BY DEF WriterInit
<1> QED BY <1>1, <1>2, <1>3 DEF Stack!Init, Stack!Empty, Held

(* A step that keeps the buffers, in terms of the writer.                  *)
LEMMA Changes ==
  ASSUME ~spoiled, ~spoiled', Held' = Held,
         \/ \E v \in Values : Levels' = <<Head(Levels) \o BytesOf(CallOf(v[1], v[2]))>> \o Tail(Levels)
         \/ Levels' = << <<>> >> \o Levels
         \/ Levels' = <<(Head(BelowOf(Levels)) \o LengthBytes(Len(Head(Levels)))) \o Head(Levels)>>
                        \o Tail(BelowOf(Levels))
         \/ Levels' = BelowOf(Levels)
         \/ Levels' = << <<>> >>
  PROVE  Stack!Next
<1>1. CASE \E v \in Values : Levels' = <<Head(Levels) \o BytesOf(CallOf(v[1], v[2]))>> \o Tail(Levels)
  <2>1. Stack!Call
    BY <1>1, Zenon DEF Stack!Call
  <2> QED BY <2>1 DEF Stack!Next, Stack!Change, Held
<1>2. CASE Levels' = << <<>> >> \o Levels
  <2>1. Stack!Fork
    BY <1>2, Zenon DEF Stack!Fork
  <2> QED BY <2>1 DEF Stack!Next, Stack!Change, Held
<1>3. CASE Levels' = <<(Head(BelowOf(Levels)) \o LengthBytes(Len(Head(Levels)))) \o Head(Levels)>>
                       \o Tail(BelowOf(Levels))
  <2>1. Stack!Below = BelowOf(Levels)
    BY DEF Stack!Below, Stack!Empty, BelowOf
  <2>2. Stack!Ldelim
    BY <1>3, <2>1, Zenon DEF Stack!Ldelim
  <2> QED BY <2>2 DEF Stack!Next, Stack!Change, Held
<1>4. CASE Levels' = BelowOf(Levels)
  <2>1. Stack!Reset
    BY <1>4, Zenon DEF Stack!Reset, Stack!Below, Stack!Empty, BelowOf
  <2> QED BY <2>1 DEF Stack!Next, Stack!Change, Held
<1>5. CASE Levels' = << <<>> >>
  <2>1. Stack!Create
    BY <1>5, Zenon DEF Stack!Create, Stack!Empty
  <2> QED BY <2>1 DEF Stack!Next, Stack!Change, Held
<1> QED BY <1>1, <1>2, <1>3, <1>4, <1>5

LEMMA Finishes ==
  ASSUME ~spoiled, Held' = Append(Held, Head(Levels)), ~spoiled' => Levels' = Levels
  PROVE  Stack!Next
<1>1. Stack!Finish
  BY Zenon DEF Stack!Finish, Held
<1> QED BY <1>1 DEF Stack!Next

LEMMA SpoiledSteps ==
  ASSUME spoiled, ~spoiled' => Levels' = << <<>> >>,
         Len(Held) <= Len(Held'), SubSeq(Held', 1, Len(Held)) = Held
  PROVE  Stack!Next
<1>1. Stack!NoPromise
  BY DEF Stack!NoPromise, Stack!Empty, Held
<1> QED BY <1>1 DEF Stack!Next

-----------------------------------------------------------------------------
LEMMA LevelsAre == Levels = LevelsOf(writer)
BY DEF Levels, LevelsOf, RestOf

LEMMA SameWriter == ASSUME writer' = writer PROVE Levels' = Levels
BY DEF Levels, BytesOf

LEMMA BecomesLevels == ASSUME NEW w, writer' = w PROVE Levels' = LevelsOf(w)
BY DEF Levels, LevelsOf, RestOf, BytesOf

LEMMA HeldNext == ASSUME Inv' PROVE Held' = Given(views')
<1>1. BuffersKeep'
  BY InvKeeps, PTL
<1>2. \A n \in 1 .. Len(views') : Contents(views[n])' = views'[n].bytes
  BY <1>1 DEF BuffersKeep
<1> QED BY <1>2 DEF Held, Given

(* Where finish gives a buffer, it is one more, of the bytes at the top.    *)
LEMMA FinishHeld ==
  ASSUME BothInv, FinishWriter
  PROVE  /\ Len(Held) <= Len(Held') /\ SubSeq(Held', 1, Len(Held)) = Held
         /\ ~spoiled => Held' = Append(Held, Head(Levels))
<1>0. Inv /\ writer \in Writers /\ (~spoiled => Counted(writer)) /\ views \in Seq(Views)
  BY DEF BothInv, WriterInv, Inv, PoolTypeOK
<1>1. writer.ops \in Seq(Operations) /\ writer.len \in Nat
  BY <1>0, WriterParts
<1> DEFINE bytes == Image(writer.ops, writer.len)
<1>2. bytes \in Arrays /\ Allocate(bytes)
  BY <1>1, ImageBytes DEF FinishWriter
<1>3. ~spoiled => bytes = Head(Levels)
  <2> SUFFICES ASSUME ~spoiled PROVE bytes = Head(Levels)
    OBVIOUS
  <2>1. writer.ops \in Seq(ExactOps) /\ writer.len = LengthOf(writer.ops)
    BY <1>0 DEF Counted, Good
  <2>2. bytes = BytesOf(writer.ops)
    BY <2>1, ImageIsBytes
  <2>3. Head(Levels) = BytesOf(writer.ops)
    BY <1>0, LevelsAre, LevelsParts
  <2> QED BY <2>2, <2>3
<1> HIDE DEF bytes
<1>4. PICK v \in Views : v.bytes = bytes /\ views' = Append(views, v)
  BY <1>0, <1>2, Allocated
<1>5. Held = Given(views) /\ Held' = Given(views')
  BY <1>0, <1>2, Allocated, HeldIsGiven, HeldNext
<1>6. Held \in Seq(Arrays) /\ Held' = Append(Held, bytes)
  BY <1>0, <1>4, <1>5, GivenOne
<1> DEFINE a == Held
           b == Held'
<1>7. a \in Seq(Arrays) /\ b = Append(a, bytes)
  BY <1>6
<1> HIDE DEF a, b
<1>8. Len(a) <= Len(b) /\ SubSeq(b, 1, Len(a)) = a
  <2>1. /\ b \in Seq(Arrays) /\ Len(b) = Len(a) + 1 /\ Len(a) \in Nat
        /\ \A i \in 1 .. Len(a) : b[i] = a[i]
    BY <1>2, <1>7
  <2>2. /\ SubSeq(b, 1, Len(a)) \in Seq(Arrays) /\ Len(SubSeq(b, 1, Len(a))) = Len(a)
        /\ \A i \in 1 .. Len(a) : SubSeq(b, 1, Len(a))[i] = b[i]
    BY <2>1
  <2> QED BY <1>7, <2>1, <2>2, SeqEqual
<1> QED BY <1>3, <1>6, <1>8 DEF a, b

LEMMA HeldStays ==
  ASSUME UNCHANGED poolVars
  PROVE  Held' = Held
BY DEF poolVars, Held, Contents

LEMMA HeldBegins ==
  ASSUME BothInv PROVE Len(Held) <= Len(Held) /\ SubSeq(Held, 1, Len(Held)) = Held
<1>1. Held = Given(views) /\ views \in Seq(Views)
  BY HeldIsGiven DEF BothInv, Inv, PoolTypeOK
<1>2. Len(views) \in Nat /\ \A n \in 1 .. Len(views) : views[n].bytes \in Arrays
  <2>1. Len(views) \in Nat /\ \A n \in 1 .. Len(views) : views[n] \in Views
    BY <1>1
  <2> QED BY <2>1 DEF Views
<1> DEFINE a == Held
<1>3. a \in Seq(Arrays)
  BY <1>1, <1>2 DEF Given
<1> HIDE DEF a
<1>4. Len(a) <= Len(a) /\ SubSeq(a, 1, Len(a)) = a
  <2>1. /\ SubSeq(a, 1, Len(a)) \in Seq(Arrays) /\ Len(SubSeq(a, 1, Len(a))) = Len(a) /\ Len(a) \in Nat
        /\ \A i \in 1 .. Len(a) : SubSeq(a, 1, Len(a))[i] = a[i]
    BY <1>3
  <2> QED BY <1>3, <2>1, SeqEqual
<1> QED BY <1>4 DEF a

(* While the promise holds, every step is one that ByteStack allows.       *)
LEMMA PromisedStep ==
  ASSUME BothInv, ~spoiled, WriterNext PROVE Stack!Next
<1>0. writer \in Writers /\ Counted(writer) /\ Levels = LevelsOf(writer)
  BY LevelsAre DEF BothInv, WriterInv
<1>1. ASSUME NEW v \in Values, Call(v) PROVE Stack!Next
  <2> DEFINE more == CallOf(v[1], v[2])
  <2>1. more \in Seq(ExactOps) /\ writer' = Push(writer, more) /\ ~spoiled' /\ UNCHANGED poolVars
    BY <1>1, ExactCall DEF Call
  <2>2. Levels' = LevelsOf(Push(writer, more))
    BY <2>1, BecomesLevels
  <2>3. LevelsOf(Push(writer, more)) = <<Head(LevelsOf(writer)) \o BytesOf(more)>> \o Tail(LevelsOf(writer))
    BY <1>0, <2>1, PushLevels
  <2>4. Levels' = <<Head(Levels) \o BytesOf(CallOf(v[1], v[2]))>> \o Tail(Levels)
    BY <1>0, <2>2, <2>3, Zenon
  <2> QED BY <2>1, <2>4, HeldStays, Changes
<1>2. CASE BeginFork
  <2>1. writer' = Fork(writer) /\ ~spoiled' /\ UNCHANGED poolVars
    BY <1>2 DEF BeginFork
  <2>2. Levels' = LevelsOf(Fork(writer))
    BY <2>1, BecomesLevels
  <2>3. Levels' = << <<>> >> \o Levels
    BY <1>0, <2>2, ForkLevels
  <2> QED BY <2>1, <2>3, HeldStays, Changes
<1>3. CASE EndFork
  <2>1. writer' = Ldelim(writer) /\ ~spoiled' /\ UNCHANGED poolVars
    BY <1>3 DEF EndFork
  <2>2. Levels' = LevelsOf(Ldelim(writer))
    BY <2>1, BecomesLevels
  <2>3. Levels' = <<(Head(BelowOf(Levels)) \o LengthBytes(Len(Head(Levels)))) \o Head(Levels)>>
                  \o Tail(BelowOf(Levels))
    BY <1>0, <2>2, LdelimLevels
  <2> QED BY <2>1, <2>3, HeldStays, Changes
<1>4. CASE Discard
  <2>1. writer' = Reset(writer) /\ ~spoiled' /\ UNCHANGED poolVars
    BY <1>4 DEF Discard
  <2>2. Levels' = LevelsOf(Reset(writer))
    BY <2>1, BecomesLevels
  <2>3. Levels' = BelowOf(Levels)
    BY <1>0, <2>2, ResetLevels
  <2> QED BY <2>1, <2>3, HeldStays, Changes
<1>5. CASE FinishWriter
  <2>1. writer' = Used(writer) /\ spoiled' = (spoiled \/ writer'.ops # writer.ops)
    BY <1>5 DEF FinishWriter
  <2>2. Held' = Append(Held, Head(Levels))
    BY <1>5, FinishHeld
  <2>3. ASSUME ~spoiled' PROVE Levels' = Levels
    <3>1. Used(writer).ops = writer.ops /\ Used(writer).states = writer.states
      BY <1>0, <2>1, <2>3, UsedParts
    <3>2. LevelsOf(Used(writer)) = LevelsOf(writer)
      BY <3>1 DEF LevelsOf
    <3> QED BY <1>0, <2>1, <3>2, BecomesLevels
  <2> QED BY <2>2, <2>3, Finishes
<1>6. CASE CreateNew
  <2>1. writer' = NewWriter /\ ~spoiled' /\ UNCHANGED poolVars
    BY <1>6 DEF CreateNew
  <2>2. Levels' = << <<>> >>
    BY <2>1, BecomesLevels, NoLevels
  <2> QED BY <2>1, <2>2, HeldStays, Changes
<1> QED BY <1>1, <1>2, <1>3, <1>4, <1>5, <1>6 DEF WriterNext

(* When finish has taken it back, only an empty writer restores it.        *)
LEMMA SpoiledStep ==
  ASSUME BothInv, spoiled, WriterNext PROVE Stack!Next
<1>1. CASE FinishWriter
  <2>1. spoiled'
    BY <1>1 DEF FinishWriter
  <2> QED BY <1>1, <2>1, FinishHeld, SpoiledSteps
<1>2. CASE ~FinishWriter
  <2>1. UNCHANGED poolVars
    BY <1>2 DEF WriterNext, Call, BeginFork, EndFork, Discard, CreateNew
  <2>2. Held' = Held
    BY <2>1, HeldStays
  <2>3. ASSUME ~spoiled' PROVE Levels' = << <<>> >>
    <3>1. CASE Discard
      <4>1. writer' = Reset(writer) /\ writer.states = <<>> /\ writer \in Writers
        BY <2>3, <3>1 DEF Discard, BothInv, WriterInv
      <4>2. Reset(writer).ops = <<>> /\ Reset(writer).states = <<>>
        BY <4>1, ResetParts
      <4>3. LevelsOf(Reset(writer)) = LevelsOf(NewWriter)
        BY <4>2 DEF LevelsOf, NewWriter
      <4> QED BY <4>1, <4>3, BecomesLevels, NoLevels
    <3>2. CASE CreateNew
      <4>1. writer' = NewWriter
        BY <3>2 DEF CreateNew
      <4> QED BY <4>1, BecomesLevels, NoLevels
    <3> QED BY <1>2, <2>3, <3>1, <3>2 DEF WriterNext, Call, BeginFork, EndFork
  <2> QED BY <2>2, <2>3, HeldBegins, SpoiledSteps
<1> QED BY <1>1, <1>2

LEMMA PromiseNext == ASSUME BothInv, [WriterNext]_writerVars PROVE [Stack!Next]_Stack!vars
<1>1. CASE WriterNext
  <2>1. spoiled \in BOOLEAN
    BY DEF BothInv, WriterInv
  <2>2. Stack!Next
    BY <1>1, <2>1, PromisedStep, SpoiledStep
  <2> QED BY <2>2
<1>2. CASE UNCHANGED writerVars
  <2>1. writer' = writer /\ spoiled' = spoiled /\ UNCHANGED poolVars
    BY <1>2 DEF writerVars
  <2>2. Levels' = Levels /\ Held' = Held
    BY <2>1, SameWriter, HeldStays
  <2> QED BY <2>1, <2>2 DEF Stack!vars, Held
<1> QED BY <1>1, <1>2

(* The writer, with the pool its buffers are from, does what ByteStack      *)
(* promises: whatever is called in whatever order, the bytes of the calls,  *)
(* those of a fork behind their number, and buffers of just these bytes,    *)
(* which stay.                                                             *)
THEOREM WriterKeepsPromise == WriterSpec => Promise
<1>1. WriterSpec => []BothInv
  BY BothInvInit, BothInvNext, PTL DEF WriterSpec
<1>2. BothInv /\ [WriterNext]_writerVars => [Stack!Next]_Stack!vars
  BY PromiseNext
<1> QED BY <1>1, <1>2, PromiseInit, PTL DEF WriterSpec, Promise, Stack!Spec

-----------------------------------------------------------------------------
(* Reading texts: the characters as numbers.                               *)
LEMMA TwoBytes ==
  ASSUME NEW c \in Septet .. Unit2 - 1, NEW t, t = Lead2 + c \div Trail
  PROVE  /\ t >= Septet /\ t >= Lead2 /\ t < Lead3
         /\ (t % (Trail \div 2)) * Trail + (Trailing(c) % Trail) = c
<1>1. CASE Septet = 32
  BY <1>1, Septet32Or128 DEF Trailing
<1>2. CASE Septet = 128
  BY <1>2, Septet32Or128 DEF Trailing
<1> QED BY <1>1, <1>2, Septet32Or128

LEMMA ThreeBytes ==
  ASSUME NEW c \in Unit2 .. Unit3 - 1, NEW t, t = Lead3 + c \div (Trail * Trail)
  PROVE  /\ t >= Septet /\ ~(t >= Lead2 /\ t < Lead3) /\ ~(t >= Lead4)
         /\ (t % (Trail \div 4)) * Trail * Trail + (Trailing(c \div Trail) % Trail) * Trail
              + (Trailing(c) % Trail) = c
<1>1. CASE Septet = 32
  BY <1>1, Septet32Or128 DEF Trailing
<1>2. CASE Septet = 128
  BY <1>2, Septet32Or128 DEF Trailing
<1> QED BY <1>1, <1>2, Septet32Or128

LEMMA FourBytes ==
  ASSUME NEW c \in 0 .. Unit3 - 1, NEW d \in 0 .. Unit3 - 1, High(c), Low(d),
         NEW p, p = Unit3 + (c % Block) * Block + (d % Block),
         NEW t, t = Lead4 + p \div (Trail * Trail * Trail),
         NEW q, q = (t % (Trail \div 8)) * Trail * Trail * Trail
                      + (Trailing(p \div (Trail * Trail)) % Trail) * Trail * Trail
                      + (Trailing(p \div Trail) % Trail) * Trail + (Trailing(p) % Trail) - Unit3
  PROVE  /\ t >= Septet /\ ~(t >= Lead2 /\ t < Lead3) /\ t >= Lead4
         /\ (54 * Block + q \div Block) % Unit3 = c /\ 55 * Block + (q % Block) = d
<1>1. CASE Septet = 32
  BY <1>1, Septet32Or128 DEF Trailing, High, Low
<1>2. CASE Septet = 128
  BY <1>2, Septet32Or128 DEF Trailing, High, Low
<1> QED BY <1>1, <1>2, Septet32Or128

-----------------------------------------------------------------------------
(* Where the bytes of a unit are.                                          *)
PartsOf(s) == [i \in 1 .. Len(s) |-> UnitBytes(s, i)]
Starts(s, k) == Len(FlattenSeq(SubSeq(PartsOf(s), 1, k)))

LEMMA TextParts ==
  ASSUME NEW s \in Texts
  PROVE  /\ PartsOf(s) \in Seq(Seq(Octets)) /\ Len(PartsOf(s)) = Len(s) /\ Len(s) \in Nat
         /\ \A i \in 1 .. Len(s) : PartsOf(s)[i] = UnitBytes(s, i)
         /\ Utf8Write(s) = FlattenSeq(PartsOf(s))
<1>1. Len(s) \in Nat
  BY DEF Texts
<1>2. \A i \in 1 .. Len(s) : UnitBytes(s, i) \in Seq(Octets)
  BY UnitCounted DEF Buffers
<1> QED BY <1>1, <1>2 DEF PartsOf, Utf8Write

LEMMA JoinedParts ==
  ASSUME NEW T, NEW ss \in Seq(Seq(T)), NEW k \in 0 .. Len(ss)
  PROVE  /\ FlattenSeq(SubSeq(ss, 1, k)) \in Seq(T)
         /\ FlattenSeq(SubSeq(ss, k + 1, Len(ss))) \in Seq(T)
         /\ FlattenSeq(ss) = FlattenSeq(SubSeq(ss, 1, k)) \o FlattenSeq(SubSeq(ss, k + 1, Len(ss)))
<1> DEFINE a == SubSeq(ss, 1, k)
           b == SubSeq(ss, k + 1, Len(ss))
<1>1. a \in Seq(Seq(T)) /\ b \in Seq(Seq(T)) /\ ss = a \o b
  <2> DEFINE U == Seq(T)
  <2>1. ss \in Seq(U)
    OBVIOUS
  <2> HIDE DEF U
  <2>2. a \in Seq(U) /\ b \in Seq(U) /\ ss = a \o b
    BY <2>1, Beginning
  <2> QED BY <2>2 DEF U
<1> HIDE DEF a, b
<1>2. FlattenSeq(a \o b) = FlattenSeq(a) \o FlattenSeq(b)
  BY <1>1, FlattenJoined
<1>3. FlattenSeq(a) \in Seq(T) /\ FlattenSeq(b) \in Seq(T)
  <2>1. <<>> \in Seq(T)
    OBVIOUS
  <2> QED BY <1>1, <2>1, FlattenNext
<1> QED BY <1>1, <1>2, <1>3 DEF a, b

LEMMA UnitAt ==
  ASSUME NEW s \in Texts, NEW k \in 0 .. Len(s), k < Len(s)
  PROVE  /\ Starts(s, k) \in Nat /\ Starts(s, k + 1) = Starts(s, k) + UnitLength(s, k + 1)
         /\ Starts(s, k + 1) <= Len(Utf8Write(s))
         /\ \A j \in 1 .. UnitLength(s, k + 1) :
              Utf8Write(s)[Starts(s, k) + j] = UnitBytes(s, k + 1)[j]
<1> DEFINE parts == PartsOf(s)
           begin == FlattenSeq(SubSeq(parts, 1, k))
           more == FlattenSeq(SubSeq(parts, 1, k + 1))
           rest == FlattenSeq(SubSeq(parts, k + 2, Len(parts)))
           bytes == UnitBytes(s, k + 1)
           U == Seq(Octets)
<1>1. /\ parts \in Seq(U) /\ Len(parts) = Len(s) /\ Len(s) \in Nat
      /\ k + 1 \in 1 .. Len(s) /\ k + 1 \in 0 .. Len(parts) /\ k \in 0 .. Len(parts) /\ k \in Nat
      /\ parts[k + 1] = bytes /\ Utf8Write(s) = FlattenSeq(parts)
  BY TextParts
<1>2. bytes \in Seq(Octets) /\ Len(bytes) = UnitLength(s, k + 1) /\ Len(bytes) \in Nat
  BY <1>1, UnitCounted DEF Buffers
<1>3. /\ SubSeq(parts, 1, k + 1) = Append(SubSeq(parts, 1, k), bytes)
      /\ SubSeq(parts, 1, k) \in Seq(U)
  <2> HIDE DEF U, parts, bytes
  <2> QED BY <1>1, Beginning
<1>4. more = begin \o bytes /\ begin \in Seq(Octets)
  <2>1. bytes \in U
    BY <1>2
  <2> HIDE DEF parts, bytes
  <2>2. /\ FlattenSeq(Append(SubSeq(parts, 1, k), bytes)) = FlattenSeq(SubSeq(parts, 1, k)) \o bytes
        /\ FlattenSeq(SubSeq(parts, 1, k)) \in Seq(Octets)
    BY <1>2, <1>3, FlattenNext
  <2> QED BY <1>3, <2>2
<1>5. Utf8Write(s) = more \o rest /\ more \in Seq(Octets) /\ rest \in Seq(Octets)
  <2> HIDE DEF parts
  <2>1. (k + 1) + 1 = k + 2
    BY <1>1
  <2>2. /\ FlattenSeq(parts) = more \o FlattenSeq(SubSeq(parts, (k + 1) + 1, Len(parts)))
        /\ more \in Seq(Octets) /\ FlattenSeq(SubSeq(parts, (k + 1) + 1, Len(parts))) \in Seq(Octets)
    BY <1>1, JoinedParts
  <2> QED BY <1>1, <2>1, <2>2
<1>6. Starts(s, k) = Len(begin) /\ Starts(s, k + 1) = Len(more)
  BY DEF Starts
<1> HIDE DEF parts, begin, more, rest, bytes
<1>7. /\ Len(begin) \in Nat /\ Len(begin \o bytes) = Len(begin) + Len(bytes)
      /\ \A j \in 1 .. Len(bytes) : (begin \o bytes)[Len(begin) + j] = bytes[j]
  BY <1>2, <1>4
<1>8. /\ Len(more) <= Len(more \o rest)
      /\ \A j \in 1 .. Len(more) : (more \o rest)[j] = more[j]
  BY <1>5
<1>9. ASSUME NEW j \in 1 .. Len(bytes) PROVE Utf8Write(s)[Len(begin) + j] = bytes[j]
  <2>1. Len(begin) + j \in 1 .. Len(more)
    BY <1>2, <1>4, <1>7
  <2>2. (more \o rest)[Len(begin) + j] = more[Len(begin) + j]
    BY <1>8, <2>1
  <2> QED BY <1>4, <1>5, <1>7, <2>2
<1> QED BY <1>2, <1>4, <1>5, <1>6, <1>7, <1>8, <1>9 DEF bytes

LEMMA StartsAt ==
  ASSUME NEW s \in Texts PROVE Starts(s, 0) = 0 /\ Starts(s, Len(s)) = Len(Utf8Write(s))
<1>1. PartsOf(s) \in Seq(Seq(Octets)) /\ Len(PartsOf(s)) = Len(s)
  BY TextParts
<1>2. SubSeq(PartsOf(s), 1, 0) = <<>>
  BY <1>1
<1>3. SubSeq(PartsOf(s), 1, Len(s)) = PartsOf(s)
  BY <1>1, SubSeqFull
<1>4. Starts(s, 0) = 0
  <2>1. Len(<<>>) = 0
    OBVIOUS
  <2> QED BY <1>2, <2>1, FlattenEmpty DEF Starts
<1>5. Starts(s, Len(s)) = Len(Utf8Write(s))
  BY <1>3, TextParts DEF Starts
<1> QED BY <1>4, <1>5

(* The bytes of a unit, or of a pair, make one character.                  *)
LEMMA CharacterAt ==
  ASSUME NEW s \in Texts, NEW k \in 0 .. Len(s), k < Len(s), ~Pair(s, k),
         NEW b \in Buffers, NEW at \in Nat, at + UnitLength(s, k + 1) <= Len(b),
         \A j \in 1 .. UnitLength(s, k + 1) : b[at + j] = UnitBytes(s, k + 1)[j]
  PROVE  /\ Width(b[at + 1]) = UnitLength(s, k + 1)
         /\ Character(b, at + 1) = IF Pair(s, k + 1) THEN <<s[k + 1], s[k + 2]>> ELSE <<s[k + 1]>>
<1> DEFINE c == s[k + 1]
           d == s[k + 2]
           p == Unit3 + (c % Block) * Block + (d % Block)
           n == UnitLength(s, k + 1)
           bytes == UnitBytes(s, k + 1)
           t == b[at + 1]
<1>0. /\ Len(s) \in Nat /\ c \in 0 .. Unit3 - 1 /\ (k + 1) - 1 = k /\ (k + 1) + 1 = k + 2
      /\ Len(b) \in Nat /\ k + 1 \in 1 .. Len(s) /\ t \in Nat /\ n \in Nat
      /\ (Pair(s, k + 1) => d \in 0 .. Unit3 - 1 /\ High(c) /\ Low(d))
  <2> DEFINE Units == 0 .. Unit3 - 1
  <2>1. s \in Seq(Units) /\ b \in Seq(Octets)
    BY DEF Texts, Buffers
  <2> HIDE DEF Units
  <2>2. /\ Len(s) \in Nat /\ Len(b) \in Nat /\ \A j \in 1 .. Len(s) : s[j] \in Units
        /\ (k + 1) - 1 = k /\ (k + 1) + 1 = k + 2 /\ k + 1 \in 1 .. Len(s)
    BY <2>1
  <2>4. n \in Nat /\ n >= 1
    BY <2>2 DEF UnitLength
  <2>5. t \in Nat
    <3>1. at + 1 \in 1 .. Len(b)
      BY <2>2, <2>4
    <3> QED BY <2>1, <3>1, WordSizes DEF Octets
  <2>3. Pair(s, k + 1) => k + 2 \in 1 .. Len(s) /\ High(c) /\ Low(d)
    BY <2>2 DEF Pair
  <2> QED BY <2>2, <2>3, <2>4, <2>5 DEF Units
<1>1. /\ Septet \in Nat /\ Trail \in Nat \ {0} /\ Block \in Nat \ {0} /\ Unit3 \in Nat
      /\ Lead2 \in Nat /\ Lead3 \in Nat /\ Lead4 \in Nat
      /\ Septet < Lead2 /\ Lead2 < Lead3 /\ Lead3 < Lead4
      /\ Unit2 \in Nat /\ Septet < Unit2 /\ Unit2 < Unit3
  BY Septet32Or128, SMTT(30)
<1>2. CASE Pair(s, k + 1)
  <2> DEFINE q == (t % (Trail \div 8)) * Trail * Trail * Trail
                    + (Trailing(p \div (Trail * Trail)) % Trail) * Trail * Trail
                    + (Trailing(p \div Trail) % Trail) * Trail + (Trailing(p) % Trail) - Unit3
  <2>1. n = 4
    BY <1>0, <1>2 DEF UnitLength
  <2>2. bytes = <<Lead4 + p \div (Trail * Trail * Trail), Trailing(p \div (Trail * Trail)),
                  Trailing(p \div Trail), Trailing(p)>>
    BY <1>0, <1>2 DEF UnitBytes
  <2>3. /\ t = Lead4 + p \div (Trail * Trail * Trail)
        /\ b[(at + 1) + 1] = Trailing(p \div (Trail * Trail))
        /\ b[(at + 1) + 2] = Trailing(p \div Trail)
        /\ b[(at + 1) + 3] = Trailing(p)
        /\ (at + 1) + 1 <= Len(b) /\ (at + 1) + 2 <= Len(b) /\ (at + 1) + 3 <= Len(b)
    <3>1. t = bytes[1] /\ b[at + 2] = bytes[2] /\ b[at + 3] = bytes[3] /\ b[at + 4] = bytes[4]
      <4> HIDE DEF bytes, n
      <4>1. 1 \in 1 .. n /\ 2 \in 1 .. n /\ 3 \in 1 .. n /\ 4 \in 1 .. n
        BY <2>1
      <4> QED BY <4>1 DEF bytes, n
    <3>2. (at + 1) + 1 = at + 2 /\ (at + 1) + 2 = at + 3 /\ (at + 1) + 3 = at + 4
      OBVIOUS
    <3>3. at + 4 <= Len(b)
      BY <2>1
    <3> DEFINE x == Lead4 + p \div (Trail * Trail * Trail)
               y == Trailing(p \div (Trail * Trail))
               z == Trailing(p \div Trail)
               w == Trailing(p)
    <3>4. bytes = <<x, y, z, w>>
      BY <2>2
    <3> HIDE DEF bytes, x, y, z, w, n
    <3>5. bytes[1] = x /\ bytes[2] = y /\ bytes[3] = z /\ bytes[4] = w
      BY <3>4
    <3> QED BY <1>0, <3>1, <3>2, <3>3, <3>5 DEF x, y, z, w
  <2>4. /\ t >= Septet /\ ~(t >= Lead2 /\ t < Lead3) /\ t >= Lead4
        /\ (54 * Block + q \div Block) % Unit3 = c /\ 55 * Block + (q % Block) = d
    <3> HIDE DEF c, d
    <3>1. c \in 0 .. Unit3 - 1 /\ d \in 0 .. Unit3 - 1 /\ High(c) /\ Low(d)
      BY <1>0, <1>2
    <3> HIDE DEF p, t
    <3>2. p = Unit3 + (c % Block) * Block + (d % Block)
      BY DEF p
    <3> HIDE DEF q
    <3>3. q = (t % (Trail \div 8)) * Trail * Trail * Trail
                    + (Trailing(p \div (Trail * Trail)) % Trail) * Trail * Trail
                    + (Trailing(p \div Trail) % Trail) * Trail + (Trailing(p) % Trail) - Unit3
      BY DEF q
    <3> QED BY <2>3, <3>1, <3>2, <3>3, FourBytes
  <2>5. ~(t < Septet)
    <3>1. t >= Septet
      BY <2>4
    <3> HIDE DEF t
    <3> QED BY <1>0, <1>1, <3>1
  <2>6. Width(t) = 4
    BY <2>4, <2>5 DEF Width
  <2>7. Character(b, at + 1) = <<(54 * Block + q \div Block) % Unit3, 55 * Block + (q % Block)>>
    <3> HIDE DEF p
    <3> QED BY <2>3, <2>4, <2>5, Zenon DEF Character
  <2> HIDE DEF p, q
  <2> QED BY <1>2, <2>1, <2>4, <2>6, <2>7
<1>3. CASE ~Pair(s, k + 1) /\ c < Septet
  <2>1. n = 1 /\ bytes = <<c>>
    BY <1>0, <1>3 DEF UnitLength, UnitBytes
  <2>2. t = c
    <3>1. 1 \in 1 .. n
      BY <2>1
    <3>2. t = bytes[1]
      BY <3>1
    <3> QED BY <2>1, <3>2
  <2>3. Width(t) = 1
    BY <1>3, <2>2 DEF Width
  <2>4. Character(b, at + 1) = <<t>>
    <3>1. t < Septet
      BY <1>3, <2>2
    <3> HIDE DEF c
    <3>2. ~(t >= Lead2) /\ ~(t >= Lead4)
      <4>1. t \in Nat
        BY <1>0
      <4> HIDE DEF t, c, n, bytes
      <4>2. \A x \in Nat : x < Septet => ~(x >= Lead2) /\ ~(x >= Lead4)
        BY <1>1
      <4> QED BY <3>1, <4>1, <4>2
    <3> QED BY <3>1, <3>2, Zenon DEF Character
  <2> QED BY <1>3, <2>1, <2>2, <2>3, <2>4
<1>4. CASE ~Pair(s, k + 1) /\ ~(c < Septet) /\ c < Unit2
  <2> DEFINE x == Lead2 + c \div Trail
  <2>1. n = 2 /\ bytes = <<x, Trailing(c)>>
    BY <1>0, <1>4 DEF UnitLength, UnitBytes
  <2>2. t = x /\ b[(at + 1) + 1] = Trailing(c) /\ (at + 1) + 1 <= Len(b)
    <3> DEFINE y == Trailing(c)
    <3>0. bytes = <<x, y>>
      BY <2>1
    <3> HIDE DEF x, y
    <3>1. t = bytes[1] /\ b[at + 2] = bytes[2] /\ at + 2 <= Len(b)
      <4> HIDE DEF bytes, n
      <4>1. 1 \in 1 .. n /\ 2 \in 1 .. n
        BY <2>1
      <4> QED BY <2>1, <4>1 DEF bytes, n
    <3>2. (at + 1) + 1 = at + 2
      OBVIOUS
    <3> HIDE DEF bytes
    <3>3. bytes[1] = x /\ bytes[2] = y
      BY <3>0
    <3> QED BY <3>1, <3>2, <3>3 DEF y
  <2>3. /\ t >= Septet /\ t >= Lead2 /\ t < Lead3
        /\ (t % (Trail \div 2)) * Trail + (Trailing(c) % Trail) = c
    <3>1. c \in Septet .. Unit2 - 1
      BY <1>0, <1>1, <1>4
    <3> HIDE DEF c, t
    <3> QED BY <2>2, <3>1, TwoBytes
  <2>4. t >= Septet /\ t >= Lead2 /\ t < Lead3 /\ ~(t < Septet) /\ ~(t >= Lead4)
    <3>1. t >= Septet /\ t >= Lead2 /\ t < Lead3
      BY <2>3
    <3> HIDE DEF t
    <3> QED BY <1>0, <1>1, <3>1
  <2>5. Width(t) = 2
    BY <2>4 DEF Width
  <2>6. Character(b, at + 1) = <<(t % (Trail \div 2)) * Trail + (Trailing(c) % Trail)>>
    BY <2>2, <2>4, Zenon DEF Character
  <2> QED BY <1>4, <2>1, <2>3, <2>5, <2>6
<1>5. CASE ~Pair(s, k + 1) /\ ~(c < Septet) /\ ~(c < Unit2)
  <2> DEFINE x == Lead3 + c \div (Trail * Trail)
             y == Trailing(c \div Trail)
             z == Trailing(c)
  <2>1. n = 3 /\ bytes = <<x, y, z>>
    BY <1>0, <1>5 DEF UnitLength, UnitBytes
  <2>2. /\ t = x /\ b[(at + 1) + 1] = y /\ b[(at + 1) + 2] = z
        /\ (at + 1) + 1 <= Len(b) /\ (at + 1) + 2 <= Len(b)
    <3> HIDE DEF x, y, z
    <3>1. t = bytes[1] /\ b[at + 2] = bytes[2] /\ b[at + 3] = bytes[3] /\ at + 3 <= Len(b)
      <4> HIDE DEF bytes, n
      <4>1. 1 \in 1 .. n /\ 2 \in 1 .. n /\ 3 \in 1 .. n
        BY <2>1
      <4> QED BY <2>1, <4>1 DEF bytes, n
    <3>2. (at + 1) + 1 = at + 2 /\ (at + 1) + 2 = at + 3
      OBVIOUS
    <3> HIDE DEF bytes
    <3>3. bytes[1] = x /\ bytes[2] = y /\ bytes[3] = z
      BY <2>1 DEF bytes
    <3> QED BY <1>0, <3>1, <3>2, <3>3
  <2>3. /\ t >= Septet /\ ~(t >= Lead2 /\ t < Lead3) /\ ~(t >= Lead4)
        /\ (t % (Trail \div 4)) * Trail * Trail + (y % Trail) * Trail + (z % Trail) = c
    <3>1. c \in Unit2 .. Unit3 - 1
      BY <1>0, <1>1, <1>5
    <3> HIDE DEF c, t
    <3> QED BY <2>2, <3>1, ThreeBytes
  <2>4. t >= Septet /\ ~(t >= Lead2 /\ t < Lead3) /\ ~(t >= Lead4) /\ ~(t < Septet)
    <3>1. t >= Septet /\ ~(t >= Lead2 /\ t < Lead3) /\ ~(t >= Lead4)
      BY <2>3
    <3> HIDE DEF t
    <3> QED BY <1>0, <1>1, <3>1
  <2>5. Width(t) = 3
    BY <2>4 DEF Width
  <2>6. Character(b, at + 1) = <<(t % (Trail \div 4)) * Trail * Trail + (y % Trail) * Trail + (z % Trail)>>
    <3> HIDE DEF y, z, x
    <3> QED BY <2>2, <2>4, Zenon DEF Character
  <2> QED BY <1>5, <2>1, <2>3, <2>5, <2>6
<1> QED BY <1>2, <1>3, <1>4, <1>5

-----------------------------------------------------------------------------
(* The chunks.                                                             *)

\* The first units of a chunk replaced.
LEMMA FrontReplaced ==
  ASSUME NEW T, NEW ac \in Seq(T), NEW chunk \in Seq(T), 
         NEW x, x = ac \o SubSeq(chunk, Len(ac) + 1, Len(chunk))
  PROVE  /\ x \in Seq(T) /\ SubSeq(x, 1, Len(ac)) = ac
         /\ Len(ac) >= Len(chunk) => x = ac
         /\ ~(Len(ac) >= Len(chunk)) => Len(x) = Len(chunk)
<1> DEFINE n == Len(ac)
           z == SubSeq(chunk, n + 1, Len(chunk))
<1>1. Len(chunk) \in Nat /\ n \in Nat /\ Len(ac) = n
  OBVIOUS
<1>2. \A i \in n + 1 .. Len(chunk) : chunk[i] \in T
  BY <1>1
<1>3. z \in Seq(T) /\ Len(z) = IF n + 1 <= Len(chunk) THEN Len(chunk) - (n + 1) + 1 ELSE 0
  <2>1. n + 1 \in Int /\ Len(chunk) \in Int
    BY <1>1
  <2> QED BY <1>2, <2>1, SubSeqProperties
<1>4. n >= Len(chunk) => z = <<>>
  BY <1>1, SubSeqEmpty
<1>5. x = ac \o z
  OBVIOUS
<1> HIDE DEF z
<1>6. /\ x \in Seq(T) /\ Len(x) = n + Len(z)
      /\ \A j \in 1 .. n + Len(z) : x[j] = IF j <= n THEN ac[j] ELSE z[j - n]
  BY <1>1, <1>3, <1>5, ConcatProperties
<1>7. \A j \in 1 .. n : x[j] = ac[j] /\ x[j] \in T
  BY <1>1, <1>3, <1>6
<1>8. /\ SubSeq(x, 1, n) \in Seq(T) /\ Len(SubSeq(x, 1, n)) = n
      /\ \A j \in 1 .. n : SubSeq(x, 1, n)[j] = x[j]
  <2>1. 1 \in Int /\ n \in Int
    BY <1>1
  <2>2. /\ SubSeq(x, 1, n) \in Seq(T) /\ Len(SubSeq(x, 1, n)) = IF 1 <= n THEN n - 1 + 1 ELSE 0
        /\ \A j \in 1 .. n - 1 + 1 : SubSeq(x, 1, n)[j] = x[1 + j - 1]
    BY <1>7, <2>1, SubSeqProperties
  <2> QED BY <1>1, <2>2
<1>9. SubSeq(x, 1, n) = ac
  BY <1>1, <1>7, <1>8, SeqEqual
<1>10. n >= Len(chunk) => x = ac
  BY <1>4, <1>5, ConcatEmptySeq
<1> QED BY <1>1, <1>3, <1>6, <1>9, <1>10

LEMMA Associative ==
  ASSUME NEW T PROVE \A a, b, c \in Seq(T) : (a \o b) \o c = a \o (b \o c)
BY ConcatAssociative, SMTT(30)

\* The text grows by the character, whether the chunk is taken or not.
LEMMA Grown ==
  ASSUME NEW T, NEW text \in Seq(T), NEW a \in Seq(T), NEW c \in Seq(T)
  PROVE  /\ a \o c \in Seq(T) /\ Len(a \o c) = Len(a) + Len(c) /\ text \o (a \o c) = (text \o a) \o c
         /\ text \o (a \o c) \in Seq(T) /\ Len(text \o (a \o c)) = Len(text) + Len(a \o c)
<1>1. a \o c \in Seq(T) /\ Len(a \o c) = Len(a) + Len(c)
  OBVIOUS
<1>2. text \o (a \o c) = (text \o a) \o c
  BY Associative
<1>3. ASSUME NEW ac \in Seq(T)
      PROVE  text \o ac \in Seq(T) /\ Len(text \o ac) = Len(text) + Len(ac)
  OBVIOUS
<1> QED BY <1>1, <1>2, <1>3

-----------------------------------------------------------------------------
Units == 0 .. Unit3 - 1

\* The chunk and the text taken hold k units of s.
Collected(s, chunk, filled, text, k) ==
  /\ chunk \in Seq(Units) /\ text \in Seq(Units)
  /\ filled \in 0 .. Len(chunk) /\ filled < Chunk
  /\ text \o SubSeq(chunk, 1, filled) = SubSeq(s, 1, k)
  /\ Len(text) + filled = k
  /\ Len(chunk) <= Chunk \/ (Len(s) <= 2 * Chunk /\ Len(chunk) = Chunk + 1 /\ Len(text) >= Chunk + 1)

LEMMA Joining ==
  /\ \A a, c \in Seq(Units) : a \o c \in Seq(Units)
  /\ \A a, c \in Seq(Units) : Len(a \o c) = Len(a) + Len(c)
  /\ \A text, a, c \in Seq(Units) : text \o (a \o c) = (text \o a) \o c
<1>1. ASSUME NEW T
      PROVE  /\ \A a, c \in Seq(T) : a \o c \in Seq(T)
             /\ \A a, c \in Seq(T) : Len(a \o c) = Len(a) + Len(c)
             /\ \A text, a, c \in Seq(T) : text \o (a \o c) = (text \o a) \o c
  BY Grown
<1> QED BY <1>1

LEMMA Replacing ==
  \A ac, chunk \in Seq(Units) :
    LET x == ac \o SubSeq(chunk, Len(ac) + 1, Len(chunk))
    IN /\ x \in Seq(Units) /\ SubSeq(x, 1, Len(ac)) = ac
       /\ Len(ac) >= Len(chunk) => x = ac
       /\ ~(Len(ac) >= Len(chunk)) => Len(x) = Len(chunk)
<1>1. ASSUME NEW T, NEW ac \in Seq(T), NEW chunk \in Seq(T)
      PROVE  LET x == ac \o SubSeq(chunk, Len(ac) + 1, Len(chunk))
             IN /\ x \in Seq(T) /\ SubSeq(x, 1, Len(ac)) = ac
                /\ Len(ac) >= Len(chunk) => x = ac
                /\ ~(Len(ac) >= Len(chunk)) => Len(x) = Len(chunk)
  <2>1. PICK x : x = ac \o SubSeq(chunk, Len(ac) + 1, Len(chunk))
    OBVIOUS
  <2>2. /\ x \in Seq(T) /\ SubSeq(x, 1, Len(ac)) = ac
        /\ Len(ac) >= Len(chunk) => x = ac
        /\ ~(Len(ac) >= Len(chunk)) => Len(x) = Len(chunk)
    BY <2>1, FrontReplaced
  <2> QED BY <2>1, <2>2, Zenon
<1> QED BY <1>1, Zenon

LEMMA Collects ==
  ASSUME NEW s \in Texts, NEW k \in Nat, NEW chunk, NEW filled, NEW text,
         Collected(s, chunk, filled, text, k),
         NEW c \in Seq(Units), Len(c) \in 1 .. 2, Len(c) = 1 \/ Len(s) <= 2 * Chunk,
         k + Len(c) <= Len(s), NEW m, m = k + Len(c), SubSeq(s, 1, m) = SubSeq(s, 1, k) \o c,
         NEW end, end = filled + Len(c)
  PROVE  \A x : x = (SubSeq(chunk, 1, filled) \o c) \o SubSeq(chunk, end + 1, Len(chunk)) =>
           IF end >= Chunk THEN Collected(s, x, 0, text \o x, m) ELSE Collected(s, x, end, text, m)
<1> DEFINE a == SubSeq(chunk, 1, filled)
           ac == a \o c
<1>1. /\ chunk \in Seq(Units) /\ text \in Seq(Units) /\ filled \in 0 .. Len(chunk) /\ filled < Chunk
      /\ text \o a = SubSeq(s, 1, k) /\ Len(text) + filled = k
      /\ Len(chunk) <= Chunk \/ (Len(s) <= 2 * Chunk /\ Len(chunk) = Chunk + 1 /\ Len(text) >= Chunk + 1)
  BY DEF Collected
<1>2. a \in Seq(Units) /\ Len(a) = filled
  BY <1>1, Beginning
<1>3. /\ Len(chunk) \in Nat /\ filled \in Nat /\ filled <= Len(chunk) /\ Len(text) \in Nat
      /\ Len(s) \in Nat /\ Len(c) \in Nat
  BY <1>1 DEF Texts
<1> HIDE DEF a
<1>4. /\ ac \in Seq(Units) /\ Len(ac) = Len(a) + Len(c) /\ text \o ac = (text \o a) \o c
      /\ text \o ac \in Seq(Units) /\ Len(text \o ac) = Len(text) + Len(ac)
  <2>1. ac \in Seq(Units) /\ Len(ac) = Len(a) + Len(c) /\ text \o ac = (text \o a) \o c
    BY <1>1, <1>2, Joining, Zenon
  <2> HIDE DEF ac
  <2>2. text \o ac \in Seq(Units) /\ Len(text \o ac) = Len(text) + Len(ac)
    BY <1>1, <2>1, Joining, Zenon
  <2> QED BY <2>1, <2>2
<1>5. text \o ac = SubSeq(s, 1, m)
  BY <1>1, <1>4, Zenon
<1> DEFINE lac == Len(ac)
           both == Len(text \o ac)
<1>6. lac = Len(a) + Len(c) /\ both = Len(text) + lac
  BY <1>4, Zenon
<1> HIDE DEF ac, lac, both
<1>7. lac = end /\ end \in Nat /\ both = m /\ Len(text) + end = m
  BY <1>1, <1>2, <1>3, <1>6
<1>71. Len(ac) = end /\ Len(text \o ac) = m
  BY <1>7 DEF lac, both
<1>72. /\ end >= Chunk =>
            /\ end >= Len(chunk)
            /\ end <= Chunk \/ (Len(s) <= 2 * Chunk /\ end = Chunk + 1 /\ m >= Chunk + 1)
       /\ ~(end >= Chunk) =>
            IF end >= Len(chunk) THEN end <= Chunk
            ELSE Len(chunk) <= Chunk \/ (Len(s) <= 2 * Chunk /\ Len(chunk) = Chunk + 1 /\ Len(text) >= Chunk + 1)
  <2>1. Len(text) + filled + Len(c) <= Len(s) /\ m = Len(text) + filled + Len(c)
    BY <1>1, <1>3
  <2> DEFINE l == Len(chunk)
             t == Len(text)
             n == Len(c)
             size == Len(s)
  <2>2. /\ l \in Nat /\ t \in Nat /\ size \in Nat /\ n \in 1 .. 2
        /\ n = 1 \/ size <= 2 * Chunk
        /\ l <= Chunk \/ (size <= 2 * Chunk /\ l = Chunk + 1 /\ t >= Chunk + 1)
        /\ t + filled + n <= size /\ m = t + filled + n /\ end = filled + n
        /\ filled <= l /\ filled \in Nat /\ filled < Chunk
    BY <1>1, <1>3, <2>1
  <2> HIDE DEF l, t, n, size
  <2>3. ASSUME end >= Chunk
        PROVE  end >= l /\ (end <= Chunk \/ (size <= 2 * Chunk /\ end = Chunk + 1 /\ m >= Chunk + 1))
    BY <2>2, <2>3, ChunkAssumption
  <2>4. ASSUME ~(end >= Chunk)
        PROVE  IF end >= l THEN end <= Chunk
               ELSE l <= Chunk \/ (size <= 2 * Chunk /\ l = Chunk + 1 /\ t >= Chunk + 1)
    BY <2>2, <2>4, ChunkAssumption
  <2> QED BY <2>3, <2>4 DEF l, t, n, size
<1>8. SUFFICES ASSUME NEW x, x = ac \o SubSeq(chunk, end + 1, Len(chunk))
      PROVE  IF end >= Chunk THEN Collected(s, x, 0, text \o x, m) ELSE Collected(s, x, end, text, m)
  BY DEF ac, a
<1> HIDE DEF ac
<1>9. /\ x \in Seq(Units) /\ SubSeq(x, 1, end) = ac
      /\ end >= Len(chunk) => x = ac /\ Len(x) = end
      /\ ~(end >= Len(chunk)) => Len(x) = Len(chunk)
  <2>1. x = ac \o SubSeq(chunk, Len(ac) + 1, Len(chunk))
    BY <1>71, <1>8
  <2>2. /\ x \in Seq(Units) /\ SubSeq(x, 1, Len(ac)) = ac
        /\ Len(ac) >= Len(chunk) => x = ac
        /\ ~(Len(ac) >= Len(chunk)) => Len(x) = Len(chunk)
    BY <1>1, <1>4, <2>1, Replacing, Zenon
  <2> QED BY <1>71, <2>2, Zenon
<1>10. CASE end >= Chunk
  <2>1. x = ac /\ Len(x) = end
    BY <1>72, <1>9, <1>10
  <2>2. text \o x \in Seq(Units) /\ Len(text \o x) = m /\ text \o x = SubSeq(s, 1, m)
    BY <1>4, <1>5, <1>71, <2>1, Zenon
  <2>3. SubSeq(x, 1, 0) = <<>> /\ (text \o x) \o <<>> = text \o x
    BY <2>2, ConcatEmptySeq, SubSeqEmpty
  <2>4. Len(x) <= Chunk \/ (Len(s) <= 2 * Chunk /\ Len(x) = Chunk + 1 /\ Len(text \o x) >= Chunk + 1)
    BY <1>72, <1>10, <2>1, <2>2
  <2>5. 0 \in 0 .. Len(x) /\ 0 < Chunk /\ Len(text \o x) + 0 = m
    BY <1>7, <2>1, <2>2, ChunkAssumption
  <2> QED BY <1>9, <1>10, <2>2, <2>3, <2>4, <2>5 DEF Collected
<1>11. CASE ~(end >= Chunk)
  <2>1. end \in 0 .. Len(x) /\ end < Chunk
    BY <1>3, <1>7, <1>9, <1>11, ChunkAssumption
  <2>2. Len(x) <= Chunk \/ (Len(s) <= 2 * Chunk /\ Len(x) = Chunk + 1 /\ Len(text) >= Chunk + 1)
    BY <1>72, <1>9, <1>11
  <2>3. text \o SubSeq(x, 1, end) = SubSeq(s, 1, m)
    BY <1>5, <1>9
  <2> QED BY <1>1, <1>7, <1>9, <1>11, <2>1, <2>2, <2>3 DEF Collected
<1> QED BY <1>10, <1>11

-----------------------------------------------------------------------------
\* r is what read has when it has read k units of s.
ReadUpTo(s, r, k) ==
  r.at = Starts(s, k) + 1 /\ Collected(s, r.chunk, r.filled, r.text, k)

LEMMA NextRead ==
  ASSUME NEW s \in Texts, NEW k \in Nat, NEW r, ReadUpTo(s, r, k), NEW b, NEW at, at = r.at,
         ~(at > Len(b)),
         NEW c \in Seq(Units), Len(c) \in 1 .. 2, Len(c) = 1 \/ Len(s) <= 2 * Chunk,
         NEW m, m = k + Len(c), m <= Len(s), SubSeq(s, 1, m) = SubSeq(s, 1, k) \o c,
         Character(b, at) = c, at + Width(b[at]) = Starts(s, m) + 1
  PROVE  ReadUpTo(s, NextCharacter(b, r), m)
<1> DEFINE end == r.filled + Len(c)
           x == (SubSeq(r.chunk, 1, r.filled) \o c) \o SubSeq(r.chunk, end + 1, Len(r.chunk))
           next == NextCharacter(b, r)
<1>1. next = [at     |-> at + Width(b[at]),
              chunk  |-> x,
              filled |-> IF end >= Chunk THEN 0 ELSE end,
              text   |-> IF end >= Chunk THEN r.text \o x ELSE r.text]
  BY Zenon DEF NextCharacter
<1>2. Collected(s, r.chunk, r.filled, r.text, k)
  BY DEF ReadUpTo
<1>3. IF end >= Chunk THEN Collected(s, x, 0, r.text \o x, m) ELSE Collected(s, x, end, r.text, m)
  BY <1>2, Collects
<1> HIDE DEF next, x, end
<1>4. /\ next.at = at + Width(b[at]) /\ next.chunk = x
      /\ next.filled = (IF end >= Chunk THEN 0 ELSE end)
      /\ next.text = (IF end >= Chunk THEN r.text \o x ELSE r.text)
  BY <1>1
<1>5. CASE end >= Chunk
  <2>1. next.filled = 0 /\ next.text = r.text \o x
    BY <1>4, <1>5, Zenon
  <2> QED BY <1>3, <1>4, <1>5, <2>1, Zenon DEF ReadUpTo, next
<1>6. CASE ~(end >= Chunk)
  <2>1. next.filled = end /\ next.text = r.text
    BY <1>4, <1>6, Zenon
  <2> QED BY <1>3, <1>4, <1>6, <2>1, Zenon DEF ReadUpTo, next
<1> QED BY <1>5, <1>6, Zenon

LEMMA UnitsOf ==
  ASSUME NEW s \in Texts
  PROVE  s \in Seq(Units) /\ Len(s) \in Nat /\ \A i \in 1 .. Len(s) : s[i] \in Units
<1>1. s \in Seq(Units)
  BY DEF Texts, Units
<1> QED BY <1>1

\* The beginning of a text and what is appended to it.
LEMMA OneMore ==
  ASSUME NEW T, NEW s \in Seq(T), NEW k \in 0 .. Len(s), k < Len(s)
  PROVE  SubSeq(s, 1, k + 1) = SubSeq(s, 1, k) \o <<s[k + 1]>>
<1>1. SubSeq(s, 1, k + 1) = Append(SubSeq(s, 1, k), s[k + 1]) /\ SubSeq(s, 1, k) \in Seq(T)
  BY Beginning
<1>2. s[k + 1] \in T
  OBVIOUS
<1> QED BY <1>1, <1>2, AppendIsConcat

LEMMA TwoMore ==
  ASSUME NEW T, NEW s \in Seq(T), NEW k \in 0 .. Len(s), k + 1 < Len(s)
  PROVE  SubSeq(s, 1, k + 2) = SubSeq(s, 1, k) \o <<s[k + 1], s[k + 2]>>
<1> DEFINE u == <<s[k + 1]>>
           v == <<s[k + 2]>>
           a == SubSeq(s, 1, k)
<1>1. k + 1 \in 0 .. Len(s) /\ k < Len(s) /\ (k + 1) + 1 = k + 2 /\ k + 1 \in 1 .. Len(s) /\ k + 2 \in 1 .. Len(s)
  OBVIOUS
<1>2. SubSeq(s, 1, k + 1) = a \o u
  BY <1>1, OneMore
<1>3. SubSeq(s, 1, k + 2) = SubSeq(s, 1, k + 1) \o v
  BY <1>1, OneMore
<1>4. a \in Seq(T)
  BY Beginning
<1>5. u \in Seq(T) /\ v \in Seq(T) /\ u \o v = <<s[k + 1], s[k + 2]>>
  <2>1. s[k + 1] \in T /\ s[k + 2] \in T
    BY <1>1
  <2>2. ASSUME NEW c \in T, NEW d \in T PROVE <<c>> \in Seq(T) /\ <<d>> \in Seq(T) /\ <<c>> \o <<d>> = <<c, d>>
    <3>1. Append(<<c>>, d) = <<c>> \o <<d>>
      BY <2>2, AppendIsConcat
    <3>2. <<c>> \in Seq(T) /\ <<d>> \in Seq(T) /\ <<c, d>> \in Seq(T)
      BY <2>2
    <3>3. Append(<<c>>, d) = <<c, d>>
      <4> DEFINE y == Append(<<c>>, d)
                 z == <<c, d>>
      <4>1. y \in Seq(T) /\ Len(y) = 2 /\ y[1] = c /\ y[2] = d
        BY <2>2, <3>2
      <4>2. z \in Seq(T) /\ Len(z) = 2 /\ z[1] = c /\ z[2] = d
        BY <2>2, <3>2
      <4> HIDE DEF y, z
      <4>3. \A i \in 1 .. 2 : y[i] = z[i]
        BY <4>1, <4>2
      <4>4. y = z
        BY <4>1, <4>2, <4>3, SeqEqual
      <4> QED BY <4>4 DEF y, z
    <3> QED BY <3>1, <3>2, <3>3, Zenon
  <2> QED BY <2>1, <2>2
<1> HIDE DEF a, u, v
<1>6. (a \o u) \o v = a \o (u \o v)
  <2>1. \A q, y, z \in Seq(T) : (q \o y) \o z = q \o (y \o z)
    BY Associative
  <2> QED BY <1>4, <1>5, <2>1, Zenon
<1> QED BY <1>2, <1>3, <1>5, <1>6, Zenon DEF a

-----------------------------------------------------------------------------
\* Reading on from unit k of s, where no pair is in two.
LEMMA ReadOn ==
  ASSUME NEW s \in Texts, Len(s) <= 2 * Chunk \/ \A i : ~Pair(s, i),
         NEW b, b = Utf8Write(s),
         NEW k \in 0 .. Len(s), k < Len(s), ~Pair(s, k), NEW r, ReadUpTo(s, r, k)
  PROVE  \E m \in k + 1 .. Len(s) :
           ~Pair(s, m) /\ Starts(s, m) > Starts(s, k) /\ ReadUpTo(s, NextCharacter(b, r), m)
<1> DEFINE at == Starts(s, k)
           n == UnitLength(s, k + 1)
           p == Pair(s, k + 1)
           m == IF p THEN k + 2 ELSE k + 1
           c == IF p THEN <<s[k + 1], s[k + 2]>> ELSE <<s[k + 1]>>
<1>1. /\ s \in Seq(Units) /\ Len(s) \in Nat /\ k \in Nat /\ k + 1 \in 0 .. Len(s) /\ k + 1 \in 1 .. Len(s)
      /\ s[k + 1] \in Units /\ (k + 1) - 1 = k /\ (k + 1) + 1 = k + 2
  BY UnitsOf
<1>2. p => /\ k + 2 \in 1 .. Len(s) /\ k + 1 < Len(s) /\ k + 1 \in 0 .. Len(s) /\ s[k + 2] \in Units
           /\ ~Pair(s, k + 2) /\ UnitLength(s, k + 2) = 0
  <2> SUFFICES ASSUME p PROVE /\ k + 2 \in 1 .. Len(s) /\ k + 1 < Len(s) /\ s[k + 2] \in Units
                              /\ ~Pair(s, k + 2) /\ UnitLength(s, k + 2) = 0
    BY <1>1
  <2>1. k + 1 \in 1 .. Len(s) - 1 /\ Low(s[k + 2])
    BY <1>1 DEF Pair
  <2>2. k + 2 \in 1 .. Len(s) /\ k + 1 < Len(s) /\ (k + 2) - 1 = k + 1
    BY <1>1, <2>1
  <2>3. s[k + 2] \in Units
    BY <2>2, UnitsOf
  <2>4. ~Pair(s, k + 2)
    <3> DEFINE q == s[k + 2] \div Block
    <3>1. q = 55
      BY <2>1 DEF Low
    <3> HIDE DEF q
    <3>2. ~(q = 54)
      BY <3>1
    <3> QED BY <3>2 DEF Pair, High, q
  <2>5. UnitLength(s, k + 2) = 0
    BY <2>2, <2>4 DEF UnitLength
  <2> QED BY <2>1, <2>2, <2>3, <2>4, <2>5
<1>3. /\ at \in Nat /\ Starts(s, k + 1) = at + n /\ at + n <= Len(b)
      /\ \A j \in 1 .. n : b[at + j] = UnitBytes(s, k + 1)[j]
  BY UnitAt
<1>4. n \in 1 .. 4
  BY <1>1 DEF UnitLength
<1>5. /\ Width(b[at + 1]) = n /\ Character(b, at + 1) = c
  <2>1. b \in Buffers
    BY TextCounted
  <2> QED BY <1>3, <2>1, CharacterAt
<1>6. Starts(s, m) = at + n
  <2>1. CASE p
    <3>1. Starts(s, (k + 1) + 1) = Starts(s, k + 1) + UnitLength(s, (k + 1) + 1)
      BY <1>1, <1>2, <2>1, UnitAt
    <3> QED BY <1>1, <1>2, <1>3, <1>4, <2>1, <3>1
  <2>2. CASE ~p
    BY <1>3, <2>2
  <2> QED BY <2>1, <2>2
<1>7. c \in Seq(Units) /\ Len(c) \in 1 .. 2 /\ m = k + Len(c) /\ (Len(c) = 1 \/ p)
  <2>1. CASE p
    <3>1. c = <<s[k + 1], s[k + 2]>> /\ m = k + 2
      BY <2>1
    <3> QED BY <1>1, <1>2, <2>1, <3>1
  <2>2. CASE ~p
    <3>1. c = <<s[k + 1]>> /\ m = k + 1
      BY <2>2
    <3> QED BY <1>1, <2>2, <3>1
  <2> QED BY <2>1, <2>2
<1>8. m \in k + 1 .. Len(s) /\ m <= Len(s)
  BY <1>1, <1>2
<1>9. ~Pair(s, m)
  <2>1. CASE p
    BY <1>2, <2>1
  <2>2. CASE ~p
    BY <2>2
  <2> QED BY <2>1, <2>2
<1>10. SubSeq(s, 1, m) = SubSeq(s, 1, k) \o c
  <2>1. CASE p
    BY <1>1, <1>2, <2>1, TwoMore
  <2>2. CASE ~p
    BY <1>1, <2>2, OneMore
  <2> QED BY <2>1, <2>2
<1>11. Len(c) = 1 \/ Len(s) <= 2 * Chunk
  BY <1>7
<1>12. r.at = at + 1
  BY DEF ReadUpTo
<1> HIDE DEF c, m, p, n, at
<1>13. /\ ~(at + 1 > Len(b)) /\ (at + 1) + Width(b[at + 1]) = Starts(s, m) + 1 /\ Starts(s, m) > at
  <2>1. Len(b) \in Nat
    <3>1. b \in Seq(Octets)
      BY TextCounted DEF Buffers
    <3> QED BY <3>1
  <2> DEFINE w == Width(b[at + 1])
             l == Len(b)
  <2>2. w = n /\ l \in Nat /\ at + n <= l
    BY <1>3, <1>5, <2>1
  <2> HIDE DEF w, l
  <2>3. ~(at + 1 > l) /\ (at + 1) + w = (at + n) + 1 /\ at + n > at
    BY <1>3, <1>4, <2>2
  <2> QED BY <1>6, <2>3 DEF w, l
<1>14. ReadUpTo(s, NextCharacter(b, r), m)
  BY <1>1, <1>5, <1>7, <1>8, <1>10, <1>11, <1>12, <1>13, NextRead
<1> QED BY <1>8, <1>9, <1>13, <1>14 DEF at

-----------------------------------------------------------------------------
(* read of util.utf8.read is a function: what it is at n follows from what *)
(* it is before.                                                           *)
ReadStart == [at |-> 1, chunk |-> <<>>, filled |-> 0, text |-> <<>>]
Reading(f, b, n) == IF n = 0 THEN ReadStart ELSE NextCharacter(b, f[n - 1])

LEMMA ReadingSame ==
  ASSUME NEW f, NEW g, NEW b, NEW n, n # 0 => f[n - 1] = g[n - 1]
  PROVE  Reading(f, b, n) = Reading(g, b, n)
BY Zenon DEF Reading

LEMMA ReadExists ==
  ASSUME NEW b, Len(b) \in Nat
  PROVE  \E f : f = [n \in 0 .. Len(b) |-> Reading(f, b, n)]
<1> DEFINE Upto(f, n) == f = [i \in 0 .. n |-> Reading(f, b, i)]
           S == {n \in Nat : \E f : Upto(f, n)}
<1>1. 0 \in S
  <2> DEFINE g == [i \in 0 .. 0 |-> ReadStart]
  <2>1. ASSUME NEW i \in 0 .. 0 PROVE ReadStart = Reading(g, b, i)
    <3>1. i = 0
      OBVIOUS
    <3> QED BY <3>1, Zenon DEF Reading
  <2>2. Upto(g, 0)
    BY <2>1
  <2> HIDE DEF Upto
  <2> QED BY <2>2
<1>2. ASSUME NEW n \in Nat, n \in S PROVE n + 1 \in S
  <2>1. PICK f : Upto(f, n)
    BY <1>2
  <2> DEFINE g == [i \in 0 .. n + 1 |-> Reading(f, b, i)]
  <2>2. ASSUME NEW i \in 0 .. n + 1 PROVE g[i] = Reading(g, b, i)
    <3>1. i # 0 => i - 1 \in 0 .. n
      OBVIOUS
    <3>2. i # 0 => g[i - 1] = Reading(f, b, i - 1) /\ f[i - 1] = Reading(f, b, i - 1)
      BY <2>1, <3>1
    <3> QED BY <3>2, ReadingSame
  <2>3. g = [i \in 0 .. n + 1 |-> g[i]]
    OBVIOUS
  <2> HIDE DEF g
  <2>4. Upto(g, n + 1)
    BY <2>2, <2>3
  <2> HIDE DEF Upto
  <2>5. n + 1 \in Nat /\ \E h : Upto(h, n + 1)
    BY <2>4
  <2> QED BY <2>5
<1>3. Len(b) \in S
  <2> HIDE DEF S
  <2> QED BY <1>1, <1>2, Induction
<1> QED BY <1>3

\* What read returns, by its function.
LEMMA ReadOf ==
  ASSUME NEW b, Len(b) \in Nat
  PROVE  \E f : /\ f[0] = ReadStart
                /\ \A n \in 1 .. Len(b) : f[n] = NextCharacter(b, f[n - 1])
                /\ Utf8Read(b) = f[Len(b)].text \o SubSeq(f[Len(b)].chunk, 1, f[Len(b)].filled)
<1> DEFINE f == CHOOSE g : g = [n \in 0 .. Len(b) |-> Reading(g, b, n)]
           end == f[Len(b)]
<1>1. f = [n \in 0 .. Len(b) |-> Reading(f, b, n)]
  BY ReadExists, Zenon
<1>2. Utf8Read(b) = end.text \o SubSeq(end.chunk, 1, end.filled)
  BY Zenon DEF Utf8Read, Reading, ReadStart
<1> HIDE DEF f
<1>3. ASSUME NEW n \in 0 .. Len(b) PROVE f[n] = Reading(f, b, n)
  BY <1>1, <1>3
<1>4. f[0] = ReadStart
  <2>1. 0 \in 0 .. Len(b)
    OBVIOUS
  <2> QED BY <1>3, <2>1, Zenon DEF Reading
<1>5. ASSUME NEW n \in 1 .. Len(b) PROVE f[n] = NextCharacter(b, f[n - 1])
  <2>1. n \in 0 .. Len(b) /\ n # 0
    BY <1>5
  <2> QED BY <1>3, <2>1, Zenon DEF Reading
<1> QED BY <1>2, <1>4, <1>5

\* A text is read back as it was written, a chunk at a time, unless a unit is
\* taken twice: a text with a pair that is longer than two chunks.
THEOREM TextInverse ==
  ASSUME NEW s \in Texts, Len(s) <= 2 * Chunk \/ \A i : ~Pair(s, i)
  PROVE  Utf8Read(Utf8Write(s)) = s
<1> DEFINE b == Utf8Write(s)
<1>1. b \in Buffers /\ Len(b) \in Nat
  <2>1. b \in Buffers
    BY TextCounted
  <2> HIDE DEF b
  <2>2. b \in Seq(Octets)
    BY <2>1 DEF Buffers
  <2> QED BY <2>1, <2>2
<1>2. s \in Seq(Units) /\ Len(s) \in Nat /\ Starts(s, 0) = 0 /\ Starts(s, Len(s)) = Len(b)
  BY UnitsOf, StartsAt
<1>3. b = Utf8Write(s)
  OBVIOUS
<1> HIDE DEF b
<1>4. PICK f : /\ f[0] = ReadStart
               /\ \A n \in 1 .. Len(b) : f[n] = NextCharacter(b, f[n - 1])
               /\ Utf8Read(b) = f[Len(b)].text \o SubSeq(f[Len(b)].chunk, 1, f[Len(b)].filled)
  BY <1>1, ReadOf
<1> DEFINE At(n, k) == ~Pair(s, k) /\ ReadUpTo(s, f[n], k) /\ (k = Len(s) \/ Starts(s, k) >= n)
           S == {n \in Nat : n <= Len(b) => \E k \in 0 .. Len(s) : At(n, k)}
<1>5. 0 \in S
  <2>1. ~Pair(s, 0)
    BY DEF Pair
  <2>2. ReadUpTo(s, ReadStart, 0)
    <3>1. ReadStart.at = 1 /\ ReadStart.chunk = <<>> /\ ReadStart.filled = 0 /\ ReadStart.text = <<>>
      BY DEF ReadStart
    <3>2. <<>> \in Seq(Units) /\ Len(<<>>) = 0
      OBVIOUS
    <3>3. SubSeq(<<>>, 1, 0) = <<>> /\ SubSeq(s, 1, 0) = <<>> /\ <<>> \o <<>> = <<>>
      BY <1>2, SubSeqEmpty, ConcatEmptySeq
    <3>4. Chunk \in Nat /\ 0 < Chunk /\ 0 \in 0 .. 0 /\ 0 + 0 = 0 /\ 0 <= Chunk
      BY ChunkAssumption
    <3>5. Collected(s, <<>>, 0, <<>>, 0)
      BY <3>2, <3>3, <3>4 DEF Collected
    <3> QED BY <1>2, <3>1, <3>5 DEF ReadUpTo
  <2>3. At(0, 0)
    BY <1>2, <1>4, <2>1, <2>2
  <2>4. 0 \in 0 .. Len(s)
    BY <1>2
  <2> HIDE DEF At
  <2> QED BY <2>3, <2>4
<1>6. ASSUME NEW n \in Nat, n \in S PROVE n + 1 \in S
  <2>1. SUFFICES ASSUME n + 1 <= Len(b) PROVE \E k \in 0 .. Len(s) : At(n + 1, k)
    BY <1>1
  <2>2. PICK k \in 0 .. Len(s) : At(n, k)
    BY <1>1, <1>6, <2>1
  <2>3. f[n + 1] = NextCharacter(b, f[n])
    <3>1. n + 1 \in 1 .. Len(b) /\ (n + 1) - 1 = n
      BY <1>1, <2>1
    <3> QED BY <1>4, <3>1
  <2>4. CASE k = Len(s)
    <3>1. f[n].at > Len(b)
      <4>1. f[n].at = Starts(s, Len(s)) + 1
        BY <2>2, <2>4 DEF ReadUpTo
      <4> QED BY <1>1, <1>2, <4>1
    <3>2. f[n + 1] = f[n]
      BY <2>3, <3>1, Zenon DEF NextCharacter
    <3>3. At(n + 1, k)
      BY <2>2, <2>4, <3>2
    <3> HIDE DEF At
    <3> QED BY <3>3
  <2>5. CASE k # Len(s)
    <3>1. k < Len(s) /\ ~Pair(s, k) /\ ReadUpTo(s, f[n], k) /\ Starts(s, k) >= n
      BY <1>2, <2>2, <2>5
    <3>2. PICK m \in k + 1 .. Len(s) :
            ~Pair(s, m) /\ Starts(s, m) > Starts(s, k) /\ ReadUpTo(s, NextCharacter(b, f[n]), m)
      BY <1>3, <3>1, ReadOn
    <3>3. m \in 0 .. Len(s)
      BY <1>2
    <3>4. Starts(s, m) >= n + 1
      <4>1. \A i \in 0 .. Len(s) : Starts(s, i) \in Nat
        <5>1. ASSUME NEW i \in 0 .. Len(s), i < Len(s) PROVE Starts(s, i) \in Nat
          BY <5>1, UnitAt
        <5>2. ASSUME NEW i \in 0 .. Len(s), ~(i < Len(s)) PROVE Starts(s, i) \in Nat
          <6>1. i = Len(s)
            BY <1>2, <5>2
          <6> QED BY <1>1, <1>2, <6>1
        <5> QED BY <5>1, <5>2
      <4>2. Starts(s, m) \in Nat /\ Starts(s, k) \in Nat
        BY <3>3, <4>1
      <4> QED BY <3>1, <3>2, <4>2
    <3>5. At(n + 1, m)
      BY <2>3, <3>2, <3>4
    <3> HIDE DEF At
    <3> QED BY <3>3, <3>5
  <2> QED BY <2>4, <2>5
<1>7. PICK k \in 0 .. Len(s) : At(Len(b), k)
  <2>1. Len(b) \in S
    <3> HIDE DEF S
    <3> QED BY <1>1, <1>5, <1>6, Induction
  <2> QED BY <1>1, <2>1
<1>8. k = Len(s)
  <2>1. SUFFICES ASSUME k # Len(s) PROVE FALSE
    OBVIOUS
  <2>2. k < Len(s) /\ Starts(s, k) >= Len(b) /\ k + 1 \in 1 .. Len(s) /\ (k + 1) - 1 = k
    BY <1>2, <1>7, <2>1
  <2>3. Starts(s, k) \in Nat /\ Starts(s, k) + UnitLength(s, k + 1) <= Len(b)
    <3>1. Starts(s, k + 1) = Starts(s, k) + UnitLength(s, k + 1) /\ Starts(s, k + 1) <= Len(b)
      BY <1>3, <2>2, UnitAt
    <3> QED BY <2>2, <3>1, UnitAt
  <2>4. UnitLength(s, k + 1) \in 1 .. 4
    BY <1>7, <2>2 DEF UnitLength
  <2> QED BY <1>1, <2>2, <2>3, <2>4
<1>9. f[Len(b)].text \o SubSeq(f[Len(b)].chunk, 1, f[Len(b)].filled) = SubSeq(s, 1, Len(s))
  BY <1>7, <1>8, Zenon DEF ReadUpTo, Collected
<1>10. SubSeq(s, 1, Len(s)) = s
  BY <1>2, SubSeqFull
<1> QED BY <1>3, <1>4, <1>9, <1>10, Zenon

\* All the bytes that the operations of String(s) store.
StringStored(s) ==
  LET ops == String(s)
  IN IF Utf8Length(s) = 0 THEN Stored(ops[1]) ELSE Stored(ops[1]) \o Stored(ops[2])

\* They are what bytes writes for the text's UTF-8.
LEMMA StringAsBytes ==
  ASSUME NEW s \in Texts PROVE StringStored(s) = BytesWritten(Utf8Write(s))
<1> DEFINE b == Utf8Write(s)
           l == Utf8Length(s)
           op1 == Op("varint32", Length32(l % Word), l % Word)
           op2 == Op("text", l, s)
           op3 == Op("bytes", l, b)
<1>1. b \in Buffers /\ Len(b) = l
  BY TextCounted
<1> HIDE DEF b, l
<1>2. b = <<>> <=> l = 0
  <2>1. b \in Seq(Octets)
    BY <1>1 DEF Buffers
  <2> QED BY <1>1, <2>1
<1>3. CASE l = 0
  <2>1. String(s) = << Op("byte", 1, 0) >> /\ Bytes(b) = << Op("byte", 1, 0) >>
    BY <1>2, <1>3 DEF String, Bytes, l
  <2>2. Stored(Op("byte", 1, 0)) = Written(Op("byte", 1, 0))
    BY DEF Stored, Op
  <2>3. StringStored(s) = Written(String(s)[1]) /\ BytesWritten(b) = Written(Bytes(b)[1])
    BY <1>2, <1>3, <2>1, <2>2 DEF StringStored, BytesWritten, l
  <2> QED BY <2>1, <2>3 DEF b
<1>4. CASE l # 0
  <2>1. String(s) = <<op1>> \o <<op2>> /\ Bytes(b) = <<op1>> \o <<op3>>
    BY <1>1, <1>2, <1>4, Zenon DEF String, Bytes, Uint32, l
  <2>2. op1.fn = "varint32" /\ op2.fn = "text" /\ op2.val = s /\ op3.fn = "bytes" /\ op3.val = b
    BY DEF Op
  <2> HIDE DEF op1, op2, op3
  <2>3. Stored(op1) = Written(op1) /\ Stored(op2) = b /\ Written(op3) = b
    BY <2>2 DEF Stored, Written, b
  <2>4. String(s)[1] = op1 /\ String(s)[2] = op2 /\ Bytes(b)[1] = op1 /\ Bytes(b)[2] = op3
    <3> SUFFICES ASSUME NEW x, NEW y PROVE (<<x>> \o <<y>>)[1] = x /\ (<<x>> \o <<y>>)[2] = y
      BY <2>1
    <3> QED OBVIOUS
  <2>5. StringStored(s) = Written(op1) \o b
    BY <1>4, <2>3, <2>4, Zenon DEF StringStored, l
  <2>6. BytesWritten(b) = Written(op1) \o b
    BY <1>2, <1>4, <2>3, <2>4, Zenon DEF BytesWritten
  <2> QED BY <2>5, <2>6 DEF b
<1> QED BY <1>3, <1>4

\* A string is read back with the length in front of it, also none, and the
\* reader goes on behind it.
THEOREM StringInverse ==
  \A buf \in Buffers, pos \in Nat, s \in Texts :
    /\ Len(s) <= 2 * Chunk \/ \A i : ~Pair(s, i)
    /\ Utf8Length(s) < Word /\ Lies(buf, pos, StringStored(s))
    => ReadString(buf, pos) = Read(s, pos + Len(StringStored(s)))
<1> SUFFICES ASSUME NEW buf \in Buffers, NEW pos \in Nat, NEW s \in Texts,
                    Len(s) <= 2 * Chunk \/ \A i : ~Pair(s, i),
                    Utf8Length(s) < Word, Lies(buf, pos, StringStored(s))
             PROVE  ReadString(buf, pos) = Read(s, pos + Len(StringStored(s)))
  BY Zenon
<1> DEFINE b == Utf8Write(s)
           r == ReadBytes(buf, pos)
           to == pos + Len(StringStored(s))
<1>1. b \in Buffers /\ Len(b) < Word /\ StringStored(s) = BytesWritten(b)
  BY TextCounted, StringAsBytes
<1>2. r = Read(b, to)
  BY <1>1, BytesInverse
<1>3. Utf8Read(b) = s
  BY TextInverse
<1>4. ReadString(buf, pos) = Converted(r, Utf8Read)
  BY DEF ReadString
<1>5. \A v, p : Converted(Read(v, p), Utf8Read) = Read(Utf8Read(v), p)
  BY DEF Converted, Read
<1> HIDE DEF b, r, to
<1>6. Converted(r, Utf8Read) = Read(s, to)
  BY <1>2, <1>3, <1>5, Zenon
<1> QED BY <1>4, <1>6, Zenon DEF to


-----------------------------------------------------------------------------
(* Numbers of a fixed size.                                                *)
LEMMA FixedBytes ==
  ASSUME NEW v \in 0 .. Word - 1
  PROVE  WriteFixed32(v) \in Buffers /\ Len(WriteFixed32(v)) = 4
<1> DEFINE op == Op("fixed32", 4, v)
<1>1. op \in Operations
  BY DEF Op, Operations
<1>2. Stored(op) = WriteFixed32(v)
  BY DEF Op, Stored, Written
<1>3. Len(WriteFixed32(v)) = 4
  BY DEF WriteFixed32
<1> HIDE DEF op
<1> QED BY <1>1, <1>2, <1>3, StoredBytes

LEMMA Fixed32Lies ==
  ASSUME NEW buf \in Buffers, NEW pos \in Nat, NEW v \in 0 .. Word - 1, Lies(buf, pos, WriteFixed32(v))
  PROVE  pos + 4 <= Len(buf) /\ ReadFixed32(buf, pos) = Read(v, pos + 4) /\ Fixed32At(buf, pos) = v
<1>1. Len(WriteFixed32(v)) = 4
  BY FixedBytes
<1>2. pos + 4 <= Len(buf) /\ \A i \in 1 .. 4 : buf[pos + i] = WriteFixed32(v)[i]
  BY <1>1 DEF Lies
<1>3. ReadFixed32(buf, pos) = Read(v, pos + 4)
  BY <1>2, Fixed32Inverse
<1>4. ~(pos + 4 > Len(buf))
  <2>1. Len(buf) \in Nat
    BY DEF Buffers
  <2> QED BY <1>2, <2>1
<1>5. ReadFixed32(buf, pos) = Read(Fixed32At(buf, pos), pos + 4)
  BY <1>4 DEF ReadFixed32
<1>6. \A x, y, p : Read(x, p) = Read(y, p) => x = y
  BY DEF Read
<1> QED BY <1>2, <1>3, <1>5, <1>6, Zenon

LEMMA Fixed32Ops ==
  ASSUME NEW v \in Int
  PROVE  Fixed32(v)[1].len = 4 /\ Written(Fixed32(v)[1]) = WriteFixed32(v % Word) /\ v % Word \in 0 .. Word - 1
<1> DEFINE op == Op("fixed32", 4, v % Word)
<1>1. Fixed32(v)[1] = op
  BY DEF Fixed32
<1>2. op.len = 4 /\ Written(op) = WriteFixed32(v % Word)
  BY DEF Op, Written
<1> QED BY <1>1, <1>2, WordOf

LEMMA SignedOfMod ==
  ASSUME NEW v \in -Half .. Half - 1 PROVE Signed(v % Word) = v
<1>1. Word = 2 * Half /\ Half \in Nat \ {0} /\ Word \in Nat \ {0}
  BY WordSizes
<1>2. CASE v >= 0
  <2>1. v % Word = v
    BY <1>1, <1>2, ModOfSmall
  <2> QED BY <1>1, <1>2, <2>1 DEF Signed
<1>3. CASE ~(v >= 0)
  <2>1. v % Word = v + Word
    BY <1>1, <1>3, ModOfNegative
  <2> QED BY <1>1, <1>3, <2>1 DEF Signed
<1> QED BY <1>2, <1>3

\* The bytes of fixed64() are those of two words, the low one first.
Fixed64Written(v) == Written(Fixed64(v)[1]) \o Written(Fixed64(v)[2])

LEMMA Fixed64Back ==
  ASSUME NEW buf \in Buffers, NEW pos \in Nat, NEW v \in Int, Lies(buf, pos, Fixed64Written(v))
  PROVE  ReadFixed64(buf, pos) = Read(FromNumber(v), pos + 8)
<1> DEFINE bits == FromNumber(v)
           low == WriteFixed32(bits.lo)
           high == WriteFixed32(bits.hi)
<1>1. bits \in LongBits
  BY FromNumberLong
<1>2. Fixed64Written(v) = low \o high
  <2>1. Fixed64(v)[1] = Op("fixed32", 4, bits.lo) /\ Fixed64(v)[2] = Op("fixed32", 4, bits.hi)
    BY DEF Fixed64
  <2>2. \A x : Written(Op("fixed32", 4, x)) = WriteFixed32(x)
    BY DEF Op, Written
  <2> QED BY <2>1, <2>2, Zenon DEF Fixed64Written
<1> HIDE DEF bits
<1>3. bits.lo \in 0 .. Word - 1 /\ bits.hi \in 0 .. Word - 1 /\ bits = [lo |-> bits.lo, hi |-> bits.hi]
  BY <1>1 DEF LongBits
<1>4. low \in Buffers /\ high \in Buffers /\ Len(low) = 4
  BY <1>3, FixedBytes
<1> HIDE DEF low, high
<1>5. Lies(buf, pos, low) /\ Lies(buf, pos + 4, high)
  BY <1>2, <1>4, LiesParts
<1>6. Fixed32At(buf, pos) = bits.lo
  BY <1>3, <1>5, Fixed32Lies DEF low
<1>7. Fixed32At(buf, pos + 4) = bits.hi /\ (pos + 4) + 4 <= Len(buf)
  <2>1. pos + 4 \in Nat
    OBVIOUS
  <2> QED BY <1>3, <1>5, <2>1, Fixed32Lies DEF high
<1>8. ~(pos + 8 > Len(buf))
  <2>1. Len(buf) \in Nat
    BY DEF Buffers
  <2> QED BY <1>7, <2>1
<1>9. ReadFixed64(buf, pos) = Read([lo |-> Fixed32At(buf, pos), hi |-> Fixed32At(buf, pos + 4)], pos + 8)
  BY <1>8 DEF ReadFixed64
<1> QED BY <1>3, <1>6, <1>7, <1>9, Zenon DEF bits

\* What the writer writes for a number of a type of fixed size the reader reads
\* from the same place, whatever is around it, and goes on right behind it: for
\* all the numbers of the four types.
THEOREM FixedInverse ==
  \A buf \in Buffers, pos \in Nat :
    /\ \A v \in 0 .. Word - 1 : ReadBack(buf, pos, Fixed32(v), ReadFixed32(buf, pos), v)
    /\ \A v \in -Half .. Half - 1 : ReadBack(buf, pos, Fixed32(v), ReadSfixed32(buf, pos), v)
    /\ \A v \in 0 .. Word * Word - 1 :
         Lies(buf, pos, Fixed64Written(v)) =>
           Converted(ReadFixed64(buf, pos), LAMBDA bits : ToNumber(bits, TRUE)) = Read(v, pos + 8)
    /\ \A v \in -(Half * Word) .. (Half * Word) - 1 :
         Lies(buf, pos, Fixed64Written(v)) =>
           Converted(ReadFixed64(buf, pos), LAMBDA bits : ToNumber(bits, FALSE)) = Read(v, pos + 8)
<1> SUFFICES ASSUME NEW buf \in Buffers, NEW pos \in Nat
    PROVE  /\ \A v \in 0 .. Word - 1 : ReadBack(buf, pos, Fixed32(v), ReadFixed32(buf, pos), v)
           /\ \A v \in -Half .. Half - 1 : ReadBack(buf, pos, Fixed32(v), ReadSfixed32(buf, pos), v)
           /\ \A v \in 0 .. Word * Word - 1 :
                Lies(buf, pos, Fixed64Written(v)) =>
                  Converted(ReadFixed64(buf, pos), LAMBDA bits : ToNumber(bits, TRUE)) = Read(v, pos + 8)
           /\ \A v \in -(Half * Word) .. (Half * Word) - 1 :
                Lies(buf, pos, Fixed64Written(v)) =>
                  Converted(ReadFixed64(buf, pos), LAMBDA bits : ToNumber(bits, FALSE)) = Read(v, pos + 8)
  OBVIOUS
<1>1. ASSUME NEW v \in Int PROVE ReadBack(buf, pos, Fixed32(v), ReadFixed32(buf, pos), v % Word)
  <2>1. Fixed32(v)[1].len = 4 /\ Written(Fixed32(v)[1]) = WriteFixed32(v % Word) /\ v % Word \in 0 .. Word - 1
    BY Fixed32Ops
  <2> QED BY <2>1, Fixed32Lies DEF ReadBack
<1>2. ASSUME NEW v \in 0 .. Word - 1 PROVE ReadBack(buf, pos, Fixed32(v), ReadFixed32(buf, pos), v)
  <2>1. v % Word = v /\ v \in Int
    BY WordSizes, ModOfSmall
  <2> QED BY <1>1, <2>1
<1>3. ASSUME NEW v \in -Half .. Half - 1
      PROVE  ReadBack(buf, pos, Fixed32(v), ReadSfixed32(buf, pos), v)
  <2>1. Signed(v % Word) = v /\ v \in Int
    BY SignedOfMod
  <2>2. ReadBack(buf, pos, Fixed32(v), ReadFixed32(buf, pos), v % Word)
    BY <1>1, <2>1
  <2>3. \A x, p : ReadFixed32(buf, pos) = Read(x, p) => ReadSfixed32(buf, pos) = Read(Signed(x), p)
    BY ConvertedRead, Zenon DEF ReadSfixed32
  <2> QED BY <2>1, <2>2, <2>3, Zenon DEF ReadBack
<1>4. ASSUME NEW v \in 0 .. Word * Word - 1, Lies(buf, pos, Fixed64Written(v))
      PROVE  Converted(ReadFixed64(buf, pos), LAMBDA bits : ToNumber(bits, TRUE)) = Read(v, pos + 8)
  <2>1. ReadFixed64(buf, pos) = Read(FromNumber(v), pos + 8)
    <3>1. v \in Int
      OBVIOUS
    <3> QED BY <1>4, <3>1, Fixed64Back
  <2>2. ToNumber(FromNumber(v), TRUE) = v
    BY Unsigned64
  <2>3. Converted(Read(FromNumber(v), pos + 8), LAMBDA bits : ToNumber(bits, TRUE))
          = Read(ToNumber(FromNumber(v), TRUE), pos + 8)
    BY ConvertedRead
  <2>4. Converted(ReadFixed64(buf, pos), LAMBDA bits : ToNumber(bits, TRUE))
          = Read(ToNumber(FromNumber(v), TRUE), pos + 8)
    BY <2>1, <2>3, Zenon DEF Converted
  <2> QED BY <2>2, <2>4
<1>5. ASSUME NEW v \in -(Half * Word) .. (Half * Word) - 1, Lies(buf, pos, Fixed64Written(v))
      PROVE  Converted(ReadFixed64(buf, pos), LAMBDA bits : ToNumber(bits, FALSE)) = Read(v, pos + 8)
  <2>1. ReadFixed64(buf, pos) = Read(FromNumber(v), pos + 8)
    <3>1. v \in Int
      OBVIOUS
    <3> QED BY <1>5, <3>1, Fixed64Back
  <2>2. ToNumber(FromNumber(v), FALSE) = v
    BY LongBitsInverse
  <2>3. Converted(Read(FromNumber(v), pos + 8), LAMBDA bits : ToNumber(bits, FALSE))
          = Read(ToNumber(FromNumber(v), FALSE), pos + 8)
    BY ConvertedRead
  <2>4. Converted(ReadFixed64(buf, pos), LAMBDA bits : ToNumber(bits, FALSE))
          = Read(ToNumber(FromNumber(v), FALSE), pos + 8)
    BY <2>1, <2>3, Zenon DEF Converted
  <2> QED BY <2>2, <2>4
<1> QED BY <1>2, <1>3, <1>4, <1>5
=============================================================================
