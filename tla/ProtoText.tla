------------------------------- MODULE ProtoText -------------------------------
(***************************************************************************)
(* Texts on the wire: util.utf8 of protobuf.js and what the writer and the *)
(* reader do with it.  A text is a sequence of UTF-16 units, as JavaScript *)
(* has it.  A pair of surrogates makes one character of four bytes, a      *)
(* surrogate alone is written like any other unit.                         *)
(*                                                                         *)
(* The constants of the code follow from Septet, as in ProtoWire: 64, 192, *)
(* 224, 240, 2048, 65536 and the surrogates from 0xD800 on for 128.        *)
(***************************************************************************)
EXTENDS ProtoWire, SequencesExt

CONSTANT Chunk  \* units that utf8.read collects at a time: 8192

ASSUME ChunkAssumption == Chunk \in Nat /\ Chunk > 1

\* 16 for the blocks of surrogates, and the lead of four bytes has room for
\* what is above three of them, as it has in the code for 128.
ASSUME TextAssumption == Septet % 16 = 0 /\ Septet <= 128

Trail == Septet \div 2                    \* values of a byte that continues
Lead2 == Septet + Trail
Lead3 == Lead2 + Trail \div 2
Lead4 == Lead3 + Trail \div 4
Unit2 == (Trail \div 2) * Trail           \* the first unit of three bytes
Unit3 == (Trail \div 4) * Trail * Trail   \* the number of units
Block == Unit3 \div 64                    \* surrogates of a kind

Texts == Seq(0 .. Unit3 - 1)

High(c) == c \div Block = 54
Low(c) == c \div Block = 55

\* Units i and i + 1 of s are a pair.
Pair(s, i) == i \in 1 .. Len(s) - 1 /\ High(s[i]) /\ Low(s[i + 1])

\* Mutant of UnitLength: a pair is two units.
UnitLengthOfAlone(s, i) == IF s[i] < Septet THEN 1 ELSE IF s[i] < Unit2 THEN 2 ELSE 3

\* The bytes of unit i; those of a pair belong to its first.
UnitLength(s, i) ==
  CASE Pair(s, i - 1) -> 0
    [] Pair(s, i) -> 4
    [] OTHER -> IF s[i] < Septet THEN 1 ELSE IF s[i] < Unit2 THEN 2 ELSE 3

\* The sum of a sequence of numbers.
Total(numbers) ==
  LET total[i \in 0 .. Len(numbers)] == IF i = 0 THEN 0 ELSE total[i - 1] + numbers[i]
  IN total[Len(numbers)]

Utf8Length(s) == Total([i \in 1 .. Len(s) |-> UnitLength(s, i)])

Trailing(c) == Septet + (c % Trail)

UnitBytes(s, i) ==
  LET c == s[i]
      p == Unit3 + (c % Block) * Block + (s[i + 1] % Block)
  IN CASE Pair(s, i - 1) -> <<>>
       [] Pair(s, i) ->
            <<Lead4 + p \div (Trail * Trail * Trail), Trailing(p \div (Trail * Trail)),
              Trailing(p \div Trail), Trailing(p)>>
       [] OTHER ->
            IF c < Septet THEN <<c>>
            ELSE IF c < Unit2 THEN <<Lead2 + c \div Trail, Trailing(c)>>
            ELSE <<Lead3 + c \div (Trail * Trail), Trailing(c \div Trail), Trailing(c)>>

Utf8Write(s) == FlattenSeq([i \in 1 .. Len(s) |-> UnitBytes(s, i)])

\* Also of bytes that are no UTF-8: past the end there is undefined, which has
\* no bits, and a byte that continues is taken for one that leads three.
Character(b, i) ==
  LET t == b[i]
      trail(k) == IF i + k <= Len(b) THEN b[i + k] % Trail ELSE 0
      p == (t % (Trail \div 8)) * Trail * Trail * Trail + trail(1) * Trail * Trail
             + trail(2) * Trail + trail(3) - Unit3
  IN CASE t < Septet -> <<t>>
       [] t >= Lead2 /\ t < Lead3 -> <<(t % (Trail \div 2)) * Trail + trail(1)>>
       [] t >= Lead4 -> <<(54 * Block + p \div Block) % Unit3, 55 * Block + (p % Block)>>
       [] OTHER -> <<(t % (Trail \div 4)) * Trail * Trail + trail(1) * Trail + trail(2)>>

\* The bytes that are taken for a character whose first is t.
Width(t) ==
  IF t < Septet THEN 1 ELSE IF t >= Lead2 /\ t < Lead3 THEN 2 ELSE IF t >= Lead4 THEN 4 ELSE 3

\* The next character is put into the chunk, of which all is taken when it is
\* full; then it is filled again from its beginning.
NextCharacter(b, r) ==
  IF r.at > Len(b) THEN r
  ELSE LET c == Character(b, r.at)
           end == r.filled + Len(c)
           chunk == SubSeq(r.chunk, 1, r.filled) \o c \o SubSeq(r.chunk, end + 1, Len(r.chunk))
       IN [at     |-> r.at + Width(b[r.at]),
           chunk  |-> chunk,
           filled |-> IF end >= Chunk THEN 0 ELSE end,
           text   |-> IF end >= Chunk THEN r.text \o chunk ELSE r.text]

Utf8Read(b) ==
  LET read[n \in 0 .. Len(b)] ==
        IF n = 0 THEN [at |-> 1, chunk |-> <<>>, filled |-> 0, text |-> <<>>]
        ELSE NextCharacter(b, read[n - 1])
      end == read[Len(b)]
  IN end.text \o SubSeq(end.chunk, 1, end.filled)

-----------------------------------------------------------------------------
\* Writer.string: the length is that of the bytes to come.
String(s) ==
  IF Utf8Length(s) = 0 THEN << Op("byte", 1, 0) >>
  ELSE Uint32(Utf8Length(s)) \o << Op("text", Utf8Length(s), s) >>

\* The bytes of any operation.
Stored(op) == IF op.fn = "text" THEN Utf8Write(op.val) ELSE Written(op)

ReadString(buf, pos) == Converted(ReadBytes(buf, pos), Utf8Read)
=============================================================================
