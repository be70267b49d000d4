------------------------------ MODULE ProtoWriter ------------------------------
(***************************************************************************)
(* The Writer of protobuf.js: its operations and their length, the stack   *)
(* of the states that fork() puts aside, and finish(), which writes the    *)
(* operations to a buffer of the pool.  A program makes its calls in any   *)
(* order and keeps the buffers; ByteStack says what it gets.               *)
(***************************************************************************)
EXTENDS ProtoText, BufferPool

CONSTANT Values  \* what the program writes: pairs of a type and a value

NumberTypes ==
  {"int32", "uint32", "sint32", "int64", "uint64", "sint64", "fixed32", "sfixed32",
   "fixed64", "sfixed64"}

\* A negative int32 is counted as ten bytes, which it has from -2^63 on.
ASSUME ValuesAssumption ==
  \A v \in Values :
    \/ v[1] \in NumberTypes /\ v[2] \in Int /\ (v[1] = "int32" => v[2] >= -(Half * Word))
    \/ v[1] = "bool" /\ v[2] \in BOOLEAN
    \/ v[1] = "string" /\ v[2] \in Texts
    \/ v[1] = "bytes" /\ v[2] \in Seq(0 .. Byte - 1)

VARIABLES
  writer,  \* the writer of the program
  spoiled  \* history: has finish used up a 64-bit operation of it

writerVars == <<writer, spoiled, poolVars>>

\* What w.<type>(v) appends.
CallOf(type, v) ==
  CASE type = "int32" -> Int32(v)
    [] type = "uint32" -> Uint32(v)
    [] type = "sint32" -> Sint32(v)
    [] type \in {"int64", "uint64"} -> Uint64(v)
    [] type = "sint64" -> Sint64(v)
    [] type \in {"fixed32", "sfixed32"} -> Fixed32(v)
    [] type \in {"fixed64", "sfixed64"} -> Fixed64(v)
    [] type = "bool" -> Bool(v)
    [] type = "string" -> String(v)
    [] type = "bytes" -> Bytes(v)

LengthOf(ops) == Total([i \in 1 .. Len(ops) |-> ops[i].len])

\* threw: has a call of it thrown.
NewWriter == [ops |-> <<>>, len |-> 0, states |-> <<>>, threw |-> FALSE]

Push(w, ops) == [w EXCEPT !.ops = @ \o ops, !.len = @ + LengthOf(ops)]

Fork(w) ==
  [w EXCEPT !.states = <<[ops |-> w.ops, len |-> w.len]>> \o @, !.ops = <<>>, !.len = 0]

\* Mutant of Reset: the length is not that of the state before.
ResetOpsOnly(w) ==
  IF w.states = <<>> THEN [w EXCEPT !.ops = <<>>, !.len = 0]
  ELSE [w EXCEPT !.ops = Head(w.states).ops, !.states = Tail(@)]

Reset(w) ==
  IF w.states = <<>> THEN [w EXCEPT !.ops = <<>>, !.len = 0]
  ELSE [w EXCEPT !.ops = Head(w.states).ops, !.len = Head(w.states).len, !.states = Tail(@)]

\* Mutant of Ldelim: what was in front of the fork is not counted.
LdelimUncounted(w) ==
  LET outer == Push(Reset(w), Uint32(w.len))
  IN IF w.len = 0 THEN outer ELSE [outer EXCEPT !.ops = @ \o w.ops]

\* Mutant of Ldelim: the length is behind what it counts.
LdelimBehind(w) ==
  Push([Reset(w) EXCEPT !.ops = @ \o w.ops, !.len = @ + w.len], Uint32(w.len))

Ldelim(w) ==
  LET outer == Push(Reset(w), Uint32(w.len))
  IN IF w.len = 0 THEN outer ELSE [outer EXCEPT !.ops = @ \o w.ops, !.len = @ + w.len]

\* The bytes that the operations leave in a buffer of size bytes: each begins
\* where the lengths of those before it end.
Image(ops, size) ==
  LET image[i \in 0 .. Len(ops)] ==
        IF i = 0 THEN Blank(size)
        ELSE Overwritten(image[i - 1], LengthOf(SubSeq(ops, 1, i - 1)), Stored(ops[i]))
  IN image[Len(ops)]

\* The writer keeps its operations.
Used(w) == [w EXCEPT !.ops = [i \in 1 .. Len(@) |-> Spent(@[i])]]

-----------------------------------------------------------------------------
(* A program with one writer.                                              *)

WriterInit == PoolInit /\ writer = NewWriter /\ spoiled = FALSE

Call(v) == writer' = Push(writer, CallOf(v[1], v[2])) /\ UNCHANGED <<spoiled, poolVars>>

BeginFork == writer' = Fork(writer) /\ UNCHANGED <<spoiled, poolVars>>

EndFork == writer' = Ldelim(writer) /\ UNCHANGED <<spoiled, poolVars>>

Discard ==
  /\ writer' = Reset(writer)
  /\ spoiled' = (spoiled /\ writer.states # <<>>)
  /\ UNCHANGED poolVars

\* Also within a fork: then the buffer has what is in the fork.
FinishWriter ==
  /\ Allocate(Image(writer.ops, writer.len))
  /\ writer' = Used(writer)
  /\ spoiled' = (spoiled \/ writer'.ops # writer.ops)

CreateNew == writer' = NewWriter /\ spoiled' = FALSE /\ UNCHANGED poolVars

WriterNext ==
  (\E v \in Values : Call(v)) \/ BeginFork \/ EndFork \/ Discard \/ FinishWriter \/ CreateNew

WriterSpec == WriterInit /\ [][WriterNext]_writerVars

-----------------------------------------------------------------------------
\* The lengths that are counted when a value is written are those of the bytes
\* that finish writes, also of what fork put aside: the buffer is neither too
\* short nor are there gaps in it.
ExactLevel(level) ==
  /\ \A i \in 1 .. Len(level.ops) : level.ops[i].len = Len(Stored(level.ops[i]))
  /\ level.len = LengthOf(level.ops)

LenIsExact ==
  ~spoiled => /\ ExactLevel(writer)
              /\ \A i \in 1 .. Len(writer.states) : ExactLevel(writer.states[i])

\* What the program wrote, as the bytes there will be.
BytesOf(ops) == FlattenSeq([i \in 1 .. Len(ops) |-> Stored(ops[i])])

Levels ==
  <<BytesOf(writer.ops)>> \o [i \in 1 .. Len(writer.states) |-> BytesOf(writer.states[i].ops)]

LengthBytes(n) == BytesOf(Uint32(n))

Stack ==
  INSTANCE ByteStack WITH
    Encodings <- {BytesOf(CallOf(v[1], v[2])) : v \in Values},
    Varint    <- LengthBytes,
    levels    <- Levels,
    buffers   <- [n \in 1 .. Len(views) |-> Contents(views[n])],
    valid     <- ~spoiled

\* The writer does what ByteStack promises: the bytes of its calls in their
\* order, those of a fork behind their number, and buffers of just these bytes,
\* which stay; until finish has used up a 64-bit operation.
Promise == Stack!Spec
=============================================================================
