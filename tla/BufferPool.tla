------------------------------ MODULE BufferPool ------------------------------
(***************************************************************************)
(* util.pool of protobuf.js, from which the writer takes its buffers in a  *)
(* browser: small buffers are views of one slab, one behind the other, and *)
(* a new slab is begun when one does not fit.  Nothing is given back.      *)
(***************************************************************************)
EXTENDS Integers, Sequences

CONSTANT SlabSize  \* 8192

ASSUME SlabAssumption == SlabSize \in Nat /\ SlabSize > 1

VARIABLES
  memory,  \* the arrays there are: sequences of bytes
  slab,    \* the one that is being filled, 0 at first
  offset,  \* where it is free
  views    \* history: the buffers handed out: array, at, and the bytes written to it

poolVars == <<memory, slab, offset, views>>

PoolInit == memory = <<>> /\ slab = 0 /\ offset = SlabSize /\ views = <<>>

Pooled(size) == 1 <= size /\ size <= SlabSize \div 2
Fits(size) == offset + size <= SlabSize

\* Mutant of Aligned: the end of the next buffer may lie in this one.
AlignedDown(n) == (n \div 8) * 8

\* To 8 bytes, although the comment says 32 bit.
Aligned(n) == IF n % 8 = 0 THEN n ELSE (n \div 8) * 8 + 8

Blank(size) == [i \in 1 .. size |-> 0]

\* array with the bytes written from at on.
Overwritten(array, at, bytes) ==
  [i \in 1 .. Len(array) |-> IF at < i /\ i <= at + Len(bytes) THEN bytes[i - at] ELSE array[i]]

\* A buffer for the bytes, at the place where in the array, and its filling.
View(array, at, bytes) == views' = Append(views, [array |-> array, at |-> at, bytes |-> bytes])

OwnArray(bytes) ==
  /\ ~Pooled(Len(bytes))
  /\ memory' = Append(memory, bytes)
  /\ View(Len(memory) + 1, 0, bytes)
  /\ UNCHANGED <<slab, offset>>

SameSlab(bytes) ==
  /\ Pooled(Len(bytes)) /\ Fits(Len(bytes))
  /\ memory' = [memory EXCEPT ![slab] = Overwritten(@, offset, bytes)]
  /\ View(slab, offset, bytes)
  /\ offset' = Aligned(offset + Len(bytes))
  /\ UNCHANGED slab

NewSlab(bytes) ==
  /\ Pooled(Len(bytes)) /\ ~Fits(Len(bytes))
  /\ memory' = Append(memory, Overwritten(Blank(SlabSize), 0, bytes))
  /\ View(Len(memory) + 1, 0, bytes)
  /\ slab' = Len(memory) + 1
  /\ offset' = Aligned(Len(bytes))

Allocate(bytes) == OwnArray(bytes) \/ SameSlab(bytes) \/ NewSlab(bytes)

PoolNext == \E bytes \in Seq(0 .. 255) : Allocate(bytes)
PoolSpec == PoolInit /\ [][PoolNext]_poolVars

\* What a buffer holds now.
Contents(v) == [i \in 1 .. Len(v.bytes) |-> memory[v.array][v.at + i]]

\* A buffer that was handed out keeps its bytes, whatever is allocated later.
BuffersKeep == \A n \in 1 .. Len(views) : Contents(views[n]) = views[n].bytes
=============================================================================
