--------------------------- MODULE SnowflakeLayout ---------------------------
(***************************************************************************)
(* The layout of the 64-bit numbers CommonIdGenerator hands out: from the  *)
(* most significant end the milliseconds since `twepoch', the business     *)
(* id, the data centre id, the worker id and the sequence number.  The     *)
(* widths of the fields are parameters, given as the number of values each *)
(* field can hold (2^10 sequence numbers, 2^5 workers, ... in the code).   *)
(***************************************************************************)
EXTENDS Integers

CONSTANTS
  SequenceSize,     \* 1 << SEQUENCE_BITS
  WorkerSize,       \* 1 << WORKER_ID_BITS
  DatacenterSize,   \* 1 << DATACENTER_ID_BITS
  BusinessSize,     \* 1 << BUSINESS_ID_BITS
  TimeSize          \* number of values of the bits left for the timestamp

ASSUME LayoutAssumption ==
  /\ SequenceSize \in Nat \ {0, 1}
  /\ WorkerSize \in Nat \ {0}
  /\ DatacenterSize \in Nat \ {0}
  /\ BusinessSize \in Nat \ {0}
  /\ TimeSize \in Nat \ {0}

MAX_WORKER_ID   == WorkerSize - 1
MAX_BUSINESS_ID == BusinessSize - 1

\* The data centre id is never configured (a TODO in the code).
datacenterId == 0

\* The parts of an id, before they are shifted together.
Id == [time : 0 .. TimeSize - 1, business : 0 .. MAX_BUSINESS_ID,
       worker : 0 .. MAX_WORKER_ID, sequence : 0 .. SequenceSize - 1]

\* (sequence + 1) & sequenceMask
NextSequence(sequence) == (sequence + 1) % SequenceSize

\* One shift-and-or: the low field holds `size' values.
Shift(high, size, low) == high * size + low

\* The fields of an id shifted together, before the sign bit is looked at.
Bits(id) ==
  Shift(Shift(Shift(Shift(id.time, BusinessSize, id.business),
                    DatacenterSize, datacenterId),
              WorkerSize, id.worker),
        SequenceSize, id.sequence)

\* The number of bit patterns of a long.
LongSize == TimeSize * BusinessSize * DatacenterSize * WorkerSize * SequenceSize

\* The long nextId returns: its top bit is a sign bit, so the second half of
\* the representable time yields negative numbers.
Long(id) ==
  LET pattern == Bits(id) % LongSize
  IN  IF 2 * pattern < LongSize THEN pattern ELSE pattern - LongSize

\* a was generated before b, by the fields a single generator counts with.
Precedes(a, b) ==
  \/ a.time < b.time
  \/ a.time = b.time /\ a.sequence < b.sequence
=============================================================================
