-------------------------- MODULE SnowflakeId_proofs --------------------------
(***************************************************************************)
(* Proofs about CommonIdGenerator for any number of threads, any clock and *)
(* any widths of the fields.                                               *)
(***************************************************************************)
EXTENDS SnowflakeId, SequenceTheorems, TLAPS

USE DEF Objects

\* The masked sequence of nextId stays in its range, and is the successor
\* unless it wraps to 0.
LEMMA NextSequenceType ==
  ASSUME NEW s \in 0 .. SequenceSize - 1
  PROVE  /\ NextSequence(s) \in 0 .. SequenceSize - 1
         /\ NextSequence(s) # 0 => NextSequence(s) = s + 1
  BY LayoutAssumption DEF NextSequence

\* A thread that leaves nextId leaves it typed.
LEMMA LeaveTypes ==
  ASSUME TypeOK, NEW t \in Threads, Leave(t)
  PROVE  /\ monitor' \in [Objects -> Threads \cup {None}]
         /\ object' \in [Threads -> Objects \cup {None}]
         /\ business' \in [Threads -> Int]
         /\ timestamp' \in [Threads -> 0 .. TimeSize - 1]
         /\ pc' \in [Threads -> Locations]
<1> DEFINE Times == 0 .. TimeSize - 1
<1>1. 0 \in Times
  BY LayoutAssumption
<1>2. timestamp \in [Threads -> Times]
  BY DEF TypeOK
<1> HIDE DEF Times
<1>3. timestamp' \in [Threads -> Times]
  BY <1>1, <1>2 DEF Leave
<1>4. /\ monitor' \in [Objects -> Threads \cup {None}]
      /\ object' \in [Threads -> Objects \cup {None}]
  BY DEF Leave, TypeOK
<1>5. business' \in [Threads -> Int] /\ pc' \in [Threads -> Locations]
  BY DEF Leave, TypeOK, Locations
<1> QED
  BY <1>3, <1>4, <1>5 DEF Times

(***************************************************************************)
(* The part of the invariant every other part needs: types, one object,    *)
(* and mutual exclusion of its monitor.                                    *)
(***************************************************************************)
Positions ==
  \A t \in Threads :
    /\ pc[t] \in {"enter"} \cup Inside => object[t] # None
    /\ pc[t] \in {"idle", "getInstance", "classLock"} => object[t] = None
    /\ object[t] # None => object[t] = instance
    /\ pc[t] \in Inside => monitor[object[t]] = t
    /\ pc[t] \in {"compose", "tilNextMillis"} => Legal(business[t])

IdOfType ==
  \A t \in Threads :
    pc[t] = "compose" => timestamp[t] >= lastTimestamp[object[t]]

BInv == TypeOK /\ Positions /\ IdOfType

\* Types, one generator and the exclusion of its monitor hold initially.
THEOREM BaseInit == Init => BInv
<1> SUFFICES ASSUME Init PROVE BInv
  OBVIOUS
<1>1. TypeOK
  BY LayoutAssumption, ConstantsAssumption
  DEF Init, TypeOK, MAX_WORKER_ID, Locations
<1>2. Positions /\ IdOfType
  BY DEF Init, Positions, IdOfType, Inside
<1> QED
  BY <1>1, <1>2 DEF BInv

\* Every step of nextId, getInstance, setWorkerId and of the clock
\* preserves them.
THEOREM BaseStep == BInv /\ [Next]_vars => BInv'
<1> SUFFICES ASSUME BInv, [Next]_vars PROVE BInv'
  OBVIOUS
<1> USE DEF BInv
<1>d. DOMAIN pc = Threads /\ DOMAIN timestamp = Threads
  BY DEF TypeOK
<1>1. CASE Tick
  <2>1. TypeOK'
    BY <1>1, LayoutAssumption, ConstantsAssumption DEF Tick, TypeOK,
       MAX_WORKER_ID, fields, clocks
  <2>2. Positions'
    BY <1>1 DEF Tick, TypeOK, Positions, Inside, fields
  <2>3. IdOfType'
    BY <1>1 DEF Tick, TypeOK, Positions, IdOfType, Inside, fields, clocks
  <2> QED
    BY <2>1, <2>2, <2>3
<1>2. CASE StepBack
  <2>1. TypeOK'
    BY <1>2, LayoutAssumption, ConstantsAssumption DEF StepBack, TypeOK,
       MAX_WORKER_ID, fields, clocks
  <2>2. Positions'
    BY <1>2 DEF StepBack, TypeOK, Positions, Inside, fields
  <2>3. IdOfType'
    BY <1>2 DEF StepBack, TypeOK, Positions, IdOfType, Inside, fields, clocks
  <2> QED
    BY <2>1, <2>2, <2>3
<1>3. ASSUME NEW w \in Workers, SetWorkerId(w) PROVE BInv'
  <2>1. TypeOK'
    BY <1>3, LayoutAssumption, ConstantsAssumption DEF SetWorkerId, TypeOK,
       MAX_WORKER_ID, fields, clocks
  <2>2. Positions'
    BY <1>3 DEF SetWorkerId, TypeOK, Positions, Inside, fields
  <2>3. IdOfType'
    BY <1>3 DEF SetWorkerId, TypeOK, Positions, IdOfType, Inside, fields,
       clocks
  <2> QED
    BY <2>1, <2>2, <2>3
<1>4. ASSUME NEW t \in Threads, NEW b \in Businesses, Call(t, b) PROVE BInv'
  <2>1. TypeOK'
    <3>1. calls' \in 0 .. MaxCalls
      BY <1>4, ConstantsAssumption DEF Call, TypeOK
    <3>2. business' \in [Threads -> Int]
      BY <1>4, ConstantsAssumption DEF Call, TypeOK
    <3>3. pc' \in [Threads -> Locations]
      BY <1>4 DEF Call, TypeOK, Locations
    <3> QED
      BY <1>4, <3>1, <3>2, <3>3 DEF Call, TypeOK, fields, clocks
  <2>2. Positions'
    BY <1>4 DEF Call, TypeOK, Positions, Inside, fields
  <2>3. IdOfType'
    BY <1>4 DEF Call, TypeOK, Positions, IdOfType, Inside, fields, clocks
  <2> QED
    BY <2>1, <2>2, <2>3
<1>5. ASSUME NEW t \in Threads, FindInstance(t) PROVE BInv'
  <2>1. TypeOK'
    BY <1>5 DEF FindInstance, TypeOK, Locations, fields, clocks
  <2>2. Positions'
    BY <1>5 DEF FindInstance, TypeOK, Positions, Inside, fields
  <2>3. IdOfType'
    BY <1>5 DEF FindInstance, TypeOK, Positions, IdOfType, Inside, fields,
       clocks
  <2> QED
    BY <2>1, <2>2, <2>3
<1>6. ASSUME NEW t \in Threads, MissInstance(t) PROVE BInv'
  <2>1. TypeOK'
    BY <1>6 DEF MissInstance, TypeOK, Locations, fields, clocks
  <2>2. Positions'
    BY <1>6 DEF MissInstance, TypeOK, Positions, Inside, fields
  <2>3. IdOfType'
    BY <1>6 DEF MissInstance, TypeOK, Positions, IdOfType, Inside, fields,
       clocks
  <2> QED
    BY <2>1, <2>2, <2>3
<1>7. ASSUME NEW t \in Threads, CreateInstance(t) PROVE BInv'
  <2>1. TypeOK'
    BY <1>7 DEF CreateInstance, TypeOK, Locations, fields, clocks
  <2>2. Positions'
    BY <1>7, ConstantsAssumption DEF CreateInstance, TypeOK, Positions, Inside,
       fields
  <2>3. IdOfType'
    BY <1>7 DEF CreateInstance, TypeOK, Positions, IdOfType, Inside, fields,
       clocks
  <2> QED
    BY <2>1, <2>2, <2>3
<1>8. ASSUME NEW t \in Threads, Enter(t) PROVE BInv'
  <2>1. TypeOK'
    BY <1>8 DEF Enter, TypeOK, Locations, fields, clocks
  <2>2. Positions'
    BY <1>8, ConstantsAssumption DEF Enter, TypeOK, Positions, Inside,
       fields
  <2>3. IdOfType'
    BY <1>8 DEF Enter, TypeOK, Positions, IdOfType, Inside, fields, clocks
  <2> QED
    BY <2>1, <2>2, <2>3
<1>9. ASSUME NEW t \in Threads, RejectBusiness(t) PROVE BInv'
  <2>1. TypeOK'
    BY <1>9, LeaveTypes DEF RejectBusiness, TypeOK, fields, clocks
  <2>2. Positions'
    BY <1>9 DEF RejectBusiness, Leave, TypeOK, Positions, Inside, fields
  <2>3. IdOfType'
    BY <1>9 DEF RejectBusiness, Leave, TypeOK, Positions, IdOfType, Inside,
       fields, clocks
  <2> QED
    BY <2>1, <2>2, <2>3
<1>10. ASSUME NEW t \in Threads, RejectClock(t) PROVE BInv'
  <2>1. TypeOK'
    BY <1>10, LeaveTypes DEF RejectClock, TypeOK, fields, clocks
  <2>2. Positions'
    BY <1>10 DEF RejectClock, Leave, TypeOK, Positions, Inside, fields
  <2>3. IdOfType'
    BY <1>10 DEF RejectClock, Leave, TypeOK, Positions, IdOfType, Inside,
       fields, clocks
  <2> QED
    BY <2>1, <2>2, <2>3
<1>11. ASSUME NEW t \in Threads, SameMillisecond(t) PROVE BInv'
  <2>1. TypeOK'
    BY <1>11, NextSequenceType DEF SameMillisecond, TypeOK, Positions,
       Inside, Locations, fields, clocks
  <2>2. Positions'
    BY <1>11 DEF SameMillisecond, TypeOK, Positions, Inside, fields
  <2>3. IdOfType'
    <3>1. clock >= lastTimestamp[object[t]]
      BY <1>11 DEF SameMillisecond, TypeOK, Positions, Inside
    <3> QED
      BY <1>d, <1>11, <3>1 DEF SameMillisecond, IdOfType, fields
  <2> QED
    BY <2>1, <2>2, <2>3
<1>12. ASSUME NEW t \in Threads, NewMillisecond(t) PROVE BInv'
  <2>1. TypeOK'
    BY <1>12, ConstantsAssumption DEF NewMillisecond, TypeOK, Positions,
       Inside, Locations, fields, clocks
  <2>2. Positions'
    BY <1>12 DEF NewMillisecond, TypeOK, Positions, Inside, fields
  <2>3. IdOfType'
    <3>1. clock >= lastTimestamp[object[t]]
      BY <1>12 DEF NewMillisecond, TypeOK, Positions, Inside
    <3> QED
      BY <1>d, <1>12, <3>1 DEF NewMillisecond, IdOfType, fields
  <2> QED
    BY <2>1, <2>2, <2>3
<1>13. ASSUME NEW t \in Threads, TilNextMillis(t) PROVE BInv'
  <2>1. TypeOK'
    BY <1>13 DEF TilNextMillis, TypeOK, Locations, fields, clocks
  <2>2. Positions'
    BY <1>13 DEF TilNextMillis, TypeOK, Positions, Inside, fields
  <2>3. IdOfType'
    <3>1. clock >= lastTimestamp[object[t]]
      BY <1>13 DEF TilNextMillis, TypeOK, Positions, Inside
    <3> QED
      BY <1>d, <1>13, <3>1 DEF TilNextMillis, IdOfType, fields
  <2> QED
    BY <2>1, <2>2, <2>3
<1>14. ASSUME NEW t \in Threads, Compose(t) PROVE BInv'
  <2>1. TypeOK'
    <3>1. object[t] \in Objects /\ Legal(business[t])
      BY <1>14 DEF Compose, TypeOK, Positions, Inside
    <3>2. [time |-> timestamp[t], business |-> business[t], worker |-> workerId,
           sequence |-> sequence[object[t]]] \in Id
      BY <3>1 DEF TypeOK, Id, Legal, MAX_WORKER_ID
    <3>3. issued' \in Seq(Id)
      BY <1>14, <3>2 DEF Compose, TypeOK
    <3>4. lastTimestamp' \in [Objects -> -1 .. TimeSize - 1]
      <4> DEFINE Times == -1 .. TimeSize - 1
      <4>1. timestamp[t] \in Times /\ lastTimestamp \in [Objects -> Times]
        BY <1>14, LayoutAssumption DEF TypeOK
      <4> HIDE DEF Times
      <4>2. lastTimestamp' \in [Objects -> Times]
        BY <1>14, <3>1, <4>1 DEF Compose
      <4> QED
        BY <4>2 DEF Times
    <3> QED
      BY <1>14, <3>3, <3>4, LeaveTypes DEF Compose, TypeOK, clocks
  <2>2. Positions'
    BY <1>14 DEF Compose, Leave, TypeOK, Positions, Inside, fields
  <2>3. IdOfType'
    BY <1>14 DEF Compose, Leave, TypeOK, Positions, IdOfType, Inside, fields,
       clocks
  <2> QED
    BY <2>1, <2>2, <2>3
<1>15. CASE UNCHANGED vars
  BY <1>15 DEF vars, TypeOK, Positions, IdOfType
<1> QED
  BY <1>1, <1>2, <1>3, <1>4, <1>5, <1>6, <1>7, <1>8, <1>9, <1>10, <1>11,
     <1>12, <1>13, <1>14, <1>15 DEF Next, Generate, Quiescent
-----------------------------------------------------------------------------
(***************************************************************************)
(* The layout: fields of the right size are recovered from the number, so  *)
(* ids that differ in timestamp or sequence are different longs.           *)
(***************************************************************************)

\* A field shifted above a smaller one stays below the product of the sizes.
LEMMA ShiftBound ==
  ASSUME NEW size \in Nat \ {0}, NEW limit \in Nat \ {0},
         NEW high \in 0 .. limit - 1, NEW low \in 0 .. size - 1
  PROVE  Shift(high, size, low) \in 0 .. limit * size - 1
<1>1. high * size \in Nat /\ high * size + size \in Nat /\ limit * size \in Nat
  OBVIOUS
<1>2. (high + 1) * size <= limit * size
  OBVIOUS
<1>3. (high + 1) * size = high * size + size
  OBVIOUS
<1> QED
  BY <1>1, <1>2, <1>3 DEF Shift

\* The shift of nextId keeps its two fields apart.
LEMMA ShiftInjective ==
  ASSUME NEW size \in Nat \ {0},
         NEW h1 \in Nat, NEW l1 \in 0 .. size - 1,
         NEW h2 \in Nat, NEW l2 \in 0 .. size - 1,
         Shift(h1, size, l1) = Shift(h2, size, l2)
  PROVE  h1 = h2 /\ l1 = l2
<1>1. ASSUME NEW g \in Nat, NEW k \in Nat, g < k
      PROVE  g * size + size <= k * size
  <2>1. (g + 1) * size <= k * size
    BY <1>1
  <2> QED
    BY <2>1
<1>2. h1 * size \in Nat /\ h2 * size \in Nat
  OBVIOUS
<1>3. ~(h1 < h2) /\ ~(h2 < h1)
  BY <1>1, <1>2 DEF Shift
<1> QED
  BY <1>2, <1>3 DEF Shift

\* Two ids with one long are one id: the shifts of nextId lose no bit of the
\* millisecond, the business id, the worker id or the sequence number.
LEMMA LongInjective ==
  ASSUME NEW a \in Id, NEW b \in Id, Long(a) = Long(b)
  PROVE  a = b
<1> DEFINE Business(id) == Shift(id.time, BusinessSize, id.business)
           Datacenter(id) == Shift(Business(id), DatacenterSize, datacenterId)
           Worker(id) == Shift(Datacenter(id), WorkerSize, id.worker)
           Sequence(id) == Shift(Worker(id), SequenceSize, id.sequence)
           S1 == TimeSize * BusinessSize
           S2 == S1 * DatacenterSize
           S3 == S2 * WorkerSize
<1>s. /\ S1 \in Nat \ {0} /\ S2 \in Nat \ {0} /\ S3 \in Nat \ {0}
      /\ LongSize \in Nat \ {0} /\ LongSize = S3 * SequenceSize
  <2>1. \A m, n \in Nat \ {0} : m * n \in Nat \ {0}
    OBVIOUS
  <2>2. S1 \in Nat \ {0}
    BY <2>1, LayoutAssumption
  <2>3. S2 \in Nat \ {0}
    BY <2>1, <2>2, LayoutAssumption
  <2>4. S3 \in Nat \ {0}
    BY <2>1, <2>3, LayoutAssumption
  <2>5. LongSize = S3 * SequenceSize
    BY DEF LongSize
  <2> HIDE DEF S1, S2, S3
  <2>6. S3 * SequenceSize \in Nat \ {0}
    BY <2>1, <2>4, LayoutAssumption
  <2> QED
    BY <2>2, <2>3, <2>4, <2>5, <2>6
<1> HIDE DEF S1, S2, S3
<1>1. ASSUME NEW id \in Id
      PROVE  /\ Business(id) \in 0 .. S1 - 1
             /\ Datacenter(id) \in 0 .. S2 - 1
             /\ Worker(id) \in 0 .. S3 - 1
             /\ Sequence(id) \in 0 .. LongSize - 1
  <2>1. /\ id.time \in 0 .. TimeSize - 1
        /\ id.business \in 0 .. BusinessSize - 1
        /\ id.worker \in 0 .. WorkerSize - 1
        /\ id.sequence \in 0 .. SequenceSize - 1
        /\ datacenterId \in 0 .. DatacenterSize - 1
    BY LayoutAssumption DEF Id, MAX_BUSINESS_ID, MAX_WORKER_ID, datacenterId
  <2>2. Business(id) \in 0 .. S1 - 1
    BY <2>1, ShiftBound, LayoutAssumption DEF S1
  <2> HIDE DEF Business
  <2>3. Datacenter(id) \in 0 .. S2 - 1
    BY <1>s, <2>1, <2>2, ShiftBound, LayoutAssumption DEF S2
  <2> HIDE DEF Datacenter
  <2>4. Worker(id) \in 0 .. S3 - 1
    BY <1>s, <2>1, <2>3, ShiftBound, LayoutAssumption DEF S3
  <2> HIDE DEF Worker
  <2>5. Sequence(id) \in 0 .. S3 * SequenceSize - 1
    BY <1>s, <2>1, <2>4, ShiftBound, LayoutAssumption
  <2> QED
    BY <1>s, <2>2, <2>3, <2>4, <2>5
<1>2. \A id : Bits(id) = Sequence(id)
  BY DEF Bits
<1> HIDE DEF Sequence
<1>3. ASSUME NEW id \in Id
      PROVE  Long(id) = IF 2 * Sequence(id) < LongSize
                        THEN Sequence(id) ELSE Sequence(id) - LongSize
  <2>1. Bits(id) % LongSize = Sequence(id)
    BY <1>s, <1>1, <1>2
  <2> QED
    BY <2>1 DEF Long
<1>4. Sequence(a) = Sequence(b)
  BY <1>s, <1>1, <1>3
<1>5. Worker(a) = Worker(b) /\ a.sequence = b.sequence
  <2>1. /\ a.sequence \in 0 .. SequenceSize - 1
        /\ b.sequence \in 0 .. SequenceSize - 1
    BY DEF Id
  <2>2. Worker(a) \in Nat /\ Worker(b) \in Nat
    BY <1>1, <1>s
  <2> HIDE DEF Worker
  <2> QED
    BY <1>4, <2>1, <2>2, ShiftInjective, LayoutAssumption DEF Sequence
<1>6. Datacenter(a) = Datacenter(b) /\ a.worker = b.worker
  <2>1. a.worker \in 0 .. WorkerSize - 1 /\ b.worker \in 0 .. WorkerSize - 1
    BY DEF Id, MAX_WORKER_ID
  <2>2. Datacenter(a) \in Nat /\ Datacenter(b) \in Nat
    BY <1>1, <1>s
  <2> HIDE DEF Datacenter
  <2> QED
    BY <1>5, <2>1, <2>2, ShiftInjective, LayoutAssumption
<1>7. Business(a) = Business(b)
  <2>1. datacenterId \in 0 .. DatacenterSize - 1
    BY LayoutAssumption DEF datacenterId
  <2>2. Business(a) \in Nat /\ Business(b) \in Nat
    BY <1>1, <1>s
  <2> HIDE DEF Business
  <2> QED
    BY <1>6, <2>1, <2>2, ShiftInjective, LayoutAssumption
<1>8. a.time = b.time /\ a.business = b.business
  <2>1. /\ a.business \in 0 .. BusinessSize - 1
        /\ b.business \in 0 .. BusinessSize - 1
    BY DEF Id, MAX_BUSINESS_ID
  <2>2. a.time \in Nat /\ b.time \in Nat
    BY LayoutAssumption DEF Id
  <2> QED
    BY <1>7, <2>1, <2>2, ShiftInjective, LayoutAssumption
<1> QED
  BY <1>5, <1>6, <1>8 DEF Id
-----------------------------------------------------------------------------
(***************************************************************************)
(* The counting invariant.  No id is later than the last timestamp of the  *)
(* object.  While no thread is between drawing a sequence number and       *)
(* returning it, no id of that timestamp has a larger sequence than the    *)
(* field; the number a thread has drawn is larger than all of them.        *)
(***************************************************************************)
NoIdsYet == instance = None => issued = <<>>

NoneLater ==
  \A i \in 1 .. Len(issued) :
    issued[i].time <= lastTimestamp[instance]

Counted ==
  (\A t \in Threads : pc[t] \notin {"compose", "tilNextMillis"}) =>
    \A i \in 1 .. Len(issued) :
      issued[i].time = lastTimestamp[instance]
        => issued[i].sequence <= sequence[instance]

Drawn ==
  \A t \in Threads : pc[t] = "compose" =>
    \A i \in 1 .. Len(issued) :
      issued[i].time = timestamp[t] => issued[i].sequence < sequence[object[t]]

CInv == NoIdsYet /\ NoneLater /\ Counted /\ Drawn /\ IssuedInOrder

IInv == BInv /\ CInv

\* Two threads are never inside the monitor.
LEMMA Exclusion ==
  ASSUME BInv, NEW t \in Threads, NEW u \in Threads,
         pc[t] \in Inside, pc[u] \in Inside
  PROVE  t = u
  BY DEF BInv, TypeOK, Positions, Inside

\* Every step preserves the counting of the ids of a millisecond.
THEOREM CountStep == IInv /\ [Next]_vars => CInv'
<1> SUFFICES ASSUME BInv, CInv, BInv', [Next]_vars PROVE CInv'
  BY BaseStep DEF IInv
<1> USE LayoutAssumption, ConstantsAssumption DEF CInv
<1>len. Len(issued) \in Nat /\ \A i \in 1 .. Len(issued) : issued[i] \in Id
  <2>1. issued \in Seq(Id)
    BY DEF BInv, TypeOK
  <2> QED
    BY <2>1
<1>int. \A i \in 1 .. Len(issued) :
          issued[i].time \in Int /\ issued[i].sequence \in Int
  BY <1>len DEF Id
<1>q. ASSUME issued' = issued, sequence' = sequence,
             lastTimestamp' = lastTimestamp, instance' = instance,
             \A t \in Threads : pc'[t] \in {"compose", "tilNextMillis"} =>
               /\ pc[t] = pc'[t]
               /\ object'[t] = object[t] /\ timestamp'[t] = timestamp[t],
             \A t \in Threads : pc[t] \in {"compose", "tilNextMillis"} =>
               pc'[t] = pc[t]
      PROVE  CInv'
  BY <1>q DEF NoIdsYet, NoneLater, Counted, Drawn, IssuedInOrder
<1> USE DEF fields, clocks
<1>1. CASE Tick \/ StepBack \/ \E w \in Workers : SetWorkerId(w)
  BY <1>1, <1>q DEF Tick, StepBack, SetWorkerId
<1>2. ASSUME NEW t \in Threads, NEW b \in Businesses, Call(t, b) PROVE CInv'
  BY <1>2, <1>q DEF Call, BInv, TypeOK
<1>3. ASSUME NEW t \in Threads, FindInstance(t) PROVE CInv'
  BY <1>3, <1>q DEF FindInstance, BInv, TypeOK
<1>4. ASSUME NEW t \in Threads, MissInstance(t) PROVE CInv'
  BY <1>4, <1>q DEF MissInstance, BInv, TypeOK
<1>5. ASSUME NEW t \in Threads, CreateInstance(t) PROVE CInv'
  <2> USE <1>5 DEF CreateInstance
  <2>1. CASE instance # None
    BY <2>1, <1>q DEF BInv, TypeOK
  <2>2. CASE instance = None
    <3>1. issued' = <<>>
      BY <2>2 DEF NoIdsYet
    <3>2. Len(issued') = 0
      BY <3>1
    <3> QED
      BY <3>1, <3>2 DEF NoIdsYet, NoneLater, Counted, Drawn, IssuedInOrder
  <2> QED
    BY <2>1, <2>2
<1>6. ASSUME NEW t \in Threads, Enter(t) PROVE CInv'
  BY <1>6, <1>q DEF Enter, BInv, TypeOK
<1>7. ASSUME NEW t \in Threads, RejectBusiness(t) \/ RejectClock(t) PROVE CInv'
  <2>1. /\ UNCHANGED <<issued, sequence, lastTimestamp, instance>>
        /\ pc[t] = "read"
        /\ pc' = [pc EXCEPT ![t] = "idle"]
        /\ object' = [object EXCEPT ![t] = None]
        /\ timestamp' = [timestamp EXCEPT ![t] = 0]
    BY <1>7 DEF RejectBusiness, RejectClock, Leave
  <2> QED
    BY <1>q, <2>1 DEF BInv, TypeOK
<1>8. ASSUME NEW t \in Threads, SameMillisecond(t) PROVE CInv'
  <2> USE <1>8 DEF SameMillisecond
  <2>1. object[t] = instance /\ instance \in Threads
    BY DEF BInv, TypeOK, Positions, Inside
  <2>2. \A u \in Threads \ {t} : pc[u] \notin Inside
    BY Exclusion DEF Inside
  <2>3. sequence'[instance] = NextSequence(sequence[instance])
    BY <2>1 DEF BInv, TypeOK
  <2>4. \A i \in 1 .. Len(issued) :
          issued[i].time = lastTimestamp[instance]
            => issued[i].sequence <= sequence[instance]
    BY <2>2 DEF Counted, Inside
  <2>5. NoIdsYet' /\ NoneLater' /\ IssuedInOrder'
    BY DEF NoIdsYet, NoneLater, IssuedInOrder
  <2>6. Counted'
    BY DEF Counted, BInv, TypeOK
  <2>7. Drawn'
    <3> SUFFICES ASSUME pc'[t] = "compose"
                 PROVE  \A i \in 1 .. Len(issued) :
                          issued[i].time = timestamp'[t]
                            => issued[i].sequence < sequence'[instance]
      BY <2>1, <2>2 DEF Drawn, BInv, TypeOK, Inside
    <3>1. timestamp'[t] = lastTimestamp[instance]
      BY <2>1 DEF BInv, TypeOK
    <3>2. sequence'[instance] = sequence[instance] + 1
      <4>1. NextSequence(sequence[instance]) # 0
        BY <2>1, <2>3 DEF BInv, TypeOK
      <4> QED
        BY <2>1, <2>3, <4>1, NextSequenceType DEF BInv, TypeOK
    <3>3. sequence[instance] \in Int
      BY <2>1 DEF BInv, TypeOK
    <3> QED
      BY <2>4, <3>1, <3>2, <3>3, <1>int
  <2> QED
    BY <2>5, <2>6, <2>7
<1>9. ASSUME NEW t \in Threads, NewMillisecond(t) PROVE CInv'
  <2> USE <1>9 DEF NewMillisecond
  <2>1. object[t] = instance /\ instance \in Threads
    BY DEF BInv, TypeOK, Positions, Inside
  <2>2. \A u \in Threads \ {t} : pc[u] \notin Inside
    BY Exclusion DEF Inside
  <2>3. NoIdsYet' /\ NoneLater' /\ IssuedInOrder'
    BY DEF NoIdsYet, NoneLater, IssuedInOrder
  <2>4. Counted'
    BY DEF Counted, BInv, TypeOK
  <2>5. Drawn'
    <3>1. /\ timestamp'[t] = clock /\ clock \in Int
          /\ lastTimestamp[instance] \in Int
          /\ clock > lastTimestamp[instance]
      BY <2>1 DEF BInv, TypeOK
    <3>2. \A i \in 1 .. Len(issued) : issued[i].time # timestamp'[t]
      BY <3>1, <1>int DEF NoneLater
    <3> QED
      BY <2>2, <3>2 DEF Drawn, BInv, TypeOK, Inside
  <2> QED
    BY <2>3, <2>4, <2>5
<1>10. ASSUME NEW t \in Threads, TilNextMillis(t) PROVE CInv'
  <2> USE <1>10 DEF TilNextMillis
  <2>1. object[t] = instance /\ instance \in Threads
    BY DEF BInv, TypeOK, Positions, Inside
  <2>2. \A u \in Threads \ {t} : pc[u] \notin Inside
    BY Exclusion DEF Inside
  <2>3. NoIdsYet' /\ NoneLater' /\ IssuedInOrder'
    BY DEF NoIdsYet, NoneLater, IssuedInOrder
  <2>4. Counted'
    BY DEF Counted, BInv, TypeOK
  <2>5. Drawn'
    <3>1. /\ timestamp'[t] = clock /\ clock \in Int
          /\ lastTimestamp[instance] \in Int
          /\ clock > lastTimestamp[instance]
      BY <2>1 DEF BInv, TypeOK
    <3>2. \A i \in 1 .. Len(issued) : issued[i].time # timestamp'[t]
      BY <3>1, <1>int DEF NoneLater
    <3> QED
      BY <2>2, <3>2 DEF Drawn, BInv, TypeOK, Inside
  <2> QED
    BY <2>3, <2>4, <2>5
<1>11. ASSUME NEW t \in Threads, Compose(t) PROVE CInv'
  <2> USE <1>11 DEF Compose, Leave
  <2>1. object[t] = instance /\ instance \in Threads
    BY DEF BInv, TypeOK, Positions, Inside
  <2>2. \A u \in Threads \ {t} : pc'[u] \notin {"compose", "tilNextMillis"}
    BY Exclusion DEF Inside, BInv, TypeOK
  <2> DEFINE new == [time |-> timestamp[t], business |-> business[t],
                     worker |-> workerId, sequence |-> sequence[object[t]]]
  <2>3. /\ Len(issued') = Len(issued) + 1
        /\ \A i \in 1 .. Len(issued) : issued'[i] = issued[i]
        /\ issued'[Len(issued) + 1] = new
    BY <1>len DEF BInv, TypeOK
  <2>4. /\ lastTimestamp'[instance] = timestamp[t]
        /\ timestamp[t] >= lastTimestamp[instance]
        /\ sequence' = sequence /\ instance' = instance
        /\ timestamp[t] \in Int /\ lastTimestamp[instance] \in Int
        /\ sequence[instance] \in Int
    BY <2>1 DEF BInv, TypeOK, IdOfType
  <2>5. \A i \in 1 .. Len(issued) :
          /\ issued[i].time <= timestamp[t]
          /\ issued[i].time = timestamp[t] => issued[i].sequence < new.sequence
          /\ issued[i].time \in Int /\ issued[i].sequence \in Int
    BY <2>1, <2>4, <1>len DEF NoneLater, Drawn, Id
  <2>6. new.time = timestamp[t] /\ new.sequence = sequence[instance]
    BY <2>1
  <2> HIDE DEF new
  <2>7. NoIdsYet'
    BY <2>1 DEF NoIdsYet, BInv, TypeOK
  <2>8. NoneLater'
    BY <2>3, <2>4, <2>5, <2>6, <1>len DEF NoneLater
  <2>9. Counted'
    BY <2>3, <2>4, <2>5, <2>6, <1>len DEF Counted
  <2>10. Drawn'
    BY <2>2 DEF Drawn, BInv, TypeOK
  <2>11. IssuedInOrder'
    <3> HIDE <1>11 DEF Compose, Leave
    <3> SUFFICES ASSUME NEW i \in 1 .. Len(issued) + 1,
                        NEW j \in 1 .. Len(issued) + 1, i < j
                 PROVE  Precedes(issued'[i], issued'[j])
      BY <2>3 DEF IssuedInOrder
    <3>1. i \in 1 .. Len(issued)
      BY <1>len
    <3>2. CASE j \in 1 .. Len(issued)
      BY <2>3, <3>1, <3>2 DEF IssuedInOrder
    <3>3. CASE j = Len(issued) + 1
      <4>1. Precedes(issued[i], new)
        BY <2>5, <2>6, <3>1, <2>4 DEF Precedes
      <4> QED
        BY <2>3, <3>1, <3>3, <4>1
    <3>4. j \in 1 .. Len(issued) \/ j = Len(issued) + 1
      BY <1>len
    <3> QED
      BY <3>2, <3>3, <3>4
  <2> QED
    BY <2>7, <2>8, <2>9, <2>10, <2>11
<1>12. CASE UNCHANGED vars
  BY <1>12, <1>q DEF vars
<1> QED
  BY <1>1, <1>2, <1>3, <1>4, <1>5, <1>6, <1>7, <1>8, <1>9, <1>10, <1>11,
     <1>12 DEF Next, Generate, Quiescent

\* The inductive invariant holds in every behaviour.
LEMMA Invariance == Spec => []IInv
<1>1. Init => IInv
  <2>1. Init => CInv
    BY DEF Init, CInv, NoIdsYet, NoneLater, Counted, Drawn, IssuedInOrder
  <2> QED
    BY <2>1, BaseInit DEF IInv
<1>2. IInv /\ [Next]_vars => IInv'
  BY BaseStep, CountStep DEF IInv
<1> QED
  BY <1>1, <1>2, PTL DEF Spec

-----------------------------------------------------------------------------
(* The theorems.                                                           *)

\* The fields, the locals of every thread and the ids keep their types.
THEOREM TypeCorrect == Spec => []TypeOK
<1>1. IInv => TypeOK
  BY DEF IInv, BInv
<1> QED
  BY <1>1, Invariance, PTL

\* The double-checked locking of getInstance yields one generator object.
THEOREM Singleton == Spec => []OneGenerator
<1>1. IInv => OneGenerator
  BY DEF IInv, BInv, Positions, OneGenerator
<1> QED
  BY <1>1, Invariance, PTL

\* Ids are returned in the order of their timestamps and sequences.
THEOREM Ordered == Spec => []IssuedInOrder
<1>1. IInv => IssuedInOrder
  BY DEF IInv, CInv
<1> QED
  BY <1>1, Invariance, PTL

\* Ids issued in increasing order are different longs.
LEMMA UniqueFromInvariant == IInv => UniqueIds
<1> SUFFICES ASSUME IInv,
                    NEW i \in 1 .. Len(issued), NEW j \in 1 .. Len(issued),
                    i # j, Long(issued[i]) = Long(issued[j])
             PROVE  FALSE
  BY DEF UniqueIds
<1>1. issued[i] \in Id /\ issued[j] \in Id /\ i \in Int /\ j \in Int
  BY DEF IInv, BInv, TypeOK
<1>2. issued[i].time = issued[j].time /\ issued[i].sequence = issued[j].sequence
  BY <1>1, LongInjective
<1>3. /\ issued[i].time \in Int /\ issued[j].time \in Int
      /\ issued[i].sequence \in Int /\ issued[j].sequence \in Int
  BY <1>1 DEF Id
<1> QED
  BY <1>1, <1>2, <1>3 DEF IInv, CInv, IssuedInOrder, Precedes

\* nextId never returns a long twice: the ids differ in timestamp or sequence,
\* and the layout keeps both.
THEOREM Unique == Spec => []UniqueIds
  BY UniqueFromInvariant, Invariance, PTL

\* Returning an id appends its long to the list of the abstract source.
LEMMA ReturnedExtends ==
  ASSUME issued \in Seq(Id), NEW id \in Id, issued' = Append(issued, id)
  PROVE  Returned' = Append(Returned, Long(id))
<1>1. /\ Len(issued) \in Nat /\ Len(issued') = Len(issued) + 1
      /\ \A i \in 1 .. Len(issued) : issued'[i] = issued[i]
      /\ issued'[Len(issued) + 1] = id
  OBVIOUS
<1>2. Returned \in [1 .. Len(issued) -> {Long(x) : x \in Id}]
  BY DEF Returned
<1>3. Returned \in Seq({Long(x) : x \in Id}) /\ Len(Returned) = Len(issued)
  BY <1>1, <1>2
<1> DEFINE longer == Append(Returned, Long(id))
<1>4. /\ longer \in Seq({Long(x) : x \in Id})
      /\ Len(longer) = Len(issued) + 1
      /\ \A i \in 1 .. Len(issued) : longer[i] = Returned[i]
      /\ longer[Len(issued) + 1] = Long(id)
  BY <1>1, <1>3
<1>5. Returned' = [i \in 1 .. Len(issued) + 1 |-> Long(issued'[i])]
  BY <1>1 DEF Returned
<1>6. \A i \in 1 .. Len(issued) + 1 : longer[i] = Long(issued'[i])
  BY <1>1, <1>4 DEF Returned
<1>7. \A i \in 1 .. Len(issued) + 1 : Long(issued'[i]) \in {Long(x) : x \in Id}
  <2>1. \A i \in 1 .. Len(issued) + 1 : issued'[i] \in Id
    BY <1>1
  <2> QED
    BY <2>1
<1>8. /\ Returned' \in Seq({Long(x) : x \in Id})
      /\ Len(Returned') = Len(longer)
      /\ \A i \in 1 .. Len(Returned') : Returned'[i] = longer[i]
  BY <1>1, <1>4, <1>5, <1>6, <1>7
<1> HIDE DEF longer
<1>9. Returned' = longer
  BY <1>4, <1>8, SeqEqual
<1> QED
  BY <1>9 DEF longer

\* CommonIdGenerator implements the abstract source of unique numbers.
THEOREM Implementation == Spec => ImplementsUniqueSource
<1>1. Init => Source!Init
  <2>1. ASSUME issued = <<>> PROVE Returned = <<>>
    BY <2>1 DEF Returned
  <2> QED
    BY <2>1 DEF Init, Source!Init
<1>2. IInv /\ IInv' /\ [Next]_vars => [Source!Next]_Returned
  <2> SUFFICES ASSUME IInv, IInv', [Next]_vars, Returned' # Returned
               PROVE  Source!Next
    OBVIOUS
  <2>1. ASSUME issued' = issued PROVE FALSE
    BY <2>1 DEF Returned
  <2>2. PICK t \in Threads : Compose(t)
    BY <2>1 DEF Next, Generate, Tick, StepBack, SetWorkerId, Call, FindInstance,
       MissInstance, CreateInstance, Enter, RejectBusiness, RejectClock,
       SameMillisecond, NewMillisecond, TilNextMillis, Quiescent, vars
  <2> DEFINE id == [time |-> timestamp[t], business |-> business[t],
                    worker |-> workerId, sequence |-> sequence[object[t]]]
  <2>3. /\ issued' = Append(issued, id)
        /\ issued \in Seq(Id) /\ issued' \in Seq(Id)
    BY <2>2 DEF Compose, IInv, BInv, TypeOK
  <2> HIDE DEF id
  <2>4. Len(issued) \in Nat /\ Len(issued') = Len(issued) + 1
    BY <2>3
  <2>5. id \in Id /\ issued'[Len(issued) + 1] = id
        /\ \A i \in 1 .. Len(issued) : issued'[i] = issued[i]
    <3>1. issued'[Len(issued) + 1] = id
          /\ \A i \in 1 .. Len(issued) : issued'[i] = issued[i]
      BY <2>3
    <3> QED
      BY <2>3, <2>4, <3>1
  <2>6. Returned' = Append(Returned, Long(id))
    BY <2>3, <2>5, ReturnedExtends
  <2>7. Long(id) \notin Source!Given
    <3>1. UniqueIds'
      BY UniqueFromInvariant, PTL
    <3>2. \A i \in 1 .. Len(issued) : Long(issued[i]) # Long(id)
      BY <2>4, <2>5, <3>1 DEF UniqueIds
    <3>3. Len(Returned) = Len(issued)
      BY <2>4 DEF Returned
    <3> QED
      BY <3>2, <3>3 DEF Source!Given, Returned
  <2> QED
    BY <2>5, <2>6, <2>7 DEF Source!Next, Source!HandOut
<1> QED
  BY <1>1, <1>2, Invariance, PTL DEF ImplementsUniqueSource, Source!Spec, Spec
=============================================================================
