----------------------------- MODULE SnowflakeId -----------------------------
(***************************************************************************)
(* CommonIdGenerator: the generator object every thread of one JVM shares. *)
(* The object is created by the double-checked locking of getInstance;     *)
(* nextId runs under the object's monitor, reads the wall clock, which may *)
(* step back, and waits for the next millisecond when the sequence of the  *)
(* current one is used up.  The worker id is a static field the ZooKeeper  *)
(* listener writes at any time, outside the monitor.                       *)
(***************************************************************************)
EXTENDS SnowflakeLayout, Sequences

CONSTANTS
  Threads,          \* the threads that call the generator
  None,             \* null: no object, no owner
  Businesses,       \* the business ids callers pass, legal or not
  Workers,          \* the worker ids the registry assigns
  StartSequences,   \* the values of RandomUtils.nextInt(0, 10)
  MaxCalls,         \* bound: calls of nextId in a behaviour
  Horizon,          \* bound: the clock runs past it only to release a waiter
  MaxStepBacks      \* bound: how often the wall clock steps back

ASSUME ConstantsAssumption ==
  /\ None \notin Threads
  /\ Businesses \subseteq Int
  /\ Workers \subseteq 0 .. MAX_WORKER_ID
  /\ StartSequences \subseteq 0 .. SequenceSize - 1
  /\ MaxCalls \in Nat
  /\ Horizon \in Nat
  /\ MaxStepBacks \in Nat

VARIABLES
  clock,           \* System.currentTimeMillis() - twepoch
  stepBacks,       \* how often the clock has stepped back
  workerId,        \* static field CommonIdGenerator.workerId
  instance,        \* static field CommonIdGenerator.instance
  sequence,        \* field of each generator object
  lastTimestamp,   \* field of each generator object
  monitor,         \* the thread that owns each object's monitor
  pc,              \* where each thread is
  object,          \* the object a thread got from getInstance
  business,        \* the argument of a thread's call
  timestamp,       \* local variable of nextId
  calls,           \* how many calls were made
  issued           \* history: the ids returned, in the order of their return

vars == <<clock, stepBacks, workerId, instance, sequence, lastTimestamp,
          monitor, pc, object, business, timestamp, calls, issued>>

fields == <<workerId, instance, sequence, lastTimestamp>>
clocks == <<clock, stepBacks>>

\* A generator object is named by the thread whose getInstance created it.
Objects == Threads

Locations == {"idle", "getInstance", "classLock", "enter", "read",
              "tilNextMillis", "compose"}

\* The locations inside the synchronized method.
Inside == {"read", "tilNextMillis", "compose"}

TypeOK ==
  /\ clock \in 0 .. TimeSize - 1
  /\ stepBacks \in 0 .. MaxStepBacks
  /\ workerId \in 0 .. MAX_WORKER_ID
  /\ instance \in Objects \cup {None}
  /\ sequence \in [Objects -> 0 .. SequenceSize - 1]
  /\ lastTimestamp \in [Objects -> -1 .. TimeSize - 1]
  /\ monitor \in [Objects -> Threads \cup {None}]
  /\ pc \in [Threads -> Locations]
  /\ object \in [Threads -> Objects \cup {None}]
  /\ business \in [Threads -> Int]
  /\ timestamp \in [Threads -> 0 .. TimeSize - 1]
  /\ calls \in 0 .. MaxCalls
  /\ issued \in Seq(Id)

Init ==
  /\ clock = 0
  /\ stepBacks = 0
  /\ workerId = 0
  /\ instance = None
  /\ sequence = [o \in Objects |-> 0]
  /\ lastTimestamp = [o \in Objects |-> -1]
  /\ monitor = [o \in Objects |-> None]
  /\ pc = [t \in Threads |-> "idle"]
  /\ object = [t \in Threads |-> None]
  /\ business = [t \in Threads |-> 0]
  /\ timestamp = [t \in Threads |-> 0]
  /\ calls = 0
  /\ issued = <<>>

-----------------------------------------------------------------------------
(* The wall clock and the worker id.                                       *)

\* A thread waits for the clock to leave a millisecond it has used up.
AwaitsTick ==
  \E t \in Threads :
    pc[t] = "tilNextMillis" /\ clock <= lastTimestamp[object[t]]

Tick ==
  /\ clock < Horizon \/ AwaitsTick
  /\ clock + 1 < TimeSize
  /\ clock' = clock + 1
  /\ UNCHANGED <<stepBacks, fields, monitor, pc, object, business, timestamp,
                 calls, issued>>

StepBack ==
  /\ stepBacks < MaxStepBacks
  /\ stepBacks' = stepBacks + 1
  /\ clock' \in 0 .. clock - 1
  /\ UNCHANGED <<fields, monitor, pc, object, business, timestamp, calls,
                 issued>>

\* The empty `if' of setWorkerId rejects nothing.
SetWorkerId(w) ==
  /\ workerId' = w
  /\ UNCHANGED <<clocks, instance, sequence, lastTimestamp, monitor, pc, object,
                 business, timestamp, calls, issued>>

-----------------------------------------------------------------------------
(* getInstance.                                                            *)

Call(t, b) ==
  /\ pc[t] = "idle"
  /\ calls < MaxCalls
  /\ calls' = calls + 1
  /\ pc' = [pc EXCEPT ![t] = "getInstance"]
  /\ business' = [business EXCEPT ![t] = b]
  /\ UNCHANGED <<clocks, fields, monitor, object, timestamp, issued>>

\* The unlocked check finds the object.
FindInstance(t) ==
  /\ pc[t] = "getInstance"
  /\ instance # None
  /\ object' = [object EXCEPT ![t] = instance]
  /\ pc' = [pc EXCEPT ![t] = "enter"]
  /\ UNCHANGED <<clocks, fields, monitor, business, timestamp, calls, issued>>

MissInstance(t) ==
  /\ pc[t] = "getInstance"
  /\ instance = None
  /\ pc' = [pc EXCEPT ![t] = "classLock"]
  /\ UNCHANGED <<clocks, fields, monitor, object, business, timestamp, calls,
                 issued>>

\* Mutant of CreateInstance: no second check under the lock.
CreateInstanceUnchecked(t) ==
  /\ pc[t] = "classLock"
  /\ instance' = t
  /\ object' = [object EXCEPT ![t] = t]
  /\ pc' = [pc EXCEPT ![t] = "enter"]
  /\ UNCHANGED <<clocks, workerId, sequence, lastTimestamp, monitor, business,
                 timestamp, calls, issued>>

\* The block synchronized on the class, entered when nobody else is in it.
CreateInstance(t) ==
  /\ pc[t] = "classLock"
  /\ instance' = IF instance = None THEN t ELSE instance
  /\ object' = [object EXCEPT ![t] = instance']
  /\ pc' = [pc EXCEPT ![t] = "enter"]
  /\ UNCHANGED <<clocks, workerId, sequence, lastTimestamp, monitor, business,
                 timestamp, calls, issued>>

-----------------------------------------------------------------------------
(* nextId, under the monitor of the object.                                *)

\* Mutant of Enter: nextId is not synchronized.
EnterUnsynchronized(t) ==
  /\ pc[t] = "enter"
  /\ monitor' = [monitor EXCEPT ![object[t]] = t]
  /\ pc' = [pc EXCEPT ![t] = "read"]
  /\ UNCHANGED <<clocks, fields, object, business, timestamp, calls, issued>>

Enter(t) ==
  /\ pc[t] = "enter"
  /\ monitor[object[t]] = None
  /\ monitor' = [monitor EXCEPT ![object[t]] = t]
  /\ pc' = [pc EXCEPT ![t] = "read"]
  /\ UNCHANGED <<clocks, fields, object, business, timestamp, calls, issued>>

\* Return from nextId, or leave it with an exception: the monitor is free and
\* the locals are gone.
Leave(t) ==
  /\ monitor' = [monitor EXCEPT ![object[t]] = None]
  /\ object' = [object EXCEPT ![t] = None]
  /\ business' = [business EXCEPT ![t] = 0]
  /\ timestamp' = [timestamp EXCEPT ![t] = 0]
  /\ pc' = [pc EXCEPT ![t] = "idle"]

Legal(b) == b \in 0 .. MAX_BUSINESS_ID

RejectBusiness(t) ==
  /\ pc[t] = "read"
  /\ ~Legal(business[t])
  /\ Leave(t)
  /\ UNCHANGED <<clocks, fields, calls, issued>>

RejectClock(t) ==
  /\ pc[t] = "read"
  /\ Legal(business[t])
  /\ clock < lastTimestamp[object[t]]
  /\ Leave(t)
  /\ UNCHANGED <<clocks, fields, calls, issued>>

\* The millisecond of the last id: count on, and wait when the count wraps.
SameMillisecond(t) ==
  /\ pc[t] = "read"
  /\ Legal(business[t])
  /\ clock = lastTimestamp[object[t]]
  /\ sequence' = [sequence EXCEPT ![object[t]] = NextSequence(@)]
  /\ timestamp' = [timestamp EXCEPT ![t] = clock]
  /\ pc' = [pc EXCEPT ![t] =
             IF sequence'[object[t]] = 0 THEN "tilNextMillis" ELSE "compose"]
  /\ UNCHANGED <<clocks, workerId, instance, lastTimestamp, monitor, object,
                 business, calls, issued>>

\* Mutant of NewMillisecond: any other millisecond starts a new sequence, an
\* earlier one too.
OtherMillisecond(t) ==
  /\ pc[t] = "read"
  /\ Legal(business[t])
  /\ clock # lastTimestamp[object[t]]
  /\ \E s \in StartSequences : sequence' = [sequence EXCEPT ![object[t]] = s]
  /\ timestamp' = [timestamp EXCEPT ![t] = clock]
  /\ pc' = [pc EXCEPT ![t] = "compose"]
  /\ UNCHANGED <<clocks, workerId, instance, lastTimestamp, monitor, object,
                 business, calls, issued>>

\* A later millisecond: the sequence restarts at a small random number.
NewMillisecond(t) ==
  /\ pc[t] = "read"
  /\ Legal(business[t])
  /\ clock > lastTimestamp[object[t]]
  /\ \E s \in StartSequences : sequence' = [sequence EXCEPT ![object[t]] = s]
  /\ timestamp' = [timestamp EXCEPT ![t] = clock]
  /\ pc' = [pc EXCEPT ![t] = "compose"]
  /\ UNCHANGED <<clocks, workerId, instance, lastTimestamp, monitor, object,
                 business, calls, issued>>

\* Mutant of TilNextMillis: the loop never reads the clock again.
TilNeverMillis(t) ==
  /\ pc[t] = "tilNextMillis"
  /\ timestamp[t] > lastTimestamp[object[t]]
  /\ pc' = [pc EXCEPT ![t] = "compose"]
  /\ UNCHANGED <<clocks, fields, monitor, object, business, timestamp, calls,
                 issued>>

\* The last round of the busy wait; the rounds before it change nothing.
TilNextMillis(t) ==
  /\ pc[t] = "tilNextMillis"
  /\ clock > lastTimestamp[object[t]]
  /\ timestamp' = [timestamp EXCEPT ![t] = clock]
  /\ pc' = [pc EXCEPT ![t] = "compose"]
  /\ UNCHANGED <<clocks, fields, monitor, object, business, calls, issued>>

\* Remember the timestamp and put the id together, with the worker id as it
\* is now.
Compose(t) ==
  /\ pc[t] = "compose"
  /\ lastTimestamp' = [lastTimestamp EXCEPT ![object[t]] = timestamp[t]]
  /\ issued' = Append(issued, [time     |-> timestamp[t],
                               business |-> business[t],
                               worker   |-> workerId,
                               sequence |-> sequence[object[t]]])
  /\ Leave(t)
  /\ UNCHANGED <<clocks, workerId, instance, sequence, calls>>

-----------------------------------------------------------------------------
Generate(t) ==
  \/ FindInstance(t)
  \/ MissInstance(t)
  \/ CreateInstance(t)
  \/ Enter(t)
  \/ RejectBusiness(t)
  \/ RejectClock(t)
  \/ SameMillisecond(t)
  \/ NewMillisecond(t)
  \/ TilNextMillis(t)
  \/ Compose(t)

\* Every caller is served and no further call is made.
Quiescent ==
  /\ calls = MaxCalls
  /\ \A t \in Threads : pc[t] = "idle"
  /\ UNCHANGED vars

Next ==
  \/ Tick
  \/ StepBack
  \/ \E w \in Workers : SetWorkerId(w)
  \/ \E t \in Threads, b \in Businesses : Call(t, b)
  \/ \E t \in Threads : Generate(t)
  \/ Quiescent

Spec == Init /\ [][Next]_vars

\* Time passes, and the scheduler runs every thread that can take a step.
FairSpec ==
  /\ Spec
  /\ WF_vars(Tick)
  /\ \A t \in Threads : WF_vars(Generate(t))

-----------------------------------------------------------------------------
(* Properties.                                                             *)

\* "Generates a unique serial number" (CommonIdGenerator.java:100): no two
\* calls of nextId return the same long, whatever the interleaving of the
\* threads, the clock and the writes of the worker id.
UniqueIds ==
  \A i, j \in 1 .. Len(issued) : i # j => Long(issued[i]) # Long(issued[j])

\* Every id comes after all the ids returned before it, by timestamp and
\* sequence: threads that queue for the monitor never overtake the count.
IssuedInOrder ==
  \A i, j \in 1 .. Len(issued) : i < j => Precedes(issued[i], issued[j])

\* The double-checked locking of getInstance yields one object: two threads
\* never generate on different objects, whose counts would not be shared.
OneGenerator ==
  \A t, u \in Threads :
    object[t] # None /\ object[u] # None => object[t] = object[u]

\* The longs handed out so far, in the order of their return.
Returned == [i \in 1 .. Len(issued) |-> Long(issued[i])]

Source == INSTANCE UniqueIdSource WITH
            Numbers <- {Long(id) : id \in Id}, numbers <- Returned

\* The generator implements the abstract source of unique numbers: a return
\* from nextId is one HandOut, and every other step of a thread, of the clock
\* or of the registry is a stutter.
ImplementsUniqueSource == Source!Spec

\* A thread that waits for the next millisecond, holding the monitor every
\* other caller needs, returns in the end, even if the clock steps back
\* while it waits.
WaiterReturns ==
  \A t \in Threads : pc[t] = "tilNextMillis" ~> pc[t] = "idle"
=============================================================================
