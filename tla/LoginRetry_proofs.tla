--------------------------- MODULE LoginRetry_proofs ---------------------------
(***************************************************************************)
(* Proofs about LoginRetry for any threads, users and maximum, and that it *)
(* implements RetryPolicy.                                                 *)
(***************************************************************************)
EXTENDS LoginRetry, FiniteSetTheorems, TLAPS

(***************************************************************************)
(* The ranges of the counters: an attempt that is counted has read the     *)
(* counter, and one that has failed is over.                               *)
(***************************************************************************)
Waiting == {t \in Threads : pc[t] = "get"}
Busy == {t \in Threads : pc[t] # "idle"}

HaveRead == attempts - Cardinality(Waiting)
AreOver == attempts - Cardinality(Busy)

Types ==
  /\ db \in [Names -> Nat \cup {Absent}]
  /\ ExpiringKeysExist
  /\ pc \in [Threads -> {"idle", "get", "set", "expire", "match", "remove"}]
  /\ name \in [Threads -> Names \cup {Absent}]
  /\ \A t \in Threads : pc[t] # "idle" => name[t] \in Names
  /\ retryCount \in [Threads -> Nat]
  /\ correct \in [Threads -> BOOLEAN]
  /\ answer \in [Names -> {"none", "ok", "failed", "locked", "error"}]
  /\ failed \in [Names -> Nat]
  /\ broken \subseteq Names
  /\ attempts \in 0 .. MaxAttempts
  /\ faults \in 0 .. MaxFaults

Counted ==
  /\ IsFiniteSet(Waiting) /\ HaveRead >= 0
  /\ \A u \in Names : db[u] # Absent => db[u] < HaveRead
  /\ \A t \in Threads :
       \/ pc[t] \in {"idle", "get"} /\ retryCount[t] = 0
       \/ retryCount[t] < HaveRead

Compared ==
  /\ IsFiniteSet(Busy)
  /\ \A u \in Names : failed[u] <= AreOver

(***************************************************************************)
(* An attempt of a user whose attempts do not overlap is the only one, and *)
(* its local count is the counter's: the next one before it is written,    *)
(* the same one after, and no maximum while it compares.                   *)
(***************************************************************************)
Only ==
  \A u \in Alone, t, o \in Threads :
    pc[t] # "idle" /\ pc[o] # "idle" /\ name[t] = u /\ name[o] = u => t = o

Follows(t) ==
  /\ pc[t] = "set" => retryCount[t] = NextCount(name[t])
  /\ pc[t] \in {"expire", "match", "remove"} => db[name[t]] = retryCount[t]
  /\ pc[t] \in {"match", "remove"} => retryCount[t] < MaxRetry

LocalCount == \A t \in Threads : name[t] \in Alone => Follows(t)

RetryInv == Types /\ Counted /\ Compared /\ CountersExpire /\ Only /\ LocalCount

-----------------------------------------------------------------------------
(* Every step is one of these, with its thread or user.                    *)
LEMMA Steps ==
  ASSUME [Next]_vars
  PROVE  \/ UNCHANGED vars
         \/ \E t \in Threads :
              \/ Read(t) \/ Set(t) \/ Expire(t) \/ Match(t) \/ Remove(t)
              \/ Break(t) \/ LoseReply(t)
              \/ \E u \in Names, c \in BOOLEAN : Login(t, u, c)
         \/ \E u \in Names : HourPasses(u)
BY DEF Next, Attempt

-----------------------------------------------------------------------------
(* Types.                                                                  *)

LEMMA InitInv == Init => RetryInv
<1> SUFFICES ASSUME Init PROVE RetryInv
  OBVIOUS
<1> USE RetryAssumption DEF Init, RedisInit, Names
<1>1. Types
  BY DEF Types, ExpiringKeysExist
<1>2. Waiting = {} /\ Busy = {}
  BY DEF Waiting, Busy
<1>3. Counted /\ Compared
  BY <1>2, FS_EmptySet DEF Counted, Compared, HaveRead, AreOver
<1>4. CountersExpire /\ Only /\ LocalCount
  BY DEF CountersExpire, Only, LocalCount, Follows
<1> QED
  BY <1>1, <1>3, <1>4 DEF RetryInv

LocalTypes ==
  /\ pc \in [Threads -> {"idle", "get", "set", "expire", "match", "remove"}]
  /\ name \in [Threads -> Names \cup {Absent}]
  /\ \A t \in Threads : pc[t] # "idle" => name[t] \in Names
  /\ retryCount \in [Threads -> Nat]
  /\ correct \in [Threads -> BOOLEAN]
  /\ answer \in [Names -> {"none", "ok", "failed", "locked", "error"}]

LEMMA AnswerTypes ==
  ASSUME Types, NEW t \in Threads,
         NEW reply \in {"ok", "failed", "locked", "error"}, Answer(t, reply)
  PROVE  LocalTypes'
BY DEF Types, LocalTypes, Answer

LEMMA NextTypes == Types /\ [Next]_vars => Types'
<1> SUFFICES ASSUME Types, [Next]_vars PROVE Types'
  OBVIOUS
<1> USE RetryAssumption
    DEF Types, ExpiringKeysExist, Names, At, Go, locals, bounds, redis
<1>1. CASE UNCHANGED vars
  BY <1>1 DEF vars
<1>2. ASSUME NEW t \in Threads, Read(t) PROVE Types'
  <2>1. name[t] \in Keys
    BY <1>2 DEF Read
  <2>2. NextCount(name[t]) \in Nat
    BY <2>1 DEF NextCount, Get
  <2> QED
    BY <1>2, <2>2 DEF Read
<1>3. ASSUME NEW t \in Threads, Set(t) PROVE Types'
  <2>1. name[t] \in Keys
    BY <1>3 DEF Set
  <2>2. db' = [db EXCEPT ![name[t]] = retryCount[t]]
        /\ expiring' = expiring \ {name[t]}
    BY <1>3 DEF Set, SetCommand
  <2>3. db' \in [Keys -> Nat \cup {Absent}] /\ ExpiringKeysExist'
    BY <2>1, <2>2
  <2> QED
    BY <1>3, <2>3 DEF Set
<1>4. ASSUME NEW t \in Threads, Expire(t) PROVE Types'
  <2>1. ExpiringKeysExist' /\ UNCHANGED db
    BY <1>4 DEF Expire, ExpireCommand
  <2>2. CASE retryCount[t] >= MaxRetry
    <3>1. LocalTypes'
      BY <1>4, <2>2, AnswerTypes DEF Expire
    <3> QED
      BY <1>4, <2>1, <3>1 DEF Expire, LocalTypes
  <2>3. CASE ~(retryCount[t] >= MaxRetry)
    BY <1>4, <2>1, <2>3 DEF Expire
  <2> QED
    BY <2>2, <2>3
<1>5. ASSUME NEW t \in Threads, Match(t) PROVE Types'
  <2>1. UNCHANGED <<db, expiring, broken, attempts, faults>>
    BY <1>5 DEF Match
  <2>2. CASE correct[t]
    BY <1>5, <2>1, <2>2 DEF Match
  <2>3. CASE ~correct[t]
    <3>1. LocalTypes' /\ failed' = [failed EXCEPT ![name[t]] = @ + 1]
      BY <1>5, <2>3, AnswerTypes DEF Match
    <3>2. name[t] \in Keys /\ failed \in [Keys -> Nat]
      BY <1>5 DEF Match
    <3>3. failed[name[t]] + 1 \in Nat
      BY <3>2
    <3>4. failed' \in [Keys -> Nat]
      BY <3>1, <3>2, <3>3
    <3> QED
      BY <2>1, <3>1, <3>4 DEF LocalTypes
  <2> QED
    BY <2>2, <2>3
<1>6. ASSUME NEW t \in Threads, Remove(t) PROVE Types'
  <2>1. ExpiringKeysExist' /\ db' \in [Keys -> Nat \cup {Absent}]
    BY <1>6 DEF Remove, DelCommand
  <2>2. LocalTypes'
    BY <1>6, AnswerTypes DEF Remove
  <2> QED
    BY <1>6, <2>1, <2>2 DEF Remove, LocalTypes
<1>7. ASSUME NEW t \in Threads, Break(t) PROVE Types'
  <2>1. LocalTypes'
    BY <1>7, AnswerTypes DEF Break, Breaks
  <2>2. broken' \subseteq Names /\ faults' \in 0 .. MaxFaults
    BY <1>7 DEF Break, Breaks
  <2> QED
    BY <1>7, <2>1, <2>2 DEF Break, Breaks, LocalTypes
<1>10. ASSUME NEW t \in Threads, LoseReply(t) PROVE Types'
  <2>1. LocalTypes'
    BY <1>10, AnswerTypes DEF LoseReply, Breaks
  <2>2. /\ broken' \subseteq Names /\ faults' \in 0 .. MaxFaults
        /\ attempts' = attempts
    BY <1>10 DEF LoseReply, Breaks
  <2>3. ExpiringKeysExist' /\ db' \in [Keys -> Nat \cup {Absent}]
    <3>1. CASE SetCommand(name[t], retryCount[t])
      BY <3>1 DEF SetCommand
    <3>2. CASE ExpireCommand(name[t])
      BY <3>2 DEF ExpireCommand
    <3>3. CASE DelCommand(name[t])
      BY <3>3 DEF DelCommand
    <3> QED
      BY <1>10, <3>1, <3>2, <3>3 DEF LoseReply
  <2>4. failed' \in [Names -> Nat]
    BY <1>10 DEF LoseReply
  <2> QED
    BY <2>1, <2>2, <2>3, <2>4 DEF LocalTypes
<1>8. ASSUME NEW t \in Threads, NEW u \in Names, NEW c \in BOOLEAN,
             Login(t, u, c)
      PROVE  Types'
  BY <1>8 DEF Login
<1>9. ASSUME NEW u \in Names, HourPasses(u) PROVE Types'
  <2>1. ExpiringKeysExist' /\ db' \in [Keys -> Nat \cup {Absent}]
    BY <1>9 DEF HourPasses, TimeToLivePasses, DelCommand
  <2> QED
    BY <1>9, <2>1 DEF HourPasses
<1> HIDE DEF Types
<1> QED
  BY <1>1, <1>2, <1>3, <1>4, <1>5, <1>6, <1>7, <1>8, <1>9, <1>10, Steps

-----------------------------------------------------------------------------
(* How many attempts have read the counter and how many are over.          *)

\* Every step moves at most one thread, and only a new attempt gets "get".
LEMMA OneMoves ==
  ASSUME Types, [Next]_vars
  PROVE  \/ pc' = pc /\ attempts' = attempts
         \/ \E t \in Threads, label \in {"idle", "set", "expire", "match",
                                         "remove"} :
              /\ pc[t] # "idle" /\ attempts' = attempts
              /\ pc' = [pc EXCEPT ![t] = label]
         \/ \E t \in Threads :
              /\ pc[t] = "idle" /\ attempts' = attempts + 1
              /\ pc' = [pc EXCEPT ![t] = "get"]
<1> USE DEF At, Go, Answer, locals, bounds
<1>1. CASE UNCHANGED vars
  BY <1>1 DEF vars
<1>2. ASSUME NEW t \in Threads,
             \/ Read(t) \/ Set(t) \/ Remove(t)
             \/ Break(t) \/ LoseReply(t)
      PROVE  \E label \in {"idle", "set", "expire", "match", "remove"} :
               /\ pc[t] # "idle" /\ attempts' = attempts
               /\ pc' = [pc EXCEPT ![t] = label]
  BY <1>2 DEF Read, Set, Remove, Break, LoseReply, Breaks
<1>3. ASSUME NEW t \in Threads, Expire(t) \/ Match(t)
      PROVE  \E label \in {"idle", "set", "expire", "match", "remove"} :
               /\ pc[t] # "idle" /\ attempts' = attempts
               /\ pc' = [pc EXCEPT ![t] = label]
  BY <1>3 DEF Expire, Match
<1>4. ASSUME NEW t \in Threads, NEW u \in Names, NEW c \in BOOLEAN,
             Login(t, u, c)
      PROVE  /\ pc[t] = "idle" /\ attempts' = attempts + 1
             /\ pc' = [pc EXCEPT ![t] = "get"]
  BY <1>4 DEF Login
<1>5. ASSUME NEW u \in Names, HourPasses(u)
      PROVE  pc' = pc /\ attempts' = attempts
  BY <1>5 DEF HourPasses
<1> QED
  BY <1>1, <1>2, <1>3, <1>4, <1>5, Steps

LEMMA MoveCounts ==
  ASSUME Types, IsFiniteSet(Waiting), IsFiniteSet(Busy), NEW t \in Threads,
         NEW label, pc' = [pc EXCEPT ![t] = label]
  PROVE  /\ IsFiniteSet(Waiting') /\ IsFiniteSet(Busy')
         /\ Cardinality(Waiting) \in Nat /\ Cardinality(Waiting') \in Nat
         /\ Cardinality(Busy) \in Nat /\ Cardinality(Busy') \in Nat
         /\ Cardinality(Waiting') = Cardinality(Waiting)
              + (IF label = "get" THEN 1 ELSE 0)
              - (IF pc[t] = "get" THEN 1 ELSE 0)
         /\ Cardinality(Busy') = Cardinality(Busy)
              + (IF label # "idle" THEN 1 ELSE 0)
              - (IF pc[t] # "idle" THEN 1 ELSE 0)
<1>1. \A o \in Threads : pc'[o] = IF o = t THEN label ELSE pc[o]
  BY DEF Types
<1>2. Waiting' = IF label = "get" THEN Waiting \cup {t} ELSE Waiting \ {t}
  BY <1>1 DEF Waiting
<1>3. Busy' = IF label # "idle" THEN Busy \cup {t} ELSE Busy \ {t}
  BY <1>1 DEF Busy
<1>4. (t \in Waiting <=> pc[t] = "get") /\ (t \in Busy <=> pc[t] # "idle")
  BY DEF Waiting, Busy
<1>5. Cardinality(Waiting) \in Nat /\ Cardinality(Busy) \in Nat
  BY FS_CardinalityType
<1>6. /\ IsFiniteSet(Waiting')
      /\ Cardinality(Waiting') = Cardinality(Waiting)
           + (IF label = "get" THEN 1 ELSE 0)
           - (IF pc[t] = "get" THEN 1 ELSE 0)
  <2>1. CASE label = "get"
    BY <1>2, <1>4, <1>5, <2>1, FS_AddElement
  <2>2. CASE label # "get"
    BY <1>2, <1>4, <1>5, <2>2, FS_RemoveElement
  <2> QED
    BY <2>1, <2>2
<1>7. /\ IsFiniteSet(Busy')
      /\ Cardinality(Busy') = Cardinality(Busy)
           + (IF label # "idle" THEN 1 ELSE 0)
           - (IF pc[t] # "idle" THEN 1 ELSE 0)
  <2>1. CASE label # "idle"
    BY <1>3, <1>4, <1>5, <2>1, FS_AddElement
  <2>2. CASE label = "idle"
    BY <1>3, <1>4, <1>5, <2>2, FS_RemoveElement
  <2> QED
    BY <2>1, <2>2
<1>8. Cardinality(Waiting') \in Nat /\ Cardinality(Busy') \in Nat
  BY <1>6, <1>7, FS_CardinalityType
<1> QED
  BY <1>5, <1>6, <1>7, <1>8

LEMMA CountsGrow ==
  ASSUME Types, Counted, Compared, [Next]_vars
  PROVE  /\ IsFiniteSet(Waiting') /\ IsFiniteSet(Busy')
         /\ HaveRead \in Int /\ HaveRead' \in Int /\ HaveRead' >= HaveRead
         /\ AreOver \in Int /\ AreOver' \in Int /\ AreOver' >= AreOver
<1>1. /\ IsFiniteSet(Waiting) /\ IsFiniteSet(Busy) /\ attempts \in Nat
      /\ Cardinality(Waiting) \in Nat /\ Cardinality(Busy) \in Nat
  BY FS_CardinalityType DEF Counted, Compared, Types
<1>2. CASE pc' = pc /\ attempts' = attempts
  BY <1>1, <1>2 DEF HaveRead, AreOver, Waiting, Busy
<1>3. ASSUME NEW t \in Threads,
             NEW label \in {"idle", "set", "expire", "match", "remove"},
             pc[t] # "idle", attempts' = attempts,
             pc' = [pc EXCEPT ![t] = label]
      PROVE  /\ IsFiniteSet(Waiting') /\ IsFiniteSet(Busy')
             /\ HaveRead' \in Int /\ HaveRead' >= HaveRead
             /\ AreOver' \in Int /\ AreOver' >= AreOver
  <2>1. /\ IsFiniteSet(Waiting') /\ IsFiniteSet(Busy')
        /\ Cardinality(Waiting') \in Nat /\ Cardinality(Busy') \in Nat
        /\ Cardinality(Waiting') = Cardinality(Waiting)
             + (IF label = "get" THEN 1 ELSE 0)
             - (IF pc[t] = "get" THEN 1 ELSE 0)
        /\ Cardinality(Busy') = Cardinality(Busy)
             + (IF label # "idle" THEN 1 ELSE 0)
             - (IF pc[t] # "idle" THEN 1 ELSE 0)
    BY <1>1, <1>3, MoveCounts
  <2> QED
    BY <1>1, <1>3, <2>1 DEF HaveRead, AreOver
<1>4. ASSUME NEW t \in Threads, pc[t] = "idle", attempts' = attempts + 1,
             pc' = [pc EXCEPT ![t] = "get"]
      PROVE  /\ IsFiniteSet(Waiting') /\ IsFiniteSet(Busy')
             /\ HaveRead' \in Int /\ HaveRead' >= HaveRead
             /\ AreOver' \in Int /\ AreOver' >= AreOver
  <2>1. /\ IsFiniteSet(Waiting') /\ IsFiniteSet(Busy')
        /\ Cardinality(Waiting') \in Nat /\ Cardinality(Busy') \in Nat
        /\ Cardinality(Waiting') = Cardinality(Waiting)
             + (IF "get" = "get" THEN 1 ELSE 0)
             - (IF pc[t] = "get" THEN 1 ELSE 0)
        /\ Cardinality(Busy') = Cardinality(Busy)
             + (IF "get" # "idle" THEN 1 ELSE 0)
             - (IF pc[t] # "idle" THEN 1 ELSE 0)
    BY <1>1, <1>4, MoveCounts
  <2> QED
    BY <1>1, <1>4, <2>1 DEF HaveRead, AreOver
<1>5. HaveRead \in Int /\ AreOver \in Int
  BY <1>1 DEF HaveRead, AreOver
<1> QED
  BY <1>2, <1>3, <1>4, <1>5, OneMoves

\* What the counters, local counts and failures may become.
CountsStay(t) ==
  /\ \A u \in Names : db'[u] = db[u] \/ db'[u] = Absent
  /\ \A o \in Threads :
       o # t => retryCount'[o] = retryCount[o] /\ pc'[o] = pc[o]

LEMMA CountedStays ==
  ASSUME Types, Counted, Compared, [Next]_vars, NEW t \in Threads,
         CountsStay(t),
         \/ pc'[t] \in {"idle", "get"} /\ retryCount'[t] = 0
         \/ retryCount'[t] < HaveRead'
  PROVE  Counted'
<1>1. /\ IsFiniteSet(Waiting') /\ HaveRead \in Int /\ HaveRead' \in Int
      /\ HaveRead' >= HaveRead
  BY CountsGrow
<1>2. Types'
  BY NextTypes
<1>3. ASSUME NEW u \in Names, db'[u] # Absent PROVE db'[u] < HaveRead'
  <2>1. db'[u] = db[u] /\ db[u] < HaveRead /\ db[u] \in Nat
    BY <1>3 DEF CountsStay, Counted, Types, Names
  <2> QED
    BY <1>1, <2>1
<1>4. ASSUME NEW o \in Threads, o # t
      PROVE  \/ pc'[o] \in {"idle", "get"} /\ retryCount'[o] = 0
             \/ retryCount'[o] < HaveRead'
  <2>1. retryCount[o] \in Nat
    BY DEF Types
  <2> QED
    BY <1>1, <1>4, <2>1 DEF CountsStay, Counted
<1> QED
  BY <1>1, <1>3, <1>4 DEF Counted

LEMMA NextCounted == Types /\ Counted /\ Compared /\ [Next]_vars => Counted'
<1> SUFFICES ASSUME Types, Counted, Compared, [Next]_vars PROVE Counted'
  OBVIOUS
<1>1. /\ IsFiniteSet(Waiting) /\ HaveRead \in Int /\ HaveRead' \in Int
      /\ IsFiniteSet(Waiting') /\ HaveRead' >= HaveRead /\ HaveRead >= 0
  BY CountsGrow DEF Counted
<1>2. CASE UNCHANGED vars
  BY <1>2 DEF vars, Counted, HaveRead, Waiting, redis, locals, bounds
<1>3. ASSUME NEW t \in Threads, Read(t) PROVE Counted'
  <2>1. /\ pc[t] = "get" /\ pc' = [pc EXCEPT ![t] = "set"] /\ db' = db
        /\ retryCount' = [retryCount EXCEPT ![t] = NextCount(name[t])]
        /\ attempts' = attempts
    BY <1>3 DEF Read, At, Go, redis, bounds
  <2>2. HaveRead' = HaveRead + 1
    <3>1. /\ Cardinality(Waiting) \in Nat
          /\ Cardinality(Waiting') = Cardinality(Waiting) - 1
      <4>1. IsFiniteSet(Busy)
        BY DEF Compared
      <4>2. /\ Cardinality(Waiting) \in Nat /\ Cardinality(Waiting') \in Nat
            /\ Cardinality(Waiting') = Cardinality(Waiting)
                 + (IF "set" = "get" THEN 1 ELSE 0)
                 - (IF pc[t] = "get" THEN 1 ELSE 0)
        BY <1>1, <2>1, <4>1, MoveCounts
      <4> QED
        BY <2>1, <4>2
    <3> QED
      BY <2>1, <3>1 DEF HaveRead, Types
  <2>3. NextCount(name[t]) < HaveRead'
    <3>1. name[t] \in Names
      BY <2>1 DEF Types
    <3>2. CASE db[name[t]] = Absent
      BY <1>1, <2>2, <3>2 DEF NextCount, Get
    <3>3. CASE db[name[t]] # Absent
      BY <1>1, <2>2, <3>1, <3>3 DEF NextCount, Get, Counted, Types, Names
    <3> QED
      BY <3>2, <3>3
  <2> QED
    BY <2>1, <2>3, CountedStays DEF CountsStay, Types
<1>4. ASSUME NEW t \in Threads, Set(t) PROVE Counted'
  <2>1. /\ pc[t] = "set" /\ pc' = [pc EXCEPT ![t] = "expire"]
        /\ db' = [db EXCEPT ![name[t]] = retryCount[t]]
        /\ retryCount' = retryCount
    BY <1>4 DEF Set, SetCommand, At, Go
  <2>2. retryCount[t] < HaveRead
    BY <2>1 DEF Counted
  <2>3. \A u \in Names : db'[u] # Absent => db'[u] \in Nat /\ db'[u] < HaveRead
    BY <2>1, <2>2 DEF Types, Names, Counted
  <2>4. \A o \in Threads : retryCount[o] \in Nat
    BY DEF Types
  <2>5. \A o \in Threads : pc'[o] \in {"idle", "get"} => pc[o] = pc'[o]
    BY <2>1 DEF Types
  <2>6. \A o \in Threads :
          \/ pc'[o] \in {"idle", "get"} /\ retryCount'[o] = 0
          \/ retryCount'[o] < HaveRead'
    BY <1>1, <2>1, <2>2, <2>4, <2>5 DEF Counted, Types
  <2>7. \A u \in Names : db'[u] # Absent => db'[u] < HaveRead'
    BY <1>1, <2>3
  <2> QED
    BY <1>1, <2>6, <2>7 DEF Counted
<1>5. ASSUME NEW t \in Threads, Expire(t) PROVE Counted'
  <2>1. /\ pc[t] = "expire" /\ db' = db
        /\ \/ /\ pc' = [pc EXCEPT ![t] = "idle"]
              /\ retryCount' = [retryCount EXCEPT ![t] = 0]
           \/ /\ pc' = [pc EXCEPT ![t] = "match"]
              /\ retryCount' = retryCount
    BY <1>5 DEF Expire, ExpireCommand, At, Go, Answer
  <2>2. retryCount[t] < HaveRead /\ retryCount[t] \in Nat
    BY <2>1 DEF Counted, Types
  <2>3. CountsStay(t)
    BY <2>1 DEF CountsStay, Types
  <2>4. \/ pc'[t] \in {"idle", "get"} /\ retryCount'[t] = 0
        \/ retryCount'[t] < HaveRead'
    BY <1>1, <2>1, <2>2 DEF Types
  <2> QED
    BY <2>3, <2>4, CountedStays
<1>6. ASSUME NEW t \in Threads, Match(t) PROVE Counted'
  <2>1. /\ pc[t] = "match" /\ db' = db
        /\ \/ /\ pc' = [pc EXCEPT ![t] = "idle"]
              /\ retryCount' = [retryCount EXCEPT ![t] = 0]
           \/ /\ pc' = [pc EXCEPT ![t] = "remove"]
              /\ retryCount' = retryCount
    BY <1>6 DEF Match, At, Go, Answer, redis
  <2>2. retryCount[t] < HaveRead /\ retryCount[t] \in Nat
    BY <2>1 DEF Counted, Types
  <2>3. CountsStay(t)
    BY <2>1 DEF CountsStay, Types
  <2>4. \/ pc'[t] \in {"idle", "get"} /\ retryCount'[t] = 0
        \/ retryCount'[t] < HaveRead'
    BY <1>1, <2>1, <2>2 DEF Types
  <2> QED
    BY <2>3, <2>4, CountedStays
<1>7. ASSUME NEW t \in Threads, Remove(t) \/ Break(t) PROVE Counted'
  <2>1. /\ \A u \in Names : db'[u] = db[u] \/ db'[u] = Absent
        /\ pc' = [pc EXCEPT ![t] = "idle"]
        /\ retryCount' = [retryCount EXCEPT ![t] = 0]
    BY <1>7
    DEF Remove, Break, Breaks, DelCommand, Answer, redis, Types, Names
  <2> QED
    BY <2>1, CountedStays DEF CountsStay, Types
<1>8. ASSUME NEW t \in Threads, NEW u \in Names, NEW c \in BOOLEAN,
             Login(t, u, c)
      PROVE  Counted'
  <2>1. /\ pc[t] = "idle" /\ pc' = [pc EXCEPT ![t] = "get"] /\ db' = db
        /\ retryCount' = retryCount
    BY <1>8 DEF Login, At, redis
  <2>2. CountsStay(t)
    BY <2>1 DEF CountsStay, Types
  <2>3. \/ pc'[t] \in {"idle", "get"} /\ retryCount'[t] = 0
        \/ retryCount'[t] < HaveRead'
    BY <1>1, <2>1 DEF Types, Counted
  <2> QED
    BY <2>2, <2>3, CountedStays
<1>9. ASSUME NEW u \in Names, HourPasses(u) PROVE Counted'
  <2>1. /\ \A v \in Names : db'[v] = db[v] \/ db'[v] = Absent
        /\ pc' = pc /\ retryCount' = retryCount
    BY <1>9 DEF HourPasses, TimeToLivePasses, DelCommand, locals, Types, Names
  <2>2. \A o \in Threads : retryCount[o] \in Nat
    BY DEF Types
  <2>3. \A v \in Names : db[v] # Absent => db[v] \in Nat
    BY DEF Types, Names
  <2> QED
    BY <1>1, <2>1, <2>2, <2>3 DEF Counted
<1>10. ASSUME NEW t \in Threads, LoseReply(t) PROVE Counted'
  <2>1. /\ pc' = [pc EXCEPT ![t] = "idle"]
        /\ retryCount' = [retryCount EXCEPT ![t] = 0]
    BY <1>10 DEF LoseReply, Breaks, Answer
  <2>2. CASE pc[t] # "set"
    <3>1. \A u \in Names : db'[u] = db[u] \/ db'[u] = Absent
      BY <1>10, <2>2
      DEF LoseReply, ExpireCommand, DelCommand, At, Types, Names
    <3> QED
      BY <2>1, <3>1, CountedStays DEF CountsStay, Types
  <2>3. CASE pc[t] = "set"
    <3>1. db' = [db EXCEPT ![name[t]] = retryCount[t]]
      BY <1>10, <2>3 DEF LoseReply, SetCommand, At
    <3>2. retryCount[t] < HaveRead
      BY <2>3 DEF Counted
    <3>3. \A u \in Names : db'[u] # Absent => db'[u] \in Nat /\ db'[u] < HaveRead
      BY <3>1, <3>2 DEF Types, Names, Counted
    <3>4. \A u \in Names : db'[u] # Absent => db'[u] < HaveRead'
      BY <1>1, <3>3
    <3>5. ASSUME NEW o \in Threads
          PROVE  \/ pc'[o] \in {"idle", "get"} /\ retryCount'[o] = 0
                 \/ retryCount'[o] < HaveRead'
      <4>1. retryCount[o] \in Nat
        BY DEF Types
      <4>2. CASE o = t
        BY <2>1, <4>2 DEF Types
      <4>3. CASE o # t
        BY <1>1, <2>1, <4>1, <4>3 DEF Types, Counted
      <4> QED
        BY <4>2, <4>3
    <3> QED
      BY <1>1, <3>4, <3>5 DEF Counted
  <2> QED
    BY <2>2, <2>3
<1> QED
  BY <1>2, <1>3, <1>4, <1>5, <1>6, <1>7, <1>8, <1>9, <1>10, Steps

LEMMA NextCompared == Types /\ Counted /\ Compared /\ [Next]_vars => Compared'
<1> SUFFICES ASSUME Types, Counted, Compared, [Next]_vars PROVE Compared'
  OBVIOUS
<1>1. /\ IsFiniteSet(Waiting) /\ IsFiniteSet(Busy) /\ IsFiniteSet(Busy')
      /\ AreOver \in Int /\ AreOver' \in Int /\ AreOver' >= AreOver
  BY CountsGrow DEF Counted, Compared
<1>2. \A u \in Names : failed[u] <= AreOver /\ failed[u] \in Nat
  BY DEF Compared, Types
<1>3. ASSUME \A u \in Names : failed'[u] = failed[u] \/ failed'[u] = 0
      PROVE  Compared'
  <2>1. \A u \in Names : 0 <= AreOver
    BY <1>1, <1>2
  <2> QED
    BY <1>1, <1>2, <1>3, <2>1 DEF Compared
<1>4. ASSUME NEW t \in Threads, Match(t), ~correct[t] PROVE Compared'
  <2>1. /\ pc[t] = "match" /\ pc' = [pc EXCEPT ![t] = "idle"]
        /\ attempts' = attempts
        /\ failed' = [failed EXCEPT ![name[t]] = @ + 1]
    BY <1>4 DEF Match, At, Answer, bounds
  <2>2. AreOver' = AreOver + 1
    <3>1. /\ Cardinality(Busy) \in Nat /\ Cardinality(Busy') \in Nat
          /\ Cardinality(Busy') = Cardinality(Busy)
               + (IF "idle" # "idle" THEN 1 ELSE 0)
               - (IF pc[t] # "idle" THEN 1 ELSE 0)
      BY <1>1, <2>1, MoveCounts
    <3> QED
      BY <2>1, <3>1 DEF AreOver, Types
  <2>3. name[t] \in Names
    BY <2>1 DEF Types
  <2>4. \A u \in Names :
          failed'[u] = IF u = name[t] THEN failed[u] + 1 ELSE failed[u]
    BY <2>1, <2>3 DEF Types
  <2> QED
    BY <1>1, <1>2, <2>2, <2>4 DEF Compared
<1>5. CASE UNCHANGED vars
  BY <1>3, <1>5 DEF vars
<1>6. ASSUME NEW t \in Threads,
             Read(t) \/ Set(t) \/ Expire(t) \/ Break(t)
               \/ (Match(t) /\ correct[t])
      PROVE  Compared'
  <2>1. failed' = failed
    BY <1>6 DEF Read, Set, Expire, Break, Match
  <2> QED
    BY <1>3, <2>1
<1>7. ASSUME NEW t \in Threads, Remove(t) \/ LoseReply(t) PROVE Compared'
  <2>1. failed' \in {failed, [failed EXCEPT ![name[t]] = 0]}
    BY <1>7 DEF Remove, LoseReply
  <2> QED
    BY <1>3, <2>1 DEF Types
<1>8. ASSUME NEW t \in Threads, NEW u \in Names, NEW c \in BOOLEAN,
             Login(t, u, c)
      PROVE  Compared'
  <2>1. failed' = failed
    BY <1>8 DEF Login
  <2> QED
    BY <1>3, <2>1
<1>9. ASSUME NEW u \in Names, HourPasses(u) PROVE Compared'
  <2>1. failed' = [failed EXCEPT ![u] = 0]
    BY <1>9 DEF HourPasses
  <2> QED
    BY <1>3, <2>1 DEF Types
<1> QED
  BY <1>4, <1>5, <1>6, <1>7, <1>8, <1>9, Steps

LEMMA CountsAreTypes == Types /\ Counted /\ Compared => TypeOK
<1> SUFFICES ASSUME Types, Counted, Compared PROVE TypeOK
  OBVIOUS
<1>1. /\ HaveRead \in Int /\ HaveRead <= MaxAttempts
      /\ AreOver \in Int /\ AreOver <= MaxAttempts
      /\ MaxAttempts \in Nat \ {0}
  <2>1. Cardinality(Waiting) \in Nat /\ Cardinality(Busy) \in Nat
    BY FS_CardinalityType DEF Counted, Compared
  <2>2. attempts \in Nat /\ attempts <= MaxAttempts
    BY RetryAssumption DEF Types
  <2> QED
    BY <2>1, <2>2, RetryAssumption DEF HaveRead, AreOver
<1>2. ASSUME NEW u \in Names, db[u] # Absent PROVE db[u] \in 0 .. MaxAttempts - 1
  <2>1. db[u] \in Nat /\ db[u] < HaveRead
    BY <1>2 DEF Types, Counted
  <2> QED
    BY <1>1, <2>1
<1>3. ASSUME NEW t \in Threads PROVE retryCount[t] \in 0 .. MaxAttempts - 1
  <2>1. retryCount[t] \in Nat /\ (retryCount[t] = 0 \/ retryCount[t] < HaveRead)
    BY DEF Types, Counted
  <2> QED
    BY <1>1, <2>1
<1>4. ASSUME NEW u \in Names PROVE failed[u] \in 0 .. MaxAttempts
  <2>1. failed[u] \in Nat /\ failed[u] <= AreOver
    BY DEF Types, Compared
  <2> QED
    BY <1>1, <2>1
<1> QED
  BY <1>2, <1>3, <1>4 DEF Types, TypeOK

-----------------------------------------------------------------------------
(* The counters expire.                                                    *)

LEMMA NextExpires ==
  Types /\ CountersExpire /\ [Next]_vars => CountersExpire'
<1> SUFFICES ASSUME Types, CountersExpire, [Next]_vars,
                    NEW u \in Names, db'[u] # Absent, u \notin expiring',
                    u \notin broken'
             PROVE  \E t \in Threads : name'[t] = u /\ pc'[t] = "expire"
  BY DEF CountersExpire
<1> USE DEF Types, Names, At, Go, Answer, redis, locals, bounds
<1>1. ASSUME db'[u] = db[u], u \notin expiring, u \notin broken
      PROVE  \E o \in Threads : name[o] = u /\ pc[o] = "expire"
  BY <1>1 DEF CountersExpire
<1>2. CASE UNCHANGED vars
  BY <1>1, <1>2 DEF vars
<1>3. ASSUME NEW t \in Threads, Set(t)
      PROVE  \E o \in Threads : name'[o] = u /\ pc'[o] = "expire"
  <2>1. /\ pc' = [pc EXCEPT ![t] = "expire"] /\ name' = name
        /\ db' = [db EXCEPT ![name[t]] = retryCount[t]]
        /\ expiring' = expiring \ {name[t]}
        /\ broken' = broken \ {name[t]}
    BY <1>3 DEF Set, SetCommand
  <2>2. CASE name[t] = u
    BY <2>1, <2>2
  <2>3. CASE name[t] # u
    BY <1>1, <2>1, <2>3
  <2> QED
    BY <2>2, <2>3
<1>4. ASSUME NEW t \in Threads, Expire(t)
      PROVE  \E o \in Threads : name'[o] = u /\ pc'[o] = "expire"
  <2>1. /\ db' = db /\ broken' = broken
        /\ expiring' = expiring \cup ({name[t]} \cap {j \in Keys : db[j] # Absent})
        /\ \A o \in Threads : o # t => name'[o] = name[o] /\ pc'[o] = pc[o]
    BY <1>4 DEF Expire, ExpireCommand
  <2>2. name[t] # u
    BY <2>1
  <2> QED
    BY <1>1, <2>1, <2>2
<1>5. ASSUME NEW t \in Threads, Read(t) \/ Match(t)
      PROVE  \E o \in Threads : name'[o] = u /\ pc'[o] = "expire"
  <2>1. /\ UNCHANGED <<db, expiring, broken>> /\ pc[t] \in {"get", "match"}
        /\ \A o \in Threads : o # t => name'[o] = name[o] /\ pc'[o] = pc[o]
    BY <1>5 DEF Read, Match
  <2> QED
    BY <1>1, <2>1
<1>6. ASSUME NEW t \in Threads, Remove(t)
      PROVE  \E o \in Threads : name'[o] = u /\ pc'[o] = "expire"
  <2>1. /\ db' = [db EXCEPT ![name[t]] = Absent] /\ pc[t] = "remove"
        /\ expiring' = expiring \ {name[t]}
        /\ broken' = broken \ {name[t]}
        /\ \A o \in Threads : o # t => name'[o] = name[o] /\ pc'[o] = pc[o]
    BY <1>6 DEF Remove, DelCommand
  <2> QED
    BY <1>1, <2>1
<1>7. ASSUME NEW t \in Threads, Break(t) \/ LoseReply(t)
      PROVE  \E o \in Threads : name'[o] = u /\ pc'[o] = "expire"
  <2>1. /\ broken' = broken \cup {v \in {name[t]} : pc[t] \in {"set", "expire"}}
        /\ \A o \in Threads : o # t => name'[o] = name[o] /\ pc'[o] = pc[o]
    BY <1>7 DEF Break, LoseReply, Breaks
  <2>2. u \notin broken /\ (name[t] = u => pc[t] \notin {"set", "expire"})
    BY <2>1
  <2>3. db'[u] = db[u] /\ u \notin expiring
    <3>1. CASE Break(t)
      BY <3>1 DEF Break
    <3>2. CASE pc[t] = "set" /\ SetCommand(name[t], retryCount[t])
      BY <2>2, <3>2 DEF SetCommand
    <3>3. CASE pc[t] = "expire" /\ ExpireCommand(name[t])
      BY <2>2, <3>3 DEF ExpireCommand
    <3>4. CASE pc[t] = "remove" /\ DelCommand(name[t])
      BY <2>2, <3>4 DEF DelCommand
    <3> QED
      BY <1>7, <3>1, <3>2, <3>3, <3>4 DEF LoseReply
  <2>4. PICK o \in Threads : name[o] = u /\ pc[o] = "expire"
    BY <1>1, <2>2, <2>3
  <2> QED
    BY <2>1, <2>2, <2>4
<1>8. ASSUME NEW t \in Threads, NEW v \in Names, NEW c \in BOOLEAN,
             Login(t, v, c)
      PROVE  \E o \in Threads : name'[o] = u /\ pc'[o] = "expire"
  <2>1. /\ UNCHANGED <<db, expiring, broken>> /\ pc[t] = "idle"
        /\ \A o \in Threads : o # t => name'[o] = name[o] /\ pc'[o] = pc[o]
    BY <1>8 DEF Login
  <2> QED
    BY <1>1, <2>1
<1>9. ASSUME NEW v \in Names, HourPasses(v)
      PROVE  \E o \in Threads : name'[o] = u /\ pc'[o] = "expire"
  <2>1. /\ db' = [db EXCEPT ![v] = Absent] /\ expiring' = expiring \ {v}
        /\ UNCHANGED <<name, pc, broken>>
    BY <1>9 DEF HourPasses, TimeToLivePasses, DelCommand
  <2> QED
    BY <1>1, <2>1
<1> HIDE DEF Types
<1> QED
  BY <1>2, <1>3, <1>4, <1>5, <1>6, <1>7, <1>8, <1>9, Steps

-----------------------------------------------------------------------------
(* Attempts of a user that do not overlap.                                 *)

\* A step of t leaves the other threads alone.
Alike(o) ==
  pc'[o] = pc[o] /\ name'[o] = name[o] /\ retryCount'[o] = retryCount[o]
    /\ correct'[o] = correct[o]

OthersAlike(t) == \A o \in Threads : o # t => Alike(o)

LEMMA StepsAreOwn ==
  ASSUME Types, NEW t \in Threads,
         \/ Read(t) \/ Set(t) \/ Expire(t) \/ Match(t) \/ Remove(t)
         \/ Break(t) \/ LoseReply(t)
  PROVE  /\ OthersAlike(t) /\ pc[t] # "idle" /\ name[t] \in Names
         /\ pc'[t] = "idle" \/ name'[t] = name[t]
         /\ \A u \in Names : u # name[t] => /\ db'[u] = db[u]
                                            /\ answer'[u] = answer[u]
<1> USE DEF Types, OthersAlike, Alike, At, Go, Answer, redis, Names
<1>1. CASE Read(t)
  BY <1>1 DEF Read
<1>2. CASE Set(t)
  BY <1>2 DEF Set, SetCommand
<1>3. CASE Expire(t)
  BY <1>3 DEF Expire, ExpireCommand
<1>4. CASE Match(t)
  BY <1>4 DEF Match
<1>5. CASE Remove(t)
  BY <1>5 DEF Remove, DelCommand
<1>6. CASE Break(t)
  BY <1>6 DEF Break, Breaks
<1>7. CASE LoseReply(t)
  BY <1>7 DEF LoseReply, Breaks, SetCommand, ExpireCommand, DelCommand
<1> QED
  BY <1>1, <1>2, <1>3, <1>4, <1>5, <1>6, <1>7

LEMMA NextOnly == Types /\ Only /\ [Next]_vars => Only'
<1> SUFFICES ASSUME Types, Only, [Next]_vars PROVE Only'
  OBVIOUS
<1>1. ASSUME \A o \in Threads : pc'[o] # "idle" => pc[o] # "idle"
                                                   /\ name'[o] = name[o]
      PROVE  Only'
  BY <1>1 DEF Only
<1>2. CASE UNCHANGED vars
  BY <1>1, <1>2 DEF vars, locals
<1>3. ASSUME NEW t \in Threads,
             \/ Read(t) \/ Set(t) \/ Expire(t) \/ Match(t) \/ Remove(t)
             \/ Break(t) \/ LoseReply(t)
      PROVE  Only'
  BY <1>1, <1>3, StepsAreOwn DEF OthersAlike, Alike
<1>4. ASSUME NEW t \in Threads, NEW u \in Names, NEW c \in BOOLEAN,
             Login(t, u, c)
      PROVE  Only'
  <2>1. /\ u \in Alone => \A o \in Threads : name[o] # u
        /\ \A o \in Threads : o # t => pc'[o] = pc[o] /\ name'[o] = name[o]
        /\ name'[t] = u
    BY <1>4 DEF Login, Alone, Types
  <2> QED
    BY <2>1 DEF Only
<1>5. ASSUME NEW u \in Names, HourPasses(u) PROVE Only'
  BY <1>1, <1>5 DEF HourPasses, locals
<1> QED
  BY <1>2, <1>3, <1>4, <1>5, Steps

LEMMA OthersFollow ==
  ASSUME Types, Only, LocalCount, NEW t \in Threads, pc[t] # "idle",
         OthersAlike(t), \A u \in Names : u # name[t] => db'[u] = db[u],
         NEW o \in Threads, o # t, name'[o] \in Alone
  PROVE  Follows(o)'
<1>1. Alike(o) /\ Follows(o)
  BY DEF OthersAlike, Alike, LocalCount
<1>2. CASE pc[o] = "idle"
  BY <1>1, <1>2 DEF Follows, Alike
<1>3. CASE pc[o] # "idle"
  <2>1. name[o] # name[t] /\ name[o] \in Names
    BY <1>1, <1>3 DEF Only, Alike, Alone
  <2>2. db'[name[o]] = db[name[o]]
    BY <2>1
  <2> QED
    BY <1>1, <2>2 DEF Follows, Alike, NextCount, Get
<1> QED
  BY <1>2, <1>3

LEMMA NextLocalCount == Types /\ Only /\ LocalCount /\ [Next]_vars => LocalCount'
<1> SUFFICES ASSUME Types, Only, LocalCount, [Next]_vars PROVE LocalCount'
  OBVIOUS
<1>1. CASE UNCHANGED vars
  BY <1>1
  DEF vars, locals, redis, LocalCount, Follows, NextCount, Get
<1>2. ASSUME NEW t \in Threads,
             \/ Read(t) \/ Set(t) \/ Expire(t) \/ Match(t) \/ Remove(t)
             \/ Break(t) \/ LoseReply(t)
      PROVE  LocalCount'
  <2>1. SUFFICES ASSUME name'[t] \in Alone, pc'[t] # "idle" PROVE Follows(t)'
    <3>1. ASSUME NEW o \in Threads, o # t, name'[o] \in Alone PROVE Follows(o)'
      BY <1>2, <3>1, StepsAreOwn, OthersFollow
    <3>2. pc'[t] = "idle" => Follows(t)'
      BY DEF Follows
    <3> QED
      BY <2>1, <3>1, <3>2 DEF LocalCount
  <2>2. name'[t] = name[t] /\ name[t] \in Alone /\ name[t] \in Keys
    BY <1>2, <2>1, StepsAreOwn DEF Alone, Names
  <2>3. Follows(t)
    BY <2>2 DEF LocalCount
  <2> USE DEF Types, At, Go, Answer, redis, Names
  <2>4. CASE Read(t)
    BY <2>2, <2>4 DEF Read, Follows, NextCount, Get
  <2>5. CASE Set(t)
    <3>1. /\ pc'[t] = "expire" /\ UNCHANGED <<name, retryCount>>
          /\ db' = [db EXCEPT ![name[t]] = retryCount[t]]
      BY <2>5 DEF Set, SetCommand
    <3> QED
      BY <2>2, <3>1 DEF Follows
  <2>6. CASE Expire(t)
    <3>1. /\ pc[t] = "expire" /\ pc'[t] = "match"
          /\ UNCHANGED <<name, retryCount, db>> /\ ~(retryCount[t] >= MaxRetry)
      BY <2>1, <2>6 DEF Expire, ExpireCommand
    <3> QED
      BY <2>3, <3>1, RetryAssumption DEF Follows
  <2>7. CASE Match(t)
    <3>1. /\ pc[t] = "match" /\ pc'[t] = "remove"
          /\ UNCHANGED <<name, retryCount, db>>
      BY <2>1, <2>7 DEF Match
    <3> QED
      BY <2>3, <3>1 DEF Follows
  <2>8. CASE Remove(t) \/ Break(t) \/ LoseReply(t)
    BY <2>1, <2>8 DEF Remove, Break, LoseReply, Breaks
  <2> QED
    BY <1>2, <2>4, <2>5, <2>6, <2>7, <2>8
<1>3. ASSUME NEW t \in Threads, NEW u \in Names, NEW c \in BOOLEAN,
             Login(t, u, c)
      PROVE  LocalCount'
  <2>1. /\ pc'[t] = "get" /\ UNCHANGED <<db, retryCount>>
        /\ \A o \in Threads : o # t => pc'[o] = pc[o] /\ name'[o] = name[o]
    BY <1>3 DEF Login, redis, Types
  <2> QED
    BY <2>1 DEF LocalCount, Follows, NextCount, Get
<1>4. ASSUME NEW u \in Names, HourPasses(u) PROVE LocalCount'
  <2>1. /\ UNCHANGED <<pc, name, retryCount>> /\ \A t \in Threads : name[t] # u
        /\ \A v \in Names : v # u => db'[v] = db[v]
    BY <1>4
    DEF HourPasses, locals, TimeToLivePasses, DelCommand, Types, Names
  <2>2. ASSUME NEW t \in Threads, name[t] \in Alone PROVE Follows(t)'
    <3>1. db'[name[t]] = db[name[t]]
      BY <2>1, <2>2 DEF Alone
    <3> QED
      BY <2>1, <2>2, <3>1 DEF LocalCount, Follows, NextCount, Get
  <2> QED
    BY <2>1, <2>2 DEF LocalCount
<1> QED
  BY <1>1, <1>2, <1>3, <1>4, Steps

LEMMA Invariance == Spec => []RetryInv
<1>1. RetryInv /\ [Next]_vars => RetryInv'
  BY NextTypes, NextCounted, NextCompared, NextExpires, NextOnly, NextLocalCount
  DEF RetryInv
<1> QED
  BY <1>1, InitInv, PTL DEF Spec

\* The counters and the local counts stay below the number of attempts, and a
\* thread of doCredentialsMatch knows the user it counts for, however the
\* attempts interleave.
THEOREM TypeCorrect == Spec => []TypeOK
<1>1. RetryInv => TypeOK
  BY CountsAreTypes DEF RetryInv
<1> QED
  BY <1>1, Invariance, PTL

\* No counter locks a user for ever: one without a time to live is between SET
\* and EXPIRE of some attempt, for any threads and users and however their
\* attempts overlap, or SET or EXPIRE has failed since the last SET.
THEOREM NoneForever == Spec => []CountersExpire
<1>1. RetryInv => CountersExpire
  BY DEF RetryInv
<1> QED
  BY <1>1, Invariance, PTL

-----------------------------------------------------------------------------
(* The retry policy.                                                       *)

\* Users other than the one of t do not notice a step of t.
LEMMA OtherFailures ==
  ASSUME NEW t \in Threads, NEW u \in Names, OthersAlike(t),
         name[t] # u \/ pc[t] = "idle",
         name'[t] # u \/ pc'[t] \in {"idle", "get"}, db'[u] = db[u]
  PROVE  Failures(u)' = Failures(u)
<1>1. Written(u)' <=> Written(u)
  BY DEF Written, OthersAlike, Alike
<1> QED
  BY <1>1 DEF Failures

\* The attempt of t is the only one of its user, and it tells what has been
\* written.
LEMMA OwnWritten ==
  ASSUME Types, Only, NEW u \in Alone, NEW t \in Threads, pc[t] # "idle",
         name[t] = u, OthersAlike(t), pc'[t] = "idle" \/ name'[t] = u
  PROVE  /\ Written(u) <=> pc[t] \in {"expire", "match", "remove"}
         /\ Written(u)' <=> pc'[t] \in {"expire", "match", "remove"}
<1>1. \A o \in Threads : o # t /\ name[o] = u => pc[o] = "idle"
  BY DEF Only
<1>2. \A o \in Threads : o # t /\ name'[o] = u => pc'[o] = "idle"
  BY <1>1 DEF OthersAlike, Alike
<1> QED
  BY <1>1, <1>2 DEF Written

LEMMA PolicyFields ==
  ASSUME NEW u \in Alone, NEW f, NEW a,
         \A v \in Alone \ {u} : /\ Failures(v)' = Failures(v)
                                /\ answer'[v] = answer[v],
         Failures(u)' = f, answer'[u] = a
  PROVE  /\ [v \in Alone |-> Failures(v)]'
              = [[v \in Alone |-> Failures(v)] EXCEPT ![u] = f]
         /\ [v \in Alone |-> answer[v]]'
              = [[v \in Alone |-> answer[v]] EXCEPT ![u] = a]
OBVIOUS

\* A step of t for a user whose attempts may overlap is none of the policy.
LEMMA OverlappingStutters ==
  ASSUME Types, NEW t \in Threads, name[t] \notin Alone,
         \/ Read(t) \/ Set(t) \/ Expire(t) \/ Match(t) \/ Remove(t)
         \/ Break(t) \/ LoseReply(t)
  PROVE  UNCHANGED Policy!policy
<1>1. /\ OthersAlike(t) /\ name[t] \in Names
      /\ pc'[t] = "idle" \/ name'[t] = name[t]
      /\ \A u \in Names : u # name[t] => db'[u] = db[u] /\ answer'[u] = answer[u]
  BY StepsAreOwn
<1>2. ASSUME NEW v \in Alone
      PROVE  Failures(v)' = Failures(v) /\ answer'[v] = answer[v]
  BY <1>1, OtherFailures DEF Alone
<1> QED
  BY <1>2 DEF Policy!policy

\* The steps of the policy, as what becomes of a user's failures and answer.
LEMMA PolicySteps ==
  ASSUME NEW u \in Alone,
         \A v \in Alone \ {u} : /\ Failures(v)' = Failures(v)
                                /\ answer'[v] = answer[v],
         \/ Failures(u)' = Failures(u) /\ answer'[u] \in {answer[u], "error"}
         \/ /\ Failures(u) = MaxRetry /\ Failures(u)' = Failures(u)
            /\ answer'[u] = "locked"
         \/ /\ Failures(u) < MaxRetry /\ Failures(u)' = Failures(u) + 1
            /\ answer'[u] \in {"failed", "error"}
         \/ /\ Failures(u) < MaxRetry /\ Failures(u)' = 0
            /\ answer'[u] \in {"ok", "error"}
         \/ Failures(u)' = 0 /\ answer'[u] = answer[u]
  PROVE  [Policy!PolicyNext]_(Policy!policy)
<1> DEFINE F == [v \in Alone |-> Failures(v)]
           A == [v \in Alone |-> answer[v]]
<1>1. /\ F' = [F EXCEPT ![u] = Failures(u)'] /\ F[u] = Failures(u)
      /\ A' = [A EXCEPT ![u] = answer'[u]] /\ A[u] = answer[u]
  BY PolicyFields
<1>2. (Failures(u)' = Failures(u) => F' = F)
      /\ (answer'[u] = answer[u] => A' = A)
  BY <1>1
<1> HIDE DEF F, A
<1>3. CASE Failures(u)' = Failures(u) /\ answer'[u] = answer[u]
  BY <1>2, <1>3 DEF Policy!policy, F, A
<1>4. CASE Failures(u)' = Failures(u) /\ answer'[u] = "error"
  <2>1. Policy!Break(u)
    BY <1>1, <1>2, <1>4 DEF Policy!Break, Policy!Reply, F, A
  <2> QED
    BY <2>1 DEF Policy!PolicyNext
<1>5. CASE /\ Failures(u) = MaxRetry /\ Failures(u)' = Failures(u)
           /\ answer'[u] = "locked"
  <2>1. Policy!Lock(u)
    BY <1>1, <1>2, <1>5 DEF Policy!Lock, Policy!Reply, F, A
  <2> QED
    BY <2>1 DEF Policy!PolicyNext
<1>6. CASE /\ Failures(u) < MaxRetry /\ Failures(u)' = Failures(u) + 1
           /\ answer'[u] = "error"
  <2>1. Policy!Break(u)
    BY <1>1, <1>6 DEF Policy!Break, Policy!Reply, F, A
  <2> QED
    BY <2>1 DEF Policy!PolicyNext
<1>7. CASE /\ Failures(u) < MaxRetry /\ Failures(u)' = Failures(u) + 1
           /\ answer'[u] = "failed"
  <2>1. Policy!Fail(u)
    BY <1>1, <1>7 DEF Policy!Fail, Policy!Reply, F, A
  <2> QED
    BY <2>1 DEF Policy!PolicyNext
<1>8. CASE Failures(u) < MaxRetry /\ Failures(u)' = 0 /\ answer'[u] = "ok"
  <2>1. Policy!Succeed(u)
    BY <1>1, <1>8 DEF Policy!Succeed, Policy!Reply, F, A
  <2> QED
    BY <2>1 DEF Policy!PolicyNext
<1>9. CASE Failures(u)' = 0 /\ answer'[u] = answer[u]
  <2>1. Policy!Forget(u)
    BY <1>1, <1>2, <1>9 DEF Policy!Forget, F, A
  <2> QED
    BY <2>1 DEF Policy!PolicyNext
<1>10. CASE Failures(u) < MaxRetry /\ Failures(u)' = 0 /\ answer'[u] = "error"
  <2>1. Policy!Break(u)
    BY <1>1, <1>10 DEF Policy!Break, Policy!Reply, F, A
  <2> QED
    BY <2>1 DEF Policy!PolicyNext
<1> QED
  BY <1>3, <1>4, <1>5, <1>6, <1>7, <1>8, <1>9, <1>10

\* A step of t for a user whose attempts do not overlap is the step of the
\* policy that its answer tells, or none.
LEMMA AloneImplements ==
  ASSUME RetryInv, NEW u \in Alone, NEW t \in Threads, name[t] = u,
         \/ Read(t) \/ Set(t) \/ Expire(t) \/ Match(t) \/ Remove(t)
         \/ Break(t) \/ LoseReply(t)
  PROVE  [Policy!PolicyNext]_(Policy!policy)
<1>1. /\ OthersAlike(t) /\ pc[t] # "idle" /\ u \in Keys
      /\ pc'[t] = "idle" \/ name'[t] = u
      /\ \A v \in Names : v # u => db'[v] = db[v] /\ answer'[v] = answer[v]
  BY StepsAreOwn DEF RetryInv, Alone, Names
<1>2. \A v \in Alone \ {u} : Failures(v)' = Failures(v) /\ answer'[v] = answer[v]
  BY <1>1, OtherFailures DEF Alone
<1>3. /\ Written(u) <=> pc[t] \in {"expire", "match", "remove"}
      /\ Written(u)' <=> pc'[t] \in {"expire", "match", "remove"}
  BY <1>1, OwnWritten DEF RetryInv
<1>4. /\ Follows(t) /\ MaxRetry \in Nat \ {0} /\ retryCount[t] \in Nat
      /\ db[u] # Absent => db[u] \in Nat
      /\ Absent \notin Nat /\ db \in [Keys -> Nat \cup {Absent}]
      /\ pc \in [Threads -> {"idle", "get", "set", "expire", "match", "remove"}]
      /\ answer \in [Keys -> {"none", "ok", "failed", "locked", "error"}]
  BY <1>1, RetryAssumption DEF RetryInv, LocalCount, Types, Names
<1>5. CASE Read(t)
  <2>1. /\ pc[t] = "get" /\ pc'[t] = "set" /\ UNCHANGED <<db, answer>>
    BY <1>4, <1>5 DEF Read, At, Go, redis
  <2>2. Failures(u)' = Failures(u)
    BY <1>3, <2>1 DEF Failures
  <2> QED
    BY <1>2, <2>1, <2>2, PolicySteps
<1>6. CASE Set(t)
  <2>1. /\ pc[t] = "set" /\ pc'[t] = "expire" /\ UNCHANGED answer
        /\ db'[u] = retryCount[t]
    BY <1>1, <1>4, <1>6 DEF Set, SetCommand, At, Go
  <2>2. retryCount[t] = IF db[u] = Absent THEN 0 ELSE db[u] + 1
    BY <1>4, <2>1 DEF Follows, NextCount, Get
  <2>3. Failures(u)' = Least(retryCount[t], MaxRetry)
    BY <1>3, <1>4, <2>1 DEF Failures
  <2>4. Failures(u) = Least(retryCount[t], MaxRetry)
    BY <1>3, <1>4, <2>1, <2>2 DEF Failures, Least
  <2> QED
    BY <1>2, <2>1, <2>3, <2>4, PolicySteps
<1>7. CASE Expire(t)
  <2>1. /\ pc[t] = "expire" /\ UNCHANGED db /\ db[u] = retryCount[t]
    BY <1>4, <1>7 DEF Expire, ExpireCommand, At, Follows
  <2>2. Failures(u) = Least(db[u], MaxRetry)
    BY <1>3, <1>4, <2>1 DEF Failures
  <2>3. CASE retryCount[t] >= MaxRetry
    <3>1. pc'[t] = "idle" /\ answer'[u] = "locked"
      BY <1>1, <1>4, <1>7, <2>3 DEF Expire, Answer
    <3>2. Failures(u) = MaxRetry /\ Failures(u)' = MaxRetry
      BY <1>3, <1>4, <2>1, <2>2, <2>3, <3>1 DEF Failures, Least
    <3> QED
      BY <1>2, <3>1, <3>2, PolicySteps
  <2>4. CASE ~(retryCount[t] >= MaxRetry)
    <3>1. pc'[t] = "match" /\ UNCHANGED answer
      BY <1>4, <1>7, <2>4 DEF Expire, Go
    <3>2. Failures(u)' = Failures(u)
      BY <1>3, <2>1, <3>1 DEF Failures
    <3> QED
      BY <1>2, <3>1, <3>2, PolicySteps
  <2> QED
    BY <2>3, <2>4
<1>8. CASE Match(t)
  <2>1. /\ pc[t] = "match" /\ UNCHANGED db /\ db[u] = retryCount[t]
        /\ retryCount[t] < MaxRetry
    BY <1>4, <1>8 DEF Match, At, Follows, redis
  <2>2. Failures(u) = db[u]
    BY <1>3, <1>4, <2>1 DEF Failures, Least
  <2>3. CASE correct[t]
    <3>1. pc'[t] = "remove" /\ UNCHANGED answer
      BY <1>4, <1>8, <2>3 DEF Match, Go
    <3>2. Failures(u)' = Failures(u)
      BY <1>3, <2>1, <3>1 DEF Failures
    <3> QED
      BY <1>2, <3>1, <3>2, PolicySteps
  <2>4. CASE ~correct[t]
    <3>1. pc'[t] = "idle" /\ answer'[u] = "failed"
      BY <1>1, <1>4, <1>8, <2>4 DEF Match, Answer
    <3>2. Failures(u)' = Failures(u) + 1 /\ Failures(u) < MaxRetry
      BY <1>3, <1>4, <2>1, <2>2, <3>1 DEF Failures, Least
    <3> QED
      BY <1>2, <3>1, <3>2, PolicySteps
  <2> QED
    BY <2>3, <2>4
<1>9. CASE Remove(t)
  <2>1. /\ pc[t] = "remove" /\ pc'[t] = "idle" /\ db'[u] = Absent
        /\ answer'[u] = "ok" /\ db[u] = retryCount[t] /\ retryCount[t] < MaxRetry
    BY <1>1, <1>4, <1>9 DEF Remove, DelCommand, Answer, At, Follows
  <2>2. Failures(u) < MaxRetry /\ Failures(u)' = 0
    BY <1>3, <1>4, <2>1 DEF Failures, Least
  <2> QED
    BY <1>2, <2>1, <2>2, PolicySteps
<1>10. CASE Break(t)
  <2>1. /\ pc[t] \in {"get", "set", "expire", "remove"} /\ UNCHANGED db
        /\ pc'[t] = "idle" /\ answer'[u] = "error"
    BY <1>1, <1>4, <1>10 DEF Break, Breaks, Answer, redis
  <2>2. CASE pc[t] \in {"get", "set"}
    <3>1. Failures(u)' = Failures(u)
      BY <1>3, <2>1, <2>2 DEF Failures
    <3> QED
      BY <1>2, <2>1, <3>1, PolicySteps
  <2>3. CASE pc[t] \in {"expire", "remove"}
    <3>1. db[u] \in Nat /\ db[u] # Absent
      BY <1>4, <2>3 DEF Follows
    <3>2. /\ Failures(u) = Least(db[u], MaxRetry)
          /\ Failures(u)' = Least(db[u] + 1, MaxRetry)
      BY <1>3, <2>1, <2>3, <3>1 DEF Failures
    <3>3. \/ Failures(u)' = Failures(u)
          \/ Failures(u) < MaxRetry /\ Failures(u)' = Failures(u) + 1
      BY <1>4, <3>1, <3>2 DEF Least
    <3> QED
      BY <1>2, <2>1, <3>3, PolicySteps
  <2> QED
    BY <2>1, <2>2, <2>3
<1>11. CASE LoseReply(t)
  <2>1. pc'[t] = "idle" /\ answer'[u] = "error"
    BY <1>1, <1>4, <1>11 DEF LoseReply, Breaks, Answer
  <2>2. CASE pc[t] = "set" /\ SetCommand(u, retryCount[t])
    <3>1. db'[u] = retryCount[t]
      BY <1>1, <1>4, <2>2 DEF SetCommand
    <3>2. retryCount[t] = IF db[u] = Absent THEN 0 ELSE db[u] + 1
      BY <1>4, <2>2 DEF Follows, NextCount, Get
    <3>3. Failures(u)' = Least(retryCount[t] + 1, MaxRetry)
      BY <1>3, <1>4, <2>1, <3>1 DEF Failures
    <3>4. Failures(u) = Least(retryCount[t], MaxRetry)
      BY <1>3, <1>4, <2>2, <3>2 DEF Failures, Least
    <3>5. \/ Failures(u)' = Failures(u)
          \/ Failures(u) < MaxRetry /\ Failures(u)' = Failures(u) + 1
      BY <1>4, <3>3, <3>4 DEF Least
    <3> QED
      BY <1>2, <2>1, <3>5, PolicySteps
  <2>3. CASE pc[t] = "expire" /\ ExpireCommand(u)
    <3>1. db[u] \in Nat /\ db[u] # Absent /\ db' = db
      BY <1>4, <2>3 DEF Follows, ExpireCommand
    <3>2. /\ Failures(u) = Least(db[u], MaxRetry)
          /\ Failures(u)' = Least(db[u] + 1, MaxRetry)
      BY <1>3, <2>1, <2>3, <3>1 DEF Failures
    <3>3. \/ Failures(u)' = Failures(u)
          \/ Failures(u) < MaxRetry /\ Failures(u)' = Failures(u) + 1
      BY <1>4, <3>1, <3>2 DEF Least
    <3> QED
      BY <1>2, <2>1, <3>3, PolicySteps
  <2>4. CASE pc[t] = "remove" /\ DelCommand(u)
    <3>1. db'[u] = Absent /\ db[u] = retryCount[t] /\ retryCount[t] < MaxRetry
      BY <1>1, <1>4, <2>4 DEF DelCommand, Follows
    <3>2. Failures(u) < MaxRetry /\ Failures(u)' = 0
      BY <1>3, <1>4, <2>4, <3>1 DEF Failures, Least
    <3> QED
      BY <1>2, <2>1, <3>2, PolicySteps
  <2> QED
    BY <1>11, <2>2, <2>3, <2>4 DEF LoseReply, At
<1> QED
  BY <1>5, <1>6, <1>7, <1>8, <1>9, <1>10, <1>11

LEMMA NextImplements ==
  RetryInv /\ [Next]_vars => [Policy!PolicyNext]_(Policy!policy)
<1> SUFFICES ASSUME RetryInv, [Next]_vars
             PROVE  [Policy!PolicyNext]_(Policy!policy)
  OBVIOUS
<1>1. CASE UNCHANGED vars
  BY <1>1
  DEF vars, locals, redis, Policy!policy, Failures, Written
<1>2. ASSUME NEW t \in Threads,
             \/ Read(t) \/ Set(t) \/ Expire(t) \/ Match(t) \/ Remove(t)
             \/ Break(t) \/ LoseReply(t)
      PROVE  [Policy!PolicyNext]_(Policy!policy)
  <2>1. CASE name[t] \in Alone
    BY <1>2, <2>1, AloneImplements
  <2>2. CASE name[t] \notin Alone
    BY <1>2, <2>2, OverlappingStutters DEF RetryInv
  <2> QED
    BY <2>1, <2>2
<1>3. ASSUME NEW t \in Threads, NEW u \in Names, NEW c \in BOOLEAN,
             Login(t, u, c)
      PROVE  [Policy!PolicyNext]_(Policy!policy)
  <2>1. /\ pc[t] = "idle" /\ pc'[t] = "get" /\ UNCHANGED <<db, answer>>
        /\ \A o \in Threads : o # t => pc'[o] = pc[o] /\ name'[o] = name[o]
    BY <1>3 DEF Login, At, redis, RetryInv, Types
  <2>2. ASSUME NEW v \in Alone PROVE Failures(v)' = Failures(v)
    <3>1. Written(v)' <=> Written(v)
      BY <2>1 DEF Written
    <3> QED
      BY <2>1, <3>1 DEF Failures
  <2> QED
    BY <2>1, <2>2 DEF Policy!policy
<1>4. ASSUME NEW u \in Names, HourPasses(u)
      PROVE  [Policy!PolicyNext]_(Policy!policy)
  <2>1. /\ db' = [db EXCEPT ![u] = Absent]
        /\ UNCHANGED <<pc, name, answer>> /\ db \in [Names -> Nat \cup {Absent}]
    BY <1>4
    DEF HourPasses, TimeToLivePasses, DelCommand, locals, RetryInv, Types
  <2>2. \A v \in Alone \ {u} : Failures(v)' = Failures(v)
    BY <2>1 DEF Failures, Written, Alone
  <2>3. CASE u \in Alone
    <3>1. Failures(u)' = 0
      BY <2>1 DEF Failures
    <3> QED
      BY <2>1, <2>2, <2>3, <3>1, PolicySteps
  <2>4. CASE u \notin Alone
    <3>1. \A v \in Alone : Failures(v)' = Failures(v)
      BY <2>2, <2>4
    <3> QED
      BY <2>1, <3>1 DEF Policy!policy
  <2> QED
    BY <2>3, <2>4
<1> QED
  BY <1>1, <1>2, <1>3, <1>4, Steps

\* Whatever threads, users and maximum there are, the attempts of a user whose
\* attempts do not overlap, read, write and comparison apart, implement the
\* retry policy: each failure counts once, a success forgets them all and the
\* account is locked at the maximum.
THEOREM Implementation == Spec => ImplementsRetryPolicy
<1>1. Init => Policy!PolicyInit
  BY DEF Init, RedisInit, Policy!PolicyInit, Failures, Alone, Names
<1> QED
  BY <1>1, NextImplements, Invariance, PTL
  DEF Spec, ImplementsRetryPolicy, Policy!PolicySpec
=============================================================================
