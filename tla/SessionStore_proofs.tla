------------------------- MODULE SessionStore_proofs -------------------------
(* Theorems about SessionStore.                                            *)
EXTENDS SessionStore, TLAPS

(* What is in Redis or in a copy was created.                              *)
Known ==
  /\ \A s \in Sessions : db[s] # Absent => s \in created
  /\ \A c \in Clients \X Sessions : copy[c] # Absent => c[2] \in created

(* What a client that is not idle works with.                              *)
Working ==
  \A t \in Clients :
    /\ pc[t] # "idle" => key[t] \in created /\ op[t] \in Ops
    /\ pc[t] = "work" => copy[<<t, key[t]>>] \in Session
    /\ pc[t] = "set" => bytes[t] \in Session

TInv == TypeOK /\ Known /\ Working

(* Whoever works on a stopped session stops it.                            *)
Stopping ==
  \A t \in Clients :
    /\ pc[t] = "work" /\ copy[<<t, key[t]>>] = "stopped" => op[t] = "stop"
    /\ pc[t] = "set" /\ bytes[t] = "stopped" => op[t] = "stop"

(* A session that has been stopped ever since is yet to be read, was read as *)
(* stopped, or the validator is about to delete it.                        *)
Sweeping ==
  /\ scan = "get" =>
       \A s \in lingering : s \in found \/ <<s, "stopped">> \in active
  /\ scan = "validate" =>
       \A s \in lingering :
         \/ <<s, "stopped">> \in active
         \/ pc[Validator] # "idle" /\ key[Validator] = s /\ op[Validator] = "stop"

(* Types.                                                                  *)
LEMMA InitTInv == Init => TInv
<1> SUFFICES ASSUME Init PROVE TInv
  OBVIOUS
<1> USE DEF Init, RedisInit, Sessions, Clients
<1>1. db = [s \in Keys |-> Absent] /\ expiring = {}
  OBVIOUS
<1>2. /\ db \in [Sessions -> Session \cup {Absent}]
      /\ ExpiringKeysExist
  BY <1>1 DEF ExpiringKeysExist
<1>3. copy \in [Clients \X Sessions -> Session \cup {Absent}]
  OBVIOUS
<1>4. fresh \subseteq {c \in Threads \X Sessions : copy[c] # Absent}
  OBVIOUS
<1>5. /\ pc \in [Clients -> {"idle", "work"} \cup Commands]
      /\ op \in [Clients -> Ops \cup {"none"}]
      /\ key \in [Clients -> Sessions \cup {Absent}]
      /\ bytes \in [Clients -> Session \cup {Absent}]
  OBVIOUS
<1>6. /\ scan \in {"off", "scan", "get", "part", "validate"}
      /\ found \subseteq created
      /\ active \subseteq created \X (Session \cup {Absent})
      /\ there \subseteq {s \in Sessions : db[s] # Absent}
      /\ lingering \subseteq {s \in there : db[s] = "stopped"}
      /\ failed \subseteq Commands \X Sessions
      /\ created \subseteq Sessions
  OBVIOUS
<1>7. faults \in 0 .. MaxFaults
  BY SessionAssumption
<1>8. Known
  BY DEF Known
<1>9. Working
  BY DEF Working
<1> QED
  BY <1>2, <1>3, <1>4, <1>5, <1>6, <1>7, <1>8, <1>9 DEF TInv, TypeOK

(* What a command leaves in Redis.                                         *)
LEMMA Commanded ==
  ASSUME TInv, NEW t \in Clients, UNCHANGED redis \/ Command(t)
  PROVE  /\ db' \in [Sessions -> Session \cup {Absent}]
         /\ ExpiringKeysExist'
         /\ \A s \in Sessions : s # key[t] =>
              db'[s] = db[s] /\ (s \in expiring => s \in expiring')
         /\ \A s \in Sessions : db'[s] # Absent => s \in created
         /\ pc[t] # "set" => \A s \in Sessions :
              /\ db'[s] \in {db[s], Absent}
              /\ s \in expiring /\ db'[s] # Absent => s \in expiring'
<1> USE SessionAssumption DEF TInv, TypeOK, Known, Working, ExpiringKeysExist,
      Sessions
<1>1. CASE UNCHANGED redis
  BY <1>1 DEF redis
<1>2. CASE pc[t] = "set" /\ SetCommand(key[t], bytes[t])
  BY <1>2 DEF SetCommand, Session
<1>3. CASE pc[t] = "expire" /\ ExpireCommand(key[t])
  BY <1>3 DEF ExpireCommand
<1>4. CASE pc[t] = "del" /\ DelCommand(key[t])
  BY <1>4 DEF DelCommand
<1> QED
  BY <1>1, <1>2, <1>3, <1>4 DEF Command

(* The sessions of whom nothing was there but what still is, are there.    *)
LEMMA ThereAfter ==
  ASSUME TInv, StillThere, UNCHANGED validation, created' = created
  PROVE  /\ scan' \in {"off", "scan", "get", "part", "validate"}
         /\ found' \subseteq created'
         /\ active' \subseteq created' \X (Session \cup {Absent})
         /\ there' \subseteq {s \in Sessions : db'[s] # Absent}
         /\ lingering' \subseteq {s \in there' : db'[s] = "stopped"}
         /\ created' \subseteq Sessions
<1>1. "stopped" # Absent
  BY SessionAssumption DEF Session
<1> QED
  BY <1>1 DEF TInv, TypeOK, StillThere, InRedis, validation

(* The client whose command failed is idle again.                          *)
LEMMA Failed ==
  ASSUME TInv, NEW t \in Clients, Fail(t)
  PROVE  /\ pc' \in [Clients -> {"idle", "work"} \cup Commands]
         /\ op' \in [Clients -> Ops \cup {"none"}]
         /\ key' \in [Clients -> Sessions \cup {Absent}]
         /\ bytes' \in [Clients -> Session \cup {Absent}]
         /\ pc'[t] = "idle" /\ key'[t] = Absent
         /\ \A u \in Clients : u # t =>
              /\ pc'[u] = pc[u] /\ op'[u] = op[u]
              /\ key'[u] = key[u] /\ bytes'[u] = bytes[u]
         /\ faults' \in 0 .. MaxFaults
         /\ key[t] \in Sessions
         /\ failed' = failed \cup {<<pc[t], key[t]>>}
         /\ failed' \subseteq Commands \X Sessions
         /\ UNCHANGED <<copy, fresh, created>>
         /\ UNCHANGED redis \/ Command(t)
<1>1. key[t] \in Sessions
  BY DEF TInv, TypeOK, Working, Fail, Commands
<1>2. faults' \in 0 .. MaxFaults
  BY SessionAssumption DEF TInv, TypeOK, Fail
<1>3. failed' \subseteq Commands \X Sessions
  BY <1>1 DEF TInv, TypeOK, Fail
<1> QED
  BY <1>1, <1>2, <1>3 DEF TInv, TypeOK, Fail, Done

LEMMA FailTInv ==
  ASSUME TInv, NEW t \in Clients, Fail(t)
  PROVE  /\ Known' /\ Working'
         /\ db' \in [Sessions -> Session \cup {Absent}]
         /\ ExpiringKeysExist'
         /\ copy' \in [Clients \X Sessions -> Session \cup {Absent}]
         /\ fresh' \subseteq {c \in Threads \X Sessions : copy'[c] # Absent}
<1>1. Working'
  BY Failed DEF TInv, TypeOK, Working
<1>2. Known'
  BY Failed, Commanded DEF TInv, Known
<1>3. /\ copy' \in [Clients \X Sessions -> Session \cup {Absent}]
      /\ fresh' \subseteq {c \in Threads \X Sessions : copy'[c] # Absent}
  BY Failed DEF TInv, TypeOK
<1> QED
  BY <1>1, <1>2, <1>3, Failed, Commanded

LEMMA NextTInv == TInv /\ [Next]_vars => TInv'
<1> SUFFICES ASSUME TInv, [Next]_vars PROVE TInv'
  OBVIOUS
<1> USE SessionAssumption DEF TInv, TypeOK, ExpiringKeysExist, Known, Working,
      Clients, Ops, Commands, InRedis, StillThere, Over, Command, MadeUp,
      Session, redis, thread, validation
<1>1. ASSUME NEW t \in Threads, NEW s \in Sessions, Create(t, s),
             StillThere, UNCHANGED validation
      PROVE  TInv'
  BY <1>1 DEF Create, Session
<1>2. ASSUME NEW t \in Threads, NEW s \in Sessions, NEW o \in Ops,
             ReadCopy(t, s, o),
             StillThere, UNCHANGED validation
      PROVE  TInv'
  BY <1>2 DEF ReadCopy, Begin
<1>3. ASSUME NEW t \in Threads, NEW s \in Sessions, NEW o \in Ops,
             ReadRedis(t, s, o),
             StillThere, UNCHANGED validation
      PROVE  TInv'
  BY <1>3 DEF ReadRedis, Begin, Get
<1>4. ASSUME NEW t \in Threads, NEW s \in Sessions, Age(t, s),
             StillThere, UNCHANGED validation
      PROVE  TInv'
  BY <1>4 DEF Age
<1>5. ASSUME NEW s \in Sessions, TimeOut(s),
             StillThere, UNCHANGED validation
      PROVE  TInv'
  BY <1>5 DEF TimeOut, TimeToLivePasses, DelCommand
<1>6. ASSUME NEW t \in Clients, Work(t),
             StillThere, UNCHANGED validation
      PROVE  TInv'
  BY <1>6 DEF Work, Changed, Session, Sessions
<1>7. ASSUME NEW t \in Clients, Set(t),
             StillThere, UNCHANGED validation
      PROVE  TInv'
  <2>1. /\ db' \in [Sessions -> Session \cup {Absent}]
        /\ ExpiringKeysExist'
        /\ \A s \in Sessions : db'[s] # Absent => s \in created
    BY <1>7, Commanded DEF Set
  <2>2. failed' \subseteq Commands \X Sessions
    BY <1>7 DEF Set
  <2>3. Working'
    BY <1>7 DEF Set
  <2> QED
    BY <1>7, <2>1, <2>2, <2>3 DEF Set
<1>8. ASSUME NEW t \in Clients, Expire(t),
             StillThere, UNCHANGED validation
      PROVE  TInv'
  BY <1>8 DEF Expire, ExpireCommand, Done
<1>9. ASSUME NEW t \in Clients, Delete(t),
             StillThere, UNCHANGED validation
      PROVE  TInv'
  BY <1>9 DEF Delete, DelCommand, Done, Sessions
<1>10. ASSUME NEW t \in Threads, Fail(t),
             StillThere, UNCHANGED validation
      PROVE  TInv'
  <2> HIDE DEF TInv, StillThere, validation
  <2>1. t \in Clients
    OBVIOUS
  <2> HIDE DEF Clients
  <2> QED
    BY <1>10, <2>1, FailTInv, Failed, ThereAfter DEF TInv
<1>11. CASE StartScan
  BY <1>11 DEF StartScan, store
<1>12. CASE Scan
  BY <1>12 DEF Scan, store
<1>13. CASE EndRead \/ ScanFails
  BY <1>13 DEF EndRead, ScanFails, store
<1>14. CASE EndValidation
  BY <1>14 DEF EndValidation, store
<1>15. ASSUME NEW s \in Sessions, ReadActive(s)
      PROVE  TInv'
  BY <1>15 DEF ReadActive, Get, store
<1>16. ASSUME NEW s \in Sessions, Valid(s) \/ ReadFails(s)
      PROVE  TInv'
  BY <1>16 DEF Valid, ReadFails, store
<1>17. ASSUME NEW s \in Sessions, NEW v \in Session, Invalid(s, v)
      PROVE  TInv'
  BY <1>17 DEF Invalid, Begin
<1>18. CASE ValidatorFails
  <2>1. Validator \in Clients
    OBVIOUS
  <2> HIDE DEF Clients, TInv
  <2> QED
    BY <1>18, <2>1, FailTInv, Failed DEF TInv, ValidatorFails
<1>19. CASE UNCHANGED vars
  BY <1>19 DEF vars, store
<1> HIDE DEF TInv, TypeOK, ExpiringKeysExist, Known, Working
<1> QED
  BY <1>1, <1>2, <1>3, <1>4, <1>5, <1>6, <1>7, <1>8, <1>9, <1>10, <1>11,
     <1>12, <1>13, <1>14, <1>15, <1>16, <1>17, <1>18, <1>19
  DEF Next, Validate, Operate, Save

-----------------------------------------------------------------------------
(* Steps that leave Redis and the clients as they are.                     *)
Quiet == UNCHANGED <<redis, copy, thread, failed>>

(* A step is quiet, or one of these.                                       *)
LEMMA Steps ==
  ASSUME [Next]_vars
  PROVE  \/ Quiet
         \/ \E t \in Threads, s \in Sessions : Operate(t, s)
         \/ \E s \in Sessions, v \in Session : Invalid(s, v)
         \/ \E t \in Clients : Save(t) \/ Fail(t)
         \/ \E s \in Sessions : TimeOut(s)
<1>1. CASE Validate
  BY <1>1 DEF Validate, Quiet, StartScan, Scan, ScanFails, EndRead,
              EndValidation, ReadActive, ReadFails, Valid, store, redis, thread
<1>2. CASE ValidatorFails
  BY <1>2 DEF ValidatorFails, Clients
<1>3. CASE \E t \in Threads, s \in Sessions : Age(t, s)
  BY <1>3 DEF Age, Quiet, redis, thread
<1>4. CASE UNCHANGED vars
  BY <1>4 DEF vars, store, Quiet, redis, thread
<1> QED
  BY <1>1, <1>2, <1>3, <1>4 DEF Next, Clients

(* The inductive invariant.                                                *)
IInv == TInv /\ Stopping /\ SessionsExpire /\ StoppedIsDeleted

LEMMA NextIInv == IInv /\ [Next]_vars => IInv'
<1> SUFFICES ASSUME IInv, [Next]_vars PROVE IInv'
  OBVIOUS
<1> USE SessionAssumption DEF IInv, TInv, TypeOK, Working, Stopping,
      SessionsExpire, StoppedIsDeleted, Clients, Ops, Commands, Command, MadeUp,
      redis, thread
<1>1. TInv'
  BY NextTInv
<1>2. ASSUME Quiet
      PROVE  Stopping' /\ SessionsExpire' /\ StoppedIsDeleted'
  BY <1>2 DEF Quiet
<1>3. ASSUME NEW t \in Threads, NEW s \in Sessions, Create(t, s)
      PROVE  Stopping' /\ SessionsExpire' /\ StoppedIsDeleted'
  BY <1>3 DEF Create
<1>4. ASSUME NEW t \in Threads, NEW s \in Sessions, NEW o \in Ops,
             ReadCopy(t, s, o)
      PROVE  Stopping' /\ SessionsExpire' /\ StoppedIsDeleted'
  <2>1. UNCHANGED <<redis, failed, copy, bytes>>
    BY <1>4 DEF ReadCopy, Begin
  <2>2. \A u \in Clients : u # t =>
          pc'[u] = pc[u] /\ op'[u] = op[u] /\ key'[u] = key[u]
    BY <1>4 DEF ReadCopy, Begin
  <2>3. /\ pc[t] = "idle" /\ pc'[t] = "work" /\ key'[t] = s
        /\ copy[<<t, s>>] = "stopped" => op'[t] = "stop"
    BY <1>4 DEF ReadCopy, Begin
  <2> QED
    BY <2>1, <2>2, <2>3
<1>5. ASSUME NEW t \in Threads, NEW s \in Sessions, NEW o \in Ops,
             ReadRedis(t, s, o)
      PROVE  Stopping' /\ SessionsExpire' /\ StoppedIsDeleted'
  <2>1. Stopping'
    BY <1>5 DEF ReadRedis, Begin, Get
  <2>2. UNCHANGED <<redis, failed>>
    BY <1>5 DEF ReadRedis
  <2>3. \A u \in Clients : pc[u] # "idle" =>
          /\ pc'[u] = pc[u] /\ op'[u] = op[u] /\ key'[u] = key[u]
    BY <1>5 DEF ReadRedis, Begin
  <2> QED
    BY <2>1, <2>2, <2>3
<1>6. ASSUME NEW s \in Sessions, TimeOut(s)
      PROVE  Stopping' /\ SessionsExpire' /\ StoppedIsDeleted'
  <2>1. Stopping'
    BY <1>6 DEF TimeOut, TimeToLivePasses, DelCommand, Sessions
  <2>2. SessionsExpire'
    BY <1>6 DEF TimeOut, TimeToLivePasses, DelCommand, Sessions
  <2>3. StoppedIsDeleted'
    BY <1>6 DEF TimeOut, TimeToLivePasses, DelCommand, Sessions,
                Session
  <2> QED
    BY <2>1, <2>2, <2>3
<1>7. ASSUME NEW t \in Clients, Work(t)
      PROVE  Stopping' /\ SessionsExpire' /\ StoppedIsDeleted'
  BY <1>7 DEF Work, Changed
<1>8. ASSUME NEW t \in Clients, Set(t)
      PROVE  Stopping' /\ SessionsExpire' /\ StoppedIsDeleted'
  <2>1. Stopping'
    BY <1>8 DEF Set, SetCommand, Sessions
  <2>2. SessionsExpire'
    BY <1>8 DEF Set, SetCommand, Sessions
  <2>3. StoppedIsDeleted'
    <3> SUFFICES ASSUME NEW s \in Sessions, db'[s] = "stopped",
                        \A c \in Commands : <<c, s>> \notin failed'
                 PROVE  \E u \in Clients :
                          /\ op'[u] = "stop" /\ key'[u] = s
                          /\ pc'[u] \in {"expire", "del"}
      BY <1>8
    <3>1. CASE s = key[t]
      <4>1. bytes[t] = "stopped"
        BY <1>8, <3>1 DEF Set, SetCommand, Sessions
      <4>2. op[t] = "stop"
        BY <1>8, <4>1 DEF Set
      <4>3. /\ op'[t] = "stop" /\ key'[t] = s
            /\ pc'[t] \in {"expire", "del"}
        BY <1>8, <3>1, <4>2 DEF Set
      <4> QED
        BY <4>3
    <3>2. CASE s # key[t]
      <4>1. /\ db[s] = "stopped"
            /\ \A c \in Commands : <<c, s>> \notin failed
        BY <1>8, <3>2 DEF Set, SetCommand, Sessions
      <4>2. PICK u \in Clients : /\ op[u] = "stop" /\ key[u] = s
                                /\ pc[u] \in {"expire", "del"}
        BY <4>1 DEF StoppedIsDeleted, TypeOK
      <4> QED
        BY <1>8, <4>2 DEF Set
    <3> QED
      BY <3>1, <3>2
  <2> QED
    BY <2>1, <2>2, <2>3
<1>9. ASSUME NEW t \in Clients, Expire(t)
      PROVE  Stopping' /\ SessionsExpire' /\ StoppedIsDeleted'
  BY <1>9 DEF Expire, ExpireCommand, Done, Sessions
<1>10. ASSUME NEW t \in Clients, Delete(t)
      PROVE  Stopping' /\ SessionsExpire' /\ StoppedIsDeleted'
  <2>1. Stopping'
    BY <1>10 DEF Delete, DelCommand, Done, Sessions
  <2>2. SessionsExpire'
    BY <1>10 DEF Delete, DelCommand, Done, Sessions
  <2>3. StoppedIsDeleted'
    BY <1>10 DEF Delete, DelCommand, Done, Sessions, Session
  <2> QED
    BY <2>1, <2>2, <2>3
<1>11. ASSUME NEW t \in Clients, Fail(t)
      PROVE  Stopping' /\ SessionsExpire' /\ StoppedIsDeleted'
  <2> HIDE DEF IInv, TInv, Clients, Command
  <2>1. TInv
    BY DEF IInv
  <2>2. /\ Stopping /\ SessionsExpire /\ StoppedIsDeleted /\ TypeOK
    BY <2>1 DEF IInv, TInv
  <2> DEFINE k == key[t]
  <2>3. /\ k \in Sessions /\ pc[t] \in {"set", "expire", "del"}
        /\ failed' = failed \cup {<<pc[t], k>>}
    BY <1>11, <2>1, Failed DEF Fail
  <2>4. /\ pc'[t] = "idle" /\ copy' = copy
        /\ \A u \in Clients : u # t =>
             /\ pc'[u] = pc[u] /\ op'[u] = op[u]
             /\ key'[u] = key[u] /\ bytes'[u] = bytes[u]
    BY <1>11, <2>1, Failed
  <2>5. /\ \A s \in Sessions : s # k =>
             db'[s] = db[s] /\ (s \in expiring => s \in expiring')
        /\ pc[t] # "set" => \A s \in Sessions :
             /\ db'[s] \in {db[s], Absent}
             /\ s \in expiring /\ db'[s] # Absent => s \in expiring'
    BY <1>11, <2>1, Failed, Commanded
  <2> HIDE DEF k
  <2>6. Stopping'
    BY <2>2, <2>4
  <2>7. SessionsExpire'
    <3> SUFFICES ASSUME NEW s \in Sessions, db'[s] # Absent,
                        s \notin expiring',
                        <<"set", s>> \notin failed',
                        <<"expire", s>> \notin failed'
                 PROVE  \E u \in Clients : pc'[u] = "expire" /\ key'[u] = s
      OBVIOUS
    <3>1. s = k => pc[t] = "del"
      BY <2>3
    <3>2. s \notin expiring /\ db[s] # Absent
      BY <2>5, <3>1
    <3>3. <<"set", s>> \notin failed /\ <<"expire", s>> \notin failed
      BY <2>3
    <3>4. PICK u \in Clients : pc[u] = "expire" /\ key[u] = s
      BY <2>2, <3>2, <3>3
    <3>5. u # t
      BY <3>1, <3>4 DEF k
    <3> QED
      BY <2>4, <3>4, <3>5
  <2>8. StoppedIsDeleted'
    <3> SUFFICES ASSUME NEW s \in Sessions, db'[s] = "stopped",
                        \A c \in Commands : <<c, s>> \notin failed'
                 PROVE  \E u \in Clients :
                          /\ op'[u] = "stop" /\ key'[u] = s
                          /\ pc'[u] \in {"expire", "del"}
      OBVIOUS
    <3>1. s # k
      BY <2>3
    <3>2. db[s] = "stopped" /\ \A c \in Commands : <<c, s>> \notin failed
      BY <2>3, <2>5, <3>1
    <3>3. PICK u \in Clients : /\ op[u] = "stop" /\ key[u] = s
                               /\ pc[u] \in {"expire", "del"}
      BY <2>2, <3>2
    <3>4. u # t
      BY <3>1, <3>3 DEF k
    <3> QED
      BY <2>4, <3>3, <3>4
  <2> QED
    BY <2>6, <2>7, <2>8
<1>12. ASSUME NEW s \in Sessions, NEW v \in Session, Invalid(s, v)
      PROVE  Stopping' /\ SessionsExpire' /\ StoppedIsDeleted'
  BY <1>12 DEF Invalid, Begin
<1> HIDE DEF IInv, TInv, TypeOK, Working, Stopping, SessionsExpire,
      StoppedIsDeleted, Clients
<1>13. IInv' <=> TInv' /\ Stopping' /\ SessionsExpire' /\ StoppedIsDeleted'
  BY DEF IInv
<1> QED
  BY Steps, <1>13, <1>1, <1>2, <1>3, <1>4, <1>5, <1>6, <1>7, <1>8, <1>9, <1>10,
     <1>11, <1>12
  DEF Operate, Save

-----------------------------------------------------------------------------
LEMMA InitIInv == Init => IInv
BY InitTInv, SessionAssumption
DEF Init, RedisInit, IInv, Stopping, SessionsExpire, StoppedIsDeleted,
    Clients, Sessions, Session

LEMMA Invariance == Spec => []IInv
BY InitIInv, NextIInv, PTL DEF Spec

(* Type correctness, for any threads, sessions and faults.                 *)
THEOREM TypeCorrect == Spec => []TypeOK
BY Invariance, PTL DEF IInv, TInv

(* No session stays in Redis without a time to live: SET and EXPIRE of     *)
(* BaseRedisManager.set may interleave in any number of threads.           *)
THEOREM AllExpire == Spec => []SessionsExpire
BY Invariance, PTL DEF IInv

(* A session that was stopped is deleted by who wrote it, unless a command *)
(* failed.                                                                 *)
THEOREM NoneStopped == Spec => []StoppedIsDeleted
BY Invariance, PTL DEF IInv

-----------------------------------------------------------------------------
(* Only a thread that works on a session, or believes a copy of it, can    *)
(* write it, and only the validation can begin to without one.             *)
LEMMA NextGone ==
  ASSUME IInv, [Next]_vars, NEW s \in Sessions, Gone(s)
  PROVE  Gone(s)'
<1> USE SessionAssumption DEF IInv, TInv, Clients, Gone, Unused, Over, Command, Commands,
      redis, thread, validation
<1>1. ASSUME NEW t \in Threads, NEW r \in Sessions, Create(t, r),
             UNCHANGED validation
      PROVE  Gone(s)'
  BY <1>1 DEF TypeOK, Working, Create
<1>2. ASSUME NEW t \in Threads, NEW r \in Sessions, NEW o \in Ops,
             ReadCopy(t, r, o), UNCHANGED validation
      PROVE  Gone(s)'
  BY <1>2 DEF TypeOK, Working, ReadCopy, Begin
<1>3. ASSUME NEW t \in Threads, NEW r \in Sessions, NEW o \in Ops,
             ReadRedis(t, r, o), UNCHANGED validation
      PROVE  Gone(s)'
  BY <1>3 DEF TypeOK, Working, ReadRedis, Begin, Get
<1>4. ASSUME NEW t \in Threads, NEW r \in Sessions, Age(t, r),
             UNCHANGED validation
      PROVE  Gone(s)'
  BY <1>4 DEF TypeOK, Working, Age
<1>5. ASSUME NEW r \in Sessions, TimeOut(r), UNCHANGED validation
      PROVE  Gone(s)'
  BY <1>5 DEF TypeOK, Working, TimeOut, TimeToLivePasses, DelCommand, Sessions
<1>6. ASSUME NEW t \in Clients, Work(t), UNCHANGED validation
      PROVE  Gone(s)'
  BY <1>6 DEF TypeOK, Working, Work, Changed
<1>7. ASSUME NEW t \in Clients, Set(t), UNCHANGED validation
      PROVE  Gone(s)'
  BY <1>7 DEF TypeOK, Working, Set, SetCommand, Sessions
<1>8. ASSUME NEW t \in Clients, Expire(t), UNCHANGED validation
      PROVE  Gone(s)'
  BY <1>8 DEF TypeOK, Working, Expire, ExpireCommand, Done, Sessions
<1>9. ASSUME NEW t \in Clients, Delete(t), UNCHANGED validation
      PROVE  Gone(s)'
  BY <1>9 DEF TypeOK, Working, Delete, DelCommand, Done, Sessions
<1>10. ASSUME NEW t \in Threads, Fail(t), UNCHANGED validation
      PROVE  Gone(s)'
  <2> HIDE DEF TInv, Clients, Command
  <2>1. t \in Clients /\ t # Validator
    BY SessionAssumption DEF Clients
  <2>2. /\ db'[s] = Absent /\ s # Absent /\ created' = created
        /\ fresh' = fresh
    <3>1. s # Absent
      BY SessionAssumption DEF Sessions
    <3>2. /\ created' = created /\ fresh' = fresh
          /\ UNCHANGED redis \/ Command(t)
      BY <1>10, <2>1, Failed
    <3>3. db'[s] = db[s]
      BY <2>1, <3>2, Commanded
    <3> QED
      BY <3>1, <3>2, <3>3
  <2>3. \A u \in Clients : key'[u] # s
    BY <1>10, <2>1, <2>2, Failed
  <2> QED
    BY <1>10, <2>2, <2>3
<1>11. CASE StartScan
  BY <1>11 DEF TypeOK, Working, StartScan, store
<1>12. CASE Scan
  BY <1>12 DEF TypeOK, Working, Scan, store
<1>13. CASE EndRead \/ ScanFails
  BY <1>13 DEF TypeOK, Working, EndRead, ScanFails, store
<1>14. CASE EndValidation
  BY <1>14 DEF TypeOK, Working, EndValidation, store
<1>15. ASSUME NEW r \in Sessions, ReadActive(r)
      PROVE  Gone(s)'
  BY <1>15 DEF TypeOK, Working, ReadActive, Get, store
<1>16. ASSUME NEW r \in Sessions, Valid(r) \/ ReadFails(r)
      PROVE  Gone(s)'
  BY <1>16 DEF TypeOK, Working, Valid, ReadFails, store
<1>17. ASSUME NEW r \in Sessions, NEW v \in Session, Invalid(r, v)
      PROVE  Gone(s)'
  BY <1>17 DEF TypeOK, Working, Invalid, Begin
<1>18. CASE ValidatorFails
  <2> HIDE DEF TInv, Clients, Command
  <2>1. Validator \in Clients /\ Fail(Validator)
    BY <1>18 DEF ValidatorFails, Clients
  <2>2. /\ db'[s] = Absent /\ s # Absent /\ created' = created
        /\ fresh' = fresh
    <3>1. s # Absent
      BY SessionAssumption DEF Sessions
    <3>2. /\ created' = created /\ fresh' = fresh
          /\ UNCHANGED redis \/ Command(Validator)
      BY <2>1, Failed
    <3>3. db'[s] = db[s]
      BY <2>1, <3>2, Commanded
    <3> QED
      BY <3>1, <3>2, <3>3
  <2>3. \A u \in Clients : key'[u] # s
    BY <2>1, <2>2, Failed
  <2> QED
    BY <1>18, <2>2, <2>3 DEF ValidatorFails
<1>19. CASE UNCHANGED vars
  BY <1>19 DEF vars, store
<1> HIDE DEF IInv, TInv, Gone, Unused, Clients
<1> QED
  BY <1>1, <1>2, <1>3, <1>4, <1>5, <1>6, <1>7, <1>8, <1>9, <1>10, <1>11,
     <1>12, <1>13, <1>14, <1>15, <1>16, <1>17, <1>18, <1>19
  DEF Next, Validate, Operate, Save

(* A session that is gone, and whose copies are older than a second, never *)
(* comes back, whatever the threads and the validation do.                 *)
THEOREM NeverBack == Spec => GoneForGood
<1>1. IInv /\ [Next]_vars => [\A s \in Sessions : Gone(s) => Gone(s)']_vars
  BY NextGone
<1> QED
  BY <1>1, Invariance, PTL DEF Spec, GoneForGood

-----------------------------------------------------------------------------
LEMMA NextSweeping ==
  ASSUME TInv, Sweeping, [Next]_vars
  PROVE  Sweeping'
<1> USE SessionAssumption DEF TInv, TypeOK, Working, Sweeping, InRedis,
      StillThere, Over, validation, thread
<1>1. CASE StartScan \/ ScanFails \/ EndValidation \/ ValidatorFails
  BY <1>1 DEF StartScan, ScanFails, EndValidation, ValidatorFails
<1>2. CASE Scan
  BY <1>2 DEF Scan, store
<1>3. CASE EndRead
  BY <1>3 DEF EndRead, store
<1>4. ASSUME NEW s \in Sessions, ReadActive(s)
      PROVE  Sweeping'
  <2>1. s \in lingering => Get(s) = "stopped"
    BY DEF Get
  <2> QED
    BY <1>4, <2>1 DEF ReadActive, store
<1>5. ASSUME NEW s \in Sessions, ReadFails(s)
      PROVE  Sweeping'
  BY <1>5 DEF ReadFails
<1>6. ASSUME NEW s \in Sessions, Valid(s)
      PROVE  Sweeping'
  BY <1>6 DEF Valid, store
<1>7. ASSUME NEW s \in Sessions, NEW v \in Session, Invalid(s, v)
      PROVE  Sweeping'
  BY <1>7 DEF Invalid, Begin, Clients
<1>8. ASSUME StillThere, UNCHANGED validation,
             NEW t \in Clients, Save(t) \/ (t \in Threads /\ Fail(t))
      PROVE  Sweeping'
  <2>1. CASE t # Validator
    BY <1>8, <2>1 DEF Save, Work, Set, Expire, Delete, Fail, Done, Clients
  <2>2. CASE t = Validator
    <3>1. CASE Work(t)
      BY <1>8, <2>2, <3>1 DEF Work
    <3>2. CASE Set(t)
      BY <1>8, <2>2, <3>2 DEF Set
    <3>3. CASE Expire(t)
      BY <1>8, <2>2, <3>3 DEF Expire, Done
    <3>4. CASE Delete(t)
      <4>1. db'[key[t]] # "stopped"
        BY <1>8, <3>4 DEF Delete, Command, DelCommand, Session, Sessions
      <4> QED
        BY <1>8, <2>2, <3>4, <4>1 DEF Delete, Done
    <3> QED
      BY <1>8, <2>2, <3>1, <3>2, <3>3, <3>4 DEF Save
  <2> QED
    BY <2>1, <2>2
<1>9. ASSUME StillThere, UNCHANGED validation, NEW t \in Threads,
             NEW s \in Sessions, Operate(t, s) \/ Age(t, s)
      PROVE  Sweeping'
  BY <1>9 DEF Operate, Age, Create, ReadCopy, ReadRedis, Begin, Clients
<1>10. ASSUME StillThere, UNCHANGED validation, NEW s \in Sessions, TimeOut(s)
       PROVE  Sweeping'
  BY <1>10 DEF TimeOut
<1>11. CASE UNCHANGED vars
  BY <1>11 DEF vars, store
<1> HIDE DEF TInv, TypeOK, Working, Sweeping, StillThere
<1> QED
  BY <1>1, <1>2, <1>3, <1>4, <1>5, <1>6, <1>7, <1>8, <1>9, <1>10, <1>11
  DEF Next, Validate, Clients

(* A session that a failed DEL has left in Redis as stopped goes with the  *)
(* next validation that comes to its end, if SCAN keeps its promise.       *)
THEOREM NoneLingers == Spec => LingeringSwept
<1>1. Init => Sweeping
  BY DEF Init, Sweeping
<1>2. TInv /\ Sweeping /\ [Next]_vars => Sweeping'
  BY NextSweeping
<1>3. Sweeping /\ [Next]_vars
        => [scan = "validate" /\ active = {} /\ pc[Validator] = "idle"
              /\ scan' = "off" => lingering = {}]_vars
  BY DEF Sweeping
<1> QED
  BY <1>1, <1>2, <1>3, InitTInv, NextTInv, PTL DEF Spec, LingeringSwept
=============================================================================
