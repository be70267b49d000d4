---------------------------- MODULE SessionStore ----------------------------
(***************************************************************************)
(* RedisSessionDao: Shiro's sessions in Redis, with a copy in a            *)
(* ThreadLocal that doReadSession prefers for one second.  The request     *)
(* threads of all servers run the operations Shiro performs on a session,  *)
(* each of which reads the session through the DAO, changes the object and *)
(* updates the DAO.  The copy and the object a thread works on are one     *)
(* object.  Of a session only matters whether it was stopped: "touch"      *)
(* stands for every operation but the stop.                                *)
(*                                                                         *)
(* Shiro's validation scheduler takes all sessions with getActiveSessions, *)
(* past the ThreadLocal, and stops those that have timed out; a null among *)
(* them ends it.  Reading them ends at the first that cannot be            *)
(* deserialized, with those read before.                                   *)
(***************************************************************************)
EXTENDS RedisManager, Naturals

CONSTANTS
  Threads,        \* request threads
  Validator,      \* the thread of Shiro's validation scheduler
  MaxFaults       \* bound: Redis commands that fail

Session == {"active", "stopped"}

ASSUME SessionAssumption ==
  /\ Validator \notin Threads
  /\ Absent \notin Session \cup Keys
  /\ MaxFaults \in Nat

VARIABLES
  copy,      \* sessionsInThread: the copy of each thread and session; of
             \* the validator the object it works on
  fresh,     \* the copies younger than sessionInMemoryTimeout
  pc,        \* where each thread is
  op,        \* what it does with the session
  key,       \* the session it works on
  bytes,     \* the serialized session it sends
  scan,      \* where getActiveSessions and the validation are
  found,     \* the keys SCAN has returned, less those that were read
  active,    \* the sessions to validate, with what was read
  there,     \* history: the sessions in Redis since the scan began
  lingering, \* history: those of them that were stopped all the while
  failed,    \* history: the commands that failed on each session since the
             \* last SET or DEL of it that did not
  created,   \* history: the sessions created
  faults     \* how many commands have failed

Sessions == Keys

Clients == Threads \cup {Validator}

thread == <<pc, op, key, bytes>>
validation == <<scan, found, active>>
store == <<redis, copy, fresh, thread, created, faults, failed>>
vars == <<store, validation, there, lingering>>

Ops == {"touch", "stop"}

Commands == {"set", "expire", "del"}

TypeOK ==
  /\ db \in [Sessions -> Session \cup {Absent}]
  /\ ExpiringKeysExist
  /\ copy \in [Clients \X Sessions -> Session \cup {Absent}]
  /\ fresh \subseteq {c \in Threads \X Sessions : copy[c] # Absent}
  /\ pc \in [Clients -> {"idle", "work"} \cup Commands]
  /\ op \in [Clients -> Ops \cup {"none"}]
  /\ key \in [Clients -> Sessions \cup {Absent}]
  /\ bytes \in [Clients -> Session \cup {Absent}]
  /\ scan \in {"off", "scan", "get", "part", "validate"}
  /\ found \subseteq created
  /\ active \subseteq created \X (Session \cup {Absent})
  /\ there \subseteq {s \in Sessions : db[s] # Absent}
  /\ lingering \subseteq {s \in there : db[s] = "stopped"}
  /\ failed \subseteq Commands \X Sessions
  /\ created \subseteq Sessions
  /\ faults \in 0 .. MaxFaults

Init ==
  /\ RedisInit
  /\ copy = [c \in Clients \X Sessions |-> Absent]
  /\ fresh = {}
  /\ pc = [t \in Clients |-> "idle"]
  /\ op = [t \in Clients |-> "none"]
  /\ key = [t \in Clients |-> Absent]
  /\ bytes = [t \in Clients |-> Absent]
  /\ scan = "off"
  /\ found = {} /\ active = {}
  /\ there = {} /\ lingering = {}
  /\ failed = {}
  /\ created = {}
  /\ faults = 0

\* The operation of t is over, with a result or with an exception.
Done(t) ==
  /\ pc' = [pc EXCEPT ![t] = "idle"]
  /\ op' = [op EXCEPT ![t] = "none"]
  /\ key' = [key EXCEPT ![t] = Absent]
  /\ bytes' = [bytes EXCEPT ![t] = Absent]

\* doCreate: the session gets its id and is saved; it enters no ThreadLocal.
Create(t, s) ==
  /\ pc[t] = "idle"
  /\ s \notin created
  /\ created' = created \cup {s}
  /\ pc' = [pc EXCEPT ![t] = "set"]
  /\ op' = [op EXCEPT ![t] = "touch"]
  /\ key' = [key EXCEPT ![t] = s]
  /\ bytes' = [bytes EXCEPT ![t] = "active"]
  /\ UNCHANGED <<redis, copy, fresh, faults, failed>>

\* An operation on the session found.  Shiro stops a session again that it
\* finds stopped.
Begin(t, s, o, session) ==
  /\ pc' = [pc EXCEPT ![t] = "work"]
  /\ op' = [op EXCEPT ![t] = IF session = "stopped" THEN "stop" ELSE o]
  /\ key' = [key EXCEPT ![t] = s]
  /\ UNCHANGED bytes

\* Mutant of ReadCopy: a copy is believed at any age.
ReadCopyAnyAge(t, s, o) ==
  /\ pc[t] = "idle"
  /\ copy[<<t, s>>] # Absent
  /\ Begin(t, s, o, copy[<<t, s>>])
  /\ UNCHANGED <<redis, copy, fresh, created, faults, failed>>

\* doReadSession finds a copy in the ThreadLocal that is still valid.
ReadCopy(t, s, o) ==
  /\ pc[t] = "idle"
  /\ <<t, s>> \in fresh
  /\ Begin(t, s, o, copy[<<t, s>>])
  /\ UNCHANGED <<redis, copy, fresh, created, faults, failed>>

\* doReadSession asks Redis and keeps what it gets, a missing session too.
\* One that cannot be deserialized is not kept, which changes nothing.
ReadRedis(t, s, o) ==
  /\ pc[t] = "idle"
  /\ s \in created
  /\ <<t, s>> \notin fresh
  /\ copy' = [copy EXCEPT ![<<t, s>>] = Get(s)]
  /\ IF Get(s) = Absent
     THEN UNCHANGED <<fresh, thread>>
     ELSE fresh' = fresh \cup {<<t, s>>} /\ Begin(t, s, o, Get(s))
  /\ UNCHANGED <<redis, created, faults, failed>>

\* The object after the operation of t.
Changed(t, session) == IF op[t] = "stop" THEN "stopped" ELSE session

\* The object is changed, and update serializes it.
Work(t) ==
  /\ pc[t] = "work"
  /\ copy' = [copy EXCEPT ![<<t, key[t]>>] = Changed(t, @)]
  /\ bytes' = [bytes EXCEPT ![t] = copy'[<<t, key[t]>>]]
  /\ pc' = [pc EXCEPT ![t] = "set"]
  /\ UNCHANGED <<redis, fresh, op, key, created, faults, failed>>

\* The command t sends next.
Command(t) ==
  \/ pc[t] = "set" /\ SetCommand(key[t], bytes[t])
  \/ pc[t] = "expire" /\ ExpireCommand(key[t])
  \/ pc[t] = "del" /\ DelCommand(key[t])

\* A SET or DEL that did not fail makes up for what failed before.
MadeUp(t) == failed' = failed \ (Commands \X {key[t]})

Set(t) ==
  /\ pc[t] = "set"
  /\ Command(t)
  /\ MadeUp(t)
  /\ pc' = [pc EXCEPT ![t] = "expire"]
  /\ UNCHANGED <<copy, fresh, op, key, bytes, created, faults>>

\* Mutant of Expire: only a new session gets its time to live; the SET of an
\* old one drops it.
ExpireNew(t) ==
  /\ pc[t] = "expire"
  /\ IF op[t] = "touch" THEN ExpireCommand(key[t]) ELSE UNCHANGED redis
  /\ IF op[t] = "stop"
     THEN pc' = [pc EXCEPT ![t] = "del"] /\ UNCHANGED <<op, key, bytes>>
     ELSE Done(t)
  /\ UNCHANGED <<copy, fresh, created, faults, failed>>

\* Mutant of Expire: a stopped session is saved and not deleted.
ExpireNoDelete(t) ==
  /\ pc[t] = "expire"
  /\ Command(t)
  /\ Done(t)
  /\ UNCHANGED <<copy, fresh, created, faults, failed>>

Expire(t) ==
  /\ pc[t] = "expire"
  /\ Command(t)
  /\ IF op[t] = "stop"
     THEN pc' = [pc EXCEPT ![t] = "del"] /\ UNCHANGED <<op, key, bytes>>
     ELSE Done(t)
  /\ UNCHANGED <<copy, fresh, created, faults, failed>>

\* delete, after a stop: the ThreadLocal copies stay.
Delete(t) ==
  /\ pc[t] = "del"
  /\ Command(t)
  /\ MadeUp(t)
  /\ Done(t)
  /\ UNCHANGED <<copy, fresh, created, faults>>

\* A command fails, and with it the operation; Redis may have executed it.
\* Nothing is sent of a session that cannot be serialized.
Fail(t) ==
  /\ pc[t] \in Commands
  /\ faults < MaxFaults
  /\ faults' = faults + 1
  /\ UNCHANGED redis \/ Command(t)
  /\ failed' = failed \cup {<<pc[t], key[t]>>}
  /\ Done(t)
  /\ UNCHANGED <<copy, fresh, created>>

\* A second passes for a copy.
Age(t, s) ==
  /\ <<t, s>> \in fresh
  /\ fresh' = fresh \ {<<t, s>>}
  /\ UNCHANGED <<redis, copy, thread, created, faults, failed>>

\* Nobody works on the session or holds a copy it would still believe.
Unused(s) == \A t \in Clients : key[t] # s /\ <<t, s>> \notin fresh

\* An hour passes without an operation on the session.
TimeOut(s) ==
  /\ TimeToLivePasses(s)
  /\ Unused(s)
  /\ UNCHANGED <<copy, fresh, thread, created, faults, failed>>

Operate(t, s) ==
  \/ Create(t, s)
  \/ \E o \in Ops : ReadCopy(t, s, o) \/ ReadRedis(t, s, o)

Save(t) == Work(t) \/ Set(t) \/ Expire(t) \/ Delete(t)

-----------------------------------------------------------------------------
(* Validation.                                                             *)

InRedis == {s \in Sessions : db[s] # Absent}

StartScan ==
  /\ scan = "off" /\ pc[Validator] = "idle"
  /\ scan' = "scan"
  /\ there' = InRedis
  /\ lingering' = {s \in Sessions : db[s] = "stopped"}
  /\ UNCHANGED <<store, found, active>>

\* Mutant of Scan: only the first reply is read.
ScanOnce ==
  /\ scan = "scan"
  /\ found' \in {found \cup S : S \in SUBSET InRedis}
  /\ scan' = "get"
  /\ UNCHANGED <<store, active, there, lingering>>

\* A SCAN of keys: some keys, and a cursor.  When the cursor is 0, every key
\* that was there all the while has been returned.
Scan ==
  /\ scan = "scan"
  /\ found' \in {found \cup S : S \in SUBSET InRedis}
  /\ \/ scan' = "scan"
     \/ there \subseteq found' /\ scan' = "get"
  /\ UNCHANGED <<store, active, there, lingering>>

\* A key that has expired since the SCAN gives a null.
ReadActive(s) ==
  /\ scan = "get"
  /\ s \in found
  /\ found' = found \ {s}
  /\ active' = active \cup {<<s, Get(s)>>}
  /\ UNCHANGED <<store, scan, there, lingering>>

\* A session that cannot be deserialized ends the reading.
ReadFails(s) ==
  /\ scan = "get"
  /\ s \in found
  /\ Get(s) # Absent
  /\ scan' = "part"
  /\ found' = {}
  /\ UNCHANGED <<store, active, there, lingering>>

EndRead ==
  /\ scan = "get"
  /\ found = {}
  /\ scan' = "validate"
  /\ UNCHANGED <<store, found, active, there, lingering>>

\* Shiro leaves a valid session alone.
Valid(s) ==
  /\ scan \in {"part", "validate"} /\ pc[Validator] = "idle"
  /\ <<s, "active">> \in active
  /\ active' = active \ {<<s, "active">>}
  /\ UNCHANGED <<store, scan, found, there, lingering>>

\* A session that was stopped, or not used for its timeout, is stopped.
Invalid(s, session) ==
  /\ scan \in {"part", "validate"} /\ pc[Validator] = "idle"
  /\ <<s, session>> \in active
  /\ session = "active" => Unused(s)
  /\ active' = active \ {<<s, session>>}
  /\ copy' = [copy EXCEPT ![<<Validator, s>>] = session]
  /\ Begin(Validator, s, "stop", session)
  /\ UNCHANGED <<redis, fresh, created, faults, failed>>
  /\ UNCHANGED <<scan, found, there, lingering>>

Over ==
  /\ scan' = "off"
  /\ found' = {} /\ active' = {} /\ there' = {} /\ lingering' = {}

\* The validation is over, at the latest at a null.
EndValidation ==
  /\ scan \in {"part", "validate"} /\ pc[Validator] = "idle"
  /\ active = {} \/ \E s \in Sessions : <<s, Absent>> \in active
  /\ Over
  /\ UNCHANGED store

\* A SCAN or a GET fails, and with it the validation.
ScanFails ==
  /\ scan \in {"scan", "get"}
  /\ Over
  /\ UNCHANGED store

\* A command of the validator fails, and with it the validation.
ValidatorFails ==
  /\ Fail(Validator)
  /\ Over

Validate ==
  \/ StartScan \/ Scan \/ ScanFails \/ EndRead \/ EndValidation
  \/ \E s \in Sessions :
       \/ ReadActive(s) \/ ReadFails(s) \/ Valid(s)
       \/ \E v \in Session : Invalid(s, v)

-----------------------------------------------------------------------------
\* The sessions that were there and still are.
StillThere ==
  /\ there' = there \cap InRedis'
  /\ lingering' = {s \in lingering : db'[s] = "stopped"}

Next ==
  \/ Validate
  \/ ValidatorFails
  \/ /\ \/ \E t \in Clients : Save(t)
        \/ \E t \in Threads : Fail(t)
        \/ \E t \in Threads, s \in Sessions : Operate(t, s) \/ Age(t, s)
        \/ \E s \in Sessions : TimeOut(s)
     /\ StillThere
     /\ UNCHANGED validation

Spec == Init /\ [][Next]_vars

-----------------------------------------------------------------------------
(* Properties.                                                             *)

\* No session stays in Redis for ever: one without a time to live is between
\* the SET and the EXPIRE of some thread, however many save it at once, or one
\* of the two has failed since the last SET.
SessionsExpire ==
  \A s \in Sessions :
    db[s] # Absent /\ s \notin expiring
      => \/ <<"set", s>> \in failed \/ <<"expire", s>> \in failed
         \/ \E t \in Clients : pc[t] = "expire" /\ key[t] = s

\* A session marked as stopped is in Redis only until the thread that stopped
\* it deletes it, or a command on it has failed since the last SET.
StoppedIsDeleted ==
  \A s \in Sessions :
    db[s] = "stopped"
      => \/ \E c \in Commands : <<c, s>> \in failed
         \/ \E t \in Clients :
              op[t] = "stop" /\ key[t] = s /\ pc[t] \in {"expire", "del"}

\* The session is not in Redis, nobody works on it, no thread holds a copy it
\* would still believe, and the validation has not read it.
Gone(s) ==
  /\ s \in created
  /\ db[s] = Absent
  /\ Unused(s)
  /\ \A v \in Session : <<s, v>> \notin active

\* A session that is gone, and whose copies are older than a second, never
\* comes back, whatever the threads do.
GoneForGood == [][\A s \in Sessions : Gone(s) => Gone(s)']_vars

\* What a failed DEL leaves behind goes with the next validation: when one has
\* read every session and come to its end, no session is in Redis that was
\* there as stopped from its first command on, however others come and go.
LingeringSwept ==
  [][scan = "validate" /\ active = {} /\ pc[Validator] = "idle" /\ scan' = "off"
      => lingering = {}]_vars
=============================================================================
