----------------------------- MODULE LoginRetry -----------------------------
(***************************************************************************)
(* UserCredentialsMatcher: the attempts to log in as a user are counted in *)
(* a Redis cache that all servers share.  An attempt reads the counter,    *)
(* writes it back increased, is turned away if the counter has reached     *)
(* the maximum, and else compares the credentials; a success removes the   *)
(* counter.  Each command to Redis is a step of its own.                   *)
(*                                                                         *)
(* Whether the account exists is settled before (SimpleUserRealm), and the *)
(* key of a user in this cache belongs to the matcher alone.               *)
(***************************************************************************)
EXTENDS RedisManager, Naturals

CONSTANTS
  Threads,       \* request threads of all servers
  Overlapping,   \* users whose attempts may overlap
  MaxRetry,      \* shiro.maxpassword.retrytime
  MaxAttempts,   \* bound: attempts in a behaviour
  MaxFaults      \* bound: Redis commands that fail

ASSUME RetryAssumption ==
  /\ Absent \notin Nat
  /\ Overlapping \subseteq Keys
  /\ MaxRetry \in Nat \ {0}
  /\ MaxAttempts \in Nat \ {0}
  /\ MaxFaults \in Nat

VARIABLES
  pc,         \* where each thread is in doCredentialsMatch
  name,       \* the user it logs in
  retryCount, \* its local variable
  correct,    \* whether its credentials are
  answer,     \* the last answer each user was given
  failed,     \* history: failed comparisons since the counter was dropped
  broken,     \* history: the users of whom SET or EXPIRE has failed since the
              \* last SET or DEL that did not
  attempts,   \* how many attempts were made
  faults      \* how many commands have failed

Names == Keys

locals == <<pc, name, retryCount, correct>>
bounds == <<attempts, faults>>
vars == <<redis, locals, answer, failed, broken, bounds>>

TypeOK ==
  /\ db \in [Names -> 0 .. MaxAttempts - 1 \cup {Absent}]
  /\ ExpiringKeysExist
  /\ pc \in [Threads -> {"idle", "get", "set", "expire", "match", "remove"}]
  /\ name \in [Threads -> Names \cup {Absent}]
  /\ retryCount \in [Threads -> 0 .. MaxAttempts - 1]
  /\ correct \in [Threads -> BOOLEAN]
  /\ answer \in [Names -> {"none", "ok", "failed", "locked", "error"}]
  /\ failed \in [Names -> 0 .. MaxAttempts]
  /\ broken \subseteq Names
  /\ attempts \in 0 .. MaxAttempts
  /\ faults \in 0 .. MaxFaults

Init ==
  /\ RedisInit
  /\ pc = [t \in Threads |-> "idle"]
  /\ name = [t \in Threads |-> Absent]
  /\ retryCount = [t \in Threads |-> 0]
  /\ correct = [t \in Threads |-> FALSE]
  /\ answer = [u \in Names |-> "none"]
  /\ failed = [u \in Names |-> 0]
  /\ broken = {}
  /\ attempts = 0
  /\ faults = 0

At(t, label) == pc[t] = label

Go(t, label) ==
  /\ pc' = [pc EXCEPT ![t] = label]
  /\ UNCHANGED <<name, correct>>

\* The attempt of t ends with an answer, or an exception, to its user.
Answer(t, reply) ==
  /\ answer' = [answer EXCEPT ![name[t]] = reply]
  /\ pc' = [pc EXCEPT ![t] = "idle"]
  /\ name' = [name EXCEPT ![t] = Absent]
  /\ retryCount' = [retryCount EXCEPT ![t] = 0]
  /\ correct' = [correct EXCEPT ![t] = FALSE]

Login(t, u, c) ==
  /\ At(t, "idle")
  /\ u \in Overlapping \/ \A o \in Threads : name[o] # u
  /\ attempts < MaxAttempts
  /\ attempts' = attempts + 1
  /\ pc' = [pc EXCEPT ![t] = "get"]
  /\ name' = [name EXCEPT ![t] = u]
  /\ correct' = [correct EXCEPT ![t] = c]
  /\ UNCHANGED <<redis, retryCount, answer, failed, broken, faults>>

\* new AtomicInteger(0), or retryCount.incrementAndGet()
NextCount(u) == IF Get(u) = Absent THEN 0 ELSE Get(u) + 1

Read(t) ==
  /\ At(t, "get")
  /\ retryCount' = [retryCount EXCEPT ![t] = NextCount(name[t])]
  /\ Go(t, "set")
  /\ UNCHANGED <<redis, answer, failed, broken, bounds>>

Set(t) ==
  /\ At(t, "set")
  /\ SetCommand(name[t], retryCount[t])
  /\ broken' = broken \ {name[t]}
  /\ Go(t, "expire")
  /\ UNCHANGED <<retryCount, answer, failed, bounds>>

\* Mutant of Expire: only a new counter gets its time to live.
ExpireNew(t) ==
  /\ At(t, "expire")
  /\ IF retryCount[t] = 0 THEN ExpireCommand(name[t]) ELSE UNCHANGED redis
  /\ IF retryCount[t] >= MaxRetry
     THEN Answer(t, "locked")
     ELSE Go(t, "match") /\ UNCHANGED <<retryCount, answer>>
  /\ UNCHANGED <<failed, broken, bounds>>

\* The counter is written; an attempt that finds the account locked ends.
Expire(t) ==
  /\ At(t, "expire")
  /\ ExpireCommand(name[t])
  /\ IF retryCount[t] >= MaxRetry
     THEN Answer(t, "locked")
     ELSE Go(t, "match") /\ UNCHANGED <<retryCount, answer>>
  /\ UNCHANGED <<failed, broken, bounds>>

Match(t) ==
  /\ At(t, "match")
  /\ IF correct[t]
     THEN Go(t, "remove") /\ UNCHANGED <<retryCount, answer, failed>>
     ELSE /\ Answer(t, "failed")
          /\ failed' = [failed EXCEPT ![name[t]] = @ + 1]
  /\ UNCHANGED <<redis, broken, bounds>>

\* Mutant of Remove: a success leaves the counter.
RemoveNothing(t) ==
  /\ At(t, "remove")
  /\ Answer(t, "ok")
  /\ UNCHANGED <<redis, failed, broken, bounds>>

\* The previous value that remove reads first is not used.
Remove(t) ==
  /\ At(t, "remove")
  /\ DelCommand(name[t])
  /\ failed' = [failed EXCEPT ![name[t]] = 0]
  /\ broken' = broken \ {name[t]}
  /\ Answer(t, "ok")
  /\ UNCHANGED bounds

Breaks(t) ==
  /\ faults < MaxFaults
  /\ faults' = faults + 1
  /\ broken' = broken \cup {u \in {name[t]} : pc[t] \in {"set", "expire"}}
  /\ Answer(t, "error")
  /\ UNCHANGED attempts

\* A command fails, and the login with it.
Break(t) ==
  /\ pc[t] \in {"get", "set", "expire", "remove"}
  /\ Breaks(t)
  /\ UNCHANGED <<redis, failed>>

\* A command is executed and its reply lost.
LoseReply(t) ==
  /\ \/ At(t, "set") /\ SetCommand(name[t], retryCount[t]) /\ UNCHANGED failed
     \/ At(t, "expire") /\ ExpireCommand(name[t]) /\ UNCHANGED failed
     \/ /\ At(t, "remove")
        /\ DelCommand(name[t])
        /\ failed' = [failed EXCEPT ![name[t]] = 0]
  /\ Breaks(t)

\* An hour passes for the counter of u without an attempt.
HourPasses(u) ==
  /\ \A t \in Threads : name[t] # u
  /\ TimeToLivePasses(u)
  /\ failed' = [failed EXCEPT ![u] = 0]
  /\ UNCHANGED <<locals, answer, broken, bounds>>

Attempt(t) ==
  Read(t) \/ Set(t) \/ Expire(t) \/ Match(t) \/ Remove(t)

Next ==
  \/ \E t \in Threads : Attempt(t) \/ Break(t) \/ LoseReply(t)
  \/ \E t \in Threads, u \in Names, c \in BOOLEAN : Login(t, u, c)
  \/ \E u \in Names : HourPasses(u)

Spec == Init /\ [][Next]_vars

\* Attempts come to an end and time passes.
FairSpec ==
  /\ Spec
  /\ \A t \in Threads : WF_vars(Attempt(t))
  /\ \A u \in Names : WF_vars(HourPasses(u))

-----------------------------------------------------------------------------
(* Properties.                                                             *)

Least(m, n) == IF m <= n THEN m ELSE n

\* An attempt of u has written the counter and may yet succeed.
Written(u) ==
  \E t \in Threads : name[t] = u /\ pc[t] \in {"expire", "match", "remove"}

\* The failures an attempt will find: a counter that is written counts the
\* attempt that wrote it once this is over.
Failures(u) ==
  IF db[u] = Absent THEN 0
  ELSE Least(IF Written(u) THEN db[u] ELSE db[u] + 1, MaxRetry)

\* The users whose attempts come one after the other.
Alone == Names \ Overlapping

Policy == INSTANCE RetryPolicy WITH
  Names <- Alone,
  failures <- [u \in Alone |-> Failures(u)],
  answer <- [u \in Alone |-> answer[u]]

\* Attempts of a user that do not overlap implement the retry policy,
\* whatever the attempts of others do, though the counter starts at 0, is
\* written before the comparison, and may be left written by an attempt that
\* fails half way.
ImplementsRetryPolicy == Policy!PolicySpec

\* No user gets more (application.properties:33, which knows one maximum).
AtMostMaxRetryEver == \A u \in Names : failed[u] <= MaxRetry

\* No counter locks a user for ever: one without a time to live is between
\* SET and EXPIRE of some attempt, however the attempts overlap, or one of the
\* two commands has failed since the last SET.
CountersExpire ==
  \A u \in Names :
    db[u] # Absent /\ u \notin expiring
      => \/ u \in broken
         \/ \E t \in Threads : name[t] = u /\ pc[t] = "expire"

\* A counter is dropped some time after the last attempt, also after commands
\* that failed, if a later attempt has written it.
LockEnds ==
  \A u \in Names : db[u] # Absent ~> db[u] = Absent \/ u \in broken
=============================================================================
