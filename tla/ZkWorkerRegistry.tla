--------------------------- MODULE ZkWorkerRegistry ---------------------------
(***************************************************************************)
(* ZkIdGenerator: the processes of a cluster agree on worker ids through   *)
(* ZooKeeper.  A process takes the lock of the application, picks the      *)
(* first id in the order list without a node, creates its ephemeral node   *)
(* and watches it; when the watcher finds that the node is not the one it  *)
(* created, it registers again.  Up to two registrations of one process    *)
(* overlap: the watcher of a new node starts before the registration that  *)
(* created it has stored the id.                                           *)
(*                                                                         *)
(* ZooKeeper is modelled by what the code relies on: sessions that expire, *)
(* ephemeral nodes deleted with the session that created them, atomic      *)
(* transactions, a lock held by a session.  A node's creation time is      *)
(* represented by the session that created it, for a session creates a     *)
(* given node once.                                                        *)
(***************************************************************************)
EXTENDS Integers, Sequences, FiniteSets

CONSTANTS
  Processes,             \* the JVMs that run the service
  None,                  \* null
  WorkerSize,            \* number of ids the 5 bits of the layout allow (32)
  MAX_SIZE,              \* the size checkAndInitOrder demands (1024)
  RegistrationMayStall,  \* a session may expire between a process's creation
                         \* of its node and the store of the worker id
  MaxSessions,           \* bound: sessions opened in a behaviour
  MaxFaults              \* bound: lost replies and failed checks

ASSUME RegistryAssumption ==
  /\ None \notin Processes
  /\ None \notin Nat
  /\ WorkerSize \in Nat \ {0}
  /\ MAX_SIZE \in Nat /\ MAX_SIZE >= WorkerSize
  /\ RegistrationMayStall \in BOOLEAN
  /\ MaxSessions \in Nat
  /\ MaxFaults \in Nat

VARIABLES
  opened,           \* how many sessions were opened: they are 1 .. opened
  live,             \* the sessions that have not expired
  node,             \* /node/<id>: the session that created it, 0 if absent
  order,            \* the list stored in /config/core
  lock,             \* holder of the InterProcessMutex of the application
  alive,            \* the JVM runs
  session,          \* the session of the process's Curator client
  workerId,         \* CommonIdGenerator.workerId
  pathCreatedTime,  \* ZkClient.pathCreatedTime
  watch,            \* the id whose node ZkClient.treeCache watches
  event,            \* the tree cache has an event for its listener
  pc,               \* where each registration of a process is
  choice,           \* local `each' of each registration
  orderIdSet,       \* local `orderIdSet' of each registration
  faults            \* how many faults have happened

zookeeper == <<opened, live, node, order, lock>>
jvm == <<alive, session, workerId, pathCreatedTime, watch, event>>
locals == <<choice, orderIdSet>>
vars == <<zookeeper, jvm, pc, locals, faults>>

WORKER_ID_MAX_VALUE == WorkerSize - 1

\* The ids doRegister ever assigns.
Ids == 0 .. WORKER_ID_MAX_VALUE - 1

Sessions == 1 .. MaxSessions

\* The first registration of a process, or that of a listener, and the one
\* the listener of a node created meanwhile may start.
Slots == {1, 2}

Registrations == Processes \X Slots

Elements(list) == {list[i] : i \in 1 .. Len(list)}

DefaultOrder == [i \in 1 .. WORKER_ID_MAX_VALUE |-> i - 1]

\* A stored list is used only if it has MAX_SIZE ids, all of them legal.
CheckAndInitOrder(list) ==
  IF Cardinality(Elements(list)) = MAX_SIZE /\ Elements(list) \subseteq Ids
  THEN list ELSE DefaultOrder

\* orderIdSet.remove(each); orderIdSet.add(each), of a LinkedHashSet: no id is
\* in the list twice.
MoveToEnd(list, each) ==
  LET i == CHOOSE i \in 1 .. Len(list) : list[i] = each
  IN  SubSeq(list, 1, i - 1) \o SubSeq(list, i + 1, Len(list)) \o <<each>>

\* Positions of the list whose id has no node.
FreePositions(list) == {i \in 1 .. Len(list) : node[list[i]] = 0}

FirstFree(list) ==
  list[CHOOSE i \in FreePositions(list) : \A j \in FreePositions(list) : i <= j]

Locations == {"idle", "acquire", "read", "commit", "stat", "set"}

TypeOK ==
  /\ opened \in 0 .. MaxSessions
  /\ live \subseteq 1 .. opened
  /\ node \in [Ids -> live \cup {0}]
  /\ order \in Seq(Ids)
  /\ lock \in [session : live, registration : Registrations] \cup {None}
  /\ alive \in [Processes -> BOOLEAN]
  /\ session \in [Processes -> 0 .. opened]
  /\ workerId \in [Processes -> Ids \cup {0}]
  /\ pathCreatedTime \in [Processes -> 0 .. opened]
  /\ watch \in [Processes -> Ids \cup {None}]
  /\ event \in [Processes -> BOOLEAN]
  /\ pc \in [Registrations -> Locations]
  /\ choice \in [Registrations -> Ids \cup {None}]
  /\ orderIdSet \in [Registrations -> Seq(Ids)]
  /\ faults \in 0 .. MaxFaults

Init ==
  /\ opened = 0
  /\ live = {}
  /\ node = [w \in Ids |-> 0]
  /\ order = <<>>
  /\ lock = None
  /\ alive = [p \in Processes |-> FALSE]
  /\ session = [p \in Processes |-> 0]
  /\ workerId = [p \in Processes |-> 0]
  /\ pathCreatedTime = [p \in Processes |-> 0]
  /\ watch = [p \in Processes |-> None]
  /\ event = [p \in Processes |-> FALSE]
  /\ pc = [r \in Registrations |-> "idle"]
  /\ choice = [r \in Registrations |-> None]
  /\ orderIdSet = [r \in Registrations |-> <<>>]
  /\ faults = 0

Connected(p) == session[p] \in live

OpenSession(p) ==
  /\ opened < MaxSessions
  /\ opened' = opened + 1
  /\ live' = live \cup {opened + 1}
  /\ session' = [session EXCEPT ![p] = opened + 1]

-----------------------------------------------------------------------------
(* The life of a process.                                                  *)

\* init() of the bean: a client is started and the process registers.
Boot(p) ==
  /\ ~alive[p]
  /\ OpenSession(p)
  /\ alive' = [alive EXCEPT ![p] = TRUE]
  /\ pc' = [pc EXCEPT ![<<p, 1>>] = "acquire"]
  /\ UNCHANGED <<node, order, lock, workerId, pathCreatedTime, watch, event,
                 locals, faults>>

\* The JVM is gone, its static fields with it; the session lives on until
\* ZooKeeper expires it, and so do the node and the lock.
Stop(p) ==
  /\ alive' = [alive EXCEPT ![p] = FALSE]
  /\ session' = [session EXCEPT ![p] = 0]
  /\ workerId' = [workerId EXCEPT ![p] = 0]
  /\ pathCreatedTime' = [pathCreatedTime EXCEPT ![p] = 0]
  /\ watch' = [watch EXCEPT ![p] = None]
  /\ event' = [event EXCEPT ![p] = FALSE]
  /\ pc' = [r \in Registrations |-> IF r[1] = p THEN "idle" ELSE pc[r]]
  /\ choice' = [r \in Registrations |-> IF r[1] = p THEN None ELSE choice[r]]
  /\ orderIdSet' =
       [r \in Registrations |-> IF r[1] = p THEN <<>> ELSE orderIdSet[r]]

Crash(p) ==
  /\ alive[p]
  /\ Stop(p)
  /\ UNCHANGED <<zookeeper, faults>>

\* A session whose process was not heard of for SESSION_TIMEOUT_MS.
Expire(s) ==
  /\ s \in live
  /\ \/ RegistrationMayStall
     \/ \A p \in Processes, k \in Slots :
          session[p] = s => pc[<<p, k>>] \notin {"stat", "set"}
  /\ live' = live \ {s}
  /\ node' = [w \in Ids |-> IF node[w] = s THEN 0 ELSE node[w]]
  /\ lock' = IF lock # None /\ lock.session = s THEN None ELSE lock
  /\ UNCHANGED <<opened, order, jvm, pc, locals, faults>>

\* Curator replaces the expired session; the tree cache reports it.
Reconnect(p) ==
  /\ alive[p]
  /\ ~Connected(p)
  /\ OpenSession(p)
  /\ event' = [event EXCEPT ![p] = watch[p] # None]
  /\ UNCHANGED <<node, order, lock, alive, workerId, pathCreatedTime, watch, pc,
                 locals, faults>>

-----------------------------------------------------------------------------
(* doRegister.                                                             *)

\* The finally clause.  The lock is given back only by its holder, and an
\* expired session has lost it already.
Release(r) ==
  lock' = IF lock # None /\ lock.registration = r THEN None ELSE lock

End(r) ==
  /\ pc' = [pc EXCEPT ![r] = "idle"]
  /\ choice' = [choice EXCEPT ![r] = None]
  /\ orderIdSet' = [orderIdSet EXCEPT ![r] = <<>>]

\* doRegister throws.  In init() the exception ends the application; a
\* listener's is logged by Curator, and the process runs on as it was.
Fail(p, k) ==
  /\ Release(<<p, k>>)
  /\ IF watch[p] = None
     THEN Stop(p)
     ELSE End(<<p, k>>) /\ UNCHANGED jvm

Acquire(p, k) ==
  /\ pc[<<p, k>>] = "acquire"
  /\ Connected(p)
  /\ lock = None
  /\ lock' = [session |-> session[p], registration |-> <<p, k>>]
  /\ pc' = [pc EXCEPT ![<<p, k>>] = "read"]
  /\ UNCHANGED <<opened, live, node, order, jvm, locals, faults>>

\* Mutant of AcquireTimeout: acquire() without a limit.
AcquireForever(p, k) == FALSE

\* LOCK_WAIT_TIME_MS pass while another holds the lock or nothing answers.
AcquireTimeout(p, k) ==
  /\ pc[<<p, k>>] = "acquire"
  /\ lock # None \/ ~Connected(p)
  /\ Fail(p, k)
  /\ UNCHANGED <<opened, live, node, order, faults>>

\* Read the order and the nodes, and choose the first id without a node.
Choose(p, k) ==
  /\ pc[<<p, k>>] = "read"
  /\ Connected(p)
  /\ LET list == CheckAndInitOrder(order)
         each == FirstFree(list)
     IN  /\ FreePositions(list) # {}
         /\ choice' = [choice EXCEPT ![<<p, k>>] = each]
         /\ orderIdSet' = [orderIdSet EXCEPT ![<<p, k>>] = MoveToEnd(list, each)]
  /\ pc' = [pc EXCEPT ![<<p, k>>] = "commit"]
  /\ UNCHANGED <<zookeeper, jvm, faults>>

\* "The dtpay node is full!"
Full(p, k) ==
  /\ pc[<<p, k>>] = "read"
  /\ Connected(p)
  /\ FreePositions(CheckAndInitOrder(order)) = {}
  /\ Fail(p, k)
  /\ UNCHANGED <<opened, live, node, order, faults>>

\* Mutant of Apply: the node is written over whoever created it.
ApplyOver(p, k) ==
  /\ Connected(p)
  /\ node' = [node EXCEPT ![choice[<<p, k>>]] = session[p]]
  /\ order' = orderIdSet[<<p, k>>]

\* The transaction is applied: the node and the new order, both or neither.
Apply(p, k) ==
  /\ Connected(p)
  /\ node[choice[<<p, k>>]] = 0
  /\ node' = [node EXCEPT ![choice[<<p, k>>]] = session[p]]
  /\ order' = orderIdSet[<<p, k>>]

Commit(p, k) ==
  /\ pc[<<p, k>>] = "commit"
  /\ Apply(p, k)
  /\ pc' = [pc EXCEPT ![<<p, k>>] = "stat"]
  /\ UNCHANGED <<opened, live, lock, jvm, locals, faults>>

\* Somebody else created the node meanwhile.
NodeExists(p, k) ==
  /\ pc[<<p, k>>] = "commit"
  /\ Connected(p)
  /\ node[choice[<<p, k>>]] # 0
  /\ Fail(p, k)
  /\ UNCHANGED <<opened, live, node, order, faults>>

\* The transaction is applied, its reply is lost, and the retry fails.
CommitUnknown(p, k) ==
  /\ pc[<<p, k>>] = "commit"
  /\ faults < MaxFaults
  /\ faults' = faults + 1
  /\ Apply(p, k)
  /\ Fail(p, k)
  /\ UNCHANGED <<opened, live>>

\* Read the creation time of the node and start to watch it, whoever created
\* it, unless it has gone with its session: with a registration that stalls.
Stat(p, k) ==
  /\ pc[<<p, k>>] = "stat"
  /\ Connected(p)
  /\ IF node[choice[<<p, k>>]] = 0
     THEN Fail(p, k) /\ UNCHANGED <<opened, live, node, order, faults>>
     ELSE /\ pathCreatedTime' =
               [pathCreatedTime EXCEPT ![p] = node[choice[<<p, k>>]]]
          /\ watch' = [watch EXCEPT ![p] = choice[<<p, k>>]]
          /\ event' = [event EXCEPT ![p] = TRUE]
          /\ pc' = [pc EXCEPT ![<<p, k>>] = "set"]
          /\ UNCHANGED <<zookeeper, alive, session, workerId, locals, faults>>

\* Mutant of SetWorkerId: the generator keeps the first id it was told.
SetWorkerIdOnce(p, k) ==
  /\ pc[<<p, k>>] = "set"
  /\ workerId' = [workerId EXCEPT ![p] = IF @ = 0 THEN choice[<<p, k>>] ELSE @]
  /\ Release(<<p, k>>)
  /\ End(<<p, k>>)
  /\ UNCHANGED <<opened, live, node, order, alive, session, pathCreatedTime,
                 watch, event, faults>>

SetWorkerId(p, k) ==
  /\ pc[<<p, k>>] = "set"
  /\ workerId' = [workerId EXCEPT ![p] = choice[<<p, k>>]]
  /\ Release(<<p, k>>)
  /\ End(<<p, k>>)
  /\ UNCHANGED <<opened, live, node, order, alive, session, pathCreatedTime,
                 watch, event, faults>>

-----------------------------------------------------------------------------
(* The listener of the tree cache.                                         *)

\* The thread of the tree cache is free: it is not the one that registers.
ListenerFree(p, k) ==
  /\ alive[p]
  /\ watch[p] # None
  /\ pc[<<p, k>>] = "idle"
  /\ pc[<<p, 3 - k>>] \in {"idle", "set"}

\* Mutant of ChildEvent: every event registers again.
ChildEventAlways(p, k) ==
  /\ ListenerFree(p, k)
  /\ event[p]
  /\ Connected(p)
  /\ event' = [event EXCEPT ![p] = FALSE]
  /\ pc' = [pc EXCEPT ![<<p, k>>] = "acquire"]
  /\ UNCHANGED <<zookeeper, alive, session, workerId, pathCreatedTime, watch,
                 locals, faults>>

\* Mutant of ChildEvent: any node will do, its creation time is not compared.
ChildEventMissing(p, k) ==
  /\ ListenerFree(p, k)
  /\ event[p]
  /\ Connected(p)
  /\ node[watch[p]] = 0
  /\ event' = [event EXCEPT ![p] = FALSE]
  /\ pc' = [pc EXCEPT ![<<p, k>>] = "acquire"]
  /\ UNCHANGED <<zookeeper, alive, session, workerId, pathCreatedTime, watch,
                 locals, faults>>

\* The node is not the one this process created: register again.
ChildEvent(p, k) ==
  /\ ListenerFree(p, k)
  /\ event[p]
  /\ Connected(p)
  /\ node[watch[p]] # pathCreatedTime[p]
  /\ event' = [event EXCEPT ![p] = FALSE]
  /\ pc' = [pc EXCEPT ![<<p, k>>] = "acquire"]
  /\ UNCHANGED <<zookeeper, alive, session, workerId, pathCreatedTime, watch,
                 locals, faults>>

ChildEventSame(p, k) ==
  /\ ListenerFree(p, k)
  /\ event[p]
  /\ Connected(p)
  /\ node[watch[p]] = pathCreatedTime[p]
  /\ event' = [event EXCEPT ![p] = FALSE]
  /\ UNCHANGED <<zookeeper, alive, session, workerId, pathCreatedTime, watch,
                 pc, locals, faults>>

\* The check itself fails, which the code takes for a missing node.
CheckFails(p, k) ==
  /\ ListenerFree(p, k)
  /\ faults < MaxFaults
  /\ faults' = faults + 1
  /\ pathCreatedTime[p] # 0
  /\ pc' = [pc EXCEPT ![<<p, k>>] = "acquire"]
  /\ UNCHANGED <<zookeeper, jvm, locals>>

-----------------------------------------------------------------------------
\* A step of the registration k of process p.
Register(p, k) ==
  \/ Acquire(p, k)
  \/ AcquireTimeout(p, k)
  \/ Choose(p, k)
  \/ Full(p, k)
  \/ Commit(p, k)
  \/ NodeExists(p, k)
  \/ CommitUnknown(p, k)
  \/ Stat(p, k)
  \/ SetWorkerId(p, k)

Listen(p, k) == ChildEvent(p, k) \/ ChildEventSame(p, k)

Step(p, k) == Register(p, k) \/ Listen(p, k) \/ CheckFails(p, k)

Next ==
  \/ \E p \in Processes : Boot(p) \/ Crash(p) \/ Reconnect(p)
  \/ \E s \in Sessions : Expire(s)
  \/ \E p \in Processes, k \in Slots : Step(p, k)

Spec == Init /\ [][Next]_vars

\* Registrations go on, the listener sees its events, a client gets a new
\* session.
FairSpec ==
  /\ Spec
  /\ \A p \in Processes : WF_vars(Reconnect(p))
  /\ \A p \in Processes, k \in Slots :
       WF_vars(Register(p, k)) /\ WF_vars(Listen(p, k))

-----------------------------------------------------------------------------
(* Properties.                                                             *)

\* No registration of p is under way, and the listener, asked now, would
\* find the node it expects.
Content(p) ==
  /\ alive[p]
  /\ watch[p] # None
  /\ \A k \in Slots : pc[<<p, k>>] = "idle"
  /\ node[watch[p]] = pathCreatedTime[p]

\* A process whose listener sees nothing amiss generates ids with the worker
\* id whose node its own, live session holds, so that no two of them share an
\* id: through crashes, expired sessions, lost locks and lost replies.
ContentOwnsId ==
  \A p \in Processes :
    Content(p) => Connected(p) /\ node[workerId[p]] = session[p]

\* A session does not collect nodes, each of which takes an id from the other
\* machines: a lost reply and a failed check cost one of them each.
OneNodePerSession ==
  \A s \in live : Cardinality({w \in Ids : node[w] = s}) <= 1 + faults

\* The bound on sessions keeps p from reconnecting.
OutOfSessions(p) == opened = MaxSessions /\ ~Connected(p)

\* A registration ends, with an id or with an exception, however the lock
\* and the sessions behave (or the model has no further session).
RegistrationEnds ==
  \A p \in Processes, k \in Slots :
    pc[<<p, k>>] # "idle" ~> pc[<<p, k>>] = "idle" \/ OutOfSessions(p)

\* A process that has lost its session registers again, or stops.
LostSessionRegisters ==
  \A p \in Processes :
    alive[p] /\ watch[p] # None /\ ~Connected(p)
      ~> \/ ~alive[p]
         \/ \E k \in Slots : pc[<<p, k>>] # "idle"
         \/ OutOfSessions(p)
=============================================================================
