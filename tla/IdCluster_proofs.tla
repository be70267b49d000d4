--------------------------- MODULE IdCluster_proofs ---------------------------
(* Theorems about ZkWorkerRegistry and IdCluster.  The registry's come     *)
(* first; a behaviour of the cluster is one of the registry, so that its   *)
(* invariants hold in the cluster as well.                                 *)
EXTENDS IdCluster, FiniteSetTheorems, WellFoundedInduction,
        TLAPS

-----------------------------------------------------------------------------
(* The order list.                                                         *)

\* A list of ids never has the size checkAndInitOrder demands, for there are
\* not as many ids.
LEMMA DefaultAlways ==
  ASSUME NEW list \in Seq(Ids)
  PROVE  CheckAndInitOrder(list) = DefaultOrder
<1>1. IsFiniteSet(Ids) /\ Cardinality(Ids) = WORKER_ID_MAX_VALUE
  <2>1. 0 \in Int /\ WORKER_ID_MAX_VALUE - 1 \in Int
    BY RegistryAssumption DEF WORKER_ID_MAX_VALUE
  <2> QED
    BY <2>1, FS_Interval, RegistryAssumption DEF Ids, WORKER_ID_MAX_VALUE
<1>2. Elements(list) \subseteq Ids
  BY DEF Elements
<1>3. Cardinality(Elements(list)) <= WORKER_ID_MAX_VALUE
  BY <1>1, <1>2, FS_Subset
<1>4. Cardinality(Elements(list)) \in Nat
  BY <1>1, <1>2, FS_Subset, FS_CardinalityType
<1> QED
  BY <1>3, <1>4, RegistryAssumption DEF CheckAndInitOrder, WORKER_ID_MAX_VALUE

LEMMA DefaultOrderType == DefaultOrder \in Seq(Ids)
BY RegistryAssumption DEF DefaultOrder, Ids, WORKER_ID_MAX_VALUE

LEMMA MoveToEndType ==
  ASSUME NEW list \in Seq(Ids), NEW each \in Ids, \E i \in 1 .. Len(list) : list[i] = each
  PROVE  MoveToEnd(list, each) \in Seq(Ids)
<1> DEFINE i == CHOOSE i \in 1 .. Len(list) : list[i] = each
<1>1. i \in 1 .. Len(list)
  OBVIOUS
<1> HIDE DEF i
<1>2. SubSeq(list, 1, i - 1) \in Seq(Ids)
  BY <1>1
<1>3. SubSeq(list, i + 1, Len(list)) \in Seq(Ids)
  BY <1>1
<1>4. <<each>> \in Seq(Ids)
  OBVIOUS
<1> QED
  BY <1>2, <1>3, <1>4 DEF MoveToEnd, i

\* The id doRegister chooses is in the list and has no node.
LEMMA FirstFreeIsFree ==
  ASSUME NEW list \in Seq(Ids), FreePositions(list) # {}
  PROVE  /\ FirstFree(list) \in Ids
         /\ node[FirstFree(list)] = 0
         /\ \E i \in 1 .. Len(list) : list[i] = FirstFree(list)
<1>1. FreePositions(list) \subseteq Nat
  BY DEF FreePositions
<1>2. \E i \in FreePositions(list) : \A j \in FreePositions(list) : i <= j
  <2> DEFINE Less == {ss \in Nat \X Nat : ss[1] < ss[2]}
  <2>1. IsWellFoundedOn(Less, Nat)
    BY NatLessThanWellFounded, Zenon DEF OpToRel
  <2>2. \A i, j \in Nat : j < i => <<j, i>> \in Less
    OBVIOUS
  <2> HIDE DEF Less
  <2>3. \E i \in FreePositions(list) :
          \A j \in FreePositions(list) : <<j, i>> \notin Less
    BY <1>1, <2>1, WFMin
  <2>4. PICK i \in FreePositions(list) :
          \A j \in FreePositions(list) : <<j, i>> \notin Less
    BY <2>3
  <2>5. ASSUME NEW j \in FreePositions(list)
        PROVE  i <= j
    <3>1. i \in Nat /\ j \in Nat
      BY <1>1
    <3>2. ~ (j < i)
      BY <2>2, <2>4, <3>1
    <3> QED
      BY <3>1, <3>2
  <2> QED
    BY <2>5
<1>3. PICK i \in FreePositions(list) : FirstFree(list) = list[i]
  BY <1>2 DEF FirstFree
<1> QED
  BY <1>3 DEF FreePositions
-----------------------------------------------------------------------------
(* Types of the registry.  A registration that has chosen an id keeps it   *)
(* until it ends.                                                          *)
Chosen ==
  \A r \in Registrations :
    pc[r] \in {"commit", "stat", "set"} => choice[r] \in Ids

(* TypeOK, by the parts that an action changes together.                   *)
ServerTypes ==
  /\ opened \in 0 .. MaxSessions
  /\ live \subseteq 1 .. opened
  /\ node \in [Ids -> live \cup {0}]
  /\ order \in Seq(Ids)

LockType ==
  lock \in [session : live, registration : Registrations] \cup {None}

JvmTypes ==
  /\ alive \in [Processes -> BOOLEAN]
  /\ session \in [Processes -> 0 .. opened]
  /\ workerId \in [Processes -> Ids \cup {0}]
  /\ pathCreatedTime \in [Processes -> 0 .. opened]
  /\ watch \in [Processes -> Ids \cup {None}]
  /\ event \in [Processes -> BOOLEAN]

RegistrationTypes ==
  /\ pc \in [Registrations -> Locations]
  /\ choice \in [Registrations -> Ids \cup {None}]
  /\ orderIdSet \in [Registrations -> Seq(Ids)]
  /\ Chosen

FaultType == faults \in 0 .. MaxFaults

TInv ==
  ServerTypes /\ LockType /\ JvmTypes /\ RegistrationTypes /\ FaultType

LEMMA TInvIsTypeOK == TInv => TypeOK
BY DEF TInv, ServerTypes, LockType, JvmTypes, RegistrationTypes, FaultType,
       TypeOK

LEMMA SlotsOf ==
  ASSUME NEW p \in Processes, NEW k \in Slots
  PROVE  <<p, k>> \in Registrations /\ 3 - k \in Slots /\ 3 - k # k
BY DEF Registrations, Slots

\* A process that stops, and the end of a registration, leave everything typed.
LEMMA StopTypes ==
  ASSUME TInv, NEW p \in Processes, Stop(p), UNCHANGED opened
  PROVE  JvmTypes' /\ RegistrationTypes'
<1>1. JvmTypes'
  BY DEF TInv, JvmTypes, ServerTypes, Stop
<1>2. RegistrationTypes'
  <2> <<>> \in Seq(Ids)
    OBVIOUS
  <2> QED
    BY DEF TInv, RegistrationTypes, Chosen, Stop, Locations
<1> QED
  BY <1>1, <1>2

LEMMA EndTypes ==
  ASSUME TInv, NEW r \in Registrations, End(r)
  PROVE  RegistrationTypes'
<1> <<>> \in Seq(Ids)
  OBVIOUS
<1> QED
  BY DEF TInv, RegistrationTypes, Chosen, End, Locations

LEMMA ReleaseType ==
  ASSUME LockType, NEW r \in Registrations, Release(r), UNCHANGED live
  PROVE  LockType'
BY DEF LockType, Release

LEMMA FailTypes ==
  ASSUME TInv, NEW p \in Processes, NEW k \in Slots, Fail(p, k),
         UNCHANGED <<opened, live>>
  PROVE  LockType' /\ JvmTypes' /\ RegistrationTypes'
<1>1. LockType'
  BY ReleaseType, SlotsOf DEF Fail, TInv
<1>2. CASE watch[p] = None
  BY <1>1, <1>2, StopTypes DEF Fail
<1>3. CASE watch[p] # None
  <2>1. RegistrationTypes'
    BY <1>3, EndTypes, SlotsOf DEF Fail
  <2>2. JvmTypes'
    BY <1>3 DEF Fail, TInv, JvmTypes, jvm
  <2> QED
    BY <1>1, <2>1, <2>2
<1> QED
  BY <1>2, <1>3

LEMMA ApplyTypes ==
  ASSUME TInv, NEW p \in Processes, NEW k \in Slots, Apply(p, k),
         UNCHANGED <<opened, live>>
  PROVE  ServerTypes'
BY SlotsOf DEF Apply, Connected, TInv, ServerTypes, RegistrationTypes

LEMMA InitTypes == Init => TInv
<1> <<>> \in Seq(Ids)
  OBVIOUS
<1> QED
  BY RegistryAssumption
  DEF Init, TInv, ServerTypes, LockType, JvmTypes, RegistrationTypes,
      FaultType, Chosen, Locations

\* A new session keeps the old ones' values typed.
LEMMA OpenSessionTypes ==
  ASSUME TInv, NEW p \in Processes, OpenSession(p), UNCHANGED <<node, order, lock>>
  PROVE  /\ ServerTypes' /\ LockType'
         /\ session' \in [Processes -> 0 .. opened']
         /\ 0 .. opened \subseteq 0 .. opened'
<1>1. ServerTypes'
  BY RegistryAssumption DEF TInv, ServerTypes, OpenSession
<1>2. LockType'
  BY DEF TInv, LockType, OpenSession
<1>3. 0 .. opened \subseteq 0 .. opened'
  BY DEF TInv, ServerTypes, OpenSession
<1>4. session' \in [Processes -> 0 .. opened']
  BY <1>3 DEF TInv, ServerTypes, JvmTypes, OpenSession
<1> QED
  BY <1>1, <1>2, <1>3, <1>4

\* A listener starts a registration, or does not.
LEMMA ListenerTypes ==
  ASSUME TInv, NEW p \in Processes, NEW k \in Slots,
         \/ pc' = [pc EXCEPT ![<<p, k>>] = "acquire"]
         \/ pc' = pc,
         \/ event' = [event EXCEPT ![p] = FALSE]
         \/ event' = event,
         UNCHANGED <<zookeeper, alive, session, workerId, pathCreatedTime, watch,
                     locals>>
  PROVE  ServerTypes' /\ LockType' /\ JvmTypes' /\ RegistrationTypes'
<1>1. ServerTypes'
  BY DEF TInv, ServerTypes, zookeeper
<1>2. LockType'
  BY DEF TInv, LockType, zookeeper
<1>3. JvmTypes'
  <2>1. event' \in [Processes -> BOOLEAN]
    BY DEF TInv, JvmTypes
  <2> QED
    BY <2>1 DEF TInv, JvmTypes, zookeeper
<1>4. RegistrationTypes'
  <2>1. pc' \in [Registrations -> Locations]
    BY DEF TInv, RegistrationTypes, Locations
  <2>2. Chosen'
    BY SlotsOf DEF TInv, RegistrationTypes, Chosen, locals
  <2> QED
    BY <2>1, <2>2 DEF TInv, RegistrationTypes, locals
<1> QED
  BY <1>1, <1>2, <1>3, <1>4

LEMMA RegisterTypes ==
  ASSUME TInv, NEW p \in Processes, NEW k \in Slots, Register(p, k)
  PROVE  TInv'
<1> <<p, k>> \in Registrations
  BY SlotsOf
<1> USE DEF TInv
<1>1. CASE Acquire(p, k)
  BY <1>1 DEF Acquire, ServerTypes, LockType, JvmTypes, RegistrationTypes,
              FaultType, Chosen, Locations, Connected, jvm, locals
<1>2. CASE AcquireTimeout(p, k)
  <2>1. ServerTypes' /\ FaultType'
    BY <1>2 DEF AcquireTimeout, ServerTypes, FaultType
  <2> QED
    BY <1>2, <2>1, FailTypes DEF AcquireTimeout
<1>3. CASE Choose(p, k)
  <2> DEFINE list == CheckAndInitOrder(order)
  <2>1. list = DefaultOrder /\ list \in Seq(Ids)
    BY DefaultAlways, DefaultOrderType DEF ServerTypes
  <2>2. FreePositions(list) # {} /\ FirstFree(list) \in Ids
    BY <1>3, <2>1, FirstFreeIsFree DEF Choose
  <2>3. MoveToEnd(list, FirstFree(list)) \in Seq(Ids)
    BY <2>1, <2>2, FirstFreeIsFree, MoveToEndType
  <2>4. /\ choice' = [choice EXCEPT ![<<p, k>>] = FirstFree(list)]
        /\ orderIdSet' =
             [orderIdSet EXCEPT ![<<p, k>>] = MoveToEnd(list, FirstFree(list))]
        /\ pc' = [pc EXCEPT ![<<p, k>>] = "commit"]
    BY <1>3 DEF Choose
  <2> HIDE DEF list
  <2>5. RegistrationTypes'
    BY <2>2, <2>3, <2>4 DEF RegistrationTypes, Chosen, Locations
  <2>6. ServerTypes' /\ LockType' /\ JvmTypes' /\ FaultType'
    BY <1>3 DEF Choose, ServerTypes, LockType, JvmTypes, FaultType, zookeeper,
                jvm
  <2> QED
    BY <2>5, <2>6
<1>4. CASE Full(p, k)
  <2>1. ServerTypes' /\ FaultType'
    BY <1>4 DEF Full, ServerTypes, FaultType
  <2> QED
    BY <1>4, <2>1, FailTypes DEF Full
<1>5. CASE Commit(p, k)
  <2>1. ServerTypes'
    BY <1>5, ApplyTypes DEF Commit
  <2> QED
    BY <1>5, <2>1 DEF Commit, LockType, JvmTypes, RegistrationTypes,
              FaultType, Chosen, Locations, jvm, locals
<1>6. CASE NodeExists(p, k)
  <2>1. ServerTypes' /\ FaultType'
    BY <1>6 DEF NodeExists, ServerTypes, FaultType
  <2> QED
    BY <1>6, <2>1, FailTypes DEF NodeExists
<1>7. CASE CommitUnknown(p, k)
  <2>1. ServerTypes' /\ FaultType'
    BY <1>7, ApplyTypes, RegistryAssumption DEF CommitUnknown, FaultType
  <2> QED
    BY <1>7, <2>1, FailTypes DEF CommitUnknown
<1>8. CASE Stat(p, k) /\ node[choice[<<p, k>>]] = 0
  <2>1. ServerTypes' /\ FaultType'
    BY <1>8 DEF Stat, ServerTypes, FaultType
  <2> QED
    BY <1>8, <2>1, FailTypes DEF Stat
<1>9. CASE Stat(p, k) /\ node[choice[<<p, k>>]] # 0
  <2>1. choice[<<p, k>>] \in Ids
    BY <1>9 DEF Stat, RegistrationTypes, Chosen
  <2>2. node[choice[<<p, k>>]] \in 0 .. opened
    <3>1. node[choice[<<p, k>>]] \in live \cup {0} /\ opened \in Nat
      BY <2>1, RegistryAssumption DEF ServerTypes
    <3>2. live \subseteq 0 .. opened
      BY <3>1 DEF ServerTypes
    <3>3. 0 \in 0 .. opened
      BY <3>1
    <3> QED
      BY <3>1, <3>2, <3>3, Zenon
  <2>3. JvmTypes'
    BY <1>9, <2>1, <2>2 DEF Stat, JvmTypes, zookeeper
  <2>4. RegistrationTypes'
    BY <1>9, <2>1 DEF Stat, RegistrationTypes, Chosen, Locations, locals
  <2> QED
    BY <1>9, <2>3, <2>4 DEF Stat, ServerTypes, LockType, FaultType, zookeeper
<1>10. CASE SetWorkerId(p, k)
  <2>1. choice[<<p, k>>] \in Ids
    BY <1>10 DEF SetWorkerId, RegistrationTypes, Chosen
  <2>2. LockType' /\ RegistrationTypes'
    BY <1>10, ReleaseType, EndTypes DEF SetWorkerId
  <2> QED
    BY <1>10, <2>1, <2>2 DEF SetWorkerId, ServerTypes, JvmTypes, FaultType
<1> QED
  BY <1>1, <1>2, <1>3, <1>4, <1>5, <1>6, <1>7, <1>8, <1>9, <1>10 DEF Register

LEMMA NextTypes == ASSUME TInv, [Next]_vars PROVE TInv'
<1> USE DEF TInv
<1>1. ASSUME NEW p \in Processes, Boot(p)
      PROVE  TInv'
  <2>1. ServerTypes' /\ LockType' /\ JvmTypes'
    BY <1>1, OpenSessionTypes DEF Boot, JvmTypes
  <2>2. <<p, 1>> \in Registrations
    BY DEF Registrations, Slots
  <2> QED
    BY <1>1, <2>1, <2>2 DEF Boot, RegistrationTypes, FaultType, Chosen,
                            Locations, locals
<1>2. ASSUME NEW p \in Processes, Crash(p)
      PROVE  TInv'
  BY <1>2, StopTypes DEF Crash, ServerTypes, LockType, FaultType, zookeeper
<1>3. ASSUME NEW p \in Processes, Reconnect(p)
      PROVE  TInv'
  <2>1. ServerTypes' /\ LockType' /\ JvmTypes'
    BY <1>3, OpenSessionTypes DEF Reconnect, JvmTypes
  <2> QED
    BY <1>3, <2>1 DEF Reconnect, RegistrationTypes, FaultType, Chosen, locals
<1>4. ASSUME NEW s \in Sessions, Expire(s)
      PROVE  TInv'
  <2>1. ServerTypes'
    BY <1>4 DEF Expire, ServerTypes
  <2>2. LockType'
    BY <1>4 DEF Expire, LockType
  <2> QED
    BY <1>4, <2>1, <2>2 DEF Expire, JvmTypes, RegistrationTypes, FaultType,
                            Chosen, jvm, locals
<1>5. ASSUME NEW p \in Processes, NEW k \in Slots, Listen(p, k)
      PROVE  TInv'
  <2>1. CASE ChildEvent(p, k)
    BY <2>1, ListenerTypes DEF ChildEvent, FaultType
  <2>2. CASE ChildEventSame(p, k)
    BY <2>2, ListenerTypes DEF ChildEventSame, FaultType
  <2> QED
    BY <1>5, <2>1, <2>2 DEF Listen
<1>6. ASSUME NEW p \in Processes, NEW k \in Slots, CheckFails(p, k)
      PROVE  TInv'
  <2>1. FaultType'
    BY <1>6, RegistryAssumption DEF CheckFails, FaultType
  <2> QED
    BY <1>6, <2>1, ListenerTypes DEF CheckFails, jvm
<1>7. CASE UNCHANGED vars
  BY <1>7 DEF vars, zookeeper, jvm, locals, ServerTypes, LockType, JvmTypes,
              RegistrationTypes, FaultType, Chosen
<1> QED
  BY <1>1, <1>2, <1>3, <1>4, <1>5, <1>6, <1>7, RegisterTypes DEF Next, Step

LEMMA Types == Spec => []TInv
BY InitTypes, NextTypes, PTL DEF Spec

\* Nodes belong to sessions the server opened, worker ids are ids of the pool
\* and doRegister's locals are what its program point lets them be, in every
\* state of the registry.
THEOREM RegistryTypeCorrect == Spec => []TypeOK
BY Types, TInvIsTypeOK, PTL

-----------------------------------------------------------------------------
(* The life of a process.  A JVM that is gone has left nothing behind but  *)
(* its session; no two have one session; and of the two registrations of a *)
(* process one at most is on its way to an id.                             *)
Active == {"acquire", "read", "commit", "stat"}

Living ==
  \A p \in Processes :
    /\ alive[p] => session[p] # 0
    /\ ~alive[p] => /\ session[p] = 0 /\ watch[p] = None
                    /\ \A k \in Slots : pc[<<p, k>>] = "idle"

OneSession ==
  \A p, q \in Processes : session[p] = session[q] /\ session[p] # 0 => p = q

OneActive ==
  \A p \in Processes, k, l \in Slots :
    pc[<<p, k>>] \in Active /\ pc[<<p, l>>] \in Active => k = l

LInv == TInv /\ Living /\ OneSession /\ OneActive

LEMMA StopLife ==
  ASSUME LInv, NEW p \in Processes, Stop(p)
  PROVE  Living' /\ OneSession' /\ OneActive'
<1> USE DEF LInv, TInv, JvmTypes, RegistrationTypes, Registrations, Stop
<1>1. Living'
  BY DEF Living
<1>2. OneSession'
  BY DEF OneSession
<1>3. OneActive'
  BY DEF OneActive, Active
<1> QED
  BY <1>1, <1>2, <1>3

LEMMA EndLife ==
  ASSUME LInv, NEW p \in Processes, NEW k \in Slots, End(<<p, k>>),
         UNCHANGED <<alive, session, watch>>
  PROVE  Living' /\ OneSession' /\ OneActive'
<1> USE SlotsOf DEF LInv, TInv, JvmTypes, RegistrationTypes, End
<1>1. Living'
  BY SlotsOf DEF Living
<1>2. OneSession'
  BY DEF OneSession
<1>3. OneActive'
  BY SlotsOf DEF OneActive, Active
<1> QED
  BY <1>1, <1>2, <1>3

LEMMA FailLife ==
  ASSUME LInv, NEW p \in Processes, NEW k \in Slots, Fail(p, k)
  PROVE  Living' /\ OneSession' /\ OneActive'
BY StopLife, EndLife DEF Fail, jvm

\* A registration that goes on takes its process with it.
LEMMA GoLife ==
  ASSUME LInv, NEW p \in Processes, NEW k \in Slots, NEW label \in Locations,
         alive[p], pc' = [pc EXCEPT ![<<p, k>>] = label],
         label \in Active =>
           \A l \in Slots : pc[<<p, l>>] \in Active => l = k,
         UNCHANGED <<alive, session>>,
         \A q \in Processes : q # p => watch'[q] = watch[q]
  PROVE  Living' /\ OneSession' /\ OneActive'
<1> USE SlotsOf DEF LInv, TInv, JvmTypes, RegistrationTypes
<1>1. Living'
  BY SlotsOf DEF Living
<1>2. OneSession'
  BY DEF OneSession
<1>3. OneActive'
  BY SlotsOf DEF OneActive, Active
<1> QED
  BY <1>1, <1>2, <1>3

LEMMA RegisterLife ==
  ASSUME LInv, NEW p \in Processes, NEW k \in Slots, Register(p, k)
  PROVE  Living' /\ OneSession' /\ OneActive'
<1>1. pc[<<p, k>>] # "idle"
  BY DEF Register, Acquire, AcquireTimeout, Choose, Full, Commit, NodeExists,
         CommitUnknown, Stat, SetWorkerId
<1>2. alive[p]
  BY <1>1 DEF LInv, Living
<1>3. CASE Fail(p, k)
  BY <1>3, FailLife
<1>4. CASE Acquire(p, k) \/ Choose(p, k) \/ Commit(p, k)
  BY <1>2, <1>4, GoLife
  DEF Acquire, Choose, Commit, LInv, OneActive, Active, Locations, jvm
<1>5. CASE Stat(p, k) /\ ~Fail(p, k)
  <2>1. \A q \in Processes : q # p => watch'[q] = watch[q]
    BY <1>5 DEF Stat, LInv, TInv, JvmTypes
  <2> QED
    BY <1>2, <1>5, <2>1, GoLife DEF Stat, Active, Locations
<1>6. CASE SetWorkerId(p, k)
  BY <1>6, EndLife DEF SetWorkerId
<1> QED
  BY <1>3, <1>4, <1>5, <1>6
  DEF Register, AcquireTimeout, Full, NodeExists, CommitUnknown

\* The listener registers only while the other registration is over or about
\* to store its id.
LEMMA ListenerLife ==
  ASSUME LInv, NEW p \in Processes, NEW k \in Slots, ListenerFree(p, k),
         pc' = [pc EXCEPT ![<<p, k>>] = "acquire"],
         UNCHANGED <<alive, session, watch>>
  PROVE  Living' /\ OneSession' /\ OneActive'
<1>1. \A l \in Slots : pc[<<p, l>>] \in Active => l = k
  BY DEF ListenerFree, Active, Slots
<1> QED
  BY <1>1, GoLife DEF ListenerFree, Locations

LEMMA NextLife == ASSUME LInv, [Next]_vars PROVE LInv'
<1> TInv'
  BY NextTypes DEF LInv
<1> USE DEF LInv
<1>1. ASSUME NEW p \in Processes, OpenSession(p), alive'[p],
             \A q \in Processes : q # p => alive'[q] = alive[q],
             UNCHANGED watch,
             \A q \in Processes, k \in Slots :
               q # p => pc'[<<q, k>>] = pc[<<q, k>>],
             \A k, l \in Slots :
               pc'[<<p, k>>] \in Active /\ pc'[<<p, l>>] \in Active => k = l
      PROVE  LInv'
  <2>1. /\ opened \in Nat /\ session' = [session EXCEPT ![p] = opened + 1]
        /\ \A q \in Processes : session[q] \in 0 .. opened
        /\ session \in [Processes -> 0 .. opened]
    BY <1>1, RegistryAssumption DEF OpenSession, TInv, ServerTypes, JvmTypes
  <2>2. session'[p] # 0 /\ \A q \in Processes : q # p => session'[q] = session[q]
    BY <2>1
  <2>3. Living'
    BY <1>1, <2>2 DEF Living
  <2>4. OneSession'
    BY <2>1 DEF OneSession
  <2>5. OneActive'
    BY <1>1 DEF OneActive
  <2> QED
    BY <2>3, <2>4, <2>5
<1>2. ASSUME NEW p \in Processes, Boot(p)
      PROVE  LInv'
  <2>1. /\ pc \in [Registrations -> Locations]
        /\ pc' = [pc EXCEPT ![<<p, 1>>] = "acquire"]
        /\ alive'[p] /\ \A q \in Processes : q # p => alive'[q] = alive[q]
    BY <1>2 DEF Boot, TInv, JvmTypes, RegistrationTypes
  <2>2. \A q \in Processes, k \in Slots : q # p => pc'[<<q, k>>] = pc[<<q, k>>]
    BY <2>1 DEF Registrations
  <2>3. \A k \in Slots : pc[<<p, k>>] = "idle"
    BY <1>2 DEF Boot, Living
  <2>4. \A k \in Slots : pc'[<<p, k>>] \in Active => k = 1
    BY <2>1, <2>3 DEF Registrations, Active
  <2> QED
    BY <1>1, <1>2, <2>1, <2>2, <2>4 DEF Boot
<1>3. ASSUME NEW p \in Processes, Crash(p)
      PROVE  LInv'
  BY <1>3, StopLife DEF Crash
<1>4. ASSUME NEW p \in Processes, Reconnect(p)
      PROVE  LInv'
  <2>1. alive' = alive /\ pc' = pc /\ watch' = watch /\ alive[p]
    BY <1>4 DEF Reconnect
  <2> QED
    BY <1>1, <1>4, <2>1 DEF Reconnect, OneActive
<1>5. ASSUME NEW s \in Sessions, Expire(s)
      PROVE  LInv'
  BY <1>5 DEF Expire, jvm, Living, OneSession, OneActive
<1>6. ASSUME NEW p \in Processes, NEW k \in Slots, Listen(p, k)
      PROVE  LInv'
  <2>1. CASE ChildEvent(p, k)
    BY <2>1, ListenerLife DEF ChildEvent
  <2>2. CASE ChildEventSame(p, k)
    BY <2>2 DEF ChildEventSame, Living, OneSession, OneActive
  <2> QED
    BY <1>6, <2>1, <2>2 DEF Listen
<1>7. ASSUME NEW p \in Processes, NEW k \in Slots, CheckFails(p, k)
      PROVE  LInv'
  BY <1>7, ListenerLife DEF CheckFails, jvm
<1>8. CASE UNCHANGED vars
  BY <1>8 DEF vars, jvm, Living, OneSession, OneActive
<1> QED
  BY <1>2, <1>3, <1>4, <1>5, <1>6, <1>7, <1>8, RegisterLife DEF Next, Step

LEMMA Life == Spec => []LInv
<1>1. Init => LInv
  BY InitTypes
  DEF Init, LInv, Living, OneSession, OneActive, Active, Registrations
<1>2. LInv /\ [Next]_vars => LInv'
  BY NextLife
<1> QED
  BY <1>1, <1>2, PTL DEF Spec

-----------------------------------------------------------------------------
(* A session holds one node, and one more for each fault.  A process knows *)
(* of a node its session holds: a registration has just created it, or the *)
(* listener watches it and no registration is on its way to another.  The  *)
(* nodes it holds and does not know of are the price of the faults.        *)
Keeps(p, w) ==
  \/ \E k \in Slots : pc[<<p, k>>] = "stat" /\ choice[<<p, k>>] = w
  \/ /\ watch[p] = w
     /\ pathCreatedTime[p] = session[p]
     /\ \A k \in Slots : pc[<<p, k>>] \notin Active

Holds(p, w) == node[w] = session[p] /\ node[w] # 0

HeldBy(p) == {w \in Ids : Holds(p, w)}

Stray(p) == {w \in Ids : Holds(p, w) /\ ~Keeps(p, w)}

StrayPerFault == \A p \in Processes : Cardinality(Stray(p)) <= faults

KInv == StrayPerFault /\ OneNodePerSession

\* Counting sets of ids.
LEMMA IdsFinite == IsFiniteSet(Ids)
<1>1. 0 \in Int /\ WORKER_ID_MAX_VALUE - 1 \in Int
  BY RegistryAssumption DEF WORKER_ID_MAX_VALUE
<1> QED
  BY <1>1, FS_Interval DEF Ids

LEMMA CountFewer ==
  ASSUME NEW T \in SUBSET Ids, NEW S \in SUBSET T, NEW n \in Nat,
         Cardinality(T) <= n
  PROVE  Cardinality(S) <= n
<1>1. IsFiniteSet(T)
  BY IdsFinite, FS_Subset
<1>2. /\ Cardinality(S) <= Cardinality(T)
      /\ Cardinality(S) \in Nat /\ Cardinality(T) \in Nat
  BY <1>1, FS_Subset, FS_CardinalityType
<1> QED
  BY <1>2

LEMMA CountOneMore ==
  ASSUME NEW T \in SUBSET Ids, NEW x \in Ids, NEW S \in SUBSET (T \cup {x}),
         NEW n \in Nat, Cardinality(T) <= n
  PROVE  Cardinality(S) <= n + 1
<1>1. IsFiniteSet(T)
  BY IdsFinite, FS_Subset
<1>2. /\ IsFiniteSet(T \cup {x})
      /\ Cardinality(T) \in Nat
      /\ Cardinality(T \cup {x}) <= Cardinality(T) + 1
  <2>1. Cardinality(T) \in Nat
    BY <1>1, FS_CardinalityType
  <2>2. /\ IsFiniteSet(T \cup {x})
        /\ \/ Cardinality(T \cup {x}) = Cardinality(T)
           \/ Cardinality(T \cup {x}) = Cardinality(T) + 1
    BY <1>1, FS_AddElement
  <2> QED
    BY <2>1, <2>2
<1>3. /\ Cardinality(T \cup {x}) \in Nat
      /\ Cardinality(S) \in Nat
      /\ Cardinality(S) <= Cardinality(T \cup {x})
  BY <1>2, FS_Subset, FS_CardinalityType
<1> QED
  BY <1>2, <1>3

\* Until its transaction is applied, a registration's process knows of no
\* node; afterwards, just of the one with the id it has chosen.
LEMMA KeepsNothingYet ==
  ASSUME LInv, NEW p \in Processes, NEW k \in Slots,
         pc[<<p, k>>] \in {"acquire", "read", "commit"}
  PROVE  Stray(p) = HeldBy(p)
<1>1. \A l \in Slots : pc[<<p, l>>] = "stat" => l = k
  BY DEF LInv, OneActive, Active
<1>2. \A w \in Ids : ~Keeps(p, w)
  BY <1>1 DEF Keeps, Active
<1> QED
  BY <1>2 DEF Stray, HeldBy

LEMMA KeepsChoice ==
  ASSUME LInv, NEW p \in Processes, NEW k \in Slots,
         pc[<<p, k>>] = "stat"
  PROVE  \A w \in Ids : Keeps(p, w) => choice[<<p, k>>] = w
<1>1. \A l \in Slots : pc[<<p, l>>] = "stat" => l = k
  BY DEF LInv, OneActive, Active
<1> QED
  BY <1>1 DEF Keeps, Active

\* A process whose registrations and fields stay as they are goes on to know
\* of what it knew.
Untouched(q) ==
  /\ session'[q] = session[q]
  /\ watch'[q] = watch[q]
  /\ pathCreatedTime'[q] = pathCreatedTime[q]
  /\ \A k \in Slots : /\ pc'[<<q, k>>] = pc[<<q, k>>]
                      /\ choice'[<<q, k>>] = choice[<<q, k>>]

LEMMA StaysStray ==
  ASSUME NEW q \in Processes, Untouched(q),
         \A w \in Ids : node'[w] \in {0, node[w]}
  PROVE  Stray(q)' \subseteq Stray(q)
BY DEF Stray, Holds, Keeps, Untouched

\* What a process does leaves the others' nodes alone.
LEMMA OthersStray ==
  ASSUME LInv, NEW p \in Processes, NEW q \in Processes, q # p, Untouched(q),
         \A w \in Ids : node'[w] \in {0, node[w], session[p]}
  PROVE  Stray(q)' \subseteq Stray(q)
BY DEF Stray, Holds, Keeps, Untouched, LInv, OneSession

LEMMA FailStray ==
  ASSUME LInv, NEW p \in Processes, NEW k \in Slots, Fail(p, k),
         NEW N \in SUBSET Ids, {w \in Ids : node'[w] = session[p] /\ node'[w] # 0}
                                 \subseteq N,
         \A w \in Ids : node'[w] \in {0, node[w], session[p]}
  PROVE  /\ Stray(p)' \subseteq N
         /\ \A q \in Processes : q # p => Stray(q)' \subseteq Stray(q)
<1> USE DEF LInv, TInv, JvmTypes, RegistrationTypes
<1>1. Stray(p)' \subseteq N
  <2>1. session'[p] \in {0, session[p]}
    BY DEF Fail, Stop, jvm
  <2> QED
    BY <2>1 DEF Stray, Holds
<1>2. ASSUME NEW q \in Processes, q # p
      PROVE  Stray(q)' \subseteq Stray(q)
  <2>1. Untouched(q)
    BY <1>2, SlotsOf DEF Fail, Stop, End, jvm, Untouched
  <2> QED
    BY <1>2, <2>1, OthersStray
<1> QED
  BY <1>1, <1>2

\* A registration leaves no more nodes its process does not know of, unless
\* a reply is lost.
LEMMA RegisterStray ==
  ASSUME LInv, NEW p \in Processes, NEW k \in Slots, Register(p, k),
         ~CommitUnknown(p, k)
  PROVE  \A q \in Processes : Stray(q)' \subseteq Stray(q)
<1> USE SlotsOf DEF LInv, TInv, ServerTypes, JvmTypes, RegistrationTypes
<1>1. CASE Acquire(p, k) \/ Choose(p, k)
  <2>1. Stray(p)' \subseteq Stray(p)
    <3>1. Stray(p) = HeldBy(p)
      BY <1>1, KeepsNothingYet DEF Acquire, Choose
    <3> QED
      BY <1>1, <3>1 DEF Acquire, Choose, zookeeper, jvm, Stray, HeldBy, Holds
  <2>2. ASSUME NEW q \in Processes, q # p
        PROVE  Stray(q)' \subseteq Stray(q)
    <3>1. Untouched(q) /\ node' = node
      BY <1>1, <2>2 DEF Acquire, Choose, zookeeper, jvm, locals, Untouched
    <3> QED
      BY <3>1, StaysStray
  <2> QED
    BY <2>1, <2>2
<1>2. CASE AcquireTimeout(p, k) \/ Full(p, k) \/ NodeExists(p, k)
  <2>1. Stray(p) = HeldBy(p) /\ Fail(p, k) /\ node' = node
    BY <1>2, KeepsNothingYet DEF AcquireTimeout, Full, NodeExists
  <2>2. HeldBy(p) \in SUBSET Ids
    BY DEF HeldBy
  <2>3. {w \in Ids : node'[w] = session[p] /\ node'[w] # 0} \subseteq HeldBy(p)
    BY <2>1 DEF HeldBy, Holds
  <2>4. \A w \in Ids : node'[w] \in {0, node[w], session[p]}
    BY <2>1
  <2>5. /\ Stray(p)' \subseteq HeldBy(p)
        /\ \A q \in Processes : q # p => Stray(q)' \subseteq Stray(q)
    BY <2>1, <2>2, <2>3, <2>4, FailStray
  <2> QED
    BY <2>1, <2>5
<1>3. CASE Commit(p, k)
  <2>1. /\ choice[<<p, k>>] \in Ids /\ pc[<<p, k>>] = "commit"
        /\ node' = [node EXCEPT ![choice[<<p, k>>]] = session[p]]
    BY <1>3 DEF Commit, Apply, Chosen
  <2>2. Stray(p) = HeldBy(p)
    BY <2>1, KeepsNothingYet
  <2>3. \A w \in Ids : w = choice[<<p, k>>] => Keeps(p, w)'
    BY <1>3 DEF Commit, Keeps, locals
  <2>4. Stray(p)' \subseteq Stray(p)
    BY <1>3, <2>1, <2>2, <2>3 DEF Commit, jvm, Stray, HeldBy, Holds
  <2>5. ASSUME NEW q \in Processes, q # p
        PROVE  Stray(q)' \subseteq Stray(q)
    <3>1. \A w \in Ids : node'[w] \in {0, node[w], session[p]}
      BY <2>1
    <3>2. Untouched(q)
      BY <1>3, <2>5 DEF Commit, jvm, locals, Untouched
    <3> QED
      BY <2>5, <3>1, <3>2, OthersStray
  <2> QED
    BY <2>4, <2>5
<1>4. CASE Stat(p, k) /\ node[choice[<<p, k>>]] = 0
  <2>1. \A w \in Ids : Holds(p, w) => ~Keeps(p, w)
    BY <1>4, KeepsChoice DEF Stat, Holds
  <2>2. Fail(p, k) /\ node' = node
    BY <1>4 DEF Stat
  <2>3. Stray(p) \in SUBSET Ids
    BY DEF Stray
  <2>4. {w \in Ids : node'[w] = session[p] /\ node'[w] # 0} \subseteq Stray(p)
    BY <2>1, <2>2 DEF Stray, Holds
  <2> QED
    BY <2>2, <2>3, <2>4, FailStray
<1>5. CASE Stat(p, k) /\ node[choice[<<p, k>>]] # 0
  <2>1. ASSUME NEW w \in Ids, Holds(p, w)', Keeps(p, w)
        PROVE  Keeps(p, w)'
    <3>1. Holds(p, w) /\ choice[<<p, k>>] = w
      BY <1>5, <2>1, KeepsChoice DEF Stat, Holds, zookeeper
    <3>2. watch'[p] = w /\ pathCreatedTime'[p] = session[p]
      BY <1>5, <3>1 DEF Stat, Holds
    <3>3. \A l \in Slots : pc'[<<p, l>>] \notin Active
      BY <1>5 DEF Stat, OneActive, Active
    <3> QED
      BY <1>5, <3>2, <3>3 DEF Stat, Keeps
  <2>2. Stray(p)' \subseteq Stray(p)
    BY <1>5, <2>1 DEF Stat, zookeeper, Stray, Holds
  <2>3. ASSUME NEW q \in Processes, q # p
        PROVE  Stray(q)' \subseteq Stray(q)
    <3>1. Untouched(q) /\ node' = node
      BY <1>5, <2>3 DEF Stat, zookeeper, locals, Untouched
    <3> QED
      BY <3>1, StaysStray
  <2> QED
    BY <2>2, <2>3
<1>6. CASE SetWorkerId(p, k)
  <2> SUFFICES ASSUME NEW q \in Processes
               PROVE  Stray(q)' \subseteq Stray(q)
    OBVIOUS
  <2>1. /\ pc[<<p, k>>] = "set"
        /\ pc' = [pc EXCEPT ![<<p, k>>] = "idle"]
        /\ choice' = [choice EXCEPT ![<<p, k>>] = None]
        /\ UNCHANGED <<node, session, watch, pathCreatedTime>>
    BY <1>6 DEF SetWorkerId, End
  <2>2. \A l \in Slots : pc[<<q, l>>] = "stat" =>
          pc'[<<q, l>>] = "stat" /\ choice'[<<q, l>>] = choice[<<q, l>>]
    BY <2>1
  <2>3. \A l \in Slots : pc[<<q, l>>] \notin Active =>
          pc'[<<q, l>>] \notin Active
    BY <2>1 DEF Active
  <2>4. \A w \in Ids : Keeps(q, w) => Keeps(q, w)'
    BY <2>1, <2>2, <2>3 DEF Keeps
  <2> QED
    BY <2>1, <2>4 DEF Stray, Holds
<1> QED
  BY <1>1, <1>2, <1>3, <1>4, <1>5, <1>6 DEF Register

\* No step but a lost reply or a failed check leaves a node its process does
\* not know of.
LEMMA NextStray ==
  ASSUME LInv, [Next]_vars,
         \A p \in Processes, k \in Slots : ~CommitUnknown(p, k) /\ ~CheckFails(p, k)
  PROVE  /\ faults' = faults
         /\ \A q \in Processes : Stray(q)' \subseteq Stray(q)
<1> USE SlotsOf DEF LInv, TInv, ServerTypes, JvmTypes, RegistrationTypes
<1> DEFINE Goal == /\ faults' = faults
                   /\ \A q \in Processes : Stray(q)' \subseteq Stray(q)
<1>1. ASSUME NEW p \in Processes, OpenSession(p),
             UNCHANGED <<node, watch, pathCreatedTime, choice>>,
             \A q \in Processes, k \in Slots :
               q # p => pc'[<<q, k>>] = pc[<<q, k>>]
      PROVE  \A q \in Processes : Stray(q)' \subseteq Stray(q)
  <2>1. \A w \in Ids : ~Holds(p, w)'
    <3>1. /\ opened \in Nat /\ session'[p] = opened + 1
          /\ \A w \in Ids : node[w] \in live \cup {0}
      BY <1>1, RegistryAssumption DEF OpenSession
    <3>2. \A s \in live : s < opened + 1
      BY <3>1
    <3> QED
      BY <1>1, <3>1, <3>2 DEF Holds
  <2>2. ASSUME NEW q \in Processes, q # p
        PROVE  Stray(q)' \subseteq Stray(q)
    <3>1. Untouched(q) /\ node' = node
      BY <1>1, <2>2 DEF OpenSession, Untouched
    <3> QED
      BY <3>1, StaysStray
  <2> QED
    BY <2>1, <2>2 DEF Stray
<1>2. ASSUME NEW p \in Processes, Boot(p)
      PROVE  Goal
  <2>1. \A q \in Processes, k \in Slots :
          q # p => pc'[<<q, k>>] = pc[<<q, k>>]
    BY <1>2 DEF Boot
  <2> QED
    BY <1>1, <1>2, <2>1 DEF Boot, locals
<1>3. ASSUME NEW p \in Processes, Crash(p)
      PROVE  Goal
  <2>1. Stray(p)' = {}
    BY <1>3 DEF Crash, Stop, Stray, Holds
  <2>2. ASSUME NEW q \in Processes, q # p
        PROVE  Stray(q)' \subseteq Stray(q)
    <3>1. Untouched(q) /\ node' = node
      BY <1>3, <2>2 DEF Crash, Stop, zookeeper, Untouched
    <3> QED
      BY <3>1, StaysStray
  <2> QED
    BY <1>3, <2>1, <2>2 DEF Crash
<1>4. ASSUME NEW p \in Processes, Reconnect(p)
      PROVE  Goal
  BY <1>1, <1>4 DEF Reconnect, locals
<1>5. ASSUME NEW s \in Sessions, Expire(s)
      PROVE  Goal
  <2>1. \A q \in Processes : Untouched(q)
    BY <1>5 DEF Expire, jvm, locals, Untouched
  <2>2. \A w \in Ids : node'[w] \in {0, node[w]}
    BY <1>5 DEF Expire
  <2> QED
    BY <1>5, <2>1, <2>2, StaysStray DEF Expire
<1>6. ASSUME NEW p \in Processes, NEW k \in Slots, ChildEvent(p, k)
      PROVE  Goal
  <2>1. \A l \in Slots : pc[<<p, l>>] # "stat"
    BY <1>6 DEF ChildEvent, ListenerFree, Slots
  <2>2. \A w \in Ids : Holds(p, w) => ~Keeps(p, w)
    BY <1>6, <2>1 DEF ChildEvent, Keeps, Holds
  <2>3. Stray(p)' \subseteq Stray(p)
    BY <1>6, <2>2 DEF ChildEvent, Stray, Holds, zookeeper
  <2>4. ASSUME NEW q \in Processes, q # p
        PROVE  Stray(q)' \subseteq Stray(q)
    <3>1. Untouched(q) /\ node' = node
      BY <1>6, <2>4 DEF ChildEvent, zookeeper, locals, Untouched
    <3> QED
      BY <3>1, StaysStray
  <2> QED
    BY <1>6, <2>3, <2>4 DEF ChildEvent
<1>7. ASSUME NEW p \in Processes, NEW k \in Slots, ChildEventSame(p, k)
      PROVE  Goal
  <2>1. node' = node /\ \A q \in Processes : Untouched(q)
    BY <1>7 DEF ChildEventSame, zookeeper, locals, Untouched
  <2> QED
    BY <1>7, <2>1, StaysStray DEF ChildEventSame
<1>8. ASSUME NEW p \in Processes, NEW k \in Slots, Register(p, k)
      PROVE  Goal
  <2>1. faults' = faults
    BY <1>8 DEF Register, Acquire, AcquireTimeout, Choose, Full, Commit,
                NodeExists, Stat, SetWorkerId
  <2> QED
    BY <1>8, <2>1, RegisterStray
<1>9. CASE UNCHANGED vars
  <2>1. node' = node /\ \A q \in Processes : Untouched(q)
    BY <1>9 DEF vars, zookeeper, jvm, locals, Untouched
  <2> QED
    BY <1>9, <2>1, StaysStray DEF vars
<1> QED
  BY <1>2, <1>3, <1>4, <1>5, <1>6, <1>7, <1>8, <1>9 DEF Next, Step, Listen

\* A node appears only where a registration's transaction is applied.
LEMMA NextNodes ==
  ASSUME LInv, [Next]_vars,
         \A p \in Processes, k \in Slots :
           ~Commit(p, k) /\ ~CommitUnknown(p, k)
  PROVE  /\ \A w \in Ids : node'[w] \in {0, node[w]}
         /\ live' \subseteq live \cup {opened + 1}
<1> USE DEF LInv, TInv, ServerTypes
<1>1. ASSUME NEW p \in Processes, Boot(p) \/ Crash(p) \/ Reconnect(p)
      PROVE  node' = node /\ live' \subseteq live \cup {opened + 1}
  BY <1>1 DEF Boot, Crash, Reconnect, OpenSession, zookeeper
<1>2. ASSUME NEW s \in Sessions, Expire(s)
      PROVE  /\ \A w \in Ids : node'[w] \in {0, node[w]}
             /\ live' \subseteq live
  BY <1>2 DEF Expire
<1>3. ASSUME NEW p \in Processes, NEW k \in Slots, Step(p, k)
      PROVE  node' = node /\ live' = live
  BY <1>3 DEF Step, Register, Acquire, AcquireTimeout, Choose, Full,
              NodeExists, Stat, SetWorkerId, Listen, ChildEvent,
              ChildEventSame, CheckFails, zookeeper
<1> QED
  BY <1>1, <1>2, <1>3 DEF Next, vars, zookeeper

\* Where no node appears, no session holds more of them.
LEMMA NodesLeave ==
  ASSUME LInv, KInv, faults' \in {faults, faults + 1},
         \A w \in Ids : node'[w] \in {0, node[w]},
         live' \subseteq live \cup {opened + 1}
  PROVE  OneNodePerSession'
<1>1. faults \in Nat /\ faults' \in Nat
  BY RegistryAssumption DEF LInv, TInv, FaultType
<1> SUFFICES ASSUME NEW s \in live'
             PROVE  Cardinality({w \in Ids : node'[w] = s}) <= 1 + faults'
  BY DEF OneNodePerSession
<1> DEFINE before == {w \in Ids : node[w] = s}
           after == {w \in Ids : node'[w] = s}
<1>2. s # 0 /\ (s \in live \/ after = {})
  <2>1. opened \in Nat /\ \A w \in Ids : node[w] \in live \cup {0}
    BY RegistryAssumption DEF LInv, TInv, ServerTypes
  <2>2. \A x \in live : x < opened + 1 /\ x # 0
    BY <2>1 DEF LInv, TInv, ServerTypes
  <2>3. s # 0 /\ (s \in live \/ s = opened + 1)
    BY <2>1, <2>2
  <2>4. s = opened + 1 => after = {}
    BY <2>1, <2>2
  <2> QED
    BY <2>3, <2>4
<1>3. before \in SUBSET Ids /\ after \in SUBSET before
  BY <1>2
<1>4. s \in live => Cardinality(before) <= 1 + faults
  BY DEF KInv, OneNodePerSession
<1> HIDE DEF before, after
<1>5. Cardinality(after) \in Nat
  BY <1>3, IdsFinite, FS_Subset, FS_CardinalityType
<1>6. CASE s \in live
  <2>1. 1 + faults \in Nat
    BY <1>1
  <2>2. Cardinality(after) <= 1 + faults
    BY <1>3, <1>4, <1>6, <2>1, CountFewer
  <2> QED
    BY <1>1, <1>5, <2>2 DEF after
<1>7. CASE after = {}
  <2>1. Cardinality(after) = 0
    BY <1>7, FS_EmptySet
  <2>2. \A n \in Nat : 0 <= 1 + n
    OBVIOUS
  <2>3. Cardinality(after) <= 1 + faults'
    BY <1>1, <2>1, <2>2, Zenon
  <2> QED
    BY <2>3 DEF after
<1> QED
  BY <1>2, <1>6, <1>7

LEMMA NextKept == ASSUME LInv, KInv, [Next]_vars PROVE KInv'
<1> USE DEF LInv, TInv, ServerTypes, FaultType, KInv
<1> faults \in Nat
  BY RegistryAssumption
<1> DEFINE Nodes(s) == {w \in Ids : node[w] = s}
<1>1. \A q \in Processes : Stray(q) \in SUBSET Ids /\ Stray(q)' \in SUBSET Ids
  BY DEF Stray, Ids, WORKER_ID_MAX_VALUE
<1>2. CASE \A p \in Processes, k \in Slots :
             ~CommitUnknown(p, k) /\ ~CheckFails(p, k)
  <2>1. faults' = faults /\ \A q \in Processes : Stray(q)' \subseteq Stray(q)
    BY <1>2, NextStray
  <2>2. StrayPerFault'
    BY <1>1, <2>1, CountFewer DEF StrayPerFault
  <2>3. ASSUME NEW p \in Processes, NEW k \in Slots, Commit(p, k)
        PROVE  OneNodePerSession'
    <3> SUFFICES ASSUME NEW s \in live
                 PROVE  Cardinality({w \in Ids : node'[w] = s}) <= 1 + faults
      BY <2>1, <2>3 DEF OneNodePerSession, Commit
    <3>1. /\ choice[<<p, k>>] \in Ids
          /\ node' = [node EXCEPT ![choice[<<p, k>>]] = session[p]]
          /\ Stray(p) = HeldBy(p)
      BY <2>3, KeepsNothingYet
      DEF Commit, Apply, RegistrationTypes, Chosen, Registrations
    <3>2. CASE s = session[p]
      <4>1. {w \in Ids : node'[w] = s} \in SUBSET (Stray(p) \cup {choice[<<p, k>>]})
        <5>1. s # 0
          BY RegistryAssumption
        <5> QED
          BY <3>1, <3>2, <5>1 DEF HeldBy, Holds
      <4>2. Cardinality({w \in Ids : node'[w] = s}) <= faults + 1
        BY <1>1, <3>1, <4>1, CountOneMore DEF StrayPerFault
      <4> QED
        BY <4>2
    <3>3. CASE s # session[p]
      <4>1. {w \in Ids : node'[w] = s} \in SUBSET Nodes(s)
        BY <3>1, <3>3
      <4>2. Nodes(s) \in SUBSET Ids /\ Cardinality(Nodes(s)) <= 1 + faults
        BY DEF OneNodePerSession
      <4>3. 1 + faults \in Nat
        OBVIOUS
      <4> QED
        BY <4>1, <4>2, <4>3, CountFewer
    <3> QED
      BY <3>2, <3>3
  <2>4. CASE \A p \in Processes, k \in Slots : ~Commit(p, k)
    <3>1. /\ \A w \in Ids : node'[w] \in {0, node[w]}
          /\ live' \subseteq live \cup {opened + 1}
      BY <1>2, <2>4, NextNodes
    <3>2. faults' \in {faults, faults + 1}
      BY <2>1
    <3> QED
      BY <2>2, <3>1, <3>2, NodesLeave
  <2> QED
    BY <2>2, <2>3, <2>4
<1>3. ASSUME NEW p \in Processes, NEW k \in Slots, CommitUnknown(p, k)
      PROVE  KInv'
  <2>1. /\ choice[<<p, k>>] \in Ids
        /\ node' = [node EXCEPT ![choice[<<p, k>>]] = session[p]]
        /\ Stray(p) = HeldBy(p)
        /\ faults' = faults + 1 /\ Fail(p, k) /\ live' = live
    BY <1>3, KeepsNothingYet
    DEF CommitUnknown, Apply, RegistrationTypes, Chosen, Registrations
  <2>2. /\ Stray(p)' \subseteq Stray(p) \cup {choice[<<p, k>>]}
        /\ \A q \in Processes : q # p => Stray(q)' \subseteq Stray(q)
    <3>1. {w \in Ids : node'[w] = session[p] /\ node'[w] # 0}
            \subseteq Stray(p) \cup {choice[<<p, k>>]}
      BY <2>1 DEF HeldBy, Holds
    <3>2. \A w \in Ids : node'[w] \in {0, node[w], session[p]}
      BY <2>1
    <3>3. Stray(p) \cup {choice[<<p, k>>]} \in SUBSET Ids
      BY <1>1, <2>1
    <3> QED
      BY <2>1, <3>1, <3>2, <3>3, FailStray
  <2>3. StrayPerFault'
    <3> SUFFICES ASSUME NEW q \in Processes
                 PROVE  Cardinality(Stray(q)') <= faults + 1
      BY <2>1 DEF StrayPerFault
    <3>1. Stray(q)' \in SUBSET (Stray(q) \cup {choice[<<p, k>>]})
      BY <2>2
    <3> QED
      BY <1>1, <2>1, <3>1, CountOneMore DEF StrayPerFault
  <2>4. OneNodePerSession'
    <3> SUFFICES ASSUME NEW s \in live
                 PROVE  Cardinality({w \in Ids : node'[w] = s}) <= 1 + (faults + 1)
      BY <2>1 DEF OneNodePerSession
    <3>1. {w \in Ids : node'[w] = s}
            \in SUBSET (Nodes(s) \cup {choice[<<p, k>>]})
      BY <2>1
    <3>2. Nodes(s) \in SUBSET Ids /\ Cardinality(Nodes(s)) <= 1 + faults
      BY DEF OneNodePerSession
    <3>3. 1 + faults \in Nat
      OBVIOUS
    <3>4. Cardinality({w \in Ids : node'[w] = s}) <= (1 + faults) + 1
      BY <2>1, <3>1, <3>2, <3>3, CountOneMore
    <3> QED
      BY <3>4
  <2> QED
    BY <2>3, <2>4
<1>4. ASSUME NEW p \in Processes, NEW k \in Slots, CheckFails(p, k)
      PROVE  KInv'
  <2>1. /\ UNCHANGED <<node, live, session, watch, pathCreatedTime, choice>>
        /\ faults' = faults + 1
        /\ pc' = [pc EXCEPT ![<<p, k>>] = "acquire"]
        /\ watch[p] \in Ids
        /\ \A l \in Slots : pc[<<p, l>>] # "stat"
    BY <1>4, SlotsOf
    DEF CheckFails, ListenerFree, zookeeper, jvm, locals, JvmTypes, Slots
  <2>2. StrayPerFault'
    <3> SUFFICES ASSUME NEW q \in Processes
                 PROVE  Cardinality(Stray(q)') <= faults + 1
      BY <2>1 DEF StrayPerFault
    <3>1. Stray(q)' \in SUBSET (Stray(q) \cup {watch[p]})
      <4>1. CASE q = p
        BY <2>1, <4>1 DEF Stray, Holds, Keeps
      <4>2. CASE q # p
        <5>1. Untouched(q)
          BY <2>1, <4>2 DEF Untouched
        <5> QED
          BY <2>1, <5>1, StaysStray
      <4> QED
        BY <4>1, <4>2
    <3> QED
      BY <1>1, <2>1, <3>1, CountOneMore DEF StrayPerFault
  <2>3. /\ \A w \in Ids : node'[w] \in {0, node[w]}
        /\ live' \subseteq live \cup {opened + 1}
        /\ faults' \in {faults, faults + 1}
    BY <2>1
  <2>4. OneNodePerSession'
    BY <2>3, NodesLeave
  <2> QED
    BY <2>2, <2>4
<1> QED
  BY <1>2, <1>3, <1>4

\* A session never holds more than one node, and one more for each lost reply
\* and failed check, for any number of processes and ids and however long
\* registrations stall.
THEOREM OneNode == Spec => []OneNodePerSession
<1>1. Init => KInv
  <2> SUFFICES ASSUME Init PROVE KInv
    OBVIOUS
  <2>1. \A p \in Processes : Stray(p) = {}
    BY DEF Init, Stray, Holds
  <2>2. \A p \in Processes : Cardinality(Stray(p)) = 0
    BY <2>1, FS_EmptySet
  <2>3. live = {} /\ faults = 0
    BY DEF Init
  <2> QED
    BY <2>2, <2>3 DEF KInv, StrayPerFault, OneNodePerSession
<1>2. LInv /\ KInv /\ [Next]_vars => KInv'
  BY NextKept
<1>3. KInv => OneNodePerSession
  BY DEF KInv
<1> QED
  BY <1>1, <1>2, <1>3, Life, PTL DEF Spec

-----------------------------------------------------------------------------
(* Content processes own their id.  What a process knows about its node is *)
(* right as long as its session lives: a registration that stalls, so that *)
(* the session expires between the creation of the node and the store of   *)
(* the worker id, would read the creation time of another's node.          *)
Holding(p) ==
  \A k \in Slots :
    pc[<<p, k>>] \in {"stat", "set"} =>
      Connected(p) /\ node[choice[<<p, k>>]] = session[p]

Watching(p) ==
  watch[p] # None =>
    /\ pathCreatedTime[p] # 0
    /\ pathCreatedTime[p] \in live => pathCreatedTime[p] = session[p]

Owning(p) ==
  watch[p] # None /\ Connected(p) /\ pathCreatedTime[p] = session[p] =>
    \/ \E k \in Slots : pc[<<p, k>>] = "set"
    \/ node[workerId[p]] = session[p]

Owner(p) == Holding(p) /\ Watching(p) /\ Owning(p)

HInv == ~RegistrationMayStall => \A p \in Processes : Owner(p)

\* No node is taken from its session, and none of the sessions known so far
\* comes back.
NodesStay ==
  /\ \A w \in Ids : node[w] # 0 => node'[w] = node[w]
  /\ live \subseteq live'
  /\ live' \cap (0 .. opened) \subseteq live

LEMMA LiveIsNotZero == ASSUME TInv PROVE 0 \notin live
BY DEF TInv, ServerTypes

\* The worker id of a process that watches a node is an id.
LEMMA WorkerIdIsId ==
  ASSUME TInv, NEW p \in Processes, watch[p] # None
  PROVE  workerId[p] \in Ids
<1>1. watch[p] \in Ids /\ workerId[p] \in Ids \cup {0}
  BY DEF TInv, JvmTypes
<1> QED
  BY <1>1, RegistryAssumption DEF Ids, WORKER_ID_MAX_VALUE

LEMMA OthersOwn ==
  ASSUME TInv, NEW q \in Processes, Owner(q), NodesStay, Untouched(q),
         workerId'[q] = workerId[q]
  PROVE  Owner(q)'
<1> USE LiveIsNotZero
    DEF TInv, ServerTypes, JvmTypes, RegistrationTypes, Owner, NodesStay
<1>1. session[q] \in live' <=> session[q] \in live
  OBVIOUS
<1>2. Connected(q)' <=> Connected(q)
  BY <1>1 DEF Connected, Untouched
<1>3. Holding(q)'
  BY <1>2, SlotsOf DEF Holding, Chosen, Untouched, Connected
<1>4. Watching(q)'
  BY DEF Watching, Untouched
<1>5. Owning(q)'
  BY <1>2, WorkerIdIsId DEF Owning, Untouched, Connected
<1> QED
  BY <1>3, <1>4, <1>5

\* A registration that has not yet created its node, before and after a step.
LEMMA MovesOwned ==
  ASSUME TInv, NEW p \in Processes, NEW k \in Slots, Owner(p), NodesStay,
         pc[<<p, k>>] # "set", pc'[<<p, k>>] \notin {"stat", "set"},
         \A l \in Slots \ {k} : /\ pc'[<<p, l>>] = pc[<<p, l>>]
                                /\ choice'[<<p, l>>] = choice[<<p, l>>],
         session'[p] = session[p], workerId'[p] = workerId[p],
         watch'[p] = watch[p], pathCreatedTime'[p] = pathCreatedTime[p]
  PROVE  Owner(p)'
<1> USE LiveIsNotZero
    DEF TInv, ServerTypes, JvmTypes, RegistrationTypes, Owner, NodesStay
<1>1. Connected(p)' <=> Connected(p)
  BY DEF Connected
<1>2. Holding(p)'
  <2> SUFFICES ASSUME NEW l \in Slots, pc'[<<p, l>>] \in {"stat", "set"}
               PROVE  Connected(p)' /\ node'[choice'[<<p, l>>]] = session'[p]
    BY DEF Holding
  <2>1. /\ pc[<<p, l>>] \in {"stat", "set"}
        /\ choice'[<<p, l>>] = choice[<<p, l>>] /\ choice[<<p, l>>] \in Ids
    BY SlotsOf DEF Chosen
  <2>2. Connected(p) /\ node[choice[<<p, l>>]] = session[p] /\ session[p] # 0
    BY <2>1 DEF Holding, Connected
  <2> QED
    BY <1>1, <2>1, <2>2
<1>3. Watching(p)'
  BY DEF Watching
<1>4. Owning(p)'
  BY <1>1, WorkerIdIsId DEF Owning, Connected
<1> QED
  BY <1>2, <1>3, <1>4

LEMMA StopOwned ==
  ASSUME TInv, NEW p \in Processes, Stop(p)
  PROVE  Owner(p)'
BY SlotsOf
DEF TInv, JvmTypes, RegistrationTypes, Stop, Owner, Holding, Watching, Owning

LEMMA FailOwned ==
  ASSUME TInv, NEW p \in Processes, NEW k \in Slots, Owner(p), NodesStay,
         pc[<<p, k>>] # "set", Fail(p, k)
  PROVE  Owner(p)'
<1>1. CASE Stop(p)
  BY <1>1, StopOwned
<1>2. CASE End(<<p, k>>) /\ UNCHANGED jvm
  <2>1. /\ pc'[<<p, k>>] = "idle"
        /\ \A l \in Slots \ {k} : /\ pc'[<<p, l>>] = pc[<<p, l>>]
                                  /\ choice'[<<p, l>>] = choice[<<p, l>>]
    BY <1>2, SlotsOf DEF End, TInv, RegistrationTypes
  <2> QED
    BY <1>2, <2>1, MovesOwned DEF jvm
<1> QED
  BY <1>1, <1>2 DEF Fail

\* Whatever a registration of p does, it is p's fields that change.
LEMMA RegisterUntouched ==
  ASSUME TInv, NEW p \in Processes, NEW k \in Slots, Register(p, k),
         NEW q \in Processes, q # p
  PROVE  Untouched(q) /\ workerId'[q] = workerId[q]
<1> USE SlotsOf DEF TInv, JvmTypes, RegistrationTypes, Untouched
<1>1. CASE Fail(p, k)
  BY <1>1 DEF Fail, Stop, End, jvm
<1>2. CASE Acquire(p, k) \/ Choose(p, k) \/ Commit(p, k)
  BY <1>2 DEF Acquire, Choose, Commit, jvm, locals
<1>3. CASE Stat(p, k) /\ ~Fail(p, k)
  BY <1>3 DEF Stat, locals
<1>4. CASE SetWorkerId(p, k)
  BY <1>4 DEF SetWorkerId, End
<1> QED
  BY <1>1, <1>2, <1>3, <1>4
  DEF Register, AcquireTimeout, Full, NodeExists, CommitUnknown

\* No registration takes a node from anyone.
LEMMA RegisterNodesStay ==
  ASSUME TInv, NEW p \in Processes, NEW k \in Slots, Register(p, k)
  PROVE  NodesStay
<1>1. node' = node \/ Apply(p, k)
  BY DEF Register, Acquire, AcquireTimeout, Choose, Full, Commit, NodeExists,
         CommitUnknown, Stat, SetWorkerId, zookeeper
<1>2. live' = live
  BY DEF Register, Acquire, AcquireTimeout, Choose, Full, Commit, NodeExists,
         CommitUnknown, Stat, SetWorkerId, zookeeper
<1>3. \A w \in Ids : node[w] # 0 => node'[w] = node[w]
  BY <1>1 DEF Apply, TInv, ServerTypes
<1> QED
  BY <1>2, <1>3 DEF NodesStay

LEMMA RegisterOwned ==
  ASSUME LInv, NEW p \in Processes, NEW k \in Slots, Register(p, k), Owner(p)
  PROVE  Owner(p)'
<1> TInv /\ NodesStay
  BY RegisterNodesStay DEF LInv
<1> <<p, k>> \in Registrations
  BY SlotsOf
<1>1. CASE Acquire(p, k) \/ Choose(p, k)
  <2>1. /\ pc[<<p, k>>] # "set" /\ pc'[<<p, k>>] \notin {"stat", "set"}
        /\ \A l \in Slots \ {k} : /\ pc'[<<p, l>>] = pc[<<p, l>>]
                                  /\ choice'[<<p, l>>] = choice[<<p, l>>]
    BY <1>1, SlotsOf DEF Acquire, Choose, locals, TInv, RegistrationTypes
  <2> QED
    BY <1>1, <2>1, MovesOwned DEF Acquire, Choose, jvm
<1>2. CASE Fail(p, k) /\ pc[<<p, k>>] # "set"
  BY <1>2, FailOwned
<1>3. CASE Commit(p, k)
  <2> USE DEF TInv, ServerTypes, JvmTypes, RegistrationTypes
  <2>1. /\ choice[<<p, k>>] \in Ids /\ pc[<<p, k>>] = "commit"
        /\ node' = [node EXCEPT ![choice[<<p, k>>]] = session[p]]
        /\ Connected(p)' /\ live' = live /\ UNCHANGED <<jvm, locals>>
    BY <1>3 DEF Commit, Apply, Chosen, Connected, jvm
  <2>2. Holding(p)'
    <3> SUFFICES ASSUME NEW l \in Slots, pc'[<<p, l>>] \in {"stat", "set"}
                 PROVE  node'[choice'[<<p, l>>]] = session'[p]
      BY <2>1 DEF Holding
    <3>1. CASE l = k
      BY <2>1, <3>1 DEF jvm, locals
    <3>2. CASE l # k
      <4>1. pc[<<p, l>>] \in {"stat", "set"} /\ choice[<<p, l>>] \in Ids
        BY <1>3, <3>2, SlotsOf DEF Commit, Chosen
      <4>2. node[choice[<<p, l>>]] = session[p] /\ session[p] # 0
        BY <4>1, LiveIsNotZero DEF Owner, Holding, Connected
      <4> QED
        BY <2>1, <4>1, <4>2 DEF NodesStay, jvm, locals
    <3> QED
      BY <3>1, <3>2
  <2>3. Watching(p)'
    BY <2>1 DEF Owner, Watching, jvm
  <2>4. Owning(p)'
    <3> SUFFICES ASSUME watch[p] # None, Connected(p),
                        pathCreatedTime[p] = session[p],
                        \A l \in Slots : pc'[<<p, l>>] # "set"
                 PROVE  node'[workerId[p]] = session[p]
      BY <2>1 DEF Owning, Connected, jvm
    <3>1. \A l \in Slots : pc[<<p, l>>] # "set"
      BY <1>3, <2>1, SlotsOf DEF Commit
    <3>2. node[workerId[p]] = session[p] /\ session[p] # 0
      BY <3>1, LiveIsNotZero DEF Owner, Owning, Connected
    <3> QED
      BY <3>2, WorkerIdIsId DEF NodesStay
  <2> QED
    BY <2>2, <2>3, <2>4 DEF Owner
<1>4. CASE Stat(p, k) /\ ~Fail(p, k)
  <2> USE DEF TInv, ServerTypes, JvmTypes, RegistrationTypes
  <2>1. /\ Connected(p) /\ node[choice[<<p, k>>]] = session[p]
        /\ UNCHANGED <<zookeeper, session, locals>>
    BY <1>4 DEF Stat, Owner, Holding
  <2>2. /\ pathCreatedTime'[p] = session[p] /\ pc'[<<p, k>>] = "set"
        /\ Connected(p)'
    BY <1>4, <2>1 DEF Stat, Connected, zookeeper
  <2>3. Holding(p)'
    BY <1>4, <2>1, <2>2, SlotsOf DEF Stat, Owner, Holding, zookeeper, locals
  <2>4. Watching(p)'
    BY <2>1, <2>2, LiveIsNotZero DEF Watching, Connected
  <2>5. Owning(p)'
    BY <2>2 DEF Owning
  <2> QED
    BY <2>3, <2>4, <2>5 DEF Owner
<1>5. CASE SetWorkerId(p, k)
  <2> USE DEF TInv, ServerTypes, JvmTypes, RegistrationTypes
  <2>1. /\ Connected(p) /\ node[choice[<<p, k>>]] = session[p]
        /\ workerId'[p] = choice[<<p, k>>]
        /\ UNCHANGED <<live, node, session, watch, pathCreatedTime>>
    BY <1>5 DEF SetWorkerId, Owner, Holding
  <2>2. Holding(p)'
    BY <1>5, <2>1, SlotsOf
    DEF SetWorkerId, End, Owner, Holding, Connected
  <2>3. Watching(p)'
    BY <2>1 DEF Owner, Watching
  <2>4. Owning(p)'
    BY <2>1 DEF Owning
  <2> QED
    BY <2>2, <2>3, <2>4 DEF Owner
<1>6. CASE AcquireTimeout(p, k) \/ Full(p, k) \/ NodeExists(p, k)
             \/ CommitUnknown(p, k)
  BY <1>2, <1>6 DEF AcquireTimeout, Full, NodeExists, CommitUnknown
<1>7. CASE Stat(p, k) /\ Fail(p, k)
  BY <1>2, <1>7 DEF Stat
<1> QED
  BY <1>1, <1>3, <1>4, <1>5, <1>6, <1>7 DEF Register

LEMMA NextOwned == ASSUME LInv, HInv, [Next]_vars PROVE HInv'
<1> SUFFICES ASSUME ~RegistrationMayStall, NEW q \in Processes, Owner(q)
             PROVE  Owner(q)'
  BY DEF HInv
<1> TInv
  BY DEF LInv
<1> USE SlotsOf, RegistryAssumption
    DEF TInv, ServerTypes, JvmTypes, RegistrationTypes
<1>1. ASSUME NEW p \in Processes, p # q,
             OpenSession(p), UNCHANGED <<node, workerId, watch,
                                         pathCreatedTime, choice>>,
             \A k \in Slots : pc'[<<q, k>>] = pc[<<q, k>>]
      PROVE  Owner(q)'
  <2>1. /\ opened \in Nat /\ live' = live \cup {opened + 1}
        /\ session'[q] = session[q]
    BY <1>1 DEF OpenSession
  <2>2. NodesStay
    BY <1>1, <2>1 DEF NodesStay
  <2> QED
    BY <1>1, <2>1, <2>2, OthersOwn DEF Untouched
<1>2. ASSUME NEW p \in Processes, Boot(p)
      PROVE  Owner(q)'
  <2>1. CASE p = q
    <3>1. /\ watch'[p] = None
          /\ \A k \in Slots : pc'[<<p, k>>] \notin {"stat", "set"}
      BY <1>2 DEF Boot, LInv, Living
    <3> QED
      BY <2>1, <3>1 DEF Owner, Holding, Watching, Owning
  <2>2. CASE p # q
    BY <1>1, <1>2, <2>2 DEF Boot, locals
  <2> QED
    BY <2>1, <2>2
<1>3. ASSUME NEW p \in Processes, Crash(p)
      PROVE  Owner(q)'
  <2>1. CASE p = q
    BY <1>3, <2>1, StopOwned DEF Crash
  <2>2. CASE p # q
    BY <1>3, <2>2, OthersOwn DEF Crash, Stop, zookeeper, Untouched, NodesStay
  <2> QED
    BY <2>1, <2>2
<1>4. ASSUME NEW p \in Processes, Reconnect(p)
      PROVE  Owner(q)'
  <2>1. CASE p = q
    <3>1. \A k \in Slots : pc[<<p, k>>] \notin {"stat", "set"}
      BY <1>4, <2>1 DEF Reconnect, Owner, Holding
    <3>2. /\ session'[p] = opened + 1 /\ live' = live \cup {opened + 1}
          /\ pathCreatedTime[p] \in 0 .. opened /\ opened \in Nat
      BY <1>4 DEF Reconnect, OpenSession
    <3>3. Holding(p)'
      BY <1>4, <3>1 DEF Reconnect, Holding
    <3>4. Watching(p)'
      BY <1>4, <2>1, <3>2 DEF Reconnect, Owner, Watching, Connected
    <3>5. Owning(p)'
      BY <1>4, <3>2 DEF Reconnect, Owning
    <3> QED
      BY <2>1, <3>3, <3>4, <3>5 DEF Owner
  <2>2. CASE p # q
    BY <1>1, <1>4, <2>2 DEF Reconnect, locals
  <2> QED
    BY <2>1, <2>2
<1>5. ASSUME NEW s \in Sessions, Expire(s)
      PROVE  Owner(q)'
  <2>1. /\ UNCHANGED <<jvm, pc, locals>> /\ live' = live \ {s}
        /\ \A w \in Ids : node[w] # s => node'[w] = node[w]
    BY <1>5 DEF Expire
  <2>2. session[q] = s => \A k \in Slots : pc[<<q, k>>] \notin {"stat", "set"}
    BY <1>5 DEF Expire
  <2>3. Holding(q)'
    <3> SUFFICES ASSUME NEW k \in Slots, pc[<<q, k>>] \in {"stat", "set"}
                 PROVE  Connected(q)' /\ node'[choice[<<q, k>>]] = session[q]
      BY <2>1 DEF Holding, jvm, locals
    <3>1. /\ Connected(q) /\ node[choice[<<q, k>>]] = session[q]
          /\ session[q] # s /\ choice[<<q, k>>] \in Ids
      BY <2>2 DEF Owner, Holding, Chosen
    <3> QED
      BY <2>1, <3>1 DEF Connected, jvm
  <2>4. Watching(q)'
    BY <2>1 DEF Owner, Watching, jvm
  <2>5. Owning(q)'
    BY <2>1, WorkerIdIsId DEF Owner, Owning, Connected, jvm
  <2> QED
    BY <2>3, <2>4, <2>5 DEF Owner
<1>6. ASSUME NEW p \in Processes, NEW k \in Slots, Listen(p, k)
      PROVE  Owner(q)'
  <2>1. NodesStay /\ UNCHANGED <<session, workerId, watch, pathCreatedTime, choice>>
    BY <1>6 DEF Listen, ChildEvent, ChildEventSame, zookeeper, locals, NodesStay
  <2>2. CASE p = q /\ ChildEvent(p, k)
    <3>1. /\ pc[<<p, k>>] # "set" /\ pc'[<<p, k>>] \notin {"stat", "set"}
          /\ \A l \in Slots \ {k} : /\ pc'[<<p, l>>] = pc[<<p, l>>]
                                    /\ choice'[<<p, l>>] = choice[<<p, l>>]
      BY <2>2 DEF ChildEvent, ListenerFree, locals
    <3> QED
      BY <2>1, <2>2, <3>1, MovesOwned
  <2>3. CASE p # q \/ ChildEventSame(p, k)
    <3>1. Untouched(q)
      BY <1>6, <2>1, <2>3 DEF Listen, ChildEvent, ChildEventSame, Untouched
    <3> QED
      BY <2>1, <3>1, OthersOwn
  <2> QED
    BY <1>6, <2>2, <2>3 DEF Listen
<1>7. ASSUME NEW p \in Processes, NEW k \in Slots, CheckFails(p, k)
      PROVE  Owner(q)'
  <2>1. NodesStay /\ UNCHANGED <<session, workerId, watch, pathCreatedTime, choice>>
    BY <1>7 DEF CheckFails, zookeeper, jvm, locals, NodesStay
  <2>2. CASE p = q
    <3>1. /\ pc[<<p, k>>] # "set" /\ pc'[<<p, k>>] \notin {"stat", "set"}
          /\ \A l \in Slots \ {k} : /\ pc'[<<p, l>>] = pc[<<p, l>>]
                                    /\ choice'[<<p, l>>] = choice[<<p, l>>]
      BY <1>7 DEF CheckFails, ListenerFree, locals
    <3> QED
      BY <2>1, <2>2, <3>1, MovesOwned
  <2>3. CASE p # q
    <3>1. Untouched(q)
      BY <1>7, <2>1, <2>3 DEF CheckFails, Untouched
    <3> QED
      BY <2>1, <3>1, OthersOwn
  <2> QED
    BY <2>2, <2>3
<1>8. CASE UNCHANGED vars
  BY <1>8, OthersOwn DEF vars, zookeeper, jvm, locals, Untouched, NodesStay
<1>9. ASSUME NEW p \in Processes, NEW k \in Slots, Register(p, k)
      PROVE  Owner(q)'
  BY <1>9, RegisterOwned, RegisterUntouched, RegisterNodesStay, OthersOwn
<1> QED
  BY <1>2, <1>3, <1>4, <1>5, <1>6, <1>7, <1>8, <1>9 DEF Next, Step

\* If no session expires between a process's creation of its node and the
\* store of its worker id, a process whose listener sees nothing amiss has a
\* worker id whose node its own, live session holds, whatever else fails.
THEOREM OwnsId ==
  ASSUME ~RegistrationMayStall
  PROVE  Spec => []ContentOwnsId
<1>1. Init => HInv
  BY DEF Init, HInv, Owner, Holding, Watching, Owning, Registrations
<1>2. LInv /\ HInv /\ [Next]_vars => HInv'
  BY NextOwned
<1>3. LInv /\ HInv => ContentOwnsId
  <2> SUFFICES ASSUME LInv, NEW p \in Processes, Content(p), Owner(p)
               PROVE  Connected(p) /\ node[workerId[p]] = session[p]
    BY DEF HInv, ContentOwnsId
  <2>1. node[watch[p]] \in live \cup {0}
    BY DEF Content, LInv, TInv, ServerTypes, JvmTypes
  <2>2. Connected(p) /\ pathCreatedTime[p] = session[p]
    BY <2>1 DEF Content, Owner, Watching, Connected
  <2> QED
    BY <2>2 DEF Content, Owner, Owning
<1> QED
  BY <1>1, <1>2, <1>3, Life, PTL DEF Spec

-----------------------------------------------------------------------------
(* The layout: the fields of an id are recovered from its long, the worker *)
(* id among them.                                                          *)
LEMMA ShiftBound ==
  ASSUME NEW size \in Nat \ {0}, NEW limit \in Nat \ {0},
         NEW high \in 0 .. limit - 1, NEW low \in 0 .. size - 1
  PROVE  Shift(high, size, low) \in 0 .. limit * size - 1
<1>1. high * size \in Nat /\ high * size + size \in Nat /\ limit * size \in Nat
  OBVIOUS
<1>2. (high + 1) * size <= limit * size
  OBVIOUS
<1>3. (high + 1) * size = high * size + size
  OBVIOUS
<1> QED
  BY <1>1, <1>2, <1>3 DEF Shift

LEMMA ShiftInjective ==
  ASSUME NEW size \in Nat \ {0},
         NEW h1 \in Nat, NEW l1 \in 0 .. size - 1,
         NEW h2 \in Nat, NEW l2 \in 0 .. size - 1,
         Shift(h1, size, l1) = Shift(h2, size, l2)
  PROVE  h1 = h2 /\ l1 = l2
<1>1. ASSUME NEW g \in Nat, NEW k \in Nat, g < k
      PROVE  g * size + size <= k * size
  <2>1. (g + 1) * size <= k * size
    BY <1>1
  <2> QED
    BY <2>1
<1>2. h1 * size \in Nat /\ h2 * size \in Nat
  OBVIOUS
<1>3. ~(h1 < h2) /\ ~(h2 < h1)
  BY <1>1, <1>2 DEF Shift
<1> QED
  BY <1>2, <1>3 DEF Shift

LEMMA ProductPositive == \A m, n \in Nat \ {0} : m * n \in Nat \ {0}
OBVIOUS

\* Bits keeps the fields apart and stays below the number of longs.
LEMMA BitsOf ==
  ASSUME NEW a \in Id, NEW b \in Id
  PROVE  /\ Bits(a) \in 0 .. LongSize - 1
         /\ LongSize \in Nat \ {0}
         /\ Bits(a) = Bits(b) => a = b
<1> DEFINE S1 == TimeSize * BusinessSize
           S2 == S1 * DatacenterSize
           S3 == S2 * WorkerSize
           H1(id) == Shift(id.time, BusinessSize, id.business)
           H2(id) == Shift(H1(id), DatacenterSize, datacenterId)
           H3(id) == Shift(H2(id), WorkerSize, id.worker)
<1> USE RegistryAssumption, ClusterAssumption
<1>1. S1 \in Nat \ {0}
  BY ProductPositive
<1>2. S2 \in Nat \ {0}
  BY <1>1, ProductPositive DEF S2
<1>3. S3 \in Nat \ {0}
  BY <1>2, ProductPositive DEF S3
<1>4. LongSize = S3 * SequenceSize /\ LongSize \in Nat \ {0}
  <2>1. LongSize = S3 * SequenceSize
    BY DEF LongSize
  <2> HIDE DEF S3
  <2> QED
    BY <1>3, <2>1, ProductPositive
<1>5. \A id \in Id : /\ id.time \in 0 .. TimeSize - 1
                     /\ id.business \in 0 .. BusinessSize - 1
                     /\ id.worker \in 0 .. WorkerSize - 1
                     /\ id.sequence \in 0 .. SequenceSize - 1
  BY DEF Id, MAX_BUSINESS_ID, MAX_WORKER_ID
<1>6. datacenterId \in 0 .. DatacenterSize - 1
  BY DEF datacenterId
<1>7. \A id \in Id : H1(id) \in 0 .. S1 - 1
  BY <1>5, ShiftBound
<1> HIDE DEF S1
<1>8. \A id \in Id : H2(id) \in 0 .. S2 - 1
  <2> HIDE DEF H1
  <2> QED
    BY <1>1, <1>6, <1>7, ShiftBound DEF S2
<1> HIDE DEF S2
<1>9. \A id \in Id : H3(id) \in 0 .. S3 - 1
  <2> HIDE DEF H2
  <2> QED
    BY <1>2, <1>5, <1>8, ShiftBound DEF S3
<1> HIDE DEF S3
<1>10. \A id : Bits(id) = Shift(H3(id), SequenceSize, id.sequence)
  BY DEF Bits
<1>11. Bits(a) \in 0 .. LongSize - 1
  <2> HIDE DEF H3
  <2> QED
    BY <1>3, <1>4, <1>5, <1>9, <1>10, ShiftBound
<1>12. ASSUME Bits(a) = Bits(b)
       PROVE  a = b
  <2>1. /\ H1(a) \in Nat /\ H1(b) \in Nat
        /\ H2(a) \in Nat /\ H2(b) \in Nat
        /\ H3(a) \in Nat /\ H3(b) \in Nat
    BY <1>7, <1>8, <1>9, <1>1, <1>2, <1>3
  <2>2. H3(a) = H3(b) /\ a.sequence = b.sequence
    <3>1. Shift(H3(a), SequenceSize, a.sequence)
            = Shift(H3(b), SequenceSize, b.sequence)
      BY <1>10, <1>12
    <3>2. SequenceSize \in Nat \ {0}
      OBVIOUS
    <3>3. /\ a.sequence \in 0 .. SequenceSize - 1
          /\ b.sequence \in 0 .. SequenceSize - 1
      BY <1>5
    <3> HIDE DEF H3
    <3> QED
      BY <2>1, <3>1, <3>2, <3>3, ShiftInjective
  <2>3. H2(a) = H2(b) /\ a.worker = b.worker
    <3> HIDE DEF H2
    <3> QED
      BY <1>5, <2>1, <2>2, ShiftInjective DEF H3
  <2>4. H1(a) = H1(b)
    <3> HIDE DEF H1
    <3> QED
      BY <1>6, <2>1, <2>3, ShiftInjective DEF H2
  <2>5. a.time \in Nat /\ b.time \in Nat
    BY <1>5
  <2>6. a.time = b.time /\ a.business = b.business
    BY <1>5, <2>4, <2>5, ShiftInjective
  <2> QED
    BY <2>2, <2>3, <2>6 DEF Id
<1> QED
  BY <1>4, <1>11, <1>12

LEMMA LongDetermines ==
  ASSUME NEW a \in Id, NEW b \in Id, Long(a) = Long(b)
  PROVE  a = b
<1>1. \A id \in Id : Bits(id) \in 0 .. LongSize - 1 /\ LongSize \in Nat \ {0}
  BY BitsOf
<1>2. \A id \in Id : Long(id) = IF 2 * Bits(id) < LongSize
                                THEN Bits(id) ELSE Bits(id) - LongSize
  <2> TAKE id \in Id
  <2>1. Bits(id) % LongSize = Bits(id)
    BY <1>1
  <2> QED
    BY <2>1 DEF Long
<1>3. Bits(a) = Bits(b)
  BY <1>1, <1>2
<1> QED
  BY <1>3, BitsOf

-----------------------------------------------------------------------------
(* A behaviour of the cluster is one of the registry.                      *)
LEMMA ClusterIsRegistry == ClusterSpec => Spec
<1>1. ClusterInit => Init
  BY DEF ClusterInit
<1>2. [ClusterNext]_clusterVars => [Next]_vars
  BY DEF ClusterNext, RegistryStep, SessionExpires, Tick, StepBack, ReadClock,
         Compose, Next, clusterVars
<1> QED
  BY <1>1, <1>2, PTL DEF ClusterSpec, Spec

(* What a process serves, what was issued and what is under way.  A time   *)
(* is not later than the clock of its era, and earlier once the session    *)
(* has expired; while the session lives it holds the node; the fields of   *)
(* the generator are not behind the ids of the session; and a call that    *)
(* is under way is ahead of every id with a worker id it is entitled to.   *)
GeneratorTypes ==
  /\ clock \in 0 .. MaxClock
  /\ stepBacks \in 0 .. MaxStepBacks
  /\ serving \in [Processes -> BOOLEAN]
  /\ sequence \in [Processes -> 0 .. SequenceSize - 1]
  /\ lastTimestamp \in [Processes -> -1 .. MaxClock]
  /\ drawn \in [Processes -> Calls \cup {None}]
  /\ issued \in Seq(Issued)

Serves == \A p \in Processes : serving[p] => alive[p] /\ Ids # {}

Past ==
  \A i \in 1 .. Len(issued) :
    /\ issued[i].session <= opened
    /\ issued[i].era <= stepBacks
    /\ issued[i].era = stepBacks => issued[i].id.time <= clock

Expired ==
  \A i \in 1 .. Len(issued) :
    /\ issued[i].entitled
    /\ issued[i].era = stepBacks
    /\ issued[i].session \notin live
    => issued[i].id.time < clock

Held ==
  \A i \in 1 .. Len(issued) :
    issued[i].entitled /\ issued[i].session \in live
      => /\ issued[i].id.worker \in Ids
         /\ node[issued[i].id.worker] = issued[i].session

Counted ==
  \A i \in 1 .. Len(issued), p \in Processes :
    issued[i].era = stepBacks /\ issued[i].session = session[p] =>
      \/ issued[i].id.time < lastTimestamp[p]
      \/ /\ issued[i].id.time = lastTimestamp[p]
         /\ issued[i].id.sequence <= sequence[p]

\* A call of p is under way whose session lives and held the node of w.
StillHolds(p, w) ==
  /\ drawn[p] # None
  /\ session[p] = drawn[p].session
  /\ session[p] \in live
  /\ w \in drawn[p].held

HeldSince ==
  \A p \in Processes, w \in Ids : StillHolds(p, w) => node[w] = session[p]

Ahead ==
  \A p \in Processes, i \in 1 .. Len(issued) :
    /\ StillHolds(p, issued[i].id.worker)
    /\ issued[i].entitled
    /\ issued[i].era = drawn[p].era
    => \/ issued[i].id.time < lastTimestamp[p]
       \/ /\ issued[i].id.time = lastTimestamp[p]
          /\ issued[i].id.sequence < sequence[p]

UnderWay ==
  \A p \in Processes : drawn[p] # None =>
    /\ serving[p]
    /\ lastTimestamp[p] >= 0
    /\ drawn[p].session <= opened
    /\ drawn[p].era <= stepBacks
    /\ drawn[p].era = stepBacks => lastTimestamp[p] <= clock

CInv ==
  /\ GeneratorTypes
  /\ Serves
  /\ Past
  /\ Expired
  /\ Held
  /\ Counted
  /\ HeldSince
  /\ Ahead
  /\ UnderWay
  /\ UniqueWhileEntitled

LEMMA ClusterInitInv == ClusterInit => CInv
BY RegistryAssumption, ClusterAssumption
DEF ClusterInit, CInv, GeneratorTypes, Serves, Past, Expired, Held, Counted,
    HeldSince, Ahead, UnderWay, StillHolds, UniqueWhileEntitled

\* What the fields of an issued id are.
LEMMA IssuedFields ==
  ASSUME GeneratorTypes, NEW i \in 1 .. Len(issued)
  PROVE  /\ issued[i] \in Issued
         /\ issued[i].id \in Id
         /\ issued[i].id.time \in Nat
         /\ issued[i].id.sequence \in Nat
         /\ issued[i].session \in Sessions /\ issued[i].session \in Nat
         /\ issued[i].era \in Nat
<1>1. issued[i] \in Issued
  BY DEF GeneratorTypes
<1>2. issued[i].id \in Id
  BY <1>1 DEF Issued
<1> QED
  BY <1>1, <1>2, RegistryAssumption, ClusterAssumption
  DEF Issued, Id, Sessions

\* A step of the registry that is not an expiry leaves the nodes and gives a
\* process, if anything, a new session.
LEMMA RegistrySteps ==
  ASSUME LInv,
         \/ \E p \in Processes : Boot(p) \/ Crash(p) \/ Reconnect(p)
         \/ \E p \in Processes, k \in Slots : Step(p, k)
  PROVE  /\ NodesStay
         /\ opened' \in {opened, opened + 1}
         /\ \A q \in Processes : session'[q] \in {session[q], 0, opened + 1}
<1> USE DEF LInv, TInv, ServerTypes, JvmTypes
<1> opened \in Nat
  BY RegistryAssumption
<1>1. ASSUME NEW p \in Processes, OpenSession(p), UNCHANGED node
      PROVE  /\ NodesStay
             /\ opened' \in {opened, opened + 1}
             /\ \A q \in Processes : session'[q] \in {session[q], 0, opened + 1}
  <2>1. NodesStay
    BY <1>1 DEF OpenSession, NodesStay
  <2> QED
    BY <1>1, <2>1 DEF OpenSession
<1>2. ASSUME NEW p \in Processes, Boot(p) \/ Reconnect(p)
      PROVE  /\ NodesStay
             /\ opened' \in {opened, opened + 1}
             /\ \A q \in Processes : session'[q] \in {session[q], 0, opened + 1}
  BY <1>1, <1>2 DEF Boot, Reconnect
<1>3. ASSUME NEW p \in Processes, Crash(p)
      PROVE  /\ NodesStay
             /\ opened' \in {opened, opened + 1}
             /\ \A q \in Processes : session'[q] \in {session[q], 0, opened + 1}
  BY <1>3 DEF Crash, Stop, zookeeper, NodesStay
<1>4. ASSUME NEW p \in Processes, NEW k \in Slots, Register(p, k)
      PROVE  /\ NodesStay
             /\ opened' \in {opened, opened + 1}
             /\ \A q \in Processes : session'[q] \in {session[q], 0, opened + 1}
  <2>1. opened' = opened
    BY <1>4 DEF Register, Acquire, AcquireTimeout, Choose, Full, Commit,
                NodeExists, CommitUnknown, Stat, SetWorkerId, zookeeper
  <2>2. session' = session \/ Stop(p)
    BY <1>4 DEF Register, Acquire, AcquireTimeout, Choose, Full, Commit,
                NodeExists, CommitUnknown, Stat, SetWorkerId, Fail, jvm
  <2>3. \A q \in Processes : session'[q] \in {session[q], 0, opened + 1}
    BY <2>2 DEF Stop
  <2> QED
    BY <1>4, <2>1, <2>3, RegisterNodesStay
<1>5. ASSUME NEW p \in Processes, NEW k \in Slots,
             Listen(p, k) \/ CheckFails(p, k)
      PROVE  /\ NodesStay
             /\ opened' \in {opened, opened + 1}
             /\ \A q \in Processes : session'[q] \in {session[q], 0, opened + 1}
  BY <1>5 DEF Listen, ChildEvent, ChildEventSame, CheckFails, zookeeper, jvm,
              NodesStay
<1> QED
  BY <1>2, <1>3, <1>4, <1>5 DEF Step

LEMMA RegistryStepInv ==
  ASSUME LInv, LInv', CInv, RegistryStep
  PROVE  CInv'
<1> USE RegistryAssumption, ClusterAssumption
    DEF CInv, RegistryStep, Applications, LInv, TInv
<1>1. /\ NodesStay
      /\ opened' \in {opened, opened + 1} /\ opened \in Nat
      /\ \A q \in Processes : session'[q] \in {session[q], 0, opened + 1}
      /\ UNCHANGED <<clock, stepBacks, issued>>
  BY RegistrySteps DEF ServerTypes
<1>2. \A i \in 1 .. Len(issued) : issued[i].session \in 1 .. opened
  BY IssuedFields DEF Past, Sessions
<1>3. \A i \in 1 .. Len(issued) :
        issued[i].session \in live' <=> issued[i].session \in live
  BY <1>1, <1>2 DEF NodesStay
<1>4. GeneratorTypes'
  BY <1>1 DEF GeneratorTypes
<1>5. Serves'
  <2> SUFFICES ASSUME NEW p \in Processes, serving'[p]
               PROVE  alive'[p] /\ Ids # {}
    BY DEF Serves
  <2>1. alive'[p] /\ (serving[p] \/ pc[<<p, 1>>] = "set")
    OBVIOUS
  <2>2. pc[<<p, 1>>] = "set" => Ids # {}
    BY DEF RegistrationTypes, Chosen, Registrations, Slots
  <2> QED
    BY <2>1, <2>2 DEF Serves
<1>6. Past'
  BY <1>1, <1>2 DEF Past
<1>7. Expired'
  BY <1>1, <1>3 DEF Expired
<1>8. Held'
  <2> SUFFICES ASSUME NEW i \in 1 .. Len(issued), issued[i].entitled,
                      issued[i].session \in live'
               PROVE  /\ issued[i].id.worker \in Ids
                      /\ node'[issued[i].id.worker] = issued[i].session
    BY <1>1 DEF Held
  <2>1. /\ issued[i].id.worker \in Ids
        /\ node[issued[i].id.worker] = issued[i].session
    BY <1>3 DEF Held
  <2> QED
    BY <1>1, <1>2, <2>1 DEF NodesStay
<1>9. Counted'
  <2> SUFFICES ASSUME NEW i \in 1 .. Len(issued), NEW p \in Processes,
                      issued[i].era = stepBacks,
                      issued[i].session = session'[p]
               PROVE  \/ issued[i].id.time < lastTimestamp'[p]
                      \/ /\ issued[i].id.time = lastTimestamp'[p]
                         /\ issued[i].id.sequence <= sequence'[p]
    BY <1>1 DEF Counted
  <2>1. session'[p] = session[p] /\ session'[p] # 0
    BY <1>1, <1>2
  <2>2. alive'[p]
    BY <2>1 DEF Living
  <2> QED
    BY <2>1, <2>2 DEF Counted
<1>10. \A p \in Processes : drawn'[p] # None =>
         /\ alive'[p] /\ drawn'[p] = drawn[p] /\ drawn[p] # None
         /\ drawn[p] \in Calls
         /\ lastTimestamp'[p] = lastTimestamp[p]
         /\ sequence'[p] = sequence[p]
         /\ serving[p] => serving'[p]
  BY DEF GeneratorTypes
<1>11. \A p \in Processes, w \in Ids : StillHolds(p, w)' =>
         StillHolds(p, w) /\ session'[p] = session[p] /\ node'[w] = session[p]
  <2> SUFFICES ASSUME NEW p \in Processes, NEW w \in Ids, StillHolds(p, w)'
               PROVE  /\ StillHolds(p, w) /\ session'[p] = session[p]
                      /\ node'[w] = session[p]
    OBVIOUS
  <2>1. /\ drawn[p] # None /\ drawn[p] \in Calls
        /\ session'[p] = drawn[p].session /\ w \in drawn[p].held
        /\ session'[p] \in live'
    BY <1>10 DEF StillHolds
  <2>2. drawn[p].session \in 1 .. opened
    BY <2>1 DEF UnderWay, Calls, Sessions
  <2>3. session'[p] = session[p] /\ session[p] \in live
    BY <1>1, <2>1, <2>2 DEF NodesStay
  <2>4. StillHolds(p, w)
    BY <2>1, <2>3 DEF StillHolds
  <2>5. node[w] = session[p] /\ session[p] # 0
    BY <2>1, <2>2, <2>3, <2>4 DEF HeldSince
  <2> QED
    BY <1>1, <2>3, <2>4, <2>5 DEF NodesStay
<1>12. HeldSince'
  BY <1>11 DEF HeldSince
<1>13. Ahead'
  <2> SUFFICES ASSUME NEW p \in Processes, NEW i \in 1 .. Len(issued),
                      StillHolds(p, issued[i].id.worker)', issued[i].entitled,
                      issued[i].era = drawn'[p].era
               PROVE  \/ issued[i].id.time < lastTimestamp'[p]
                      \/ /\ issued[i].id.time = lastTimestamp'[p]
                         /\ issued[i].id.sequence < sequence'[p]
    BY <1>1 DEF Ahead, StillHolds
  <2>1. drawn'[p] # None /\ issued[i].id.worker \in drawn'[p].held
    BY <1>1 DEF StillHolds
  <2>2. issued[i].id.worker \in Ids
    BY <1>10, <2>1 DEF Calls
  <2>3. StillHolds(p, issued[i].id.worker)
    BY <1>1, <1>11, <2>2
  <2> QED
    BY <1>10, <2>1, <2>3 DEF Ahead
<1>14. UnderWay'
  BY <1>1, <1>10 DEF UnderWay, GeneratorTypes, Calls, Sessions
<1>15. UniqueWhileEntitled'
  BY <1>1 DEF UniqueWhileEntitled
<1> QED
  BY <1>4, <1>5, <1>6, <1>7, <1>8, <1>9, <1>12, <1>13, <1>14, <1>15

\* An expired session has no id of the new millisecond.
LEMMA SessionExpiresInv ==
  ASSUME LInv, CInv, SessionExpires
  PROVE  CInv'
<1> USE RegistryAssumption, ClusterAssumption
    DEF CInv, SessionExpires, LInv, TInv, generator
<1>1. PICK s \in Sessions : Expire(s)
  OBVIOUS
<1>2. /\ UNCHANGED <<opened, alive, session, stepBacks, serving, sequence,
                     lastTimestamp, drawn, issued>>
      /\ live' = live \ {s} /\ clock' = clock + 1 /\ clock < MaxClock
      /\ \A w \in Ids : node[w] # s => node'[w] = node[w]
  BY <1>1 DEF Expire, jvm, ServerTypes
<1>3. GeneratorTypes'
  BY <1>2 DEF GeneratorTypes
<1>4. Serves'
  BY <1>2 DEF Serves
<1>5. Past' /\ Expired'
  <2>1. \A i \in 1 .. Len(issued) : issued[i].era = stepBacks =>
          issued[i].id.time <= clock' /\ issued[i].id.time < clock'
    BY <1>2, IssuedFields DEF Past, GeneratorTypes
  <2> QED
    BY <1>2, <2>1 DEF Past, Expired
<1>6. Held'
  BY <1>2 DEF Held
<1>7. Counted' /\ UniqueWhileEntitled'
  BY <1>2 DEF Counted, UniqueWhileEntitled
<1>8. HeldSince' /\ Ahead'
  BY <1>2 DEF HeldSince, Ahead, StillHolds
<1>9. UnderWay'
  BY <1>2 DEF UnderWay, GeneratorTypes
<1> QED
  BY <1>3, <1>4, <1>5, <1>6, <1>7, <1>8, <1>9

LEMMA ClockInv ==
  ASSUME CInv, Tick \/ StepBack
  PROVE  CInv'
<1> USE RegistryAssumption, ClusterAssumption DEF CInv
<1>1. /\ UNCHANGED <<vars, serving, sequence, lastTimestamp, drawn, issued>>
      /\ UNCHANGED <<opened, live, node, alive, session>>
  BY DEF Tick, StepBack, generator, vars, zookeeper, jvm
<1>2. Serves' /\ Held' /\ UniqueWhileEntitled' /\ HeldSince' /\ Ahead'
  BY <1>1 DEF Serves, Held, UniqueWhileEntitled, HeldSince, Ahead, StillHolds
<1>3. CASE Tick
  <2>1. GeneratorTypes' /\ stepBacks' = stepBacks /\ clock' = clock + 1
    BY <1>1, <1>3 DEF Tick, GeneratorTypes
  <2>2. Past' /\ Expired'
    BY <1>1, <2>1, IssuedFields DEF Past, Expired, GeneratorTypes
  <2>3. Counted' /\ UnderWay'
    BY <1>1, <2>1 DEF Counted, UnderWay, GeneratorTypes
  <2> QED
    BY <1>2, <2>1, <2>2, <2>3
<1>4. CASE StepBack
  <2>1. GeneratorTypes' /\ stepBacks' = stepBacks + 1
    BY <1>1, <1>4 DEF StepBack, GeneratorTypes
  <2>2. \A i \in 1 .. Len(issued) :
          issued[i].era # stepBacks' /\ issued[i].era <= stepBacks'
    BY <2>1, IssuedFields DEF Past, GeneratorTypes
  <2>3. \A p \in Processes : drawn[p] # None =>
          drawn[p].era # stepBacks' /\ drawn[p].era <= stepBacks'
    BY <2>1 DEF UnderWay, GeneratorTypes, Calls
  <2>4. Past' /\ Expired' /\ Counted'
    BY <1>1, <2>2 DEF Past, Expired, Counted
  <2>5. UnderWay'
    BY <1>1, <2>3 DEF UnderWay
  <2> QED
    BY <1>2, <2>1, <2>4, <2>5
<1> QED
  BY <1>3, <1>4

\* The call that reads the clock is ahead of the ids of its session, and the
\* ids of others with a worker id it holds are of earlier milliseconds.
LEMMA ReadClockInv ==
  ASSUME LInv, CInv, NEW p \in Processes, ReadClock(p)
  PROVE  CInv'
<1> USE RegistryAssumption, ClusterAssumption DEF CInv, LInv, TInv
<1> DEFINE d == [session |-> session[p],
                 held |-> {w \in Ids : node[w] = session[p]},
                 era |-> stepBacks]
<1>1. /\ UNCHANGED <<opened, live, node, alive, session, clock, stepBacks,
                     serving, issued>>
      /\ lastTimestamp' = [lastTimestamp EXCEPT ![p] = clock]
      /\ drawn' = [drawn EXCEPT ![p] = d]
      /\ serving[p] /\ alive[p]
  BY DEF ReadClock, Serves, vars, zookeeper, jvm
<1>2. session[p] \in Sessions /\ session[p] \in 1 .. opened
  BY <1>1 DEF Living, JvmTypes, ServerTypes, Sessions
<1>3. /\ sequence' \in [Processes -> 0 .. SequenceSize - 1]
      /\ \A q \in Processes : q # p => sequence'[q] = sequence[q]
      /\ \/ clock = lastTimestamp[p] /\ sequence'[p] = sequence[p] + 1
         \/ clock > lastTimestamp[p]
  <2>1. sequence[p] \in 0 .. SequenceSize - 1
    BY DEF GeneratorTypes
  <2>2. CASE /\ clock = lastTimestamp[p]
             /\ NextSequence(sequence[p]) # 0
             /\ sequence' = [sequence EXCEPT ![p] = NextSequence(sequence[p])]
    <3>1. NextSequence(sequence[p]) = sequence[p] + 1
      <4>1. CASE sequence[p] + 1 < SequenceSize
        BY <2>1, <4>1 DEF NextSequence
      <4>2. CASE sequence[p] + 1 = SequenceSize
        BY <2>2, <4>2 DEF NextSequence
      <4> QED
        BY <2>1, <4>1, <4>2
    <3>2. sequence[p] + 1 \in 0 .. SequenceSize - 1
      BY <2>1, <2>2, <3>1 DEF NextSequence
    <3> QED
      BY <2>2, <3>1, <3>2 DEF GeneratorTypes
  <2>3. ASSUME NEW s \in StartSequences \cup ({0} \cap {NextSequence(sequence[p])}),
               clock > lastTimestamp[p],
               sequence' = [sequence EXCEPT ![p] = s]
        PROVE  /\ sequence' \in [Processes -> 0 .. SequenceSize - 1]
               /\ \A q \in Processes : q # p => sequence'[q] = sequence[q]
    <3>1. s \in 0 .. SequenceSize - 1
      OBVIOUS
    <3> QED
      BY <2>3, <3>1 DEF GeneratorTypes
  <2> QED
    BY <2>2, <2>3 DEF ReadClock
<1>4. d \in Calls /\ clock \in 0 .. MaxClock
  <2>1. stepBacks \in 0 .. MaxStepBacks /\ clock \in 0 .. MaxClock
    BY DEF GeneratorTypes
  <2>2. d \in Calls
    BY <1>2, <2>1 DEF Calls
  <2> QED
    BY <2>1, <2>2
<1>5. /\ d.session = session[p] /\ d.era = stepBacks
      /\ \A w \in Ids : w \in d.held => node[w] = session[p]
  OBVIOUS
<1> HIDE DEF d
<1>6. /\ drawn'[p] = d /\ lastTimestamp'[p] = clock
      /\ \A q \in Processes : q # p =>
           drawn'[q] = drawn[q] /\ lastTimestamp'[q] = lastTimestamp[q]
  BY <1>1 DEF GeneratorTypes
<1>7. GeneratorTypes'
  <2>1. lastTimestamp' \in [Processes -> -1 .. MaxClock]
    BY <1>1, <1>4 DEF GeneratorTypes
  <2>2. drawn' \in [Processes -> Calls \cup {None}]
    BY <1>1, <1>4 DEF GeneratorTypes
  <2> QED
    BY <1>1, <1>3, <2>1, <2>2 DEF GeneratorTypes
<1>8. Serves' /\ Past' /\ Expired' /\ Held' /\ UniqueWhileEntitled'
  BY <1>1 DEF Serves, Past, Expired, Held, UniqueWhileEntitled
<1>9. ASSUME NEW i \in 1 .. Len(issued), issued[i].era = stepBacks,
             issued[i].session = session[p]
      PROVE  \/ issued[i].id.time < clock
             \/ /\ issued[i].id.time = clock
                /\ issued[i].id.sequence < sequence'[p]
  <2>1. \/ issued[i].id.time < lastTimestamp[p]
        \/ /\ issued[i].id.time = lastTimestamp[p]
           /\ issued[i].id.sequence <= sequence[p]
    BY <1>9 DEF Counted
  <2>2. /\ issued[i].id.time \in Nat /\ issued[i].id.sequence \in Nat
        /\ lastTimestamp[p] \in Int /\ sequence[p] \in Int /\ clock \in Int
    BY IssuedFields DEF GeneratorTypes
  <2>3. CASE clock = lastTimestamp[p] /\ sequence'[p] = sequence[p] + 1
    BY <2>1, <2>2, <2>3
  <2>4. CASE clock > lastTimestamp[p]
    BY <2>1, <2>2, <2>4
  <2> QED
    BY <1>3, <2>3, <2>4
<1>10. Counted'
  <2> SUFFICES ASSUME NEW i \in 1 .. Len(issued), NEW q \in Processes,
                      issued[i].era = stepBacks, issued[i].session = session[q]
               PROVE  \/ issued[i].id.time < lastTimestamp'[q]
                      \/ /\ issued[i].id.time = lastTimestamp'[q]
                         /\ issued[i].id.sequence <= sequence'[q]
    BY <1>1 DEF Counted
  <2>1. CASE q = p
    <3>1. issued[i].id.sequence \in Int /\ sequence'[p] \in Int
      BY <1>3, IssuedFields
    <3> QED
      BY <1>6, <1>9, <2>1, <3>1
  <2>2. CASE q # p
    BY <1>3, <1>6, <2>2 DEF Counted
  <2> QED
    BY <2>1, <2>2
<1>11. HeldSince'
  BY <1>1, <1>5, <1>6 DEF HeldSince, StillHolds
<1>12. Ahead'
  <2> SUFFICES ASSUME NEW q \in Processes, NEW i \in 1 .. Len(issued),
                      StillHolds(q, issued[i].id.worker)', issued[i].entitled,
                      issued[i].era = drawn'[q].era
               PROVE  \/ issued[i].id.time < lastTimestamp'[q]
                      \/ /\ issued[i].id.time = lastTimestamp'[q]
                         /\ issued[i].id.sequence < sequence'[q]
    BY <1>1 DEF Ahead, StillHolds
  <2>1. CASE q = p
    <3>1. /\ issued[i].era = stepBacks /\ session[p] \in live
          /\ issued[i].id.worker \in d.held
      BY <1>1, <1>5, <1>6, <2>1 DEF StillHolds
    <3>2. issued[i].id.worker \in Ids
      BY <1>4, <3>1 DEF Calls
    <3>3. node[issued[i].id.worker] = session[p]
      BY <1>5, <3>1, <3>2
    <3>4. CASE issued[i].session \in live
      <4>1. issued[i].session = session[p]
        BY <3>3, <3>4 DEF Held
      <4> QED
        BY <1>6, <1>9, <2>1, <3>1, <4>1
    <3>5. CASE issued[i].session \notin live
      BY <1>6, <2>1, <3>1, <3>5 DEF Expired
    <3> QED
      BY <3>4, <3>5
  <2>2. CASE q # p
    <3>1. StillHolds(q, issued[i].id.worker)
      BY <1>1, <1>6, <2>2 DEF StillHolds
    <3> QED
      BY <1>3, <1>6, <2>2, <3>1 DEF Ahead
  <2> QED
    BY <2>1, <2>2
<1>13. UnderWay'
  <2> SUFFICES ASSUME NEW q \in Processes, drawn'[q] # None
               PROVE  /\ serving[q]
                      /\ lastTimestamp'[q] >= 0
                      /\ drawn'[q].session <= opened
                      /\ drawn'[q].era <= stepBacks
                      /\ drawn'[q].era = stepBacks => lastTimestamp'[q] <= clock
    BY <1>1 DEF UnderWay
  <2>1. CASE q = p
    BY <1>1, <1>2, <1>4, <1>5, <1>6, <2>1 DEF GeneratorTypes
  <2>2. CASE q # p
    BY <1>6, <2>2 DEF UnderWay
  <2> QED
    BY <2>1, <2>2
<1> QED
  BY <1>7, <1>8, <1>10, <1>11, <1>12, <1>13

\* The id that is composed is behind no call that is still under way, for no
\* other process holds the node of its worker id.
LEMMA ComposeInv ==
  ASSUME LInv, CInv, NEW p \in Processes, Compose(p)
  PROVE  CInv'
<1> USE RegistryAssumption, ClusterAssumption DEF CInv, LInv, TInv
<1> DEFINE n == Len(issued)
           id == [time |-> lastTimestamp[p], business |-> 0,
                  worker |-> workerId[p], sequence |-> sequence[p]]
           b == [id |-> id, session |-> session[p], entitled |-> Entitled(p),
                 era |-> drawn[p].era]
<1>1. /\ UNCHANGED <<opened, live, node, alive, session, clock, stepBacks,
                     serving, sequence, lastTimestamp>>
      /\ issued' = Append(issued, b)
      /\ drawn' = [drawn EXCEPT ![p] = None]
      /\ drawn[p] # None
  BY DEF Compose, vars, zookeeper, jvm
<1>2. /\ serving[p] /\ alive[p] /\ Ids # {}
      /\ drawn[p] \in Calls /\ drawn[p].era \in 0 .. MaxStepBacks
      /\ lastTimestamp[p] \in 0 .. MaxClock
  BY <1>1 DEF UnderWay, Serves, GeneratorTypes, Calls
<1>3. workerId[p] \in Ids /\ workerId[p] \in 0 .. MAX_WORKER_ID
  <2>1. workerId[p] \in Ids \cup {0}
    BY DEF JvmTypes
  <2> QED
    BY <1>2, <2>1 DEF Ids, WORKER_ID_MAX_VALUE, MAX_WORKER_ID
<1>4. session[p] \in Sessions /\ session[p] \in 1 .. opened
  BY <1>2 DEF Living, JvmTypes, ServerTypes, Sessions
<1>5. id \in Id
  <2>1. sequence[p] \in 0 .. SequenceSize - 1
    BY DEF GeneratorTypes
  <2> QED
    BY <1>2, <1>3, <2>1 DEF Id, MAX_BUSINESS_ID
<1>6. id.time = lastTimestamp[p] /\ id.worker = workerId[p]
      /\ id.sequence = sequence[p]
  OBVIOUS
<1> HIDE DEF id
<1>7. b \in Issued
  <2>1. Entitled(p) \in BOOLEAN
    BY DEF Entitled
  <2> QED
    BY <1>2, <1>4, <1>5, <2>1 DEF Issued
<1>8. /\ b.id = id /\ b.session = session[p] /\ b.era = drawn[p].era
      /\ b.entitled = Entitled(p)
  OBVIOUS
<1> HIDE DEF b
<1>9. /\ n \in Nat /\ Len(issued') = n + 1 /\ issued' \in Seq(Issued)
      /\ \A i \in 1 .. n : issued'[i] = issued[i]
      /\ issued'[n + 1] = b
      /\ \A i \in 1 .. n + 1 : i \in 1 .. n \/ i = n + 1
  BY <1>1, <1>7 DEF GeneratorTypes
<1> HIDE DEF n
<1>10. b.entitled => /\ session[p] \in live /\ StillHolds(p, workerId[p])
                     /\ node[workerId[p]] = session[p]
  <2>1. node[workerId[p]] \in live \cup {0} /\ session[p] # 0
    BY <1>3, <1>4 DEF ServerTypes
  <2> QED
    BY <1>1, <1>8, <2>1 DEF Entitled, StillHolds
<1>11. /\ drawn'[p] = None
       /\ \A q \in Processes : q # p => drawn'[q] = drawn[q]
  BY <1>1 DEF GeneratorTypes
<1>12. GeneratorTypes'
  <2>1. drawn' \in [Processes -> Calls \cup {None}]
    BY <1>1 DEF GeneratorTypes
  <2> QED
    BY <1>1, <1>9, <2>1 DEF GeneratorTypes
<1>13. Serves'
  BY <1>1 DEF Serves
<1>14. Past'
  <2>1. /\ b.session <= opened /\ b.era <= stepBacks
        /\ b.era = stepBacks => b.id.time <= clock
    BY <1>1, <1>4, <1>6, <1>8 DEF UnderWay
  <2> QED
    BY <1>1, <1>9, <2>1 DEF Past, n
<1>15. Expired'
  BY <1>1, <1>8, <1>9, <1>10 DEF Expired, n
<1>16. Held'
  <2>1. b.entitled => b.id.worker \in Ids /\ node[b.id.worker] = b.session
    BY <1>3, <1>6, <1>8, <1>10
  <2> QED
    BY <1>1, <1>9, <2>1 DEF Held, n
<1>17. Counted'
  <2> SUFFICES ASSUME NEW i \in 1 .. n + 1, NEW q \in Processes,
                      issued'[i].era = stepBacks,
                      issued'[i].session = session[q]
               PROVE  \/ issued'[i].id.time < lastTimestamp[q]
                      \/ /\ issued'[i].id.time = lastTimestamp[q]
                         /\ issued'[i].id.sequence <= sequence[q]
    BY <1>1, <1>9 DEF Counted
  <2>1. CASE i \in 1 .. n
    BY <1>9, <2>1 DEF Counted, n
  <2>2. CASE i = n + 1
    <3>1. q = p
      BY <1>4, <1>8, <1>9, <2>2 DEF OneSession
    <3>2. sequence[p] \in Int
      BY DEF GeneratorTypes
    <3> QED
      BY <1>6, <1>8, <1>9, <2>2, <3>1, <3>2
  <2> QED
    BY <1>9, <2>1, <2>2
<1>18. HeldSince'
  BY <1>1, <1>11 DEF HeldSince, StillHolds
<1>19. Ahead'
  <2> SUFFICES ASSUME NEW q \in Processes, NEW i \in 1 .. n + 1,
                      StillHolds(q, issued[i].id.worker)',
                      issued'[i].entitled, issued'[i].era = drawn'[q].era
               PROVE  \/ issued'[i].id.time < lastTimestamp[q]
                      \/ /\ issued'[i].id.time = lastTimestamp[q]
                         /\ issued'[i].id.sequence < sequence[q]
    BY <1>1, <1>9 DEF Ahead, StillHolds
  <2>1. /\ q # p /\ drawn'[q] = drawn[q]
        /\ StillHolds(q, issued'[i].id.worker)
    BY <1>1, <1>11 DEF StillHolds
  <2>2. CASE i \in 1 .. n
    BY <1>9, <2>1, <2>2 DEF Ahead, n
  <2>3. CASE i = n + 1
    <3>1. /\ b.entitled /\ node[workerId[p]] = session[p]
          /\ StillHolds(q, workerId[p])
      BY <1>6, <1>8, <1>9, <1>10, <2>1, <2>3
    <3>2. session[q] = session[p]
      BY <1>3, <3>1 DEF HeldSince
    <3> QED
      BY <1>4, <2>1, <3>2 DEF OneSession
  <2> QED
    BY <1>9, <2>2, <2>3
<1>20. UnderWay'
  BY <1>1, <1>11 DEF UnderWay
<1>21. ASSUME NEW i \in 1 .. n, issued[i].entitled, b.entitled,
              issued[i].era = b.era, Long(issued[i].id) = Long(b.id)
       PROVE  FALSE
  <2>1. issued[i].id \in Id
    BY IssuedFields DEF n
  <2>2. issued[i].id = id
    BY <1>5, <1>8, <1>21, <2>1, LongDetermines
  <2>3. StillHolds(p, issued[i].id.worker)
    BY <1>6, <1>10, <1>21, <2>2
  <2>4. \/ issued[i].id.time < lastTimestamp[p]
        \/ /\ issued[i].id.time = lastTimestamp[p]
           /\ issued[i].id.sequence < sequence[p]
    BY <1>8, <1>21, <2>3 DEF Ahead, n
  <2>5. lastTimestamp[p] \in Int /\ sequence[p] \in Int
    BY DEF GeneratorTypes
  <2> QED
    BY <1>6, <2>2, <2>4, <2>5
<1>22. UniqueWhileEntitled'
  <2> SUFFICES ASSUME NEW i \in 1 .. n + 1, NEW j \in 1 .. n + 1,
                      issued'[i].entitled, issued'[j].entitled,
                      issued'[i].era = issued'[j].era,
                      Long(issued'[i].id) = Long(issued'[j].id)
               PROVE  i = j
    BY <1>9 DEF UniqueWhileEntitled
  <2>1. CASE i \in 1 .. n /\ j \in 1 .. n
    BY <1>9, <2>1 DEF UniqueWhileEntitled, n
  <2>2. CASE i \in 1 .. n /\ j = n + 1
    BY <1>9, <1>21, <2>2
  <2>3. CASE i = n + 1 /\ j \in 1 .. n
    BY <1>9, <1>21, <2>3
  <2> QED
    BY <1>9, <2>1, <2>2, <2>3
<1> QED
  BY <1>12, <1>13, <1>14, <1>15, <1>16, <1>17, <1>18, <1>19, <1>20, <1>22

LEMMA ClusterInvariance == ClusterSpec => [](LInv /\ CInv)
<1>1. LInv /\ LInv' /\ CInv /\ [ClusterNext]_clusterVars => CInv'
  <2> SUFFICES ASSUME LInv, LInv', CInv, [ClusterNext]_clusterVars
               PROVE  CInv'
    OBVIOUS
  <2>1. CASE UNCHANGED clusterVars
    BY <2>1
    DEF clusterVars, vars, zookeeper, jvm, generator, CInv, GeneratorTypes,
        Serves, Past, Expired, Held, Counted, HeldSince, Ahead, UnderWay,
        StillHolds, UniqueWhileEntitled
  <2> QED
    BY <2>1, RegistryStepInv, SessionExpiresInv, ClockInv, ReadClockInv,
       ComposeInv
    DEF ClusterNext
<1> QED
  BY <1>1, ClusterInitInv, ClusterIsRegistry, Life, PTL DEF ClusterSpec

\* Every field of a generated id fits its bits and the generators' state keeps
\* its ranges, whichever worker id registration leaves in the process.
THEOREM ClusterTypeCorrect == ClusterSpec => []ClusterTypeOK
<1>1. LInv /\ CInv => ClusterTypeOK
  BY TInvIsTypeOK DEF LInv, CInv, GeneratorTypes, ClusterTypeOK
<1> QED
  BY <1>1, ClusterInvariance, PTL

\* Ids generated by processes that hold the node of their worker id are
\* different longs, for any cluster, layout and clock, however registrations
\* stall and sessions expire, between two step backs of the clock.
THEOREM UniqueInCluster == ClusterSpec => []UniqueWhileEntitled
<1>1. CInv => UniqueWhileEntitled
  BY DEF CInv
<1> QED
  BY <1>1, ClusterInvariance, PTL
=============================================================================
