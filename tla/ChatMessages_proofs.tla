-------------------------- MODULE ChatMessages_proofs --------------------------
(***************************************************************************)
(* Proofs about ChatServer and ChatMessages, for any channels, users,      *)
(* logins, messages and restarts.                                          *)
(***************************************************************************)
EXTENDS ChatMessages, FiniteSetTheorems, TLAPS

(***************************************************************************)
(* The connections: who runs which handler, and that only a WebSocket is   *)
(* ever registered for a user or asked to close.                           *)
(***************************************************************************)
Handlers ==
  \A c \in Channels :
    /\ link[c] = "new" => pc[c] = "idle" /\ accounts[c] = {}
    /\ pc[c] \in {"check", "handshake"} => link[c] = "active"
    /\ pc[c] \in {"kick", "activate", "register"}
         => user[c] \in Users /\ link[c] \in {"websocket", "closed"}
    /\ pc[c] \notin {"kick", "activate", "register"} => user[c] = None

Registered == group \cup closing \subseteq {c \in hall : link[c] = "websocket"}

ServerInv == TypeOK /\ Handlers /\ Registered

(***************************************************************************)
(* The connections of a user: the one it is registered with and, for each  *)
(* login that began during another, one more.                              *)
(***************************************************************************)
\* u is logged in on c, which stays open.
LoggedIn(c, u) == c \in hall \ closing /\ u \in accounts[c]

\* Who has been logged in is active, and registered in the group.
Entered ==
  /\ \A c \in Channels : \A u \in accounts[c] : isActive[u]
  /\ \A c \in Channels : pc[c] = "register" => isActive[user[c]]
  /\ \A u \in Users, c \in Channels : LoggedIn(c, u) => c \in group

\* The logins of u that have kicked who was there.
Entering(u) == {c \in Running(u) : pc[c] \in {"activate", "register"}}

\* The connections of u that a kick will miss.
Missed(u) == Connections(u) \ {userChannel[u]}

\* A login of u will leave the connections it misses and its own, and one that
\* has kicked will add its own to all there are.
BoundedFor(u) ==
  /\ IsFiniteSet(Connections(u)) /\ IsFiniteSet(Running(u))
  /\ Cardinality(Missed(u)) <= overlaps[u]
  /\ Cardinality(Missed(u)) + Cardinality(Running(u)) <= 1 + overlaps[u]
  /\ Cardinality(Connections(u)) + Cardinality(Entering(u)) <= 1 + overlaps[u]

LoginInv == Entered /\ \A u \in Users : BoundedFor(u)

(***************************************************************************)
(* The queues: a message is one its sender has begun to route, tasks are   *)
(* for open channels, and a close is behind its notice.                    *)
(***************************************************************************)
Sending(c) == step[c] \in {"file", "route", "log"}

Senders ==
  \A c \in Channels :
    /\ Sending(c) => link[c] = "websocket" /\ pc[c] = "idle"
    /\ step[c] \in {"route", "log"} => Len(audience[c]) > 0
    /\ Len(audience[c]) <= messages
    /\ step[c] = "file" => Len(audience[c]) < messages
    /\ \A n \in 1 .. Len(audience[c]) : \A d \in audience[c][n] :
         link[d] \in {"websocket", "closed"}

QueuesTyped ==
  /\ tasks \in [Channels -> Seq(Message \cup {Notice, CloseTask})]
  /\ received \in [Channels -> Seq(Message \cup {Notice})]
  /\ \A c \in Channels : link[c] \in {"new", "closed"} => tasks[c] = <<>>
  /\ \A c \in Channels : link[c] = "new" => received[c] = <<>>

SendersTyped ==
  /\ step \in [Channels -> {"none", "file", "route", "log"}]
  /\ todo \in [Channels -> SUBSET Channels]
  /\ audience \in [Channels -> Seq(SUBSET Channels)]
  /\ messages \in 0 .. MaxMessages

StorageTyped ==
  /\ files \subseteq Message
  /\ log \in Seq(Message)
  /\ faults \in 0 .. MaxFaults

ToldIn(c) ==
  \A i \in 1 .. Len(tasks[c]) :
    tasks[c][i] = CloseTask =>
      /\ link[c] = "websocket"
      /\ \/ Notice \in ToSet(received[c])
         \/ \E j \in 1 .. i - 1 : tasks[c][j] = Notice

Told == \A c \in Channels : ToldIn(c)

(***************************************************************************)
(* What a channel has or will have: each sender's messages in the order    *)
(* they were sent, and all of a sender's that are due to it but the one    *)
(* that is being written.                                                  *)
(***************************************************************************)
Have(d) == ToSet(received[d]) \cup ToSet(tasks[d])

Precedes(l, m) ==
  l \in Message /\ m \in Message /\ l.from = m.from => l.n < m.n

Ordered(s) == \A i, j \in DOMAIN s : i < j => Precedes(s[i], s[j])

Before(s, t) == \A i \in DOMAIN s, j \in DOMAIN t : Precedes(s[i], t[j])

QueuedIn(d) ==
  /\ Ordered(received[d]) /\ Ordered(tasks[d])
  /\ Before(received[d], tasks[d])
  /\ \A m \in ToSet(tasks[d]) \cap Message : m.from # d

Queued == \A d \in Channels : QueuedIn(d)

BegunFor(d) ==
  \A m \in Have(d) \cap Message :
    /\ m.n <= Len(audience[m.from])
    /\ step[m.from] = "route" /\ m = Current(m.from) => d \notin todo[m.from]

Begun == \A d \in Channels : BegunFor(d)

SentTo(c, n, d) ==
  \/ link[d] = "closed"
  \/ [from |-> c, n |-> n] \in Have(d)
  \/ step[c] = "route" /\ n = Len(audience[c]) /\ d \in todo[c]

Sent ==
  \A c \in Channels : \A n \in 1 .. Len(audience[c]) : \A d \in audience[c][n] :
    SentTo(c, n, d)

NoGapIn(d) ==
  \A m \in Have(d) \cap Message : \A n \in 1 .. m.n - 1 :
    d \in audience[m.from][n] =>
      /\ [from |-> m.from, n |-> n] \in Have(d)
      /\ m \in ToSet(received[d])
           => [from |-> m.from, n |-> n] \in ToSet(received[d])

NoGap == \A d \in Channels : NoGapIn(d)

(***************************************************************************)
(* The log and the disk.                                                   *)
(***************************************************************************)
\* m has been written to everyone.
Routed(m) ==
  /\ m.n <= Len(audience[m.from])
  /\ m = Current(m.from) => step[m.from] # "route"

Logged == \A i \in DOMAIN log : Routed(log[i])

\* A file is on the disk when its route begins, unless the disk failed.
FileKept(m) ==
  \/ m.n <= Len(audience[m.from]) /\ m \in saved \cup unsaved
  \/ /\ m.n = Len(audience[m.from]) + 1
     /\ step[m.from] = "file" \/ link[m.from] = "closed"

Filed ==
  /\ saved \cup unsaved \subseteq files
  /\ \A c \in Channels : step[c] = "file" => Coming(c) \in files
  /\ \A m \in files : FileKept(m)

Typed == ServerInv /\ QueuesTyped /\ SendersTyped /\ StorageTyped /\ Senders

MessagesInv ==
  /\ Typed
  /\ Told /\ Queued /\ Begun /\ Sent /\ NoGap
  /\ Logged /\ Filed

-----------------------------------------------------------------------------
(* The connections and their handlers.                                     *)

LEMMA ServerSteps ==
  ASSUME [Next]_vars
  PROVE  \/ UNCHANGED vars
         \/ Restart
         \/ \E c \in Channels :
              \/ Connect(c) \/ Disconnect(c)
              \/ NewHandshaker(c) \/ CheckHandshaker(c) \/ Handshake(c)
              \/ Kick(c) \/ Activate(c) \/ Register(c)
              \/ \E u \in Users : Login(c, u)
BY DEF Next, Loop, Client, Handle

LEMMA ServerInitInv == Init => ServerInv
BY ChatAssumption
DEF Init, ServerInv, TypeOK, Handlers, Registered, Labels

LEMMA ServerStepInv == ServerInv /\ [Next]_vars => ServerInv'
<1> SUFFICES ASSUME ServerInv, [Next]_vars PROVE ServerInv'
  OBVIOUS
<1> USE ChatAssumption
    DEF ServerInv, TypeOK, Handlers, Registered, Labels, At, Go,
        handshakes, registry, counters
<1>1. CASE UNCHANGED vars
  BY <1>1 DEF vars
<1>2. CASE Restart
  BY <1>2 DEF Restart
<1>3. ASSUME NEW c \in Channels, Connect(c) PROVE ServerInv'
  BY <1>3 DEF Connect
<1>4. ASSUME NEW c \in Channels, Disconnect(c) PROVE ServerInv'
  BY <1>4 DEF Disconnect, Close
<1>5. ASSUME NEW c \in Channels, NewHandshaker(c) PROVE ServerInv'
  BY <1>5 DEF NewHandshaker
<1>6. ASSUME NEW c \in Channels, CheckHandshaker(c) PROVE ServerInv'
  BY <1>6 DEF CheckHandshaker
<1>7. ASSUME NEW c \in Channels, Handshake(c) PROVE ServerInv'
  BY <1>7 DEF Handshake, Close
<1>8. ASSUME NEW c \in Channels, Kick(c) PROVE ServerInv'
  BY <1>8 DEF Kick, Close, OldChannel
<1>9. ASSUME NEW c \in Channels, Activate(c) PROVE ServerInv'
  BY <1>9 DEF Activate
<1>10. ASSUME NEW c \in Channels, Register(c) PROVE ServerInv'
  BY <1>10 DEF Register
<1>11. ASSUME NEW c \in Channels, NEW u \in Users, Login(c, u)
       PROVE  ServerInv'
  BY <1>11 DEF Login
<1> HIDE DEF ServerInv
<1> QED
  BY <1>1, <1>2, <1>3, <1>4, <1>5, <1>6, <1>7, <1>8, <1>9, <1>10, <1>11,
     ServerSteps

LEMMA ServerTypes == Spec => []ServerInv
BY ServerInitInv, ServerStepInv, PTL DEF Spec

\* The handlers, the registry and the groups of the chat server keep their
\* types, and only an open WebSocket is in the group or asked to close, through
\* logins, disconnects and restarts.
THEOREM ServerTypeCorrect == Spec => []TypeOK
<1>1. ServerInv => TypeOK
  BY DEF ServerInv
<1> QED
  BY <1>1, ServerTypes, PTL

-----------------------------------------------------------------------------
(* Logins.                                                                 *)

LEMMA SubsetSize ==
  ASSUME NEW S, NEW T, IsFiniteSet(T), S \subseteq T
  PROVE  /\ IsFiniteSet(S)
         /\ Cardinality(S) \in Nat /\ Cardinality(T) \in Nat
         /\ Cardinality(S) <= Cardinality(T)
BY FS_Subset, FS_CardinalityType

\* The sets the bound is about are finite.
LEMMA BoundedSizes ==
  ASSUME ServerInv, NEW u \in Users, BoundedFor(u)
  PROVE  /\ Cardinality(Connections(u)) \in Nat
         /\ Cardinality(Missed(u)) \in Nat
         /\ Cardinality(Running(u)) \in Nat
         /\ Cardinality(Entering(u)) \in Nat
         /\ Cardinality(Entering(u)) <= Cardinality(Running(u))
         /\ IsFiniteSet(Missed(u)) /\ IsFiniteSet(Entering(u))
         /\ Cardinality(Connections(u)) <= Cardinality(Missed(u)) + 1
         /\ overlaps[u] \in Nat
<1>1. Missed(u) \subseteq Connections(u) /\ Entering(u) \subseteq Running(u)
  BY DEF Missed, Entering
<1>2. IsFiniteSet(Connections(u)) /\ IsFiniteSet(Running(u))
  BY DEF BoundedFor
<1>3. IsFiniteSet(Missed(u)) /\ Cardinality(Missed(u)) \in Nat
  BY <1>1, <1>2, SubsetSize
<1>4. /\ IsFiniteSet(Missed(u) \cup {userChannel[u]})
      /\ \/ Cardinality(Missed(u) \cup {userChannel[u]})
                = Cardinality(Missed(u)) + 1
         \/ Cardinality(Missed(u) \cup {userChannel[u]})
                = Cardinality(Missed(u))
  BY <1>3, FS_AddElement
<1>5. Connections(u) \subseteq Missed(u) \cup {userChannel[u]}
  BY DEF Missed
<1>6. Cardinality(Connections(u)) <= Cardinality(Missed(u)) + 1
  BY <1>3, <1>4, <1>5, SubsetSize
<1>7. overlaps[u] \in Nat
  BY DEF ServerInv, TypeOK
<1> QED
  BY <1>1, <1>2, <1>3, <1>6, <1>7, SubsetSize

LEMMA LoginInitInv == Init => LoginInv
<1> SUFFICES ASSUME Init PROVE LoginInv
  OBVIOUS
<1>1. Entered
  BY DEF Init, Entered, LoggedIn
<1>2. ASSUME NEW u \in Users PROVE BoundedFor(u)
  <2>1. Connections(u) = {} /\ Missed(u) = {} /\ overlaps[u] = 0
    BY DEF Init, Connections, Missed
  <2>2. Running(u) = {} /\ Entering(u) = {}
    BY ChatAssumption DEF Init, Running, Entering
  <2> QED
    BY <2>1, <2>2, FS_EmptySet DEF BoundedFor
<1> QED
  BY <1>1, <1>2 DEF LoginInv

\* A step that only takes connections and logins of u away.
LEMMA BoundKept ==
  ASSUME ServerInv, NEW u \in Users, BoundedFor(u),
         Connections(u)' \subseteq Connections(u),
         Running(u)' \subseteq Running(u),
         Entering(u)' \subseteq Entering(u),
         userChannel'[u] = userChannel[u], overlaps'[u] = overlaps[u]
  PROVE  BoundedFor(u)'
<1>1. Missed(u)' \subseteq Missed(u)
  BY DEF Missed
<1>2. /\ IsFiniteSet(Connections(u)')
      /\ Cardinality(Connections(u)') \in Nat
      /\ Cardinality(Connections(u)') <= Cardinality(Connections(u))
  BY SubsetSize DEF BoundedFor
<1>3. /\ IsFiniteSet(Running(u)')
      /\ Cardinality(Running(u)') \in Nat
      /\ Cardinality(Running(u)') <= Cardinality(Running(u))
  BY SubsetSize DEF BoundedFor
<1>4. /\ Cardinality(Missed(u)') \in Nat
      /\ Cardinality(Missed(u)') <= Cardinality(Missed(u))
  BY <1>1, SubsetSize, BoundedSizes
<1>5. /\ Cardinality(Entering(u)') \in Nat
      /\ Cardinality(Entering(u)') <= Cardinality(Entering(u))
  BY SubsetSize, BoundedSizes
<1> QED
  BY <1>2, <1>3, <1>4, <1>5, BoundedSizes DEF BoundedFor

\* A step of no login: connections go, and logins with them at most.
LEMMA LoginKept ==
  ASSUME ServerInv, LoginInv, UNCHANGED <<isActive, userChannel, overlaps>>,
         \A c \in Channels :
           /\ accounts'[c] = accounts[c]
           /\ user'[c] # None => user'[c] = user[c]
           /\ pc'[c] \in {"activate", "register"}
                => pc[c] = pc'[c] /\ user'[c] = user[c],
         \A u \in Users, c \in Channels :
           c \in hall' \ closing' /\ u \in accounts[c]
             => c \in hall \ closing /\ (c \in group => c \in group'),
         hall' \subseteq Channels
  PROVE  LoginInv'
<1>1. Entered'
  BY DEF LoginInv, Entered, LoggedIn
<1>2. ASSUME NEW u \in Users PROVE BoundedFor(u)'
  <2>1. Connections(u)' \subseteq Connections(u)
    BY DEF Connections
  <2>2. Running(u)' \subseteq Running(u) /\ Entering(u)' \subseteq Entering(u)
    BY ChatAssumption DEF Running, Entering
  <2>3. userChannel'[u] = userChannel[u] /\ overlaps'[u] = overlaps[u]
    OBVIOUS
  <2>4. BoundedFor(u)
    BY DEF LoginInv
  <2> QED
    BY <2>1, <2>2, <2>3, <2>4, BoundKept
<1> QED
  BY <1>1, <1>2 DEF LoginInv

\* A login may miss what the others have missed, and those that run: alone it
\* misses no more than there were, and otherwise it counts.
LEMMA LoginStarts ==
  ASSUME ServerInv, LoginInv, NEW c \in Channels, NEW u \in Users, Login(c, u)
  PROVE  LoginInv'
<1>1. /\ UNCHANGED <<hall, closing, isActive, accounts, userChannel, group>>
      /\ user' = [user EXCEPT ![c] = u]
      /\ pc' = [pc EXCEPT ![c] = IF isActive[u] THEN "kick" ELSE "activate"]
      /\ overlaps' =
           [overlaps EXCEPT ![u] = IF Running(u) = {} THEN @ ELSE @ + 1]
      /\ user[c] = None
  BY DEF Login, At, Go, registry, ServerInv, Handlers
<1>2. Entered'
  BY <1>1 DEF LoginInv, Entered, LoggedIn, ServerInv, TypeOK
<1>3. \A w \in Users : Connections(w)' = Connections(w) /\ Missed(w)' = Missed(w)
  BY <1>1 DEF Connections, Missed
<1>4. ASSUME NEW w \in Users, w # u PROVE BoundedFor(w)'
  <2>1. Running(w)' \subseteq Running(w) /\ Entering(w)' \subseteq Entering(w)
    BY <1>1, <1>4 DEF Running, Entering, ServerInv, TypeOK
  <2>2. userChannel'[w] = userChannel[w] /\ overlaps'[w] = overlaps[w]
    BY <1>1, <1>4 DEF ServerInv, TypeOK
  <2>3. BoundedFor(w)
    BY DEF LoginInv
  <2> QED
    BY <1>3, <2>1, <2>2, <2>3, BoundKept
<1>5. BoundedFor(u)'
  <2>1. BoundedFor(u)
    BY DEF LoginInv
  <2>2. Running(u)' = Running(u) \cup {c} /\ c \notin Running(u)
    BY <1>1, ChatAssumption DEF Running, ServerInv, TypeOK
  <2>3. /\ IsFiniteSet(Running(u)')
        /\ Cardinality(Running(u)') = Cardinality(Running(u)) + 1
    BY <2>1, <2>2, FS_AddElement DEF BoundedFor
  <2>4. Cardinality(Running(u)) = 0 <=> Running(u) = {}
    BY <2>1, FS_EmptySet DEF BoundedFor
  <2>5. overlaps'[u] = IF Running(u) = {} THEN overlaps[u] ELSE overlaps[u] + 1
    BY <1>1 DEF ServerInv, TypeOK
  <2>6. Cardinality(Missed(u)) + Cardinality(Running(u)') <= 1 + overlaps'[u]
    BY <2>1, <2>3, <2>4, <2>5, BoundedSizes DEF BoundedFor
  <2>7. /\ Cardinality(Missed(u)) <= overlaps'[u]
        /\ overlaps[u] <= overlaps'[u] /\ overlaps'[u] \in Nat
    BY <2>1, <2>5, BoundedSizes DEF BoundedFor
  <2>8. Cardinality(Connections(u)) + Cardinality(Entering(u)')
          <= 1 + overlaps'[u]
    <3>1. CASE isActive[u]
      <4>1. Entering(u)' \subseteq Entering(u)
        BY <1>1, <3>1 DEF Running, Entering, ServerInv, TypeOK
      <4>2. /\ Cardinality(Entering(u)') <= Cardinality(Entering(u))
            /\ Cardinality(Entering(u)') \in Nat
        BY <2>1, <4>1, SubsetSize, BoundedSizes
      <4> QED
        BY <2>1, <2>7, <4>2, BoundedSizes DEF BoundedFor
    <3>2. CASE ~isActive[u]
      <4>1. Connections(u) = {}
        BY <3>2
        DEF LoginInv, Entered, Connections, ServerInv, TypeOK
      <4>2. Cardinality(Connections(u)) = 0
        BY <4>1, FS_EmptySet
      <4>3. Entering(u)' \subseteq Running(u)'
        BY DEF Entering
      <4>4. /\ Cardinality(Entering(u)') <= Cardinality(Running(u)')
            /\ Cardinality(Entering(u)') \in Nat
        BY <2>3, <4>3, SubsetSize
      <4> QED
        BY <2>1, <2>3, <2>6, <2>7, <4>2, <4>4, BoundedSizes
    <3> QED
      BY <3>1, <3>2
  <2>9. IsFiniteSet(Connections(u))
    BY <2>1 DEF BoundedFor
  <2> QED
    BY <1>3, <2>3, <2>6, <2>7, <2>8, <2>9 DEF BoundedFor
<1> QED
  BY <1>2, <1>4, <1>5 DEF LoginInv

\* A kick leaves the connections it misses.
LEMMA KickEnds ==
  ASSUME ServerInv, LoginInv, NEW c \in Channels, Kick(c)
  PROVE  LoginInv'
<1> PICK u \in Users : u = user[c]
  BY DEF Kick, At, ServerInv, Handlers
<1>1. /\ UNCHANGED <<isActive, accounts, userChannel, user, overlaps>>
      /\ pc[c] = "kick" /\ pc' = [pc EXCEPT ![c] = "activate"]
  BY DEF Kick, At, Go, ServerInv, Handlers, counters
<1>2. /\ hall' \ closing' \subseteq hall \ closing
      /\ OldChannel(u) \cap (hall' \ closing') = {}
      /\ \A d \in hall' : d \in group => d \in group'
      /\ hall' \subseteq hall
  BY DEF Kick, Close, OldChannel, ServerInv, TypeOK, Registered
<1>3. Entered'
  BY <1>1, <1>2 DEF LoginInv, Entered, LoggedIn, ServerInv, TypeOK
<1>4. \A w \in Users : /\ Connections(w)' \subseteq Connections(w)
                       /\ Running(w)' = Running(w)
  BY <1>1, <1>2 DEF Connections, Running
<1>5. ASSUME NEW w \in Users, w # u PROVE BoundedFor(w)'
  <2>1. Entering(w)' \subseteq Entering(w)
    BY <1>1, <1>5 DEF Running, Entering, ServerInv, TypeOK
  <2>2. userChannel'[w] = userChannel[w] /\ overlaps'[w] = overlaps[w]
    BY <1>1
  <2>3. BoundedFor(w)
    BY DEF LoginInv
  <2> QED
    BY <1>4, <2>1, <2>2, <2>3, BoundKept
<1>6. BoundedFor(u)'
  <2>1. BoundedFor(u)
    BY <1>1 DEF LoginInv
  <2>2. Connections(u)' \subseteq Missed(u)
    <3>1. \A d \in Connections(u) : d \in group
      BY <1>1 DEF LoginInv, Entered, LoggedIn, Connections, ServerInv, TypeOK
    <3>2. userChannel[u] \notin Connections(u)'
      BY <1>2, <1>4, <1>1, <3>1 DEF OldChannel, Connections
    <3> QED
      BY <1>4, <1>1, <3>2 DEF Missed
  <2>3. /\ IsFiniteSet(Connections(u)')
        /\ Cardinality(Connections(u)') \in Nat
        /\ Cardinality(Connections(u)') <= Cardinality(Missed(u))
    BY <1>1, <2>1, <2>2, SubsetSize, BoundedSizes
  <2>4. Missed(u)' \subseteq Missed(u)
    BY <1>1, <1>4 DEF Missed
  <2>5. /\ Cardinality(Missed(u)') \in Nat
        /\ Cardinality(Missed(u)') <= Cardinality(Missed(u))
    BY <1>1, <2>1, <2>4, SubsetSize, BoundedSizes
  <2>6. Entering(u)' \subseteq Running(u)
    BY <1>1, <1>4 DEF Entering
  <2>7. /\ Cardinality(Entering(u)') \in Nat
        /\ Cardinality(Entering(u)') <= Cardinality(Running(u))
    BY <2>1, <2>6, SubsetSize DEF BoundedFor
  <2>8. Running(u)' = Running(u) /\ overlaps'[u] = overlaps[u]
    BY <1>1, <1>4
  <2> QED
    BY <1>1, <2>1, <2>3, <2>5, <2>7, <2>8, BoundedSizes DEF BoundedFor
<1> QED
  BY <1>3, <1>5, <1>6 DEF LoginInv

LEMMA ActivateEnds ==
  ASSUME ServerInv, LoginInv, NEW c \in Channels, Activate(c)
  PROVE  LoginInv'
<1>1. /\ UNCHANGED <<hall, closing, group, accounts, userChannel, user, overlaps>>
      /\ pc[c] = "activate" /\ pc' = [pc EXCEPT ![c] = "register"]
      /\ user[c] \in Users /\ isActive' = [isActive EXCEPT ![user[c]] = TRUE]
  BY DEF Activate, At, Go, ServerInv, Handlers, registry, counters
<1>2. Entered'
  BY <1>1 DEF LoginInv, Entered, LoggedIn, ServerInv, TypeOK, Handlers
<1>3. ASSUME NEW u \in Users PROVE BoundedFor(u)'
  <2>1. Connections(u)' = Connections(u) /\ Running(u)' = Running(u)
    BY <1>1 DEF Connections, Running
  <2>2. Entering(u)' \subseteq Entering(u)
    BY <1>1 DEF Running, Entering, ServerInv, TypeOK
  <2>3. userChannel'[u] = userChannel[u] /\ overlaps'[u] = overlaps[u]
    BY <1>1
  <2>4. BoundedFor(u)
    BY DEF LoginInv
  <2> QED
    BY <2>1, <2>2, <2>3, <2>4, BoundKept
<1> QED
  BY <1>2, <1>3 DEF LoginInv

\* A registration adds a connection and ends a login; a further kick will miss
\* the connections there were.
LEMMA RegisterEnds ==
  ASSUME ServerInv, LoginInv, NEW c \in Channels, Register(c)
  PROVE  LoginInv'
<1> PICK u \in Users : u = user[c]
  BY DEF Register, At, ServerInv, Handlers
<1>1. /\ UNCHANGED <<hall, closing, isActive, overlaps>>
      /\ pc[c] = "register" /\ pc' = [pc EXCEPT ![c] = "idle"]
      /\ group' = group \cup ({c} \cap hall)
      /\ userChannel' = [userChannel EXCEPT ![u] = c]
      /\ accounts' = IF c \in hall
                     THEN [accounts EXCEPT ![c] = @ \cup {u}] ELSE accounts
      /\ user' = [user EXCEPT ![c] = None]
  BY DEF Register, At, Go, ServerInv, Handlers, counters
<1>2. isActive[u]
  BY <1>1 DEF LoginInv, Entered
<1>3. \A v \in Users, d \in Channels :
        v \in accounts'[d] => v \in accounts[d] \/ (v = u /\ d = c)
  BY <1>1 DEF ServerInv, TypeOK
<1>4. Entered'
  BY <1>1, <1>2, <1>3 DEF LoginInv, Entered, LoggedIn, ServerInv, TypeOK
<1>5. ASSUME NEW w \in Users, w # u PROVE BoundedFor(w)'
  <2>1. Connections(w)' \subseteq Connections(w)
    BY <1>1, <1>3, <1>5 DEF Connections, ServerInv, TypeOK
  <2>2. Running(w)' \subseteq Running(w) /\ Entering(w)' \subseteq Entering(w)
    BY <1>1, ChatAssumption DEF Running, Entering, ServerInv, TypeOK
  <2>3. userChannel'[w] = userChannel[w] /\ overlaps'[w] = overlaps[w]
    BY <1>1, <1>5 DEF ServerInv, TypeOK
  <2>4. BoundedFor(w)
    BY DEF LoginInv
  <2> QED
    BY <2>1, <2>2, <2>3, <2>4, BoundKept
<1>6. BoundedFor(u)'
  <2>1. BoundedFor(u)
    BY <1>1 DEF LoginInv
  <2>2. c \in Running(u) /\ c \in Entering(u)
    BY <1>1 DEF Running, Entering
  <2>3. /\ Running(u)' = Running(u) \ {c}
        /\ Entering(u)' \subseteq Entering(u) \ {c}
    BY <1>1, ChatAssumption DEF Running, Entering, ServerInv, TypeOK
  <2>4. /\ IsFiniteSet(Running(u)')
        /\ Cardinality(Running(u)') = Cardinality(Running(u)) - 1
    BY <2>1, <2>2, <2>3, FS_RemoveElement DEF BoundedFor
  <2>5. /\ IsFiniteSet(Entering(u) \ {c})
        /\ Cardinality(Entering(u) \ {c}) = Cardinality(Entering(u)) - 1
    BY <1>1, <2>1, <2>2, FS_RemoveElement, BoundedSizes
  <2>6. /\ Cardinality(Entering(u)') \in Nat
        /\ Cardinality(Entering(u)') <= Cardinality(Entering(u)) - 1
    BY <2>3, <2>5, SubsetSize
  <2>7. Connections(u)' \subseteq Connections(u) \cup {c}
    BY <1>1, <1>3 DEF Connections, ServerInv, TypeOK
  <2>8. /\ IsFiniteSet(Connections(u) \cup {c})
        /\ \/ Cardinality(Connections(u) \cup {c})
                  = Cardinality(Connections(u)) + 1
           \/ Cardinality(Connections(u) \cup {c})
                  = Cardinality(Connections(u))
    BY <2>1, FS_AddElement DEF BoundedFor
  <2>9. /\ IsFiniteSet(Connections(u)')
        /\ Cardinality(Connections(u)') \in Nat
        /\ Cardinality(Connections(u)')
             <= Cardinality(Connections(u) \cup {c})
    BY <2>7, <2>8, SubsetSize
  <2>10. userChannel'[u] = c
    BY <1>1 DEF ServerInv, TypeOK
  <2>11. Missed(u)' \subseteq Connections(u)
    BY <2>7, <2>10 DEF Missed
  <2>12. /\ Cardinality(Missed(u)') \in Nat
         /\ Cardinality(Missed(u)') <= Cardinality(Connections(u))
    BY <2>1, <2>11, SubsetSize DEF BoundedFor
  <2>13. overlaps'[u] = overlaps[u]
    BY <1>1
  <2>14. Cardinality(Missed(u)') <= overlaps'[u]
    BY <1>1, <2>1, <2>6, <2>12, <2>13, BoundedSizes DEF BoundedFor
  <2>15. Cardinality(Missed(u)') + Cardinality(Running(u)') <= 1 + overlaps'[u]
    BY <1>1, <2>1, <2>4, <2>12, <2>13, BoundedSizes DEF BoundedFor
  <2>16. Cardinality(Connections(u)') + Cardinality(Entering(u)')
           <= 1 + overlaps'[u]
    BY <1>1, <2>1, <2>6, <2>8, <2>9, <2>13, BoundedSizes DEF BoundedFor
  <2> QED
    BY <2>4, <2>9, <2>14, <2>15, <2>16 DEF BoundedFor
<1> QED
  BY <1>4, <1>5, <1>6 DEF LoginInv

LEMMA LoginStepInv == ServerInv /\ LoginInv /\ [Next]_vars => LoginInv'
<1> SUFFICES ASSUME ServerInv, LoginInv, [Next]_vars PROVE LoginInv'
  OBVIOUS
<1>0. hall' \subseteq Channels
  BY ServerStepInv DEF ServerInv, TypeOK
<1> USE DEF At, Go, handshakes, registry, counters
<1>1. CASE UNCHANGED vars
  BY <1>0, <1>1, LoginKept DEF vars
<1>2. CASE Restart
  <2>1. \A c \in Channels : user'[c] = None /\ pc'[c] = "idle"
    BY <1>2 DEF Restart
  <2>2. /\ hall' = {} /\ UNCHANGED <<isActive, accounts>>
        /\ overlaps' = [u \in Users |-> 0]
    BY <1>2 DEF Restart
  <2>3. Entered'
    BY <2>1, <2>2 DEF LoginInv, Entered, LoggedIn
  <2>4. ASSUME NEW u \in Users PROVE BoundedFor(u)'
    <3>1. Connections(u)' = {} /\ Missed(u)' = {} /\ overlaps'[u] = 0
      BY <2>2 DEF Connections, Missed
    <3>2. Running(u)' = {} /\ Entering(u)' = {}
      BY <2>1, ChatAssumption DEF Running, Entering
    <3> QED
      BY <3>1, <3>2, FS_EmptySet DEF BoundedFor
  <2> QED
    BY <2>3, <2>4 DEF LoginInv
<1>3. ASSUME NEW c \in Channels, Connect(c) PROVE LoginInv'
  <2>1. accounts[c] = {}
    BY <1>3 DEF Connect, ServerInv, Handlers
  <2> QED
    BY <1>0, <1>3, <2>1, LoginKept DEF Connect
<1>4. ASSUME NEW c \in Channels, Disconnect(c) PROVE LoginInv'
  BY <1>0, <1>4, LoginKept DEF Disconnect, Close
<1>5. ASSUME NEW c \in Channels, NewHandshaker(c) \/ CheckHandshaker(c)
      PROVE  LoginInv'
  BY <1>0, <1>5, LoginKept DEF NewHandshaker, CheckHandshaker, ServerInv, TypeOK
<1>6. ASSUME NEW c \in Channels, Handshake(c) PROVE LoginInv'
  BY <1>0, <1>6, LoginKept DEF Handshake, Close, ServerInv, TypeOK
<1> QED
  BY <1>1, <1>2, <1>3, <1>4, <1>5, <1>6, ServerSteps, LoginStarts, KickEnds,
     ActivateEnds, RegisterEnds

LEMMA Logins == Spec => [](ServerInv /\ LoginInv)
BY ServerInitInv, ServerStepInv, LoginInitInv, LoginStepInv, PTL DEF Spec

LEMMA FewAreLoggedIn == ServerInv /\ LoginInv => OneConnection
<1> SUFFICES ASSUME ServerInv, LoginInv, NEW u \in Users
             PROVE  Cardinality(Connections(u)) <= 1 + overlaps[u]
  BY DEF OneConnection
<1>1. BoundedFor(u)
  BY DEF LoginInv
<1> QED
  BY <1>1, BoundedSizes DEF BoundedFor

\* Whatever users, connections and restarts there are, a user is logged in on
\* one connection at most and, for each of its logins that began during
\* another, on one more: what overlapping logins leave is not added to by
\* those that do not overlap.
THEOREM AtMostOneConnection == Spec => []OneConnection
BY Logins, FewAreLoggedIn, PTL

-----------------------------------------------------------------------------
(* Sequences.                                                              *)

LEMMA Elements ==
  ASSUME NEW S, NEW s \in Seq(S)
  PROVE  /\ Len(s) \in Nat /\ DOMAIN s = 1 .. Len(s)
         /\ \A i \in 1 .. Len(s) : s[i] \in S
         /\ \A x : x \in ToSet(s) <=> \E i \in 1 .. Len(s) : s[i] = x
         /\ ToSet(s) \subseteq S
BY DEF ToSet

LEMMA NoElements == DOMAIN <<>> = {} /\ ToSet(<<>>) = {}
BY DEF ToSet

LEMMA Appended ==
  ASSUME NEW S, NEW s \in Seq(S), NEW x \in S
  PROVE  /\ Append(s, x) \in Seq(S) /\ Len(Append(s, x)) = Len(s) + 1
         /\ \A i \in 1 .. Len(s) : Append(s, x)[i] = s[i]
         /\ Append(s, x)[Len(s) + 1] = x
         /\ ToSet(Append(s, x)) = ToSet(s) \cup {x}
<1>1. /\ Append(s, x) \in Seq(S) /\ Len(Append(s, x)) = Len(s) + 1
      /\ \A i \in 1 .. Len(s) : Append(s, x)[i] = s[i]
      /\ Append(s, x)[Len(s) + 1] = x
  OBVIOUS
<1>2. ASSUME NEW y PROVE y \in ToSet(Append(s, x)) <=> y \in ToSet(s) \cup {x}
  <2>1. Len(s) \in Nat
    BY Elements
  <2>2. y \in ToSet(Append(s, x))
          <=> \E i \in 1 .. Len(s) + 1 : Append(s, x)[i] = y
    <3> DEFINE t == Append(s, x)
    <3>1. t \in Seq(S) /\ Len(t) = Len(s) + 1
      BY <1>1
    <3> HIDE DEF t
    <3>2. y \in ToSet(t) <=> \E i \in 1 .. Len(t) : t[i] = y
      BY <3>1, Elements
    <3> QED
      BY <3>1, <3>2 DEF t
  <2>3. y \in ToSet(s) <=> \E i \in 1 .. Len(s) : s[i] = y
    BY Elements
  <2>4. \A i \in 1 .. Len(s) + 1 : i \in 1 .. Len(s) \/ i = Len(s) + 1
    BY <2>1
  <2>5. \A i \in 1 .. Len(s) : i \in 1 .. Len(s) + 1
    BY <2>1
  <2>6. Len(s) + 1 \in 1 .. Len(s) + 1
    BY <2>1
  <2> QED
    BY <1>1, <2>2, <2>3, <2>4, <2>5, <2>6
<1> QED
  BY <1>1, <1>2

LEMMA Shortened ==
  ASSUME NEW S, NEW s \in Seq(S), s # <<>>
  PROVE  /\ Head(s) \in S /\ Head(s) = s[1] /\ 1 \in 1 .. Len(s)
         /\ Tail(s) \in Seq(S) /\ Len(Tail(s)) = Len(s) - 1
         /\ \A i \in 1 .. Len(s) - 1 :
              i + 1 \in 1 .. Len(s) /\ Tail(s)[i] = s[i + 1]
         /\ ToSet(s) = {Head(s)} \cup ToSet(Tail(s))
<1>1. /\ Head(s) \in S /\ Head(s) = s[1] /\ 1 \in 1 .. Len(s)
      /\ Tail(s) \in Seq(S) /\ Len(Tail(s)) = Len(s) - 1
      /\ \A i \in 1 .. Len(s) - 1 : Tail(s)[i] = s[i + 1]
  OBVIOUS
<1>2. Len(s) \in Nat
  BY Elements
<1>3. ASSUME NEW y PROVE y \in ToSet(s) <=> y \in {Head(s)} \cup ToSet(Tail(s))
  <2>1. y \in ToSet(s) <=> \E i \in 1 .. Len(s) : s[i] = y
    BY Elements
  <2>2. y \in ToSet(Tail(s)) <=> \E i \in 1 .. Len(s) - 1 : Tail(s)[i] = y
    <3> DEFINE t == Tail(s)
    <3>1. t \in Seq(S) /\ Len(t) = Len(s) - 1
      BY <1>1
    <3> HIDE DEF t
    <3>2. y \in ToSet(t) <=> \E i \in 1 .. Len(t) : t[i] = y
      BY <3>1, Elements
    <3> QED
      BY <3>1, <3>2 DEF t
  <2>3. \A i \in 1 .. Len(s) : i = 1 \/ i - 1 \in 1 .. Len(s) - 1
    BY <1>2
  <2>4. \A i \in 1 .. Len(s) - 1 : i + 1 \in 1 .. Len(s)
    BY <1>2
  <2>5. \A i \in 1 .. Len(s) : i = (i - 1) + 1
    BY <1>2
  <2> QED
    BY <1>1, <2>1, <2>2, <2>3, <2>4, <2>5
<1> QED
  BY <1>1, <1>2, <1>3

\* Sequences of messages in order.
LEMMA OrderedAppended ==
  ASSUME NEW S, NEW s \in Seq(S), NEW x \in S, Ordered(s),
         \A i \in DOMAIN s : Precedes(s[i], x)
  PROVE  Ordered(Append(s, x))
<1>1. /\ Len(s) \in Nat /\ DOMAIN s = 1 .. Len(s)
      /\ DOMAIN Append(s, x) = 1 .. Len(s) + 1
      /\ \A i \in 1 .. Len(s) : Append(s, x)[i] = s[i]
      /\ Append(s, x)[Len(s) + 1] = x
  BY Elements, Appended
<1> SUFFICES ASSUME NEW i \in 1 .. Len(s) + 1, NEW j \in 1 .. Len(s) + 1, i < j
             PROVE  Precedes(Append(s, x)[i], Append(s, x)[j])
  BY <1>1 DEF Ordered
<1>2. i \in 1 .. Len(s) /\ (j \in 1 .. Len(s) \/ j = Len(s) + 1)
  BY <1>1
<1> QED
  BY <1>1, <1>2 DEF Ordered

LEMMA BeforeAppended ==
  ASSUME NEW S, NEW s \in Seq(S), NEW t, NEW x \in S, Before(s, t),
         \A j \in DOMAIN t : Precedes(x, t[j])
  PROVE  Before(Append(s, x), t)
<1>1. /\ Len(s) \in Nat /\ DOMAIN s = 1 .. Len(s)
      /\ DOMAIN Append(s, x) = 1 .. Len(s) + 1
      /\ \A i \in 1 .. Len(s) : Append(s, x)[i] = s[i]
      /\ Append(s, x)[Len(s) + 1] = x
  BY Elements, Appended
<1>2. \A i \in 1 .. Len(s) + 1 : i \in 1 .. Len(s) \/ i = Len(s) + 1
  BY <1>1
<1> QED
  BY <1>1, <1>2 DEF Before

LEMMA AppendedBefore ==
  ASSUME NEW S, NEW s, NEW t \in Seq(S), NEW x \in S, Before(s, t),
         \A i \in DOMAIN s : Precedes(s[i], x)
  PROVE  Before(s, Append(t, x))
<1>1. /\ Len(t) \in Nat /\ DOMAIN t = 1 .. Len(t)
      /\ DOMAIN Append(t, x) = 1 .. Len(t) + 1
      /\ \A i \in 1 .. Len(t) : Append(t, x)[i] = t[i]
      /\ Append(t, x)[Len(t) + 1] = x
  BY Elements, Appended
<1>2. \A i \in 1 .. Len(t) + 1 : i \in 1 .. Len(t) \/ i = Len(t) + 1
  BY <1>1
<1> QED
  BY <1>1, <1>2 DEF Before

LEMMA TailOrdered ==
  ASSUME NEW S, NEW s, NEW t \in Seq(S), t # <<>>, Ordered(t), Before(s, t)
  PROVE  /\ Ordered(Tail(t)) /\ Before(s, Tail(t))
         /\ \A i \in DOMAIN Tail(t) : Precedes(Head(t), Tail(t)[i])
         /\ \A i \in DOMAIN s : Precedes(s[i], Head(t))
<1>1. /\ Len(t) \in Nat /\ DOMAIN t = 1 .. Len(t) /\ Head(t) = t[1]
      /\ 1 \in 1 .. Len(t) /\ DOMAIN Tail(t) = 1 .. Len(t) - 1
      /\ \A i \in 1 .. Len(t) - 1 :
           i + 1 \in 1 .. Len(t) /\ Tail(t)[i] = t[i + 1]
  BY Elements, Shortened
<1>2. \A i \in DOMAIN Tail(t) : 1 < i + 1
  BY <1>1
<1>3. \A i, j \in DOMAIN Tail(t) : i < j => i + 1 < j + 1
  BY <1>1
<1> QED
  BY <1>1, <1>2, <1>3 DEF Ordered, Before

-----------------------------------------------------------------------------
(* The steps, and what they do to a connection and to its queue.           *)

LEMMA MessagesSteps ==
  ASSUME [MessagesNext]_allVars
  PROVE  \/ UNCHANGED allVars
         \/ RestartServer
         \/ \E c \in Channels :
              \/ Serve(c) \/ SendText(c) \/ SendFile(c) \/ SaveFile(c)
              \/ EndRoute(c) \/ SaveMessage(c) \/ Write(c) \/ CloseNow(c)
              \/ \E d \in Channels : WriteTo(c, d)
BY DEF MessagesNext, Deliver

\* The handlers of ChatServer run as ChatServer has them.
LEMMA StepsAreServers == [MessagesNext]_allVars => [Next]_vars
<1> SUFFICES ASSUME [MessagesNext]_allVars PROVE [Next]_vars
  OBVIOUS
<1>1. CASE UNCHANGED allVars
  BY <1>1 DEF allVars
<1>2. CASE RestartServer
  BY <1>2 DEF RestartServer, Next
<1>3. ASSUME NEW c \in Channels, Serve(c) PROVE [Next]_vars
  BY <1>3 DEF Serve, Next, Loop
<1>4. ASSUME NEW c \in Channels, CloseNow(c) PROVE [Next]_vars
  BY <1>4 DEF CloseNow, Next, Client
<1>5. ASSUME NEW c \in Channels,
             \/ SendText(c) \/ SendFile(c) \/ SaveFile(c) \/ EndRoute(c)
             \/ SaveMessage(c) \/ Write(c)
             \/ \E d \in Channels : WriteTo(c, d)
      PROVE  [Next]_vars
  BY <1>5
  DEF SendText, SendFile, SaveFile, EndRoute, SaveMessage, Write, WriteTo
<1> QED
  BY <1>1, <1>2, <1>3, <1>4, <1>5, MessagesSteps

\* The server with its queues and messages behaves as ChatServer says: what is
\* proved of that, AtMostOneConnection among it, holds of the handlers of
\* LoginMessageHandler in the midst of texts, files and queued tasks.
THEOREM MessagesAreServer == MessagesSpec => Spec
<1>1. MessagesInit => Init
  BY DEF MessagesInit
<1> QED
  BY <1>1, StepsAreServers, PTL DEF MessagesSpec, Spec

\* A step of the loop of c.
LEMMA LoopMoves ==
  ASSUME ServerInv, NEW c \in Channels, Handle(c) \/ Client(c)
  PROVE  /\ \A d \in Channels \ {c} : link'[d] = link[d] /\ pc'[d] = pc[d]
         /\ link[c] = "closed" => link'[c] = "closed"
         /\ link[c] = "websocket" => link'[c] \in {"websocket", "closed"}
         /\ link'[c] # "new"
         /\ At(c, "kick") /\ c \in OldChannel(user[c]) => link'[c] = "closed"
<1> USE DEF ServerInv, TypeOK, Handlers, Registered, At, Go, Labels
<1>1. CASE Connect(c)
  BY <1>1 DEF Connect
<1>2. CASE Disconnect(c)
  BY <1>2 DEF Disconnect, Close
<1>3. CASE NewHandshaker(c)
  BY <1>3 DEF NewHandshaker
<1>4. CASE CheckHandshaker(c)
  BY <1>4 DEF CheckHandshaker
<1>5. CASE Handshake(c)
  BY <1>5 DEF Handshake, Close
<1>6. CASE Kick(c)
  BY <1>6 DEF Kick, Close, OldChannel
<1>7. CASE Activate(c)
  BY <1>7 DEF Activate
<1>8. CASE Register(c)
  BY <1>8 DEF Register
<1>9. ASSUME NEW u \in Users, Login(c, u)
      PROVE  /\ UNCHANGED link /\ link[c] = "websocket" /\ At(c, "idle")
             /\ \A d \in Channels \ {c} : pc'[d] = pc[d]
  BY <1>9 DEF Login
<1> QED
  BY <1>1, <1>2, <1>3, <1>4, <1>5, <1>6, <1>7, <1>8, <1>9 DEF Handle, Client

\* What becomes of the link of a channel.
LEMMA LinksMove ==
  ASSUME ServerInv, [MessagesNext]_allVars, NEW d \in Channels
  PROVE  /\ link[d] = "closed" => link'[d] = "closed"
         /\ link[d] = "websocket" => link'[d] \in {"websocket", "closed"}
         /\ link'[d] = "new" => link[d] = "new"
<1>1. CASE UNCHANGED allVars
  BY <1>1 DEF allVars, vars
<1>2. CASE RestartServer
  BY <1>2 DEF RestartServer, Restart
<1>3. ASSUME NEW c \in Channels, Serve(c)
      PROVE  /\ link[d] = "closed" => link'[d] = "closed"
             /\ link[d] = "websocket" => link'[d] \in {"websocket", "closed"}
             /\ link'[d] = "new" => link[d] = "new"
  BY <1>3, LoopMoves DEF Serve
<1>4. ASSUME NEW c \in Channels, CloseNow(c)
      PROVE  /\ link[d] = "closed" => link'[d] = "closed"
             /\ link[d] = "websocket" => link'[d] \in {"websocket", "closed"}
             /\ link'[d] = "new" => link[d] = "new"
  BY <1>4, LoopMoves DEF CloseNow, Client
<1>5. ASSUME NEW c \in Channels,
             \/ SendText(c) \/ SendFile(c) \/ SaveFile(c) \/ EndRoute(c)
             \/ SaveMessage(c) \/ Write(c)
             \/ \E e \in Channels : WriteTo(c, e)
      PROVE  UNCHANGED link
  BY <1>5
  DEF SendText, SendFile, SaveFile, EndRoute, SaveMessage, Write, WriteTo, vars
<1> QED
  BY <1>1, <1>2, <1>3, <1>4, <1>5, MessagesSteps

\* What becomes of the queue of a channel: nothing, it is dropped with the
\* channel, the channel is told and to be closed, a task is done or fails, a
\* message of another or of its own is written.
Stays(d) ==
  /\ link'[d] = "closed" => link[d] = "closed"
  /\ tasks'[d] = tasks[d] /\ received'[d] = received[d]

Drops(d) ==
  /\ link'[d] = "closed" /\ tasks'[d] = <<>>
  /\ received'[d] \in {received[d], Append(received[d], Notice)}

Ends(d) ==
  /\ link'[d] = "websocket"
  /\ tasks'[d] = Append(Append(tasks[d], Notice), CloseTask)
  /\ received'[d] = received[d]

Takes(d) ==
  /\ link'[d] = link[d]
  /\ tasks[d] # <<>> /\ Head(tasks[d]) # CloseTask
  /\ tasks'[d] = Tail(tasks[d])
  /\ \/ link[d] = "websocket" /\ received'[d] = Append(received[d], Head(tasks[d]))
     \/ link[d] = "active" /\ received'[d] = received[d]

Queues(d, m) ==
  /\ link'[d] = link[d] /\ link[d] \in {"active", "websocket"}
  /\ tasks'[d] = Append(tasks[d], m)
  /\ received'[d] = received[d]

Reads(d, m) ==
  /\ link'[d] = link[d]
  /\ tasks'[d] = tasks[d]
  /\ received'[d] = Append(received[d], m)

LEMMA Posted ==
  ASSUME ServerInv, ServerInv', QueuesTyped, Post, NEW d \in Channels,
         link[d] = "closed" => link'[d] = "closed",
         link'[d] = "new" => link[d] = "new",
         link'[d] = "closed" \/ received'[d] = received[d],
         received'[d] \in {received[d], Append(received[d], Notice)}
  PROVE  Stays(d) \/ Drops(d) \/ Ends(d)
<1>1. CASE link'[d] = "closed"
  <2>1. d \notin closing'
    BY <1>1 DEF ServerInv, Registered
  <2>2. tasks'[d] = <<>>
    BY <1>1, <2>1 DEF Post
  <2> QED
    BY <1>1, <2>2 DEF Drops
<1>2. CASE d \in closing' \ closing
  <2>1. link'[d] = "websocket"
    BY <1>2 DEF ServerInv, Registered
  <2>2. tasks'[d] = tasks[d] \o <<Notice, CloseTask>>
    BY <1>2, <2>1 DEF Post
  <2>3. tasks[d] \in Seq(Message \cup {Notice, CloseTask})
    BY DEF QueuesTyped
  <2>4. tasks[d] \o <<Notice, CloseTask>>
          = Append(Append(tasks[d], Notice), CloseTask)
    BY <2>3
  <2> QED
    BY <2>1, <2>2, <2>4 DEF Ends
<1>3. CASE link'[d] # "closed" /\ d \notin closing' \ closing
  BY <1>3 DEF Post, Stays
<1> QED
  BY <1>1, <1>2, <1>3

LEMMA QueuesMove ==
  ASSUME ServerInv, ServerInv', QueuesTyped, [MessagesNext]_allVars,
         NEW d \in Channels
  PROVE  \/ Stays(d) \/ Drops(d) \/ Ends(d) \/ Takes(d)
         \/ \E c \in Channels \ {d} : WriteTo(c, d) /\ Queues(d, Current(c))
         \/ WriteTo(d, d) /\ Reads(d, Current(d))
<1>1. /\ link[d] = "closed" => link'[d] = "closed"
      /\ link'[d] = "new" => link[d] = "new"
  BY LinksMove
<1>2. /\ DOMAIN received = Channels /\ DOMAIN tasks = Channels
  BY DEF QueuesTyped
<1>3. CASE UNCHANGED allVars
  BY <1>3 DEF allVars, vars, queues, Stays
<1>4. CASE RestartServer
  BY <1>1, <1>4, Posted DEF RestartServer
<1>5. ASSUME NEW c \in Channels, Serve(c)
      PROVE  Stays(d) \/ Drops(d) \/ Ends(d)
  <2>1. Post /\ Tell(c)
    BY <1>5 DEF Serve
  <2>2. received'[d] \in {received[d], Append(received[d], Notice)}
    BY <1>2, <2>1 DEF Tell
  <2>3. link'[d] = "closed" \/ received'[d] = received[d]
    <3>1. CASE At(c, "kick") /\ c \in OldChannel(user[c]) /\ d = c
      BY <1>5, <3>1, LoopMoves DEF Serve
    <3>2. CASE ~(At(c, "kick") /\ c \in OldChannel(user[c]) /\ d = c)
      BY <1>2, <2>1, <3>2 DEF Tell
    <3> QED
      BY <3>1, <3>2
  <2> QED
    BY <1>1, <2>1, <2>2, <2>3, Posted
<1>6. ASSUME NEW c \in Channels, CloseNow(c)
      PROVE  Stays(d) \/ Drops(d) \/ Ends(d)
  BY <1>1, <1>6, Posted DEF CloseNow
<1>7. ASSUME NEW c \in Channels,
             SendText(c) \/ SendFile(c) \/ SaveFile(c) \/ EndRoute(c)
               \/ SaveMessage(c)
      PROVE  Stays(d)
  BY <1>7
  DEF SendText, SendFile, SaveFile, EndRoute, SaveMessage, queues, vars,
      Stays
<1>8. ASSUME NEW c \in Channels, Write(c) PROVE Stays(d) \/ Takes(d)
  <2>1. /\ Head(tasks[c]) # CloseTask /\ tasks[c] # <<>>
        /\ tasks' = [tasks EXCEPT ![c] = Tail(@)]
        /\ link[c] # "websocket" => UNCHANGED received
        /\ link[c] = "websocket"
             => received' = [received EXCEPT ![c] = Append(@, Head(tasks[c]))]
    BY <1>8 DEF Write, Free, Receive
  <2>2. link[c] \in {"active", "websocket"}
    BY <2>1 DEF QueuesTyped, ServerInv, TypeOK
  <2>3. CASE d = c
    BY <1>2, <1>8, <2>1, <2>2, <2>3 DEF Takes, Write, vars
  <2>4. CASE d # c
    BY <1>2, <1>8, <2>1, <2>4 DEF Stays, Write, vars
  <2> QED
    BY <2>3, <2>4
<1>9. ASSUME NEW c \in Channels, NEW e \in Channels, WriteTo(c, e)
      PROVE  \/ Stays(d)
             \/ c # d /\ WriteTo(c, d) /\ Queues(d, Current(c))
             \/ WriteTo(d, d) /\ Reads(d, Current(d))
  <2>1. CASE e = c /\ d = c
    BY <1>2, <1>9, <2>1 DEF WriteTo, Receive, Reads, vars
  <2>2. CASE e # c /\ d = e /\ d \in hall
    <3>1. link[d] \in {"active", "websocket"}
      BY <2>2 DEF ServerInv, TypeOK
    <3> QED
      BY <1>2, <1>9, <2>2, <3>1 DEF WriteTo, Queues, vars
  <2>3. CASE e # c /\ d = e /\ d \notin hall
    BY <1>9, <2>3 DEF WriteTo, Stays, vars
  <2>4. CASE d # e
    BY <1>2, <1>9, <2>4 DEF WriteTo, Receive, Stays, vars
  <2> QED
    BY <2>1, <2>2, <2>3, <2>4
<1> QED
  BY <1>3, <1>4, <1>5, <1>6, <1>7, <1>8, <1>9, MessagesSteps

-----------------------------------------------------------------------------
(* Types.                                                                  *)

\* The message a channel sends or is about to send is one.
LEMMA CurrentIsMessage ==
  ASSUME SendersTyped, Senders, NEW c \in Channels
  PROVE  /\ step[c] \in {"route", "log"} => Current(c) \in Message
         /\ step[c] = "file" => Coming(c) \in Message
         /\ Len(audience[c]) \in Nat
<1>1. Len(audience[c]) \in Nat
  BY DEF SendersTyped
<1>2. messages \in Nat /\ messages <= MaxMessages
  BY MessagesAssumption DEF SendersTyped
<1>3. /\ step[c] \in {"route", "log"} => Len(audience[c]) > 0
      /\ Len(audience[c]) <= messages
      /\ step[c] = "file" => Len(audience[c]) + 1 <= messages
  BY <1>1, <1>2 DEF Senders
<1>4. /\ step[c] \in {"route", "log"} => Len(audience[c]) \in 1 .. MaxMessages
      /\ step[c] = "file" => Len(audience[c]) + 1 \in 1 .. MaxMessages
  BY <1>1, <1>2, <1>3, MessagesAssumption
<1> QED
  BY <1>1, <1>3, <1>4 DEF Current, Coming, Message

LEMMA QueuesTypedNext ==
  ASSUME ServerInv, ServerInv', QueuesTyped, SendersTyped, Senders,
         [MessagesNext]_allVars
  PROVE  QueuesTyped'
<1> DEFINE Task == Message \cup {Notice, CloseTask}
           Got == Message \cup {Notice}
           Shaped == /\ tasks' = [d \in Channels |-> tasks'[d]]
                     /\ received' = [d \in Channels |-> received'[d]]
<1>1. ASSUME NEW d \in Channels
      PROVE  /\ tasks'[d] \in Seq(Task) /\ received'[d] \in Seq(Got)
             /\ link'[d] \in {"new", "closed"} => tasks'[d] = <<>>
             /\ link'[d] = "new" => received'[d] = <<>>
  <2>1. /\ tasks[d] \in Seq(Task) /\ received[d] \in Seq(Got)
        /\ link[d] \in {"new", "closed"} => tasks[d] = <<>>
        /\ link[d] = "new" => received[d] = <<>>
        /\ link'[d] = "new" => link[d] = "new"
    BY LinksMove DEF QueuesTyped
  <2> HIDE DEF Task, Got
  <2>2. CASE Stays(d)
    BY <2>1, <2>2 DEF Stays
  <2>3. CASE Drops(d)
    <3>1. Append(received[d], Notice) \in Seq(Got)
      BY <2>1, Appended DEF Got
    <3>2. <<>> \in Seq(Task)
      OBVIOUS
    <3> QED
      BY <2>1, <2>3, <3>1, <3>2 DEF Drops
  <2>4. CASE Ends(d)
    <3>1. Append(tasks[d], Notice) \in Seq(Task)
      BY <2>1, Appended DEF Task
    <3>2. Append(Append(tasks[d], Notice), CloseTask) \in Seq(Task)
      BY <3>1, Appended DEF Task
    <3> QED
      BY <2>1, <2>4, <3>2 DEF Ends
  <2>5. CASE Takes(d)
    <3>1. Head(tasks[d]) \in Task /\ Tail(tasks[d]) \in Seq(Task)
      BY <2>1, <2>5, Shortened DEF Takes
    <3>2. Append(received[d], Head(tasks[d])) \in Seq(Got)
      BY <2>1, <2>5, <3>1, Appended DEF Takes, Task, Got
    <3> QED
      BY <2>1, <2>5, <3>1, <3>2 DEF Takes
  <2>6. ASSUME NEW c \in Channels, WriteTo(c, d), Queues(d, Current(c))
        PROVE  /\ tasks'[d] \in Seq(Task) /\ received'[d] = received[d]
               /\ link'[d] \in {"active", "websocket"}
    <3>1. Current(c) \in Task
      BY <2>6, CurrentIsMessage DEF WriteTo, Task
    <3> QED
      BY <2>1, <2>6, <3>1, Appended DEF Queues
  <2>7. CASE WriteTo(d, d) /\ Reads(d, Current(d))
    <3>1. Current(d) \in Got
      BY <2>7, CurrentIsMessage DEF WriteTo, Got
    <3>2. Append(received[d], Current(d)) \in Seq(Got)
      BY <2>1, <3>1, Appended
    <3>3. link[d] = "websocket"
      BY <2>7 DEF WriteTo, Senders, Sending
    <3> QED
      BY <2>1, <2>7, <3>2, <3>3 DEF Reads
  <2> QED
    BY <2>1, <2>2, <2>3, <2>4, <2>5, <2>6, <2>7, QueuesMove
<1>2. Shaped
  <2>1. /\ tasks = [d \in Channels |-> tasks[d]]
        /\ received = [d \in Channels |-> received[d]]
    BY DEF QueuesTyped
  <2>2. UNCHANGED tasks => tasks' = [d \in Channels |-> tasks'[d]]
    BY <2>1
  <2>3. UNCHANGED received => received' = [d \in Channels |-> received'[d]]
    BY <2>1
  <2>4. CASE UNCHANGED allVars
    BY <2>2, <2>3, <2>4 DEF allVars, queues
  <2>5. Post => tasks' = [d \in Channels |-> tasks'[d]]
    BY DEF Post
  <2>6. \A c \in Channels : Tell(c) => received' = [d \in Channels |-> received'[d]]
    BY <2>1, <2>3 DEF Tell
  <2>7. \A c \in Channels : \A m :
          Receive(c, m) => received' = [d \in Channels |-> received'[d]]
    BY <2>1 DEF Receive
  <2>8. CASE RestartServer
    BY <2>3, <2>5, <2>8 DEF RestartServer
  <2>9. ASSUME NEW c \in Channels, Serve(c) PROVE Shaped
    BY <2>5, <2>6, <2>9 DEF Serve
  <2>10. ASSUME NEW c \in Channels, CloseNow(c) PROVE Shaped
    BY <2>3, <2>5, <2>10 DEF CloseNow
  <2>11. ASSUME NEW c \in Channels,
                SendText(c) \/ SendFile(c) \/ SaveFile(c) \/ EndRoute(c)
                  \/ SaveMessage(c)
         PROVE  Shaped
    BY <2>2, <2>3, <2>11
    DEF SendText, SendFile, SaveFile, EndRoute, SaveMessage, queues
  <2>12. ASSUME NEW c \in Channels, Write(c) PROVE Shaped
    BY <2>1, <2>3, <2>7, <2>12 DEF Write
  <2>13. ASSUME NEW c \in Channels, NEW d \in Channels, WriteTo(c, d)
         PROVE  Shaped
    BY <2>1, <2>2, <2>3, <2>7, <2>13 DEF WriteTo
  <2> QED
    BY <2>4, <2>8, <2>9, <2>10, <2>11, <2>12, <2>13, MessagesSteps
<1> QED
  <2>1. tasks' \in [Channels -> Seq(Task)]
    BY <1>1, <1>2
  <2>2. received' \in [Channels -> Seq(Got)]
    BY <1>1, <1>2
  <2> QED
    BY <1>1, <2>1, <2>2 DEF QueuesTyped

LEMMA RouteStarts ==
  ASSUME ServerInv, SendersTyped, NEW c \in Channels, StartRoute(c)
  PROVE  /\ \A d \in Channels \ {c} :
              /\ step'[d] = step[d] /\ todo'[d] = todo[d]
              /\ audience'[d] = audience[d]
         /\ step'[c] = "route" /\ todo'[c] = hall
         /\ Len(audience'[c]) = Len(audience[c]) + 1
         /\ \A n \in 1 .. Len(audience[c]) : audience'[c][n] = audience[c][n]
         /\ audience'[c][Len(audience[c]) + 1]
              = {d \in Channels : link[d] = "websocket"}
         /\ step' \in [Channels -> {"none", "file", "route", "log"}]
         /\ todo' \in [Channels -> SUBSET Channels]
         /\ audience' \in [Channels -> Seq(SUBSET Channels)]
<1> DEFINE A == {d \in Channels : link[d] = "websocket"}
<1>1. /\ step' = [step EXCEPT ![c] = "route"]
      /\ todo' = [todo EXCEPT ![c] = hall]
      /\ audience' = [audience EXCEPT ![c] = Append(@, A)]
  BY DEF StartRoute
<1>2. /\ audience \in [Channels -> Seq(SUBSET Channels)]
      /\ A \in SUBSET Channels /\ hall \in SUBSET Channels
  BY DEF SendersTyped, ServerInv, TypeOK
<1> HIDE DEF A
<1>3. /\ audience'[c] = Append(audience[c], A)
      /\ \A d \in Channels \ {c} : audience'[d] = audience[d]
  BY <1>1, <1>2
<1>4. /\ Append(audience[c], A) \in Seq(SUBSET Channels)
      /\ Len(Append(audience[c], A)) = Len(audience[c]) + 1
      /\ \A n \in 1 .. Len(audience[c]) :
           Append(audience[c], A)[n] = audience[c][n]
      /\ Append(audience[c], A)[Len(audience[c]) + 1] = A
  BY <1>2, Appended
<1>5. audience' \in [Channels -> Seq(SUBSET Channels)]
  BY <1>1, <1>2, <1>4
<1>6. /\ step' \in [Channels -> {"none", "file", "route", "log"}]
      /\ todo' \in [Channels -> SUBSET Channels]
      /\ step'[c] = "route" /\ todo'[c] = hall
      /\ \A d \in Channels \ {c} : step'[d] = step[d] /\ todo'[d] = todo[d]
  BY <1>1, <1>2 DEF SendersTyped
<1> QED
  BY <1>3, <1>4, <1>5, <1>6 DEF A

LEMMA SendersStarted ==
  ASSUME ServerInv, SendersTyped, Senders, UNCHANGED <<link, pc>>,
         NEW c \in Channels, link[c] = "websocket", pc[c] = "idle",
         StartRoute(c), Len(audience[c]) + 1 <= messages',
         messages' >= messages, messages' \in 0 .. MaxMessages
  PROVE  SendersTyped' /\ Senders'
<1>1. /\ \A d \in Channels : Len(audience[d]) \in Nat
      /\ messages \in Int /\ messages' \in Int
  BY MessagesAssumption DEF SendersTyped
<1>2. /\ \A d \in Channels \ {c} :
           step'[d] = step[d] /\ audience'[d] = audience[d]
      /\ step'[c] = "route" /\ Len(audience'[c]) = Len(audience[c]) + 1
      /\ \A n \in 1 .. Len(audience[c]) : audience'[c][n] = audience[c][n]
      /\ audience'[c][Len(audience[c]) + 1]
           = {d \in Channels : link[d] = "websocket"}
  BY RouteStarts
<1>3. SendersTyped'
  BY RouteStarts DEF SendersTyped
<1>4. ASSUME NEW d \in Channels
      PROVE  /\ Sending(d)' => link'[d] = "websocket" /\ pc'[d] = "idle"
             /\ step'[d] \in {"route", "log"} => Len(audience'[d]) > 0
             /\ Len(audience'[d]) <= messages'
             /\ step'[d] = "file" => Len(audience'[d]) < messages'
  <2>1. CASE d = c
    BY <1>1, <1>2, <2>1
  <2>2. CASE d # c
    <3>1. /\ step'[d] = step[d] /\ audience'[d] = audience[d]
          /\ Len(audience[d]) <= messages
          /\ step[d] = "file" => Len(audience[d]) < messages
          /\ Sending(d) => link[d] = "websocket" /\ pc[d] = "idle"
          /\ step[d] \in {"route", "log"} => Len(audience[d]) > 0
      BY <1>2, <2>2 DEF Senders
    <3>2. /\ Len(audience'[d]) <= messages'
          /\ step'[d] = "file" => Len(audience'[d]) < messages'
      BY <1>1, <3>1
    <3> QED
      BY <3>1, <3>2 DEF Sending
  <2> QED
    BY <2>1, <2>2
<1>5. ASSUME NEW d \in Channels, NEW n \in 1 .. Len(audience'[d]),
             NEW e \in audience'[d][n]
      PROVE  link'[e] \in {"websocket", "closed"}
  <2>1. CASE d = c
    <3>1. n \in 1 .. Len(audience[c]) \/ n = Len(audience[c]) + 1
      BY <1>1, <1>2, <2>1
    <3> QED
      BY <1>2, <2>1, <3>1 DEF Senders
  <2>2. CASE d # c
    BY <1>2, <2>2 DEF Senders
  <2> QED
    BY <2>1, <2>2
<1> QED
  BY <1>3, <1>4, <1>5 DEF Senders

\* A step that starts no message.
LEMMA SendersKept ==
  ASSUME ServerInv, SendersTyped, Senders, [MessagesNext]_allVars,
         UNCHANGED <<audience, messages>>,
         step' \in [Channels -> {"none", "file", "route", "log"}],
         \A d \in Channels :
           /\ Sending(d)' => Sending(d) /\ link'[d] = link[d] /\ pc'[d] = pc[d]
           /\ step'[d] = "file" => step[d] = "file"
           /\ step'[d] \in {"route", "log"} => step[d] \in {"route", "log"}
  PROVE  Senders'
<1>1. \A d \in Channels : Len(audience[d]) \in Nat
  BY DEF SendersTyped
<1>2. messages \in Int
  BY MessagesAssumption DEF SendersTyped
<1>3. ASSUME NEW d \in Channels
      PROVE  /\ Sending(d)' => link'[d] = "websocket" /\ pc'[d] = "idle"
             /\ step'[d] \in {"route", "log"} => Len(audience'[d]) > 0
             /\ Len(audience'[d]) <= messages'
             /\ step'[d] = "file" => Len(audience'[d]) < messages'
  BY <1>1, <1>2 DEF Senders, Sending
<1>4. \A d \in Channels : \A n \in 1 .. Len(audience[d]) : \A e \in audience[d][n] :
        e \in Channels /\ link[e] \in {"websocket", "closed"}
  BY Elements DEF Senders, SendersTyped
<1>5. \A e \in Channels : link[e] \in {"websocket", "closed"}
                            => link'[e] \in {"websocket", "closed"}
  BY LinksMove
<1> QED
  BY <1>3, <1>4, <1>5 DEF Senders

LEMMA SendersNext ==
  ASSUME ServerInv, SendersTyped, Senders, [MessagesNext]_allVars
  PROVE  SendersTyped' /\ Senders'
<1>1. /\ \A d \in Channels : Len(audience[d]) \in Nat
      /\ messages \in Nat /\ messages <= MaxMessages /\ MaxMessages \in Nat
  BY MessagesAssumption DEF SendersTyped
<1>2. CASE UNCHANGED allVars
  <2>1. UNCHANGED <<audience, messages, step, todo, link, pc>>
    BY <1>2 DEF allVars, vars, history, routing
  <2>2. Senders'
    BY <2>1 DEF Senders, Sending
  <2> QED
    BY <2>1, <2>2 DEF SendersTyped
<1>3. CASE RestartServer
  <2>1. /\ UNCHANGED <<audience, messages>>
        /\ step' = [c \in Channels |-> "none"]
        /\ todo' = [c \in Channels |-> {}]
    BY <1>3 DEF RestartServer, history
  <2>2. step' \in [Channels -> {"none", "file", "route", "log"}]
        /\ todo' \in [Channels -> SUBSET Channels]
    BY <2>1
  <2>3. \A d \in Channels : step'[d] = "none"
    BY <2>1
  <2>4. Senders'
    BY <2>1, <2>2, <2>3, SendersKept DEF Sending
  <2> QED
    BY <2>1, <2>2, <2>4 DEF SendersTyped
<1>4. ASSUME NEW c \in Channels, Serve(c) PROVE SendersTyped' /\ Senders'
  <2>1. UNCHANGED <<audience, messages, step>> /\ step[c] = "none" /\ Join(c)
    BY <1>4 DEF Serve, history
  <2>2. \A d \in Channels \ {c} : link'[d] = link[d] /\ pc'[d] = pc[d]
    BY <1>4, LoopMoves DEF Serve
  <2>3. todo' \in [Channels -> SUBSET Channels]
    <3>1. CASE link[c] = "new"
      <4>1. PICK S \in SUBSET {d \in Channels : step[d] = "route"} :
              todo' = [d \in Channels |->
                         todo[d] \cup IF d \in S THEN {c} ELSE {}]
        BY <2>1, <3>1 DEF Join
      <4>2. \A d \in Channels :
              todo[d] \cup (IF d \in S THEN {c} ELSE {}) \in SUBSET Channels
        BY DEF SendersTyped
      <4> QED
        BY <4>1, <4>2
    <3>2. CASE link[c] # "new"
      BY <2>1, <3>2 DEF Join, SendersTyped
    <3> QED
      BY <3>1, <3>2
  <2>4. Senders'
    BY <2>1, <2>2, SendersKept DEF Sending, SendersTyped
  <2> QED
    BY <2>1, <2>3, <2>4 DEF SendersTyped
<1>5. ASSUME NEW c \in Channels,
             EndRoute(c) \/ SaveMessage(c) \/ Write(c)
               \/ \E d \in Channels : WriteTo(c, d)
      PROVE  SendersTyped' /\ Senders'
  <2>1. /\ UNCHANGED <<audience, messages, link, pc>>
        /\ \/ UNCHANGED step
           \/ step' = [step EXCEPT ![c] = "log"] /\ step[c] = "route"
           \/ step' = [step EXCEPT ![c] = "none"]
        /\ UNCHANGED todo \/ \E d : todo' = [todo EXCEPT ![c] = @ \ {d}]
    BY <1>5 DEF EndRoute, SaveMessage, Write, WriteTo, vars, history, routing
  <2>2. /\ step' \in [Channels -> {"none", "file", "route", "log"}]
        /\ todo' \in [Channels -> SUBSET Channels]
    <3>1. step' \in [Channels -> {"none", "file", "route", "log"}]
      BY <2>1 DEF SendersTyped
    <3>2. \A d : todo[c] \ {d} \in SUBSET Channels
      BY DEF SendersTyped
    <3>3. todo' \in [Channels -> SUBSET Channels]
      BY <2>1, <3>2 DEF SendersTyped
    <3> QED
      BY <3>1, <3>3
  <2>3. Senders'
    BY <2>1, <2>2, SendersKept DEF Sending, SendersTyped
  <2> QED
    BY <2>1, <2>2, <2>3 DEF SendersTyped
<1>6. ASSUME NEW c \in Channels, CloseNow(c) PROVE SendersTyped' /\ Senders'
  <2>1. UNCHANGED <<audience, messages, step, todo>> /\ step[c] = "none"
    BY <1>6 DEF CloseNow, Free, history, routing
  <2>2. \A d \in Channels \ {c} : link'[d] = link[d] /\ pc'[d] = pc[d]
    BY <1>6, LoopMoves DEF CloseNow, Client
  <2>3. Senders'
    BY <2>1, <2>2, SendersKept DEF Sending, SendersTyped
  <2> QED
    BY <2>1, <2>3 DEF SendersTyped
<1>7. ASSUME NEW c \in Channels, SendText(c) PROVE SendersTyped' /\ Senders'
  <2>1. /\ UNCHANGED <<link, pc>> /\ link[c] = "websocket" /\ pc[c] = "idle"
        /\ StartRoute(c) /\ messages' = messages + 1 /\ messages < MaxMessages
    BY <1>7 DEF SendText, Send, Idle, At, vars
  <2>2. Len(audience[c]) <= messages
    BY DEF Senders
  <2> QED
    BY <1>1, <2>1, <2>2, SendersStarted
<1>8. ASSUME NEW c \in Channels, SendFile(c) PROVE SendersTyped' /\ Senders'
  <2>1. /\ UNCHANGED <<link, pc, audience, todo>> /\ messages' = messages + 1
        /\ link[c] = "websocket" /\ pc[c] = "idle" /\ messages < MaxMessages
        /\ step' = [step EXCEPT ![c] = "file"]
    BY <1>8 DEF SendFile, Send, Idle, At, vars
  <2>2. /\ step' \in [Channels -> {"none", "file", "route", "log"}]
        /\ messages' \in 0 .. MaxMessages
    BY <1>1, <2>1 DEF SendersTyped
  <2>3. ASSUME NEW d \in Channels
        PROVE  /\ Sending(d)' => link'[d] = "websocket" /\ pc'[d] = "idle"
               /\ step'[d] \in {"route", "log"} => Len(audience'[d]) > 0
               /\ Len(audience'[d]) <= messages'
               /\ step'[d] = "file" => Len(audience'[d]) < messages'
    <3>1. /\ Len(audience[d]) <= messages
          /\ step'[d] = "file" \/ step'[d] = step[d]
          /\ step'[d] # "file" => step'[d] = step[d]
          /\ d # c => step'[d] = step[d]
      BY <2>1 DEF SendersTyped, Senders
    <3> QED
      BY <1>1, <2>1, <3>1 DEF Senders, Sending
  <2>4. Senders'
    BY <2>1, <2>3 DEF Senders
  <2> QED
    BY <2>1, <2>2, <2>4 DEF SendersTyped
<1>9. ASSUME NEW c \in Channels, SaveFile(c) PROVE SendersTyped' /\ Senders'
  <2>1. /\ UNCHANGED <<link, pc, messages>> /\ StartRoute(c)
        /\ step[c] = "file"
    BY <1>9 DEF SaveFile, vars
  <2>2. /\ Len(audience[c]) < messages
        /\ link[c] = "websocket" /\ pc[c] = "idle"
    BY <2>1 DEF Senders, Sending
  <2> QED
    BY <1>1, <2>1, <2>2, SendersStarted
<1> QED
  BY <1>2, <1>3, <1>4, <1>5, <1>6, <1>7, <1>8, <1>9, MessagesSteps

LEMMA StorageTypedNext ==
  ASSUME SendersTyped, Senders, SendersTyped', Senders', StorageTyped,
         [MessagesNext]_allVars
  PROVE  StorageTyped'
<1> USE DEF StorageTyped
<1>1. CASE UNCHANGED allVars
  BY <1>1 DEF allVars, history, storage
<1>2. CASE RestartServer
  BY <1>2 DEF RestartServer, history, storage
<1>3. ASSUME NEW c \in Channels,
             \/ Serve(c) \/ SendText(c) \/ EndRoute(c) \/ Write(c)
             \/ CloseNow(c) \/ \E d \in Channels : WriteTo(c, d)
      PROVE  StorageTyped'
  BY <1>3
  DEF Serve, SendText, EndRoute, Write, CloseNow, WriteTo, history, storage
<1>4. ASSUME NEW c \in Channels, SendFile(c) PROVE StorageTyped'
  <2>1. /\ files' = files \cup {Coming(c)} /\ UNCHANGED <<log, faults>>
        /\ messages < MaxMessages
    BY <1>4 DEF SendFile, Send, storage
  <2>2. /\ Len(audience[c]) \in Nat /\ Len(audience[c]) <= messages
        /\ messages \in Nat /\ MaxMessages \in Nat
    BY MessagesAssumption DEF SendersTyped, Senders
  <2>3. Len(audience[c]) + 1 \in 1 .. MaxMessages
    BY <2>1, <2>2
  <2>4. Coming(c) \in Message
    BY <2>3 DEF Coming, Message
  <2> QED
    BY <2>1, <2>4
<1>5. ASSUME NEW c \in Channels, SaveFile(c) PROVE StorageTyped'
  BY <1>5, MessagesAssumption DEF SaveFile
<1>6. ASSUME NEW c \in Channels, SaveMessage(c) PROVE StorageTyped'
  <2>1. Current(c) \in Message
    BY <1>6, CurrentIsMessage DEF SaveMessage
  <2>2. Append(log, Current(c)) \in Seq(Message)
    BY <2>1, Appended
  <2> QED
    BY <1>6, <2>2, MessagesAssumption DEF SaveMessage, history
<1> QED
  BY <1>1, <1>2, <1>3, <1>4, <1>5, <1>6, MessagesSteps

LEMMA TypedNext == Typed /\ [MessagesNext]_allVars => Typed'
<1> SUFFICES ASSUME Typed, [MessagesNext]_allVars PROVE Typed'
  OBVIOUS
<1>1. ServerInv'
  BY StepsAreServers, ServerStepInv DEF Typed
<1>2. SendersTyped' /\ Senders'
  BY SendersNext DEF Typed
<1> QED
  BY <1>1, <1>2, QueuesTypedNext, StorageTypedNext DEF Typed

-----------------------------------------------------------------------------
(* The queues.                                                             *)

LEMMA ToldNext ==
  ASSUME Typed, Typed', [MessagesNext]_allVars, NEW d \in Channels, ToldIn(d)
  PROVE  ToldIn(d)'
<1> DEFINE Task == Message \cup {Notice, CloseTask}
           Got == Message \cup {Notice}
<1>1. /\ tasks[d] \in Seq(Task) /\ Len(tasks[d]) \in Nat
      /\ received[d] \in Seq(Got)
      /\ link'[d] = "closed" => tasks'[d] = <<>>
      /\ link[d] = "websocket" => link'[d] \in {"websocket", "closed"}
      /\ Notice # CloseTask /\ Notice \in Task /\ CloseTask \in Task
      /\ Notice \in Got /\ CloseTask \notin Message
  BY LinksMove, MessagesAssumption DEF Typed, QueuesTyped
<1> HIDE DEF Task, Got
<1>2. CASE Stays(d)
  BY <1>1, <1>2 DEF Stays, ToldIn
<1>3. CASE Drops(d)
  BY <1>3 DEF Drops, ToldIn
<1>4. CASE Ends(d)
  <2> DEFINE one == Append(tasks[d], Notice)
             two == Append(one, CloseTask)
  <2>1. /\ one \in Seq(Task) /\ Len(one) = Len(tasks[d]) + 1
        /\ \A i \in 1 .. Len(tasks[d]) : one[i] = tasks[d][i]
        /\ one[Len(tasks[d]) + 1] = Notice
    BY <1>1, Appended
  <2> HIDE DEF one
  <2>2. /\ Len(two) = Len(tasks[d]) + 2
        /\ \A i \in 1 .. Len(tasks[d]) + 1 : two[i] = one[i]
        /\ two[Len(tasks[d]) + 2] = CloseTask
    <3>1. /\ Len(two) = Len(one) + 1 /\ two[Len(one) + 1] = CloseTask
          /\ \A i \in 1 .. Len(one) : two[i] = one[i]
      BY <1>1, <2>1, Appended
    <3>2. Len(one) + 1 = Len(tasks[d]) + 2
      BY <1>1, <2>1
    <3> QED
      BY <2>1, <3>1, <3>2
  <2> HIDE DEF two
  <2>3. tasks'[d] = two /\ received'[d] = received[d] /\ link'[d] = "websocket"
    BY <1>4 DEF Ends, one, two
  <2>4. ASSUME NEW i \in 1 .. Len(two), two[i] = CloseTask
        PROVE  \/ Notice \in ToSet(received[d])
               \/ \E j \in 1 .. i - 1 : two[j] = Notice
    <3>1. CASE i \in 1 .. Len(tasks[d])
      <4>1. tasks[d][i] = CloseTask
        BY <1>1, <2>1, <2>2, <2>4, <3>1
      <4>2. \A j \in 1 .. i - 1 : two[j] = tasks[d][j]
        BY <1>1, <2>1, <2>2, <3>1
      <4> QED
        BY <3>1, <4>1, <4>2 DEF ToldIn
    <3>2. CASE i = Len(tasks[d]) + 1
      BY <1>1, <2>1, <2>2, <2>4, <3>2
    <3>3. CASE i = Len(tasks[d]) + 2
      <4>1. Len(tasks[d]) + 1 \in 1 .. i - 1 /\ two[Len(tasks[d]) + 1] = Notice
        BY <1>1, <2>1, <2>2, <3>3
      <4> QED
        BY <4>1
    <3> QED
      BY <1>1, <2>2, <3>1, <3>2, <3>3
  <2> QED
    BY <2>3, <2>4 DEF ToldIn
<1>5. CASE Takes(d)
  <2>1. /\ Len(Tail(tasks[d])) = Len(tasks[d]) - 1 /\ Head(tasks[d]) = tasks[d][1]
        /\ Head(tasks[d]) \in Task
        /\ \A i \in 1 .. Len(tasks[d]) - 1 :
             i + 1 \in 1 .. Len(tasks[d]) /\ Tail(tasks[d])[i] = tasks[d][i + 1]
    BY <1>1, <1>5, Shortened DEF Takes
  <2>2. /\ tasks'[d] = Tail(tasks[d]) /\ Head(tasks[d]) # CloseTask
        /\ link'[d] = link[d]
        /\ link[d] = "websocket"
             => received'[d] = Append(received[d], Head(tasks[d]))
    BY <1>5 DEF Takes
  <2>3. ASSUME NEW i \in 1 .. Len(tasks[d]) - 1, tasks[d][i + 1] = CloseTask
        PROVE  /\ link[d] = "websocket"
               /\ \/ Notice \in ToSet(received'[d])
                  \/ \E j \in 1 .. i - 1 : Tail(tasks[d])[j] = Notice
    <3>1. /\ link[d] = "websocket"
          /\ \/ Notice \in ToSet(received[d])
             \/ \E j \in 1 .. (i + 1) - 1 : tasks[d][j] = Notice
      BY <2>1, <2>3 DEF ToldIn
    <3>2. ToSet(received'[d]) = ToSet(received[d]) \cup {Head(tasks[d])}
      <4>1. Head(tasks[d]) \in Got
        BY <2>1, <2>2 DEF Task, Got
      <4>2. ToSet(Append(received[d], Head(tasks[d])))
              = ToSet(received[d]) \cup {Head(tasks[d])}
        BY <1>1, <4>1, Appended
      <4> QED
        BY <2>2, <3>1, <4>2
    <3>3. ASSUME NEW j \in 1 .. (i + 1) - 1, tasks[d][j] = Notice
          PROVE  \/ Notice \in ToSet(received'[d])
                 \/ \E k \in 1 .. i - 1 : Tail(tasks[d])[k] = Notice
      <4>1. CASE j = 1
        BY <2>1, <3>2, <3>3, <4>1
      <4>2. CASE j # 1
        <5>1. /\ j - 1 \in 1 .. i - 1 /\ j - 1 \in 1 .. Len(tasks[d]) - 1
              /\ (j - 1) + 1 = j
          BY <1>1, <4>2
        <5> QED
          BY <2>1, <3>3, <5>1
      <4> QED
        BY <4>1, <4>2
    <3> QED
      BY <3>1, <3>2, <3>3
  <2> QED
    BY <2>1, <2>2, <2>3 DEF ToldIn
<1>6. ASSUME NEW c \in Channels, WriteTo(c, d), Queues(d, Current(c))
      PROVE  ToldIn(d)'
  <2>1. Current(c) \in Message /\ Current(c) \in Task
    BY <1>6, CurrentIsMessage DEF WriteTo, Task, Typed
  <2>2. /\ Len(tasks'[d]) = Len(tasks[d]) + 1
        /\ \A i \in 1 .. Len(tasks[d]) : tasks'[d][i] = tasks[d][i]
        /\ tasks'[d][Len(tasks[d]) + 1] = Current(c)
        /\ received'[d] = received[d] /\ link'[d] = link[d]
    BY <1>1, <1>6, <2>1, Appended DEF Queues
  <2>3. \A i \in 1 .. Len(tasks'[d]) :
          tasks'[d][i] = CloseTask => i \in 1 .. Len(tasks[d])
    BY <1>1, <2>1, <2>2
  <2>4. \A i \in 1 .. Len(tasks[d]) : \A j \in 1 .. i - 1 :
          tasks'[d][j] = tasks[d][j]
    BY <1>1, <2>2
  <2> QED
    BY <2>2, <2>3, <2>4 DEF ToldIn
<1>7. CASE WriteTo(d, d) /\ Reads(d, Current(d))
  <2>1. Current(d) \in Got
    BY <1>7, CurrentIsMessage DEF WriteTo, Got, Typed
  <2>2. ToSet(received'[d]) = ToSet(received[d]) \cup {Current(d)}
    BY <1>1, <1>7, <2>1, Appended DEF Reads
  <2> QED
    BY <1>7, <2>2 DEF Reads, ToldIn
<1> QED
  BY <1>2, <1>3, <1>4, <1>5, <1>6, <1>7, QueuesMove DEF Typed

-----------------------------------------------------------------------------
(* The routes: who has begun a message, and who has it.                    *)

Started(c) ==
  /\ StartRoute(c) /\ step[c] # "route" /\ link[c] = "websocket"
  /\ UNCHANGED <<link, queues>>

\* A message is due to every open client when its route begins, and to those
\* that are yet to be written to until they are.
LEMMA RoutesMove ==
  ASSUME Typed, [MessagesNext]_allVars, NEW c \in Channels, NEW d \in Channels
  PROVE  \/ Started(c)
         \/ /\ audience'[c] = audience[c]
            /\ step'[c] = "route" => step[c] = "route"
            /\ step'[c] = "route" /\ d \in todo'[c]
                 => d \in todo[c] \/ link[d] = "new"
            /\ step[c] = "route" /\ d \in todo[c]
                 => \/ step'[c] = "route" /\ d \in todo'[c]
                    \/ RestartServer \/ WriteTo(c, d)
<1> DEFINE Goes == /\ audience'[c] = audience[c]
                   /\ step'[c] = "route" => step[c] = "route"
                   /\ step'[c] = "route" /\ d \in todo'[c]
                        => d \in todo[c] \/ link[d] = "new"
                   /\ step[c] = "route" /\ d \in todo[c]
                        => \/ step'[c] = "route" /\ d \in todo'[c]
                           \/ RestartServer \/ WriteTo(c, d)
<1> USE DEF Typed, SendersTyped, Senders, Sending
<1>1. CASE UNCHANGED allVars
  BY <1>1 DEF allVars, history, routing
<1>2. CASE RestartServer
  BY <1>2 DEF RestartServer, history
<1>3. ASSUME NEW e \in Channels, Serve(e) PROVE Goes
  <2>1. UNCHANGED <<audience, step>> /\ Join(e)
    BY <1>3 DEF Serve, history
  <2>2. todo[c] \subseteq todo'[c]
        /\ todo'[c] \subseteq todo[c] \cup {f \in {e} : link[f] = "new"}
    BY <2>1 DEF Join
  <2> QED
    BY <2>1, <2>2
<1>4. ASSUME NEW e \in Channels, SendText(e) \/ SaveFile(e)
      PROVE  Started(c) \/ Goes
  <2>1. /\ StartRoute(e) /\ step[e] # "route" /\ link[e] = "websocket"
        /\ UNCHANGED <<link, queues>>
    BY <1>4 DEF SendText, SaveFile, Send, Idle, vars, queues
  <2>2. CASE c = e
    BY <2>1, <2>2 DEF Started
  <2>3. CASE c # e
    BY <2>1, <2>3 DEF StartRoute
  <2> QED
    BY <2>2, <2>3
<1>5. ASSUME NEW e \in Channels, SendFile(e) \/ SaveMessage(e) PROVE Goes
  <2>1. /\ UNCHANGED <<audience, todo>> /\ step[e] # "route"
        /\ \/ step' = [step EXCEPT ![e] = "file"]
           \/ step' = [step EXCEPT ![e] = "none"]
    BY <1>5 DEF SendFile, SaveMessage, Send, Idle, history
  <2> QED
    BY <2>1
<1>6. ASSUME NEW e \in Channels, EndRoute(e) PROVE Goes
  BY <1>6 DEF EndRoute, history
<1>7. ASSUME NEW e \in Channels, Write(e) \/ CloseNow(e) PROVE Goes
  BY <1>7 DEF Write, CloseNow, history, routing
<1>8. ASSUME NEW e \in Channels, NEW f \in Channels, WriteTo(e, f) PROVE Goes
  <2>1. /\ UNCHANGED <<audience, step>>
        /\ todo' = [todo EXCEPT ![e] = @ \ {f}]
    BY <1>8 DEF WriteTo, history
  <2>2. CASE c = e /\ d = f
    BY <1>8, <2>1, <2>2
  <2>3. CASE ~(c = e /\ d = f)
    BY <2>1, <2>3
  <2> QED
    BY <2>2, <2>3
<1> QED
  BY <1>1, <1>2, <1>3, <1>4, <1>5, <1>6, <1>7, <1>8, MessagesSteps

LEMMA StartedRoute ==
  ASSUME Typed, NEW c \in Channels, Started(c)
  PROVE  /\ Len(audience[c]) \in Nat
         /\ Len(audience'[c]) = Len(audience[c]) + 1
         /\ \A n \in 1 .. Len(audience[c]) : audience'[c][n] = audience[c][n]
         /\ audience'[c][Len(audience[c]) + 1]
              = {d \in Channels : link[d] = "websocket"}
         /\ step'[c] = "route" /\ todo'[c] = hall
<1>1. Len(audience[c]) \in Nat
  BY DEF Typed, SendersTyped
<1>2. ServerInv /\ SendersTyped /\ StartRoute(c)
  BY DEF Started, Typed
<1> QED
  BY <1>1, <1>2, RouteStarts

\* What a channel was given of a message of c, it was given by c.
LEMMA AudienceKept ==
  ASSUME Typed, [MessagesNext]_allVars, NEW c \in Channels
  PROVE  /\ Len(audience[c]) \in Nat /\ Len(audience'[c]) \in Nat
         /\ Len(audience'[c]) >= Len(audience[c])
         /\ \A n \in 1 .. Len(audience[c]) : audience'[c][n] = audience[c][n]
<1>1. Len(audience[c]) \in Nat
  BY DEF Typed, SendersTyped
<1>2. CASE Started(c)
  BY <1>1, <1>2, StartedRoute
<1>3. CASE audience'[c] = audience[c]
  BY <1>1, <1>3
<1> QED
  BY <1>2, <1>3, RoutesMove

\* What a channel has grows by the message that is written to it, and shrinks
\* only when it closes or its handshake is not over.
LEMMA HaveMoves ==
  ASSUME Typed, Typed', [MessagesNext]_allVars, NEW d \in Channels
  PROVE  /\ \A m \in Have(d)' \cap Message :
              \/ m \in Have(d)
              \/ \E c \in Channels : WriteTo(c, d) /\ m = Current(c)
         /\ link'[d] = "closed" \/ link[d] = "active" \/ Have(d) \subseteq Have(d)'
         /\ ToSet(received[d]) \subseteq ToSet(received'[d])
<1> DEFINE Task == Message \cup {Notice, CloseTask}
           Got == Message \cup {Notice}
           Has(r, t) == ToSet(r) \cup ToSet(t)
<1>1. /\ tasks[d] \in Seq(Task) /\ received[d] \in Seq(Got)
      /\ Notice \notin Message /\ CloseTask \notin Message
      /\ Notice \in Task /\ CloseTask \in Task /\ Notice \in Got
  BY MessagesAssumption DEF Typed, QueuesTyped
<1>2. Have(d) = ToSet(received[d]) \cup ToSet(tasks[d])
      /\ Have(d)' = ToSet(received'[d]) \cup ToSet(tasks'[d])
  BY DEF Have
<1> HIDE DEF Task, Got
<1>3. CASE Stays(d)
  BY <1>2, <1>3 DEF Stays
<1>4. CASE Drops(d)
  <2>1. ToSet(Append(received[d], Notice)) = ToSet(received[d]) \cup {Notice}
    BY <1>1, Appended
  <2> QED
    BY <1>1, <1>2, <1>4, <2>1, NoElements DEF Drops
<1>5. CASE Ends(d)
  <2> DEFINE one == Append(tasks[d], Notice)
  <2>1. one \in Seq(Task) /\ ToSet(one) = ToSet(tasks[d]) \cup {Notice}
    BY <1>1, Appended
  <2> HIDE DEF one
  <2>2. ToSet(Append(one, CloseTask)) = ToSet(one) \cup {CloseTask}
    BY <1>1, <2>1, Appended
  <2>3. tasks'[d] = Append(one, CloseTask) /\ received'[d] = received[d]
    BY <1>5 DEF Ends, one
  <2> QED
    BY <1>1, <1>2, <2>1, <2>2, <2>3
<1>6. CASE Takes(d)
  <2>1. /\ ToSet(tasks[d]) = {Head(tasks[d])} \cup ToSet(Tail(tasks[d]))
        /\ Head(tasks[d]) \in Task
    BY <1>1, <1>6, Shortened DEF Takes
  <2>2. Head(tasks[d]) \in Got
    BY <1>6, <2>1 DEF Takes, Task, Got
  <2>3. ToSet(Append(received[d], Head(tasks[d])))
          = ToSet(received[d]) \cup {Head(tasks[d])}
    BY <1>1, <2>2, Appended
  <2> QED
    BY <1>2, <1>6, <2>1, <2>3 DEF Takes
<1>7. ASSUME NEW c \in Channels, WriteTo(c, d), Queues(d, Current(c))
      PROVE  /\ Have(d)' = Have(d) \cup {Current(c)}
             /\ ToSet(received'[d]) = ToSet(received[d])
  <2>1. Current(c) \in Task
    BY <1>7, CurrentIsMessage DEF WriteTo, Task, Typed
  <2>2. ToSet(Append(tasks[d], Current(c))) = ToSet(tasks[d]) \cup {Current(c)}
    BY <1>1, <2>1, Appended
  <2> QED
    BY <1>2, <1>7, <2>2 DEF Queues
<1>8. CASE WriteTo(d, d) /\ Reads(d, Current(d))
  <2>1. Current(d) \in Got
    BY <1>8, CurrentIsMessage DEF WriteTo, Got, Typed
  <2>2. ToSet(Append(received[d], Current(d))) = ToSet(received[d]) \cup {Current(d)}
    BY <1>1, <2>1, Appended
  <2> QED
    BY <1>2, <1>8, <2>2 DEF Reads
<1> QED
  BY <1>3, <1>4, <1>5, <1>6, <1>7, <1>8, QueuesMove DEF Typed

\* A message that is written to a client that has not left reaches its queue.
LEMMA WrittenIsHad ==
  ASSUME Typed, NEW c \in Channels, NEW d \in Channels, WriteTo(c, d),
         link[d] = "websocket"
  PROVE  Current(c) \in Have(d)'
<1> DEFINE Task == Message \cup {Notice, CloseTask}
           Got == Message \cup {Notice}
<1>1. /\ tasks[d] \in Seq(Task) /\ received[d] \in Seq(Got)
      /\ DOMAIN tasks = Channels /\ DOMAIN received = Channels
  BY DEF Typed, QueuesTyped
<1>2. Current(c) \in Task /\ Current(c) \in Got
  BY CurrentIsMessage DEF WriteTo, Typed
<1>3. Have(d)' = ToSet(received'[d]) \cup ToSet(tasks'[d])
  BY DEF Have
<1> HIDE DEF Task, Got
<1>4. CASE d = c
  <2>1. received'[d] = Append(received[d], Current(c))
    BY <1>1, <1>4 DEF WriteTo, Receive
  <2>2. Current(c) \in ToSet(Append(received[d], Current(c)))
    BY <1>1, <1>2, Appended
  <2> QED
    BY <1>3, <2>1, <2>2
<1>5. CASE d # c
  <2>1. d \in hall
    BY DEF Typed, ServerInv, TypeOK
  <2>2. tasks'[d] = Append(tasks[d], Current(c))
    BY <1>1, <1>5, <2>1 DEF WriteTo
  <2>3. Current(c) \in ToSet(Append(tasks[d], Current(c)))
    BY <1>1, <1>2, Appended
  <2> QED
    BY <1>3, <2>2, <2>3
<1> QED
  BY <1>4, <1>5

-----------------------------------------------------------------------------
(* The invariants of the queues, one channel at a time.                    *)

\* What a channel has of a sender precedes what the sender is writing to it.
LEMMA HadPrecedes ==
  ASSUME Typed, NEW d \in Channels, BegunFor(d),
         NEW c \in Channels, WriteTo(c, d)
  PROVE  \A m \in Have(d) : Precedes(m, Current(c))
<1> SUFFICES ASSUME NEW m \in Have(d), m \in Message, m.from = c
             PROVE  m.n < Len(audience[c])
  BY DEF Precedes, Current
<1>1. step[c] = "route" /\ d \in todo[c]
  BY DEF WriteTo
<1>2. m.n <= Len(audience[c]) /\ m # Current(c)
  BY <1>1 DEF BegunFor
<1>3. m.n # Len(audience[c])
  <2>1. m = [from |-> m.from, n |-> m.n]
    BY DEF Message
  <2> QED
    BY <1>2, <2>1 DEF Current
<1>4. m.n \in Int /\ Len(audience[c]) \in Int
  BY MessagesAssumption DEF Message, Typed, SendersTyped
<1> QED
  BY <1>2, <1>3, <1>4

LEMMA QueuedNext ==
  ASSUME Typed, Typed', [MessagesNext]_allVars, NEW d \in Channels,
         QueuedIn(d), BegunFor(d)
  PROVE  QueuedIn(d)'
<1> DEFINE Task == Message \cup {Notice, CloseTask}
           Got == Message \cup {Notice}
<1>1. /\ tasks[d] \in Seq(Task) /\ received[d] \in Seq(Got)
      /\ Notice \notin Message /\ CloseTask \notin Message
      /\ Notice \in Task /\ CloseTask \in Task /\ Notice \in Got
  BY MessagesAssumption DEF Typed, QueuesTyped
<1>2. /\ Ordered(received[d]) /\ Ordered(tasks[d])
      /\ Before(received[d], tasks[d])
      /\ \A m \in ToSet(tasks[d]) \cap Message : m.from # d
  BY DEF QueuedIn
<1>3. /\ \A i \in DOMAIN tasks[d] : tasks[d][i] \in ToSet(tasks[d])
      /\ \A i \in DOMAIN received[d] : received[d][i] \in ToSet(received[d])
  BY <1>1, Elements
<1>4. \A x : Precedes(x, Notice) /\ Precedes(x, CloseTask) /\ Precedes(Notice, x)
  BY <1>1 DEF Precedes
<1>5. /\ Ordered(Append(received[d], Notice))
      /\ ToSet(Append(received[d], Notice)) = ToSet(received[d]) \cup {Notice}
  BY <1>1, <1>2, <1>4, OrderedAppended, Appended
<1>6. Ordered(<<>>) /\ \A s : Before(s, <<>>)
  BY NoElements DEF Ordered, Before
<1> SUFFICES /\ Ordered(received'[d]) /\ Ordered(tasks'[d])
             /\ Before(received'[d], tasks'[d])
             /\ \A m \in ToSet(tasks'[d]) \cap Message : m.from # d
  BY DEF QueuedIn
<1> HIDE DEF Task, Got
<1>7. CASE Stays(d)
  BY <1>2, <1>7 DEF Stays
<1>8. CASE Drops(d)
  BY <1>2, <1>5, <1>6, <1>8, NoElements DEF Drops
<1>9. CASE Ends(d)
  <2> DEFINE one == Append(tasks[d], Notice)
  <2>1. one \in Seq(Task) /\ ToSet(one) = ToSet(tasks[d]) \cup {Notice}
    BY <1>1, Appended
  <2>2. Ordered(one)
    BY <1>1, <1>2, <1>4, OrderedAppended
  <2>3. Before(received[d], one)
    BY <1>1, <1>2, <1>4, AppendedBefore
  <2>4. tasks'[d] = Append(one, CloseTask) /\ received'[d] = received[d]
    BY <1>9 DEF Ends
  <2> HIDE DEF one
  <2>5. ToSet(Append(one, CloseTask)) = ToSet(one) \cup {CloseTask}
    BY <1>1, <2>1, Appended
  <2>6. Ordered(Append(one, CloseTask))
    BY <1>1, <1>4, <2>1, <2>2, OrderedAppended
  <2>7. Before(received[d], Append(one, CloseTask))
    BY <1>1, <1>4, <2>1, <2>3, AppendedBefore
  <2> QED
    BY <1>1, <1>2, <2>1, <2>4, <2>5, <2>6, <2>7
<1>10. CASE Takes(d)
  <2> DEFINE h == Head(tasks[d])
             t == Tail(tasks[d])
  <2>1. /\ tasks[d] # <<>> /\ h # CloseTask /\ tasks'[d] = t
        /\ received'[d] \in {received[d], Append(received[d], h)}
    BY <1>10 DEF Takes
  <2>2. h \in Task /\ t \in Seq(Task) /\ ToSet(tasks[d]) = {h} \cup ToSet(t)
    BY <1>1, <2>1, Shortened
  <2>3. /\ Ordered(t) /\ Before(received[d], t)
        /\ \A i \in DOMAIN t : Precedes(h, t[i])
        /\ \A i \in DOMAIN received[d] : Precedes(received[d][i], h)
    BY <1>1, <1>2, <2>1, TailOrdered
  <2>4. h \in Got
    BY <2>1, <2>2 DEF Task, Got
  <2> HIDE DEF h, t
  <2>5. Ordered(Append(received[d], h))
    BY <1>1, <1>2, <2>3, <2>4, OrderedAppended
  <2>6. Before(Append(received[d], h), t)
    BY <1>1, <2>3, <2>4, BeforeAppended
  <2> QED
    BY <1>2, <2>1, <2>2, <2>3, <2>5, <2>6
<1>11. ASSUME NEW c \in Channels \ {d}, WriteTo(c, d), Queues(d, Current(c))
       PROVE  /\ Ordered(received'[d]) /\ Ordered(tasks'[d])
              /\ Before(received'[d], tasks'[d])
              /\ \A m \in ToSet(tasks'[d]) \cap Message : m.from # d
  <2> DEFINE x == Current(c)
  <2>1. x \in Task /\ x.from # d
    BY <1>11, CurrentIsMessage DEF WriteTo, Task, Typed, Current
  <2>2. \A m \in Have(d) : Precedes(m, x)
    BY <1>11, HadPrecedes
  <2>3. tasks'[d] = Append(tasks[d], x) /\ received'[d] = received[d]
    BY <1>11 DEF Queues
  <2> HIDE DEF x
  <2>4. /\ \A i \in DOMAIN tasks[d] : Precedes(tasks[d][i], x)
        /\ \A i \in DOMAIN received[d] : Precedes(received[d][i], x)
    BY <1>3, <2>2 DEF Have
  <2>5. Ordered(Append(tasks[d], x))
    BY <1>1, <1>2, <2>1, <2>4, OrderedAppended
  <2>6. Before(received[d], Append(tasks[d], x))
    BY <1>1, <1>2, <2>1, <2>4, AppendedBefore
  <2>7. ToSet(Append(tasks[d], x)) = ToSet(tasks[d]) \cup {x}
    BY <1>1, <2>1, Appended
  <2> QED
    BY <1>2, <2>1, <2>3, <2>5, <2>6, <2>7
<1>12. CASE WriteTo(d, d) /\ Reads(d, Current(d))
  <2> DEFINE x == Current(d)
  <2>1. x \in Got /\ x.from = d
    BY <1>12, CurrentIsMessage DEF WriteTo, Got, Typed, Current
  <2>2. \A m \in Have(d) : Precedes(m, x)
    BY <1>12, HadPrecedes
  <2>3. tasks'[d] = tasks[d] /\ received'[d] = Append(received[d], x)
    BY <1>12 DEF Reads
  <2> HIDE DEF x
  <2>4. \A i \in DOMAIN received[d] : Precedes(received[d][i], x)
    BY <1>3, <2>2 DEF Have
  <2>5. \A i \in DOMAIN tasks[d] : Precedes(x, tasks[d][i])
    BY <1>2, <1>3, <2>1 DEF Precedes
  <2>6. Ordered(Append(received[d], x))
    BY <1>1, <1>2, <2>1, <2>4, OrderedAppended
  <2>7. Before(Append(received[d], x), tasks[d])
    BY <1>1, <1>2, <2>1, <2>5, BeforeAppended
  <2> QED
    BY <1>2, <2>3, <2>6, <2>7
<1> QED
  BY <1>7, <1>8, <1>9, <1>10, <1>11, <1>12, QueuesMove DEF Typed

LEMMA BegunNext ==
  ASSUME Typed, Typed', [MessagesNext]_allVars, NEW d \in Channels, BegunFor(d)
  PROVE  BegunFor(d)'
<1> SUFFICES ASSUME NEW m \in Have(d)' \cap Message
             PROVE  /\ m.n <= Len(audience'[m.from])
                    /\ step'[m.from] = "route" /\ m = Current(m.from)'
                         => d \notin todo'[m.from]
  BY DEF BegunFor
<1> DEFINE f == m.from
<1>1. f \in Channels /\ m.n \in Int
  BY MessagesAssumption DEF Message
<1>2. Len(audience[f]) \in Nat /\ Len(audience'[f]) >= Len(audience[f])
      /\ Len(audience'[f]) \in Nat
  BY <1>1, AudienceKept
<1>3. Current(f)'.n = Len(audience'[f]) /\ Current(f).n = Len(audience[f])
  BY DEF Current
<1>4. CASE m \in Have(d)
  <2>1. /\ m.n <= Len(audience[f])
        /\ step[f] = "route" /\ m = Current(f) => d \notin todo[f]
    BY <1>4 DEF BegunFor
  <2>2. link[d] # "new"
    BY <1>4, NoElements DEF Typed, QueuesTyped, Have
  <2>3. CASE Started(f)
    <3>1. Len(audience'[f]) = Len(audience[f]) + 1
      BY <1>1, <2>3, StartedRoute
    <3>2. m.n # Len(audience'[f])
      BY <1>1, <1>2, <2>1, <3>1
    <3> QED
      BY <1>1, <1>2, <1>3, <2>1, <3>1, <3>2
  <2>4. CASE /\ audience'[f] = audience[f]
             /\ step'[f] = "route" => step[f] = "route"
             /\ step'[f] = "route" /\ d \in todo'[f]
                  => d \in todo[f] \/ link[d] = "new"
    <3>1. Current(f)' = Current(f)
      BY <2>4 DEF Current
    <3> QED
      BY <2>1, <2>2, <2>4, <3>1
  <2> QED
    BY <1>1, <2>3, <2>4, RoutesMove
<1>5. ASSUME NEW c \in Channels, WriteTo(c, d), m = Current(c)
      PROVE  /\ m.n <= Len(audience'[f]) /\ d \notin todo'[f]
  <2>1. f = c /\ m.n = Len(audience[c])
    BY <1>5 DEF Current
  <2>2. todo' = [todo EXCEPT ![c] = @ \ {d}]
    BY <1>5 DEF WriteTo
  <2> QED
    BY <1>1, <1>2, <2>1, <2>2 DEF Typed, SendersTyped
<1> QED
  BY <1>4, <1>5, HaveMoves

LEMMA SentNext ==
  ASSUME Typed, Typed', [MessagesNext]_allVars, Sent
  PROVE  Sent'
<1> SUFFICES ASSUME NEW c \in Channels, NEW n \in 1 .. Len(audience'[c]),
                    NEW d \in audience'[c][n]
             PROVE  SentTo(c, n, d)'
  BY DEF Sent
<1>1. /\ Len(audience[c]) \in Nat /\ Len(audience'[c]) \in Nat
      /\ \A i \in 1 .. Len(audience[c]) : audience'[c][i] = audience[c][i]
  BY AudienceKept
<1>2. d \in Channels
  <2>1. audience'[c] \in Seq(SUBSET Channels)
    BY DEF Typed, SendersTyped
  <2>2. audience'[c][n] \in SUBSET Channels
    BY <2>1, Elements
  <2> QED
    BY <2>2
<1>3. CASE Started(c) /\ n = Len(audience[c]) + 1
  <2>1. link[d] = "websocket" /\ step'[c] = "route" /\ todo'[c] = hall
        /\ n = Len(audience'[c])
    BY <1>3, StartedRoute
  <2>2. d \in hall
    BY <1>2, <2>1 DEF Typed, ServerInv, TypeOK
  <2> QED
    BY <2>1, <2>2 DEF SentTo
<1>4. CASE n \in 1 .. Len(audience[c])
  <2>1. d \in audience[c][n]
    BY <1>1, <1>4
  <2>2. \/ link[d] = "closed"
        \/ [from |-> c, n |-> n] \in Have(d)
        \/ step[c] = "route" /\ n = Len(audience[c]) /\ d \in todo[c]
    BY <1>4, <2>1 DEF Sent, SentTo
  <2>3. link[d] \in {"websocket", "closed"}
    BY <1>4, <2>1 DEF Typed, Senders
  <2>4. link[d] = "closed" => link'[d] = "closed"
    BY <1>2, LinksMove DEF Typed
  <2>5. CASE [from |-> c, n |-> n] \in Have(d)
    <3>1. link'[d] = "closed" \/ link[d] = "active" \/ Have(d) \subseteq Have(d)'
      BY <1>2, HaveMoves
    <3> QED
      BY <2>3, <2>5, <3>1 DEF SentTo
  <2>6. CASE /\ step[c] = "route" /\ n = Len(audience[c]) /\ d \in todo[c]
             /\ link[d] = "websocket"
    <3>1. CASE RestartServer
      BY <1>2, <2>6, <3>1 DEF RestartServer, Restart, SentTo
    <3>2. CASE WriteTo(c, d)
      <4>1. Current(c) \in Have(d)'
        BY <1>2, <2>6, <3>2, WrittenIsHad
      <4> QED
        BY <2>6, <4>1 DEF Current, SentTo
    <3>3. CASE audience'[c] = audience[c] /\ step'[c] = "route" /\ d \in todo'[c]
      BY <2>6, <3>3 DEF SentTo
    <3> QED
      BY <1>2, <2>6, <3>1, <3>2, <3>3, RoutesMove DEF Started
  <2> QED
    BY <2>2, <2>3, <2>4, <2>5, <2>6 DEF SentTo
<1>5. \/ n \in 1 .. Len(audience[c])
      \/ Started(c) /\ n = Len(audience[c]) + 1
  <2>1. CASE Started(c)
    <3>1. Len(audience'[c]) = Len(audience[c]) + 1
      BY <2>1, StartedRoute
    <3> QED
      BY <1>1, <2>1, <3>1
  <2>2. CASE audience'[c] = audience[c]
    BY <2>2
  <2> QED
    BY <2>1, <2>2, RoutesMove
<1> QED
  BY <1>3, <1>4, <1>5

LEMMA NoGapNext ==
  ASSUME Typed, Typed', [MessagesNext]_allVars, Sent, NEW d \in Channels,
         QueuedIn(d), BegunFor(d), NoGapIn(d)
  PROVE  NoGapIn(d)'
<1> SUFFICES ASSUME NEW m \in Have(d)' \cap Message, NEW n \in 1 .. m.n - 1,
                    d \in audience'[m.from][n]
             PROVE  /\ [from |-> m.from, n |-> n] \in Have(d)'
                    /\ m \in ToSet(received'[d])
                         => [from |-> m.from, n |-> n] \in ToSet(received'[d])
  BY DEF NoGapIn
<1> DEFINE f == m.from
           p == [from |-> m.from, n |-> n]
           Task == Message \cup {Notice, CloseTask}
           Got == Message \cup {Notice}
<1>1. /\ f \in Channels /\ m.n \in Int /\ m.n >= 1 /\ m.n <= MaxMessages
      /\ p \in Message /\ p.from = f /\ p.n = n /\ n \in Nat /\ n < m.n
  <2>1. f \in Channels /\ m.n \in 1 .. MaxMessages
    BY DEF Message
  <2>2. m.n \in Int /\ m.n >= 1 /\ m.n <= MaxMessages
    BY <2>1, MessagesAssumption
  <2>3. n \in 1 .. MaxMessages /\ n \in Nat /\ n < m.n
    BY <2>2, MessagesAssumption
  <2>4. p \in Message
    BY <2>1, <2>3 DEF Message
  <2> QED
    BY <2>1, <2>2, <2>3, <2>4
<1>2. /\ Len(audience[f]) \in Nat
      /\ \A i \in 1 .. Len(audience[f]) : audience'[f][i] = audience[f][i]
  BY <1>1, AudienceKept
<1>3. /\ tasks[d] \in Seq(Task) /\ received[d] \in Seq(Got)
      /\ Notice \notin Message /\ CloseTask \notin Message
      /\ Notice \in Got
  BY MessagesAssumption DEF Typed, QueuesTyped
<1>4. Have(d) = ToSet(received[d]) \cup ToSet(tasks[d])
      /\ Have(d)' = ToSet(received'[d]) \cup ToSet(tasks'[d])
  BY DEF Have
<1>5. ToSet(received[d]) \subseteq ToSet(received'[d])
  BY HaveMoves
<1> HIDE DEF Task, Got, p
<1>6. ASSUME NEW c \in Channels, WriteTo(c, d), m = Current(c)
      PROVE  p \in Have(d)' /\ (m \in ToSet(received'[d]) => p \in ToSet(received'[d]))
  <2>1. /\ f = c /\ m.n = Len(audience[c]) /\ step[c] = "route"
        /\ d \in todo[c] /\ UNCHANGED <<audience, link>>
    BY <1>6 DEF Current, WriteTo, history, vars
  <2>2. n \in 1 .. Len(audience[c]) /\ n # Len(audience[c])
    BY <1>1, <2>1
  <2>3. d \in audience[c][n]
    BY <2>1
  <2>4. link[d] = "closed" \/ p \in Have(d)
    BY <2>1, <2>2, <2>3 DEF Sent, SentTo, p
  <2>5. m \notin Have(d)
    BY <1>6, <2>1 DEF BegunFor
  <2>6. link[d] # "closed"
    <3>1. CASE d = c
      BY <2>1, <3>1 DEF Typed, Senders, Sending
    <3>2. CASE d # c
      <4>1. link[d] = "closed" => d \notin hall
        BY DEF Typed, ServerInv, TypeOK
      <4>2. d \notin hall => UNCHANGED queues
        BY <1>6, <3>2 DEF WriteTo, queues
      <4> QED
        BY <1>4, <2>5, <4>1, <4>2 DEF queues
    <3> QED
      BY <3>1, <3>2
  <2>7. p \in Have(d)
    BY <2>4, <2>6
  <2>8. link[d] = "websocket"
    BY <2>1, <2>2, <2>3, <2>6 DEF Typed, Senders
  <2>9. p \in Have(d)'
    <3>1. link'[d] = "closed" \/ link[d] = "active" \/ Have(d) \subseteq Have(d)'
      BY HaveMoves
    <3> QED
      BY <2>1, <2>7, <2>8, <3>1
  <2>10. CASE d = c
    <3>1. p \notin ToSet(tasks[d])
      BY <1>1, <2>1, <2>10 DEF QueuedIn
    <3> QED
      BY <1>4, <1>5, <2>7, <2>9, <3>1
  <2>11. CASE d # c
    <3>1. received' = received
      BY <1>6, <2>11 DEF WriteTo
    <3> QED
      BY <1>4, <2>5, <2>9, <3>1
  <2> QED
    BY <2>10, <2>11
<1>7. ASSUME m \in Have(d), \A c \in Channels : WriteTo(c, d) => m # Current(c)
      PROVE  p \in Have(d)' /\ (m \in ToSet(received'[d]) => p \in ToSet(received'[d]))
  <2>1. m.n <= Len(audience[f])
    BY <1>7 DEF BegunFor
  <2>2. n \in 1 .. Len(audience[f])
    BY <1>1, <1>2, <2>1
  <2>3. d \in audience[f][n]
    BY <1>2, <2>2
  <2>4. link[d] \in {"websocket", "closed"}
    BY <1>1, <2>2, <2>3 DEF Typed, Senders
  <2>5. p \in Have(d) /\ (m \in ToSet(received[d]) => p \in ToSet(received[d]))
    BY <1>7, <2>3 DEF NoGapIn, p
  <2>6. CASE Stays(d)
    BY <1>4, <2>5, <2>6 DEF Stays
  <2>7. CASE Drops(d)
    <3>1. ToSet(Append(received[d], Notice)) = ToSet(received[d]) \cup {Notice}
      BY <1>3, Appended
    <3>2. m \in ToSet(received[d])
      BY <1>3, <1>4, <2>7, <3>1, NoElements DEF Drops
    <3> QED
      BY <1>4, <1>5, <2>5, <3>2
  <2>8. CASE Ends(d)
    <3>1. received'[d] = received[d] /\ link'[d] = "websocket"
      BY <2>8 DEF Ends
    <3>2. Have(d) \subseteq Have(d)'
      BY <2>4, <3>1, HaveMoves
    <3> QED
      BY <2>5, <3>1, <3>2
  <2>9. CASE Takes(d)
    <3> DEFINE h == Head(tasks[d])
               t == Tail(tasks[d])
    <3>1. /\ tasks[d] # <<>> /\ h # CloseTask /\ link'[d] = link[d]
          /\ link[d] # "closed" /\ received'[d] = Append(received[d], h)
      BY <2>4, <2>9 DEF Takes
    <3>2. /\ h \in Task /\ t \in Seq(Task) /\ ToSet(tasks[d]) = {h} \cup ToSet(t)
      BY <1>3, <3>1, Shortened
    <3>3. \A i \in DOMAIN t : Precedes(h, t[i])
      BY <1>3, <3>1, TailOrdered DEF QueuedIn
    <3>4. h \in Got
      BY <3>1, <3>2 DEF Task, Got
    <3> HIDE DEF h, t
    <3>5. ToSet(received'[d]) = ToSet(received[d]) \cup {h}
      BY <1>3, <3>1, <3>4, Appended
    <3>6. Have(d) \subseteq Have(d)'
      BY <2>4, <3>1, HaveMoves
    <3>7. ASSUME m = h PROVE p \in ToSet(received[d])
      <4>1. p # h
        BY <1>1, <3>7
      <4>2. ASSUME p \in ToSet(t) PROVE FALSE
        <5>1. PICK i \in DOMAIN t : t[i] = p
          BY <3>2, <4>2, Elements
        <5>2. Precedes(h, p)
          BY <3>3, <5>1
        <5>3. m.n < n
          BY <1>1, <3>7, <5>2 DEF Precedes
        <5> QED
          BY <1>1, <5>3
      <4> QED
        BY <1>4, <2>5, <3>2, <4>1, <4>2
    <3> QED
      BY <2>5, <3>5, <3>6, <3>7
  <2>10. ASSUME NEW c \in Channels \ {d}, WriteTo(c, d), Queues(d, Current(c))
         PROVE  p \in Have(d)' /\ received'[d] = received[d]
    <3>1. received'[d] = received[d] /\ link'[d] = link[d] /\ link[d] # "closed"
      BY <2>10 DEF Queues
    <3>2. Have(d) \subseteq Have(d)'
      BY <2>4, <3>1, HaveMoves
    <3> QED
      BY <2>5, <3>1, <3>2
  <2>11. CASE WriteTo(d, d) /\ Reads(d, Current(d))
    <3>1. Current(d) \in Got
      BY <2>11, CurrentIsMessage DEF WriteTo, Got, Typed
    <3>2. ToSet(Append(received[d], Current(d)))
            = ToSet(received[d]) \cup {Current(d)}
      BY <1>3, <3>1, Appended
    <3>3. received'[d] = Append(received[d], Current(d)) /\ tasks'[d] = tasks[d]
      BY <2>11 DEF Reads
    <3> QED
      BY <1>4, <1>7, <2>5, <2>11, <3>2, <3>3
  <2> QED
    BY <2>5, <2>6, <2>7, <2>8, <2>9, <2>10, <2>11, QueuesMove DEF Typed
<1> QED
  BY <1>6, <1>7, HaveMoves DEF p

-----------------------------------------------------------------------------
(* The log and the disk.                                                   *)

LEMMA LoggedNext ==
  ASSUME Typed, Typed', [MessagesNext]_allVars, Logged
  PROVE  Logged'
<1>1. log \in Seq(Message)
  BY DEF Typed, StorageTyped
<1>2. ASSUME NEW m \in Message, Routed(m) PROVE Routed(m)'
  <2>1. m.from \in Channels /\ m.n \in Int
    BY MessagesAssumption DEF Message
  <2>2. /\ Len(audience[m.from]) \in Nat /\ Len(audience'[m.from]) \in Nat
        /\ Len(audience'[m.from]) >= Len(audience[m.from])
    BY <2>1, AudienceKept
  <2>3. CASE Started(m.from)
    <3>1. Len(audience'[m.from]) = Len(audience[m.from]) + 1
      BY <2>1, <2>3, StartedRoute
    <3>2. m.n # Len(audience'[m.from])
      BY <1>2, <2>1, <2>2, <3>1 DEF Routed
    <3>3. Current(m.from)'.n = Len(audience'[m.from])
      BY DEF Current
    <3>4. m.n <= Len(audience'[m.from])
      BY <1>2, <2>1, <2>2 DEF Routed
    <3> QED
      BY <3>2, <3>3, <3>4 DEF Routed
  <2>4. CASE /\ audience'[m.from] = audience[m.from]
             /\ step'[m.from] = "route" => step[m.from] = "route"
    <3>1. Current(m.from)' = Current(m.from)
      BY <2>4 DEF Current
    <3> QED
      BY <1>2, <2>4, <3>1 DEF Routed
  <2> QED
    BY <2>1, <2>3, <2>4, RoutesMove
<1>3. ASSUME UNCHANGED log PROVE Logged'
  <2>1. \A i \in DOMAIN log : log[i] \in Message
    BY <1>1, Elements
  <2> QED
    BY <1>2, <1>3, <2>1 DEF Logged
<1>4. ASSUME NEW c \in Channels, SaveMessage(c) PROVE Logged'
  <2> DEFINE x == Current(c)
             l == Append(log, x)
  <2>1. /\ step[c] = "log" /\ step' = [step EXCEPT ![c] = "none"]
        /\ UNCHANGED audience /\ log' \in {log, l}
    BY <1>4 DEF SaveMessage, history
  <2>2. x \in Message /\ x.from = c /\ x.n = Len(audience[c])
    BY <2>1, CurrentIsMessage DEF Typed, Current
  <2>3. /\ DOMAIN l = 1 .. Len(log) + 1 /\ Len(log) \in Nat
        /\ DOMAIN log = 1 .. Len(log)
        /\ \A i \in 1 .. Len(log) : l[i] = log[i] /\ log[i] \in Message
        /\ l[Len(log) + 1] = x
    <3>1. l \in Seq(Message) /\ Len(l) = Len(log) + 1
      BY <1>1, <2>2, Appended
    <3> QED
      BY <1>1, <2>2, <3>1, Appended, Elements
  <2>4. step'[c] # "route" /\ Len(audience[c]) \in Nat
    BY <2>1 DEF Typed, SendersTyped
  <2> HIDE DEF x, l
  <2>5. ASSUME NEW i \in DOMAIN l, NEW m, m = l[i] PROVE Routed(m)'
    <3>1. CASE i = Len(log) + 1
      BY <2>1, <2>2, <2>3, <2>4, <2>5, <3>1 DEF Routed
    <3>2. CASE i \in 1 .. Len(log)
      <4>1. Routed(m) /\ m \in Message
        BY <2>3, <2>5, <3>2 DEF Logged
      <4> QED
        BY <1>2, <4>1
    <3> QED
      BY <2>3, <2>5, <3>1, <3>2
  <2>6. ASSUME log' = l PROVE Logged'
    BY <2>5, <2>6 DEF Logged, Routed
  <2> QED
    BY <1>3, <2>1, <2>6
<1>5. ASSUME NEW c \in Channels,
             \/ Serve(c) \/ SendText(c) \/ SendFile(c) \/ SaveFile(c)
             \/ EndRoute(c) \/ Write(c) \/ CloseNow(c)
             \/ \E d \in Channels : WriteTo(c, d)
      PROVE  UNCHANGED log
  BY <1>5
  DEF Serve, SendText, SendFile, SaveFile, EndRoute, Write, CloseNow, WriteTo,
      storage
<1>6. UNCHANGED allVars \/ RestartServer => UNCHANGED log
  BY DEF allVars, RestartServer, storage
<1> QED
  BY <1>3, <1>4, <1>5, <1>6, MessagesSteps

LEMMA FiledNext ==
  ASSUME Typed, Typed', [MessagesNext]_allVars, Filed
  PROVE  Filed'
<1> USE MessagesAssumption DEF Typed, SendersTyped, StorageTyped
<1>1. /\ saved \cup unsaved \subseteq files /\ files \subseteq Message
      /\ \A c \in Channels : step[c] = "file" => Coming(c) \in files
      /\ \A m \in files : FileKept(m)
  BY DEF Filed
<1>2. \A m \in Message : m.from \in Channels /\ m.n \in Int
  BY DEF Message
<1>3. \A c \in Channels : Len(audience[c]) \in Nat
  OBVIOUS
\* A step that begins no route and no file.
<1>4. ASSUME UNCHANGED <<audience, files, saved, unsaved>>,
             \A c \in Channels :
               /\ step'[c] = "file" => step[c] = "file"
               /\ step[c] = "file" => step'[c] = "file" \/ link'[c] = "closed"
               /\ link[c] = "closed" => link'[c] = "closed"
      PROVE  Filed'
  <2>1. \A c \in Channels : Coming(c)' = Coming(c)
    BY <1>4 DEF Coming
  <2>2. \A c \in Channels : step'[c] = "file" => Coming(c)' \in files'
    BY <1>1, <1>4, <2>1
  <2>3. ASSUME NEW m \in files PROVE FileKept(m)'
    BY <1>1, <1>2, <1>4, <2>3 DEF FileKept
  <2> QED
    BY <1>1, <1>4, <2>2, <2>3 DEF Filed
<1>5. CASE UNCHANGED allVars
  BY <1>4, <1>5 DEF allVars, vars, history, routing, storage
<1>6. CASE RestartServer
  <2>1. UNCHANGED <<history, storage>> /\ \A c \in Channels : step'[c] = "none"
    BY <1>6 DEF RestartServer
  <2>2. \A c \in Channels :
          /\ step[c] = "file" => link'[c] = "closed"
          /\ link[c] = "closed" => link'[c] = "closed"
    BY <1>6 DEF RestartServer, Restart, Senders, Sending
  <2> QED
    BY <1>4, <2>1, <2>2 DEF history, storage
<1>7. ASSUME NEW c \in Channels, Serve(c) \/ CloseNow(c) PROVE Filed'
  <2>1. UNCHANGED <<history, step, storage>>
    BY <1>7 DEF Serve, CloseNow, routing
  <2>2. \A d \in Channels : link[d] = "closed" => link'[d] = "closed"
    BY LinksMove
  <2> QED
    BY <1>4, <2>1, <2>2 DEF history, storage
<1>8. ASSUME NEW c \in Channels,
             EndRoute(c) \/ Write(c) \/ \E d \in Channels : WriteTo(c, d)
      PROVE  Filed'
  <2>1. /\ UNCHANGED <<history, link, storage>>
        /\ \/ UNCHANGED step
           \/ step[c] = "route" /\ step' = [step EXCEPT ![c] = "log"]
    BY <1>8 DEF EndRoute, Write, WriteTo, routing, vars
  <2> QED
    BY <1>4, <2>1 DEF history, storage
<1>9. ASSUME NEW c \in Channels, SaveMessage(c) PROVE Filed'
  <2>1. /\ UNCHANGED <<history, link, saved, unsaved>>
        /\ step[c] = "log" /\ step' = [step EXCEPT ![c] = "none"]
    BY <1>9 DEF SaveMessage, vars
  <2> QED
    BY <1>4, <2>1 DEF history
<1>10. ASSUME NEW c \in Channels, SendText(c) PROVE Filed'
  <2>1. /\ UNCHANGED <<files, saved, unsaved, link>>
        /\ StartRoute(c) /\ step[c] # "file" /\ link[c] = "websocket"
    BY <1>10 DEF SendText, Send, Idle, storage, vars
  <2>2. /\ \A d \in Channels \ {c} :
             step'[d] = step[d] /\ audience'[d] = audience[d]
        /\ step'[c] = "route" /\ Len(audience'[c]) = Len(audience[c]) + 1
    BY <2>1, RouteStarts
  <2>3. ASSUME NEW m \in files PROVE FileKept(m)'
    <3>1. CASE m.from = c
      <4>1. m.n <= Len(audience[c]) /\ m \in saved \cup unsaved
        BY <1>1, <2>1, <3>1 DEF FileKept
      <4>2. m.n <= Len(audience'[c])
        BY <1>1, <1>2, <1>3, <2>2, <4>1
      <4> QED
        BY <2>1, <3>1, <4>1, <4>2 DEF FileKept
    <3>2. CASE m.from # c
      BY <1>1, <1>2, <2>1, <2>2, <3>2 DEF FileKept
    <3> QED
      BY <3>1, <3>2
  <2>4. \A d \in Channels : step'[d] = "file" => Coming(d)' \in files'
    BY <1>1, <2>1, <2>2 DEF Coming
  <2> QED
    BY <1>1, <2>1, <2>3, <2>4 DEF Filed
<1>11. ASSUME NEW c \in Channels, SendFile(c) PROVE Filed'
  <2>1. /\ UNCHANGED <<audience, saved, unsaved, link>>
        /\ files' = files \cup {Coming(c)} /\ step[c] = "none"
        /\ step' = [step EXCEPT ![c] = "file"]
    BY <1>11 DEF SendFile, Send, Idle, storage, vars
  <2>2. \A d \in Channels : Coming(d)' = Coming(d)
    BY <2>1 DEF Coming
  <2>3. step'[c] = "file" /\ \A d \in Channels \ {c} : step'[d] = step[d]
    BY <2>1
  <2>4. ASSUME NEW m \in files PROVE FileKept(m)'
    BY <1>1, <1>2, <2>1, <2>3 DEF FileKept
  <2>5. FileKept(Coming(c))'
    BY <2>1, <2>2, <2>3 DEF FileKept, Coming
  <2>6. \A d \in Channels : step'[d] = "file" => Coming(d)' \in files'
    BY <1>1, <2>1, <2>2, <2>3
  <2>7. \A m \in files' : FileKept(m)'
    <3>1. Coming(c)' = Coming(c)
      BY <2>2
    <3> QED
      BY <2>1, <2>4, <2>5, <3>1
  <2> QED
    BY <1>1, <2>1, <2>6, <2>7 DEF Filed
<1>12. ASSUME NEW c \in Channels, SaveFile(c) PROVE Filed'
  <2>1. /\ UNCHANGED <<files, link>> /\ StartRoute(c) /\ step[c] = "file"
        /\ \/ saved' = saved \cup {Coming(c)} /\ unsaved' = unsaved
           \/ saved' = saved /\ unsaved' = unsaved \cup {Coming(c)}
    BY <1>12 DEF SaveFile, vars
  <2>2. /\ \A d \in Channels \ {c} :
             step'[d] = step[d] /\ audience'[d] = audience[d]
        /\ step'[c] = "route" /\ Len(audience'[c]) = Len(audience[c]) + 1
    BY <2>1, RouteStarts
  <2>3. Coming(c) \in files
    BY <1>1, <2>1
  <2>4. /\ saved \cup unsaved \cup {Coming(c)} = saved' \cup unsaved'
        /\ saved' \cup unsaved' \subseteq files'
    BY <1>1, <2>1, <2>3
  <2>5. ASSUME NEW m \in files PROVE FileKept(m)'
    <3>1. CASE m.from # c
      BY <1>1, <1>2, <2>1, <2>2, <2>4, <3>1 DEF FileKept
    <3>2. CASE m.from = c /\ m.n <= Len(audience[c])
      <4>1. m \in saved \cup unsaved
        BY <1>1, <1>2, <1>3, <3>2 DEF FileKept
      <4>2. m.n <= Len(audience'[c])
        BY <1>1, <1>2, <1>3, <2>2, <3>2
      <4> QED
        BY <2>4, <3>2, <4>1, <4>2 DEF FileKept
    <3>3. CASE m.from = c /\ m.n = Len(audience[c]) + 1
      <4>1. m = Coming(c)
        BY <1>1, <3>3 DEF Message, Coming
      <4>2. m.n <= Len(audience'[c])
        BY <1>1, <1>2, <1>3, <2>2, <3>3
      <4> QED
        BY <2>4, <3>3, <4>1, <4>2 DEF FileKept
    <3> QED
      BY <1>1, <3>1, <3>2, <3>3 DEF FileKept
  <2>6. \A d \in Channels : step'[d] = "file" => Coming(d)' \in files'
    BY <1>1, <2>1, <2>2 DEF Coming
  <2> QED
    BY <2>1, <2>4, <2>5, <2>6 DEF Filed
<1> QED
  BY <1>5, <1>6, <1>7, <1>8, <1>9, <1>10, <1>11, <1>12, MessagesSteps

-----------------------------------------------------------------------------
(* The specification.                                                      *)

LEMMA MessagesInitInv == MessagesInit => MessagesInv
<1> SUFFICES ASSUME MessagesInit PROVE MessagesInv
  OBVIOUS
<1>1. /\ ServerInv
      /\ \A c \in Channels : link[c] = "new"
      /\ step = [c \in Channels |-> "none"]
      /\ todo = [c \in Channels |-> {}]
      /\ tasks = [c \in Channels |-> <<>>]
      /\ received = [c \in Channels |-> <<>>]
      /\ audience = [c \in Channels |-> <<>>]
      /\ files = {} /\ saved = {} /\ unsaved = {} /\ log = <<>>
      /\ messages = 0 /\ faults = 0
  BY ServerInitInv DEF MessagesInit, Init
<1>2. /\ \A S : <<>> \in Seq(S)
      /\ Len(<<>>) = 0 /\ DOMAIN <<>> = {} /\ ToSet(<<>>) = {}
  BY NoElements
<1>3. QueuesTyped
  <2>1. tasks \in [Channels -> Seq(Message \cup {Notice, CloseTask})]
    BY <1>1, <1>2
  <2>2. received \in [Channels -> Seq(Message \cup {Notice})]
    BY <1>1, <1>2
  <2> QED
    BY <1>1, <2>1, <2>2 DEF QueuesTyped
<1>4. SendersTyped
  <2>1. audience \in [Channels -> Seq(SUBSET Channels)]
    BY <1>1, <1>2
  <2> QED
    BY <1>1, <2>1, MessagesAssumption DEF SendersTyped
<1>5. StorageTyped
  BY <1>1, <1>2, MessagesAssumption DEF StorageTyped
<1>6. Senders
  BY <1>1, <1>2 DEF Senders, Sending
<1>7. \A d \in Channels :
        /\ tasks[d] = <<>> /\ received[d] = <<>> /\ audience[d] = <<>>
        /\ Have(d) = {}
  BY <1>1, <1>2 DEF Have
<1>8. Told
  BY <1>2, <1>7 DEF Told, ToldIn
<1>9. Queued
  BY <1>2, <1>7 DEF Queued, QueuedIn, Ordered, Before
<1>10. Begun /\ NoGap
  BY <1>7 DEF Begun, BegunFor, NoGap, NoGapIn
<1>11. Sent
  BY <1>2, <1>7 DEF Sent
<1>12. Logged /\ Filed
  BY <1>1, <1>2 DEF Logged, Filed
<1> QED
  BY <1>1, <1>3, <1>4, <1>5, <1>6, <1>8, <1>9, <1>10, <1>11, <1>12
  DEF MessagesInv, Typed

LEMMA MessagesStepInv == MessagesInv /\ [MessagesNext]_allVars => MessagesInv'
<1> SUFFICES ASSUME MessagesInv, [MessagesNext]_allVars PROVE MessagesInv'
  OBVIOUS
<1>1. Typed /\ Typed'
  BY TypedNext DEF MessagesInv
<1>2. ASSUME NEW d \in Channels
      PROVE  ToldIn(d)' /\ QueuedIn(d)' /\ BegunFor(d)' /\ NoGapIn(d)'
  <2>1. Sent /\ ToldIn(d) /\ QueuedIn(d) /\ BegunFor(d) /\ NoGapIn(d)
    BY DEF MessagesInv, Told, Queued, Begun, NoGap
  <2> QED
    BY <1>1, <2>1, ToldNext, QueuedNext, BegunNext, NoGapNext
<1>3. Told' /\ Queued' /\ Begun' /\ NoGap'
  BY <1>2 DEF Told, Queued, Begun, NoGap
<1>4. Sent' /\ Logged' /\ Filed'
  BY <1>1, SentNext, LoggedNext, FiledNext DEF MessagesInv
<1> QED
  BY <1>1, <1>3, <1>4 DEF MessagesInv

LEMMA Messages == MessagesSpec => []MessagesInv
BY MessagesInitInv, MessagesStepInv, PTL DEF MessagesSpec

\* The queues of the loops, what the clients received, the log and the disk
\* keep their types, and no task is left for a channel that is not open.
THEOREM MessagesTypeCorrect == MessagesSpec => []MessagesTypeOK
<1>1. MessagesInv => MessagesTypeOK
  BY DEF MessagesInv, Typed, ServerInv, QueuesTyped, SendersTyped, StorageTyped,
         Filed, MessagesTypeOK
<1> QED
  BY <1>1, Messages, PTL

LEMMA InvInOrder == MessagesInv => InOrder
<1> SUFFICES ASSUME MessagesInv, NEW d \in Channels,
                    NEW i \in DOMAIN received[d], received[d][i] # Notice
             PROVE  LET m == received[d][i]
                        before == {received[d][j] : j \in 1 .. i - 1} \ {Notice}
                    IN  /\ \A o \in before : o.from = m.from => o.n < m.n
                        /\ \A n \in 1 .. m.n - 1 :
                             d \in audience[m.from][n]
                               => [m EXCEPT !.n = n] \in before
  BY DEF InOrder
<1> DEFINE m == received[d][i]
           before == {received[d][j] : j \in 1 .. i - 1} \ {Notice}
<1>1. /\ received[d] \in Seq(Message \cup {Notice}) /\ Notice \notin Message
      /\ Ordered(received[d]) /\ NoGapIn(d)
  BY MessagesAssumption
  DEF MessagesInv, Typed, QueuesTyped, Queued, QueuedIn, NoGap
<1>2. /\ DOMAIN received[d] = 1 .. Len(received[d]) /\ Len(received[d]) \in Nat
      /\ \A j \in 1 .. Len(received[d]) : received[d][j] \in Message \cup {Notice}
      /\ \A x : x \in ToSet(received[d])
                  <=> \E j \in 1 .. Len(received[d]) : received[d][j] = x
  BY <1>1, Elements
<1>3. m \in Message /\ m \in ToSet(received[d]) /\ i \in 1 .. Len(received[d])
  BY <1>2
<1>4. m.n \in Int /\ m.n <= MaxMessages /\ MaxMessages \in Int
  BY <1>3, MessagesAssumption DEF Message
<1>5. ASSUME NEW j \in 1 .. i - 1, received[d][j] # Notice,
             received[d][j].from = m.from
      PROVE  received[d][j].n < m.n
  <2>1. j \in 1 .. Len(received[d]) /\ j < i
    BY <1>2, <1>3
  <2>2. received[d][j] \in Message /\ Precedes(received[d][j], m)
    BY <1>1, <1>2, <1>3, <1>5, <2>1 DEF Ordered
  <2> QED
    BY <1>3, <1>5, <2>2 DEF Precedes
<1>6. ASSUME NEW n \in 1 .. m.n - 1, d \in audience[m.from][n]
      PROVE  [m EXCEPT !.n = n] \in before
  <2> DEFINE p == [from |-> m.from, n |-> n]
  <2>1. /\ [m EXCEPT !.n = n] = p
        /\ p \in Message /\ p.from = m.from /\ p.n = n /\ n < m.n
    <3>1. m \in [from : Channels, n : 1 .. MaxMessages]
      BY <1>3 DEF Message
    <3>2. n \in 1 .. MaxMessages /\ n < m.n
      BY <1>4
    <3> QED
      BY <3>1, <3>2 DEF Message
  <2>2. p \in ToSet(received[d])
    <3>1. m \in Have(d) \cap Message
      BY <1>3 DEF Have
    <3> QED
      BY <1>1, <1>3, <1>6, <3>1 DEF NoGapIn
  <2> HIDE DEF p
  <2>3. PICK j \in 1 .. Len(received[d]) : received[d][j] = p
    BY <1>2, <2>2
  <2>4. j # i
    BY <1>4, <2>1, <2>3
  <2>5. ~(i < j)
    <3>1. SUFFICES ASSUME i < j PROVE FALSE
      OBVIOUS
    <3>2. Precedes(m, p)
      BY <1>1, <1>2, <1>3, <2>3, <3>1 DEF Ordered
    <3>3. m.n < n
      BY <1>3, <2>1, <3>2 DEF Precedes
    <3> QED
      BY <1>4, <2>1, <3>3
  <2>6. j \in 1 .. i - 1
    BY <1>2, <1>3, <2>4, <2>5
  <2> QED
    BY <1>1, <2>1, <2>3, <2>6
<1> QED
  BY <1>5, <1>6

\* A client receives the messages of every other in the order they were sent,
\* each once and without a gap since it was there.
THEOREM ReceivedInOrder == MessagesSpec => []InOrder
BY Messages, InvInOrder, PTL

LEMMA InvLogged == MessagesInv => LoggedIsSent
<1> SUFFICES ASSUME MessagesInv, NEW i \in 1 .. Len(log)
             PROVE  /\ \A d \in audience[log[i].from][log[i].n] :
                         \/ link[d] = "closed"
                         \/ log[i] \in ToSet(received[d]) \cup ToSet(tasks[d])
                    /\ log[i] \in files => log[i] \in saved \cup unsaved
  BY DEF LoggedIsSent
<1> DEFINE m == log[i]
<1>1. log \in Seq(Message)
  BY DEF MessagesInv, Typed, StorageTyped
<1>2. m \in Message /\ i \in DOMAIN log
  BY <1>1, Elements
<1>3. Routed(m)
  BY <1>2 DEF MessagesInv, Logged
<1> HIDE DEF m
<1>4. /\ m.from \in Channels /\ m.n \in Int /\ m.n >= 1
      /\ m = [from |-> m.from, n |-> m.n]
  <2>1. m.from \in Channels /\ m.n \in 1 .. MaxMessages
    BY <1>2 DEF Message
  <2> QED
    BY <1>2, <2>1, MessagesAssumption DEF Message
<1>5. Len(audience[m.from]) \in Nat
  BY <1>4 DEF MessagesInv, Typed, SendersTyped
<1>6. m.n \in 1 .. Len(audience[m.from])
  BY <1>3, <1>4, <1>5 DEF Routed
<1>7. ASSUME NEW d \in audience[m.from][m.n]
      PROVE  link[d] = "closed" \/ m \in ToSet(received[d]) \cup ToSet(tasks[d])
  <2>1. SentTo(m.from, m.n, d)
    BY <1>4, <1>6 DEF MessagesInv, Sent
  <2>2. ~(step[m.from] = "route" /\ m.n = Len(audience[m.from]))
    BY <1>3, <1>4 DEF Routed, Current
  <2> QED
    BY <1>4, <2>1, <2>2 DEF SentTo, Have
<1>8. m \in files => m \in saved \cup unsaved
  BY <1>5, <1>6 DEF MessagesInv, Filed, FileKept
<1> QED
  BY <1>7, <1>8 DEF m

\* What is in the chat_log was written to everyone it was due to, and its file
\* was on the disk before, unless the disk failed at it, whatever else failed,
\* closed or restarted in between.
THEOREM LoggedWasSent == MessagesSpec => []LoggedIsSent
BY Messages, InvLogged, PTL

\* A client that is closed for a login elsewhere was told so before.
THEOREM ToldFirst == MessagesSpec => ToldBeforeClosed
<1>1. MessagesInv =>
        [\A c \in Channels :
           /\ tasks[c] # <<>> /\ Head(tasks[c]) = CloseTask
           /\ link'[c] = "closed"
           => Notice \in ToSet(received[c])]_allVars
  <2> SUFFICES ASSUME MessagesInv, NEW c \in Channels,
                      tasks[c] # <<>>, Head(tasks[c]) = CloseTask
               PROVE  Notice \in ToSet(received[c])
    OBVIOUS
  <2>1. tasks[c] \in Seq(Message \cup {Notice, CloseTask})
    BY DEF MessagesInv, Typed, QueuesTyped
  <2>2. Head(tasks[c]) = tasks[c][1] /\ 1 \in 1 .. Len(tasks[c])
    BY <2>1, Shortened
  <2> QED
    BY <2>2 DEF MessagesInv, Told, ToldIn
<1> QED
  BY <1>1, Messages, PTL DEF ToldBeforeClosed
================================================================================
