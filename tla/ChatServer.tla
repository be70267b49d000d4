----------------------------- MODULE ChatServer -----------------------------
(***************************************************************************)
(* The netty chat server.  A connection enters the hall, shakes hands, and *)
(* then sends messages: a login finds the account in MongoDB, closes the   *)
(* connection the user had before and registers the new one.  Each         *)
(* connection has its event loop, which runs one handler at a time;        *)
(* handlers of different connections interleave.  A connection is closed   *)
(* by its own loop.  Texts and files are in ChatMessages.                  *)
(*                                                                         *)
(* An account with a token passes the check of the login whatever token    *)
(* the message holds; a login without such an account ends in an exception *)
(* that is logged and changes nothing, and is left out.                    *)
(***************************************************************************)
EXTENDS Naturals, FiniteSets

CONSTANTS
  Channels,      \* the connections, each used once
  Users,         \* the accounts
  None,          \* null
  Supported,     \* the channels whose WebSocket version the server supports
  MaxLogins,     \* bound: login messages
  MaxRestarts    \* bound: restarts of the server

ASSUME ChatAssumption ==
  /\ None \notin Channels \cup Users
  /\ Supported \subseteq Channels
  /\ MaxLogins \in Nat /\ MaxRestarts \in Nat

VARIABLES
  link,         \* the state of each connection
  hall,         \* roomChannelGroup of the hall
  handshaker,   \* the shared field: the channel it was made for, or None
  group,        \* GlobalChannel.group
  userChannel,  \* GlobalChannel.USER_CHANNEL
  isActive,     \* chat_user.isActive in MongoDB
  pc,           \* where the handler of each channel is
  user,         \* the user of the login a channel runs
  closing,      \* channels whose loop was asked to close them
  accounts,     \* the users each client was told it is logged in as
  refused,      \* the clients told that their version is not supported
  logins, restarts,  \* how many there were
  overlaps      \* history: per user, the logins that began during another

handshakes == <<handshaker, refused>>
registry == <<group, userChannel>>
counters == <<logins, restarts, overlaps>>
vars == <<link, hall, handshakes, registry, isActive, pc, user, closing,
          accounts, counters>>

Labels == {"idle", "check", "handshake", "kick", "activate", "register"}

TypeOK ==
  /\ link \in [Channels -> {"new", "active", "websocket", "closed"}]
  /\ hall = {c \in Channels : link[c] \in {"active", "websocket"}}
  /\ handshaker \in Channels \cup {None}
  /\ group \subseteq hall
  /\ userChannel \in [Users -> Channels \cup {None}]
  /\ isActive \in [Users -> BOOLEAN]
  /\ pc \in [Channels -> Labels]
  /\ user \in [Channels -> Users \cup {None}]
  /\ closing \subseteq hall
  /\ accounts \in [Channels -> SUBSET Users]
  /\ refused \subseteq Channels
  /\ logins \in 0 .. MaxLogins
  /\ restarts \in 0 .. MaxRestarts
  /\ overlaps \in [Users -> Nat]

Init ==
  /\ link = [c \in Channels |-> "new"]
  /\ hall = {}
  /\ handshaker = None
  /\ group = {}
  /\ userChannel = [u \in Users |-> None]
  /\ isActive = [u \in Users |-> FALSE]
  /\ pc = [c \in Channels |-> "idle"]
  /\ user = [c \in Channels |-> None]
  /\ closing = {}
  /\ accounts = [c \in Channels |-> {}]
  /\ refused = {}
  /\ logins = 0 /\ restarts = 0
  /\ overlaps = [u \in Users |-> 0]

At(c, label) == pc[c] = label

Go(c, label) == pc' = [pc EXCEPT ![c] = label]

\* A closed channel leaves the groups, which listen for it, and the hall.
Close(c) ==
  /\ link' = [link EXCEPT ![c] = "closed"]
  /\ hall' = hall \ {c}
  /\ group' = group \ {c}
  /\ closing' = closing \ {c}

-----------------------------------------------------------------------------
(* Connections.                                                            *)

\* channelActive
Connect(c) ==
  /\ link[c] = "new"
  /\ link' = [link EXCEPT ![c] = "active"]
  /\ hall' = hall \cup {c}
  /\ UNCHANGED <<handshakes, registry, isActive, pc, user, closing, accounts,
                 counters>>

\* channelInactive: the client has gone, or the loop runs a close asked for,
\* or a close frame or an exception ends the connection.
Disconnect(c) ==
  /\ link[c] \in {"active", "websocket"}
  /\ At(c, "idle")
  /\ Close(c)
  /\ UNCHANGED <<handshakes, userChannel, isActive, pc, user, accounts,
                 counters>>

\* handleHttpRequest makes the handshaker: none for a version unknown to it.
NewHandshaker(c) ==
  /\ link[c] = "active"
  /\ At(c, "idle")
  /\ handshaker' = IF c \in Supported THEN c ELSE None
  /\ Go(c, "check")
  /\ UNCHANGED <<link, hall, refused, registry, isActive, user, closing,
                 accounts, counters>>

\* The field is read: no handshaker, no support.
CheckHandshaker(c) ==
  /\ At(c, "check")
  /\ IF handshaker = None
     THEN refused' = refused \cup {c} /\ Go(c, "idle")
     ELSE UNCHANGED refused /\ Go(c, "handshake")
  /\ UNCHANGED <<link, hall, handshaker, registry, isActive, user, closing,
                 accounts, counters>>

\* The field is read again; null is an exception that closes the connection.
Handshake(c) ==
  /\ At(c, "handshake")
  /\ Go(c, "idle")
  /\ IF handshaker = None
     THEN Close(c)
     ELSE /\ link' = [link EXCEPT ![c] = "websocket"]
          /\ UNCHANGED <<hall, group, closing>>
  /\ UNCHANGED <<handshakes, userChannel, isActive, user, accounts,
                 counters>>

-----------------------------------------------------------------------------
(* The login.                                                              *)

\* The channels that run a login of u.
Running(u) == {c \in Channels : user[c] = u}

\* verifyUser reads the account.  Nothing keeps logins of one user apart.
Login(c, u) ==
  /\ link[c] = "websocket"
  /\ At(c, "idle")
  /\ logins < MaxLogins
  /\ logins' = logins + 1
  /\ overlaps' = [overlaps EXCEPT ![u] = IF Running(u) = {} THEN @ ELSE @ + 1]
  /\ user' = [user EXCEPT ![c] = u]
  /\ Go(c, IF isActive[u] THEN "kick" ELSE "activate")
  /\ UNCHANGED <<link, hall, handshakes, registry, isActive, closing, accounts,
                 restarts>>

\* GlobalChannel.getChannel: only open channels are found.
OldChannel(u) == {userChannel[u]} \cap group

\* Mutant of Kick: the other connection is told, not closed.
KickTells(c) ==
  /\ At(c, "kick")
  /\ Go(c, "activate")
  /\ UNCHANGED <<link, hall, group, closing, handshakes, userChannel, isActive,
                 user, accounts, counters>>

\* Close the connection the user had.  Another one's loop does it when it is
\* free; a client that logs in again on its connection closes that one.
Kick(c) ==
  /\ At(c, "kick")
  /\ Go(c, "activate")
  /\ IF c \in OldChannel(user[c])
     THEN Close(c)
     ELSE /\ closing' = closing \cup OldChannel(user[c])
          /\ UNCHANGED <<link, hall, group>>
  /\ UNCHANGED <<handshakes, userChannel, isActive, user, accounts,
                 counters>>

\* Mutant of Activate: the flag is not written.
ActivateNothing(c) ==
  /\ At(c, "activate")
  /\ Go(c, "register")
  /\ UNCHANGED <<link, hall, handshakes, registry, isActive, user, closing,
                 accounts, counters>>

Activate(c) ==
  /\ At(c, "activate")
  /\ isActive' = [isActive EXCEPT ![user[c]] = TRUE]
  /\ Go(c, "register")
  /\ UNCHANGED <<link, hall, handshakes, registry, user, closing, accounts,
                 counters>>

\* GlobalChannel.setChannel and the reply; a closed channel gets neither.
Register(c) ==
  /\ At(c, "register")
  /\ group' = group \cup ({c} \cap hall)
  /\ userChannel' = [userChannel EXCEPT ![user[c]] = c]
  /\ accounts' = IF c \in hall
                 THEN [accounts EXCEPT ![c] = @ \cup {user[c]}] ELSE accounts
  /\ user' = [user EXCEPT ![c] = None]
  /\ Go(c, "idle")
  /\ UNCHANGED <<link, hall, handshakes, isActive, closing, counters>>

\* The server stops and starts: what MongoDB holds stays.
Restart ==
  /\ restarts < MaxRestarts
  /\ restarts' = restarts + 1
  /\ link' = [c \in Channels |-> IF link[c] = "new" THEN "new" ELSE "closed"]
  /\ hall' = {}
  /\ handshaker' = None
  /\ group' = {}
  /\ userChannel' = [u \in Users |-> None]
  /\ pc' = [c \in Channels |-> "idle"]
  /\ user' = [c \in Channels |-> None]
  /\ closing' = {}
  /\ overlaps' = [u \in Users |-> 0]
  /\ UNCHANGED <<isActive, accounts, refused, logins>>

-----------------------------------------------------------------------------
Handle(c) ==
  \/ CheckHandshaker(c)
  \/ Handshake(c)
  \/ Kick(c)
  \/ Activate(c)
  \/ Register(c)

\* The loop of c goes on with its handler, or closes c as it was asked to.
Loop(c) ==
  \/ Handle(c)
  \/ c \in closing /\ Disconnect(c)

Client(c) ==
  \/ Connect(c)
  \/ NewHandshaker(c)
  \/ \E u \in Users : Login(c, u)
  \/ Disconnect(c)

Next == Restart \/ \E c \in Channels : Loop(c) \/ Client(c)

Spec == Init /\ [][Next]_vars

\* Event loops run.
FairSpec == Spec /\ \A c \in Channels : WF_vars(Loop(c))

-----------------------------------------------------------------------------
(* Properties.                                                             *)

\* The connections on which u is logged in and stays so.
Connections(u) == {c \in hall \ closing : u \in accounts[c]}

\* However often a user logs in, on the same connection or on others, through
\* disconnects and restarts, also while a login of the user is under way, it is
\* logged in on one connection at most (LoginMessageHandler.java:58: the old
\* channel is told and replaced by the new one), but for one more for each
\* login that began during another since the server started: later logins do
\* not add to what overlapping ones have left.
OneConnection ==
  \A u \in Users : Cardinality(Connections(u)) <= 1 + overlaps[u]

\* The open connections of u, those asked to close among them.
Open(u) == {c \in hall : u \in accounts[c]}

Crowded(u) == Cardinality(Open(u)) > 1 + overlaps[u]

\* A user who logs in on a further connection does not stay there with the one
\* it had: the connection that was replaced is closed, by its own loop, and
\* only those that overlapping logins have missed stay open.
SupersededCloses == \A u \in Users : Crowded(u) ~> ~Crowded(u)

\* Only a client whose version is not supported is told so ("not supported",
\* ChatWebSocketServerHandler.java:170).
RefusedIsUnsupported == refused \cap Supported = {}
=============================================================================
