---------------------------- MODULE ChatMessages ----------------------------
(***************************************************************************)
(* The messages of the chat server.  A text or a file is written to every  *)
(* channel of the hall, whatever its addressee, and then to the chat_log.  *)
(* A channel is written to by its own loop: a write from another loop is   *)
(* a task in the queue of that loop, and so is a close.  The handlers of   *)
(* ChatServer and those here run in the same loops, one at a time; that    *)
(* channels may share a loop only takes interleavings away.                *)
(*                                                                         *)
(* Of the server's own messages only the notice to a replaced client is    *)
(* modelled; a client that was replaced twice before it is closed needs no *)
(* second notice, for nothing is written after the close.                  *)
(***************************************************************************)
EXTENDS ChatServer, SequencesExt

CONSTANTS
  Notice,       \* loginStatusConflictResponse
  CloseTask,    \* Channel.close as a task
  MaxMessages,  \* bound: messages sent
  MaxRequests,  \* bound: messages and logins together
  MaxFaults     \* bound: files not written and messages not logged

Message == [from : Channels, n : 1 .. MaxMessages]

ASSUME MessagesAssumption ==
  /\ Notice # CloseTask /\ {Notice, CloseTask} \cap Message = {}
  /\ MaxMessages \in Nat /\ MaxRequests \in Nat /\ MaxFaults \in Nat

VARIABLES
  step,      \* where the message handler of each channel is
  todo,      \* the channels a message is yet to be written to
  tasks,     \* the queue of each channel's loop
  received,  \* what was written to each client
  audience,  \* history: per channel and message, the clients it is due to
  files,     \* the messages that are files
  saved,     \* those of them that are on the disk
  unsaved,   \* history: those the disk has failed to keep
  log,       \* chat_log in MongoDB
  messages, faults   \* how many there were

history == <<audience, files, messages>>
routing == <<step, todo>>
queues == <<tasks, received>>
storage == <<saved, unsaved, log, faults>>
allVars == <<vars, history, routing, queues, storage>>

MessagesTypeOK ==
  /\ TypeOK
  /\ step \in [Channels -> {"none", "file", "route", "log"}]
  /\ todo \in [Channels -> SUBSET Channels]
  /\ tasks \in [Channels -> Seq(Message \cup {Notice, CloseTask})]
  /\ \A c \in Channels : link[c] \in {"new", "closed"} => tasks[c] = <<>>
  /\ received \in [Channels -> Seq(Message \cup {Notice})]
  /\ audience \in [Channels -> Seq(SUBSET Channels)]
  /\ saved \cup unsaved \subseteq files /\ files \subseteq Message
  /\ log \in Seq(Message)
  /\ messages \in 0 .. MaxMessages
  /\ faults \in 0 .. MaxFaults

MessagesInit ==
  /\ Init
  /\ step = [c \in Channels |-> "none"]
  /\ todo = [c \in Channels |-> {}]
  /\ tasks = [c \in Channels |-> <<>>]
  /\ received = [c \in Channels |-> <<>>]
  /\ audience = [c \in Channels |-> <<>>]
  /\ files = {} /\ saved = {} /\ unsaved = {}
  /\ log = <<>>
  /\ messages = 0 /\ faults = 0

\* The loop of c runs no handler.
Idle(c) == link[c] = "websocket" /\ At(c, "idle") /\ step[c] = "none"

\* The last message of c, and the next.
Current(c) == [from |-> c, n |-> Len(audience[c])]
Coming(c) == [from |-> c, n |-> Len(audience[c]) + 1]

-----------------------------------------------------------------------------
(* The handlers of ChatServer.                                             *)

\* Mutant of Post: the channel is closed, then told.
PostCloseFirst ==
  tasks' = [d \in Channels |->
    CASE link'[d] = "closed" -> <<>>
      [] d \in closing' \ closing -> tasks[d] \o <<CloseTask, Notice>>
      [] OTHER -> tasks[d]]

\* A kicked channel is told and closed by its loop; the tasks of a closed one
\* fail.
Post ==
  tasks' = [d \in Channels |->
    CASE link'[d] = "closed" -> <<>>
      [] d \in closing' \ closing -> tasks[d] \o <<Notice, CloseTask>>
      [] OTHER -> tasks[d]]

\* A client that replaces its own connection is told at once.
Tell(c) ==
  received' = IF At(c, "kick") /\ c \in OldChannel(user[c])
              THEN [received EXCEPT ![c] = Append(@, Notice)] ELSE received

\* A channel that joins the hall may get the messages being written, or not.
Join(c) ==
  IF link[c] = "new"
  THEN \E S \in SUBSET {d \in Channels : step[d] = "route"} :
         todo' = [d \in Channels |-> todo[d] \cup IF d \in S THEN {c} ELSE {}]
  ELSE UNCHANGED todo

Serve(c) ==
  /\ step[c] = "none"
  /\ Handle(c) \/ Client(c)
  /\ logins' + messages <= MaxRequests
  /\ Post /\ Tell(c) /\ Join(c)
  /\ UNCHANGED <<history, step, storage>>

\* MongoDB and the disk keep what they have.
RestartServer ==
  /\ Restart
  /\ Post
  /\ step' = [c \in Channels |-> "none"]
  /\ todo' = [c \in Channels |-> {}]
  /\ UNCHANGED <<history, received, storage>>

-----------------------------------------------------------------------------
(* Texts and files.                                                        *)

\* MessageRouter.route begins to write to the hall.
StartRoute(c) ==
  /\ step' = [step EXCEPT ![c] = "route"]
  /\ todo' = [todo EXCEPT ![c] = hall]
  /\ audience' = [audience EXCEPT ![c] =
                    Append(@, {d \in Channels : link[d] = "websocket"})]

Send(c) ==
  /\ Idle(c)
  /\ messages < MaxMessages /\ logins + messages < MaxRequests
  /\ messages' = messages + 1

\* UserMessageHandler: texts, emojis, pictures.
SendText(c) ==
  /\ Send(c)
  /\ StartRoute(c)
  /\ UNCHANGED <<vars, files, queues, storage>>

\* FileMessageHandler
SendFile(c) ==
  /\ Send(c)
  /\ files' = files \cup {Coming(c)}
  /\ step' = [step EXCEPT ![c] = "file"]
  /\ UNCHANGED <<vars, audience, todo, queues, storage>>

\* saveFile; a failure is logged, and the message goes out all the same.
SaveFile(c) ==
  /\ step[c] = "file"
  /\ \/ saved' = saved \cup {Coming(c)} /\ UNCHANGED <<unsaved, faults>>
     \/ /\ faults < MaxFaults /\ faults' = faults + 1
        /\ unsaved' = unsaved \cup {Coming(c)} /\ UNCHANGED saved
  /\ StartRoute(c)
  /\ UNCHANGED <<vars, files, messages, queues, log>>

Receive(c, m) == received' = [received EXCEPT ![c] = Append(@, m)]

\* Mutant of WriteTo: a message to the hall is written to its addressee, too.
WriteToTwice(c, d) ==
  /\ step[c] = "route"
  /\ d \in todo[c]
  /\ todo' = [todo EXCEPT ![c] = @ \ {d}]
  /\ IF d = c
     THEN Receive(c, Current(c)) /\ UNCHANGED tasks
     ELSE /\ tasks' = IF d \in hall
                      THEN [tasks EXCEPT ![d] = @ \o <<Current(c), Current(c)>>]
                      ELSE tasks
          /\ UNCHANGED received
  /\ UNCHANGED <<vars, history, step, storage>>

\* A write to the channel itself is done at once, one to another channel is
\* left to its loop, and one to a closed channel fails.
WriteTo(c, d) ==
  /\ step[c] = "route"
  /\ d \in todo[c]
  /\ todo' = [todo EXCEPT ![c] = @ \ {d}]
  /\ IF d = c
     THEN Receive(c, Current(c)) /\ UNCHANGED tasks
     ELSE /\ tasks' = IF d \in hall
                      THEN [tasks EXCEPT ![d] = Append(@, Current(c))]
                      ELSE tasks
          /\ UNCHANGED received
  /\ UNCHANGED <<vars, history, step, storage>>

\* Mutant of EndRoute: the message is logged while it is being written.
EndRouteEarly(c) ==
  /\ step[c] = "route"
  /\ step' = [step EXCEPT ![c] = "log"]
  /\ todo' = [todo EXCEPT ![c] = {}]
  /\ UNCHANGED <<vars, history, queues, storage>>

EndRoute(c) ==
  /\ step[c] = "route"
  /\ todo[c] = {}
  /\ step' = [step EXCEPT ![c] = "log"]
  /\ UNCHANGED <<vars, history, todo, queues, storage>>

\* saveMessage; a failure is logged.
SaveMessage(c) ==
  /\ step[c] = "log"
  /\ step' = [step EXCEPT ![c] = "none"]
  /\ \/ log' = Append(log, Current(c)) /\ UNCHANGED faults
     \/ faults < MaxFaults /\ faults' = faults + 1 /\ UNCHANGED log
  /\ UNCHANGED <<vars, history, todo, queues, saved, unsaved>>

-----------------------------------------------------------------------------
(* The tasks of a loop.                                                    *)

Free(c) == step[c] = "none" /\ At(c, "idle") /\ tasks[c] # <<>>

\* Before the handshake there is no encoder for a frame, and the write fails.
Write(c) ==
  /\ Free(c)
  /\ Head(tasks[c]) # CloseTask
  /\ tasks' = [tasks EXCEPT ![c] = Tail(@)]
  /\ IF link[c] = "websocket" THEN Receive(c, Head(tasks[c]))
     ELSE UNCHANGED received
  /\ UNCHANGED <<vars, history, routing, storage>>

CloseNow(c) ==
  /\ Free(c)
  /\ Head(tasks[c]) = CloseTask
  /\ Disconnect(c)
  /\ Post
  /\ UNCHANGED <<history, routing, received, storage>>

-----------------------------------------------------------------------------
Deliver(c) ==
  \/ SaveFile(c)
  \/ \E d \in Channels : WriteTo(c, d)
  \/ EndRoute(c)
  \/ SaveMessage(c)
  \/ Write(c)
  \/ CloseNow(c)

MessagesNext ==
  \/ RestartServer
  \/ \E c \in Channels : Serve(c) \/ SendText(c) \/ SendFile(c) \/ Deliver(c)

MessagesSpec == MessagesInit /\ [][MessagesNext]_allVars

\* Event loops run: their handlers, and the tasks in their queues.
FairMessagesSpec ==
  /\ MessagesSpec
  /\ \A c \in Channels :
       /\ WF_allVars(Deliver(c))
       /\ WF_allVars(Serve(c) /\ ~At(c, "idle"))

-----------------------------------------------------------------------------
(* Properties.                                                             *)

\* A client receives the messages of another in the order they were sent,
\* each once, and without a gap since it was there: whoever writes to it in
\* between, and however it and others come and go.
InOrder ==
  \A d \in Channels : \A i \in DOMAIN received[d] :
    LET m == received[d][i]
        before == {received[d][j] : j \in 1 .. i - 1} \ {Notice}
    IN  m # Notice =>
          /\ \A o \in before : o.from = m.from => o.n < m.n
          /\ \A n \in 1 .. m.n - 1 :
               d \in audience[m.from][n] => [m EXCEPT !.n = n] \in before

\* A message in the chat_log was given to everyone it was due to: each has it
\* or will have it, or has left; and the file it is about is on the disk, unless
\* the disk failed at this very file, whatever else failed before or since.
LoggedIsSent ==
  \A i \in 1 .. Len(log) :
    /\ \A d \in audience[log[i].from][log[i].n] :
         \/ link[d] = "closed"
         \/ log[i] \in ToSet(received[d]) \cup ToSet(tasks[d])
    /\ log[i] \in files => log[i] \in saved \cup unsaved

\* A client that is closed because its user has logged in elsewhere was told
\* so before (LoginMessageHandler.java:56), whatever was queued for it.
ToldBeforeClosed ==
  [][\A c \in Channels :
       /\ tasks[c] # <<>> /\ Head(tasks[c]) = CloseTask
       /\ link'[c] = "closed"
       => Notice \in ToSet(received[c])]_allVars

\* The messages that are due to d, which has not left, and that it does not
\* have.
Owed(d) ==
  {m \in Message :
     /\ Len(audience[m.from]) >= m.n /\ d \in audience[m.from][m.n]
     /\ link[d] # "closed" /\ m \notin ToSet(received[d])}

\* Everyone a message is due to receives it, or has left.
Delivered == \A d \in Channels : Owed(d) # {} ~> Owed(d) = {}
=============================================================================
