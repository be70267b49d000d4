------------------------------ MODULE IdCluster ------------------------------
(***************************************************************************)
(* The id service of the cluster: every process of ZkWorkerRegistry runs   *)
(* the generator of CommonIdGenerator with the worker id it has registered.*)
(* The monitor of the generator admits one call of nextId at a time        *)
(* (SnowflakeId), so that a process has at most one under way.  The worker *)
(* id is written outside that monitor: the call reads the clock in one     *)
(* step and the worker id in another, and registrations, expiries and step *)
(* backs of the clock fall between the two.  Business and data centre id   *)
(* are the same everywhere.                                                *)
(*                                                                         *)
(* All machines read one clock.  A session expires SESSION_TIMEOUT_MS      *)
(* after its process was last heard of, so the clock advances with it.     *)
(***************************************************************************)
EXTENDS ZkWorkerRegistry

CONSTANTS
  SequenceSize,     \* the sizes of the other fields of an id, as in
  DatacenterSize,   \* SnowflakeLayout
  BusinessSize,
  TimeSize,
  StartSequences,   \* the values of RandomUtils.nextInt(0, 10)
  MaxClock,         \* bound: the last millisecond
  MaxStepBacks,     \* bound: how often the wall clock steps back
  MaxIds            \* bound: ids generated in a behaviour

INSTANCE SnowflakeLayout

ASSUME ClusterAssumption ==
  /\ SequenceSize \in Nat \ {0, 1}
  /\ DatacenterSize \in Nat \ {0}
  /\ BusinessSize \in Nat \ {0}
  /\ TimeSize \in Nat \ {0}
  /\ StartSequences \subseteq 0 .. SequenceSize - 1
  /\ MaxClock \in 0 .. TimeSize - 1
  /\ MaxStepBacks \in Nat
  /\ MaxIds \in Nat

VARIABLES
  clock,           \* System.currentTimeMillis() - twepoch
  stepBacks,       \* how often the clock has stepped back
  serving,         \* the application of the process has started
  sequence,        \* CommonIdGenerator.sequence of the process
  lastTimestamp,   \* CommonIdGenerator.lastTimestamp of the process
  drawn,           \* the call of nextId that has read the clock, None if no
                   \* call has; history: what was so when it did
  issued           \* history: the ids in the order of their composition, each
                   \* with the session of its process, whether it was entitled
                   \* to it, and the number of step backs before its time

generator == <<sequence, lastTimestamp, drawn>>
clusterVars == <<vars, clock, stepBacks, serving, generator, issued>>

\* A call under way: the session of the process, the worker ids whose nodes
\* that session held, and the number of step backs when the clock was read.
Calls == [session : Sessions, held : SUBSET Ids, era : 0 .. MaxStepBacks]

Issued == [id : Id, session : Sessions, entitled : BOOLEAN,
           era : 0 .. MaxStepBacks]

\* From the reading of the clock to that of the worker id, the session of the
\* process has held the node of the worker id.
Entitled(p) ==
  /\ session[p] = drawn[p].session
  /\ workerId[p] \in drawn[p].held
  /\ node[workerId[p]] = session[p]

ClusterTypeOK ==
  /\ TypeOK
  /\ clock \in 0 .. MaxClock
  /\ stepBacks \in 0 .. MaxStepBacks
  /\ serving \in [Processes -> BOOLEAN]
  /\ sequence \in [Processes -> 0 .. SequenceSize - 1]
  /\ lastTimestamp \in [Processes -> -1 .. MaxClock]
  /\ drawn \in [Processes -> Calls \cup {None}]
  /\ issued \in Seq(Issued)

ClusterInit ==
  /\ Init
  /\ clock = 0
  /\ stepBacks = 0
  /\ serving = [p \in Processes |-> FALSE]
  /\ sequence = [p \in Processes |-> 0]
  /\ lastTimestamp = [p \in Processes |-> -1]
  /\ drawn = [p \in Processes |-> None]
  /\ issued = <<>>

\* The application serves requests once init() has returned; a JVM that ends
\* takes the fields of its generator with it.
Applications ==
  /\ serving' = [p \in Processes |->
       /\ alive'[p]
       /\ serving[p] \/ (pc[<<p, 1>>] = "set" /\ pc'[<<p, 1>>] = "idle")]
  /\ sequence' = [p \in Processes |-> IF alive'[p] THEN sequence[p] ELSE 0]
  /\ lastTimestamp' =
       [p \in Processes |-> IF alive'[p] THEN lastTimestamp[p] ELSE -1]
  /\ drawn' = [p \in Processes |-> IF alive'[p] THEN drawn[p] ELSE None]

RegistryStep ==
  /\ \/ \E p \in Processes : Boot(p) \/ Crash(p) \/ Reconnect(p)
     \/ \E p \in Processes, k \in Slots : Step(p, k)
  /\ Applications
  /\ UNCHANGED <<clock, stepBacks, issued>>

SessionExpires ==
  /\ \E s \in Sessions : Expire(s)
  /\ clock < MaxClock
  /\ clock' = clock + 1
  /\ UNCHANGED <<stepBacks, serving, generator, issued>>

Tick ==
  /\ clock < MaxClock
  /\ clock' = clock + 1
  /\ UNCHANGED <<vars, stepBacks, serving, generator, issued>>

StepBack ==
  /\ stepBacks < MaxStepBacks
  /\ stepBacks' = stepBacks + 1
  /\ clock' \in 0 .. clock - 1
  /\ UNCHANGED <<vars, serving, generator, issued>>

\* The ids issued and those under way.
Count == Len(issued) + Cardinality({p \in Processes : drawn[p] # None})

\* nextId reads the clock and counts on.  A clock behind lastTimestamp raises
\* an exception, which changes nothing; a sequence that is used up is 0, and
\* the call goes on when it reads a later millisecond.
ReadClock(p) ==
  /\ serving[p]
  /\ drawn[p] = None
  /\ Count < MaxIds
  /\ \/ /\ clock = lastTimestamp[p]
        /\ NextSequence(sequence[p]) # 0
        /\ sequence' = [sequence EXCEPT ![p] = NextSequence(@)]
     \/ /\ clock > lastTimestamp[p]
        /\ \E s \in StartSequences \cup ({0} \cap {NextSequence(sequence[p])}) :
             sequence' = [sequence EXCEPT ![p] = s]
  /\ lastTimestamp' = [lastTimestamp EXCEPT ![p] = clock]
  /\ drawn' = [drawn EXCEPT ![p] =
       [session |-> session[p], held |-> {w \in Ids : node[w] = session[p]},
        era |-> stepBacks]]
  /\ UNCHANGED <<vars, clock, stepBacks, serving, issued>>

\* It shifts the fields together, with the worker id as it is now.
Compose(p) ==
  /\ drawn[p] # None
  /\ issued' = Append(issued,
       [id |-> [time |-> lastTimestamp[p], business |-> 0,
                worker |-> workerId[p], sequence |-> sequence[p]],
        session |-> session[p], entitled |-> Entitled(p),
        era |-> drawn[p].era])
  /\ drawn' = [drawn EXCEPT ![p] = None]
  /\ UNCHANGED <<vars, clock, stepBacks, serving, sequence, lastTimestamp>>

ClusterNext ==
  \/ RegistryStep
  \/ SessionExpires
  \/ Tick
  \/ StepBack
  \/ \E p \in Processes : ReadClock(p) \/ Compose(p)

ClusterSpec == ClusterInit /\ [][ClusterNext]_clusterVars

-----------------------------------------------------------------------------
(* Properties.                                                             *)

\* Two calls of nextId return different longs across the cluster, whoever
\* held the worker ids before and however the registrations went, if each
\* process held the node of its worker id from the reading of the clock to
\* that of the worker id, and the clock was not stepped back between the two
\* readings of the clock.
UniqueWhileEntitled ==
  \A i, j \in 1 .. Len(issued) :
    /\ issued[i].entitled /\ issued[j].entitled
    /\ issued[i].era = issued[j].era
    /\ Long(issued[i].id) = Long(issued[j].id)
    => i = j

\* "Generates a unique serial number" (CommonIdGenerator.java:100), of all
\* the processes that run.
UniqueIds ==
  \A i, j \in 1 .. Len(issued) :
    /\ issued[i].era = issued[j].era
    /\ Long(issued[i].id) = Long(issued[j].id)
    => i = j
=============================================================================
