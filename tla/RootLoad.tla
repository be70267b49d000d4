------------------------------- MODULE RootLoad -------------------------------
(***************************************************************************)
(* Root.load of protobuf.js in a browser, without what the files hold: the *)
(* files asked for are requested all at once, each reply is parsed when it *)
(* comes, and what it imports is requested in turn.  A callback is told    *)
(* once how a load ended.  One root serves all the loads of a page, which  *)
(* runs one handler at a time: an action is a call of the page, a reply or *)
(* a timer, with all that it calls.                                        *)
(***************************************************************************)
EXTENDS Integers, Sequences, FiniteSets

CONSTANTS
  File,         \* file names, as resolvePath returns them
  Imports,      \* of each file, what it imports
  WeakImports,  \* of each file, what it imports weakly
  Bundled,      \* the definitions of google/protobuf that come with the library
  Loads,        \* the calls of load
  NoLoad,       \* none of them
  Requests      \* the files that each asks for

ASSUME FilesAssumption ==
  /\ IsFiniteSet(File)
  /\ Imports \in [File -> SUBSET File] /\ WeakImports \in [File -> SUBSET File]
  /\ Bundled \subseteq File
  /\ \A f \in Bundled : Imports[f] = {} /\ WeakImports[f] = {}
  /\ Requests \in [Loads -> SUBSET File]
  /\ NoLoad \notin Loads

VARIABLES
  files,     \* root.files: loaded or attempted
  pending,   \* the requests and timers under way
  owner,     \* the load that requested a file, NoLoad if none did
  weak,      \* was it for a weak import
  queued,    \* of each load: how many it waits for
  callback,  \* of each load
  calls,     \* history: what the callback of each load was told
  outcome    \* history: what became of each file

loading == <<files, pending, owner, weak, queued, callback, calls, outcome>>

PendingOf(l) == {f \in pending : owner[f] = l}

LoadTypeOK ==
  /\ files \subseteq File /\ pending \subseteq files
  /\ owner \in [File -> Loads \cup {NoLoad}]
  /\ weak \in [File -> BOOLEAN]
  /\ queued \in [Loads -> Int]
  /\ callback \in [Loads -> {"none", "waiting", "called"}]
  /\ calls \in [Loads -> Seq({"ok", "error"})]
  /\ outcome \in [File -> {"none", "pending", "parsed", "empty", "threw", "failed", "dropped"}]

LoadInit ==
  /\ files = {} /\ pending = {}
  /\ owner = [f \in File |-> NoLoad]
  /\ weak = [f \in File |-> FALSE]
  /\ queued = [l \in Loads |-> 0]
  /\ callback = [l \in Loads |-> "none"]
  /\ calls = [l \in Loads |-> <<>>]
  /\ outcome = [f \in File |-> "none"]

-----------------------------------------------------------------------------
(* What a handler does to its load l.                                      *)

\* Mutant of Finish: the callback is kept for the next result.
FinishKeeps(l, result) ==
  /\ callback' = [callback EXCEPT ![l] = "waiting"]
  /\ calls' = [calls EXCEPT ![l] = Append(@, result)]

\* finish: the callback is dropped before it is called.
Finish(l, result) ==
  IF callback[l] = "called" THEN UNCHANGED <<callback, calls>>
  ELSE /\ callback' = [callback EXCEPT ![l] = "called"]
       /\ calls' = [calls EXCEPT ![l] = Append(@, result)]

Continue(l) == callback' = [callback EXCEPT ![l] = IF @ = "none" THEN "waiting" ELSE @]
               /\ UNCHANGED calls

\* Mutant of FinishIfDone: off by one.
FinishBeforeLast(l) == IF queued'[l] <= 1 THEN Finish(l, "ok") ELSE Continue(l)

FinishIfDone(l) == IF queued'[l] = 0 THEN Finish(l, "ok") ELSE Continue(l)

\* fetch, of all that l wants: a file attempted before, by whichever load, is
\* skipped; one that is wanted both ways is fetched strongly, for the imports
\* come first.  done: the file that was answered, in a set.
Fetch(l, strongly, weakly, done) ==
  LET new == (strongly \cup weakly) \ files
  IN /\ files' = files \cup new
     /\ pending' = (pending \ done) \cup new
     /\ owner' = [f \in File |-> IF f \in new THEN l ELSE owner[f]]
     /\ weak' = [f \in File |-> IF f \in new THEN f \notin strongly ELSE weak[f]]
     /\ queued' = [queued EXCEPT ![l] = @ - Cardinality(done) + Cardinality(new)]

Outcome(l, strongly, weakly, done, result) ==
  outcome' = [f \in File |-> IF f \in done THEN result
                             ELSE IF f \in (strongly \cup weakly) \ files THEN "pending"
                             ELSE outcome[f]]

\* process: an exception of the parser ends the load, and nothing is imported.
Process(f, text, throws) ==
  LET l == owner[f]
      strongly == IF text /\ ~throws THEN Imports[f] ELSE {}
      weakly == IF text /\ ~throws THEN WeakImports[f] ELSE {}
  IN /\ Fetch(l, strongly, weakly, {f})
     /\ Outcome(l, strongly, weakly, {f},
                IF throws THEN "threw" ELSE IF text THEN "parsed" ELSE "empty")
     /\ IF throws THEN Finish(l, "error") ELSE FinishIfDone(l)

-----------------------------------------------------------------------------
Load(l) ==
  /\ callback[l] = "none"
  /\ Fetch(l, Requests[l], {}, {})
  /\ Outcome(l, Requests[l], {}, {}, "none")
  /\ FinishIfDone(l)

\* Status 200.  After the end of its load a reply is dropped.
Reply(f, throws) ==
  /\ f \in pending \ Bundled
  /\ IF callback[owner[f]] = "waiting" THEN Process(f, TRUE, throws)
     ELSE /\ Fetch(owner[f], {}, {}, {f})
          /\ Outcome(owner[f], {}, {}, {f}, "dropped")
          /\ UNCHANGED <<callback, calls>>

\* No connection is status 0, which fetch.xhr takes for an empty file.
ReplyEmpty(f) ==
  /\ f \in pending \ Bundled /\ callback[owner[f]] = "waiting"
  /\ Process(f, FALSE, FALSE)

\* Mutant of ReplyError: that there was an answer at all is forgotten for a
\* weak import.
ReplyErrorForgotten(f) ==
  /\ f \in pending \ Bundled /\ callback[owner[f]] = "waiting"
  /\ Fetch(owner[f], {}, {}, {f})
  /\ Outcome(owner[f], {}, {}, {f}, "failed")
  /\ IF weak[f] THEN Continue(owner[f]) ELSE Finish(owner[f], "error")

\* Any other status is an error, which a weak import forgives.
ReplyError(f) ==
  /\ f \in pending \ Bundled /\ callback[owner[f]] = "waiting"
  /\ Fetch(owner[f], {}, {}, {f})
  /\ Outcome(owner[f], {}, {}, {f}, "failed")
  /\ IF weak[f] THEN FinishIfDone(owner[f]) ELSE Finish(owner[f], "error")

\* A bundled definition comes from a timer, also after the end of its load.
Timer(f, throws) ==
  /\ f \in pending \cap Bundled
  /\ Process(f, TRUE, throws)

Answer(f) == \E throws \in BOOLEAN : Reply(f, throws) \/ Timer(f, throws)

LoadNext ==
  \/ \E l \in Loads : Load(l)
  \/ \E f \in File : Answer(f) \/ ReplyEmpty(f) \/ ReplyError(f)

LoadSpec == LoadInit /\ [][LoadNext]_loading

\* The browser answers every request and runs every timer.
Answered(f) == Answer(f) \/ ReplyEmpty(f) \/ ReplyError(f)
LoadFairness == \A f \in File : WF_loading(Answered(f))

-----------------------------------------------------------------------------
(* Loading.                                                                *)

\* The callback is called exactly once, as the comment on finish says, and
\* not before the load has begun.
CalledOnce == \A l \in Loads : Len(calls[l]) = IF callback[l] = "called" THEN 1 ELSE 0

\* A load that ended well has parsed all the files that it requested itself
\* and not for a weak import; what it asked for and what the parsed files
\* import has been attempted.  A file that another load requested, or that
\* was first met as a weak import, may still fail.
OkIsComplete ==
  /\ \A f \in File : outcome[f] = "parsed" => Imports[f] \subseteq files
  /\ \A l \in Loads : calls[l] = <<"ok">> =>
       /\ Requests[l] \subseteq files
       /\ \A f \in File : owner[f] = l /\ ~weak[f] => outcome[f] \in {"parsed", "empty"}

\* Every load ends.
LoadEnds == \A l \in Loads : callback[l] = "waiting" ~> callback[l] = "called"
=============================================================================
