--------------------------- MODULE RootLoad_proofs ---------------------------
(* Theorems about RootLoad, for any files, imports and loads.              *)
EXTENDS RootLoad, FiniteSetTheorems, TLAPS

Results == {"parsed", "empty", "threw", "failed", "dropped"}

(* What is known of the files, whatever the callbacks were told.           *)
Attempted == \A f \in File : f \in files <=> outcome[f] # "none"
UnderWay == \A f \in File : f \in pending <=> outcome[f] = "pending"
Owned == \A f \in File : owner[f] = NoLoad <=> outcome[f] = "none"
Counted == \A l \in Loads : queued[l] = Cardinality(PendingOf(l))
Imported == \A f \in File : outcome[f] = "parsed" => Imports[f] \subseteq files

FInv == LoadTypeOK /\ Attempted /\ UnderWay /\ Owned /\ Counted /\ Imported

(* No file that l requested itself, and not for a weak import, has failed. *)
Sound(l) ==
  \A f \in File : owner[f] = l /\ ~weak[f] => outcome[f] \in {"pending", "parsed", "empty"}

(* What is known of the load l.                                            *)
Known(l) ==
  /\ callback[l] = "called" => calls[l] \in {<<"ok">>, <<"error">>}
  /\ callback[l] # "called" => calls[l] = <<>>
  /\ callback[l] = "none" => \A f \in File : owner[f] # l
  /\ callback[l] # "none" => Requests[l] \subseteq files
  /\ callback[l] = "waiting" => Sound(l) /\ PendingOf(l) # {}
  /\ calls[l] = <<"ok">> => Sound(l) /\ PendingOf(l) = {}

Inv == FInv /\ \A l \in Loads : Known(l)

-----------------------------------------------------------------------------
LEMMA InitInv == LoadInit => Inv
<1> SUFFICES ASSUME LoadInit PROVE Inv
  OBVIOUS
<1> USE DEF LoadInit
<1>1. LoadTypeOK
  BY FilesAssumption DEF LoadTypeOK
<1>2. \A l \in Loads : PendingOf(l) = {}
  BY DEF PendingOf
<1>3. Counted
  BY <1>2, FS_EmptySet DEF Counted
<1>4. Attempted /\ UnderWay /\ Owned /\ Imported
  BY DEF Attempted, UnderWay, Owned, Imported
<1>5. \A l \in Loads : Known(l)
  BY <1>2, FilesAssumption DEF Known
<1> QED BY <1>1, <1>3, <1>4, <1>5 DEF Inv, FInv

(* What fetch does for a load l of which the files done were answered.     *)
LEMMA FetchStep ==
  ASSUME FInv, NEW l \in Loads, NEW strongly \in SUBSET File, NEW weakly \in SUBSET File,
         NEW done \in SUBSET PendingOf(l), NEW result,
         result \in Results \/ done = {},
         result = "parsed" => \A f \in done : Imports[f] \subseteq strongly,
         Fetch(l, strongly, weakly, done), Outcome(l, strongly, weakly, done, result),
         callback' \in [Loads -> {"none", "waiting", "called"}],
         calls' \in [Loads -> Seq({"ok", "error"})]
  PROVE  /\ FInv'
         /\ files' = files \cup (strongly \cup weakly)
         /\ PendingOf(l)' = (PendingOf(l) \ done) \cup ((strongly \cup weakly) \ files)
         /\ \A k \in Loads \ {l} : PendingOf(k)' = PendingOf(k)
         /\ \A k \in Loads \ {l} : Sound(k)' <=> Sound(k)
         /\ \A k \in Loads \ {l}, f \in File : owner'[f] = k <=> owner[f] = k
         /\ \A k \in Loads : PendingOf(k)' = {} <=> queued'[k] = 0
<1> DEFINE new == (strongly \cup weakly) \ files
<1> USE DEF Results
<1>0. LoadTypeOK /\ Attempted /\ UnderWay /\ Owned /\ Counted /\ Imported
  BY DEF FInv
<1>1. /\ files' = files \cup new
      /\ pending' = (pending \ done) \cup new
      /\ owner' = [f \in File |-> IF f \in new THEN l ELSE owner[f]]
      /\ weak' = [f \in File |-> IF f \in new THEN f \notin strongly ELSE weak[f]]
      /\ queued' = [queued EXCEPT ![l] = @ - Cardinality(done) + Cardinality(new)]
  BY DEF Fetch
<1>2. outcome' = [f \in File |-> IF f \in done THEN result
                                 ELSE IF f \in new THEN "pending" ELSE outcome[f]]
  BY DEF Outcome
<1>3. done \subseteq pending /\ done \subseteq File /\ done \subseteq files /\ new \subseteq File
  BY <1>0 DEF PendingOf, LoadTypeOK
<1>4. files' = files \cup (strongly \cup weakly)
  BY <1>1
<1>5. /\ PendingOf(l)' = (PendingOf(l) \ done) \cup new
      /\ \A k \in Loads \ {l} : PendingOf(k)' = PendingOf(k)
  BY <1>0, <1>1, <1>3, FilesAssumption DEF PendingOf, LoadTypeOK, Attempted, Owned
<1>6. Attempted'
  BY <1>0, <1>1, <1>2, <1>3 DEF Attempted
<1>7. UnderWay'
  BY <1>0, <1>1, <1>2, <1>3 DEF UnderWay, Attempted
<1>8. Owned'
  BY <1>0, <1>1, <1>2, <1>3, FilesAssumption DEF Owned, UnderWay
<1>9. Imported'
  BY <1>0, <1>1, <1>2, <1>3, <1>4 DEF Imported
<1>10. Counted'
  <2>1. IsFiniteSet(PendingOf(l)) /\ IsFiniteSet(new) /\ IsFiniteSet(done)
    BY <1>0, <1>3, FilesAssumption, FS_Subset DEF PendingOf, LoadTypeOK
  <2>2. /\ IsFiniteSet(PendingOf(l) \ done)
        /\ Cardinality(PendingOf(l) \ done) = Cardinality(PendingOf(l)) - Cardinality(PendingOf(l) \cap done)
    BY <2>1, FS_Difference
  <2>3. PendingOf(l) \cap done = done /\ (PendingOf(l) \ done) \cap new = {}
    BY <1>0 DEF PendingOf, LoadTypeOK
  <2>4. Cardinality((PendingOf(l) \ done) \cup new)
          = Cardinality(PendingOf(l) \ done) + Cardinality(new) - Cardinality((PendingOf(l) \ done) \cap new)
    BY <2>1, <2>2, FS_Union
  <2>5. /\ Cardinality(PendingOf(l)) \in Nat /\ Cardinality(done) \in Nat
        /\ Cardinality(new) \in Nat /\ Cardinality({}) = 0
    BY <2>1, FS_CardinalityType, FS_EmptySet
  <2>6. Cardinality(PendingOf(l)') = queued[l] - Cardinality(done) + Cardinality(new)
    <3>1. Cardinality(PendingOf(l)') = Cardinality((PendingOf(l) \ done) \cup new)
      BY <1>5
    <3>2. queued[l] = Cardinality(PendingOf(l))
      BY <1>0 DEF Counted
    <3>3. Cardinality((PendingOf(l) \ done) \cap new) = 0
      BY <2>3, <2>5
    <3>4. Cardinality(PendingOf(l) \cap done) = Cardinality(done)
      BY <2>3
    <3> QED BY <2>2, <2>4, <2>5, <3>1, <3>2, <3>3, <3>4
  <2>7. \A k \in Loads : queued'[k] = IF k = l THEN queued[l] - Cardinality(done) + Cardinality(new)
                                     ELSE queued[k]
    BY <1>0, <1>1 DEF LoadTypeOK
  <2> QED BY <1>0, <1>5, <2>6, <2>7 DEF Counted
<1>11. LoadTypeOK'
  <2>1. files' \subseteq File /\ pending' \subseteq files'
    BY <1>0, <1>1, <1>3 DEF LoadTypeOK
  <2>2. owner' \in [File -> Loads \cup {NoLoad}] /\ weak' \in [File -> BOOLEAN]
    BY <1>0, <1>1 DEF LoadTypeOK
  <2>3. IsFiniteSet(new) /\ IsFiniteSet(done)
    BY <1>3, FilesAssumption, FS_Subset
  <2>4. queued' \in [Loads -> Int]
    BY <1>0, <1>1, <2>3, FS_CardinalityType DEF LoadTypeOK
  <2>5. outcome' \in [File -> {"none", "pending", "parsed", "empty", "threw", "failed", "dropped"}]
    BY <1>0, <1>2 DEF LoadTypeOK
  <2> QED BY <2>1, <2>2, <2>4, <2>5 DEF LoadTypeOK
<1>12. \A k \in Loads \ {l}, f \in File : owner'[f] = k <=> owner[f] = k
  BY <1>0, <1>1, FilesAssumption DEF Attempted, Owned
<1>13. \A k \in Loads \ {l} : Sound(k)' <=> Sound(k)
  <2> TAKE k \in Loads \ {l}
  <2>1. \A f \in File : owner[f] = k => f \notin done /\ f \notin new
    BY <1>0, FilesAssumption DEF Attempted, Owned, PendingOf
  <2>2. \A f \in File : owner[f] = k => weak'[f] = weak[f] /\ outcome'[f] = outcome[f]
    BY <1>1, <1>2, <2>1
  <2>3. ASSUME Sound(k), NEW f \in File, owner'[f] = k, ~weak'[f]
        PROVE  outcome'[f] \in {"pending", "parsed", "empty"}
    <3>1. owner[f] = k /\ weak'[f] = weak[f] /\ outcome'[f] = outcome[f]
      BY <2>2, <2>3, <1>12
    <3> QED BY <2>3, <3>1, Zenon DEF Sound
  <2>4. ASSUME Sound(k)', NEW f \in File, owner[f] = k, ~weak[f]
        PROVE  outcome[f] \in {"pending", "parsed", "empty"}
    <3>1. owner'[f] = k /\ weak'[f] = weak[f] /\ outcome'[f] = outcome[f]
      BY <2>2, <2>4, <1>12
    <3> QED BY <2>4, <3>1, Zenon DEF Sound
  <2> QED BY <2>3, <2>4 DEF Sound
<1>14. \A k \in Loads : PendingOf(k)' = {} <=> queued'[k] = 0
  <2> TAKE k \in Loads
  <2>1. IsFiniteSet(PendingOf(k)')
    BY <1>11, FilesAssumption, FS_Subset DEF PendingOf, LoadTypeOK
  <2> QED BY <1>10, <2>1, FS_EmptySet DEF Counted
<1> QED
  BY <1>4, <1>5, <1>6, <1>7, <1>8, <1>9, <1>10, <1>11, <1>12, <1>13, <1>14 DEF FInv

(* The loads that a step is not about.                                     *)
LEMMA OthersKnown ==
  ASSUME NEW k \in Loads, Known(k),
         callback'[k] = callback[k], calls'[k] = calls[k], files \subseteq files',
         PendingOf(k)' = PendingOf(k), Sound(k)' <=> Sound(k),
         \A f \in File : owner'[f] = k <=> owner[f] = k
  PROVE  Known(k)'
BY DEF Known

(* A result for the callback.                                              *)
LEMMA FinishStep ==
  ASSUME LoadTypeOK, NEW l \in Loads, NEW result \in {"ok", "error"}, Finish(l, result), Known(l)
  PROVE  /\ callback' \in [Loads -> {"none", "waiting", "called"}]
         /\ calls' \in [Loads -> Seq({"ok", "error"})]
         /\ callback'[l] = "called"
         /\ callback[l] = "called" => calls'[l] = calls[l]
         /\ callback[l] # "called" => calls'[l] = <<result>>
         /\ \A k \in Loads \ {l} : callback'[k] = callback[k] /\ calls'[k] = calls[k]
<1>1. CASE callback[l] = "called"
  BY <1>1 DEF Finish, LoadTypeOK
<1>2. CASE callback[l] # "called"
  <2>1. /\ callback' = [callback EXCEPT ![l] = "called"]
        /\ calls' = [calls EXCEPT ![l] = Append(@, result)]
    BY <1>2 DEF Finish
  <2>2. calls[l] = <<>>
    BY <1>2 DEF Known
  <2>3. Append(calls[l], result) = <<result>> /\ <<result>> \in Seq({"ok", "error"})
    BY <2>2
  <2> QED BY <1>2, <2>1, <2>3 DEF LoadTypeOK
<1> QED BY <1>1, <1>2

(* The first call of load, whether or not it has to wait.                  *)
LEMMA LoadStep == ASSUME Inv, NEW l \in Loads, Load(l) PROVE Inv'
<1> DEFINE wanted == Requests[l]
<1>0. FInv /\ LoadTypeOK /\ Known(l)
  BY DEF Inv, FInv
<1>1. callback[l] = "none" /\ wanted \in SUBSET File
  BY FilesAssumption DEF Load
<1>2. /\ Fetch(l, wanted, {}, {}) /\ Outcome(l, wanted, {}, {}, "none")
      /\ FinishIfDone(l)
  BY DEF Load
<1>3. /\ callback' \in [Loads -> {"none", "waiting", "called"}]
      /\ calls' \in [Loads -> Seq({"ok", "error"})]
      /\ \A k \in Loads \ {l} : callback'[k] = callback[k] /\ calls'[k] = calls[k]
      /\ IF queued'[l] = 0 THEN callback'[l] = "called" /\ calls'[l] = <<"ok">>
         ELSE callback'[l] = "waiting" /\ calls'[l] = <<>>
  <2>1. CASE queued'[l] = 0
    BY <1>0, <1>1, <1>2, <2>1, FinishStep DEF FinishIfDone
  <2>2. CASE queued'[l] # 0
    <3>1. Continue(l)
      BY <1>2, <2>2 DEF FinishIfDone
    <3> QED BY <1>0, <1>1, <2>2, <3>1 DEF Continue, LoadTypeOK, Known
  <2> QED BY <2>1, <2>2
<1>4. /\ FInv'
      /\ files' = files \cup wanted
      /\ \A k \in Loads \ {l} : PendingOf(k)' = PendingOf(k)
      /\ \A k \in Loads \ {l} : Sound(k)' <=> Sound(k)
      /\ \A k \in Loads \ {l}, f \in File : owner'[f] = k <=> owner[f] = k
      /\ \A k \in Loads : PendingOf(k)' = {} <=> queued'[k] = 0
  <2> DEFINE nothing == {}
             result == "none"
  <2>1. nothing \in SUBSET File /\ nothing \in SUBSET PendingOf(l)
    OBVIOUS
  <2>2. (result \in Results \/ nothing = {}) /\ result # "parsed"
    OBVIOUS
  <2>3. Fetch(l, wanted, nothing, nothing) /\ Outcome(l, wanted, nothing, nothing, result)
    BY <1>2
  <2>4. wanted \cup nothing = wanted
    OBVIOUS
  <2> HIDE DEF wanted, nothing, result
  <2>5. FInv'
    BY <1>0, <1>1, <1>3, <2>1, <2>2, <2>3, FetchStep
  <2>6. \A k \in Loads \ {l} : PendingOf(k)' = PendingOf(k)
    BY <1>0, <1>1, <1>3, <2>1, <2>2, <2>3, FetchStep
  <2>7. \A k \in Loads \ {l} : Sound(k)' <=> Sound(k)
    BY <1>0, <1>1, <1>3, <2>1, <2>2, <2>3, FetchStep
  <2>8. \A k \in Loads \ {l}, f \in File : owner'[f] = k <=> owner[f] = k
    BY <1>0, <1>1, <1>3, <2>1, <2>2, <2>3, FetchStep
  <2>9. \A k \in Loads : PendingOf(k)' = {} <=> queued'[k] = 0
    BY <1>0, <1>1, <1>3, <2>1, <2>2, <2>3, FetchStep
  <2>10. files' = files \cup wanted
    BY <2>3, <2>4 DEF Fetch
  <2> QED BY <2>5, <2>6, <2>7, <2>8, <2>9, <2>10
<1>5. \A k \in Loads \ {l} : Known(k)'
  BY <1>3, <1>4, OthersKnown DEF Inv
<1>6. Sound(l)'
  <2>1. \A f \in File : owner'[f] = l => outcome'[f] = "pending"
    BY <1>0, <1>1, <1>2, FilesAssumption DEF Fetch, Outcome, Known
  <2> QED BY <2>1 DEF Sound
<1>7. Known(l)'
  <2>1. wanted \subseteq files' /\ (PendingOf(l)' = {} <=> queued'[l] = 0)
    BY <1>4
  <2>2. CASE queued'[l] = 0
    BY <1>3, <1>6, <2>1, <2>2 DEF Known
  <2>3. CASE queued'[l] # 0
    BY <1>3, <1>6, <2>1, <2>3 DEF Known
  <2> QED BY <2>2, <2>3
<1> QED BY <1>4, <1>5, <1>7 DEF Inv

(* The file f of a load l was answered, whose callback was called before, or *)
(* is told of an error now, or is told at the end.                         *)
LEMMA AnswerStep ==
  ASSUME Inv, NEW f \in pending, NEW l, l = owner[f],
         NEW strongly \in SUBSET File, NEW weakly \in SUBSET File,
         NEW result \in Results, result = "parsed" => Imports[f] \subseteq strongly,
         Fetch(l, strongly, weakly, {f}), Outcome(l, strongly, weakly, {f}, result),
         callback' \in [Loads -> {"none", "waiting", "called"}],
         calls' \in [Loads -> Seq({"ok", "error"})],
         \A k \in Loads \ {l} : callback'[k] = callback[k] /\ calls'[k] = calls[k],
         \/ callback[l] = "called" /\ callback'[l] = "called" /\ calls'[l] = calls[l]
         \/ callback[l] # "called" /\ callback'[l] = "called" /\ calls'[l] = <<"error">>
         \/ /\ callback[l] # "called" /\ (weak[f] \/ result \in {"parsed", "empty"})
            /\ IF queued'[l] = 0 THEN callback'[l] = "called" /\ calls'[l] = <<"ok">>
               ELSE callback'[l] = "waiting" /\ calls'[l] = <<>>
  PROVE  Inv'
<1> DEFINE done == {f}
<1>0. FInv /\ LoadTypeOK /\ f \in File /\ f \in files /\ outcome[f] = "pending"
  BY DEF Inv, FInv, UnderWay, LoadTypeOK
<1>1. l \in Loads /\ Known(l) /\ callback[l] \in {"waiting", "called"}
  <2>1. l \in Loads
    BY <1>0 DEF FInv, LoadTypeOK, Owned
  <2> QED BY <1>0, <2>1 DEF Inv, Known, LoadTypeOK
<1>2. done \in SUBSET PendingOf(l) /\ f \in PendingOf(l)
  BY DEF PendingOf
<1>3. (result \in Results \/ done = {}) /\ (result = "parsed" => \A g \in done : Imports[g] \subseteq strongly)
  OBVIOUS
<1>4. Fetch(l, strongly, weakly, done) /\ Outcome(l, strongly, weakly, done, result)
  OBVIOUS
<1>5. /\ files' = files \cup ((strongly \cup weakly) \ files)
      /\ owner' = [g \in File |-> IF g \in (strongly \cup weakly) \ files THEN l ELSE owner[g]]
      /\ weak' = [g \in File |-> IF g \in (strongly \cup weakly) \ files THEN g \notin strongly ELSE weak[g]]
      /\ outcome' = [g \in File |-> IF g = f THEN result
                       ELSE IF g \in (strongly \cup weakly) \ files THEN "pending" ELSE outcome[g]]
  BY DEF Fetch, Outcome
<1> HIDE DEF done
<1>6. FInv'
  BY <1>0, <1>1, <1>2, <1>3, <1>4, FetchStep
<1>7. \A k \in Loads \ {l} : PendingOf(k)' = PendingOf(k)
  BY <1>0, <1>1, <1>2, <1>3, <1>4, FetchStep
<1>8. \A k \in Loads \ {l} : Sound(k)' <=> Sound(k)
  BY <1>0, <1>1, <1>2, <1>3, <1>4, FetchStep
<1>9. \A k \in Loads \ {l}, g \in File : owner'[g] = k <=> owner[g] = k
  BY <1>0, <1>1, <1>2, <1>3, <1>4, FetchStep
<1>10. \A k \in Loads : PendingOf(k)' = {} <=> queued'[k] = 0
  BY <1>0, <1>1, <1>2, <1>3, <1>4, FetchStep
<1>11. \A k \in Loads \ {l} : Known(k)'
  BY <1>5, <1>7, <1>8, <1>9, OthersKnown DEF Inv
<1>12. Requests[l] \subseteq files'
  BY <1>1, <1>5 DEF Known
<1>13. Known(l)'
  <2>1. CASE callback[l] = "called" /\ callback'[l] = "called" /\ calls'[l] = calls[l]
    <3>1. calls[l] = <<"error">>
      BY <1>1, <1>2, <2>1 DEF Known
    <3> QED BY <1>12, <2>1, <3>1 DEF Known
  <2>2. CASE callback'[l] = "called" /\ calls'[l] = <<"error">>
    BY <1>12, <2>2 DEF Known
  <2>3. CASE /\ callback[l] # "called" /\ (weak[f] \/ result \in {"parsed", "empty"})
             /\ IF queued'[l] = 0 THEN callback'[l] = "called" /\ calls'[l] = <<"ok">>
                ELSE callback'[l] = "waiting" /\ calls'[l] = <<>>
    <3>1. Sound(l)
      BY <1>1, <2>3 DEF Known
    <3>2. Sound(l)'
      <4> SUFFICES ASSUME NEW g \in File, owner'[g] = l, ~weak'[g]
                   PROVE  outcome'[g] \in {"pending", "parsed", "empty"}
        BY DEF Sound
      <4>1. CASE g = f
        <5>1. weak'[f] = weak[f] /\ outcome'[f] = result
          BY <1>0, <1>5
        <5>2. ~weak[f]
          BY <4>1, <5>1, Zenon
        <5> QED BY <2>3, <4>1, <5>1, <5>2
      <4>2. CASE g # f /\ g \in (strongly \cup weakly) \ files
        BY <1>5, <4>2
      <4>3. CASE g # f /\ g \notin (strongly \cup weakly) \ files
        <5>1. weak'[g] = weak[g] /\ outcome'[g] = outcome[g] /\ owner'[g] = owner[g]
          BY <1>5, <4>3
        <5> QED BY <3>1, <5>1, Zenon DEF Sound
      <4> QED BY <4>1, <4>2, <4>3
    <3>3. CASE queued'[l] = 0
      BY <1>1, <1>10, <1>12, <2>3, <3>2, <3>3 DEF Known
    <3>4. CASE queued'[l] # 0
      BY <1>1, <1>10, <1>12, <2>3, <3>2, <3>4 DEF Known
    <3> QED BY <3>3, <3>4
  <2> QED BY <2>1, <2>2, <2>3
<1> QED BY <1>1, <1>6, <1>11, <1>13 DEF Inv

(* The callback of a load that may be done.                                *)
LEMMA FinishIfDoneStep ==
  ASSUME LoadTypeOK, NEW l \in Loads, Known(l), callback[l] # "none", FinishIfDone(l)
  PROVE  /\ callback' \in [Loads -> {"none", "waiting", "called"}]
         /\ calls' \in [Loads -> Seq({"ok", "error"})]
         /\ \A k \in Loads \ {l} : callback'[k] = callback[k] /\ calls'[k] = calls[k]
         /\ callback[l] = "called" => callback'[l] = "called" /\ calls'[l] = calls[l]
         /\ callback[l] # "called" =>
              IF queued'[l] = 0 THEN callback'[l] = "called" /\ calls'[l] = <<"ok">>
              ELSE callback'[l] = "waiting" /\ calls'[l] = <<>>
<1>1. CASE queued'[l] = 0
  BY <1>1, FinishStep DEF FinishIfDone
<1>2. CASE queued'[l] # 0
  <2>1. Continue(l)
    BY <1>2 DEF FinishIfDone
  <2> QED BY <1>2, <2>1 DEF Continue, LoadTypeOK, Known
<1> QED BY <1>1, <1>2

(* An answer belongs to a load that has begun.                             *)
LEMMA Begun ==
  ASSUME Inv, NEW f \in pending
  PROVE  /\ LoadTypeOK /\ f \in File /\ owner[f] \in Loads /\ Known(owner[f])
         /\ callback[owner[f]] \in {"waiting", "called"}
<1>1. LoadTypeOK /\ f \in File /\ outcome[f] = "pending"
  BY DEF Inv, FInv, UnderWay, LoadTypeOK
<1>2. owner[f] \in Loads
  BY <1>1 DEF Inv, FInv, LoadTypeOK, Owned
<1> QED BY <1>1, <1>2 DEF Inv, Known, LoadTypeOK

LEMMA ProcessStep ==
  ASSUME Inv, NEW f \in pending, NEW text \in BOOLEAN, NEW throws \in BOOLEAN, Process(f, text, throws)
  PROVE  Inv'
<1> DEFINE l == owner[f]
           strongly == IF text /\ ~throws THEN Imports[f] ELSE {}
           weakly == IF text /\ ~throws THEN WeakImports[f] ELSE {}
           result == IF throws THEN "threw" ELSE IF text THEN "parsed" ELSE "empty"
<1>1. /\ LoadTypeOK /\ f \in File /\ l \in Loads /\ Known(l)
      /\ callback[l] \in {"waiting", "called"}
  BY Begun
<1>2. strongly \in SUBSET File /\ weakly \in SUBSET File
  BY <1>1, FilesAssumption
<1>3. result \in Results /\ (result = "parsed" => Imports[f] \subseteq strongly)
  BY DEF Results
<1>4. Fetch(l, strongly, weakly, {f}) /\ Outcome(l, strongly, weakly, {f}, result)
  BY DEF Process
<1>5. CASE throws
  <2>1. Finish(l, "error")
    BY <1>5 DEF Process
  <2>2. /\ callback' \in [Loads -> {"none", "waiting", "called"}]
        /\ calls' \in [Loads -> Seq({"ok", "error"})]
        /\ callback'[l] = "called"
        /\ callback[l] = "called" => calls'[l] = calls[l]
        /\ callback[l] # "called" => calls'[l] = <<"error">>
        /\ \A k \in Loads \ {l} : callback'[k] = callback[k] /\ calls'[k] = calls[k]
    BY <1>1, <2>1, FinishStep
  <2> HIDE DEF strongly, weakly, result
  <2> QED BY <1>2, <1>3, <1>4, <2>2, AnswerStep
<1>6. CASE ~throws
  <2>1. FinishIfDone(l)
    BY <1>6 DEF Process
  <2>2. /\ callback' \in [Loads -> {"none", "waiting", "called"}]
        /\ calls' \in [Loads -> Seq({"ok", "error"})]
        /\ \A k \in Loads \ {l} : callback'[k] = callback[k] /\ calls'[k] = calls[k]
        /\ callback[l] = "called" => callback'[l] = "called" /\ calls'[l] = calls[l]
        /\ callback[l] # "called" =>
             IF queued'[l] = 0 THEN callback'[l] = "called" /\ calls'[l] = <<"ok">>
             ELSE callback'[l] = "waiting" /\ calls'[l] = <<>>
    BY <1>1, <2>1, FinishIfDoneStep
  <2>3. result \in {"parsed", "empty"}
    BY <1>6
  <2> HIDE DEF strongly, weakly, result
  <2> QED BY <1>2, <1>3, <1>4, <2>2, <2>3, AnswerStep
<1> QED BY <1>5, <1>6

(* A file that failed, or whose reply came too late.                       *)
LEMMA NotProcessedStep ==
  ASSUME Inv, NEW f \in pending, NEW result \in {"failed", "dropped"},
         Fetch(owner[f], {}, {}, {f}), Outcome(owner[f], {}, {}, {f}, result),
         \/ callback[owner[f]] # "waiting" /\ UNCHANGED <<callback, calls>>
         \/ /\ callback[owner[f]] = "waiting"
            /\ IF weak[f] THEN FinishIfDone(owner[f]) ELSE Finish(owner[f], "error")
  PROVE  Inv'
<1> DEFINE l == owner[f]
           nothing == {}
<1>1. /\ LoadTypeOK /\ f \in File /\ l \in Loads /\ Known(l)
      /\ callback[l] \in {"waiting", "called"}
  BY Begun
<1>2. nothing \in SUBSET File /\ result \in Results /\ result # "parsed"
  BY DEF Results
<1>3. Fetch(l, nothing, nothing, {f}) /\ Outcome(l, nothing, nothing, {f}, result)
  OBVIOUS
<1>4. CASE callback[l] # "waiting" /\ UNCHANGED <<callback, calls>>
  <2>1. callback[l] = "called"
    BY <1>1, <1>4
  <2>2. callback' = callback /\ calls' = calls
    BY <1>4
  <2>3. callback \in [Loads -> {"none", "waiting", "called"}] /\ calls \in [Loads -> Seq({"ok", "error"})]
    BY <1>1 DEF LoadTypeOK
  <2> HIDE DEF nothing
  <2> QED BY <1>2, <1>3, <2>1, <2>2, <2>3, AnswerStep
<1>5. CASE callback[l] = "waiting" /\ weak[f] /\ FinishIfDone(l)
  <2>1. /\ callback' \in [Loads -> {"none", "waiting", "called"}]
        /\ calls' \in [Loads -> Seq({"ok", "error"})]
        /\ \A k \in Loads \ {l} : callback'[k] = callback[k] /\ calls'[k] = calls[k]
        /\ IF queued'[l] = 0 THEN callback'[l] = "called" /\ calls'[l] = <<"ok">>
           ELSE callback'[l] = "waiting" /\ calls'[l] = <<>>
    BY <1>1, <1>5, FinishIfDoneStep
  <2> HIDE DEF nothing
  <2> QED BY <1>2, <1>3, <1>5, <2>1, AnswerStep
<1>6. CASE callback[l] = "waiting" /\ Finish(l, "error")
  <2>1. /\ callback' \in [Loads -> {"none", "waiting", "called"}]
        /\ calls' \in [Loads -> Seq({"ok", "error"})]
        /\ callback'[l] = "called" /\ calls'[l] = <<"error">>
        /\ \A k \in Loads \ {l} : callback'[k] = callback[k] /\ calls'[k] = calls[k]
    BY <1>1, <1>6, FinishStep
  <2> HIDE DEF nothing
  <2> QED BY <1>2, <1>3, <1>6, <2>1, AnswerStep
<1> QED BY <1>4, <1>5, <1>6

LEMMA NextInv == ASSUME Inv, [LoadNext]_loading PROVE Inv'
<1>1. ASSUME NEW l \in Loads, Load(l) PROVE Inv'
  BY <1>1, LoadStep
<1>2. ASSUME NEW f \in File, NEW throws \in BOOLEAN, Reply(f, throws) PROVE Inv'
  <2>1. f \in pending
    BY <1>2 DEF Reply
  <2>2. CASE callback[owner[f]] = "waiting"
    BY <1>2, <2>1, <2>2, ProcessStep DEF Reply
  <2>3. CASE callback[owner[f]] # "waiting"
    BY <1>2, <2>1, <2>3, NotProcessedStep DEF Reply
  <2> QED BY <2>2, <2>3
<1>3. ASSUME NEW f \in File, NEW throws \in BOOLEAN, Timer(f, throws) PROVE Inv'
  BY <1>3, ProcessStep DEF Timer
<1>4. ASSUME NEW f \in File, ReplyEmpty(f) PROVE Inv'
  BY <1>4, ProcessStep DEF ReplyEmpty
<1>5. ASSUME NEW f \in File, ReplyError(f) PROVE Inv'
  BY <1>5, NotProcessedStep DEF ReplyError
<1>6. CASE UNCHANGED loading
  BY <1>6 DEF loading, Inv, FInv, LoadTypeOK, Attempted, UnderWay, Owned, Counted, Imported,
              Known, Sound, PendingOf
<1> QED BY <1>1, <1>2, <1>3, <1>4, <1>5, <1>6 DEF LoadNext, Answer

LEMMA InvAlways == LoadSpec => []Inv
BY InitInv, NextInv, PTL DEF LoadSpec

-----------------------------------------------------------------------------
(* The state of the loads has its types.                                   *)
THEOREM LoadTypeCorrect == LoadSpec => []LoadTypeOK
<1>1. Inv => LoadTypeOK
  BY DEF Inv, FInv
<1> QED BY <1>1, InvAlways, PTL

(* finish() tells a callback once, however many files fail or come late.   *)
THEOREM LoadCallsOnce == LoadSpec => []CalledOnce
<1>1. Inv => CalledOnce
  <2> SUFFICES ASSUME Inv, NEW l \in Loads
               PROVE  Len(calls[l]) = IF callback[l] = "called" THEN 1 ELSE 0
    BY DEF CalledOnce
  <2>1. Known(l)
    BY DEF Inv
  <2> QED BY <2>1 DEF Known
<1> QED BY <1>1, InvAlways, PTL

(* A load that ended well has what it asked for.                           *)
THEOREM LoadOkComplete == LoadSpec => []OkIsComplete
<1>1. Inv => OkIsComplete
  <2> SUFFICES ASSUME Inv PROVE OkIsComplete
    OBVIOUS
  <2>1. \A f \in File : outcome[f] = "parsed" => Imports[f] \subseteq files
    BY DEF Inv, FInv, Imported
  <2>2. ASSUME NEW l \in Loads, calls[l] = <<"ok">> PROVE Requests[l] \subseteq files
    <3>1. callback[l] = "called"
      BY <2>2 DEF Inv, Known
    <3> QED BY <3>1 DEF Inv, Known
  <2>3. ASSUME NEW l \in Loads, calls[l] = <<"ok">>, NEW f \in File, owner[f] = l, ~weak[f]
        PROVE  outcome[f] \in {"parsed", "empty"}
    <3>1. Sound(l) /\ PendingOf(l) = {}
      BY <2>3 DEF Inv, Known
    <3>2. outcome[f] # "pending"
      BY <2>3, <3>1 DEF PendingOf, Inv, FInv, UnderWay
    <3> QED BY <2>3, <3>1, <3>2, Zenon DEF Sound
  <2> QED BY <2>1, <2>2, <2>3, Zenon DEF OkIsComplete
<1> QED BY <1>1, InvAlways, PTL

(* A load that waits has a request or a timer under way, which will end it: *)
(* what queued counts, and why every load ends.                            *)
THEOREM LoadWaitsForSomething ==
  LoadSpec => [](\A l \in Loads : callback[l] = "waiting" =>
                   PendingOf(l) # {} /\ queued[l] = Cardinality(PendingOf(l)))
<1>1. Inv => \A l \in Loads : callback[l] = "waiting" =>
               PendingOf(l) # {} /\ queued[l] = Cardinality(PendingOf(l))
  BY DEF Inv, FInv, Known, Counted
<1> QED BY <1>1, InvAlways, PTL
=============================================================================
