--------------------------- MODULE RoleMenu_proofs ---------------------------
(***************************************************************************)
(* Proofs about GrantTable, for any owners, items and requests, and about  *)
(* RoleMenu, for any users, roles, menus, requests and viewers.            *)
(***************************************************************************)
EXTENDS RoleMenu, FiniteSetTheorems, TLAPS

------------------------------------------------------------------------------
(* The table of grants by itself.                                          *)

\* Requests that have got past their deletion, failed or not.
Past == {g \in Grants : phase[g] \in {"insert", "done", "failed"}}

\* What g has inserted is still there.
Kept(g) == \A n \in 1 .. inserted[g] : RowOf(g, n) \in rows

(***************************************************************************)
(* The inductive invariant: where a request is tells what it has done, a   *)
(* row is one its request has inserted, a request that was over stays so,  *)
(* the rows of the last request are kept, and so are those of the request  *)
(* whose deletion came last.                                               *)
(***************************************************************************)
Progress ==
  \A g \in Grants :
    /\ phase[g] = "new" <=> owner[g] = None
    /\ inserted[g] <= Len(items[g])
    /\ phase[g] \in {"new", "delete"} => inserted[g] = 0
    /\ phase[g] = "insert" => inserted[g] # Len(items[g])
    /\ phase[g] = "done" => inserted[g] = Len(items[g])

Inserted ==
  \A r \in rows :
    /\ phase[r.by] \in {"insert", "done", "failed"}
    /\ r.owner = owner[r.by]
    /\ r.at \in 1 .. inserted[r.by]
    /\ r.item = items[r.by][r.at]

OverBefore == \A g \in Grants : after[g] \subseteq Over

LastKept == \A g \in Grants : Deleted(g) /\ Last(g) => Kept(g)

OneKept ==
  \A g \in Grants :
    Deleted(g) =>
      \E h \in Grants :
        /\ owner[h] = owner[g]
        /\ phase[h] \in {"insert", "done", "failed"}
        /\ Kept(h)

IInv ==
  TypeOK /\ Progress /\ Inserted /\ OverBefore /\ NoRevokedRow /\ LastKept
    /\ OneKept

\* The table is empty and no request is made at first.
LEMMA InitInv == Init => IInv
  BY GrantAssumption
  DEF Init, IInv, TypeOK, Progress, Inserted, OverBefore, NoRevokedRow,
      LastKept, OneKept, Deleted

\* A list of a request is a sequence.
LEMMA ListsAreSeq ==
  ASSUME NEW S
  PROVE  Lists(S) \subseteq Seq(S)
BY GrantAssumption DEF Lists

LEMMA ListsGrow ==
  ASSUME NEW S, NEW T, S \subseteq T
  PROVE  Lists(S) \subseteq Lists(T)
BY DEF Lists

\* A new request does not disturb the others.
LEMMA CallInv ==
  ASSUME IInv, NEW g \in Grants, NEW o \in Owners, NEW list \in Seq(Items),
         Call(g, o, list)
  PROVE  IInv'
<1> USE GrantAssumption DEF IInv, Call, Go, Over
<1>1. TypeOK'
  BY DEF TypeOK
<1>2. Progress'
  BY DEF TypeOK, Progress
<1>3. Inserted'
  BY DEF TypeOK, Row, Inserted
<1>4. OverBefore'
  BY DEF TypeOK, OverBefore
<1>5. NoRevokedRow'
  BY DEF TypeOK, NoRevokedRow, Deleted
<1>6. ASSUME NEW h \in Grants, Deleted(h)'
      PROVE  h # g /\ Deleted(h) /\ owner'[h] = owner[h] /\ Kept(h)' = Kept(h)
  BY <1>6 DEF TypeOK, Deleted, Kept, RowOf
<1>7. LastKept'
  <2> SUFFICES ASSUME NEW h \in Grants, Deleted(h)', Last(h)'
               PROVE  Kept(h)'
    BY DEF LastKept
  <2>1. h # g /\ Deleted(h) /\ after'[h] = after[h] /\ owner'[h] = owner[h]
    BY <1>6 DEF TypeOK
  <2>2. owner[g] = None /\ owner[h] # None
    BY <2>1 DEF Progress, Deleted
  <2>3. Last(h)
    BY <2>1, <2>2 DEF Last, TypeOK
  <2> QED
    BY <2>1, <2>3, <1>6 DEF LastKept
<1>8. OneKept'
  <2> SUFFICES ASSUME NEW h \in Grants, Deleted(h)'
               PROVE  \E k \in Grants :
                        /\ owner'[k] = owner'[h]
                        /\ phase'[k] \in {"insert", "done", "failed"}
                        /\ Kept(k)'
    BY DEF OneKept
  <2>1. PICK k \in Grants : /\ owner[k] = owner[h]
                            /\ phase[k] \in {"insert", "done", "failed"}
                            /\ Kept(k)
    BY <1>6 DEF OneKept
  <2>2. k # g
    BY <2>1
  <2> QED
    BY <1>6, <2>1, <2>2 DEF TypeOK, Kept, RowOf
<1> QED
  BY <1>1, <1>2, <1>3, <1>4, <1>5, <1>7, <1>8

\* A deletion takes nothing from the last request for the owner, and leaves
\* the request that deletes with all it has inserted: nothing.
LEMMA DeleteInv ==
  ASSUME IInv, NEW g \in Grants, Delete(g)
  PROVE  IInv'
<1> USE DEF IInv, Delete, Go, Over, request
<1>1. TypeOK'
  BY DEF TypeOK
<1>2. Progress'
  BY DEF TypeOK, Progress
<1>3. Inserted'
  BY DEF TypeOK, Row, Inserted
<1>4. OverBefore'
  BY DEF TypeOK, OverBefore
<1>5. NoRevokedRow'
  BY DEF TypeOK, Row, NoRevokedRow, Deleted
<1>6. Kept(g)'
  BY DEF Progress, Kept
<1>7. ASSUME NEW h \in Grants, Kept(h), owner[h] # owner[g]
      PROVE  Kept(h)'
  BY <1>7 DEF Kept, RowOf
<1>8. LastKept'
  <2> SUFFICES ASSUME NEW h \in Grants, Deleted(h)', Last(h)', h # g
               PROVE  Kept(h)'
    BY <1>6 DEF LastKept
  <2>1. Deleted(h) /\ Last(h)
    BY DEF TypeOK, Deleted, Last
  <2>2. owner[h] # owner[g]
    BY <2>1 DEF Last, OverBefore
  <2> QED
    BY <1>7, <2>1, <2>2 DEF LastKept
<1>9. OneKept'
  <2> SUFFICES ASSUME NEW h \in Grants, Deleted(h)'
               PROVE  \E k \in Grants :
                        /\ owner[k] = owner[h]
                        /\ phase'[k] \in {"insert", "done", "failed"}
                        /\ Kept(k)'
    BY DEF OneKept
  <2>1. CASE owner[h] = owner[g]
    BY <2>1, <1>6 DEF TypeOK
  <2>2. CASE owner[h] # owner[g]
    <3>1. h # g /\ Deleted(h)
      BY <2>2 DEF TypeOK, Deleted
    <3>2. PICK k \in Grants : /\ owner[k] = owner[h]
                              /\ phase[k] \in {"insert", "done", "failed"}
                              /\ Kept(k)
      BY <3>1 DEF OneKept
    <3> QED
      BY <2>2, <3>2, <1>7 DEF TypeOK
  <2> QED
    BY <2>1, <2>2
<1> QED
  BY <1>1, <1>2, <1>3, <1>4, <1>5, <1>8, <1>9

\* An insertion adds a row to those of its request.
LEMMA InsertInv ==
  ASSUME IInv, NEW g \in Grants, Insert(g)
  PROVE  IInv'
<1> USE DEF IInv, Go, Over, request
<1> DEFINE n == inserted[g] + 1
<1>a. /\ phase[g] = "insert"
      /\ inserted' = [inserted EXCEPT ![g] = n]
      /\ inserted'[g] = n
      /\ phase' = [phase EXCEPT ![g] =
                     IF n = Len(items[g]) THEN "done" ELSE "insert"]
      /\ UNCHANGED <<owner, items, after>>
  BY DEF Insert, TypeOK
<1>b. rows' = rows \cup {RowOf(g, n)}
  BY <1>a DEF Insert, RowOf
<1>0. n \in 1 .. Len(items[g]) /\ owner[g] \in Owners
  BY <1>a DEF TypeOK, Progress
<1>c. items[g][n] \in Items
  BY <1>0 DEF TypeOK
<1>1. TypeOK'
  BY <1>a, <1>b, <1>0, <1>c DEF TypeOK, RowOf, Row
<1>2. Progress'
  BY <1>a, <1>0 DEF TypeOK, Progress
<1>3. Inserted'
  <2>1. ASSUME NEW r \in rows
        PROVE  /\ phase'[r.by] \in {"insert", "done", "failed"}
               /\ r.at \in 1 .. inserted'[r.by]
    BY <1>a DEF TypeOK, Row, Inserted
  <2>2. n \in 1 .. inserted'[g] /\ phase'[g] \in {"insert", "done"}
    BY <1>a, <1>0 DEF TypeOK
  <2>3. /\ RowOf(g, n).by = g /\ RowOf(g, n).at = n
        /\ RowOf(g, n).item = items[g][n] /\ RowOf(g, n).owner = owner[g]
    BY DEF RowOf
  <2> HIDE DEF n
  <2> QED
    BY <1>a, <1>b, <2>1, <2>2, <2>3 DEF Inserted
<1>4. OverBefore'
  BY <1>a DEF TypeOK, OverBefore
<1>5. NoRevokedRow'
  <2>1. \A h \in Grants : g \notin after[h]
    BY <1>a DEF OverBefore
  <2> QED
    BY <1>a, <1>b, <2>1 DEF TypeOK, NoRevokedRow, Deleted, RowOf
<1>6. ASSUME NEW h \in Grants, Kept(h)
      PROVE  Kept(h)'
  <2> SUFFICES ASSUME NEW k \in 1 .. inserted'[h]
               PROVE  RowOf(h, k) \in rows'
    BY <1>a DEF Kept, RowOf
  <2>1. CASE h = g /\ k = n
    BY <1>b, <2>1
  <2>2. CASE h # g \/ k # n
    <3>1. k \in 1 .. inserted[h]
      BY <1>a, <2>2 DEF TypeOK
    <3> QED
      BY <1>b, <1>6, <3>1 DEF Kept
  <2> QED
    BY <2>1, <2>2
<1>7. ASSUME NEW h \in Grants
      PROVE  Deleted(h)' = Deleted(h)
  BY <1>a DEF TypeOK, Deleted
<1>8. LastKept'
  BY <1>a, <1>6, <1>7 DEF LastKept, Last
<1>9. OneKept'
  BY <1>a, <1>6, <1>7 DEF TypeOK, OneKept
<1> QED
  BY <1>1, <1>2, <1>3, <1>4, <1>5, <1>8, <1>9

\* A failure changes no row.
LEMMA FailInv ==
  ASSUME IInv, NEW g \in Grants, Fail(g)
  PROVE  IInv'
<1> USE DEF IInv, Fail, Go, Over, request
<1>1. TypeOK'
  BY DEF TypeOK
<1>2. Progress'
  BY DEF TypeOK, Progress
<1>3. Inserted'
  BY DEF TypeOK, Row, Inserted
<1>4. OverBefore'
  BY DEF TypeOK, OverBefore
<1>5. ASSUME NEW h \in Grants, Deleted(h)'
      PROVE  Deleted(h)
  BY <1>5 DEF TypeOK, Deleted
<1>6. NoRevokedRow'
  BY <1>5 DEF NoRevokedRow
<1>7. ASSUME NEW h \in Grants
      PROVE  Kept(h)' = Kept(h)
  BY DEF Kept, RowOf
<1>8. LastKept'
  BY <1>5, <1>7 DEF LastKept, Last
<1>9. OneKept'
  BY <1>5, <1>7 DEF TypeOK, OneKept
<1> QED
  BY <1>1, <1>2, <1>3, <1>4, <1>6, <1>8, <1>9

\* Every step keeps the inductive invariant.
LEMMA NextInv ==
  ASSUME IInv, [Next]_vars
  PROVE  IInv'
<1>1. CASE UNCHANGED vars
  BY <1>1
  DEF vars, request, IInv, TypeOK, Progress, Inserted, OverBefore,
      NoRevokedRow, LastKept, OneKept, Deleted, Last, Kept, RowOf, Over
<1>2. CASE Next
  BY <1>2, CallInv, DeleteInv, InsertInv, FailInv, ListsAreSeq DEF Next
<1> QED
  BY <1>1, <1>2

\* The inductive invariant holds in every behaviour.
LEMMA Invariance == Spec => []IInv
<1>1. IInv /\ [Next]_vars => IInv'
  BY NextInv
<1> QED
  BY InitInv, <1>1, PTL DEF Spec

\* The rows of a request that has inserted everything are all it asked for.
LEMMA KeptItems ==
  ASSUME IInv, NEW g \in Grants, Kept(g), inserted[g] = Len(items[g])
  PROVE  Asked(g) \subseteq ItemsOf(owner[g])
<1> SUFFICES ASSUME NEW n \in 1 .. Len(items[g])
             PROVE  items[g][n] \in ItemsOf(owner[g])
  BY DEF Asked, IInv, TypeOK
<1>1. RowOf(g, n) \in {q \in rows : q.owner = owner[g]}
  BY DEF Kept, RowOf
<1>2. RowOf(g, n).item = items[g][n]
  BY DEF RowOf
<1> QED
  BY <1>1, <1>2 DEF ItemsOf

\* Rows are rows of requests that are past their deletion.
LEMMA RowPast ==
  ASSUME IInv, NEW r \in rows
  PROVE  /\ r.by \in Grants /\ r.by \in Past /\ phase[r.by] # "new"
         /\ r.owner = owner[r.by]
         /\ r.at \in DOMAIN items[r.by] /\ r.item = items[r.by][r.at]
         /\ r.item \in Asked(r.by)
<1>1. /\ r.by \in Grants /\ r.by \in Past /\ phase[r.by] # "new"
      /\ r.owner = owner[r.by]
      /\ r.at \in 1 .. inserted[r.by] /\ r.item = items[r.by][r.at]
  BY DEF IInv, TypeOK, Row, Inserted, Past
<1>2. r.at \in DOMAIN items[r.by]
  BY <1>1 DEF IInv, TypeOK, Progress
<1> QED
  BY <1>1, <1>2 DEF Asked

-----------------------------------------------------------------------------
\* The table holds rows of known owners only, and every request the values
\* its steps may give it.
THEOREM TypeCorrect == Spec => []TypeOK
<1>1. IInv => TypeOK
  BY DEF IInv
<1> QED
  BY <1>1, Invariance, PTL

\* A grant revokes what earlier ones have granted, however many requests
\* overlap or fail.
THEOREM Revoked == Spec => []NoRevokedRow
<1>1. IInv => NoRevokedRow
  BY DEF IInv
<1> QED
  BY <1>1, Invariance, PTL

\* The last grant is what its owner has: a consequence of the invariant.
LEMMA StandsInv == IInv => LastGrantStands
<1> SUFFICES ASSUME IInv, NEW g \in Grants, phase[g] = "done", Last(g)
             PROVE  ItemsOf(owner[g]) = Asked(g)
  BY DEF LastGrantStands
<1>1. Deleted(g) /\ inserted[g] = Len(items[g]) /\ Kept(g)
  BY DEF IInv, Deleted, Progress, LastKept
<1>2. Asked(g) \subseteq ItemsOf(owner[g])
  BY <1>1, KeptItems
<1>3. ASSUME NEW r \in rows, r.owner = owner[g]
      PROVE  r.item \in Asked(g)
  <2>1. r.by \in Grants /\ r.owner = owner[r.by] /\ r.item \in Asked(r.by)
    BY RowPast
  <2>2. r.by = g
    BY <1>1, <1>3, <2>1 DEF IInv, NoRevokedRow, Last
  <2> QED
    BY <2>1, <2>2
<1> QED
  BY <1>2, <1>3 DEF ItemsOf

\* A grant that overlaps no other for its owner and does not fail is what the
\* owner has in the end.
THEOREM Stands == Spec => []LastGrantStands
  BY StandsInv, Invariance, PTL

\* Of grants that overlap and do not fail one is whole.
THEOREM Whole == Spec => []OneGrantWhole
<1>1. IInv => OneGrantWhole
  <2> SUFFICES ASSUME IInv, NEW o \in Owners,
                      NEW g \in Grants, owner[g] = o,
                      \A h \in Grants : owner[h] = o => phase[h] = "done"
               PROVE  \E h \in Grants :
                        owner[h] = o /\ Asked(h) \subseteq ItemsOf(o)
    BY DEF OneGrantWhole
  <2>1. Deleted(g)
    BY DEF Deleted
  <2>2. PICK h \in Grants : owner[h] = o /\ Kept(h)
    BY <2>1 DEF IInv, OneKept
  <2>3. inserted[h] = Len(items[h])
    BY <2>2 DEF IInv, Progress
  <2>4. Asked(h) \subseteq ItemsOf(o)
    BY <2>2, <2>3, KeptItems
  <2> QED
    BY <2>2, <2>4
<1> QED
  BY <1>1, Invariance, PTL

------------------------------------------------------------------------------
(* The table with the viewers of the menus.                                *)

\* Who is where in getUserMenu knows what it has read.
Viewing ==
  \A v \in Viewers :
    /\ viewing[v] = "idle" => role[v] = None
    /\ viewing[v] # "idle" => role[v] \in Roles /\ viewer[v] \in Users
    /\ viewing[v] # "done" => \A m \in Menus : shown[v][m] = 0
    /\ heeded[v] \subseteq Past

\* No row outlives a request that came after its own: not one that has rows
\* itself, and not one a viewer knows to have deleted, though either may have
\* failed since.
RowsOverlapped ==
  \A q, r \in rows : q.owner = r.owner => q.by \notin after[r.by]

RowsHeeded ==
  \A v \in Viewers : \A h \in heeded[v], r \in rows :
    owner[h] = r.owner => r.by \notin after[h]

MenuInv ==
  /\ IInv
  /\ MenuTypeOK
  /\ IsFiniteSet(rows)
  /\ Viewing
  /\ RowsOverlapped
  /\ RowsHeeded
  /\ RevokedIsNotShown

\* What a request asks for does not change once it is made.
LEMMA Settled ==
  ASSUME IInv, [Next]_vars, NEW g \in Grants, phase[g] # "new"
  PROVE  /\ owner'[g] = owner[g]
         /\ items'[g] = items[g]
         /\ after'[g] = after[g]
         /\ g \in Past => g \in Past'
         /\ g \in Over => g \in Over'
<1> USE DEF IInv, TypeOK, Past, Over, Go, request
<1>1. ASSUME NEW h \in Grants, NEW o \in Owners, NEW list \in Seq(Items),
             Call(h, o, list)
      PROVE  /\ owner'[g] = owner[g] /\ items'[g] = items[g]
             /\ after'[g] = after[g] /\ phase'[g] = phase[g]
  BY <1>1 DEF Call
<1>2. ASSUME NEW h \in Grants, Delete(h)
      PROVE  /\ owner'[g] = owner[g] /\ items'[g] = items[g]
             /\ after'[g] = after[g]
             /\ \/ phase'[g] = phase[g]
                \/ phase[g] = "delete" /\ phase'[g] \in {"insert", "done"}
  BY <1>2 DEF Delete
<1>3. ASSUME NEW h \in Grants, Insert(h)
      PROVE  /\ owner'[g] = owner[g] /\ items'[g] = items[g]
             /\ after'[g] = after[g]
             /\ \/ phase'[g] = phase[g]
                \/ phase[g] = "insert" /\ phase'[g] \in {"insert", "done"}
  BY <1>3 DEF Insert
<1>4. ASSUME NEW h \in Grants, Fail(h)
      PROVE  /\ owner'[g] = owner[g] /\ items'[g] = items[g]
             /\ after'[g] = after[g]
             /\ phase'[g] = phase[g] \/ phase'[g] = "failed"
  BY <1>4 DEF Fail
<1>5. CASE UNCHANGED vars
  BY <1>5 DEF vars
<1>6. CASE Next
  BY <1>1, <1>2, <1>3, <1>4, <1>6, ListsAreSeq DEF Next
<1> QED
  BY <1>5, <1>6

\* What was asked for and not revoked stays so.
LEMMA UnrevokedStays ==
  ASSUME IInv, [Next]_vars, NEW o, o # None, NEW i, NEW S \in SUBSET Past,
         Unrevoked(o, i, S)
  PROVE  Unrevoked(o, i, S)'
<1>1. PICK g \in Grants : /\ owner[g] = o /\ i \in Asked(g)
                          /\ \A h \in S : owner[h] = o => g \notin after[h]
  BY DEF Unrevoked
<1>2. phase[g] # "new"
  BY <1>1 DEF IInv, Progress
<1>3. owner'[g] = o /\ i \in Asked(g)'
  BY <1>1, <1>2, Settled DEF Asked
<1>4. ASSUME NEW h \in S
      PROVE  owner'[h] = owner[h] /\ after'[h] = after[h]
  BY Settled DEF Past
<1> QED
  BY <1>1, <1>3, <1>4 DEF Unrevoked

\* The rows stay finitely many.
LEMMA RowsFinite ==
  ASSUME IInv, IsFiniteSet(rows), [Next]_vars
  PROVE  IsFiniteSet(rows)'
<1>1. ASSUME NEW g \in Grants, Delete(g)
      PROVE  IsFiniteSet(rows')
  BY <1>1, FS_Subset DEF Delete
<1>2. ASSUME NEW g \in Grants, Insert(g)
      PROVE  IsFiniteSet(rows')
  <2>1. rows' = rows \cup {RowOf(g, inserted'[g])}
    BY <1>2 DEF Insert
  <2> QED
    BY <2>1, FS_AddElement
<1>3. CASE UNCHANGED rows
  BY <1>3
<1>4. CASE Next
  BY <1>1, <1>2, <1>3, <1>4 DEF Next, Call, Fail
<1> QED
  BY <1>3, <1>4 DEF vars

\* A row that is added is not one that its table has seen revoked.
LEMMA RowsStayApart ==
  ASSUME IInv, RowsOverlapped, RowsHeeded, [Next]_vars, UNCHANGED views,
         \A v \in Viewers : heeded[v] \subseteq Past
  PROVE  RowsOverlapped' /\ RowsHeeded'
<1>1. IInv'
  BY NextInv
<1>2. ASSUME NEW r \in rows
      PROVE  r.by \in Grants /\ after'[r.by] = after[r.by]
  BY RowPast, Settled
<1>3. ASSUME NEW v \in Viewers, NEW h \in heeded[v]
      PROVE  h \in Grants /\ owner'[h] = owner[h] /\ after'[h] = after[h]
  BY Settled DEF Past
<1>4. CASE rows' \subseteq rows
  <2>1. RowsOverlapped'
    BY <1>2, <1>4 DEF RowsOverlapped
  <2>2. RowsHeeded'
    BY <1>3, <1>4 DEF RowsHeeded, views
  <2> QED
    BY <2>1, <2>2
<1>5. ASSUME NEW g \in Grants, Insert(g)
      PROVE  RowsOverlapped' /\ RowsHeeded'
  <2> DEFINE new == RowOf(g, inserted[g] + 1)
  <2>a. phase[g] = "insert" /\ inserted'[g] = inserted[g] + 1
    BY <1>5 DEF Insert, IInv, TypeOK
  <2>1. rows' = rows \cup {new} /\ UNCHANGED <<owner, after>>
    BY <1>5, <2>a DEF Insert, RowOf, request
  <2>2. new.by = g /\ new.owner = owner[g] /\ Deleted(g)'
    BY <1>5, <2>a DEF Insert, Go, Deleted, RowOf, IInv, TypeOK
  <2> HIDE DEF new
  <2>3. \A h \in Grants : g \notin after[h]
    BY <1>5 DEF Insert, IInv, OverBefore, Over
  <2>4. ASSUME NEW q \in rows, q.owner = new.owner
        PROVE  q.by \notin after[g]
    BY <1>1, <2>1, <2>2, <2>4 DEF IInv, NoRevokedRow
  <2>5. RowsOverlapped'
    BY <1>2, <2>1, <2>2, <2>3, <2>4 DEF RowsOverlapped
  <2>6. RowsHeeded'
    BY <1>3, <2>1, <2>2, <2>3 DEF RowsHeeded, views
  <2> QED
    BY <2>5, <2>6
<1>6. CASE UNCHANGED vars
  BY <1>4, <1>6 DEF vars
<1>7. CASE Next
  <2>1. ASSUME NEW g \in Grants, Delete(g)
        PROVE  rows' \subseteq rows
    BY <2>1 DEF Delete
  <2> QED
    BY <1>4, <1>5, <1>7, <2>1 DEF Next, Call, Fail
<1> QED
  BY <1>6, <1>7

\* What viewers were shown stays justified.
LEMMA ShownStays ==
  ASSUME MenuInv, [Next]_vars, UNCHANGED views
  PROVE  RevokedIsNotShown'
<1> USE DEF MenuInv, views
<1>1. ASSUME NEW v \in Viewers
      PROVE  /\ heeded[v] \in SUBSET Past
             /\ role[v] \notin {None, DefaultRole} => viewer[v] # None
             /\ \A m \in Menus : shown[v][m] > 0 => role[v] # None
  BY MenuAssumption DEF Viewing, MenuTypeOK
<1> SUFFICES ASSUME NEW v \in Viewers
             PROVE  /\ role[v] \notin {None, DefaultRole}
                         => Unrevoked(viewer[v], role[v], heeded[v])'
                    /\ \A m \in Menus :
                         shown[v][m] > 0
                           => Unrevoked(role[v], m, heeded[v])'
  BY DEF RevokedIsNotShown
<1> QED
  BY <1>1, UnrevokedStays DEF RevokedIsNotShown

\* Steps of the tables keep the invariant.
LEMMA TableInv ==
  ASSUME MenuInv, [Next]_vars, UNCHANGED views,
         roles' \subseteq Roles, menus' \in [Menus -> Nat],
         changes' \in 0 .. MaxChanges
  PROVE  MenuInv'
<1> USE DEF MenuInv, views
<1>1. IInv' /\ IsFiniteSet(rows)'
  BY NextInv, RowsFinite
<1>2. MenuTypeOK'
  BY <1>1 DEF MenuTypeOK, IInv
<1>3. Viewing'
  <2>1. \A v \in Viewers : heeded[v] \subseteq Past'
    BY Settled DEF Viewing, Past
  <2> QED
    BY <2>1 DEF Viewing
<1>4. RowsOverlapped' /\ RowsHeeded'
  BY RowsStayApart DEF Viewing
<1>5. RevokedIsNotShown'
  BY ShownStays
<1> QED
  BY <1>1, <1>2, <1>3, <1>4, <1>5

\* The first query finds roles that no request heeded has revoked.
LEMMA ReadRolesInv ==
  ASSUME MenuInv, NEW v \in Viewers, NEW u \in Users, ReadRoles(v, u)
  PROVE  MenuInv'
<1> USE DEF MenuInv, ReadRoles, vars, request
<1> PICK r \in Smallest(RolesOf(u)) : role' = [role EXCEPT ![v] = r]
  OBVIOUS
<1>1. r = DefaultRole \/ r \in ItemsOf(u) \cap roles
  BY DEF Smallest, RolesOf
<1>2. r \in Roles
  BY <1>1, MenuAssumption DEF MenuTypeOK
<1>3. \A h \in Grants : Deleted(h) => h \in Past
  BY DEF Deleted, Past
<1>4. IInv'
  BY DEF IInv, TypeOK, Progress, Inserted, OverBefore, NoRevokedRow, LastKept,
         OneKept, Deleted, Last, Kept, RowOf, Over
<1>5. MenuTypeOK'
  BY <1>2, <1>4 DEF MenuTypeOK, IInv
<1>6. Viewing'
  BY <1>2, <1>3 DEF Viewing, MenuTypeOK, Past
<1>7. RowsOverlapped'
  BY DEF RowsOverlapped
<1>8. RowsHeeded'
  <2>1. \A h \in heeded'[v], q \in rows :
          owner[h] = q.owner => q.by \notin after[h]
    BY DEF MenuTypeOK, IInv, NoRevokedRow
  <2> QED
    BY <2>1 DEF RowsHeeded, MenuTypeOK
<1>9. ASSUME r # DefaultRole
      PROVE  Unrevoked(u, r, heeded'[v])
  <2>1. PICK q \in rows : q.owner = u /\ q.item = r
    BY <1>1, <1>9 DEF ItemsOf
  <2>2. q.by \in Grants /\ owner[q.by] = u /\ r \in Asked(q.by)
    BY <2>1, RowPast
  <2>3. \A h \in heeded'[v] : owner[h] = u => q.by \notin after[h]
    BY <2>1 DEF MenuTypeOK, IInv, NoRevokedRow
  <2> QED
    BY <2>2, <2>3 DEF Unrevoked
<1>10. \A m \in Menus : shown'[v][m] = 0
  BY DEF Viewing
<1>11. RevokedIsNotShown'
  <2> SUFFICES ASSUME NEW w \in Viewers
               PROVE  /\ role'[w] \notin {None, DefaultRole}
                           => Unrevoked(viewer[w], role[w], heeded[w])'
                      /\ \A m \in Menus :
                           shown'[w][m] > 0
                             => Unrevoked(role[w], m, heeded[w])'
    BY DEF RevokedIsNotShown
  <2>1. CASE w = v
    BY <1>9, <1>10, <2>1 DEF MenuTypeOK, Unrevoked, Asked
  <2>2. CASE w # v
    <3>1. /\ role'[w] = role[w] /\ viewer'[w] = viewer[w]
          /\ shown'[w] = shown[w] /\ heeded'[w] = heeded[w]
      BY <2>2 DEF MenuTypeOK
    <3>2. /\ role[w] \notin {None, DefaultRole}
               => Unrevoked(viewer[w], role[w], heeded[w])
          /\ \A m \in Menus :
               shown[w][m] > 0 => Unrevoked(role[w], m, heeded[w])
      BY DEF RevokedIsNotShown
    <3> QED
      BY <3>1, <3>2 DEF Unrevoked, Asked
  <2> QED
    BY <2>1, <2>2
<1> QED
  BY <1>4, <1>5, <1>6, <1>7, <1>8, <1>11

\* The rows of role r for menu m.
RowsFor(r, m) == {q \in rows : q.owner = r /\ q.item = m}

\* A product of naturals is beyond a bound only if a factor is.
LEMMA Product ==
  ASSUME NEW x \in Nat, NEW y \in Nat
  PROVE  /\ x * y \in Nat
         /\ x * y > 0 => x > 0 /\ y > 0
         /\ x * y > 1 => x > 1 \/ y > 1
<1>1. x * y \in Nat
  OBVIOUS
<1>2. x = 0 \/ y = 0 => x * y = 0
  OBVIOUS
<1>3. x = 1 => x * y = y
  OBVIOUS
<1> QED
  BY <1>1, <1>2, <1>3

\* A menu that the join finds has a row, and one it finds twice two.
LEMMA TimesRows ==
  ASSUME MenuInv, NEW r, NEW m \in Menus
  PROVE  /\ Times(r, m) \in Nat
         /\ Times(r, m) > 0 => \E q \in RowsFor(r, m) : TRUE
         /\ Times(r, m) > 1 => \/ menus[m] > 1
                               \/ \E p, q \in RowsFor(r, m) : p # q
<1> DEFINE R == RowsFor(r, m)
<1>1. IsFiniteSet(R) /\ Cardinality(R) \in Nat
  BY FS_Subset, FS_CardinalityType DEF RowsFor, MenuInv
<1>2. Times(r, m) = menus[m] * Cardinality(R) /\ menus[m] \in Nat
  BY DEF Times, RowsFor, MenuInv, MenuTypeOK
<1>3. Cardinality(R) = 0 <=> R = {}
  BY <1>1, FS_EmptySet
<1>4. ASSUME \A p, q \in R : p = q, R # {}
      PROVE  Cardinality(R) = 1
  <2>1. PICK p \in R : R = {p}
    BY <1>4
  <2> HIDE DEF R
  <2> QED
    BY <2>1, FS_Singleton
<1> HIDE DEF R
<1>5. Cardinality(R) > 0 => \E q \in R : TRUE
  BY <1>3
<1>6. Cardinality(R) > 1 => \E p, q \in R : p # q
  BY <1>1, <1>3, <1>4
<1>7. /\ Times(r, m) \in Nat
      /\ Times(r, m) > 0 => Cardinality(R) > 0
      /\ Times(r, m) > 1 => menus[m] > 1 \/ Cardinality(R) > 1
  BY <1>1, <1>2, Product
<1> QED
  BY <1>5, <1>6, <1>7 DEF R

\* Two rows for the same menu were inserted by requests that overlapped, or
\* by one that asked for it twice.
LEMMA TwiceInserted ==
  ASSUME MenuInv, NEW r, NEW m \in Menus, NEW p \in RowsFor(r, m),
         NEW q \in RowsFor(r, m), p # q
  PROVE  Overlapped(r) \/ Repeated(r, m)
<1>1. /\ p \in Row /\ q \in Row
      /\ p.owner = r /\ p.item = m /\ q.owner = r /\ q.item = m
  BY DEF RowsFor, MenuInv, IInv, TypeOK
<1>2. p.by # q.by \/ p.at # q.at
  BY <1>1 DEF Row
<1>3. ASSUME NEW x \in RowsFor(r, m)
      PROVE  /\ x.by \in Grants /\ owner[x.by] = r
             /\ x.at \in DOMAIN items[x.by] /\ items[x.by][x.at] = m
  BY RowPast DEF RowsFor, MenuInv
<1>4. p.by \notin after[q.by] /\ q.by \notin after[p.by]
  BY <1>1 DEF RowsFor, MenuInv, RowsOverlapped
<1>5. CASE p.by # q.by
  BY <1>3, <1>4, <1>5 DEF Overlapped
<1>6. CASE p.by = q.by
  BY <1>2, <1>3, <1>6 DEF Repeated
<1> QED
  BY <1>5, <1>6

\* distributeMenu lists what the join has found, and nothing twice but for
\* rows that are there twice.
LEMMA ListedTimes ==
  ASSUME MenuInv, NEW r, NEW m \in Menus
  PROVE  /\ Listed(r, m) \in Nat
         /\ Listed(r, m) > 0 => Times(r, m) > 0
         /\ Listed(r, m) > 1
              => \E n \in {m, parent[m]} \cap Menus : Times(r, n) > 1
<1>1. Times(r, m) \in Nat
  BY TimesRows
<1>2. CASE parent[m] = None
  BY <1>1, <1>2 DEF Listed
<1>3. CASE parent[m] # None /\ parent[parent[m]] = None
  <2>1. parent[m] \in Menus
    BY <1>3, MenuAssumption
  <2>2. Times(r, parent[m]) \in Nat
    BY <2>1, TimesRows
  <2>3. Listed(r, m) = Times(r, m) * Times(r, parent[m])
    BY <1>3 DEF Listed
  <2> QED
    BY <1>1, <2>1, <2>2, <2>3, Product
<1>4. CASE parent[m] # None /\ parent[parent[m]] # None
  BY <1>4 DEF Listed
<1> QED
  BY <1>2, <1>3, <1>4

\* The second query finds menus that no request heeded has revoked.
LEMMA ReadMenusInv ==
  ASSUME MenuInv, NEW v \in Viewers, ReadMenus(v)
  PROVE  MenuInv'
<1> USE DEF MenuInv, ReadMenus, vars, request
<1>1. IInv'
  BY DEF IInv, TypeOK, Progress, Inserted, OverBefore, NoRevokedRow, LastKept,
         OneKept, Deleted, Last, Kept, RowOf, Over
<1>2. \A m \in Menus : shown'[v][m] = Listed(role[v], m)
  BY DEF MenuTypeOK
<1>3. MenuTypeOK'
  BY <1>1, ListedTimes DEF MenuTypeOK, IInv
<1>4. Viewing'
  BY DEF Viewing, MenuTypeOK, Past
<1>5. RowsOverlapped' /\ RowsHeeded'
  BY DEF RowsOverlapped, RowsHeeded
<1>6. ASSUME NEW m \in Menus, shown'[v][m] > 0
      PROVE  Unrevoked(role[v], m, heeded[v])
  <2>1. PICK q \in rows : q.owner = role[v] /\ q.item = m
    BY <1>2, <1>6, ListedTimes, TimesRows DEF RowsFor
  <2>2. q.by \in Grants /\ owner[q.by] = role[v] /\ m \in Asked(q.by)
    BY <2>1, RowPast
  <2>3. \A h \in heeded[v] : owner[h] = role[v] => q.by \notin after[h]
    BY <2>1 DEF RowsHeeded
  <2> QED
    BY <2>2, <2>3 DEF Unrevoked
<1>7. RevokedIsNotShown'
  <2> SUFFICES ASSUME NEW w \in Viewers
               PROVE  /\ role[w] \notin {None, DefaultRole}
                           => Unrevoked(viewer[w], role[w], heeded[w])
                      /\ \A m \in Menus :
                           shown'[w][m] > 0
                             => Unrevoked(role[w], m, heeded[w])
    BY DEF RevokedIsNotShown, Unrevoked, Asked
  <2>1. w # v => shown'[w] = shown[w]
    BY DEF MenuTypeOK
  <2> QED
    BY <1>6, <2>1 DEF RevokedIsNotShown
<1> QED
  BY <1>1, <1>3, <1>4, <1>5, <1>7

\* Nothing is granted and nobody is shown anything at first.
LEMMA MenuInitInv == MenuInit => MenuInv
<1> SUFFICES ASSUME MenuInit PROVE MenuInv
  OBVIOUS
<1>1. IInv
  BY InitInv DEF MenuInit
<1>2. rows = {} /\ IsFiniteSet(rows)
  BY FS_EmptySet DEF MenuInit, Init
<1> QED
  BY <1>1, <1>2, MenuAssumption
  DEF MenuInit, MenuInv, MenuTypeOK, IInv, Viewing, RowsOverlapped, RowsHeeded,
      RevokedIsNotShown

\* Every step keeps the invariant.
LEMMA MenuNextInv ==
  ASSUME MenuInv, [MenuNext]_menuVars
  PROVE  MenuInv'
<1>1. CASE Grant
  <2>1. [Next]_vars
    <3>1. /\ Users \subseteq Owners /\ Roles \subseteq Owners
          /\ Lists(Roles) \subseteq Lists(Items)
          /\ Lists(Menus) \subseteq Lists(Items)
      BY MenuAssumption, ListsGrow
    <3> QED
      BY <1>1, <3>1 DEF Grant, Next
  <2> QED
    BY <1>1, <2>1, TableInv DEF Grant, MenuInv, MenuTypeOK
<1>2. ASSUME NEW r \in Roles, AddRole(r) \/ DelRole(r)
      PROVE  MenuInv'
  <2>1. [Next]_vars /\ UNCHANGED views /\ menus' \in [Menus -> Nat]
    BY <1>2 DEF AddRole, DelRole, Change, MenuInv, MenuTypeOK
  <2>2. roles' \subseteq Roles
    BY <1>2 DEF AddRole, DelRole, MenuInv, MenuTypeOK
  <2>3. changes' \in 0 .. MaxChanges
    BY <1>2, MenuAssumption DEF AddRole, DelRole, Change, MenuInv, MenuTypeOK
  <2> QED
    BY <2>1, <2>2, <2>3, TableInv
<1>3. ASSUME NEW m \in Menus, AddMenu(m) \/ DeleteMenu(m)
      PROVE  MenuInv'
  <2>1. [Next]_vars /\ UNCHANGED views /\ roles' \subseteq Roles
    BY <1>3 DEF AddMenu, DeleteMenu, Change, MenuInv, MenuTypeOK
  <2>2. menus' \in [Menus -> Nat]
    BY <1>3 DEF AddMenu, DeleteMenu, MenuInv, MenuTypeOK
  <2>3. changes' \in 0 .. MaxChanges
    BY <1>3, MenuAssumption
    DEF AddMenu, DeleteMenu, Change, MenuInv, MenuTypeOK
  <2> QED
    BY <2>1, <2>2, <2>3, TableInv
<1>4. CASE UNCHANGED menuVars
  BY <1>4, TableInv DEF menuVars, MenuInv, MenuTypeOK
<1> QED
  BY <1>1, <1>2, <1>3, <1>4, ReadRolesInv, ReadMenusInv DEF MenuNext

LEMMA MenuInvariance == MenuSpec => []MenuInv
<1>1. MenuInv /\ [MenuNext]_menuVars => MenuInv'
  BY MenuNextInv
<1> QED
  BY MenuInitInv, <1>1, PTL DEF MenuSpec

-----------------------------------------------------------------------------
\* Type correctness of the tables and of what viewers have read.
THEOREM MenuTypeCorrect == MenuSpec => []MenuTypeOK
<1>1. MenuInv => MenuTypeOK
  BY DEF MenuInv
<1> QED
  BY <1>1, MenuInvariance, PTL

\* Who logs in after a revocation was carried out is not shown what it has
\* revoked, though roles and menus are read with two queries among requests
\* that overlap and fail.
THEOREM RevokedNotShown == MenuSpec => []RevokedIsNotShown
<1>1. MenuInv => RevokedIsNotShown
  BY DEF MenuInv
<1> QED
  BY <1>1, MenuInvariance, PTL

\* A menu is listed twice only if requests for its role have overlapped, or
\* it was asked for, or added, twice.
THEOREM Once == MenuSpec => MenusOnce
<1> DEFINE Justified ==
      \A v \in Viewers, m \in Menus :
        viewing[v] = "menus" /\ viewing'[v] = "done" /\ shown'[v][m] > 1
        => \/ Overlapped(role[v])
           \/ \E n \in {m, parent[m]} \cap Menus :
                menus[n] > 1 \/ Repeated(role[v], n)
<1>1. MenuInv /\ [MenuNext]_menuVars => [Justified]_menuVars
  <2> SUFFICES ASSUME MenuInv, MenuNext,
                      NEW v \in Viewers, NEW m \in Menus,
                      viewing[v] = "menus", viewing'[v] = "done",
                      shown'[v][m] > 1
               PROVE  \/ Overlapped(role[v])
                      \/ \E n \in {m, parent[m]} \cap Menus :
                           menus[n] > 1 \/ Repeated(role[v], n)
    BY Zenon
  <2>1. ReadMenus(v)
    <3>1. \A w \in Viewers : ReadMenus(w) => w = v
      BY DEF ReadMenus, MenuInv, MenuTypeOK
    <3>2. \A w \in Viewers, u \in Users : ~ReadRoles(w, u)
      BY DEF ReadRoles, MenuInv, MenuTypeOK
    <3> QED
      BY <3>1, <3>2
      DEF MenuNext, Grant, AddRole, DelRole, AddMenu, DeleteMenu, Change, views
  <2>2. shown'[v][m] = Listed(role[v], m)
    BY <2>1 DEF ReadMenus, MenuInv, MenuTypeOK
  <2>3. PICK n \in {m, parent[m]} \cap Menus : Times(role[v], n) > 1
    BY <2>2, ListedTimes
  <2>4. menus[n] > 1 \/ \E p, q \in RowsFor(role[v], n) : p # q
    BY <2>3, TimesRows
  <2> QED
    BY <2>4, TwiceInserted
<1> QED
  BY <1>1, MenuInvariance, PTL DEF MenuSpec, MenusOnce

\* A user is shown the menus of the role with the least code that the last
\* request for the user has given.
THEOREM Decides == MenuSpec => LastGrantDecides
<1> DEFINE Chosen ==
      \A v \in Viewers, g \in Grants :
        LET given == Asked(g) \cap roles
        IN  /\ viewing[v] = "idle" /\ viewing'[v] = "menus"
            /\ owner[g] = viewer'[v] /\ phase[g] = "done" /\ Last(g)
            /\ given # {}
            => /\ role'[v] \in given
               /\ \A r \in given : roleCode[role'[v]] <= roleCode[r]
<1>1. MenuInv /\ [MenuNext]_menuVars => [Chosen]_menuVars
  <2> SUFFICES ASSUME MenuInv, MenuNext,
                      NEW v \in Viewers, NEW g \in Grants,
                      viewing[v] = "idle", viewing'[v] = "menus",
                      owner[g] = viewer'[v], phase[g] = "done", Last(g),
                      Asked(g) \cap roles # {}
               PROVE  /\ role'[v] \in Asked(g) \cap roles
                      /\ \A r \in Asked(g) \cap roles :
                           roleCode[role'[v]] <= roleCode[r]
    BY Zenon
  <2>1. PICK u \in Users : ReadRoles(v, u)
    <3>1. viewing' # viewing
      OBVIOUS
    <3>2. \A w \in Viewers : ReadMenus(w) => viewing'[v] # "menus"
      BY DEF ReadMenus, MenuInv, MenuTypeOK
    <3>3. \A w \in Viewers, u \in Users : ReadRoles(w, u) => w = v
      BY DEF ReadRoles, MenuInv, MenuTypeOK
    <3> QED
      BY <3>1, <3>2, <3>3
      DEF MenuNext, Grant, AddRole, DelRole, AddMenu, DeleteMenu, Change, views
  <2>2. owner[g] = u
    BY <2>1 DEF ReadRoles, MenuInv, MenuTypeOK
  <2>3. ItemsOf(u) = Asked(g)
    BY <2>2, StandsInv DEF MenuInv, LastGrantStands
  <2>4. PICK r \in Smallest(Asked(g) \cap roles) : role'[v] = r
    BY <2>1, <2>3 DEF ReadRoles, RolesOf, MenuInv, MenuTypeOK
  <2> QED
    BY <2>4 DEF Smallest
<1> QED
  BY <1>1, MenuInvariance, PTL DEF MenuSpec, LastGrantDecides
=============================================================================
