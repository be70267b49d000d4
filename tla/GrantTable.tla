------------------------------ MODULE GrantTable ------------------------------
(***************************************************************************)
(* UserManager.grantRoleToUser and RoleManager.modifyRoleMenu: the rows of *)
(* an owner (the roles of a user, the menus of a role) are deleted and     *)
(* those of the request are inserted one by one.  The transaction declared *)
(* for it does not take effect (UserManager.java:85), so every statement   *)
(* is committed on its own, readers and other requests see what there is   *)
(* in between, and a request that fails leaves what it has done.           *)
(*                                                                         *)
(* The ids of a request are a list, made of the array of the request, in   *)
(* which an id may come twice.  Rows carry the request that inserted them  *)
(* and the position in its list, for the same pair may be inserted twice.  *)
(***************************************************************************)
EXTENDS Naturals, Sequences

CONSTANTS
  Owners,   \* users, or roles
  Items,    \* roles, or menu codes
  Grants,   \* the requests, each made at most once
  None,     \* no owner
  MaxItems  \* bound: ids in a request

ASSUME GrantAssumption == None \notin Owners /\ MaxItems \in Nat

VARIABLES
  rows,     \* the table
  phase,    \* how far each request is
  owner,    \* whose rows it replaces
  items,    \* the ids it asks for, in the order of the list
  inserted, \* how many of them it has inserted
  after     \* history: the requests that were over when it was made

request == <<owner, items, after>>
vars == <<rows, phase, request, inserted>>

Row == [owner : Owners, item : Items, by : Grants, at : Nat]

TypeOK ==
  /\ rows \subseteq Row
  /\ phase \in [Grants -> {"new", "delete", "insert", "done", "failed"}]
  /\ owner \in [Grants -> Owners \cup {None}]
  /\ items \in [Grants -> Seq(Items)]
  /\ inserted \in [Grants -> Nat]
  /\ after \in [Grants -> SUBSET Grants]

Init ==
  /\ rows = {}
  /\ phase = [g \in Grants |-> "new"]
  /\ owner = [g \in Grants |-> None]
  /\ items = [g \in Grants |-> <<>>]
  /\ inserted = [g \in Grants |-> 0]
  /\ after = [g \in Grants |-> {}]

Over == {g \in Grants : phase[g] \in {"done", "failed"}}

Go(g, p) == phase' = [phase EXCEPT ![g] = p]

\* The lists of ids a request may come with, and the ids of that of g.
Lists(S) == UNION {[1 .. n -> S] : n \in 0 .. MaxItems}
Asked(g) == {items[g][n] : n \in DOMAIN items[g]}

\* The row g inserts for the n-th of its ids.
RowOf(g, n) ==
  [owner |-> owner[g], item |-> items[g][n], by |-> g, at |-> n]

\* grantRole has found the user; one that does not exist changes nothing.
Call(g, o, list) ==
  /\ phase[g] = "new"
  /\ Go(g, "delete")
  /\ owner' = [owner EXCEPT ![g] = o]
  /\ items' = [items EXCEPT ![g] = list]
  /\ after' = [after EXCEPT ![g] = Over]
  /\ UNCHANGED <<rows, inserted>>

\* Mutant of Delete: only the rows the request asks for are deleted.
DeleteAsked(g) ==
  /\ phase[g] = "delete"
  /\ rows' = {r \in rows : r.owner # owner[g] \/ r.item \notin Asked(g)}
  /\ Go(g, IF items[g] = <<>> THEN "done" ELSE "insert")
  /\ UNCHANGED <<request, inserted>>

\* Mutant of Delete: rows that are asked for again are left in place.
DeleteUnasked(g) ==
  /\ phase[g] = "delete"
  /\ rows' = {r \in rows : r.owner # owner[g] \/ r.item \in Asked(g)}
  /\ Go(g, IF items[g] = <<>> THEN "done" ELSE "insert")
  /\ UNCHANGED <<request, inserted>>

\* Mutant of Delete: the condition on the owner is missing.
DeleteEverything(g) ==
  /\ phase[g] = "delete"
  /\ rows' = {}
  /\ Go(g, IF items[g] = <<>> THEN "done" ELSE "insert")
  /\ UNCHANGED <<request, inserted>>

\* deleteUserRole, deleteRoleMenu
Delete(g) ==
  /\ phase[g] = "delete"
  /\ rows' = {r \in rows : r.owner # owner[g]}
  /\ Go(g, IF items[g] = <<>> THEN "done" ELSE "insert")
  /\ UNCHANGED <<request, inserted>>

\* Mutant of Insert: the loop ends one item early.
InsertAllButOne(g) ==
  /\ phase[g] = "insert"
  /\ inserted' = [inserted EXCEPT ![g] = @ + 1]
  /\ LET last == inserted'[g] = Len(items[g])
     IN  /\ rows' = IF last THEN rows
                    ELSE rows \cup {RowOf(g, inserted'[g])}
         /\ Go(g, IF last THEN "done" ELSE "insert")
  /\ UNCHANGED request

\* createUserRole, createRoleMenu
Insert(g) ==
  /\ phase[g] = "insert"
  /\ inserted' = [inserted EXCEPT ![g] = @ + 1]
  /\ rows' = rows \cup {RowOf(g, inserted'[g])}
  /\ Go(g, IF inserted'[g] = Len(items[g]) THEN "done" ELSE "insert")
  /\ UNCHANGED request

\* A statement fails: the exception ends the request.
Fail(g) ==
  /\ phase[g] \in {"delete", "insert"}
  /\ Go(g, "failed")
  /\ UNCHANGED <<rows, request, inserted>>

Next ==
  \E g \in Grants :
    \/ \E o \in Owners, list \in Lists(Items) : Call(g, o, list)
    \/ Delete(g)
    \/ Insert(g)
    \/ Fail(g)

Spec == Init /\ [][Next]_vars

-----------------------------------------------------------------------------
(* Properties.                                                             *)

\* getRoleByUserId, queryByRole: what a reader finds.
ItemsOf(o) == {r.item : r \in {q \in rows : q.owner = o}}

\* g has deleted the old rows of its owner.
Deleted(g) == phase[g] \in {"insert", "done"}

\* Whatever requests overlap or fail, a row survives no request for its owner
\* that was made after the request of the row was over and got past its
\* deletion: what was revoked is not there.
NoRevokedRow ==
  \A r \in rows, g \in Grants :
    owner[g] = r.owner /\ Deleted(g) => r.by \notin after[g]

\* g came after all the other requests for its owner.
Last(g) == \A h \in Grants \ {g} : owner[h] = owner[g] => h \in after[g]

\* Once the requests for an owner are over and the last of them overlapped no
\* other and did not fail, the owner has exactly what it asked for, whatever
\* the earlier ones left, and whatever happens to other owners.
LastGrantStands ==
  \A g \in Grants :
    phase[g] = "done" /\ Last(g) => ItemsOf(owner[g]) = Asked(g)

\* Requests that overlap and do not fail mix their items, but at least one of
\* them is granted whole: none is left with a part of what it asked for and
\* nothing to make up for it.
OneGrantWhole ==
  \A o \in Owners :
    LET made == {g \in Grants : owner[g] = o}
    IN  made # {} /\ (\A g \in made : phase[g] = "done")
          => \E g \in made : Asked(g) \subseteq ItemsOf(o)
=============================================================================
