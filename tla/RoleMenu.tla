------------------------------ MODULE RoleMenu ------------------------------
(***************************************************************************)
(* Users, roles and menus: which menus a user is shown after a login.  The *)
(* requests of GrantTable give roles to users (t_sys_user_role) and menus  *)
(* to roles (t_sys_role_menu); roles and menus come and go one statement   *)
(* at a time, and leave their rows in both tables behind.  getUserMenu     *)
(* reads the roles of the user with one query and the menus of the role    *)
(* with the least code with another, while all of this goes on.            *)
(*                                                                         *)
(* A request that deletes several roles or menus is as many deletions,     *)
(* which a failure may cut short anywhere.  The code of a role and the     *)
(* parent of a menu are not changed once given; nothing keeps a menu from   *)
(* being added once more under a code that is there.                       *)
(***************************************************************************)
EXTENDS GrantTable, FiniteSets

CONSTANTS
  Users,        \* t_sys_user
  Roles,        \* role ids
  Menus,        \* menu codes
  DefaultRole,  \* the role of a user without roles
  roleCode,     \* SystemRole.roleCode, as a number
  parent,       \* SystemMenu.parentMenuCode; None: a menu of the first level
  Viewers,      \* threads that serve logins
  MaxChanges    \* bound: changes to t_sys_role and t_sys_menu

ASSUME MenuAssumption ==
  /\ Owners = Users \cup Roles /\ Items = Roles \cup Menus
  /\ DefaultRole \in Roles
  /\ None \notin Users \cup Roles \cup Menus
  /\ roleCode \in [Roles -> Nat]
  /\ parent \in [Menus -> Menus \cup {None}]
  /\ MaxChanges \in Nat

VARIABLES
  roles,     \* the rows of t_sys_role
  menus,     \* how many rows of t_sys_menu have each code
  changes,   \* how often these two changed
  viewing,   \* where each viewer is in getUserMenu
  viewer,    \* the user it is for
  role,      \* the role whose menus it shows
  shown,     \* how often each menu is in the menus it has shown
  heeded     \* history: the requests that had deleted when it began

views == <<viewing, viewer, role, shown, heeded>>
menuVars == <<vars, roles, menus, changes, views>>

MenuTypeOK ==
  /\ TypeOK
  /\ roles \subseteq Roles /\ menus \in [Menus -> Nat]
  /\ changes \in 0 .. MaxChanges
  /\ viewing \in [Viewers -> {"idle", "menus", "done"}]
  /\ viewer \in [Viewers -> Users \cup {None}]
  /\ role \in [Viewers -> Roles \cup {None}]
  /\ shown \in [Viewers -> [Menus -> Nat]]
  /\ heeded \in [Viewers -> SUBSET Grants]

MenuInit ==
  /\ Init
  /\ roles = Roles /\ menus = [m \in Menus |-> 1]
  /\ changes = 0
  /\ viewing = [v \in Viewers |-> "idle"]
  /\ viewer = [v \in Viewers |-> None]
  /\ role = [v \in Viewers |-> None]
  /\ shown = [v \in Viewers |-> [m \in Menus |-> 0]]
  /\ heeded = [v \in Viewers |-> {}]

\* grantRoleToUser, modifyRoleMenu
Grant ==
  /\ \E g \in Grants :
       \/ \E u \in Users, list \in Lists(Roles) : Call(g, u, list)
       \/ \E r \in Roles, list \in Lists(Menus) : Call(g, r, list)
       \/ Delete(g)
       \/ Insert(g)
       \/ Fail(g)
  /\ UNCHANGED <<roles, menus, changes, views>>

Change ==
  /\ changes < MaxChanges
  /\ changes' = changes + 1
  /\ UNCHANGED <<vars, views>>

\* A role may be added with the id of one that was deleted.
AddRole(r) ==
  /\ Change
  /\ r \notin roles
  /\ roles' = roles \cup {r}
  /\ UNCHANGED menus

\* Its rows in both tables of grants stay.
DelRole(r) ==
  /\ Change
  /\ roles' = roles \ {r}
  /\ UNCHANGED menus

\* addMenu does not look for a menu of the same code.
AddMenu(m) ==
  /\ Change
  /\ menus' = [menus EXCEPT ![m] = @ + 1]
  /\ UNCHANGED roles

\* By the id of the row.
DeleteMenu(m) ==
  /\ Change
  /\ menus[m] > 0
  /\ menus' = [menus EXCEPT ![m] = @ - 1]
  /\ UNCHANGED roles

\* getRoleByUserId: the roles of u that exist.
RolesOf(u) == ItemsOf(u) \cap roles

\* Mutant of Smallest: max for min.
Largest(S) ==
  IF S = {} THEN {DefaultRole}
  ELSE {r \in S : \A q \in S : roleCode[r] >= roleCode[q]}

\* SystemRoleComparator: roles of equal codes come in any order.
Smallest(S) ==
  IF S = {} THEN {DefaultRole}
  ELSE {r \in S : \A q \in S : roleCode[r] <= roleCode[q]}

\* getUserMenu reads the roles.
ReadRoles(v, u) ==
  /\ viewing[v] = "idle"
  /\ viewing' = [viewing EXCEPT ![v] = "menus"]
  /\ viewer' = [viewer EXCEPT ![v] = u]
  /\ \E r \in Smallest(RolesOf(u)) : role' = [role EXCEPT ![v] = r]
  /\ heeded' = [heeded EXCEPT ![v] = {g \in Grants : Deleted(g)}]
  /\ UNCHANGED <<vars, roles, menus, changes, shown>>

\* queryByRole: how many rows of the join are for menu m.
Times(r, m) ==
  menus[m] * Cardinality({q \in rows : q.owner = r /\ q.item = m})

\* distributeMenu: each row of the first level is listed, and under it each
\* row of its submenus; what lies deeper, or under a menu that is not
\* granted, is not listed.
Listed(r, m) ==
  CASE parent[m] = None -> Times(r, m)
    [] parent[m] # None /\ parent[parent[m]] = None
         -> Times(r, m) * Times(r, parent[m])
    [] OTHER -> 0

ReadMenus(v) ==
  /\ viewing[v] = "menus"
  /\ viewing' = [viewing EXCEPT ![v] = "done"]
  /\ shown' = [shown EXCEPT ![v] = [m \in Menus |-> Listed(role[v], m)]]
  /\ UNCHANGED <<vars, roles, menus, changes, viewer, role, heeded>>

MenuNext ==
  \/ Grant
  \/ \E r \in Roles : AddRole(r) \/ DelRole(r)
  \/ \E m \in Menus : AddMenu(m) \/ DeleteMenu(m)
  \/ \E v \in Viewers : ReadMenus(v) \/ \E u \in Users : ReadRoles(v, u)

MenuSpec == MenuInit /\ [][MenuNext]_menuVars

-----------------------------------------------------------------------------
(* Properties.                                                             *)

\* Item i of owner o was asked for by a request that none of those in S has
\* revoked.
Unrevoked(o, i, S) ==
  \E g \in Grants :
    /\ owner[g] = o /\ i \in Asked(g)
    /\ \A h \in S : owner[h] = o => g \notin after[h]

\* Who logs in after a revocation was carried out is not shown what it has
\* revoked: neither the menus of a role the user has lost, nor menus the role
\* has lost, whatever else overlaps, fails, or goes on between the two
\* queries.
RevokedIsNotShown ==
  \A v \in Viewers :
    /\ role[v] \notin {None, DefaultRole}
         => Unrevoked(viewer[v], role[v], heeded[v])
    /\ \A m \in Menus :
         shown[v][m] > 0 => Unrevoked(role[v], m, heeded[v])

\* Two requests for one owner, neither of which waited for the other.
Overlapped(o) ==
  \E g, h \in Grants :
    /\ g # h
    /\ owner[g] = o /\ owner[h] = o
    /\ g \notin after[h] /\ h \notin after[g]

\* A request for o asks for item i twice.
Repeated(o, i) ==
  \E g \in Grants :
    /\ owner[g] = o
    /\ \E j, k \in DOMAIN items[g] :
         j # k /\ items[g][j] = i /\ items[g][k] = i

\* A menu is listed once, unless requests for the role have overlapped, or
\* the menu or the one above it was asked for twice or has two rows: the join
\* counts what is there twice twice.
MenusOnce ==
  [][\A v \in Viewers, m \in Menus :
       viewing[v] = "menus" /\ viewing'[v] = "done" /\ shown'[v][m] > 1
       => \/ Overlapped(role[v])
          \/ \E n \in {m, parent[m]} \cap Menus :
               menus[n] > 1 \/ Repeated(role[v], n)]_menuVars

\* A user whose last request for roles overlapped no other and did not fail
\* is shown the menus of the role with the least code among those of its
\* roles that still exist, not of a role it had before, and not of the
\* default role.
LastGrantDecides ==
  [][\A v \in Viewers, g \in Grants :
       LET given == Asked(g) \cap roles
       IN  /\ viewing[v] = "idle" /\ viewing'[v] = "menus"
           /\ owner[g] = viewer'[v] /\ phase[g] = "done" /\ Last(g)
           /\ given # {}
           => /\ role'[v] \in given
              /\ \A r \in given : roleCode[role'[v]] <= roleCode[r]]_menuVars
=============================================================================
