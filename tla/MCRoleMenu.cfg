CONSTANTS
  g1 = g1
  g2 = g2
  Grants = {g1, g2}
  u1 = u1
  r1 = r1
  r5 = r5
  m1 = m1
  m2 = m2
  Users = {u1}
  Roles = {r1, r5}
  Menus = {m1, m2}
  Owners = {u1, r1, r5}
  Items = {r1, r5, m1, m2}
  DefaultRole = r5
  roleCode <- MCCodes
  parent <- MCParents
  v1 = v1
  Viewers = {v1}
  MaxItems = 2
  MaxChanges = 2
  None = None
SPECIFICATION MenuSpec
INVARIANTS LastGrantStands OneGrantWhole RevokedIsNotShown
PROPERTIES MenusOnce LastGrantDecides
SYMMETRY GrantSymmetry
CHECK_DEADLOCK FALSE
