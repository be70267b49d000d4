----------------------------- MODULE MCRoleMenu -----------------------------
EXTENDS RoleMenu, TLC
CONSTANTS u1, r1, r5, m1, m2

MCCodes == r1 :> 1 @@ r5 :> 2
MCParents == m1 :> None @@ m2 :> m1
GrantSymmetry == Permutations(Grants)
=============================================================================
