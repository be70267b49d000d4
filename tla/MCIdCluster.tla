----------------------------- MODULE MCIdCluster -----------------------------
(* Small instances of IdCluster.                                           *)
EXTENDS IdCluster, TLC

MCStarts == {1}

ProcessSymmetry == Permutations(Processes)
=============================================================================
