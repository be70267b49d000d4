--------------------------- MODULE MCSessionStore ---------------------------
(* Small instances of SessionStore.                                        *)
EXTENDS SessionStore, TLC

ThreadSymmetry == Permutations(Threads)
=============================================================================
