---------------------------- MODULE MCLoginRetry ----------------------------
(* Small instances of LoginRetry.                                          *)
EXTENDS LoginRetry, TLC

ThreadSymmetry == Permutations(Threads)
=============================================================================
