---------------------------- MODULE MCSnowflakeId ----------------------------
(* A small instance of SnowflakeId: three sequence numbers a millisecond,  *)
(* of which the first two are possible starts, and an illegal business id. *)
EXTENDS SnowflakeId

MCBusinesses == {1, 2}
MCWorkers    == {1}
MCStarts     == {0, 1}

=============================================================================
