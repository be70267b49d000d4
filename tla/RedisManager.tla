---------------------------- MODULE RedisManager ----------------------------
(***************************************************************************)
(* BaseRedisManager: the commands the session DAO and the caches send to   *)
(* the one Redis database they share.  Its set is two commands, SET and    *)
(* EXPIRE, between which other clients run; SET drops the time to live     *)
(* EXPIRE has given.                                                       *)
(***************************************************************************)
CONSTANTS
  Keys,     \* the keys, with their prefixes
  Absent    \* no value

VARIABLES
  db,         \* the value of each key
  expiring    \* the keys with a time to live

redis == <<db, expiring>>

RedisInit ==
  /\ db = [k \in Keys |-> Absent]
  /\ expiring = {}

\* A key that has a time to live has a value.
ExpiringKeysExist == expiring \subseteq {k \in Keys : db[k] # Absent}

Get(k) == db[k]

SetCommand(k, value) ==
  /\ db' = [db EXCEPT ![k] = value]
  /\ expiring' = expiring \ {k}

\* EXPIRE of a key that is gone does nothing.
ExpireCommand(k) ==
  /\ expiring' = expiring \cup ({k} \cap {j \in Keys : db[j] # Absent})
  /\ UNCHANGED db

DelCommand(k) ==
  /\ db' = [db EXCEPT ![k] = Absent]
  /\ expiring' = expiring \ {k}

\* The time to live of a key has passed.
TimeToLivePasses(k) ==
  /\ k \in expiring
  /\ DelCommand(k)
=============================================================================
