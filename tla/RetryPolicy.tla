----------------------------- MODULE RetryPolicy -----------------------------
(***************************************************************************)
(* What the retry counter of a login promises: every failed comparison is  *)
(* counted, a success forgets them, and once shiro.maxpassword.retrytime   *)
(* of them are counted the account is locked: nothing is compared until    *)
(* they are forgotten.  An attempt that ends with an error may be counted, *)
(* or have succeeded.                                                      *)
(***************************************************************************)
EXTENDS Naturals

CONSTANTS
  Names,       \* user names
  MaxRetry     \* shiro.maxpassword.retrytime

VARIABLES
  failures,    \* the failed attempts that count against each name
  answer       \* the last answer to each name

policy == <<failures, answer>>

PolicyInit ==
  /\ failures = [u \in Names |-> 0]
  /\ answer = [u \in Names |-> "none"]

Reply(u, reply) == answer' = [answer EXCEPT ![u] = reply]

Fail(u) ==
  /\ failures[u] < MaxRetry
  /\ failures' = [failures EXCEPT ![u] = @ + 1]
  /\ Reply(u, "failed")

Succeed(u) ==
  /\ failures[u] < MaxRetry
  /\ failures' = [failures EXCEPT ![u] = 0]
  /\ Reply(u, "ok")

Lock(u) ==
  /\ failures[u] = MaxRetry
  /\ Reply(u, "locked")
  /\ UNCHANGED failures

Break(u) ==
  /\ \/ UNCHANGED failures
     \/ /\ failures[u] < MaxRetry
        /\ failures' \in {[failures EXCEPT ![u] = @ + 1],
                         [failures EXCEPT ![u] = 0]}
  /\ Reply(u, "error")

\* The time to live of the counter has passed.
Forget(u) ==
  /\ failures' = [failures EXCEPT ![u] = 0]
  /\ UNCHANGED answer

PolicyNext ==
  \E u \in Names : Fail(u) \/ Succeed(u) \/ Lock(u) \/ Break(u) \/ Forget(u)

PolicySpec == PolicyInit /\ [][PolicyNext]_policy
=============================================================================
