------------------------------ MODULE Delivery ------------------------------
(***************************************************************************)
(* What the Redis work queue promises about each payload, independently of *)
(* lists, reservations, retry keys and workers.                            *)
(*                                                                         *)
(* A payload is unsent, then pending; it ends acknowledged ("done"), in    *)
(* the dead-letter queue ("dead"), or nowhere ("lost").  The promise is in *)
(* the guards: only a payload some handler run completed is acknowledged,  *)
(* only one that failed more than MaxRetries times is dead-lettered, and   *)
(* only one whose handler has already failed can be lost.                  *)
(***************************************************************************)
EXTENDS Naturals

CONSTANTS N,           \* number of payloads; payload p is the p-th one sent
          MaxRetries   \* queue_max_retries

VARIABLES status,      \* [1..N -> Status]
          ok,          \* payloads some handler run has completed
          fails        \* failed handler runs, counted up to MaxRetries + 1

vars == <<status, ok, fails>>

Payloads == 1 .. N

Status == {"unsent", "pending", "done", "dead", "lost"}

Init ==
  /\ status = [p \in Payloads |-> "unsent"]
  /\ ok = {}
  /\ fails = [p \in Payloads |-> 0]

Bump(n) == IF n > MaxRetries THEN n ELSE n + 1

Becomes(p, s) ==
  /\ status' = [status EXCEPT ![p] = s]
  /\ UNCHANGED <<ok, fails>>

Send(p) == status[p] = "unsent" /\ Becomes(p, "pending")

Succeed(p) ==
  /\ status[p] = "pending"
  /\ ok' = ok \cup {p}
  /\ UNCHANGED <<status, fails>>

Fail(p) ==
  /\ status[p] = "pending"
  /\ fails' = [fails EXCEPT ![p] = Bump(@)]
  /\ UNCHANGED <<status, ok>>

Acknowledge(p) == status[p] = "pending" /\ p \in ok /\ Becomes(p, "done")

Bury(p) == status[p] = "pending" /\ fails[p] > MaxRetries /\ Becomes(p, "dead")

Lose(p) == status[p] = "pending" /\ fails[p] > 0 /\ Becomes(p, "lost")

Next ==
  \E p \in Payloads :
     \/ Send(p) \/ Succeed(p) \/ Fail(p)
     \/ Acknowledge(p) \/ Bury(p) \/ Lose(p)

Spec == Init /\ [][Next]_vars
=============================================================================
