--------------------------- MODULE ReliableQueue ---------------------------
(***************************************************************************)
(* The Redis work queue of shared/aiops_shared/redis_client.py and the     *)
(* consumer loop the three services run on top of it (anomalies in         *)
(* incident-manager, decisions in decision-engine, incidents in            *)
(* rca-engine).                                                            *)
(*                                                                         *)
(* Every Redis command is one atomic step.  Between two commands the       *)
(* worker process can die, and a command can fail: either it was not       *)
(* applied, or it was applied and its reply was lost.  Each consumer loop  *)
(* catches the exception and goes back to polling.                         *)
(*                                                                         *)
(* queue: the head of the sequence is the RIGHT end of the Redis list, the *)
(* end that is reserved from, so LPUSH appends and RPUSH prepends.         *)
(* processing: a set, since payloads are pairwise different (each carries  *)
(* the id of its anomaly or incident); the order in which recovery moves   *)
(* them back is left open.                                                 *)
(***************************************************************************)
EXTENDS Naturals, Sequences

CONSTANTS N,             \* number of payloads; payload p is the p-th one sent
          Poison,        \* payloads whose handler always raises
          MaxRetries,    \* queue_max_retries
          RecoverLimit,  \* limit of recover_inflight
          MaxFaults,     \* bound: crashes, Redis errors, transient handler
                         \* errors and retry-key expiries in one behaviour
          NoPayload      \* the worker holds no payload

Payloads == 1 .. N

ASSUME QueueAssumption ==
  /\ N \in Nat
  /\ Poison \subseteq Payloads
  /\ MaxRetries \in Nat
  /\ RecoverLimit \in Nat
  /\ MaxFaults \in Nat
  /\ NoPayload \notin Payloads

VARIABLES
  \* Redis
  queue,       \* the source list
  processing,  \* the in-flight list
  dlq,         \* payloads of the envelopes in the dead-letter list
  retries,     \* [Payloads -> Nat], the retry key (0: no key)
  \* the worker process
  pc,          \* the next thing the worker does
  cur,         \* the reserved payload
  attempts,    \* result of INCR, a local of retry_or_dead_letter
  recovered,   \* counter of recover_inflight
  \* history: what the properties need to know about the past
  sent,        \* how many payloads have been enqueued
  done,        \* payloads acknowledged
  ok,          \* payloads some handler run has completed
  fails,       \* failed handler runs, counted up to MaxRetries + 1
  faults       \* faults so far

redis   == <<queue, processing, dlq, retries>>
worker  == <<pc, cur, attempts, recovered>>
history == <<sent, done, ok, fails, faults>>
vars    == <<queue, processing, dlq, retries, pc, cur, attempts, recovered,
             sent, done, ok, fails, faults>>

PC == {"stopped", "recovering", "polling", "handling", "acking", "clearing",
       "counting", "removing", "requeueing", "forgetting"}

Init ==
  /\ queue = <<>> /\ processing = {} /\ dlq = {}
  /\ retries = [p \in Payloads |-> 0]
  /\ pc = "stopped" /\ cur = NoPayload /\ attempts = 0 /\ recovered = 0
  /\ sent = 0 /\ done = {} /\ ok = {}
  /\ fails = [p \in Payloads |-> 0]
  /\ faults = 0

-----------------------------------------------------------------------------
(* Faults *)

Fault == faults < MaxFaults /\ faults' = faults + 1

GiveUp == pc' = "polling" /\ cur' = NoPayload

(* The command was applied; either its reply arrives and the worker goes   *)
(* on to `next`, or the reply is lost and the exception ends the iteration. *)
Replied(next) ==
  \/ /\ pc' = next
     /\ cur' = IF next = "polling" THEN NoPayload ELSE cur
     /\ UNCHANGED faults
  \/ Fault /\ GiveUp

(* A command of acknowledge or retry_or_dead_letter raises, not applied.   *)
CommandFails ==
  /\ pc \in {"acking", "clearing", "counting", "removing", "requeueing",
             "forgetting"}
  /\ Fault /\ GiveUp
  /\ UNCHANGED <<queue, processing, dlq, retries, attempts, recovered,
                 sent, done, ok, fails>>

(* The process dies, or stop() gives up waiting for it.                    *)
Crash ==
  /\ pc # "stopped"
  /\ Fault
  /\ pc' = "stopped" /\ cur' = NoPayload
  /\ UNCHANGED <<queue, processing, dlq, retries, attempts, recovered,
                 sent, done, ok, fails>>

(* The retry key has a TTL of one day.                                     *)
RetryKeyExpires(p) ==
  /\ retries[p] > 0
  /\ Fault
  /\ retries' = [retries EXCEPT ![p] = 0]
  /\ UNCHANGED <<queue, processing, dlq, pc, cur, attempts, recovered,
                 sent, done, ok, fails>>

-----------------------------------------------------------------------------
(* The producer *)

(* Mutant: publishes the previous payload's number.                        *)
EnqueueMutant ==
  /\ sent < N
  /\ sent' = sent + 1
  /\ queue' = Append(queue, sent)
  /\ UNCHANGED <<processing, dlq, retries, pc, cur, attempts, recovered,
                 done, ok, fails, faults>>

Enqueue ==
  /\ sent < N
  /\ sent' = sent + 1
  /\ queue' = Append(queue, sent + 1)
  /\ UNCHANGED <<processing, dlq, retries, pc, cur, attempts, recovered,
                 done, ok, fails, faults>>

-----------------------------------------------------------------------------
(* Start-up: recover_inflight moves reservations back, one LMOVE each, to  *)
(* the LEFT of the source, at most RecoverLimit of them.                   *)

Start ==
  /\ pc = "stopped"
  /\ pc' = "recovering" /\ recovered' = 0
  /\ UNCHANGED <<queue, processing, dlq, retries, cur, attempts>>
  /\ UNCHANGED history

(* Mutant: takes the reservation off the in-flight list without requeueing. *)
RecoverOneMutant ==
  /\ pc = "recovering" /\ recovered < RecoverLimit
  /\ \E p \in processing : processing' = processing \ {p}
  /\ recovered' = recovered + 1
  /\ UNCHANGED <<queue, dlq, retries, pc, cur, attempts,
                 sent, done, ok, fails, faults>>

(* A lost reply makes the fallback command move the next reservation, so   *)
(* the first one is moved without being counted.                           *)
RecoverOne ==
  /\ pc = "recovering" /\ recovered < RecoverLimit
  /\ \E p \in processing :
        /\ processing' = processing \ {p}
        /\ queue' = Append(queue, p)
  /\ \/ recovered' = recovered + 1 /\ UNCHANGED faults
     \/ Fault /\ UNCHANGED recovered
  /\ UNCHANGED <<dlq, retries, pc, cur, attempts, sent, done, ok, fails>>

Recovered ==
  /\ pc = "recovering"
  /\ processing = {} \/ recovered >= RecoverLimit
  /\ pc' = "polling"
  /\ UNCHANGED redis
  /\ UNCHANGED <<cur, attempts, recovered>>
  /\ UNCHANGED history

-----------------------------------------------------------------------------
(* One iteration of the consumer loop                                      *)

(* Mutant: the destructive pop of dequeue() instead of a reservation.      *)
ReserveMutant ==
  /\ pc = "polling" /\ queue # <<>>
  /\ queue' = Tail(queue)
  /\ pc' = "handling" /\ cur' = Head(queue)
  /\ UNCHANGED <<processing, dlq, retries, attempts, recovered,
                 sent, done, ok, fails, faults>>

(* BLMOVE.  When its reply is lost the fallback BRPOPLPUSH reserves again: *)
(* the first payload is in flight and no worker knows of it.               *)
Reserve ==
  /\ pc = "polling" /\ queue # <<>>
  /\ queue' = Tail(queue)
  /\ processing' = processing \cup {Head(queue)}
  /\ \/ pc' = "handling" /\ cur' = Head(queue) /\ UNCHANGED faults
     \/ Fault /\ UNCHANGED <<pc, cur>>
  /\ UNCHANGED <<dlq, retries, attempts, recovered, sent, done, ok, fails>>

HandlerReturns ==
  /\ pc = "handling" /\ cur \notin Poison
  /\ pc' = "acking"
  /\ ok' = ok \cup {cur}
  /\ UNCHANGED redis
  /\ UNCHANGED <<cur, attempts, recovered, sent, done, fails, faults>>

Bump(n) == IF n > MaxRetries THEN n ELSE n + 1

(* Mutant: the exception is logged and the payload acknowledged.           *)
HandlerRaisesMutant ==
  /\ pc = "handling" /\ cur \in Poison
  /\ pc' = "acking"
  /\ UNCHANGED <<queue, processing, dlq, retries, cur, attempts, recovered,
                 sent, done, ok, fails, faults>>

(* A poison payload always raises; any other handler run raises only by a  *)
(* transient fault (a locked database, an unreachable service).            *)
HandlerRaises ==
  /\ pc = "handling"
  /\ IF cur \in Poison THEN UNCHANGED faults ELSE Fault
  /\ pc' = "counting"
  /\ fails' = [fails EXCEPT ![cur] = Bump(@)]
  /\ UNCHANGED redis
  /\ UNCHANGED <<cur, attempts, recovered, sent, done, ok>>

(* acknowledge: LREM, then DEL of the retry key.                           *)
AckRemove ==
  /\ pc = "acking"
  /\ processing' = processing \ {cur}
  /\ done' = done \cup {cur}
  /\ Replied("clearing")
  /\ UNCHANGED <<queue, dlq, retries, attempts, recovered, sent, ok, fails>>

AckClear ==
  /\ pc = "clearing"
  /\ retries' = [retries EXCEPT ![cur] = 0]
  /\ Replied("polling")
  /\ UNCHANGED <<queue, processing, dlq, attempts, recovered,
                 sent, done, ok, fails>>

(* retry_or_dead_letter: INCR, LREM, then RPUSH to the source or LPUSH to  *)
(* the dead-letter list followed by DEL of the retry key.                  *)
CountAttempt ==
  /\ pc = "counting"
  /\ attempts' = retries[cur] + 1
  /\ retries' = [retries EXCEPT ![cur] = @ + 1]
  /\ Replied("removing")
  /\ UNCHANGED <<queue, processing, dlq, recovered, sent, done, ok, fails>>

RemoveReservation ==
  /\ pc = "removing"
  /\ processing' = processing \ {cur}
  /\ Replied("requeueing")
  /\ UNCHANGED <<queue, dlq, retries, attempts, recovered,
                 sent, done, ok, fails>>

(* Mutant: the retry goes to the producer's end of the list.               *)
RequeueLastMutant ==
  /\ pc = "requeueing" /\ attempts <= MaxRetries
  /\ queue' = Append(queue, cur)
  /\ Replied("polling")
  /\ UNCHANGED <<processing, dlq, retries, attempts, recovered,
                 sent, done, ok, fails>>

(* Mutant: the retry key is deleted on every retry.                        *)
RequeueForgetsMutant ==
  /\ pc = "requeueing" /\ attempts <= MaxRetries
  /\ queue' = <<cur>> \o queue
  /\ retries' = [retries EXCEPT ![cur] = 0]
  /\ Replied("polling")
  /\ UNCHANGED <<processing, dlq, attempts, recovered, sent, done, ok, fails>>

Requeue ==
  /\ pc = "requeueing" /\ attempts <= MaxRetries
  /\ queue' = <<cur>> \o queue
  /\ Replied("polling")
  /\ UNCHANGED <<processing, dlq, retries, attempts, recovered,
                 sent, done, ok, fails>>

(* Mutant: gives up one failure early.                                     *)
DeadLetterMutant ==
  /\ pc = "requeueing" /\ attempts >= MaxRetries
  /\ dlq' = dlq \cup {cur}
  /\ Replied("forgetting")
  /\ UNCHANGED <<queue, processing, retries, attempts, recovered,
                 sent, done, ok, fails>>

DeadLetter ==
  /\ pc = "requeueing" /\ attempts > MaxRetries
  /\ dlq' = dlq \cup {cur}
  /\ Replied("forgetting")
  /\ UNCHANGED <<queue, processing, retries, attempts, recovered,
                 sent, done, ok, fails>>

ForgetAttempts ==
  /\ pc = "forgetting"
  /\ retries' = [retries EXCEPT ![cur] = 0]
  /\ Replied("polling")
  /\ UNCHANGED <<queue, processing, dlq, attempts, recovered,
                 sent, done, ok, fails>>

-----------------------------------------------------------------------------

LoopStep ==
  \/ RecoverOne \/ Recovered \/ Reserve
  \/ HandlerReturns \/ HandlerRaises
  \/ AckRemove \/ AckClear
  \/ CountAttempt \/ RemoveReservation \/ Requeue \/ DeadLetter
  \/ ForgetAttempts

Next ==
  \/ Enqueue
  \/ Start
  \/ LoopStep
  \/ CommandFails
  \/ Crash
  \/ \E p \in Payloads : RetryKeyExpires(p)

Spec == Init /\ [][Next]_vars

(* The container is restarted when it dies, and a live worker keeps going. *)
(* Nothing is assumed of the producer or of faults.                        *)
FairSpec == Spec /\ WF_vars(Start) /\ WF_vars(LoopStep)

-----------------------------------------------------------------------------
(* Properties *)

TypeOK ==
  /\ queue \in Seq(Payloads)
  /\ processing \subseteq Payloads
  /\ dlq \subseteq Payloads
  /\ retries \in [Payloads -> Nat]
  /\ pc \in PC
  /\ cur \in Payloads \cup {NoPayload}
  /\ attempts \in Nat
  /\ recovered \in Nat
  /\ sent \in 0 .. N
  /\ done \subseteq Payloads
  /\ ok \subseteq Payloads
  /\ fails \in [Payloads -> Nat]
  /\ faults \in Nat

Holds(q, p) == \E i \in 1 .. Len(q) : q[i] = p

Distinct(q) == \A i, j \in 1 .. Len(q) : q[i] = q[j] => i = j

InQueue(p) == Holds(queue, p)

(* Where a payload that still has to be dealt with can be.  In the window  *)
(* between LREM and RPUSH/LPUSH only the worker's memory holds it.         *)
InFlight(p) ==
  InQueue(p) \/ p \in processing \/ (pc = "requeueing" /\ cur = p)

Settled(p) == p \in done \/ p \in dlq

(* A payload is acknowledged only after a handler run has returned for it: *)
(* neither a crash, a lost reply nor a raising handler acknowledges work   *)
(* that was not done.                                                      *)
AckedWereHandled == done \subseteq ok

(* A payload reaches the dead-letter queue only after its handler has      *)
(* failed more than queue_max_retries times, whatever the crashes, lost    *)
(* replies and key expiries in between: redeliveries that are not failures *)
(* never use up the retries of a good payload.                             *)
DeadLetterEarned == \A p \in dlq : fails[p] > MaxRetries

(* Reservation keeps a payload recoverable: until its handler has failed   *)
(* at least once, a payload that was sent is in the queue, in flight,      *)
(* acknowledged or dead-lettered, at whichever step the worker dies.       *)
NoLossBeforeFailure ==
  \A p \in 1 .. sent : fails[p] = 0 => InFlight(p) \/ Settled(p)

(* The documented promise, without that exception: a payload is never      *)
(* nowhere.  Violated between the LREM and the RPUSH/LPUSH of              *)
(* retry_or_dead_letter.                                                   *)
NeverDisappears == \A p \in 1 .. sent : InFlight(p) \/ Settled(p)

(* An acknowledged or dead-lettered payload is never handed to a handler   *)
(* again: recovery and retry never resurrect settled work.                 *)
SettledIsFinal ==
  [][\A p \in Payloads : Settled(p) /\ cur' = p => cur = p]_vars

(* LPUSH/BRPOP is a FIFO and a retry goes back to the end it came from: as *)
(* long as nothing fails but poison handlers, a payload is picked up only  *)
(* when every payload sent before it is settled.                           *)
FifoWithoutFaults ==
  faults = 0 /\ cur # NoPayload => \A p \in 1 .. (cur - 1) : Settled(p)

(* A reservation that a running worker has no knowledge of.                *)
Orphan(p) == p \in processing /\ cur # p /\ pc # "recovering"

(* Once faults stop, every payload sent is settled for good, abandoned in  *)
(* flight by a worker that survived a Redis error (only the next start-up  *)
(* recovers those), or was lost after its handler had failed.  In          *)
(* particular a poison payload does not circulate for ever.                *)
EventuallySettled ==
  <>[](\A p \in 1 .. sent :
         Settled(p) \/ Orphan(p) \/ (fails[p] > 0 /\ ~InFlight(p)))

-----------------------------------------------------------------------------
(* The inductive invariant behind the safety properties *)

(* A payload is in at most one place.                                      *)
OnePlace ==
  /\ Distinct(queue)
  /\ \A p \in processing : ~InQueue(p)
  /\ \A p \in done \cup dlq : ~InQueue(p) /\ p \notin processing
  /\ done \cap dlq = {}

OnlySent ==
  /\ \A p \in Payloads : InQueue(p) => p <= sent
  /\ \A p \in processing \cup done \cup dlq : p <= sent

(* What the worker's program counter says about the payload it holds.      *)
WorkerInv ==
  /\ pc \in {"stopped", "recovering", "polling"} <=> cur = NoPayload
  /\ pc \in {"handling", "acking", "counting", "removing"} =>
       cur \in processing
  /\ pc = "requeueing" =>
       /\ cur <= sent
       /\ ~InQueue(cur) /\ cur \notin processing \cup done \cup dlq
  /\ pc = "acking" => cur \in ok
  /\ pc = "clearing" => cur \in done
  /\ pc = "forgetting" => cur \in dlq

(* A retry key never runs ahead of the failures it counts.                 *)
AttemptsInv ==
  /\ \A p \in Payloads :
       retries[p] <= fails[p] \/ fails[p] > MaxRetries
  /\ pc = "counting" =>
       /\ fails[cur] > 0
       /\ retries[cur] < fails[cur] \/ fails[cur] > MaxRetries
  /\ pc \in {"removing", "requeueing"} =>
       /\ fails[cur] > 0
       /\ attempts <= fails[cur] \/ fails[cur] > MaxRetries

IInv ==
  /\ TypeOK
  /\ OnePlace /\ OnlySent /\ WorkerInv /\ AttemptsInv
  /\ AckedWereHandled /\ DeadLetterEarned /\ NoLossBeforeFailure

-----------------------------------------------------------------------------
(* The abstract promise *)

deliveryStatus ==
  [p \in Payloads |->
     IF p > sent THEN "unsent"
     ELSE IF p \in done THEN "done"
     ELSE IF p \in dlq THEN "dead"
     ELSE IF InFlight(p) THEN "pending"
     ELSE "lost"]

D == INSTANCE Delivery WITH status <- deliveryStatus

ImplementsDelivery == D!Spec
=============================================================================
