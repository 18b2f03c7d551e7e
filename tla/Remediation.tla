---------------------------- MODULE Remediation -----------------------------
(***************************************************************************)
(* The remediation service: operators (and RCA suggestions) propose        *)
(* actions, operators approve, execute or reject them, and the executor    *)
(* calls the demo services' /chaos endpoints or Docker.  The API endpoints *)
(* are synchronous functions, so FastAPI runs each request on a thread of  *)
(* its pool; requests of one or of several processes interleave at every   *)
(* SQLite transaction and HTTP call, and share only remediation.db.        *)
(*                                                                         *)
(* An action is a row of remediation_actions.  Of a row only the status    *)
(* is kept; what an action does is a constant of the action.  The copy of  *)
(* the row a thread works on (`rec`) is copy[w], and db.update writes the  *)
(* whole copy back, whatever the row has become meanwhile.                 *)
(*                                                                         *)
(* A service's /chaos state is the set of faults injected into it.         *)
(***************************************************************************)
EXTENDS Naturals

CONSTANTS Workers,       \* request threads, of all processes
          Actions,       \* identities rows of remediation_actions can get
          Tickets,       \* incidents
          Names,         \* target names, as _resource_key normalises them
          Services,      \* the demo services, also names
          Kind,          \* [Actions -> Kinds]: action_type
          Target,        \* [Actions -> Names]: target_service
          TicketOf,      \* [Actions -> Tickets]: incident_id
          Endpoint,      \* [Names -> Services]: service_base_url
          SimulateOnly,  \* simulate_only
          Verify,        \* verify_after_execute
          MaxFaults,     \* bound: crashes, lost or failed calls, injections
          NoAction

Resets   == {"reset_error_rate", "reset_latency"}
Mutating == Resets \cup {"restart_service", "scale_deployment"}
HighRisk == {"restart_service", "scale_deployment", "custom"}
Kinds    == Mutating \cup HighRisk \cup {"log_only", "mark_false_positive"}

Injections == {"errors", "latency"}

(* `previous` when GET /chaos gave no answer.                              *)
NoSnapshot == {"not captured"}
Snapshots  == (SUBSET Injections) \cup {NoSnapshot}

ASSUME RemediationAssumption ==
  /\ Services \subseteq Names
  /\ Kind \in [Actions -> Kinds]
  /\ Target \in [Actions -> Names]
  /\ TicketOf \in [Actions -> Tickets]
  /\ Endpoint \in [Names -> Services]
  /\ \A s \in Services : Endpoint[s] = s
  /\ SimulateOnly \in BOOLEAN /\ Verify \in BOOLEAN
  /\ MaxFaults \in Nat
  /\ NoAction \notin Actions

VARIABLES
  \* remediation.db
  rows,       \* [Actions -> Statuses]
  locks,      \* [Names -> Actions \cup {NoAction}]: owner_action_id per key
  \* the rest of the system
  ticket,     \* [Tickets -> TicketStatuses], in incident-manager
  chaos,      \* [Services -> SUBSET Injections]
  \* the request threads
  pc,         \* what the thread does next
  cur,        \* the action it is at
  copy,       \* status in its copy of the row
  snapshot,   \* `previous`: the /chaos state read before the reset
  todo,       \* actions propose_for_incident has still to insert
  \* history
  approvals,  \* actions an approve request has been recorded for
  disturbed,  \* services someone else injected chaos into
  faults      \* how many faults have happened

stores  == <<rows, locks, ticket, chaos>>
threads == <<pc, cur, copy, snapshot, todo>>
history == <<approvals, disturbed, faults>>
vars    == <<rows, locks, ticket, chaos, pc, cur, copy, snapshot, todo,
             approvals, disturbed, faults>>

Statuses == {"absent", "proposed", "approved", "rejected", "executed",
             "simulated", "failed", "rolled_back"}
Closed == {"resolved", "false_positive"}
TicketStatuses == {"open", "remediating"} \cup Closed

PC == {"idle", "proposing", "autoproposing", "approving", "approving_now",
       "loading", "blocking", "locking", "acting", "posting", "verifying",
       "rolling_back", "recording", "releasing", "aborting", "noting",
       "marking", "closing"}

Init ==
  /\ rows = [a \in Actions |-> "absent"]
  /\ locks = [n \in Names |-> NoAction]
  /\ ticket = [t \in Tickets |-> "open"]
  /\ chaos \in [Services -> SUBSET Injections]
  /\ pc = [w \in Workers |-> "idle"]
  /\ cur = [w \in Workers |-> NoAction]
  /\ copy = [w \in Workers |-> "absent"]
  /\ snapshot = [w \in Workers |-> NoSnapshot]
  /\ todo = [w \in Workers |-> {}]
  /\ approvals = {} /\ disturbed = {} /\ faults = 0

-----------------------------------------------------------------------------
(* The base URL of an action's target: a name without an endpoint of its   *)
(* own is sent to checkout.                                                *)
Url(a) == Endpoint[Target[a]]

(* Mutant: reset_latency is missing from the mutating types.               *)
LockedMutant(a) == Kind[a] \in Mutating \ {"reset_latency"}

(* _resource_key: only mutating actions take a lock.                       *)
Locked(a) == Kind[a] \in Mutating

(* What a reset's payload turns off.                                       *)
Clears(a) == IF Kind[a] = "reset_error_rate" THEN Injections ELSE {"latency"}

Settled(status) == status \in {"executed", "simulated"}

Fault == faults < MaxFaults /\ faults' = faults + 1

Goto(w, l) == pc' = [pc EXCEPT ![w] = l]

(* The request is answered; inside propose_for_incident the loop goes on.  *)
Return(w) ==
  /\ Goto(w, IF todo[w] = {} THEN "idle" ELSE "autoproposing")
  /\ cur' = [cur EXCEPT ![w] = NoAction]
  /\ copy' = [copy EXCEPT ![w] = "absent"]
  /\ snapshot' = [snapshot EXCEPT ![w] = NoSnapshot]
  /\ UNCHANGED todo

(* An exception ends the request, with the rest of a propose loop.         *)
Abandon(w) ==
  /\ Goto(w, "idle")
  /\ cur' = [cur EXCEPT ![w] = NoAction]
  /\ copy' = [copy EXCEPT ![w] = "absent"]
  /\ snapshot' = [snapshot EXCEPT ![w] = NoSnapshot]
  /\ todo' = [todo EXCEPT ![w] = {}]

(* The executor hands back the record with this status.                    *)
Outcome(w, status) ==
  /\ copy' = [copy EXCEPT ![w] = status]
  /\ Goto(w, "recording")

-----------------------------------------------------------------------------
(* Requests *)

(* POST /remediate/propose: the texts of one incident, classified.  Every  *)
(* row gets an identity of its own; the order of the texts is left open.   *)
Propose(w, t, auto) ==
  /\ pc[w] = "idle"
  /\ \E S \in SUBSET {a \in Actions : /\ rows[a] = "absent"
                                      /\ TicketOf[a] = t
                                      /\ \A v \in Workers : a \notin todo[v]
                                      /\ Kind[a] # "mark_false_positive"} :
       /\ S # {}
       /\ todo' = [todo EXCEPT ![w] = S]
  /\ Goto(w, IF auto THEN "autoproposing" ELSE "proposing")
  /\ UNCHANGED <<stores, cur, copy, snapshot, history>>

(* One turn of the propose loop: insert, and execute a low-risk action.    *)
InsertProposal(w, a) ==
  /\ pc[w] \in {"proposing", "autoproposing"}
  /\ a \in todo[w] /\ rows[a] = "absent"
  /\ rows' = [rows EXCEPT ![a] = "proposed"]
  /\ todo' = [todo EXCEPT ![w] = @ \ {a}]
  /\ IF pc[w] = "autoproposing" /\ Kind[a] \notin HighRisk
       THEN /\ Goto(w, "loading")
            /\ cur' = [cur EXCEPT ![w] = a]
       ELSE /\ Goto(w, IF todo[w] = {a} THEN "idle" ELSE pc[w])
            /\ UNCHANGED cur
  /\ UNCHANGED <<locks, ticket, chaos, copy, snapshot, history>>

(* POST /actions/{id}/approve reads the row ...                            *)
Approve(w, a, now) ==
  /\ pc[w] = "idle"
  /\ rows[a] # "absent" /\ ~Settled(rows[a])
  /\ cur' = [cur EXCEPT ![w] = a]
  /\ Goto(w, IF now THEN "approving_now" ELSE "approving")
  /\ UNCHANGED <<stores, copy, snapshot, todo, history>>

(* ... and writes its copy back as approved.                               *)
WriteApproval(w) ==
  /\ pc[w] \in {"approving", "approving_now"}
  /\ rows' = [rows EXCEPT ![cur[w]] = "approved"]
  /\ approvals' = approvals \cup {cur[w]}
  /\ \/ /\ pc[w] = "approving_now"
        /\ Goto(w, "loading")
        /\ UNCHANGED <<cur, copy, snapshot, todo>>
     \/ /\ pc[w] = "approving"
        /\ Return(w)
  /\ UNCHANGED <<locks, ticket, chaos, disturbed, faults>>

(* POST /actions/{id}/execute                                              *)
Execute(w, a) ==
  /\ pc[w] = "idle"
  /\ rows[a] # "absent"
  /\ cur' = [cur EXCEPT ![w] = a]
  /\ Goto(w, "loading")
  /\ UNCHANGED <<stores, copy, snapshot, todo, history>>

(* POST /actions/{id}/reject needs the row only to exist.                  *)
Reject(a) ==
  /\ rows[a] # "absent"
  /\ rows' = [rows EXCEPT ![a] = "rejected"]
  /\ UNCHANGED <<locks, ticket, chaos, threads, history>>

(* POST /incidents/{id}/false-positive: an audit row, then the ticket.     *)
MarkFalsePositive(w, a) ==
  /\ pc[w] = "idle"
  /\ Kind[a] = "mark_false_positive" /\ rows[a] = "absent"
  /\ rows' = [rows EXCEPT ![a] = "proposed"]
  /\ cur' = [cur EXCEPT ![w] = a]
  /\ Goto(w, "marking")
  /\ UNCHANGED <<locks, ticket, chaos, copy, snapshot, todo, history>>

RecordFalsePositive(w) ==
  /\ pc[w] = "marking"
  /\ rows' = [rows EXCEPT ![cur[w]] = IF SimulateOnly THEN "simulated"
                                                      ELSE "executed"]
  /\ Goto(w, "closing")
  /\ UNCHANGED <<locks, ticket, chaos, cur, copy, snapshot, todo, history>>

CloseAsFalsePositive(w) ==
  /\ pc[w] = "closing"
  /\ ticket' = [ticket EXCEPT ![TicketOf[cur[w]]] = "false_positive"]
  /\ Return(w)
  /\ UNCHANGED <<rows, locks, chaos, history>>

-----------------------------------------------------------------------------
(* service.execute *)

(* Mutant: the approval of a high-risk action is not looked at.            *)
LoadUnguarded(w) ==
  LET a == cur[w] IN
  /\ pc[w] = "loading"
  /\ \/ /\ Settled(rows[a])
        /\ Return(w)
     \/ /\ rows[a] = "rejected"
        /\ copy' = [copy EXCEPT ![w] = rows[a]]
        /\ Goto(w, "blocking")
        /\ UNCHANGED <<cur, snapshot, todo>>
     \/ /\ ~Settled(rows[a]) /\ rows[a] # "rejected"
        /\ copy' = [copy EXCEPT ![w] = rows[a]]
        /\ Goto(w, IF Locked(a) THEN "locking" ELSE "acting")
        /\ UNCHANGED <<cur, snapshot, todo>>
  /\ UNCHANGED <<stores, history>>

(* Reads the row; decides whether the action may run.                      *)
Load(w) ==
  LET a == cur[w] IN
  /\ pc[w] = "loading"
  /\ \/ /\ Settled(rows[a])
        /\ Return(w)
     \/ /\ \/ rows[a] = "rejected"
           \/ Kind[a] \in HighRisk /\ rows[a] # "approved"
        /\ copy' = [copy EXCEPT ![w] = rows[a]]
        /\ Goto(w, "blocking")
        /\ UNCHANGED <<cur, snapshot, todo>>
     \/ /\ ~Settled(rows[a]) /\ rows[a] # "rejected"
        /\ Kind[a] \in HighRisk => rows[a] = "approved"
        /\ copy' = [copy EXCEPT ![w] = rows[a]]
        /\ Goto(w, IF Locked(a) THEN "locking" ELSE "acting")
        /\ UNCHANGED <<cur, snapshot, todo>>
  /\ UNCHANGED <<stores, history>>

(* Mutant: a blocked action is tried again.                                *)
WriteBlockedRetry(w) ==
  /\ pc[w] = "blocking"
  /\ rows' = [rows EXCEPT ![cur[w]] = copy[w]]
  /\ Goto(w, "loading")
  /\ UNCHANGED <<locks, ticket, chaos, cur, copy, snapshot, todo, history>>

(* "blocked: ...": the copy goes back with a new result text.              *)
WriteBlocked(w) ==
  /\ pc[w] = "blocking"
  /\ rows' = [rows EXCEPT ![cur[w]] = copy[w]]
  /\ Return(w)
  /\ UNCHANGED <<locks, ticket, chaos, history>>

(* Mutant: the action that owns the lock may take it again.                *)
AcquireLockAgain(w) ==
  LET n == Target[cur[w]] IN
  /\ pc[w] = "locking"
  /\ \/ /\ locks[n] \in {NoAction, cur[w]}
        /\ locks' = [locks EXCEPT ![n] = cur[w]]
        /\ Goto(w, "acting")
     \/ /\ locks[n] \notin {NoAction, cur[w]}
        /\ Goto(w, "blocking")
        /\ UNCHANGED locks
  /\ UNCHANGED <<rows, ticket, chaos, cur, copy, snapshot, todo, history>>

(* try_acquire_resource_lock: one BEGIN IMMEDIATE transaction.             *)
AcquireLock(w) ==
  LET n == Target[cur[w]] IN
  /\ pc[w] = "locking"
  /\ \/ /\ locks[n] = NoAction
        /\ locks' = [locks EXCEPT ![n] = cur[w]]
        /\ Goto(w, "acting")
     \/ /\ locks[n] # NoAction
        /\ Goto(w, "blocking")
        /\ UNCHANGED locks
  /\ UNCHANGED <<rows, ticket, chaos, cur, copy, snapshot, todo, history>>

(* Mutant: the lock is released only after a success.                      *)
RecordMutant(w) ==
  /\ pc[w] = "recording"
  /\ rows' = [rows EXCEPT ![cur[w]] = copy[w]]
  /\ Goto(w, IF Locked(cur[w]) /\ Settled(copy[w]) THEN "releasing"
                                                    ELSE "noting")
  /\ UNCHANGED <<locks, ticket, chaos, cur, copy, snapshot, todo, history>>

(* Stores the outcome; a SQLite error skips the note, not the release.     *)
Record(w) ==
  /\ pc[w] = "recording"
  /\ \/ /\ rows' = [rows EXCEPT ![cur[w]] = copy[w]]
        /\ Goto(w, IF Locked(cur[w]) THEN "releasing" ELSE "noting")
        /\ UNCHANGED <<cur, copy, snapshot, todo, faults>>
     \/ /\ Locked(cur[w]) /\ Fault
        /\ Goto(w, "aborting")
        /\ UNCHANGED <<rows, cur, copy, snapshot, todo>>
  /\ UNCHANGED <<locks, ticket, chaos, approvals, disturbed>>

(* release_resource_lock deletes the row if this action owns it.           *)
ReleaseLock(w) ==
  LET n == Target[cur[w]] IN
  /\ pc[w] \in {"releasing", "aborting"}
  /\ locks' = [locks EXCEPT ![n] = IF @ = cur[w] THEN NoAction ELSE @]
  /\ \/ /\ pc[w] = "releasing"
        /\ Goto(w, "noting")
        /\ UNCHANGED <<cur, copy, snapshot, todo>>
     \/ /\ pc[w] = "aborting"
        /\ Abandon(w)
  /\ UNCHANGED <<rows, ticket, chaos, history>>

(* The incident is patched to remediating, whatever it has become; an      *)
(* error is logged.                                                        *)
NoteOnTicket(w) ==
  /\ pc[w] = "noting"
  /\ \/ /\ ticket' = [ticket EXCEPT ![TicketOf[cur[w]]] = "remediating"]
        /\ UNCHANGED faults
     \/ Fault /\ UNCHANGED ticket
  /\ Return(w)
  /\ UNCHANGED <<rows, locks, chaos, approvals, disturbed>>

-----------------------------------------------------------------------------
(* executor.execute *)

(* Nothing is called: dry run, scaling, free text, a note in the log.      *)
ActQuietly(w) ==
  /\ pc[w] = "acting"
  /\ \/ /\ SimulateOnly \/ Kind[cur[w]] \in {"scale_deployment", "custom"}
        /\ Outcome(w, "simulated")
     \/ /\ ~SimulateOnly /\ Kind[cur[w]] \in {"log_only", "mark_false_positive"}
        /\ Outcome(w, "executed")
  /\ UNCHANGED <<stores, cur, snapshot, todo, history>>

(* docker restart: the process comes back without injected faults.  With   *)
(* no Docker, no such container or an error it is reported as simulated.   *)
Restart(w) ==
  LET n == Target[cur[w]] IN
  /\ pc[w] = "acting" /\ ~SimulateOnly /\ Kind[cur[w]] = "restart_service"
  /\ \/ /\ n \in Services
        /\ chaos' = [chaos EXCEPT ![n] = {}]
        /\ Outcome(w, "executed")
        /\ UNCHANGED faults
     \/ /\ Outcome(w, "simulated")
        /\ UNCHANGED <<chaos, faults>>
     \/ /\ n \in Services /\ Fault       \* restarted, but the call timed out
        /\ chaos' = [chaos EXCEPT ![n] = {}]
        /\ Outcome(w, "simulated")
  /\ UNCHANGED <<rows, locks, ticket, cur, snapshot, todo, approvals, disturbed>>

(* _reset_chaos: GET /chaos; without an answer it goes on without.         *)
TakeSnapshot(w) ==
  /\ pc[w] = "acting" /\ ~SimulateOnly /\ Kind[cur[w]] \in Resets
  /\ \/ /\ snapshot' = [snapshot EXCEPT ![w] = chaos[Url(cur[w])]]
        /\ UNCHANGED faults
     \/ Fault /\ UNCHANGED snapshot
  /\ Goto(w, "posting")
  /\ UNCHANGED <<stores, cur, copy, todo, approvals, disturbed>>

(* POST /chaos; an error status or an exception makes the action failed.   *)
PostReset(w) ==
  LET applied == chaos' = [chaos EXCEPT ![Url(cur[w])] = @ \ Clears(cur[w])] IN
  /\ pc[w] = "posting"
  /\ \/ /\ applied
        /\ UNCHANGED faults
        /\ \/ Verify /\ Goto(w, "verifying") /\ UNCHANGED copy
           \/ ~Verify /\ Outcome(w, "executed")
     \/ Fault /\ UNCHANGED chaos /\ Outcome(w, "failed")
     \/ Fault /\ applied /\ Outcome(w, "failed")       \* the reply was lost
  /\ UNCHANGED <<rows, locks, ticket, cur, snapshot, todo, approvals, disturbed>>

(* GET /health and GET /chaos: the service may be unhealthy at any time.   *)
VerifyReset(w) ==
  /\ pc[w] = "verifying"
  /\ \/ /\ chaos[Url(cur[w])] \cap Clears(cur[w]) = {}
        /\ Outcome(w, "executed")
     \/ Goto(w, "rolling_back") /\ UNCHANGED copy
  /\ UNCHANGED <<stores, cur, snapshot, todo, history>>

(* POST the snapshot back, if there is one.                                *)
RollBack(w) ==
  LET restored == chaos' = [chaos EXCEPT ![Url(cur[w])] = snapshot[w]] IN
  /\ pc[w] = "rolling_back"
  /\ \/ /\ snapshot[w] = NoSnapshot
        /\ Outcome(w, "failed")
        /\ UNCHANGED <<chaos, faults>>
     \/ /\ snapshot[w] # NoSnapshot
        /\ restored /\ Outcome(w, "rolled_back")
        /\ UNCHANGED faults
     \/ /\ snapshot[w] # NoSnapshot /\ Fault
        /\ restored \/ UNCHANGED chaos
        /\ Outcome(w, "failed")
  /\ UNCHANGED <<rows, locks, ticket, cur, snapshot, todo, approvals, disturbed>>

-----------------------------------------------------------------------------
(* The environment *)

(* A process dies with its requests, or an error that nothing catches (a   *)
(* SQLite error, incident-manager away) ends one; the database survives.   *)
Crash(w) ==
  /\ pc[w] # "idle"
  /\ Fault
  /\ Abandon(w)
  /\ UNCHANGED <<stores, approvals, disturbed>>

(* The threads that hold a lock: between taking and releasing it.          *)
Holding == {"acting", "posting", "verifying", "rolling_back", "recording",
            "releasing", "aborting"}
Holds(w, n) == pc[w] \in Holding /\ Locked(cur[w]) /\ Target[cur[w]] = n

(* Mutant: expired rows are never deleted.                                 *)
LockExpiresMutant(n) == locks[n] # NoAction /\ FALSE /\ UNCHANGED vars

(* The TTL of 120 s runs out.  A live request is far shorter: at most five *)
(* HTTP calls with a timeout of 8 s.  The expired row stays in the table   *)
(* until the next acquire of any key deletes it; it stands for no lock.    *)
LockExpires(n) ==
  /\ locks[n] # NoAction
  /\ \A w \in Workers : ~Holds(w, n)
  /\ locks' = [locks EXCEPT ![n] = NoAction]
  /\ UNCHANGED <<rows, ticket, chaos, threads, history>>

(* Somebody injects a fault: scripts/chaos.py or the load generator.       *)
Inject(s, i) ==
  /\ i \notin chaos[s]
  /\ Fault
  /\ chaos' = [chaos EXCEPT ![s] = @ \cup {i}]
  /\ disturbed' = disturbed \cup {s}
  /\ UNCHANGED <<rows, locks, ticket, threads, approvals>>

(* An operator resolves the incident.                                      *)
Close(t) ==
  /\ ticket[t] \notin Closed
  /\ ticket' = [ticket EXCEPT ![t] = "resolved"]
  /\ UNCHANGED <<rows, locks, chaos, threads, history>>

-----------------------------------------------------------------------------
Step(w) ==
  \/ \E a \in Actions : InsertProposal(w, a)
  \/ WriteApproval(w)
  \/ RecordFalsePositive(w) \/ CloseAsFalsePositive(w)
  \/ Load(w) \/ WriteBlocked(w) \/ AcquireLock(w)
  \/ ActQuietly(w) \/ Restart(w)
  \/ TakeSnapshot(w) \/ PostReset(w) \/ VerifyReset(w) \/ RollBack(w)
  \/ Record(w) \/ ReleaseLock(w) \/ NoteOnTicket(w)

Request(w) ==
  \/ \E t \in Tickets, auto \in BOOLEAN : Propose(w, t, auto)
  \/ \E a \in Actions, now \in BOOLEAN : Approve(w, a, now)
  \/ \E a \in Actions : Execute(w, a)
  \/ \E a \in Actions : MarkFalsePositive(w, a)

Next ==
  \/ \E w \in Workers : Request(w) \/ Step(w) \/ Crash(w)
  \/ \E a \in Actions : Reject(a)
  \/ \E n \in Names : LockExpires(n)
  \/ \E s \in Services, i \in Injections : Inject(s, i)
  \/ \E t \in Tickets : Close(t)

Spec == Init /\ [][Next]_vars

(* A thread goes on with its request, and time passes.                     *)
FairSpec ==
  /\ Spec
  /\ \A w \in Workers : WF_vars(Step(w))
  /\ \A n \in Names : WF_vars(LockExpires(n))
-----------------------------------------------------------------------------
(* Properties *)

TypeOK ==
  /\ rows \in [Actions -> Statuses]
  /\ locks \in [Names -> Actions \cup {NoAction}]
  /\ ticket \in [Tickets -> TicketStatuses]
  /\ chaos \in [Services -> SUBSET Injections]
  /\ pc \in [Workers -> PC]
  /\ cur \in [Workers -> Actions \cup {NoAction}]
  /\ copy \in [Workers -> Statuses]
  /\ snapshot \in [Workers -> Snapshots]
  /\ todo \in [Workers -> SUBSET Actions]
  /\ approvals \subseteq Actions
  /\ disturbed \subseteq Services
  /\ faults \in 0 .. MaxFaults

(* Two requests are never inside the locked section of one key at a time,  *)
(* also when they run the same action, when a lock was left behind by a    *)
(* crash and expired, and when a release follows an error.                 *)
MutualExclusion ==
  \A v, w \in Workers, n \in Names : Holds(v, n) /\ Holds(w, n) => v = w

(* A high-risk action runs, and is recorded as run, only after an operator *)
(* approved it: not by the automatic path of propose, not by a retry, not  *)
(* through a copy another request writes back.                             *)
Running(w) == pc[w] \in {"locking", "acting", "posting", "verifying",
                         "rolling_back", "recording"}

HighRiskNeedsApproval ==
  \A a \in Actions :
    /\ Kind[a] \in HighRisk
    /\ \/ rows[a] \in {"executed", "simulated", "failed"}
       \/ \E w \in Workers : cur[w] = a /\ Running(w)
    => a \in approvals

(* As long as nothing failed, a lock is held only on behalf of a request   *)
(* that is inside the section: no way out of it forgets the lock.          *)
NoLockForgotten ==
  faults = 0 =>
    \A n \in Names : locks[n] # NoAction =>
      \E w \in Workers : Holds(w, n) /\ locks[n] = cur[w]

(* What is about to be recorded of a reset is true of the service at that  *)
(* moment, if nobody injected chaos and each service is the endpoint of    *)
(* one name: executed, what the reset clears is clear; rolled back, it is  *)
(* as it was found; failed, some call did fail.                            *)
OutcomeIsTrue ==
  \A w \in Workers :
    LET s == Url(cur[w]) IN
    pc[w] = "recording" /\ Kind[cur[w]] \in Resets /\ s \notin disturbed =>
      /\ copy[w] = "executed" => chaos[s] \cap Clears(cur[w]) = {}
      /\ copy[w] = "rolled_back" => chaos[s] = snapshot[w]
      /\ copy[w] = "failed" => faults > 0

(* Every request is answered: no request waits for a lock.                 *)
RequestsAreAnswered ==
  \A w \in Workers : pc[w] # "idle" ~> pc[w] = "idle"

(* No key stays locked for ever, whatever dies while holding it.           *)
LocksComeFree ==
  \A n \in Names : []<>(locks[n] = NoAction)

(* service.py:145, "rejected action cannot be executed": a row leaves      *)
(* rejected only by a new approval.  Does not hold: execute read the row   *)
(* before the rejection and writes its copy after it.                      *)
RejectionStands ==
  [][\A a \in Actions : rows[a] = "rejected" =>
       rows'[a] \in {"rejected", "approved"}]_vars

(* README.md:131, "per-service lock serializes mutations": two requests    *)
(* never change the chaos state of one service at a time.  Does not hold:  *)
(* the lock is per target name, and every unknown name is sent to checkout.*)
MutationsAreSerialized ==
  \A v, w \in Workers :
    /\ pc[v] \in {"verifying", "rolling_back"}
    /\ pc[w] \in {"verifying", "rolling_back"}
    /\ Url(cur[v]) = Url(cur[w])
    => v = w

-----------------------------------------------------------------------------
(* The inductive invariant of the proofs *)

(* A request past its first read works on an action.                       *)
CurInv ==
  \A w \in Workers :
    /\ pc[w] \notin {"idle", "proposing", "autoproposing"} => cur[w] \in Actions
    /\ pc[w] = "marking" => Kind[cur[w]] = "mark_false_positive"
    /\ pc[w] = "locking" => Locked(cur[w])

(* The lock of a key belongs to the action of the request that holds it.   *)
LockInv ==
  \A w \in Workers, n \in Names : Holds(w, n) => locks[n] = cur[w]

(* A status only an approved high-risk action can have.                    *)
Earned(a, status) ==
  /\ Kind[a] \in HighRisk
  /\ status \in {"approved", "executed", "simulated", "failed"}
  => a \in approvals

ApprovalInv ==
  /\ \A a \in Actions : Earned(a, rows[a])
  /\ \A w \in Workers : pc[w] = "blocking" \/ Running(w) =>
       Earned(cur[w], copy[w])
  /\ \A w \in Workers : Running(w) /\ Kind[cur[w]] \in HighRisk =>
       cur[w] \in approvals

(* A reset that goes on has its snapshot, or reading it failed.            *)
ResetInv ==
  \A w \in Workers : pc[w] \in {"posting", "verifying", "rolling_back"} =>
    /\ Kind[cur[w]] \in Resets
    /\ snapshot[w] = NoSnapshot => faults > 0

(* Each service is the endpoint of one name only.                          *)
OneNamePerEndpoint ==
  \A m, n \in Names : Endpoint[m] = Endpoint[n] => m = n

IInv ==
  /\ TypeOK /\ CurInv /\ LockInv /\ MutualExclusion
  /\ NoLockForgotten /\ ApprovalInv /\ ResetInv
=============================================================================
