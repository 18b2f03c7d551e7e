--------------------------- MODULE IncidentManager --------------------------
(***************************************************************************)
(* aiops-services/incident-manager: from an anomaly to one ticket, and     *)
(* from a new ticket to the control plane.                                 *)
(*                                                                         *)
(* Several threads run the same code over one SQLite file: the consumer of *)
(* the anomaly queue, and the threads that serve the REST API (the         *)
(* from-anomaly webhook, manual creation, PATCH).  One SQL transaction is  *)
(* one step; a thread's copy of a row can be stale by the time it writes   *)
(* it back.                                                                *)
(*                                                                         *)
(* A ticket's id is its position in tickets, which is also the order of    *)
(* created_at.  The queue below the consumer is ReliableQueue: here it is  *)
(* the set of payloads not yet acknowledged, in any order.  Faults are few *)
(* enough (at most queue_max_retries) that none is dead-lettered.          *)
(* enable_redis_incident_fanout is off, as it is by default.               *)
(***************************************************************************)
EXTENDS Naturals, Sequences, FiniteSets

CONSTANTS Anomalies,      \* anomaly ids
          Services,       \* canonical service names
          Metrics,        \* metric names
          ServiceOf,      \* [Anomalies -> Services]
          MetricOf,       \* [Anomalies -> Metrics]
          Words,          \* the keywords that occur in a metric's name
          Critical,       \* anomalies of severity critical
          DependsOn,      \* the service topology, [Services -> SUBSET Services]
          Consumer,       \* the queue consumer's thread
          ApiThreads,     \* threads serving the REST API
          Patches,        \* bodies of PATCH /incidents/{id}: a status (or
                          \* "keep") and whether a root cause is set
          MaxManual,      \* bound: tickets created by hand
          MaxFaults,      \* bound: crashes, database and HTTP errors
          EnableTopology, \* enable_topology_correlation
          DecisionEnabled,\* DecisionClient.enabled
          RcaEnabled,     \* RCAClient.enabled
          EnableDirectRca,\* enable_direct_rca_fanout
          NoAnomaly, NoService, NoRow

Threads == {Consumer} \cup ApiThreads

OpenStatus == {"open", "acknowledged", "investigating", "remediating"}

Status == OpenStatus \cup {"resolved", "closed", "false_positive"}

ASSUME IncidentAssumption ==
  /\ ServiceOf \in [Anomalies -> Services]
  /\ MetricOf \in [Anomalies -> Metrics]
  /\ Critical \subseteq Anomalies
  /\ DependsOn \in [Services -> SUBSET Services]
  /\ Consumer \notin ApiThreads
  /\ Patches \subseteq [status : Status \cup {"keep"}, cause : BOOLEAN]
  /\ MaxManual \in Nat /\ MaxFaults \in Nat
  /\ {EnableTopology, DecisionEnabled, RcaEnabled, EnableDirectRca}
       \subseteq BOOLEAN
  /\ NoAnomaly \notin Anomalies

VARIABLES
  \* SQLite
  tickets,    \* table incidents, in order of created_at
  processed,  \* table processed_anomalies: [Anomalies -> Nat], 0 for no row
  \* the queue
  inbox,      \* anomalies published and not acknowledged
  \* threads
  pc,         \* what a thread does next
  cur,        \* the anomaly it handles
  target,     \* the ticket it is about to write or has written
  snap,       \* its copy of that ticket's row
  kind,       \* correlation_kind
  \* the rest of the world
  aged,       \* tickets 1 .. aged are older than correlation_window_minutes
  told,       \* hand-offs that arrived: pairs <<"decision" or "rca", ticket>>
  pushes,     \* history: control-plane fan-outs per anomaly
  manual,     \* history: tickets created by hand
  faults      \* history: faults so far

thread == <<pc, cur, target, snap, kind>>
world  == <<inbox, aged, told, pushes, manual, faults>>
vars   == <<tickets, processed, inbox, pc, cur, target, snap, kind,
            aged, told, pushes, manual, faults>>

Ids == 1 .. Len(tickets)

Init ==
  /\ tickets = <<>>
  /\ processed = [a \in Anomalies |-> 0]
  /\ inbox = Anomalies
  /\ pc = [t \in Threads |-> "idle"]
  /\ cur = [t \in Threads |-> NoAnomaly]
  /\ target = [t \in Threads |-> 0]
  /\ snap = [t \in Threads |-> NoRow]
  /\ kind = [t \in Threads |-> "same_series"]
  /\ aged = 0 /\ told = {}
  /\ pushes = [a \in Anomalies |-> 0]
  /\ manual = 0 /\ faults = 0

-----------------------------------------------------------------------------
(* Rows *)

(* _metric_family: the first family one of whose keywords occurs.          *)
Families ==
  << [name |-> "errors",     words |-> {"error", "5xx", "failure"}],
     [name |-> "latency",    words |-> {"latency", "duration", "response_time"}],
     [name |-> "saturation", words |-> {"cpu", "memory", "saturation"}],
     [name |-> "traffic",    words |-> {"request", "traffic", "rate"}] >>

MetricFamily(m) ==
  LET hits == {k \in 1 .. Len(Families) :
                 Families[k].words \cap Words[m] # {}}
  IN  IF hits = {} THEN m
      ELSE Families[CHOOSE k \in hits : \A j \in hits : k <= j].name

Neighbours(s) ==
  (DependsOn[s] \cup {d \in Services : s \in DependsOn[d]}) \ {s}

FromAnomaly(a) ==
  [service |-> ServiceOf[a], metric |-> MetricOf[a], src |-> a,
   status |-> "open", critical |-> a \in Critical, count |-> 1,
   affected |-> {}, root |-> NoService, cause |-> FALSE, dated |-> FALSE]

Manual(s, m) ==
  [service |-> s, metric |-> m, src |-> NoAnomaly,
   status |-> "open", critical |-> FALSE, count |-> 1,
   affected |-> {}, root |-> NoService, cause |-> FALSE, dated |-> FALSE]

(* Mutant: the severity is the latest anomaly's.                           *)
CorrelatedMutant(row, a) ==
  [row EXCEPT
     !.count = @ + 1,
     !.affected = @ \cup {row.service, ServiceOf[a]},
     !.root = IF ServiceOf[a] \in DependsOn[row.service] THEN ServiceOf[a]
              ELSE IF @ = NoService THEN row.service ELSE @,
     !.critical = a \in Critical]

(* A row with one more anomaly merged into it.                             *)
Correlated(row, a) ==
  [row EXCEPT
     !.count = @ + 1,
     !.affected = @ \cup {row.service, ServiceOf[a]},
     !.root = IF ServiceOf[a] \in DependsOn[row.service] THEN ServiceOf[a]
              ELSE IF @ = NoService THEN row.service ELSE @,
     !.critical = @ \/ a \in Critical]

(* A row with the body of a PATCH applied; dated is resolved_at # None.    *)
Patched(row, p) ==
  [row EXCEPT
     !.status = IF p.status = "keep" THEN @ ELSE p.status,
     !.cause = @ \/ p.cause,
     !.dated = @ \/ p.status \in {"resolved", "closed"}]

(* What find_open_correlated and find_open_for_services range over.        *)
Reusable(i) == i > aged /\ tickets[i].status \in OpenStatus

SameSeries(i, a) ==
  tickets[i].service = ServiceOf[a] /\ tickets[i].metric = MetricOf[a]

SameCascade(i, a) ==
  /\ tickets[i].service \in Neighbours(ServiceOf[a])
  /\ MetricFamily(tickets[i].metric) = MetricFamily(MetricOf[a])

(* ORDER BY created_at DESC, and the first of what is found.               *)
Newest(i, S) == i \in S /\ \A j \in S : j <= i

-----------------------------------------------------------------------------
(* Steps of a thread *)

Goto(t, l) == pc' = [pc EXCEPT ![t] = l]

(* The call is over, and its locals are gone.                              *)
Done(t) ==
  /\ Goto(t, "idle")
  /\ cur' = [cur EXCEPT ![t] = NoAnomaly]
  /\ target' = [target EXCEPT ![t] = 0]
  /\ snap' = [snap EXCEPT ![t] = NoRow]
  /\ kind' = [kind EXCEPT ![t] = "same_series"]

Fault == faults < MaxFaults /\ faults' = faults + 1

(* handle_anomaly begins: get_by_anomaly_id.  The consumer takes an        *)
(* unacknowledged payload; the webhook can be called with any anomaly, at  *)
(* any time and any number of times.                                       *)
Receive(t, a) ==
  /\ pc[t] = "idle"
  /\ t = Consumer => a \in inbox
  /\ cur' = [cur EXCEPT ![t] = a]
  /\ Goto(t, IF processed[a] # 0 THEN "returning" ELSE "series")
  /\ UNCHANGED <<tickets, processed, target, snap, kind>>
  /\ UNCHANGED world

Reuse(t, i, k) ==
  /\ target' = [target EXCEPT ![t] = i]
  /\ snap' = [snap EXCEPT ![t] = tickets[i]]
  /\ kind' = [kind EXCEPT ![t] = k]
  /\ Goto(t, "updating")

(* find_open_correlated                                                    *)
FindSeries(t) ==
  /\ pc[t] = "series"
  /\ LET found == {i \in Ids : Reusable(i) /\ SameSeries(i, cur[t])} IN
     \/ \E i \in Ids : Newest(i, found) /\ Reuse(t, i, "same_series")
     \/ /\ found = {}
        /\ Goto(t, IF EnableTopology THEN "topology" ELSE "inserting")
        /\ UNCHANGED <<target, snap, kind>>
  /\ UNCHANGED <<tickets, processed, cur>>
  /\ UNCHANGED world

(* Mutant: any open ticket of a neighbour will do.                         *)
FindCascadeMutant(t) ==
  /\ pc[t] = "topology"
  /\ LET found == {i \in Ids :
           Reusable(i) /\ tickets[i].service \in Neighbours(ServiceOf[cur[t]])}
     IN \/ \E i \in Ids : Newest(i, found) /\ Reuse(t, i, "topology_cascade")
        \/ found = {} /\ Goto(t, "inserting") /\ UNCHANGED <<target, snap, kind>>
  /\ UNCHANGED <<tickets, processed, cur>>
  /\ UNCHANGED world

(* Mutant: compares metric names, not families.                            *)
FindCascadeByName(t) ==
  /\ pc[t] = "topology"
  /\ LET found == {i \in Ids :
           /\ Reusable(i) /\ SameCascade(i, cur[t])
           /\ tickets[i].metric = MetricOf[cur[t]]}
     IN \/ \E i \in Ids : Newest(i, found) /\ Reuse(t, i, "topology_cascade")
        \/ found = {} /\ Goto(t, "inserting") /\ UNCHANGED <<target, snap, kind>>
  /\ UNCHANGED <<tickets, processed, cur>>
  /\ UNCHANGED world

(* find_open_for_services, and the first candidate of the same family      *)
FindCascade(t) ==
  /\ pc[t] = "topology"
  /\ LET found == {i \in Ids : Reusable(i) /\ SameCascade(i, cur[t])} IN
     \/ \E i \in Ids : Newest(i, found) /\ Reuse(t, i, "topology_cascade")
     \/ found = {} /\ Goto(t, "inserting") /\ UNCHANGED <<target, snap, kind>>
  /\ UNCHANGED <<tickets, processed, cur>>
  /\ UNCHANGED world

(* Mutant: only an insert leaves a delivery marker.                        *)
UpdateUnmarked(t) ==
  /\ pc[t] = "updating" /\ processed[cur[t]] = 0
  /\ tickets' = [tickets EXCEPT ![target[t]] = Correlated(snap[t], cur[t])]
  /\ Goto(t, IF kind[t] = "topology_cascade" THEN "pushing" ELSE "returning")
  /\ UNCHANGED <<processed, cur, target, snap, kind>>
  /\ UNCHANGED world

(* Mutant: a merge into the ticket of its own series is fanned out too.    *)
UpdateAndPush(t) ==
  /\ pc[t] = "updating" /\ processed[cur[t]] = 0
  /\ processed' = [processed EXCEPT ![cur[t]] = target[t]]
  /\ tickets' = [tickets EXCEPT ![target[t]] = Correlated(snap[t], cur[t])]
  /\ Goto(t, "pushing")
  /\ UNCHANGED <<cur, target, snap, kind>>
  /\ UNCHANGED world

(* update_for_anomaly: marker and row in one transaction; the row is the   *)
(* thread's copy, whatever has been written since it was read.             *)
UpdateForAnomaly(t) ==
  /\ pc[t] = "updating" /\ processed[cur[t]] = 0
  /\ processed' = [processed EXCEPT ![cur[t]] = target[t]]
  /\ tickets' = [tickets EXCEPT ![target[t]] = Correlated(snap[t], cur[t])]
  /\ Goto(t, IF kind[t] = "topology_cascade" THEN "pushing" ELSE "returning")
  /\ UNCHANGED <<cur, target, snap, kind>>
  /\ UNCHANGED world

(* Mutant: inserts without looking for a delivery marker.                  *)
InsertUnchecked(t) ==
  /\ pc[t] = "inserting"
  /\ tickets' = Append(tickets, FromAnomaly(cur[t]))
  /\ processed' = [processed EXCEPT ![cur[t]] = Len(tickets) + 1]
  /\ target' = [target EXCEPT ![t] = Len(tickets) + 1]
  /\ Goto(t, "pushing")
  /\ UNCHANGED <<cur, snap, kind>>
  /\ UNCHANGED world

(* Mutant: only the consumer fans a new ticket out.                        *)
InsertQuietly(t) ==
  /\ pc[t] = "inserting" /\ processed[cur[t]] = 0
  /\ tickets' = Append(tickets, FromAnomaly(cur[t]))
  /\ processed' = [processed EXCEPT ![cur[t]] = Len(tickets) + 1]
  /\ target' = [target EXCEPT ![t] = Len(tickets) + 1]
  /\ Goto(t, IF t = Consumer THEN "pushing" ELSE "returning")
  /\ UNCHANGED <<cur, snap, kind>>
  /\ UNCHANGED world

(* insert_for_anomaly: row and marker in one transaction.                  *)
InsertForAnomaly(t) ==
  /\ pc[t] = "inserting" /\ processed[cur[t]] = 0
  /\ tickets' = Append(tickets, FromAnomaly(cur[t]))
  /\ processed' = [processed EXCEPT ![cur[t]] = Len(tickets) + 1]
  /\ target' = [target EXCEPT ![t] = Len(tickets) + 1]
  /\ Goto(t, "pushing")
  /\ UNCHANGED <<cur, snap, kind>>
  /\ UNCHANGED world

(* The other outcomes of those transactions, when another thread has       *)
(* processed the anomaly meanwhile: the SELECT or the unique index on      *)
(* source_anomaly_id finds the ticket and the handler returns it, or the   *)
(* primary key of processed_anomalies is violated and the handler raises,  *)
(* which leaves the payload in the inbox.                                  *)
AlreadyProcessed(t) ==
  /\ pc[t] \in {"updating", "inserting"} /\ processed[cur[t]] # 0
  /\ \/ Goto(t, "returning") /\ UNCHANGED <<cur, target, snap, kind>>
     \/ Done(t)
  /\ UNCHANGED <<tickets, processed>>
  /\ UNCHANGED world

WantDirectRca ==
  RcaEnabled /\ (EnableDirectRca \/ ~DecisionEnabled)

(* fanout_new_incident: push to the decision engine, whose failure is      *)
(* logged and otherwise ignored.                                           *)
Push(t) ==
  /\ pc[t] = "pushing"
  /\ \/ ~DecisionEnabled /\ UNCHANGED <<told, faults>>
     \/ /\ DecisionEnabled
        /\ told' = told \cup {<<"decision", target[t]>>}
        /\ UNCHANGED faults
     \/ DecisionEnabled /\ Fault /\ UNCHANGED told
  /\ pushes' = [a \in Anomalies |->
                  IF a = cur[t] THEN pushes[a] + 1 ELSE pushes[a]]
  /\ Goto(t, IF WantDirectRca THEN "rca" ELSE "returning")
  /\ UNCHANGED <<tickets, processed, inbox, cur, target, snap, kind,
                 aged, manual>>

(* RCAClient.push_incident, best effort too                                *)
PushRca(t) ==
  /\ pc[t] = "rca"
  /\ \/ told' = told \cup {<<"rca", target[t]>>} /\ UNCHANGED faults
     \/ Fault /\ UNCHANGED told
  /\ Goto(t, "returning")
  /\ UNCHANGED <<tickets, processed, inbox, cur, target, snap, kind,
                 aged, pushes, manual>>

(* The handler returns; the consumer acknowledges the payload.             *)
Return(t) ==
  /\ pc[t] = "returning"
  /\ inbox' = IF t = Consumer THEN inbox \ {cur[t]} ELSE inbox
  /\ Done(t)
  /\ UNCHANGED <<tickets, processed, aged, told, pushes, manual, faults>>

(* Mutant: a payload whose handler raises is acknowledged.                 *)
RaiseMutant(t) ==
  /\ pc[t] \in {"series", "topology", "updating", "inserting", "patching"}
  /\ Fault
  /\ inbox' = IF t = Consumer THEN inbox \ {cur[t]} ELSE inbox
  /\ Done(t)
  /\ UNCHANGED <<tickets, processed, aged, told, pushes, manual>>

(* A database error: the handler raises before its transaction commits,    *)
(* and the consumer's payload goes back to the queue.                      *)
Raise(t) ==
  /\ pc[t] \in {"series", "topology", "updating", "inserting", "patching"}
  /\ Fault
  /\ Done(t)
  /\ UNCHANGED <<tickets, processed, inbox, aged, told, pushes, manual>>

(* POST /incidents                                                         *)
Create(t, s, m) ==
  /\ pc[t] = "idle" /\ t # Consumer
  /\ manual < MaxManual
  /\ manual' = manual + 1
  /\ tickets' = Append(tickets, Manual(s, m))
  /\ target' = [target EXCEPT ![t] = Len(tickets) + 1]
  /\ Goto(t, "pushing")
  /\ UNCHANGED <<processed, inbox, cur, snap, kind, aged, told, pushes, faults>>

(* PATCH /incidents/{id}: get, then update writes every column.            *)
PatchRead(t, i, p) ==
  /\ pc[t] = "idle" /\ t # Consumer
  /\ target' = [target EXCEPT ![t] = i]
  /\ snap' = [snap EXCEPT ![t] = Patched(tickets[i], p)]
  /\ Goto(t, "patching")
  /\ UNCHANGED <<tickets, processed, cur, kind>>
  /\ UNCHANGED world

PatchWrite(t) ==
  /\ pc[t] = "patching"
  /\ tickets' = [tickets EXCEPT ![target[t]] = snap[t]]
  /\ Done(t)
  /\ UNCHANGED processed
  /\ UNCHANGED world

(* The correlation window is measured from created_at, so tickets leave it *)
(* in the order in which they were created.                                *)
WindowPasses ==
  /\ aged < Len(tickets)
  /\ aged' = aged + 1
  /\ UNCHANGED <<tickets, processed, inbox, told, pushes, manual, faults>>
  /\ UNCHANGED thread

(* The process dies and is started again: only SQLite and Redis survive.   *)
Crash ==
  /\ \E t \in Threads : pc[t] # "idle"
  /\ Fault
  /\ pc' = [t \in Threads |-> "idle"]
  /\ cur' = [t \in Threads |-> NoAnomaly]
  /\ target' = [t \in Threads |-> 0]
  /\ snap' = [t \in Threads |-> NoRow]
  /\ kind' = [t \in Threads |-> "same_series"]
  /\ UNCHANGED <<tickets, processed, inbox, aged, told, pushes, manual>>

-----------------------------------------------------------------------------

HandlerStep(t) ==
  \/ FindSeries(t) \/ FindCascade(t)
  \/ UpdateForAnomaly(t) \/ InsertForAnomaly(t) \/ AlreadyProcessed(t)
  \/ Push(t) \/ PushRca(t) \/ Return(t)

ConsumerStep == HandlerStep(Consumer) \/ \E a \in inbox : Receive(Consumer, a)

Next ==
  \/ \E t \in Threads :
       \/ \E a \in Anomalies : Receive(t, a)
       \/ HandlerStep(t)
       \/ Raise(t)
       \/ \E s \in Services, m \in Metrics : Create(t, s, m)
       \/ \E i \in Ids, p \in Patches : PatchRead(t, i, p)
       \/ PatchWrite(t)
  \/ WindowPasses
  \/ Crash

Spec == Init /\ [][Next]_vars

(* The consumer loop keeps running and a raised payload is redelivered.    *)
(* Nothing is assumed of API threads, clients or faults.                   *)
FairSpec == Spec /\ WF_vars(ConsumerStep)

-----------------------------------------------------------------------------
(* Properties *)

PC == {"idle", "series", "topology", "updating", "inserting", "pushing",
       "rca", "returning", "patching"}

Row == [service : Services, metric : Metrics,
        src : Anomalies \cup {NoAnomaly},
        status : Status, critical : BOOLEAN, count : Nat,
        affected : SUBSET Services, root : Services \cup {NoService},
        cause : BOOLEAN, dated : BOOLEAN]

TypeOK ==
  /\ tickets \in Seq(Row)
  /\ processed \in [Anomalies -> Nat]
  /\ inbox \subseteq Anomalies
  /\ pc \in [Threads -> PC]
  /\ cur \in [Threads -> Anomalies \cup {NoAnomaly}]
  /\ target \in [Threads -> Nat]
  /\ snap \in [Threads -> Row \cup {NoRow}]
  /\ kind \in [Threads -> {"same_series", "topology_cascade"}]
  /\ aged \in Nat
  /\ told \subseteq {"decision", "rca"} \X Nat
  /\ pushes \in [Anomalies -> Nat]
  /\ manual \in Nat /\ faults \in Nat

(* However often an anomaly is delivered, by the queue and the webhook at  *)
(* once and across crashes, at most one ticket is opened for it, and it is *)
(* the ticket its delivery marker points at: an anomaly merged into one    *)
(* ticket never has a second ticket of its own.                            *)
OneTicketPerAnomaly ==
  \A i \in Ids : tickets[i].src # NoAnomaly =>
                   processed[tickets[i].src] = i

(* An anomaly is sent to the control plane at most once, however often it  *)
(* is delivered: no duplicate decision, and so no duplicate remediation.   *)
PushedAtMostOnce == \A a \in Anomalies : pushes[a] <= 1

Attributed(i, a) == i \in Ids /\ (SameSeries(i, a) \/ SameCascade(i, a))

(* An anomaly is only ever merged into a ticket of its own series, or into *)
(* one of a service next to its own whose metric is of the same family,    *)
(* although the ticket is chosen in one transaction and written in         *)
(* another.                                                                *)
AttributionIsLocal ==
  \A a \in Anomalies : processed[a] # 0 => Attributed(processed[a], a)

Members(i) == {a \in Anomalies : processed[a] = i}

(* A ticket never claims more occurrences than anomalies were merged into  *)
(* it, a hand-made one counting itself.                                    *)
NoDoubleCounting ==
  \A i \in Ids :
    tickets[i].count <=
      Cardinality(Members(i)) + (IF tickets[i].src = NoAnomaly THEN 1 ELSE 0)

FanningOut(t, i) == pc[t] \in {"pushing", "rca"} /\ target[t] = i

(* As long as nothing fails, every ticket has reached the decision engine, *)
(* or RCA where that is off, or some thread is about to tell them: no race *)
(* between deliveries of one anomaly leaves a ticket nobody works on.      *)
NoSilentTicket ==
  faults = 0 => \A i \in Ids :
    \/ <<"decision", i>> \in told
    \/ <<"rca", i>> \in told
    \/ \E t \in Threads : FanningOut(t, i)

(* With one thread handling anomalies and nobody else writing, the ticket  *)
(* shows what was delivered: how many anomalies, on which services, and    *)
(* whether one was critical, at whichever step the consumer dies.          *)
TicketReflectsDeliveries ==
  \A i \in Ids : LET row == tickets[i] IN
    /\ row.count = Cardinality(Members(i))
    /\ row.critical <=> Members(i) \cap Critical # {}
    /\ {ServiceOf[a] : a \in Members(i)} \subseteq row.affected \cup {row.service}

(* With one thread handling anomalies, a failure has one ticket: two open  *)
(* tickets inside the window are never of the same series, nor of one      *)
(* family on services next to each other.                                  *)
OneOpenTicketPerCascade ==
  \A i, j \in Ids :
    i < j /\ Reusable(i) /\ Reusable(j) =>
      LET a == tickets[j].src IN ~SameSeries(i, a) /\ ~SameCascade(i, a)

(* Every anomaly published is eventually part of a ticket.                 *)
EventuallyProcessed == \A a \in Anomalies : <>(processed[a] # 0)

(* "Update metric snapshot; keep single ticket": merging an anomaly into a *)
(* ticket does not change the ticket's status or its root cause.  Violated *)
(* when a PATCH is written between the handler's read and its write.       *)
MergeKeepsDiagnosis ==
  [][\A t \in Threads, i \in Ids :
       pc[t] = "updating" /\ pc'[t] \in {"pushing", "returning"} =>
         /\ tickets'[i].status = tickets[i].status
         /\ tickets'[i].cause = tickets[i].cause]_vars

(* "Single control-plane fan-out after a new ticket is created": once the  *)
(* payload that opened a ticket is acknowledged, its fan-out has happened. *)
(* Violated by a crash between the commit and the push: the redelivered    *)
(* payload is then a duplicate.                                            *)
AckedWasFannedOut ==
  \A i \in Ids : LET a == tickets[i].src IN
    a # NoAnomaly /\ a \notin inbox => pushes[a] = 1

-----------------------------------------------------------------------------
(* The abstract specification *)

AllSeries == Services \X Metrics

OwnSeries == [a \in Anomalies |-> <<ServiceOf[a], MetricOf[a]>>]

(* The series of the tickets that FindCascade finds.                       *)
CascadeOf ==
  [a \in Anomalies |->
     {s \in AllSeries : /\ s[1] \in Neighbours(ServiceOf[a])
                       /\ MetricFamily(s[2]) = MetricFamily(MetricOf[a])}]

(* What never changes in a row.                                            *)
Identity(row) == [series |-> <<row.service, row.metric>>, src |-> row.src]

Opened == [i \in Ids |-> Identity(tickets[i])]

Promise == INSTANCE Intake WITH
             Series <- AllSeries, Own <- OwnSeries, Cascade <- CascadeOf,
             opened <- Opened, place <- processed, announced <- pushes

(* The threads that look up, copy, write back, crash and are redelivered   *)
(* keep the promise of Intake: each anomaly is placed once, in a ticket of *)
(* its own or of its series or cascade, and announced once at most, never  *)
(* as a repetition on the ticket's own series; no step of any thread       *)
(* changes what a ticket was opened for.                                   *)
ImplementsIntake == Promise!Spec

-----------------------------------------------------------------------------
(* The inductive invariant behind OneTicketPerAnomaly, PushedAtMostOnce    *)
(* and AttributionIsLocal                                                  *)

SameIdentity(r, s) ==
  r.service = s.service /\ r.metric = s.metric /\ r.src = s.src

(* What a thread's program counter says about its locals.  A stale copy    *)
(* differs from the row it was read from, but never in its identity.       *)
LocalInv(t) ==
  /\ pc[t] \in {"series", "topology", "updating", "inserting"} =>
       cur[t] # NoAnomaly
  /\ pc[t] \in {"idle", "patching"} => cur[t] = NoAnomaly
  /\ pc[t] \in {"updating", "patching"} =>
       /\ target[t] \in Ids /\ snap[t] \in Row
       /\ SameIdentity(snap[t], tickets[target[t]])
  /\ pc[t] = "updating" => Attributed(target[t], cur[t])

ThreadInv == \A t \in Threads : LocalInv(t)

(* Who may still push for an anomaly: nobody before its delivery marker is *)
(* committed, and after that the one thread that committed it.             *)
PushInv ==
  /\ \A a \in Anomalies : pushes[a] # 0 => processed[a] # 0
  /\ \A t \in Threads : pc[t] = "pushing" /\ cur[t] # NoAnomaly =>
       processed[cur[t]] # 0 /\ pushes[cur[t]] = 0
  /\ \A t, u \in Threads :
       /\ pc[t] = "pushing" /\ pc[u] = "pushing"
       /\ cur[t] = cur[u] /\ cur[t] # NoAnomaly
       => t = u

IInv ==
  /\ TypeOK /\ ThreadInv /\ PushInv
  /\ OneTicketPerAnomaly /\ PushedAtMostOnce /\ AttributionIsLocal
=============================================================================
