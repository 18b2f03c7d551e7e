----------------------- MODULE IncidentManagerProofs ------------------------
(***************************************************************************)
(* Safety of IncidentManager for every set of anomalies, services and      *)
(* threads, every topology, every PATCH body and every number of faults.   *)
(***************************************************************************)
EXTENDS IncidentManager, FiniteSetTheorems, SequenceTheorems, TLAPS

-----------------------------------------------------------------------------
(* Rows *)

(* What the handlers write is a row, and a merge or a PATCH changes        *)
(* neither the series nor the source of a ticket.                          *)
LEMMA RowOfAnomaly ==
  ASSUME NEW a \in Anomalies
  PROVE  /\ FromAnomaly(a) \in Row
         /\ FromAnomaly(a).src = a
         /\ FromAnomaly(a).service = ServiceOf[a]
         /\ FromAnomaly(a).metric = MetricOf[a]
  BY IncidentAssumption DEF FromAnomaly, Row, Status, OpenStatus

LEMMA RowByHand ==
  ASSUME NEW s \in Services, NEW m \in Metrics
  PROVE  Manual(s, m) \in Row /\ Manual(s, m).src = NoAnomaly
  BY DEF Manual, Row, Status, OpenStatus

LEMMA RowMerged ==
  ASSUME NEW row \in Row, NEW a \in Anomalies
  PROVE  Correlated(row, a) \in Row /\ SameIdentity(Correlated(row, a), row)
<1> DEFINE root == IF ServiceOf[a] \in DependsOn[row.service] THEN ServiceOf[a]
                   ELSE IF row.root = NoService THEN row.service ELSE row.root
           all  == row.affected \cup {row.service, ServiceOf[a]}
           crit == row.critical \/ a \in Critical
<1>1. ServiceOf[a] \in Services /\ row.service \in Services
  BY IncidentAssumption DEF Row
<1>2. /\ root \in Services \cup {NoService}
      /\ all \in SUBSET Services
      /\ crit \in BOOLEAN
      /\ row.count + 1 \in Nat
  BY <1>1 DEF Row
<1>3. Correlated(row, a) = [row EXCEPT !.count = row.count + 1, !.affected = all,
                                       !.root = root, !.critical = crit]
  BY DEF Correlated
<1> HIDE DEF root, all, crit
<1> QED BY <1>2, <1>3 DEF Row, SameIdentity

LEMMA RowPatched ==
  ASSUME NEW row \in Row, NEW p \in Patches
  PROVE  Patched(row, p) \in Row /\ SameIdentity(Patched(row, p), row)
  BY IncidentAssumption DEF Patched, Row, SameIdentity

-----------------------------------------------------------------------------
(* Lookups and threads that a step leaves alone                            *)

(* Tickets are never deleted, and a write-back keeps a ticket's identity.  *)
Grown ==
  /\ tickets' \in Seq(Row) /\ Len(tickets) <= Len(tickets')
  /\ \A i \in Ids : SameIdentity(tickets'[i], tickets[i])

LEMMA AppendGrows ==
  ASSUME tickets \in Seq(Row), NEW r \in Row, tickets' = Append(tickets, r)
  PROVE  /\ Grown
         /\ Len(tickets') = Len(tickets) + 1 /\ Len(tickets) \in Nat
         /\ tickets'[Len(tickets) + 1] = r
         /\ \A i \in Ids : tickets'[i] = tickets[i]
<1>1. /\ tickets' \in Seq(Row) /\ Len(tickets') = Len(tickets) + 1
      /\ Len(tickets) \in Nat
      /\ tickets'[Len(tickets) + 1] = r
      /\ \A i \in Ids : tickets'[i] = tickets[i]
  BY AppendProperties DEF Ids
<1>2. \A i \in Ids : SameIdentity(tickets'[i], tickets[i])
  BY <1>1 DEF SameIdentity
<1>3. Len(tickets) <= Len(tickets')
  BY <1>1
<1> QED BY <1>1, <1>2, <1>3 DEF Grown

LEMMA WriteGrows ==
  ASSUME tickets \in Seq(Row), NEW r \in Row, NEW k \in Ids,
         tickets' = [tickets EXCEPT ![k] = r], SameIdentity(r, tickets[k])
  PROVE  Grown /\ Ids' = Ids
<1>1. /\ tickets' \in Seq(Row) /\ Len(tickets') = Len(tickets)
      /\ Len(tickets) \in Nat
      /\ \A i \in Ids : tickets'[i] = IF i = k THEN r ELSE tickets[i]
  BY ExceptSeq DEF Ids
<1> QED BY <1>1 DEF Grown, SameIdentity, Ids

LEMMA SameGrows ==
  ASSUME tickets \in Seq(Row), UNCHANGED tickets
  PROVE  Grown
  BY DEF Grown, SameIdentity

LEMMA AttributedStays ==
  ASSUME tickets \in Seq(Row), Grown, NEW i \in Ids, NEW a, Attributed(i, a)
  PROVE  i \in Ids' /\ Attributed(i, a)'
<1>1. i \in Ids'
  BY DEF Grown, Ids
<1>2. tickets'[i].service = tickets[i].service /\ tickets'[i].metric = tickets[i].metric
  BY DEF Grown, SameIdentity
<1>3. SameSeries(i, a) => SameSeries(i, a)'
  BY <1>2 DEF SameSeries
<1>4. SameCascade(i, a) => SameCascade(i, a)'
  BY <1>2 DEF SameCascade
<1> QED BY <1>1, <1>3, <1>4 DEF Attributed

LEMMA OthersStay ==
  ASSUME tickets \in Seq(Row), Grown, NEW u \in Threads, LocalInv(u),
         pc'[u] = pc[u], cur'[u] = cur[u], target'[u] = target[u],
         snap'[u] = snap[u]
  PROVE  LocalInv(u)'
<1>1. CASE pc[u] \in {"updating", "patching"}
  <2> PICK k : k = target[u]
    OBVIOUS
  <2>1. k \in Ids /\ snap[u] \in Row /\ SameIdentity(snap[u], tickets[k])
    BY <1>1 DEF LocalInv
  <2>2. k \in Ids' /\ SameIdentity(snap[u], tickets'[k])
    BY <2>1 DEF Grown, SameIdentity, Ids
  <2>3. pc[u] = "updating" => Attributed(k, cur[u])'
    <3> PICK a : a = cur[u]
      OBVIOUS
    <3>1. pc[u] = "updating" => Attributed(k, a)
      BY DEF LocalInv
    <3>2. pc[u] = "updating" => Attributed(k, a)'
      BY <2>1, <3>1, AttributedStays
    <3> QED BY <3>2
  <2> QED BY <1>1, <2>1, <2>2, <2>3 DEF LocalInv
<1>2. CASE pc[u] \notin {"updating", "patching"}
  BY <1>2 DEF LocalInv
<1> QED BY <1>1, <1>2

-----------------------------------------------------------------------------
(* The inductive invariant, one part at a time                             *)

LEMMA InitInv == Init => IInv
<1> SUFFICES ASSUME Init PROVE IInv
  OBVIOUS
<1> USE IncidentAssumption DEF Init
<1>1. Ids = {}
  BY DEF Ids
<1>2. TypeOK
  BY DEF TypeOK, PC
<1>3. ThreadInv /\ PushInv
  BY DEF ThreadInv, LocalInv, PushInv
<1>4. OneTicketPerAnomaly /\ PushedAtMostOnce /\ AttributionIsLocal
  BY <1>1 DEF OneTicketPerAnomaly, PushedAtMostOnce, AttributionIsLocal
<1> QED BY <1>2, <1>3, <1>4 DEF IInv

(* The steps that write tickets, and what they write.                      *)
LEMMA StepGrown ==
  ASSUME IInv, [Next]_vars
  PROVE  Grown
<1>0. tickets \in Seq(Row) /\ Len(tickets) \in Nat
  BY DEF IInv, TypeOK
<1>1. ASSUME NEW t \in Threads, UpdateForAnomaly(t) PROVE Grown /\ Ids' = Ids
  <2> PICK k, a : k = target[t] /\ a = cur[t]
    OBVIOUS
  <2>1. a \in Anomalies /\ k \in Ids /\ snap[t] \in Row
        /\ SameIdentity(snap[t], tickets[k])
    BY <1>1 DEF UpdateForAnomaly, IInv, ThreadInv, LocalInv, TypeOK
  <2>2. /\ Correlated(snap[t], a) \in Row
        /\ SameIdentity(Correlated(snap[t], a), tickets[k])
    BY <2>1, RowMerged DEF SameIdentity
  <2> QED BY <1>0, <1>1, <2>1, <2>2, WriteGrows DEF UpdateForAnomaly
<1>2. ASSUME NEW t \in Threads, InsertForAnomaly(t) PROVE Grown
  <2>1. cur[t] \in Anomalies
    BY <1>2 DEF InsertForAnomaly, IInv, ThreadInv, LocalInv, TypeOK
  <2> QED BY <1>0, <1>2, <2>1, RowOfAnomaly, AppendGrows DEF InsertForAnomaly
<1>3. ASSUME NEW t \in Threads, NEW s \in Services, NEW m \in Metrics,
             Create(t, s, m)
      PROVE  Grown
  BY <1>0, <1>3, RowByHand, AppendGrows DEF Create
<1>4. ASSUME NEW t \in Threads, PatchWrite(t) PROVE Grown /\ Ids' = Ids
  <2> PICK k : k = target[t]
    OBVIOUS
  <2>1. k \in Ids /\ snap[t] \in Row /\ SameIdentity(snap[t], tickets[k])
    BY <1>4 DEF PatchWrite, IInv, ThreadInv, LocalInv
  <2> QED BY <1>0, <1>4, <2>1, WriteGrows DEF PatchWrite
<1>5. CASE UNCHANGED tickets
  BY <1>0, <1>5, SameGrows
<1> QED
  BY <1>1, <1>2, <1>3, <1>4, <1>5
  DEF Next, HandlerStep, vars, world, thread, Receive, FindSeries, FindCascade,
      AlreadyProcessed, Push, PushRca, Return, Raise, PatchRead, WindowPasses,
      Crash

LEMMA StepType ==
  ASSUME IInv, [Next]_vars
  PROVE  TypeOK'
<1>1. TypeOK /\ tickets' \in Seq(Row) /\ Len(tickets) \in Nat
  BY StepGrown DEF IInv, Grown, TypeOK
<1>2. \A i \in Ids : tickets[i] \in Row /\ i \in Nat
  BY <1>1 DEF TypeOK, Ids
<1> USE <1>1 DEF TypeOK, PC
<1>3. ASSUME NEW t \in Threads, NEW a \in Anomalies, Receive(t, a) PROVE TypeOK'
  BY <1>3 DEF Receive, Goto, world
<1>4. ASSUME NEW t \in Threads, FindSeries(t) PROVE TypeOK'
  BY <1>2, <1>4 DEF FindSeries, Reuse, Goto, world
<1>5. ASSUME NEW t \in Threads, FindCascade(t) PROVE TypeOK'
  BY <1>2, <1>5 DEF FindCascade, Reuse, Goto, world
<1>6. ASSUME NEW t \in Threads, UpdateForAnomaly(t) PROVE TypeOK'
  BY <1>6 DEF UpdateForAnomaly, Goto, world
<1>7. ASSUME NEW t \in Threads, InsertForAnomaly(t) PROVE TypeOK'
  <2> PICK n \in Nat : n = Len(tickets) + 1
    OBVIOUS
  <2>1. /\ processed' = [processed EXCEPT ![cur[t]] = n]
        /\ target' = [target EXCEPT ![t] = n]
        /\ pc' = [pc EXCEPT ![t] = "pushing"]
        /\ UNCHANGED <<cur, snap, kind>> /\ UNCHANGED world
    BY <1>7 DEF InsertForAnomaly, Goto
  <2>2. processed' \in [Anomalies -> Nat] /\ target' \in [Threads -> Nat]
    BY <2>1
  <2> QED BY <2>1, <2>2 DEF world
<1>8. ASSUME NEW t \in Threads, AlreadyProcessed(t) PROVE TypeOK'
  <2>1. CASE Goto(t, "returning") /\ UNCHANGED <<cur, target, snap, kind>>
    <3>1. /\ pc' = [pc EXCEPT ![t] = "returning"]
          /\ UNCHANGED <<cur, target, snap, kind, processed>>
          /\ UNCHANGED world
      BY <1>8, <2>1 DEF AlreadyProcessed, Goto
    <3> QED BY <3>1 DEF world
  <2>2. CASE Done(t)
    BY <1>8, <2>2 DEF AlreadyProcessed, Done, Goto, world
  <2> QED BY <1>8, <2>1, <2>2 DEF AlreadyProcessed
<1>9. ASSUME NEW t \in Threads, Push(t) PROVE TypeOK'
  BY <1>9 DEF Push, Fault, Goto
<1>10. ASSUME NEW t \in Threads, PushRca(t) PROVE TypeOK'
  BY <1>10 DEF PushRca, Fault, Goto
<1>11. ASSUME NEW t \in Threads, Return(t) PROVE TypeOK'
  BY <1>11 DEF Return, Done, Goto
<1>12. ASSUME NEW t \in Threads, Raise(t) PROVE TypeOK'
  BY <1>12 DEF Raise, Fault, Done, Goto
<1>13. ASSUME NEW t \in Threads, NEW s \in Services, NEW m \in Metrics,
              Create(t, s, m)
       PROVE  TypeOK'
  BY <1>13 DEF Create, Goto
<1>14. ASSUME NEW t \in Threads, NEW i \in Ids, NEW p \in Patches,
              PatchRead(t, i, p)
       PROVE  TypeOK'
  <2>1. Patched(tickets[i], p) \in Row /\ i \in Nat
    BY <1>2, RowPatched
  <2> QED BY <1>14, <2>1 DEF PatchRead, Goto, world
<1>15. ASSUME NEW t \in Threads, PatchWrite(t) PROVE TypeOK'
  BY <1>15 DEF PatchWrite, Done, Goto, world
<1>16. CASE WindowPasses
  BY <1>16 DEF WindowPasses, thread
<1>17. CASE Crash
  BY <1>17 DEF Crash, Fault
<1>18. CASE UNCHANGED vars
  BY <1>18 DEF vars
<1> QED
  BY <1>3, <1>4, <1>5, <1>6, <1>7, <1>8, <1>9, <1>10, <1>11, <1>12, <1>13,
     <1>14, <1>15, <1>16, <1>17, <1>18
  DEF Next, HandlerStep

-----------------------------------------------------------------------------
(* What each thread knows                                                  *)

(* An acting thread changes only its own locals, and leaves LocalInv true  *)
(* of them.                                                                *)
LEMMA ActingThread ==
  ASSUME IInv, Grown, NEW t \in Threads, LocalInv(t)',
         \A u \in Threads \ {t} :
            /\ pc'[u] = pc[u] /\ cur'[u] = cur[u]
            /\ target'[u] = target[u] /\ snap'[u] = snap[u]
  PROVE  ThreadInv'
<1>1. \A u \in Threads \ {t} : LocalInv(u)'
  BY OthersStay DEF IInv, TypeOK, ThreadInv
<1> QED BY <1>1 DEF ThreadInv

(* A lookup that finds a ticket leaves the thread with a faithful copy.    *)
LEMMA ReuseKnows ==
  ASSUME TypeOK, NEW t \in Threads, NEW i \in Ids, NEW k, Reuse(t, i, k),
         Attributed(i, cur[t]), cur[t] # NoAnomaly, UNCHANGED <<tickets, cur>>
  PROVE  LocalInv(t)'
<1>1. /\ pc'[t] = "updating" /\ target'[t] = i /\ snap'[t] = tickets[i]
      /\ cur'[t] = cur[t]
  BY DEF Reuse, Goto, TypeOK
<1>2. tickets[i] \in Row /\ SameIdentity(tickets[i], tickets[i])
  BY DEF TypeOK, Ids, SameIdentity
<1>3. Attributed(i, cur[t])'
  BY <1>1 DEF Attributed, SameSeries, SameCascade, Ids
<1> QED BY <1>1, <1>2, <1>3 DEF LocalInv, Ids

LEMMA StepThreads ==
  ASSUME IInv, [Next]_vars
  PROVE  ThreadInv'
<1>1. TypeOK /\ ThreadInv /\ Grown /\ tickets \in Seq(Row)
  BY StepGrown DEF IInv, TypeOK
<1> USE <1>1
<1>2. ASSUME NEW t \in Threads, NEW a \in Anomalies, Receive(t, a)
      PROVE  ThreadInv'
  <2>1. /\ pc'[t] \in {"returning", "series"} /\ cur'[t] # NoAnomaly
        /\ pc' = [pc EXCEPT ![t] = pc'[t]] /\ cur' = [cur EXCEPT ![t] = a]
        /\ UNCHANGED <<target, snap>>
    BY <1>2, IncidentAssumption DEF Receive, Goto, TypeOK
  <2>2. LocalInv(t)'
    BY <2>1 DEF LocalInv
  <2> QED BY <2>1, <2>2, ActingThread DEF TypeOK
<1>3. ASSUME NEW t \in Threads, FindSeries(t) PROVE ThreadInv'
  <2>1. CASE \E i \in Ids : SameSeries(i, cur[t]) /\ Reuse(t, i, "same_series")
    <3>1. PICK i \in Ids : SameSeries(i, cur[t]) /\ Reuse(t, i, "same_series")
      BY <2>1
    <3>2. LocalInv(t)'
      BY <1>3, <3>1, ReuseKnows
      DEF FindSeries, Attributed, ThreadInv, LocalInv
    <3> QED BY <1>3, <3>1, <3>2, ActingThread DEF FindSeries, Reuse, Goto, TypeOK
  <2>2. CASE pc' = [pc EXCEPT ![t] = IF EnableTopology THEN "topology"
                                     ELSE "inserting"]
             /\ UNCHANGED <<target, snap, kind>>
    <3>1. /\ pc'[t] \in {"topology", "inserting"} /\ UNCHANGED cur
          /\ cur[t] # NoAnomaly
      BY <1>3, <2>2 DEF FindSeries, TypeOK, ThreadInv, LocalInv
    <3>2. LocalInv(t)'
      BY <3>1 DEF LocalInv
    <3> QED BY <2>2, <3>1, <3>2, ActingThread DEF TypeOK
  <2> QED BY <1>3, <2>1, <2>2 DEF FindSeries, Newest, Goto
<1>4. ASSUME NEW t \in Threads, FindCascade(t) PROVE ThreadInv'
  <2>1. CASE \E i \in Ids : SameCascade(i, cur[t]) /\ Reuse(t, i, "topology_cascade")
    <3>1. PICK i \in Ids :
            SameCascade(i, cur[t]) /\ Reuse(t, i, "topology_cascade")
      BY <2>1
    <3>2. LocalInv(t)'
      BY <1>4, <3>1, ReuseKnows
      DEF FindCascade, Attributed, ThreadInv, LocalInv
    <3> QED BY <1>4, <3>1, <3>2, ActingThread DEF FindCascade, Reuse, Goto, TypeOK
  <2>2. CASE Goto(t, "inserting") /\ UNCHANGED <<target, snap, kind>>
    <3>1. /\ pc' = [pc EXCEPT ![t] = "inserting"] /\ UNCHANGED cur
          /\ cur[t] # NoAnomaly /\ pc'[t] = "inserting"
      BY <1>4, <2>2 DEF FindCascade, Goto, TypeOK, ThreadInv, LocalInv
    <3>2. LocalInv(t)'
      BY <3>1 DEF LocalInv
    <3> QED BY <2>2, <3>1, <3>2, ActingThread DEF TypeOK
  <2> QED BY <1>4, <2>1, <2>2 DEF FindCascade, Newest
(* The remaining handler steps leave nothing to know about the locals,     *)
(* except that an idle thread handles no anomaly.                          *)
<1>5. ASSUME NEW t \in Threads, Done(t) PROVE ThreadInv'
  <2>1. LocalInv(t)'
    BY <1>5 DEF Done, Goto, TypeOK, LocalInv
  <2> QED BY <1>5, <2>1, ActingThread DEF Done, Goto, TypeOK
<1>6. ASSUME NEW t \in Threads, NEW l \in {"pushing", "rca", "returning"},
             Goto(t, l), UNCHANGED <<cur, snap>>,
             \A u \in Threads \ {t} : target'[u] = target[u]
      PROVE  ThreadInv'
  <2>1. LocalInv(t)'
    BY <1>6 DEF Goto, TypeOK, LocalInv
  <2> QED BY <1>6, <2>1, ActingThread DEF Goto, TypeOK
<1>7. ASSUME NEW t \in Threads, NEW i \in Ids, NEW p \in Patches,
             PatchRead(t, i, p)
      PROVE  ThreadInv'
  <2>1. tickets[i] \in Row
    BY DEF Ids
  <2>2. /\ pc' = [pc EXCEPT ![t] = "patching"] /\ cur[t] = NoAnomaly
        /\ target' = [target EXCEPT ![t] = i]
        /\ snap' = [snap EXCEPT ![t] = Patched(tickets[i], p)]
        /\ UNCHANGED <<tickets, cur>>
    BY <1>7 DEF PatchRead, Goto, ThreadInv, LocalInv
  <2>3. /\ pc'[t] = "patching" /\ target'[t] = i /\ cur'[t] = NoAnomaly
        /\ snap'[t] = Patched(tickets[i], p) /\ Ids' = Ids
    BY <2>2 DEF TypeOK, Ids
  <2>4. LocalInv(t)'
    BY <2>1, <2>2, <2>3, RowPatched DEF LocalInv
  <2> QED BY <2>2, <2>4, ActingThread DEF TypeOK
<1>8. CASE Crash
  BY <1>8 DEF Crash, ThreadInv, LocalInv
<1>9. CASE UNCHANGED <<pc, cur, target, snap>>
  BY <1>9, OthersStay DEF ThreadInv
<1>10. ASSUME NEW t \in Threads, UpdateForAnomaly(t) PROVE ThreadInv'
  BY <1>6, <1>10 DEF UpdateForAnomaly, Goto
<1>11. ASSUME NEW t \in Threads, InsertForAnomaly(t) PROVE ThreadInv'
  <2>1. \A u \in Threads \ {t} : target'[u] = target[u]
    BY <1>11 DEF InsertForAnomaly, TypeOK
  <2> QED BY <1>6, <1>11, <2>1 DEF InsertForAnomaly
<1>12. ASSUME NEW t \in Threads, NEW s \in Services, NEW m \in Metrics,
              Create(t, s, m)
       PROVE  ThreadInv'
  <2>1. \A u \in Threads \ {t} : target'[u] = target[u]
    BY <1>12 DEF Create, TypeOK
  <2> QED BY <1>6, <1>12, <2>1 DEF Create
<1> QED
  BY <1>2, <1>3, <1>4, <1>5, <1>6, <1>7, <1>8, <1>9, <1>10, <1>11, <1>12
  DEF Next, HandlerStep, AlreadyProcessed, Push, PushRca, Return, Raise,
      PatchWrite, WindowPasses, thread, vars

-----------------------------------------------------------------------------
(* Delivery markers and pushes                                             *)

(* Every other step than these five leaves tickets, markers and the count  *)
(* of pushes alone, and brings no thread to the point of pushing.          *)
Quiet ==
  /\ UNCHANGED <<tickets, processed, pushes>>
  /\ \A t \in Threads :
       pc'[t] = "pushing" => pc[t] = "pushing" /\ cur'[t] = cur[t]

LEMMA StepKinds ==
  ASSUME IInv, [Next]_vars
  PROVE  \/ \E t \in Threads :
              \/ UpdateForAnomaly(t) \/ InsertForAnomaly(t)
              \/ \E s \in Services, m \in Metrics : Create(t, s, m)
              \/ PatchWrite(t) \/ Push(t)
         \/ Quiet
<1>1. TypeOK
  BY DEF IInv
<1> USE <1>1 DEF TypeOK
<1>2. ASSUME NEW t \in Threads, Done(t), UNCHANGED <<tickets, processed, pushes>>
      PROVE  Quiet
  BY <1>2 DEF Done, Goto, Quiet
<1>3. ASSUME NEW t \in Threads, NEW l \in PC \ {"pushing"}, Goto(t, l),
             \A u \in Threads \ {t} : cur'[u] = cur[u],
             UNCHANGED <<tickets, processed, pushes>>
      PROVE  Quiet
  BY <1>3 DEF Goto, Quiet
<1>4. ASSUME NEW t \in Threads, NEW a \in Anomalies, Receive(t, a) PROVE Quiet
  BY <1>3, <1>4 DEF Receive, PC, world
<1>5. ASSUME NEW t \in Threads, FindSeries(t) \/ FindCascade(t) PROVE Quiet
  BY <1>3, <1>5 DEF FindSeries, FindCascade, Reuse, PC, world
<1>6. ASSUME NEW t \in Threads, AlreadyProcessed(t) \/ Return(t) \/ Raise(t)
      PROVE  Quiet
  BY <1>2, <1>3, <1>6 DEF AlreadyProcessed, Return, Raise, PC, world
<1>7. ASSUME NEW t \in Threads, PushRca(t) PROVE Quiet
  BY <1>3, <1>7 DEF PushRca, PC
<1>8. ASSUME NEW t \in Threads, NEW i \in Ids, NEW p \in Patches,
             PatchRead(t, i, p)
      PROVE  Quiet
  BY <1>3, <1>8 DEF PatchRead, PC, world
<1>9. CASE WindowPasses \/ Crash \/ UNCHANGED vars
  BY <1>9 DEF WindowPasses, Crash, vars, thread, Quiet
<1> QED
  BY <1>4, <1>5, <1>6, <1>7, <1>8, <1>9 DEF Next, HandlerStep

(* A write-back or a creation by hand moves no marker.                     *)
LEMMA StepTickets ==
  ASSUME IInv, [Next]_vars
  PROVE  OneTicketPerAnomaly'
<1>1. /\ TypeOK /\ ThreadInv /\ OneTicketPerAnomaly /\ Grown
      /\ tickets \in Seq(Row) /\ Len(tickets) \in Nat
  BY StepGrown DEF IInv, TypeOK
<1>2. ASSUME NEW t \in Threads, UpdateForAnomaly(t) PROVE OneTicketPerAnomaly'
  <2> PICK k, a : k = target[t] /\ a = cur[t]
    OBVIOUS
  <2>1. /\ a \in Anomalies /\ processed[a] = 0 /\ k \in Ids
        /\ processed' = [processed EXCEPT ![a] = k]
    BY <1>1, <1>2 DEF UpdateForAnomaly, ThreadInv, LocalInv, TypeOK
  <2>2. Len(tickets') = Len(tickets)
    BY <1>1, <1>2 DEF UpdateForAnomaly
  <2>3. \A i \in Ids : tickets[i].src # a
    BY <1>1, <2>1, IncidentAssumption DEF OneTicketPerAnomaly, Ids
  <2>4. ASSUME NEW i \in Ids', tickets'[i].src # NoAnomaly
        PROVE  processed'[tickets'[i].src] = i
    <3>1. i \in Ids /\ tickets'[i].src = tickets[i].src
      BY <1>1, <2>2 DEF Ids, Grown, SameIdentity
    <3>2. tickets[i] \in Row
      BY <1>1, <3>1 DEF Ids
    <3>3. tickets[i].src \in Anomalies /\ processed[tickets[i].src] = i
      BY <1>1, <2>4, <3>1, <3>2 DEF OneTicketPerAnomaly, Row
    <3> QED BY <1>1, <2>1, <2>3, <3>1, <3>3 DEF TypeOK
  <2> QED BY <2>4 DEF OneTicketPerAnomaly
<1>3. ASSUME NEW t \in Threads, InsertForAnomaly(t) PROVE OneTicketPerAnomaly'
  <2> PICK n, a : n = Len(tickets) + 1 /\ a = cur[t]
    OBVIOUS
  <2>1. /\ a \in Anomalies /\ processed[a] = 0
        /\ processed' = [processed EXCEPT ![a] = n]
    BY <1>1, <1>3 DEF InsertForAnomaly, ThreadInv, LocalInv, TypeOK
  <2>2. /\ Len(tickets') = n /\ tickets'[n].src = a
        /\ \A i \in Ids : tickets'[i] = tickets[i]
    BY <1>1, <1>3, <2>1, RowOfAnomaly, AppendGrows DEF InsertForAnomaly
  <2>3. \A i \in Ids : tickets[i].src # a
    BY <1>1, <2>1, IncidentAssumption DEF OneTicketPerAnomaly, Ids
  <2>4. \A i \in Ids' : i = n \/ i \in Ids
    BY <1>1, <2>2 DEF Ids
  <2>5. ASSUME NEW i \in Ids', tickets'[i].src # NoAnomaly
        PROVE  processed'[tickets'[i].src] = i
    <3>1. CASE i = n
      BY <2>1, <2>2, <3>1, <1>1 DEF TypeOK
    <3>2. CASE i \in Ids
      <4>1. tickets'[i].src = tickets[i].src /\ tickets[i].src # a
        BY <2>2, <2>3, <3>2
      <4>2. tickets[i] \in Row
        BY <1>1, <3>2 DEF Ids
      <4>3. tickets[i].src \in Anomalies /\ processed[tickets[i].src] = i
        BY <1>1, <2>5, <3>2, <4>1, <4>2 DEF OneTicketPerAnomaly, Row
      <4> QED BY <4>1, <4>3, <2>1, <1>1 DEF TypeOK
    <3> QED BY <2>4, <3>1, <3>2
  <2> QED BY <2>5 DEF OneTicketPerAnomaly
<1>4. ASSUME NEW t \in Threads, NEW s \in Services, NEW m \in Metrics,
             Create(t, s, m)
      PROVE  OneTicketPerAnomaly'
  <2> PICK n : n = Len(tickets) + 1
    OBVIOUS
  <2>1. /\ Len(tickets') = n /\ tickets'[n].src = NoAnomaly
        /\ \A i \in Ids : tickets'[i] = tickets[i]
        /\ UNCHANGED processed
    BY <1>1, <1>4, RowByHand, AppendGrows DEF Create
  <2>2. \A i \in Ids' : i = n \/ i \in Ids
    BY <1>1, <2>1 DEF Ids
  <2> QED BY <1>1, <2>1, <2>2 DEF OneTicketPerAnomaly
<1>5. ASSUME NEW t \in Threads, PatchWrite(t) PROVE OneTicketPerAnomaly'
  <2>1. Len(tickets') = Len(tickets) /\ UNCHANGED processed
    BY <1>1, <1>5 DEF PatchWrite
  <2> QED BY <1>1, <2>1 DEF OneTicketPerAnomaly, Grown, SameIdentity, Ids
<1>6. CASE UNCHANGED <<tickets, processed>>
  BY <1>1, <1>6 DEF OneTicketPerAnomaly, Ids
<1> QED BY <1>2, <1>3, <1>4, <1>5, <1>6, StepKinds DEF Quiet, Push

LEMMA StepAttribution ==
  ASSUME IInv, [Next]_vars
  PROVE  AttributionIsLocal'
<1>1. /\ TypeOK /\ ThreadInv /\ AttributionIsLocal /\ Grown
      /\ tickets \in Seq(Row) /\ Len(tickets) \in Nat
  BY StepGrown DEF IInv, TypeOK
<1>2. ASSUME NEW a \in Anomalies, processed[a] # 0, processed'[a] = processed[a]
      PROVE  Attributed(processed[a], a)'
  <2> PICK k : k = processed[a]
    OBVIOUS
  <2>1. k \in Ids /\ Attributed(k, a)
    BY <1>1, <1>2 DEF AttributionIsLocal, Attributed
  <2>2. Attributed(k, a)'
    BY <1>1, <2>1, AttributedStays
  <2> QED BY <1>2, <2>2
<1>3. ASSUME NEW t \in Threads, UpdateForAnomaly(t) PROVE AttributionIsLocal'
  <2> PICK k, b : k = target[t] /\ b = cur[t]
    OBVIOUS
  <2>1. /\ b \in Anomalies /\ k \in Ids /\ Attributed(k, b)
        /\ processed' = [processed EXCEPT ![b] = k]
    BY <1>1, <1>3 DEF UpdateForAnomaly, ThreadInv, LocalInv, TypeOK
  <2>2. Attributed(k, b)'
    BY <1>1, <2>1, AttributedStays
  <2>3. \A a \in Anomalies : processed'[a] = IF a = b THEN k ELSE processed[a]
    BY <1>1, <2>1 DEF TypeOK
  <2> QED BY <1>2, <2>2, <2>3 DEF AttributionIsLocal
<1>4. ASSUME NEW t \in Threads, InsertForAnomaly(t) PROVE AttributionIsLocal'
  <2> PICK n, b : n = Len(tickets) + 1 /\ b = cur[t]
    OBVIOUS
  <2>1. /\ b \in Anomalies
        /\ processed' = [processed EXCEPT ![b] = n]
    BY <1>1, <1>4 DEF InsertForAnomaly, ThreadInv, LocalInv, TypeOK
  <2>2. /\ Len(tickets') = n
        /\ tickets'[n].service = ServiceOf[b] /\ tickets'[n].metric = MetricOf[b]
    BY <1>1, <1>4, <2>1, RowOfAnomaly, AppendGrows DEF InsertForAnomaly
  <2>3. Attributed(n, b)'
    BY <1>1, <2>2 DEF Attributed, SameSeries, Ids
  <2>4. \A a \in Anomalies : processed'[a] = IF a = b THEN n ELSE processed[a]
    BY <1>1, <2>1 DEF TypeOK
  <2> QED BY <1>2, <2>3, <2>4 DEF AttributionIsLocal
<1>5. CASE UNCHANGED processed
  BY <1>2, <1>5 DEF AttributionIsLocal
<1> QED
  BY <1>3, <1>4, <1>5, StepKinds DEF Quiet, Create, PatchWrite, Push

(* The thread that commits an anomaly's marker is the only one to push it. *)
LEMMA StepPush ==
  ASSUME IInv, [Next]_vars
  PROVE  PushInv' /\ PushedAtMostOnce'
<1>1. TypeOK /\ ThreadInv /\ PushInv /\ PushedAtMostOnce
  BY DEF IInv
<1>2. ASSUME NEW t \in Threads, NEW n \in Nat \ {0}, NEW a \in Anomalies,
             processed[a] = 0, a = cur[t], UNCHANGED <<cur, pushes>>,
             processed' = [processed EXCEPT ![a] = n],
             \A u \in Threads \ {t} : pc'[u] = pc[u]
      PROVE  PushInv' /\ PushedAtMostOnce'
  <2>1. pushes[a] = 0
    BY <1>1, <1>2 DEF PushInv, TypeOK
  <2>2. \A u \in Threads : pc[u] = "pushing" => cur[u] # a
    BY <1>1, <1>2, IncidentAssumption DEF PushInv
  <2>3. \A b \in Anomalies : processed'[b] = IF b = a THEN n ELSE processed[b]
    BY <1>1, <1>2 DEF TypeOK
  <2>4. \A u \in Threads : cur[u] # NoAnomaly => cur[u] \in Anomalies
    BY <1>1 DEF TypeOK
  <2>5. \A b \in Anomalies : pushes'[b] # 0 => processed'[b] # 0
    BY <1>1, <1>2, <2>3 DEF PushInv
  <2>6. ASSUME NEW u \in Threads, pc'[u] = "pushing", cur'[u] # NoAnomaly
        PROVE  processed'[cur'[u]] # 0 /\ pushes'[cur'[u]] = 0
    BY <1>1, <1>2, <2>1, <2>3, <2>4, <2>6 DEF PushInv
  <2>7. ASSUME NEW u \in Threads, NEW v \in Threads,
               pc'[u] = "pushing", pc'[v] = "pushing",
               cur'[u] = cur'[v], cur'[u] # NoAnomaly
        PROVE  u = v
    BY <1>1, <1>2, <2>2, <2>7 DEF PushInv
  <2> QED BY <1>1, <1>2, <2>5, <2>6, <2>7 DEF PushInv, PushedAtMostOnce
<1>3. ASSUME NEW t \in Threads, UpdateForAnomaly(t)
      PROVE  PushInv' /\ PushedAtMostOnce'
  <2> PICK k, a : k = target[t] /\ a = cur[t]
    OBVIOUS
  <2>1. /\ a \in Anomalies /\ processed[a] = 0 /\ k \in Nat \ {0}
        /\ processed' = [processed EXCEPT ![a] = k]
        /\ UNCHANGED <<cur, pushes>>
        /\ \A u \in Threads \ {t} : pc'[u] = pc[u]
    BY <1>1, <1>3
    DEF UpdateForAnomaly, Goto, ThreadInv, LocalInv, TypeOK, Ids, world
  <2> QED BY <1>2, <2>1
<1>4. ASSUME NEW t \in Threads, InsertForAnomaly(t)
      PROVE  PushInv' /\ PushedAtMostOnce'
  <2> PICK n, a : n = Len(tickets) + 1 /\ a = cur[t]
    OBVIOUS
  <2>1. Len(tickets) \in Nat
    BY <1>1 DEF TypeOK
  <2>2. /\ a \in Anomalies /\ processed[a] = 0 /\ n \in Nat \ {0}
        /\ processed' = [processed EXCEPT ![a] = n]
        /\ UNCHANGED <<cur, pushes>>
        /\ \A u \in Threads \ {t} : pc'[u] = pc[u]
    BY <1>1, <1>4, <2>1
    DEF InsertForAnomaly, Goto, ThreadInv, LocalInv, TypeOK, world
  <2> QED BY <1>2, <2>2
<1>5. ASSUME NEW t \in Threads,
             \/ \E s \in Services, m \in Metrics : Create(t, s, m)
             \/ PatchWrite(t)
      PROVE  PushInv' /\ PushedAtMostOnce'
  <2>1. /\ UNCHANGED <<processed, pushes>>
        /\ \A u \in Threads \ {t} : pc'[u] = pc[u] /\ cur'[u] = cur[u]
        /\ cur'[t] = NoAnomaly
    BY <1>1, <1>5
    DEF Create, PatchWrite, Done, Goto, ThreadInv, LocalInv, TypeOK, world
  <2> QED BY <1>1, <2>1 DEF PushInv, PushedAtMostOnce
<1>6. ASSUME NEW t \in Threads, Push(t)
      PROVE  PushInv' /\ PushedAtMostOnce'
  <2> PICK a : a = cur[t]
    OBVIOUS
  <2>1. /\ pc[t] = "pushing" /\ pc'[t] # "pushing"
        /\ UNCHANGED <<processed, cur>>
        /\ \A u \in Threads \ {t} : pc'[u] = pc[u]
        /\ \A b \in Anomalies :
             pushes'[b] = IF b = a THEN pushes[b] + 1 ELSE pushes[b]
    BY <1>1, <1>6 DEF Push, Goto, TypeOK
  <2>2. a \in Anomalies => pushes[a] = 0 /\ processed[a] # 0
    BY <1>1, <2>1, IncidentAssumption DEF PushInv
  <2>3. \A u \in Threads : pc'[u] = "pushing" /\ cur[u] # NoAnomaly =>
          cur[u] # a /\ cur[u] \in Anomalies
    <3>1. ASSUME NEW u \in Threads, pc'[u] = "pushing", cur[u] # NoAnomaly
          PROVE  cur[u] # a
      BY <1>1, <2>1, <3>1 DEF PushInv
    <3> QED BY <1>1, <3>1 DEF TypeOK
  <2>4. PushedAtMostOnce'
    <3>1. ASSUME NEW b \in Anomalies PROVE pushes'[b] <= 1
      <4>1. CASE b = a
        BY <2>1, <2>2, <4>1
      <4>2. CASE b # a
        BY <1>1, <2>1, <4>2 DEF PushedAtMostOnce
      <4> QED BY <4>1, <4>2
    <3> QED BY <3>1 DEF PushedAtMostOnce
  <2>5. ASSUME NEW b \in Anomalies, pushes'[b] # 0 PROVE processed'[b] # 0
    BY <1>1, <2>1, <2>2, <2>5 DEF PushInv
  <2>6. ASSUME NEW u \in Threads, pc'[u] = "pushing", cur'[u] # NoAnomaly
        PROVE  processed'[cur'[u]] # 0 /\ pushes'[cur'[u]] = 0
    BY <1>1, <2>1, <2>3, <2>6 DEF PushInv
  <2>7. ASSUME NEW u \in Threads, NEW v \in Threads,
               pc'[u] = "pushing", pc'[v] = "pushing",
               cur'[u] = cur'[v], cur'[u] # NoAnomaly
        PROVE  u = v
    BY <1>1, <2>1, <2>7 DEF PushInv
  <2> QED BY <2>4, <2>5, <2>6, <2>7 DEF PushInv
<1>7. CASE Quiet
  BY <1>1, <1>7 DEF Quiet, PushInv, PushedAtMostOnce
<1> QED BY <1>3, <1>4, <1>5, <1>6, <1>7, StepKinds

-----------------------------------------------------------------------------

(* The invariant holds of every behaviour.                                 *)
THEOREM Invariance == Spec => []IInv
<1>1. IInv /\ [Next]_vars => IInv'
  BY StepType, StepThreads, StepTickets, StepAttribution, StepPush DEF IInv
<1> QED BY InitInv, <1>1, PTL DEF Spec

(* The state of the incident manager keeps its type.                       *)
THEOREM TypeCorrect == Spec => []TypeOK
<1>1. IInv => TypeOK
  BY DEF IInv
<1> QED BY Invariance, <1>1, PTL

(* However the queue and the webhook redeliver, race and crash, an anomaly *)
(* opens at most one ticket, the one its delivery marker names.            *)
THEOREM NoDuplicateTicket == Spec => []OneTicketPerAnomaly
<1>1. IInv => OneTicketPerAnomaly
  BY DEF IInv
<1> QED BY Invariance, <1>1, PTL

(* No delivery is fanned out to the control plane twice.                   *)
THEOREM NoDuplicatePush == Spec => []PushedAtMostOnce
<1>1. IInv => PushedAtMostOnce
  BY DEF IInv
<1> QED BY Invariance, <1>1, PTL

(* An anomaly is attributed to its own series or its own cascade, although *)
(* the ticket is looked up in one transaction and written in another.      *)
THEOREM LocalAttribution == Spec => []AttributionIsLocal
<1>1. IInv => AttributionIsLocal
  BY DEF IInv
<1> QED BY Invariance, <1>1, PTL

-----------------------------------------------------------------------------
(* Fan-out                                                                 *)

Told(i) == <<"decision", i>> \in told \/ <<"rca", i>> \in told

(* What has been told stays told, and a fault is not forgotten.            *)
LEMMA ToldGrows ==
  ASSUME IInv, [Next]_vars
  PROVE  told \subseteq told' /\ (faults' = 0 => faults = 0)
<1>1. faults \in Nat
  BY DEF IInv, TypeOK
<1> QED
  BY <1>1
  DEF Next, HandlerStep, vars, world, thread, Receive, FindSeries, FindCascade,
      UpdateForAnomaly, InsertForAnomaly, AlreadyProcessed, Push, PushRca,
      Return, Raise, Create, PatchRead, PatchWrite, WindowPasses, Crash, Fault

(* A thread that is fanning a ticket out goes on until somebody was told.  *)
LEMMA FanoutGoesOn ==
  ASSUME IInv, [Next]_vars, faults' = 0, DecisionEnabled \/ RcaEnabled,
         NEW u \in Threads, NEW i, FanningOut(u, i)
  PROVE  FanningOut(u, i)' \/ Told(i)'
<1>1. TypeOK /\ faults \in Nat /\ pc[u] \in {"pushing", "rca"} /\ target[u] = i
  BY DEF IInv, TypeOK, FanningOut
<1>2. ~Fault
  BY <1>1 DEF Fault
<1>3. ASSUME NEW t \in Threads, t # u,
             pc' = [pc EXCEPT ![t] = pc'[t]],
             target' = [target EXCEPT ![t] = target'[t]]
      PROVE  FanningOut(u, i)'
  BY <1>1, <1>3 DEF TypeOK, FanningOut
<1>4. ASSUME NEW t \in Threads, Push(t) PROVE FanningOut(u, i)' \/ Told(i)'
  <2>1. CASE t = u
    <3>1. CASE DecisionEnabled
      BY <1>1, <1>2, <1>4, <2>1, <3>1 DEF Push, Told
    <3>2. CASE ~DecisionEnabled
      <4>1. WantDirectRca
        BY <3>2 DEF WantDirectRca
      <4> QED BY <1>1, <1>4, <2>1, <4>1 DEF Push, Goto, TypeOK, FanningOut
    <3> QED BY <3>1, <3>2
  <2>2. CASE t # u
    BY <1>1, <1>4, <2>2 DEF Push, Goto, TypeOK, FanningOut
  <2> QED BY <2>1, <2>2
<1>5. ASSUME NEW t \in Threads, PushRca(t) PROVE FanningOut(u, i)' \/ Told(i)'
  <2>1. CASE t = u
    BY <1>1, <1>2, <1>5, <2>1 DEF PushRca, Told
  <2>2. CASE t # u
    BY <1>1, <1>5, <2>2 DEF PushRca, Goto, TypeOK, FanningOut
  <2> QED BY <2>1, <2>2
<1>6. ASSUME NEW t \in Threads, Return(t) \/ AlreadyProcessed(t) \/ PatchWrite(t)
      PROVE  FanningOut(u, i)'
  BY <1>1, <1>6
  DEF Return, AlreadyProcessed, PatchWrite, Done, Goto, TypeOK, FanningOut
<1>7. ASSUME NEW t \in Threads, FindSeries(t) \/ FindCascade(t)
      PROVE  FanningOut(u, i)'
  BY <1>1, <1>7 DEF FindSeries, FindCascade, Reuse, Goto, TypeOK, FanningOut
<1>8. ASSUME NEW t \in Threads, UpdateForAnomaly(t) \/ InsertForAnomaly(t)
      PROVE  FanningOut(u, i)'
  BY <1>1, <1>8
  DEF UpdateForAnomaly, InsertForAnomaly, Goto, TypeOK, FanningOut
<1>9. ASSUME NEW t \in Threads,
             \/ \E a \in Anomalies : Receive(t, a)
             \/ \E s \in Services, m \in Metrics : Create(t, s, m)
             \/ \E j \in Ids, p \in Patches : PatchRead(t, j, p)
      PROVE  FanningOut(u, i)'
  BY <1>1, <1>9 DEF Receive, Create, PatchRead, Goto, TypeOK, FanningOut
<1>10. ASSUME NEW t \in Threads, Raise(t) PROVE FALSE
  BY <1>2, <1>10 DEF Raise
<1>11. CASE WindowPasses \/ UNCHANGED vars
  BY <1>1, <1>11 DEF WindowPasses, vars, thread, FanningOut
<1>12. CASE Crash
  BY <1>2, <1>12 DEF Crash
<1> QED
  BY <1>4, <1>5, <1>6, <1>7, <1>8, <1>9, <1>10, <1>11, <1>12
  DEF Next, HandlerStep

(* A ticket that is new has a thread that is about to push it.             *)
LEMMA NewIsFannedOut ==
  ASSUME IInv, [Next]_vars, NEW i \in Ids', i \notin Ids
  PROVE  \E t \in Threads : FanningOut(t, i)'
<1>1. TypeOK /\ tickets \in Seq(Row) /\ Len(tickets) \in Nat /\ ThreadInv
  BY DEF IInv, TypeOK
<1>2. ASSUME NEW t \in Threads, NEW r \in Row,
             tickets' = Append(tickets, r), Goto(t, "pushing"),
             target' = [target EXCEPT ![t] = Len(tickets) + 1]
      PROVE  FanningOut(t, i)'
  <2>1. i = Len(tickets) + 1
    BY <1>1, <1>2, AppendGrows DEF Ids
  <2> QED BY <1>1, <1>2, <2>1 DEF Goto, TypeOK, FanningOut
<1>3. ASSUME NEW t \in Threads, InsertForAnomaly(t)
      PROVE  FanningOut(t, i)'
  <2>1. FromAnomaly(cur[t]) \in Row
    BY <1>1, <1>3, RowOfAnomaly DEF InsertForAnomaly, ThreadInv, LocalInv, TypeOK
  <2> QED BY <1>2, <1>3, <2>1 DEF InsertForAnomaly
<1>4. ASSUME NEW t \in Threads, NEW s \in Services, NEW m \in Metrics,
             Create(t, s, m)
      PROVE  FanningOut(t, i)'
  BY <1>2, <1>4, RowByHand DEF Create
<1>5. ASSUME NEW t \in Threads, UpdateForAnomaly(t) \/ PatchWrite(t)
      PROVE  FALSE
  BY <1>1, <1>5 DEF UpdateForAnomaly, PatchWrite, Ids
<1>6. CASE Quiet
  BY <1>6 DEF Quiet, Ids
<1>7. ASSUME NEW t \in Threads, Push(t) PROVE FALSE
  BY <1>7 DEF Push, Ids
<1> QED BY <1>3, <1>4, <1>5, <1>6, <1>7, StepKinds

(* While nothing has failed, no interleaving of deliveries, manual tickets *)
(* and PATCHes leaves a ticket that nobody was told of and that no thread  *)
(* is about to tell of, if there is somebody to tell.                      *)
THEOREM TicketsAreAnnounced ==
  ASSUME DecisionEnabled \/ RcaEnabled
  PROVE  Spec => []NoSilentTicket
<1>1. Init => NoSilentTicket
  BY DEF Init, NoSilentTicket, Ids
<1>2. IInv /\ NoSilentTicket /\ [Next]_vars => NoSilentTicket'
  <2> SUFFICES ASSUME IInv, NoSilentTicket, [Next]_vars, faults' = 0,
                      NEW i \in Ids'
               PROVE  Told(i)' \/ \E t \in Threads : FanningOut(t, i)'
    BY DEF NoSilentTicket, Told
  <2>1. CASE i \in Ids
    <3>1. Told(i) \/ \E t \in Threads : FanningOut(t, i)
      BY <2>1, ToldGrows DEF NoSilentTicket, Told
    <3>2. Told(i) => Told(i)'
      BY ToldGrows DEF Told
    <3> QED BY <3>1, <3>2, FanoutGoesOn
  <2>2. CASE i \notin Ids
    BY <2>2, NewIsFannedOut
  <2> QED BY <2>1, <2>2
<1> QED BY <1>1, <1>2, Invariance, PTL DEF Spec

-----------------------------------------------------------------------------
(* Occurrences                                                             *)

(* A row of ticket i claims no more occurrences than were merged into it.  *)
Honest(row, i) ==
  row.count <= Cardinality(Members(i)) + (IF row.src = NoAnomaly THEN 1 ELSE 0)

(* Nor does a copy that a thread is about to write back.                   *)
CountInv ==
  /\ \A i \in Nat \ {0} : IsFiniteSet(Members(i))
  /\ \A i \in Ids : Honest(tickets[i], i)
  /\ \A t \in Threads : pc[t] \in {"updating", "patching"} =>
       Honest(snap[t], target[t])

(* A new marker adds one member to one ticket.                             *)
LEMMA MarkerAdds ==
  ASSUME TypeOK, CountInv, NEW a \in Anomalies, NEW n \in Nat \ {0},
         processed[a] = 0, processed' = [processed EXCEPT ![a] = n]
  PROVE  \A i \in Nat \ {0} :
           /\ IsFiniteSet(Members(i)')
           /\ Cardinality(Members(i)) \in Nat
           /\ Cardinality(Members(i)') =
                Cardinality(Members(i)) + (IF i = n THEN 1 ELSE 0)
<1> SUFFICES ASSUME NEW i \in Nat \ {0}
             PROVE  /\ IsFiniteSet(Members(i)')
                    /\ Cardinality(Members(i)) \in Nat
                    /\ Cardinality(Members(i)') =
                         Cardinality(Members(i)) + (IF i = n THEN 1 ELSE 0)
  OBVIOUS
<1>1. IsFiniteSet(Members(i)) /\ Cardinality(Members(i)) \in Nat
  BY FS_CardinalityType DEF CountInv
<1>2. \A b \in Anomalies : processed'[b] = IF b = a THEN n ELSE processed[b]
  BY DEF TypeOK
<1>3. CASE i = n
  <2>1. a \notin Members(i) /\ Members(i)' = Members(i) \cup {a}
    BY <1>2, <1>3 DEF Members
  <2> QED BY <1>1, <1>3, <2>1, FS_AddElement
<1>4. CASE i # n
  <2>1. Members(i)' = Members(i)
    BY <1>2, <1>4 DEF Members
  <2> QED BY <1>1, <1>4, <2>1
<1> QED BY <1>3, <1>4

LEMMA HonestStays ==
  ASSUME TypeOK, CountInv, NEW a \in Anomalies, NEW n \in Nat \ {0},
         processed[a] = 0, processed' = [processed EXCEPT ![a] = n],
         NEW i \in Nat \ {0}, NEW row \in Row, Honest(row, i)
  PROVE  Honest(row, i)'
<1>1. row.count \in Nat
  BY DEF Row
<1>2. PICK before, after \in Nat :
        /\ before = Cardinality(Members(i)) /\ after = Cardinality(Members(i)')
        /\ before <= after
  <2>1. /\ Cardinality(Members(i)) \in Nat
        /\ Cardinality(Members(i)') =
             Cardinality(Members(i)) + (IF i = n THEN 1 ELSE 0)
    BY MarkerAdds
  <2>2. /\ Cardinality(Members(i)') \in Nat
        /\ Cardinality(Members(i)) <= Cardinality(Members(i)')
    BY <2>1
  <2> QED BY <2>1, <2>2
<1>3. row.count <= before + (IF row.src = NoAnomaly THEN 1 ELSE 0)
  BY <1>2 DEF Honest
<1>4. row.count <= after + (IF row.src = NoAnomaly THEN 1 ELSE 0)
  BY <1>1, <1>2, <1>3
<1> QED BY <1>2, <1>4 DEF Honest

(* The steps that write neither a row nor a marker leave every copy honest *)
(* as they take it from the table.                                         *)
LEMMA CopiesStayHonest ==
  ASSUME IInv, CountInv, UNCHANGED <<tickets, processed>>,
         \A t \in Threads : pc'[t] \in {"updating", "patching"} =>
           \/ /\ pc[t] = pc'[t] /\ target'[t] = target[t] /\ snap'[t] = snap[t]
           \/ /\ target'[t] \in Ids
              /\ snap'[t].count = tickets[target'[t]].count
              /\ snap'[t].src = tickets[target'[t]].src
  PROVE  CountInv'
<1>1. \A i : Members(i)' = Members(i)
  BY DEF Members
<1>2. \A i \in Ids' : Honest(tickets[i], i)'
  BY <1>1 DEF CountInv, Honest, Ids
<1>3. ASSUME NEW t \in Threads, pc'[t] \in {"updating", "patching"}
      PROVE  Honest(snap[t], target[t])'
  <2> PICK k, row : k = target'[t] /\ row = snap'[t]
    OBVIOUS
  <2>1. Honest(row, k)
    BY <1>3 DEF CountInv, Honest
  <2> QED BY <1>1, <2>1 DEF Honest
<1> QED BY <1>1, <1>2, <1>3 DEF CountInv

LEMMA StepCount ==
  ASSUME IInv, CountInv, [Next]_vars
  PROVE  CountInv'
<1>1. /\ TypeOK /\ ThreadInv /\ tickets \in Seq(Row) /\ Len(tickets) \in Nat
      /\ \A i \in Ids : tickets[i] \in Row /\ i \in Nat \ {0}
  BY DEF IInv, TypeOK, Ids
<1>2. ASSUME NEW t \in Threads, UpdateForAnomaly(t) PROVE CountInv'
  <2> PICK k, a, row : k = target[t] /\ a = cur[t] /\ row = snap[t]
    OBVIOUS
  <2>1. /\ a \in Anomalies /\ processed[a] = 0 /\ k \in Ids /\ row \in Row
        /\ k \in Nat \ {0} /\ Honest(row, k)
        /\ processed' = [processed EXCEPT ![a] = k]
        /\ tickets' = [tickets EXCEPT ![k] = Correlated(row, a)]
        /\ UNCHANGED <<target, snap>>
        /\ \A u \in Threads : pc'[u] \in {"updating", "patching"} => pc[u] = pc'[u]
    BY <1>1, <1>2
    DEF UpdateForAnomaly, Goto, ThreadInv, LocalInv, TypeOK, CountInv
  <2>2. \A i \in Nat \ {0} : IsFiniteSet(Members(i)')
    BY <1>1, <2>1, MarkerAdds
  <2>3. ASSUME NEW i \in Ids' PROVE Honest(tickets[i], i)'
    <3>1. i \in Ids /\ tickets'[i] = IF i = k THEN Correlated(row, a) ELSE tickets[i]
      BY <1>1, <2>1 DEF Ids
    <3>2. CASE i = k
      <4>1. Correlated(row, a).count = row.count + 1
            /\ Correlated(row, a).src = row.src /\ row.count \in Nat
        BY <2>1 DEF Correlated, Row
      <4>2. Cardinality(Members(k)') = Cardinality(Members(k)) + 1
            /\ Cardinality(Members(k)) \in Nat
        BY <1>1, <2>1, MarkerAdds
      <4> QED BY <2>1, <3>1, <3>2, <4>1, <4>2 DEF Honest
    <3>3. CASE i # k
      <4>1. Honest(tickets[i], i)
        BY <3>1 DEF CountInv
      <4>2. PICK r \in Row : r = tickets[i]
        BY <1>1, <3>1
      <4>3. Honest(r, i)'
        BY <1>1, <2>1, <3>1, <4>1, <4>2, HonestStays
      <4> QED BY <3>1, <3>3, <4>2, <4>3 DEF Honest
    <3> QED BY <3>2, <3>3
  <2>4. ASSUME NEW u \in Threads, pc'[u] \in {"updating", "patching"}
        PROVE  Honest(snap[u], target[u])'
    <3>1. PICK j, r : j = target[u] /\ r = snap[u]
      OBVIOUS
    <3>2. Honest(r, j) /\ j \in Nat \ {0} /\ r \in Row
      BY <1>1, <2>1, <2>4, <3>1 DEF CountInv, ThreadInv, LocalInv
    <3>3. Honest(r, j)'
      BY <1>1, <2>1, <3>2, HonestStays
    <3> QED BY <2>1, <3>1, <3>3 DEF Honest
  <2> QED BY <2>2, <2>3, <2>4 DEF CountInv
<1>3. ASSUME NEW t \in Threads, NEW r \in Row, NEW n \in Nat \ {0},
             n = Len(tickets) + 1, tickets' = Append(tickets, r),
             \A i \in Nat \ {0} :
               /\ IsFiniteSet(Members(i)')
               /\ \A row \in Row : Honest(row, i) => Honest(row, i)',
             Honest(r, n)',
             \A u \in Threads : pc'[u] \in {"updating", "patching"} =>
               pc[u] = pc'[u] /\ target'[u] = target[u] /\ snap'[u] = snap[u]
      PROVE  CountInv'
  <2>1. ASSUME NEW i \in Ids' PROVE Honest(tickets[i], i)'
    <3>1. \/ i = n /\ tickets'[i] = r
          \/ i \in Ids /\ tickets'[i] = tickets[i]
      <4>1. /\ Len(tickets') = n /\ tickets'[n] = r
            /\ \A j \in Ids : tickets'[j] = tickets[j]
        BY <1>1, <1>3, AppendGrows
      <4>2. i = n \/ i \in Ids
        BY <1>1, <1>3, <4>1 DEF Ids
      <4> QED BY <4>1, <4>2
    <3>2. CASE i = n /\ tickets'[i] = r
      BY <1>3, <3>2 DEF Honest
    <3>3. CASE i \in Ids /\ tickets'[i] = tickets[i]
      <4>1. PICK row \in Row : row = tickets[i]
        BY <1>1, <3>3
      <4>2. Honest(row, i)'
        BY <1>1, <1>3, <3>3, <4>1 DEF CountInv
      <4> QED BY <3>3, <4>1, <4>2 DEF Honest
    <3> QED BY <3>1, <3>2, <3>3
  <2>2. ASSUME NEW u \in Threads, pc'[u] \in {"updating", "patching"}
        PROVE  Honest(snap[u], target[u])'
    <3>1. PICK j, row : j = target[u] /\ row = snap[u]
      OBVIOUS
    <3>2. Honest(row, j) /\ j \in Nat \ {0} /\ row \in Row
      BY <1>1, <1>3, <2>2, <3>1 DEF CountInv, ThreadInv, LocalInv
    <3>3. Honest(row, j)'
      BY <1>3, <3>2
    <3> QED BY <1>3, <2>2, <3>1, <3>3 DEF Honest
  <2> QED BY <1>3, <2>1, <2>2 DEF CountInv
<1>4. ASSUME NEW t \in Threads, InsertForAnomaly(t) PROVE CountInv'
  <2> PICK n, a : n = Len(tickets) + 1 /\ a = cur[t]
    OBVIOUS
  <2>1. /\ a \in Anomalies /\ processed[a] = 0 /\ n \in Nat \ {0}
        /\ processed' = [processed EXCEPT ![a] = n]
        /\ tickets' = Append(tickets, FromAnomaly(a))
        /\ UNCHANGED snap
        /\ \A u \in Threads : pc'[u] \in {"updating", "patching"} =>
             pc[u] = pc'[u] /\ target'[u] = target[u]
    BY <1>1, <1>4 DEF InsertForAnomaly, Goto, ThreadInv, LocalInv, TypeOK
  <2>2. /\ \A i \in Nat \ {0} : IsFiniteSet(Members(i)')
        /\ Cardinality(Members(n)') = Cardinality(Members(n)) + 1
        /\ Cardinality(Members(n)) \in Nat
    BY <1>1, <2>1, MarkerAdds
  <2>3. PICK r \in Row : r = FromAnomaly(a) /\ r.count = 1 /\ r.src # NoAnomaly
    BY <2>1, RowOfAnomaly, IncidentAssumption DEF FromAnomaly
  <2>4. Honest(r, n)'
    BY <2>2, <2>3 DEF Honest
  <2>5. \A i \in Nat \ {0} : \A row \in Row : Honest(row, i) => Honest(row, i)'
    BY <1>1, <2>1, HonestStays
  <2> QED BY <1>3, <2>1, <2>2, <2>3, <2>4, <2>5
<1>5. ASSUME NEW t \in Threads, NEW s \in Services, NEW m \in Metrics,
             Create(t, s, m)
      PROVE  CountInv'
  <2>1. /\ tickets' = Append(tickets, Manual(s, m)) /\ UNCHANGED <<processed, snap>>
        /\ \A u \in Threads : pc'[u] \in {"updating", "patching"} =>
             pc[u] = pc'[u] /\ target'[u] = target[u]
    BY <1>1, <1>5 DEF Create, Goto, TypeOK
  <2>2. \A i : Members(i)' = Members(i)
    BY <2>1 DEF Members
  <2>3. PICK r \in Row : r = Manual(s, m) /\ r.count = 1 /\ r.src = NoAnomaly
    BY RowByHand DEF Manual
  <2> PICK n \in Nat \ {0} : n = Len(tickets) + 1
    BY <1>1
  <2>4. Honest(r, n)'
    <3>1. Cardinality(Members(n)) \in Nat
      BY FS_CardinalityType DEF CountInv
    <3>2. r.count <= Cardinality(Members(n)) + 1
      BY <2>3, <3>1
    <3> QED BY <2>2, <2>3, <3>2 DEF Honest
  <2>5. \A i \in Nat \ {0} :
          /\ IsFiniteSet(Members(i)')
          /\ \A row \in Row : Honest(row, i) => Honest(row, i)'
    BY <2>2 DEF Honest, CountInv
  <2> QED BY <1>3, <2>1, <2>3, <2>4, <2>5
<1>6. ASSUME NEW t \in Threads, PatchWrite(t) PROVE CountInv'
  <2> PICK k, row : k = target[t] /\ row = snap[t]
    OBVIOUS
  <2>1. /\ k \in Ids /\ Honest(row, k)
        /\ tickets' = [tickets EXCEPT ![k] = row] /\ UNCHANGED processed
        /\ \A u \in Threads : pc'[u] \in {"updating", "patching"} =>
             pc[u] = pc'[u] /\ target'[u] = target[u] /\ snap'[u] = snap[u]
    BY <1>1, <1>6
    DEF PatchWrite, Done, Goto, ThreadInv, LocalInv, TypeOK, CountInv
  <2>2. \A i : Members(i)' = Members(i)
    BY <2>1 DEF Members
  <2>3. ASSUME NEW i \in Ids' PROVE Honest(tickets[i], i)'
    <3>1. i \in Ids /\ tickets'[i] = IF i = k THEN row ELSE tickets[i]
      BY <1>1, <2>1 DEF Ids
    <3>2. PICK r : r = tickets'[i] /\ Honest(r, i)
      BY <2>1, <3>1 DEF CountInv
    <3> QED BY <2>2, <3>2 DEF Honest
  <2>4. ASSUME NEW u \in Threads, pc'[u] \in {"updating", "patching"}
        PROVE  Honest(snap[u], target[u])'
    <3>1. PICK j, r : j = target[u] /\ r = snap[u] /\ Honest(r, j)
      BY <2>1, <2>4 DEF CountInv
    <3> QED BY <2>1, <2>2, <2>4, <3>1 DEF Honest
  <2> QED BY <2>2, <2>3, <2>4 DEF CountInv
<1>7. ASSUME NEW t \in Threads, NEW i \in Ids, NEW p \in Patches,
             PatchRead(t, i, p)
      PROVE  CountInv'
  <2>1. /\ Patched(tickets[i], p).count = tickets[i].count
        /\ Patched(tickets[i], p).src = tickets[i].src
    BY <1>1 DEF Patched, Row
  <2>2. /\ pc' = [pc EXCEPT ![t] = "patching"] /\ i \in Nat
        /\ target' = [target EXCEPT ![t] = i]
        /\ snap' = [snap EXCEPT ![t] = Patched(tickets[i], p)]
        /\ UNCHANGED <<tickets, processed>>
    BY <1>1, <1>7 DEF PatchRead, Goto
  <2> QED BY <1>1, <2>1, <2>2, CopiesStayHonest DEF TypeOK
<1>8. ASSUME NEW t \in Threads, FindSeries(t) \/ FindCascade(t)
      PROVE  CountInv'
  <2>1. CASE \E i \in Ids, k \in {"same_series", "topology_cascade"} : Reuse(t, i, k)
    <3>1. PICK i \in Ids : \E k : Reuse(t, i, k)
      BY <2>1
    <3> QED BY <1>1, <1>8, <3>1, CopiesStayHonest
            DEF FindSeries, FindCascade, Reuse, Goto, TypeOK
  <2>2. CASE /\ UNCHANGED <<target, snap>>
             /\ Goto(t, "topology") \/ Goto(t, "inserting")
    BY <1>1, <1>8, <2>2, CopiesStayHonest DEF FindSeries, FindCascade, Goto, TypeOK
  <2> QED BY <1>8, <2>1, <2>2 DEF FindSeries, FindCascade
<1>9. ASSUME NEW t \in Threads,
             Push(t) \/ PushRca(t) \/ AlreadyProcessed(t) \/ Return(t)
               \/ Raise(t) \/ \E a \in Anomalies : Receive(t, a)
      PROVE  CountInv'
  BY <1>1, <1>9, CopiesStayHonest
  DEF Push, PushRca, AlreadyProcessed, Return, Raise, Receive, Done, Goto,
      TypeOK, world
<1>10. CASE WindowPasses \/ Crash \/ UNCHANGED vars
  BY <1>10, CopiesStayHonest DEF WindowPasses, Crash, vars, thread
<1> QED
  BY <1>2, <1>4, <1>5, <1>6, <1>7, <1>8, <1>9, <1>10 DEF Next, HandlerStep

(* However deliveries of one anomaly race, and whichever stale copies are  *)
(* written back, a ticket never counts an occurrence twice.                *)
THEOREM OccurrencesAreReal == Spec => []NoDoubleCounting
<1>1. Init => CountInv
  <2> SUFFICES ASSUME Init PROVE CountInv
    OBVIOUS
  <2>1. \A i \in Nat \ {0} : Members(i) = {}
    BY DEF Init, Members
  <2>2. Ids = {} /\ \A t \in Threads : pc[t] = "idle"
    BY DEF Init, Ids
  <2>3. \A i \in Nat \ {0} : IsFiniteSet(Members(i))
    BY <2>1, FS_EmptySet
  <2> QED BY <2>2, <2>3 DEF CountInv
<1>2. IInv /\ CountInv /\ [Next]_vars => CountInv'
  BY StepCount
<1>3. CountInv => NoDoubleCounting
  BY DEF CountInv, Honest, NoDoubleCounting
<1> QED BY <1>1, <1>2, <1>3, Invariance, PTL DEF Spec

-----------------------------------------------------------------------------
(* One thread                                                              *)

(* What the consumer knows when it handles anomalies alone: its copy is    *)
(* not stale, and what it did not find is not there.                       *)
SoloInv ==
  /\ pc[Consumer] # "patching"
  /\ pc[Consumer] = "updating" => snap[Consumer] = tickets[target[Consumer]]
  /\ pc[Consumer] \in {"topology", "inserting"} =>
       \A i \in Ids : Reusable(i) => ~SameSeries(i, cur[Consumer])
  /\ pc[Consumer] = "inserting" =>
       \A i \in Ids : Reusable(i) => ~SameCascade(i, cur[Consumer])

(* An update leaves every ticket as it was, but for what a merge changes.  *)
LEMMA SoloUpdate ==
  ASSUME IInv, SoloInv, UpdateForAnomaly(Consumer)
  PROVE  /\ Ids' = Ids /\ target[Consumer] \in Ids /\ cur[Consumer] \in Anomalies
         /\ processed[cur[Consumer]] = 0
         /\ processed' = [processed EXCEPT ![cur[Consumer]] = target[Consumer]]
         /\ \A i \in Ids : tickets'[i] =
              IF i = target[Consumer] THEN Correlated(tickets[i], cur[Consumer])
                                      ELSE tickets[i]
         /\ \A i \in Ids : /\ SameIdentity(tickets'[i], tickets[i])
                            /\ tickets'[i].status = tickets[i].status
<1> PICK k, a : k = target[Consumer] /\ a = cur[Consumer]
  OBVIOUS
<1>1. /\ k \in Ids /\ a \in Anomalies /\ tickets \in Seq(Row)
      /\ processed[a] = 0 /\ Len(tickets) \in Nat
      /\ processed' = [processed EXCEPT ![a] = k]
      /\ tickets' = [tickets EXCEPT ![k] = Correlated(tickets[k], a)]
  <2>1. Consumer \in Threads /\ pc[Consumer] = "updating"
    BY DEF UpdateForAnomaly, Threads
  <2>2. k \in Ids /\ a \in Anomalies
    BY <2>1 DEF IInv, ThreadInv, LocalInv, TypeOK
  <2>3. snap[Consumer] = tickets[k]
    BY <2>1 DEF SoloInv
  <2> QED BY <2>2, <2>3 DEF UpdateForAnomaly, IInv, TypeOK
<1>2. /\ Ids' = Ids
      /\ \A i \in Ids : tickets[i] \in Row
      /\ \A i \in Ids :
           tickets'[i] = IF i = k THEN Correlated(tickets[i], a) ELSE tickets[i]
  BY <1>1 DEF Ids
<1>3. \A row \in Row : /\ SameIdentity(Correlated(row, a), row)
                       /\ Correlated(row, a).status = row.status
  <2> SUFFICES ASSUME NEW row \in Row
               PROVE  /\ SameIdentity(Correlated(row, a), row)
                      /\ Correlated(row, a).status = row.status
    OBVIOUS
  <2> DEFINE n == row.count + 1
             all == row.affected \cup {row.service, ServiceOf[a]}
             root == IF ServiceOf[a] \in DependsOn[row.service] THEN ServiceOf[a]
                     ELSE IF row.root = NoService THEN row.service ELSE row.root
             crit == row.critical \/ a \in Critical
  <2>1. Correlated(row, a) = [row EXCEPT !.count = n, !.affected = all,
                                         !.root = root, !.critical = crit]
    BY DEF Correlated
  <2> HIDE DEF n, all, root, crit
  <2>2. Correlated(row, a).status = row.status
    BY <2>1 DEF Row
  <2> QED BY <1>1, <2>2, RowMerged
<1>4. \A i \in Ids : /\ SameIdentity(tickets'[i], tickets[i])
                     /\ tickets'[i].status = tickets[i].status
  BY <1>2, <1>3 DEF SameIdentity
<1> QED BY <1>1, <1>2, <1>4

(* The steps that leave tickets alone open no ticket again.                *)
LEMMA ReusableStays ==
  ASSUME TypeOK, UNCHANGED tickets, aged <= aged', aged' \in Nat
  PROVE  /\ Ids' = Ids
         /\ \A i \in Ids : Reusable(i)' => Reusable(i)
         /\ \A i, a : SameSeries(i, a)' <=> SameSeries(i, a)
         /\ \A i, a : SameCascade(i, a)' <=> SameCascade(i, a)
BY DEF TypeOK, Ids, Reusable, SameSeries, SameCascade

LEMMA StepSolo ==
  ASSUME IInv, SoloInv, [Next]_vars, Threads = {Consumer}, EnableTopology
  PROVE  SoloInv'
<1>1. TypeOK /\ aged \in Nat /\ Consumer \in Threads
  BY DEF IInv, TypeOK
<1> USE <1>1
<1>2. ASSUME NEW l \in PC \ {"updating", "patching", "topology", "inserting"},
             Goto(Consumer, l)
      PROVE  SoloInv'
  BY <1>2 DEF Goto, TypeOK, SoloInv
<1>3. CASE FindSeries(Consumer)
  <2>1. CASE \E i \in Ids : Reuse(Consumer, i, "same_series")
    BY <1>3, <2>1 DEF FindSeries, Reuse, Goto, TypeOK, SoloInv
  <2>2. CASE /\ \A i \in Ids : ~(Reusable(i) /\ SameSeries(i, cur[Consumer]))
             /\ Goto(Consumer, "topology")
    <3>1. /\ pc'[Consumer] = "topology" /\ UNCHANGED <<tickets, cur, aged>>
      BY <1>3, <2>2 DEF FindSeries, Goto, TypeOK, world
    <3>2. /\ Ids' = Ids /\ \A i \in Ids : Reusable(i)' => Reusable(i)
          /\ \A i, a : SameSeries(i, a)' <=> SameSeries(i, a)
      BY <3>1, ReusableStays
    <3> QED BY <2>2, <3>1, <3>2 DEF SoloInv
  <2> QED BY <1>3, <2>1, <2>2 DEF FindSeries, Newest
<1>4. CASE FindCascade(Consumer)
  <2>1. CASE \E i \in Ids : Reuse(Consumer, i, "topology_cascade")
    BY <1>4, <2>1 DEF FindCascade, Reuse, Goto, TypeOK, SoloInv
  <2>2. CASE /\ \A i \in Ids : ~(Reusable(i) /\ SameCascade(i, cur[Consumer]))
             /\ Goto(Consumer, "inserting")
    <3>1. /\ pc'[Consumer] = "inserting" /\ pc[Consumer] = "topology"
          /\ UNCHANGED <<tickets, cur, aged>>
      BY <1>4, <2>2 DEF FindCascade, Goto, TypeOK, world
    <3>2. /\ Ids' = Ids /\ \A i \in Ids : Reusable(i)' => Reusable(i)
          /\ \A i, a : SameSeries(i, a)' <=> SameSeries(i, a)
          /\ \A i, a : SameCascade(i, a)' <=> SameCascade(i, a)
      BY <3>1, ReusableStays
    <3> QED BY <2>2, <3>1, <3>2 DEF SoloInv
  <2> QED BY <1>4, <2>1, <2>2 DEF FindCascade, Newest
<1>5. CASE UNCHANGED <<tickets, pc, cur, target, snap>>
           /\ aged <= aged' /\ aged' \in Nat
  BY <1>5, ReusableStays DEF SoloInv
<1>6. CASE WindowPasses \/ UNCHANGED vars
  BY <1>5, <1>6 DEF WindowPasses, vars, thread
<1>7. ASSUME Done(Consumer) PROVE SoloInv'
  BY <1>2, <1>7 DEF Done, PC
<1>8. CASE Crash
  BY <1>8 DEF Crash, SoloInv
<1>9. ASSUME NEW a \in Anomalies, Receive(Consumer, a) PROVE SoloInv'
  <2>1. Goto(Consumer, "returning") \/ Goto(Consumer, "series")
    BY <1>9 DEF Receive
  <2> QED BY <1>2, <2>1 DEF PC
<1>10. CASE UpdateForAnomaly(Consumer) \/ InsertForAnomaly(Consumer)
            \/ Push(Consumer) \/ PushRca(Consumer)
  <2>1. \E l \in {"pushing", "rca", "returning"} : Goto(Consumer, l)
    BY <1>10 DEF UpdateForAnomaly, InsertForAnomaly, Push, PushRca
  <2> QED BY <1>2, <2>1 DEF PC
<1>11. CASE AlreadyProcessed(Consumer) \/ Return(Consumer) \/ Raise(Consumer)
            \/ PatchWrite(Consumer)
  <2>1. Goto(Consumer, "returning") \/ Done(Consumer)
    BY <1>11 DEF AlreadyProcessed, Return, Raise, PatchWrite
  <2> QED BY <1>2, <1>7, <2>1 DEF PC
<1>12. ASSUME NEW t \in Threads,
              \/ \E s \in Services, m \in Metrics : Create(t, s, m)
              \/ \E i \in Ids, p \in Patches : PatchRead(t, i, p)
       PROVE  FALSE
  BY <1>12 DEF Create, PatchRead
<1> QED
  BY <1>3, <1>4, <1>6, <1>8, <1>9, <1>10, <1>11, <1>12 DEF Next, HandlerStep

(* What a new ticket was found not to be a duplicate of.                   *)
LEMMA StepCascade ==
  ASSUME IInv, SoloInv, OneOpenTicketPerCascade, [Next]_vars,
         Threads = {Consumer}
  PROVE  OneOpenTicketPerCascade'
<1>1. /\ TypeOK /\ aged \in Nat /\ Consumer \in Threads
      /\ tickets \in Seq(Row) /\ Len(tickets) \in Nat
  BY DEF IInv, TypeOK
<1>2. ASSUME Ids' = Ids, aged <= aged', aged' \in Nat,
             \A i \in Ids : /\ SameIdentity(tickets'[i], tickets[i])
                            /\ tickets'[i].status = tickets[i].status
      PROVE  OneOpenTicketPerCascade'
  <2> SUFFICES ASSUME NEW i \in Ids, NEW j \in Ids, NEW a,
                      i < j, Reusable(i)', Reusable(j)', a = tickets'[j].src
               PROVE  ~SameSeries(i, a)' /\ ~SameCascade(i, a)'
    BY <1>2 DEF OneOpenTicketPerCascade
  <2>1. Reusable(i) /\ Reusable(j) /\ a = tickets[j].src
    BY <1>1, <1>2 DEF Reusable, Ids, SameIdentity
  <2>2. ~SameSeries(i, a) /\ ~SameCascade(i, a)
    BY <2>1 DEF OneOpenTicketPerCascade
  <2> QED BY <1>2, <2>2 DEF SameSeries, SameCascade, SameIdentity
<1>3. CASE UpdateForAnomaly(Consumer)
  BY <1>1, <1>2, <1>3, SoloUpdate DEF UpdateForAnomaly, world
<1>4. CASE InsertForAnomaly(Consumer)
  <2> PICK n, a : n = Len(tickets) + 1 /\ a = cur[Consumer]
    OBVIOUS
  <2>1. a \in Anomalies
    BY <1>1, <1>4 DEF InsertForAnomaly, IInv, ThreadInv, LocalInv, TypeOK
  <2>2. /\ Len(tickets') = n /\ tickets'[n].src = a
        /\ \A i \in Ids : tickets'[i] = tickets[i]
    BY <1>1, <1>4, <2>1, RowOfAnomaly, AppendGrows DEF InsertForAnomaly
  <2>3. UNCHANGED aged /\ \A i \in Ids' : i = n \/ i \in Ids
    BY <1>1, <1>4, <2>2 DEF InsertForAnomaly, world, Ids
  <2>4. \A i \in Ids :
          Reusable(i) => ~SameSeries(i, a) /\ ~SameCascade(i, a)
    BY <1>4 DEF InsertForAnomaly, SoloInv
  <2> SUFFICES ASSUME NEW i \in Ids', NEW j \in Ids', NEW b,
                      i < j, Reusable(i)', Reusable(j)', b = tickets'[j].src
               PROVE  ~SameSeries(i, b)' /\ ~SameCascade(i, b)'
    BY DEF OneOpenTicketPerCascade
  <2>5. i \in Ids /\ tickets'[i] = tickets[i]
    BY <1>1, <2>2, <2>3 DEF Ids
  <2>6. Reusable(i)
    BY <2>3, <2>5 DEF Reusable
  <2>7. ~SameSeries(i, b) /\ ~SameCascade(i, b)
    <3>1. CASE j = n
      BY <2>2, <2>4, <2>5, <2>6, <3>1
    <3>2. CASE j \in Ids
      <4>1. Reusable(j) /\ b = tickets[j].src
        BY <2>2, <2>3, <3>2 DEF Reusable
      <4> QED BY <2>5, <2>6, <3>2, <4>1 DEF OneOpenTicketPerCascade
    <3> QED BY <2>3, <3>1, <3>2
  <2> QED BY <2>5, <2>7 DEF SameSeries, SameCascade
<1>5. CASE UNCHANGED tickets /\ aged <= aged' /\ aged' \in Nat
  BY <1>1, <1>2, <1>5 DEF Ids, SameIdentity
<1>6. CASE WindowPasses
  BY <1>1, <1>5, <1>6 DEF WindowPasses
<1>7. ASSUME NEW t \in Threads,
             \/ PatchWrite(t)
             \/ \E s \in Services, m \in Metrics : Create(t, s, m)
      PROVE  FALSE
  BY <1>7 DEF PatchWrite, Create, SoloInv
<1> QED
  BY <1>1, <1>3, <1>4, <1>5, <1>6, <1>7
  DEF Next, HandlerStep, vars, world, Receive, FindSeries, FindCascade,
      AlreadyProcessed, Push, PushRca, Return, Raise, PatchRead, Crash

(* When the consumer alone handles anomalies, with topology correlation, a *)
(* failure has one open ticket inside the window, at whichever step the    *)
(* consumer dies.                                                          *)
THEOREM OneTicketPerCascade ==
  ASSUME ApiThreads = {}, EnableTopology
  PROVE  Spec => []OneOpenTicketPerCascade
<1>1. Threads = {Consumer}
  BY DEF Threads
<1>2. Init => SoloInv /\ OneOpenTicketPerCascade
  BY <1>1 DEF Init, SoloInv, OneOpenTicketPerCascade, Ids
<1>3. IInv /\ SoloInv /\ OneOpenTicketPerCascade /\ [Next]_vars =>
        SoloInv' /\ OneOpenTicketPerCascade'
  BY <1>1, StepSolo, StepCascade
<1> QED BY <1>2, <1>3, Invariance, PTL DEF Spec

(* Row shows the deliveries that were merged into ticket i.                *)
Shows(row, i) ==
  /\ row.count = Cardinality(Members(i))
  /\ row.critical <=> Members(i) \cap Critical # {}
  /\ {ServiceOf[a] : a \in Members(i)} \subseteq row.affected \cup {row.service}

LEMMA ShowsOne ==
  ASSUME TypeOK, CountInv, NEW a \in Anomalies, NEW n \in Nat \ {0},
         processed[a] = 0, processed' = [processed EXCEPT ![a] = n],
         Members(n) = {}
  PROVE  Shows(FromAnomaly(a), n)'
<1> PICK row : row = FromAnomaly(a)
  OBVIOUS
<1>1. /\ row.count = 1 /\ row.critical = (a \in Critical)
      /\ row.service = ServiceOf[a]
  BY DEF FromAnomaly
<1>2. Cardinality(Members(n)') = Cardinality(Members(n)) + 1
  BY MarkerAdds
<1>3. Cardinality(Members(n)') = 1
  BY <1>2, FS_EmptySet
<1>4. Members(n)' = {a}
  <2>1. \A b \in Anomalies : processed'[b] = IF b = a THEN n ELSE processed[b]
    BY DEF TypeOK
  <2> QED BY <2>1 DEF Members
<1>5. Shows(row, n)'
  BY <1>1, <1>3, <1>4 DEF Shows
<1> QED BY <1>5 DEF Shows, FromAnomaly

LEMMA ShowsMore ==
  ASSUME TypeOK, CountInv, NEW a \in Anomalies, NEW n \in Nat \ {0},
         processed[a] = 0, processed' = [processed EXCEPT ![a] = n],
         NEW row \in Row, Shows(row, n), NEW more, more = Correlated(row, a)
  PROVE  Shows(more, n)'
<1> DEFINE count == row.count + 1
           all == row.affected \cup {row.service, ServiceOf[a]}
           root == IF ServiceOf[a] \in DependsOn[row.service] THEN ServiceOf[a]
                   ELSE IF row.root = NoService THEN row.service ELSE row.root
           crit == row.critical \/ a \in Critical
<1>1. /\ more.count = row.count + 1 /\ more.service = row.service
      /\ more.affected = row.affected \cup {row.service, ServiceOf[a]}
      /\ more.critical = (row.critical \/ a \in Critical)
  <2>1. more = [row EXCEPT !.count = count, !.affected = all,
                           !.root = root, !.critical = crit]
    BY DEF Correlated
  <2> HIDE DEF count, all, root, crit
  <2>2. /\ more.count = count /\ more.service = row.service
        /\ more.affected = all /\ more.critical = crit
    BY <2>1 DEF Row
  <2> QED BY <2>2 DEF count, all, crit
<1>2. Cardinality(Members(n)') = Cardinality(Members(n)) + 1
  BY MarkerAdds
<1>3. Members(n)' = Members(n) \cup {a}
  <2>1. \A b \in Anomalies : processed'[b] = IF b = a THEN n ELSE processed[b]
    BY DEF TypeOK
  <2> QED BY <2>1 DEF Members
<1>4. more.count = Cardinality(Members(n)')
  BY <1>1, <1>2 DEF Shows
<1>5. more.critical <=> Members(n)' \cap Critical # {}
  BY <1>1, <1>3 DEF Shows
<1>6. {ServiceOf[b] : b \in Members(n)'} \subseteq more.affected \cup {more.service}
  BY <1>1, <1>3 DEF Shows
<1> QED BY <1>4, <1>5, <1>6 DEF Shows

LEMMA ShowsStill ==
  ASSUME TypeOK, NEW a \in Anomalies, NEW n,
         processed' = [processed EXCEPT ![a] = n], processed[a] = 0,
         NEW i \in Nat \ {0}, i # n, NEW row, Shows(row, i)
  PROVE  Shows(row, i)'
<1>1. Members(i)' = Members(i)
  BY DEF Members, TypeOK
<1> QED BY <1>1 DEF Shows

LEMMA StepShows ==
  ASSUME IInv, CountInv, SoloInv, [Next]_vars, Threads = {Consumer},
         \A i \in Ids : Shows(tickets[i], i)
  PROVE  \A i \in Ids' : Shows(tickets[i], i)'
<1>1. /\ TypeOK /\ Consumer \in Threads
      /\ tickets \in Seq(Row) /\ Len(tickets) \in Nat
      /\ \A i \in Ids : tickets[i] \in Row /\ i \in Nat \ {0}
  BY DEF IInv, TypeOK, Ids
<1>2. CASE UpdateForAnomaly(Consumer)
  <2> PICK k, a : k = target[Consumer] /\ a = cur[Consumer]
    OBVIOUS
  <2>1. /\ Ids' = Ids /\ k \in Ids /\ k \in Nat \ {0}
        /\ a \in Anomalies /\ processed[a] = 0
        /\ processed' = [processed EXCEPT ![a] = k]
        /\ \A i \in Ids :
             tickets'[i] = IF i = k THEN Correlated(tickets[i], a) ELSE tickets[i]
    BY <1>1, <1>2, SoloUpdate
  <2> SUFFICES ASSUME NEW i \in Ids PROVE Shows(tickets[i], i)'
    BY <2>1
  <2> PICK row, after : row = tickets[i] /\ after = tickets'[i]
    OBVIOUS
  <2>2. row \in Row /\ Shows(row, i) /\ i \in Nat \ {0}
    BY <1>1
  <2>3. Shows(after, i)'
    <3>1. CASE i = k
      BY <1>1, <2>1, <2>2, <3>1, ShowsMore
    <3>2. CASE i # k
      BY <1>1, <2>1, <2>2, <3>2, ShowsStill
    <3> QED BY <3>1, <3>2
  <2> QED BY <2>3 DEF Shows
<1>3. CASE InsertForAnomaly(Consumer)
  <2> PICK n, a : n = Len(tickets) + 1 /\ a = cur[Consumer]
    OBVIOUS
  <2>1. /\ a \in Anomalies /\ processed[a] = 0 /\ n \in Nat \ {0}
        /\ processed' = [processed EXCEPT ![a] = n]
    BY <1>1, <1>3 DEF InsertForAnomaly, IInv, ThreadInv, LocalInv, TypeOK
  <2>2. /\ Len(tickets') = n /\ tickets'[n] = FromAnomaly(a)
        /\ \A i \in Ids : tickets'[i] = tickets[i]
    BY <1>1, <1>3, <2>1, RowOfAnomaly, AppendGrows DEF InsertForAnomaly
  <2>3. n \notin Ids /\ \A i \in Ids' : i = n \/ i \in Ids
    BY <1>1, <2>2 DEF Ids
  <2>4. Members(n) = {}
    BY <2>1, <2>3 DEF Members, IInv, AttributionIsLocal, Attributed
  <2> SUFFICES ASSUME NEW i \in Ids' PROVE Shows(tickets[i], i)'
    OBVIOUS
  <2> PICK after : after = tickets'[i]
    OBVIOUS
  <2>5. Shows(after, i)'
    <3>1. CASE i = n
      <4>1. PICK row : row = FromAnomaly(a) /\ Shows(row, n)'
        <5>1. Shows(FromAnomaly(a), n)'
          BY <1>1, <2>1, <2>4, ShowsOne
        <5> QED BY <5>1 DEF FromAnomaly
      <4> QED BY <2>2, <3>1, <4>1
    <3>2. CASE i \in Ids
      <4>1. after = tickets[i] /\ Shows(after, i) /\ i # n /\ i \in Nat \ {0}
        BY <1>1, <2>2, <2>3, <3>2
      <4> QED BY <1>1, <2>1, <4>1, ShowsStill
    <3> QED BY <2>3, <3>1, <3>2
  <2> QED BY <2>5 DEF Shows
<1>4. CASE UNCHANGED <<tickets, processed>>
  <2>1. Ids' = Ids /\ \A i : Members(i)' = Members(i)
    BY <1>4 DEF Ids, Members
  <2> SUFFICES ASSUME NEW i \in Ids PROVE Shows(tickets[i], i)'
    BY <2>1
  <2> PICK row : row = tickets[i]
    OBVIOUS
  <2>2. Shows(row, i)
    BY <1>1
  <2>3. Shows(row, i)'
    BY <2>1, <2>2 DEF Shows
  <2> QED BY <1>4, <2>3 DEF Shows
<1>5. ASSUME NEW t \in Threads,
             \/ PatchWrite(t)
             \/ \E s \in Services, m \in Metrics : Create(t, s, m)
      PROVE  FALSE
  BY <1>5 DEF PatchWrite, Create, SoloInv
<1> QED
  BY <1>2, <1>3, <1>4, <1>5
  DEF Next, HandlerStep, vars, world, Receive, FindSeries, FindCascade,
      AlreadyProcessed, Push, PushRca, Return, Raise, PatchRead, WindowPasses,
      Crash

(* When the consumer alone handles anomalies, redeliveries and crashes     *)
(* included, a ticket shows exactly what was merged into it.               *)
THEOREM TicketsShowDeliveries ==
  ASSUME ApiThreads = {}, EnableTopology
  PROVE  Spec => []TicketReflectsDeliveries
<1> DEFINE ShowInv == \A i \in Ids : Shows(tickets[i], i)
<1>1. Threads = {Consumer}
  BY DEF Threads
<1>2. Init => CountInv /\ SoloInv /\ ShowInv
  <2> SUFFICES ASSUME Init PROVE CountInv /\ SoloInv /\ ShowInv
    OBVIOUS
  <2>1. Ids = {} /\ \A t \in Threads : pc[t] = "idle"
    BY DEF Init, Ids
  <2>2. \A i \in Nat \ {0} : IsFiniteSet(Members(i))
    <3>1. \A i \in Nat \ {0} : Members(i) = {}
      BY DEF Init, Members
    <3> QED BY <3>1, FS_EmptySet
  <2> QED BY <1>1, <2>1, <2>2 DEF CountInv, SoloInv
<1>3. IInv /\ CountInv /\ SoloInv /\ ShowInv /\ [Next]_vars =>
        CountInv' /\ SoloInv' /\ ShowInv'
  BY <1>1, StepCount, StepSolo, StepShows
<1>4. ShowInv => TicketReflectsDeliveries
  BY DEF Shows, TicketReflectsDeliveries
<1> HIDE DEF ShowInv
<1> QED BY <1>2, <1>3, <1>4, Invariance, PTL DEF Spec

-----------------------------------------------------------------------------
(* Refinement of Intake *)

(* A ticket found for a cascade is of it when it is written, and an anomaly *)
(* about to be announced opened its ticket or is of the ticket's cascade.  *)
Herald(t) ==
  /\ pc[t] = "updating" /\ kind[t] = "topology_cascade" =>
       SameCascade(target[t], cur[t])
  /\ pc[t] = "pushing" /\ cur[t] # NoAnomaly =>
       \/ tickets[processed[cur[t]]].src = cur[t]
       \/ SameCascade(processed[cur[t]], cur[t])

HeraldInv == \A t \in Threads : Herald(t)

LEMMA CascadeStays ==
  ASSUME Grown, NEW i \in Ids, NEW a, SameCascade(i, a)
  PROVE  SameCascade(i, a)'
BY DEF Grown, SameIdentity, SameCascade

(* A marker is never moved, and what it points at is a ticket.             *)
LEMMA MarkersStay ==
  ASSUME IInv, [Next]_vars, NEW a \in Anomalies, processed[a] # 0
  PROVE  processed'[a] = processed[a] /\ processed[a] \in Ids
<1>1. processed \in [Anomalies -> Nat] /\ processed[a] \in Ids
  BY DEF IInv, TypeOK, AttributionIsLocal, Attributed
<1> QED
  BY <1>1, StepKinds
  DEF UpdateForAnomaly, InsertForAnomaly, Create, PatchWrite, Push, Quiet

(* A thread whose locals are left alone keeps what it knows.               *)
LEMMA HeraldStays ==
  ASSUME IInv, [Next]_vars, NEW t \in Threads, Herald(t),
         pc'[t] = pc[t], cur'[t] = cur[t],
         target'[t] = target[t], kind'[t] = kind[t]
  PROVE  Herald(t)'
<1>1. Grown /\ TypeOK /\ LocalInv(t)
  BY StepGrown DEF IInv, ThreadInv
<1>2. CASE pc[t] = "updating"
  <2> PICK k, a : k = target[t] /\ a = cur[t]
    OBVIOUS
  <2>1. k \in Ids
    BY <1>1, <1>2 DEF LocalInv
  <2>2. SameCascade(k, a) => SameCascade(k, a)'
    BY <1>1, <2>1, CascadeStays
  <2> QED BY <1>2, <2>2 DEF Herald
<1>3. CASE pc[t] = "pushing" /\ cur[t] # NoAnomaly
  <2> PICK a : a = cur[t]
    OBVIOUS
  <2>1. a \in Anomalies /\ processed[a] # 0
    BY <1>1, <1>3 DEF IInv, PushInv, TypeOK
  <2> PICK k : k = processed[a]
    OBVIOUS
  <2>2. k \in Ids /\ processed'[a] = k
    BY <2>1, MarkersStay
  <2>3. SameCascade(k, a) => SameCascade(k, a)'
    BY <1>1, <2>2, CascadeStays
  <2>4. tickets'[k].src = tickets[k].src
    BY <1>1, <2>2 DEF Grown, SameIdentity
  <2> QED BY <1>3, <2>2, <2>3, <2>4 DEF Herald
<1>4. CASE pc[t] # "updating" /\ ~(pc[t] = "pushing" /\ cur[t] # NoAnomaly)
  BY <1>4 DEF Herald
<1> QED BY <1>2, <1>3, <1>4

LEMMA StepHerald ==
  ASSUME IInv, HeraldInv, [Next]_vars
  PROVE  HeraldInv'
<1>1. TypeOK /\ ThreadInv /\ Grown /\ tickets \in Seq(Row)
  BY StepGrown DEF IInv, TypeOK
<1>2. ASSUME NEW t \in Threads, Herald(t)',
             \A u \in Threads \ {t} :
                /\ pc'[u] = pc[u] /\ cur'[u] = cur[u]
                /\ target'[u] = target[u] /\ kind'[u] = kind[u]
      PROVE  HeraldInv'
  BY <1>2, HeraldStays DEF HeraldInv
<1>3. ASSUME NEW t \in Threads,
             pc'[t] \notin {"updating", "pushing"},
             \A u \in Threads \ {t} :
                /\ pc'[u] = pc[u] /\ cur'[u] = cur[u]
                /\ target'[u] = target[u] /\ kind'[u] = kind[u]
      PROVE  HeraldInv'
  BY <1>2, <1>3 DEF Herald
<1>4. ASSUME NEW t \in Threads, NEW a \in Anomalies, Receive(t, a) PROVE HeraldInv'
  BY <1>1, <1>3, <1>4 DEF Receive, Goto, TypeOK
<1>5. ASSUME NEW t \in Threads, FindSeries(t) PROVE HeraldInv'
  <2>1. CASE \E i \in Ids : Reuse(t, i, "same_series")
    <3>1. /\ kind'[t] = "same_series" /\ pc'[t] = "updating"
          /\ \A u \in Threads \ {t} :
                /\ pc'[u] = pc[u] /\ cur'[u] = cur[u]
                /\ target'[u] = target[u] /\ kind'[u] = kind[u]
      BY <1>1, <1>5, <2>1 DEF FindSeries, Reuse, Goto, TypeOK
    <3> QED BY <1>2, <3>1 DEF Herald
  <2>2. CASE pc' = [pc EXCEPT ![t] = IF EnableTopology THEN "topology"
                                     ELSE "inserting"]
             /\ UNCHANGED <<target, snap, kind>>
    BY <1>1, <1>3, <1>5, <2>2 DEF FindSeries, TypeOK
  <2> QED BY <1>5, <2>1, <2>2 DEF FindSeries, Goto
<1>6. ASSUME NEW t \in Threads, FindCascade(t) PROVE HeraldInv'
  <2>1. CASE \E i \in Ids : SameCascade(i, cur[t]) /\ Reuse(t, i, "topology_cascade")
    <3> PICK i \in Ids : SameCascade(i, cur[t]) /\ Reuse(t, i, "topology_cascade")
      BY <2>1
    <3>1. /\ pc'[t] = "updating" /\ target'[t] = i /\ cur'[t] = cur[t]
          /\ \A u \in Threads \ {t} :
                /\ pc'[u] = pc[u] /\ cur'[u] = cur[u]
                /\ target'[u] = target[u] /\ kind'[u] = kind[u]
      BY <1>1, <1>6 DEF FindCascade, Reuse, Goto, TypeOK
    <3>2. SameCascade(i, cur[t])'
      <4> PICK a : a = cur[t]
        OBVIOUS
      <4>1. SameCascade(i, a)'
        BY <1>1, CascadeStays
      <4> QED BY <3>1, <4>1
    <3> QED BY <1>2, <3>1, <3>2 DEF Herald
  <2>2. CASE Goto(t, "inserting") /\ UNCHANGED <<target, snap, kind>>
    BY <1>1, <1>3, <1>6, <2>2 DEF FindCascade, Goto, TypeOK
  <2> QED BY <1>6, <2>1, <2>2 DEF FindCascade, Newest
<1>7. ASSUME NEW t \in Threads, UpdateForAnomaly(t) PROVE HeraldInv'
  <2> PICK k, a : k = target[t] /\ a = cur[t]
    OBVIOUS
  <2>1. /\ a \in Anomalies /\ k \in Ids /\ pc[t] = "updating"
        /\ processed'[a] = k /\ cur'[t] = a
        /\ pc'[t] = IF kind[t] = "topology_cascade" THEN "pushing" ELSE "returning"
        /\ \A u \in Threads \ {t} :
              /\ pc'[u] = pc[u] /\ cur'[u] = cur[u]
              /\ target'[u] = target[u] /\ kind'[u] = kind[u]
    BY <1>1, <1>7 DEF UpdateForAnomaly, ThreadInv, LocalInv, Goto, TypeOK
  <2>2. pc'[t] = "pushing" => SameCascade(k, a)'
    <3>1. pc'[t] = "pushing" => SameCascade(k, a)
      BY <2>1 DEF HeraldInv, Herald
    <3> QED BY <1>1, <2>1, <3>1, CascadeStays
  <2> QED BY <1>2, <2>1, <2>2 DEF Herald
<1>8. ASSUME NEW t \in Threads, InsertForAnomaly(t) PROVE HeraldInv'
  <2> PICK n, a : n = Len(tickets) + 1 /\ a = cur[t]
    OBVIOUS
  <2>1. /\ a \in Anomalies /\ processed'[a] = n /\ cur'[t] = a
        /\ pc'[t] = "pushing"
        /\ tickets' = Append(tickets, FromAnomaly(a))
        /\ \A u \in Threads \ {t} :
              /\ pc'[u] = pc[u] /\ cur'[u] = cur[u]
              /\ target'[u] = target[u] /\ kind'[u] = kind[u]
    BY <1>1, <1>8 DEF InsertForAnomaly, ThreadInv, LocalInv, Goto, TypeOK
  <2>2. tickets'[n].src = a
    BY <1>1, <2>1, RowOfAnomaly, AppendGrows
  <2> QED BY <1>2, <2>1, <2>2 DEF Herald
<1>9. ASSUME NEW t \in Threads, AlreadyProcessed(t) \/ Return(t) \/ Raise(t) \/ PatchWrite(t)
      PROVE  HeraldInv'
  <2>1. CASE Done(t)
    <3>1. pc'[t] = "idle"
          /\ \A u \in Threads \ {t} :
                /\ pc'[u] = pc[u] /\ cur'[u] = cur[u]
                /\ target'[u] = target[u] /\ kind'[u] = kind[u]
      BY <1>1, <2>1 DEF Done, Goto, TypeOK
    <3> QED BY <1>3, <3>1
  <2>2. CASE Goto(t, "returning") /\ UNCHANGED <<cur, target, snap, kind>>
    BY <1>1, <1>3, <2>2 DEF Goto, TypeOK
  <2> QED BY <1>9, <2>1, <2>2 DEF AlreadyProcessed, Return, Raise, PatchWrite
<1>10. ASSUME NEW t \in Threads, Push(t) \/ PushRca(t) PROVE HeraldInv'
  BY <1>1, <1>3, <1>10 DEF Push, PushRca, Goto, TypeOK
<1>11. ASSUME NEW t \in Threads, NEW s \in Services, NEW m \in Metrics,
              Create(t, s, m)
       PROVE  HeraldInv'
  <2>1. /\ pc'[t] = "pushing" /\ cur'[t] = NoAnomaly
        /\ \A u \in Threads \ {t} :
              /\ pc'[u] = pc[u] /\ cur'[u] = cur[u]
              /\ target'[u] = target[u] /\ kind'[u] = kind[u]
    BY <1>1, <1>11 DEF Create, ThreadInv, LocalInv, Goto, TypeOK
  <2> QED BY <1>2, <2>1 DEF Herald
<1>12. ASSUME NEW t \in Threads, NEW i \in Ids, NEW p \in Patches,
              PatchRead(t, i, p)
       PROVE  HeraldInv'
  BY <1>1, <1>3, <1>12 DEF PatchRead, Goto, TypeOK
<1>13. CASE Crash
  BY <1>13 DEF Crash, HeraldInv, Herald
<1>14. CASE WindowPasses \/ UNCHANGED vars
  BY <1>14, HeraldStays DEF WindowPasses, thread, vars, HeraldInv
<1> QED
  BY <1>4, <1>5, <1>6, <1>7, <1>8, <1>9, <1>10, <1>11, <1>12, <1>13, <1>14
  DEF Next, HandlerStep

(* The tickets as Intake sees them.                                        *)
Ticket == [series : AllSeries, src : Anomalies \cup {NoAnomaly}]

LEMMA IdentityType ==
  ASSUME NEW row \in Row
  PROVE  Identity(row) \in Ticket
BY DEF Identity, Ticket, Row, AllSeries

LEMMA OpenedType ==
  ASSUME NEW s \in Seq(Row)
  PROVE  LET o == [i \in 1..Len(s) |-> Identity(s[i])]
         IN  /\ o \in Seq(Ticket) /\ Len(o) = Len(s)
             /\ \A i \in 1..Len(s) : o[i] = Identity(s[i])
<1>1. Len(s) \in Nat /\ \A i \in 1..Len(s) : Identity(s[i]) \in Ticket
  BY IdentityType
<1> PICK o : o = [i \in 1..Len(s) |-> Identity(s[i])]
  OBVIOUS
<1>2. o \in [1..Len(s) -> Ticket] /\ \A i \in 1..Len(s) : o[i] = Identity(s[i])
  BY <1>1
<1>3. o \in Seq(Ticket) /\ Len(o) = Len(s)
  BY <1>1, <1>2
<1> QED BY <1>2, <1>3

(* A new row is a new ticket at the end.                                   *)
LEMMA OpenedGrowsBy ==
  ASSUME tickets \in Seq(Row), NEW r \in Row, tickets' = Append(tickets, r)
  PROVE  Opened' = Append(Opened, Identity(r))
<1> PICK n, x : n = Len(tickets) + 1 /\ x = Identity(r)
  OBVIOUS
<1>1. /\ tickets' \in Seq(Row) /\ Len(tickets') = n /\ Len(tickets) \in Nat
      /\ tickets'[n] = r /\ \A i \in Ids : tickets'[i] = tickets[i]
  BY AppendGrows DEF Grown
<1>2. /\ Opened \in Seq(Ticket) /\ Len(Opened) = Len(tickets)
      /\ \A i \in Ids : Opened[i] = Identity(tickets[i])
  BY OpenedType DEF Opened, Ids
<1>3. /\ Opened' \in Seq(Ticket) /\ Len(Opened') = n
      /\ \A i \in 1..n : Opened'[i] = Identity(tickets'[i])
  BY <1>1, OpenedType DEF Opened, Ids
<1>4. x \in Ticket
  BY IdentityType
<1>5. /\ Append(Opened, x) \in Seq(Ticket) /\ Len(Append(Opened, x)) = n
      /\ Append(Opened, x)[n] = x
      /\ \A i \in Ids : Append(Opened, x)[i] = Opened[i]
  BY <1>1, <1>2, <1>4, AppendProperties DEF Ids
<1>6. ASSUME NEW i \in 1..n PROVE Opened'[i] = Append(Opened, x)[i]
  BY <1>1, <1>2, <1>3, <1>5 DEF Ids
<1>7. Opened' = Append(Opened, x)
  BY <1>3, <1>5, <1>6, SeqEqual
<1> QED BY <1>7

(* Nothing written back changes what a ticket was opened for.              *)
LEMMA OpenedStays ==
  ASSUME tickets \in Seq(Row), Grown, Len(tickets') = Len(tickets)
  PROVE  Opened' = Opened
<1>1. Ids' = Ids
  BY DEF Ids
<1>2. \A i \in Ids : Identity(tickets'[i]) = Identity(tickets[i])
  BY DEF Grown, SameIdentity, Identity
<1> QED BY <1>1, <1>2 DEF Opened

(* The series of a ticket an anomaly was attributed to.                    *)
LEMMA SeriesOfTicket ==
  ASSUME TypeOK, NEW i \in Ids, NEW a \in Anomalies
  PROVE  /\ Opened[i] = Identity(tickets[i])
         /\ SameCascade(i, a) => Opened[i].series \in CascadeOf[a]
         /\ SameSeries(i, a) => Opened[i].series = OwnSeries[a]
<1>1. tickets[i] \in Row /\ Opened[i] = Identity(tickets[i])
  BY DEF TypeOK, Ids, Opened
<1>2. Opened[i].series = <<tickets[i].service, tickets[i].metric>>
      /\ Opened[i].series \in AllSeries
  BY <1>1 DEF Identity, Row, AllSeries
<1> QED
  BY <1>1, <1>2 DEF SameCascade, SameSeries, CascadeOf, OwnSeries

LEMMA InitKeepsPromise == Init => Promise!Init
<1> SUFFICES ASSUME Init PROVE Promise!Init
  OBVIOUS
<1>1. Opened = <<>>
  <2>1. tickets = <<>> /\ tickets \in Seq(Row) /\ Len(tickets) = 0
    BY EmptySeq DEF Init
  <2>2. Opened \in Seq(Ticket) /\ Len(Opened) = 0
    BY <2>1, OpenedType DEF Opened, Ids
  <2> QED BY <2>2, EmptySeq
<1> QED BY <1>1 DEF Init, Promise!Init

(* Every step maps to a step of Intake or to a stutter.                    *)
LEMMA StepKeepsPromise ==
  ASSUME IInv, HeraldInv, [Next]_vars
  PROVE  [Promise!Next]_(Promise!vars)
<1>1. /\ TypeOK /\ ThreadInv /\ PushInv /\ Grown
      /\ tickets \in Seq(Row) /\ Len(tickets) \in Nat
  BY StepGrown DEF IInv, TypeOK
<1>2. ASSUME NEW t \in Threads, UpdateForAnomaly(t) PROVE Promise!Next
  <2> PICK k, a : k = target[t] /\ a = cur[t]
    OBVIOUS
  <2>1. /\ a \in Anomalies /\ k \in Ids /\ Attributed(k, a) /\ processed[a] = 0
        /\ processed' = [processed EXCEPT ![a] = k]
        /\ UNCHANGED pushes /\ Len(tickets') = Len(tickets)
    BY <1>1, <1>2 DEF UpdateForAnomaly, ThreadInv, LocalInv, TypeOK, world
  <2>2. Opened' = Opened /\ Len(Opened) = Len(tickets)
    BY <1>1, <2>1, OpenedStays, OpenedType DEF Opened, Ids
  <2>3. Opened[k].series \in CascadeOf[a] \cup {OwnSeries[a]}
    BY <1>1, <2>1, SeriesOfTicket DEF Attributed
  <2>4. Promise!Join(a, k)
    BY <2>1, <2>2, <2>3 DEF Promise!Join, Promise!Place
  <2>5. k \in 1..Len(Opened)
    BY <2>1, <2>2 DEF Ids
  <2> QED BY <2>1, <2>4, <2>5 DEF Promise!Next
<1>3. ASSUME NEW t \in Threads, InsertForAnomaly(t) PROVE Promise!Next
  <2> PICK a : a = cur[t]
    OBVIOUS
  <2>1. /\ a \in Anomalies /\ processed[a] = 0
        /\ processed' = [processed EXCEPT ![a] = Len(tickets) + 1]
        /\ tickets' = Append(tickets, FromAnomaly(a))
        /\ UNCHANGED pushes
    BY <1>1, <1>3 DEF InsertForAnomaly, ThreadInv, LocalInv, TypeOK, world
  <2>2. Identity(FromAnomaly(a)) = [series |-> OwnSeries[a], src |-> a]
    BY <2>1, RowOfAnomaly DEF Identity, OwnSeries
  <2>3. Len(Opened) = Len(tickets)
    BY <1>1, OpenedType DEF Opened, Ids
  <2>4. Opened' = Append(Opened, [series |-> OwnSeries[a], src |-> a])
    BY <1>1, <2>1, <2>2, RowOfAnomaly, OpenedGrowsBy
  <2>5. Promise!Open(a)
    BY <2>1, <2>3, <2>4 DEF Promise!Open, Promise!Place
  <2> QED BY <2>1, <2>5 DEF Promise!Next
<1>4. ASSUME NEW t \in Threads, NEW s \in Services, NEW m \in Metrics,
             Create(t, s, m)
      PROVE  Promise!Next
  <2>1. Identity(Manual(s, m)) = [series |-> <<s, m>>, src |-> NoAnomaly]
    BY DEF Identity, Manual
  <2>2. Opened' = Append(Opened, [series |-> <<s, m>>, src |-> NoAnomaly])
    BY <1>1, <1>4, <2>1, RowByHand, OpenedGrowsBy DEF Create
  <2>3. Promise!OpenByHand(<<s, m>>) /\ <<s, m>> \in AllSeries
    BY <1>4, <2>2 DEF Create, Promise!OpenByHand, AllSeries
  <2> QED BY <2>3 DEF Promise!Next
<1>5. ASSUME NEW t \in Threads, PatchWrite(t) PROVE UNCHANGED Promise!vars
  <2>1. Len(tickets') = Len(tickets) /\ UNCHANGED <<processed, pushes>>
    BY <1>1, <1>5 DEF PatchWrite, world
  <2> QED BY <1>1, <2>1, OpenedStays DEF Promise!vars
<1>6. ASSUME NEW t \in Threads, Push(t) PROVE [Promise!Next]_(Promise!vars)
  <2>1. UNCHANGED <<tickets, processed>> /\ pc[t] = "pushing"
    BY <1>6 DEF Push
  <2>2. Opened' = Opened
    BY <1>1, <2>1, OpenedStays
  <2>3. CASE cur[t] = NoAnomaly
    <3>1. pushes' = pushes
      BY <1>1, <1>6, <2>3, IncidentAssumption DEF Push, TypeOK
    <3> QED BY <2>1, <2>2, <3>1 DEF Promise!vars
  <2>4. CASE cur[t] # NoAnomaly
    <3> PICK a : a = cur[t]
      OBVIOUS
    <3>1. a \in Anomalies /\ processed[a] # 0 /\ pushes[a] = 0
      BY <1>1, <2>1, <2>4 DEF PushInv, TypeOK
    <3> PICK k : k = processed[a]
      OBVIOUS
    <3>2. k \in Ids
      BY <3>1, MarkersStay
    <3>3. tickets[k].src = a \/ SameCascade(k, a)
      BY <2>1, <2>4 DEF HeraldInv, Herald
    <3>4. Opened[k].src = a \/ Opened[k].series \in CascadeOf[a]
      <4>1. Identity(tickets[k]).src = tickets[k].src
        BY DEF Identity
      <4>2. /\ Opened[k] = Identity(tickets[k])
            /\ SameCascade(k, a) => Opened[k].series \in CascadeOf[a]
        BY <1>1, <3>1, <3>2, SeriesOfTicket
      <4> QED BY <3>3, <4>1, <4>2
    <3>5. pushes' = [pushes EXCEPT ![a] = 1]
      <4>1. pushes' = [b \in Anomalies |-> IF b = a THEN pushes[b] + 1 ELSE pushes[b]]
        BY <1>6 DEF Push
      <4>2. pushes \in [Anomalies -> Nat] /\ pushes[a] + 1 = 1
        BY <1>1, <3>1 DEF TypeOK
      <4>3. pushes' = [b \in Anomalies |-> IF b = a THEN 1 ELSE pushes[b]]
        BY <4>1, <4>2
      <4> QED BY <4>2, <4>3
    <3>6. Promise!Announce(a)
      BY <2>1, <2>2, <3>1, <3>4, <3>5 DEF Promise!Announce
    <3> QED BY <3>1, <3>6 DEF Promise!Next
  <2> QED BY <2>3, <2>4
<1>7. CASE Quiet
  BY <1>1, <1>7, OpenedStays DEF Quiet, Promise!vars
<1> QED BY <1>2, <1>3, <1>4, <1>5, <1>6, <1>7, StepKinds

(* Whatever threads, transactions, crashes and redeliveries there are, the *)
(* incident manager keeps the promise of Intake about every anomaly: the   *)
(* queue's consumer and the webhook may handle it together, and what they  *)
(* read may be stale when they write it.                                   *)
THEOREM IntakeIsKept == Spec => ImplementsIntake
<1>1. Init => HeraldInv
  BY DEF Init, HeraldInv, Herald
<1>2. IInv /\ HeraldInv /\ [Next]_vars => HeraldInv'
  BY StepHerald
<1>3. IInv /\ HeraldInv /\ [Next]_vars => [Promise!Next]_(Promise!vars)
  BY StepKeepsPromise
<1> QED
  BY <1>1, <1>2, <1>3, InitKeepsPromise, Invariance, PTL
  DEF Spec, ImplementsIntake, Promise!Spec
=============================================================================
