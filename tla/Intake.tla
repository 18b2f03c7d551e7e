------------------------------- MODULE Intake -------------------------------
(***************************************************************************)
(* What the incident manager promises about each anomaly, independently of *)
(* threads, copies of rows, transactions and redeliveries.                 *)
(*                                                                         *)
(* An anomaly gets its place once: a ticket of its own, or one already     *)
(* there of its series or its cascade.  Tickets stay, in the order they    *)
(* were opened, with the series they were opened for.  An anomaly that     *)
(* opened a ticket, or widened it to one more service, is announced to the *)
(* control plane, once at most; a repetition on the ticket's own series is *)
(* not.                                                                    *)
(***************************************************************************)
EXTENDS Naturals, Sequences

CONSTANTS Anomalies, NoAnomaly,
          Series,      \* pairs of a service and a metric
          Own,         \* [Anomalies -> Series]
          Cascade      \* [Anomalies -> SUBSET Series]: related to, not its own

VARIABLES opened,      \* the tickets: series, and the anomaly if it was one
          place,       \* [Anomalies -> Nat], 0 for none yet
          announced    \* [Anomalies -> Nat]: how often

vars == <<opened, place, announced>>

Init ==
  /\ opened = <<>>
  /\ place = [a \in Anomalies |-> 0]
  /\ announced = [a \in Anomalies |-> 0]

OpenByHand(s) ==
  /\ opened' = Append(opened, [series |-> s, src |-> NoAnomaly])
  /\ UNCHANGED <<place, announced>>

Place(a, i) ==
  /\ place[a] = 0
  /\ place' = [place EXCEPT ![a] = i]
  /\ UNCHANGED announced

Open(a) ==
  /\ Place(a, Len(opened) + 1)
  /\ opened' = Append(opened, [series |-> Own[a], src |-> a])

Join(a, i) ==
  /\ Place(a, i)
  /\ opened[i].series \in Cascade[a] \cup {Own[a]}
  /\ UNCHANGED opened

Announce(a) ==
  /\ place[a] # 0 /\ announced[a] = 0
  /\ announced' = [announced EXCEPT ![a] = 1]
  /\ LET ticket == opened[place[a]]
     IN  ticket.src = a \/ ticket.series \in Cascade[a]
  /\ UNCHANGED <<opened, place>>

Next ==
  \/ \E s \in Series : OpenByHand(s)
  \/ \E a \in Anomalies :
       \/ Open(a) \/ Announce(a)
       \/ \E i \in 1..Len(opened) : Join(a, i)

Spec == Init /\ [][Next]_vars
=============================================================================
