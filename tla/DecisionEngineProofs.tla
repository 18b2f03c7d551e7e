------------------------ MODULE DecisionEngineProofs ------------------------
(***************************************************************************)
(* What holds of the decision engine for every set of requests and         *)
(* tickets, every threshold and every answer of the services it calls.     *)
(***************************************************************************)
EXTENDS DecisionEngine, TLAPS

-----------------------------------------------------------------------------
(* Type correctness *)

LEMMA BlankType == Blank \in Signals
  BY DEF Blank, Signals

LEMMA PolicyType ==
  ASSUME NEW s, NEW known, NEW n PROVE SelectAction(s, known, n) \in Actions
  BY DEF SelectAction, Actions, Ask

LEMMA InitInv == Init => IInv
<1> USE DecisionAssumption
<1> SUFFICES ASSUME Init PROVE IInv
  OBVIOUS
<1>1. TypeOK
  <2>1. NoRequest \in Input
    BY BlankType DEF NoRequest, Input
  <2>2. /\ ticket \in [Incidents -> Ticket] /\ pc \in [Requests -> PC]
        /\ chosen \in [Requests -> Actions] /\ action \in [Requests -> Actions]
    BY DEF Init, Ticket, PC, Actions
  <2>3. /\ opinion \in [Requests -> Opinions] /\ answer \in [Jobs -> Opinions]
        /\ job \in [Jobs -> JobStates]
    BY DEF Init, Opinions, JobStates
  <2>4. /\ req \in [Requests -> Input] /\ signals \in [Requests -> Signals]
        /\ fresh \in [Requests -> Signals]
    BY <2>1, BlankType DEF Init
  <2>5. /\ proposals \subseteq Requests \X {0, 1, 2}
        /\ incident \in [Requests -> Incidents \cup {NoIncident}]
        /\ round \in [Requests -> Nat] /\ enriched \in [Requests -> BOOLEAN]
        /\ escalated \in [Requests -> BOOLEAN] /\ llm \in [Requests -> BOOLEAN]
        /\ patched \in [Requests -> BOOLEAN] /\ call \in [Requests -> {1, 2}]
        /\ seen \in [Requests -> SUBSET Requests]
        /\ scored \in [Requests -> Nat] /\ faults \in Nat
    BY DEF Init
  <2> QED BY <2>2, <2>3, <2>4, <2>5 DEF TypeOK
<1>2. LoopInv /\ FreshInv
  BY DEF Init, LoopInv, FreshInv, Rounds
<1>3. ASSUME NEW r \in Requests
      PROVE  OutcomeInv(r) /\ TargetInv(r) /\ JobInv(r)
  <2>1. \A k \in {1, 2} : <<r, k>> \in Jobs
    BY DEF Jobs
  <2>2. OutcomeInv(r)
    BY DEF Init, OutcomeInv, Looping
  <2>3. TargetInv(r)
    BY DEF Init, TargetInv
  <2>4. JobInv(r)
    BY <2>1 DEF Init, JobInv, Looping
  <2> QED BY <2>2, <2>3, <2>4
<1>4. DecisionFollowsTable /\ OutcomeIsConsistent /\ EscalationReachesTicket
  BY DEF Init, DecisionFollowsTable, OutcomeIsConsistent,
         EscalationReachesTicket, Looping
<1> QED BY <1>1, <1>2, <1>3, <1>4 DEF IInv

LEMMA TicketNoted ==
  ASSUME TypeOK, NEW i \in Incidents, NEW by \in {"engine", "rca"},
         NEW status \in {"remediating", "investigating"}
  PROVE  /\ Noted(i, status, by) \in [Incidents -> Ticket]
         /\ \A k \in Incidents : Noted(i, status, by)[k].severe = ticket[k].severe
<1>1. /\ ticket \in [Incidents -> Ticket]
      /\ \A k \in Incidents : ticket[k] \in Ticket
  BY DEF TypeOK
<1>2. [ticket[i] EXCEPT !.status = status, !.notes = by] \in Ticket
  BY <1>1 DEF Ticket
<1>3. [ticket[i] EXCEPT !.status = status, !.notes = by].severe = ticket[i].severe
  BY <1>1 DEF Ticket
<1> QED BY <1>1, <1>2, <1>3 DEF Noted

LEMMA StepType == IInv /\ [Next]_vars => TypeOK'
<1> USE DecisionAssumption
<1> SUFFICES ASSUME IInv, [Next]_vars PROVE TypeOK'
  OBVIOUS
<1> TypeOK
  BY DEF IInv
<1>0. \A r \in Requests : TargetInv(r) /\ JobInv(r)
  BY DEF IInv
<1>1. CASE UNCHANGED vars
  BY <1>1 DEF vars, TypeOK
<1>2. ASSUME NEW r \in Requests, Decide(r) PROVE TypeOK'
  BY <1>2 DEF TypeOK, Decide, Goto, PC, Input, outside, analysis
<1>3. ASSUME NEW r \in Requests, Resolve(r) PROVE TypeOK'
  BY <1>3 DEF TypeOK, Resolve, Goto, PC, Input, Actions, outside, analysis
<1>4. ASSUME NEW r \in Requests, Evaluate(r) PROVE TypeOK'
  <2>1. /\ SelectAction(signals[r], KnownPattern(r, signals[r]), round[r])
             \in Actions
        /\ "escalate_oncall" \in Actions
    BY PolicyType DEF Actions
  <2>2. chosen' \in [Requests -> Actions] /\ action' \in [Requests -> Actions]
    BY <1>4, <2>1 DEF TypeOK, Evaluate
  <2>3. pc' \in [Requests -> PC]
    BY <1>4 DEF TypeOK, Evaluate, Goto, PC
  <2> QED BY <1>4, <2>2, <2>3 DEF TypeOK, Evaluate, outside, analysis
<1>5. ASSUME NEW r \in Requests, Enrich(r) PROVE TypeOK'
  BY <1>5 DEF TypeOK, Enrich, Refresh, Goto, PC, Fault, outside, analysis
<1>6. ASSUME NEW r \in Requests, ActRemediate(r) PROVE TypeOK'
  BY <1>6 DEF TypeOK, ActRemediate, Goto, PC, outside, locals, analysis
<1>7. ASSUME NEW r \in Requests, ActRca(r) PROVE TypeOK'
  BY <1>7 DEF TypeOK, ActRca, Goto, PC, Actions, outside, analysis
<1>8. ASSUME NEW r \in Requests, ActEscalate(r) PROVE TypeOK'
  BY <1>8 DEF TypeOK, ActEscalate, Goto, PC, outside, analysis
<1>9. ASSUME NEW r \in Requests, Propose(r) PROVE TypeOK'
  BY <1>9 DEF TypeOK, Propose, Call, Fault, Goto, PC, locals, analysis
<1>10. ASSUME NEW r \in Requests, Announce(r) \/ Annotate(r) PROVE TypeOK'
  <2>1. incident[r] \in Incidents
    BY <1>0, <1>10 DEF TargetInv, Announce, Annotate
  <2>2. ticket' \in [Incidents -> Ticket]
    BY <1>10, <2>1, TicketNoted DEF TypeOK, Announce, Annotate, Note, Call
  <2>3. /\ patched' \in [Requests -> BOOLEAN] /\ pc' \in [Requests -> PC]
        /\ faults' \in Nat
    <3>1. /\ patched' = [patched EXCEPT ![r] = TRUE]
          /\ pc' = [pc EXCEPT ![r] = "done"]
          /\ faults' \in {faults, faults + 1}
      BY <1>10 DEF Announce, Annotate, Note, Call, Fault, Goto
    <3> QED BY <3>1 DEF TypeOK, PC
  <2> QED
    BY <1>10, <2>2, <2>3 DEF TypeOK, Announce, Annotate, Note, analysis
<1>11. ASSUME NEW r \in Requests, AskRca(r) PROVE TypeOK'
  <2>1. job' \in [Jobs -> JobStates]
    BY <1>11 DEF TypeOK, AskRca, JobStates
  <2>2. /\ call' \in [Requests -> {1, 2}] /\ pc' \in [Requests -> PC]
        /\ faults' \in Nat
    BY <1>11 DEF TypeOK, AskRca, GiveUpCall, Fault, Goto, PC
  <2> QED BY <1>11, <2>1, <2>2 DEF TypeOK, AskRca, outside
<1>12. ASSUME NEW r \in Requests, HearRca(r) PROVE TypeOK'
  <2>1. answer[<<r, call[r]>>] \in Opinions
    BY DEF TypeOK, Jobs
  <2> QED BY <1>12, <2>1 DEF TypeOK, HearRca, Goto, PC, Actions, outside, analysis
<1>13. ASSUME NEW r \in Requests, LoseRca(r) PROVE TypeOK'
  BY <1>13 DEF TypeOK, LoseRca, GiveUpCall, Fault, Goto, PC, outside, analysis
<1>14. ASSUME NEW r \in Requests, ReadDescription(r) PROVE TypeOK'
  <2>1. seen' \in [Requests -> SUBSET Requests]
    <3>1. incident[r] \in Incidents
      BY <1>0, <1>14 DEF TargetInv, ReadDescription
    <3>2. ticket[incident[r]].explained \in SUBSET Requests
      BY <3>1 DEF TypeOK, Ticket
    <3> QED BY <1>14, <3>2 DEF TypeOK, ReadDescription
  <2> QED BY <1>14, <2>1 DEF TypeOK, ReadDescription, Fault, Goto, PC, outside, analysis
<1>15. ASSUME NEW r \in Requests, PatchEscalation(r) PROVE TypeOK'
  <2>1. [status |-> "investigating", severe |-> TRUE, notes |-> "engine",
         explained |-> seen[r] \cup {r}] \in Ticket
    BY DEF TypeOK, Ticket
  <2>2. ticket' \in [Incidents -> Ticket]
    <3> DEFINE t == [status |-> "investigating", severe |-> TRUE,
                     notes |-> "engine", explained |-> seen[r] \cup {r}]
    <3>1. ticket' \in {ticket, [ticket EXCEPT ![incident[r]] = t]}
      BY <1>15 DEF PatchEscalation
    <3>2. t \in Ticket
      BY <2>1
    <3> HIDE DEF t
    <3> QED BY <3>1, <3>2 DEF TypeOK
  <2>3. /\ patched' \in [Requests -> BOOLEAN] /\ pc' \in [Requests -> PC]
        /\ faults' \in Nat
    <3>1. /\ patched' \in {patched, [patched EXCEPT ![r] = TRUE]}
          /\ pc' = [pc EXCEPT ![r] = "done"]
          /\ faults' \in {faults, faults + 1}
      BY <1>15 DEF PatchEscalation, Fault, Goto
    <3>2. pc' \in [Requests -> PC] /\ faults' \in Nat
      BY <3>1 DEF TypeOK, PC
    <3>3. patched' \in [Requests -> BOOLEAN]
      BY <3>1 DEF TypeOK
    <3> QED BY <3>2, <3>3
  <2> QED BY <1>15, <2>2, <2>3 DEF TypeOK, PatchEscalation, analysis
<1>16. ASSUME NEW r \in Requests, Crash(r) PROVE TypeOK'
  BY <1>16 DEF TypeOK, Crash, Fault, Goto, PC, outside, locals, analysis
<1>17. ASSUME NEW j \in Jobs, Analyse(j) PROVE TypeOK'
  BY <1>17 DEF TypeOK, Analyse, Fault, JobStates, Opinions, outside, locals
<1>18. ASSUME NEW j \in Jobs, PersistRca(j) PROVE TypeOK'
  <2>1. incident[j[1]] \in Incidents
    <3>1. PICK r \in Requests, k \in {1, 2} : j = <<r, k>>
      BY DEF Jobs
    <3>2. job[<<r, k>>] # "absent" /\ j[1] = r
      BY <1>18, <3>1 DEF PersistRca
    <3>3. JobInv(r)
      BY <1>0
    <3>4. incident[r] \in Incidents
      BY <3>2, <3>3 DEF JobInv
    <3> QED BY <3>2, <3>4
  <2>2. ticket' \in [Incidents -> Ticket]
    <3>1. ticket' \in {ticket, Noted(incident[j[1]], "investigating", "rca")}
      BY <1>18 DEF PersistRca
    <3>2. Noted(incident[j[1]], "investigating", "rca") \in [Incidents -> Ticket]
      BY <2>1, TicketNoted
    <3> QED BY <3>1, <3>2 DEF TypeOK
  <2>3. job' \in [Jobs -> JobStates] /\ faults' \in Nat
    BY <1>18 DEF TypeOK, PersistRca, Fault, JobStates
  <2> QED BY <1>18, <2>2, <2>3 DEF TypeOK, PersistRca, locals
<1>19. ASSUME NEW j \in Jobs, SuggestRemediation(j) PROVE TypeOK'
  BY <1>19 DEF TypeOK, SuggestRemediation, Call, Fault, JobStates, Jobs, locals
<1> QED
  BY <1>1, <1>2, <1>3, <1>4, <1>5, <1>6, <1>7, <1>8, <1>9, <1>10, <1>11, <1>12,
     <1>13, <1>14, <1>15, <1>16, <1>17, <1>18, <1>19
     DEF Next, Step, JobStep

-----------------------------------------------------------------------------
(* The loop *)

LEMMA StepLoop == IInv /\ [Next]_vars => LoopInv' /\ FreshInv'
<1> USE DecisionAssumption
<1> SUFFICES ASSUME IInv, [Next]_vars PROVE LoopInv' /\ FreshInv'
  OBVIOUS
<1>0. /\ LoopInv /\ FreshInv
      /\ pc \in [Requests -> PC] /\ scored \in [Requests -> Nat]
      /\ round \in [Requests -> Nat] /\ enriched \in [Requests -> BOOLEAN]
      /\ signals \in [Requests -> Signals]
  BY DEF IInv, TypeOK
<1>1. Rounds \in Nat
  BY DEF Rounds
<1>2. CASE UNCHANGED vars
  BY <1>0, <1>2 DEF vars, LoopInv, FreshInv
<1>3. ASSUME NEW r \in Requests, Decide(r) PROVE LoopInv' /\ FreshInv'
  BY <1>0, <1>3 DEF LoopInv, FreshInv, Decide, Goto
<1>4. ASSUME NEW r \in Requests, Resolve(r) PROVE LoopInv' /\ FreshInv'
  BY <1>0, <1>4 DEF LoopInv, FreshInv, Resolve, Goto
<1>5. ASSUME NEW r \in Requests, Evaluate(r) PROVE LoopInv' /\ FreshInv'
  BY <1>0, <1>1, <1>5 DEF LoopInv, FreshInv, Evaluate, Goto
<1>6. ASSUME NEW r \in Requests, Enrich(r) PROVE LoopInv' /\ FreshInv'
  <2>1. FreshInv'
    BY <1>0, <1>6 DEF FreshInv, Enrich, Refresh
  <2>2. LoopInv'
    BY <1>0, <1>1, <1>6 DEF LoopInv, Enrich, Refresh, Goto
  <2> QED BY <2>1, <2>2
<1>7. ASSUME NEW r \in Requests,
             \/ ActRemediate(r) \/ ActRca(r) \/ ActEscalate(r)
             \/ Propose(r) \/ Announce(r) \/ Annotate(r)
             \/ AskRca(r) \/ HearRca(r) \/ LoseRca(r)
             \/ ReadDescription(r) \/ PatchEscalation(r) \/ Crash(r)
      PROVE  LoopInv' /\ FreshInv'
  <2>1. /\ UNCHANGED <<scored, enriched, round, signals, fresh>>
        /\ \E l \in PC \ {"enriching"} : pc' = [pc EXCEPT ![r] = l]
    BY <1>7
       DEF ActRemediate, ActRca, ActEscalate, Propose, Announce, Annotate, Note,
           AskRca, HearRca, LoseRca, GiveUpCall, ReadDescription,
           PatchEscalation, Crash, Goto, PC, locals
  <2> QED BY <1>0, <2>1 DEF LoopInv, FreshInv
<1>8. ASSUME NEW j \in Jobs, JobStep(j) PROVE LoopInv' /\ FreshInv'
  <2>1. UNCHANGED <<pc, scored, enriched, round, signals, fresh>>
    BY <1>8 DEF JobStep, Analyse, PersistRca, SuggestRemediation, locals
  <2> QED BY <1>0, <2>1 DEF LoopInv, FreshInv
<1> QED
  BY <1>2, <1>3, <1>4, <1>5, <1>6, <1>7, <1>8 DEF Next, Step

-----------------------------------------------------------------------------
(* The policy *)

(* Within the bounds of the loop select_action is what the table documents.*)
LEMMA PolicyIsTable ==
  ASSUME NEW r, NEW s \in Signals, NEW n \in Nat, n <= Rounds
  PROVE  Permitted(r, s, SelectAction(s, KnownPattern(r, s), n))
<1> USE DecisionAssumption
<1> DEFINE known == KnownPattern(r, s)
           band == Band(s.score)
           complete == s.missing \cap CriticalMissing = {}
           a == SelectAction(s, known, n)
<1>1. /\ known \in BOOLEAN /\ complete \in BOOLEAN
      /\ band \in {"high", "medium", "low"}
  BY DEF KnownPattern, Band
<1>2. ~ (n > Rounds)
  BY DEF Rounds
<1>3. /\ ~complete => a = "escalate_oncall"
      /\ complete /\ band = "high" /\ known => a = "auto_remediate_gated"
      /\ complete /\ band = "high" /\ ~known => a = Ask
      /\ complete /\ band = "medium" => a = Ask
      /\ complete /\ band = "low" => a = "escalate_oncall"
  BY <1>2 DEF SelectAction
<1> HIDE DEF known, band, complete, a
<1>4. \E row \in DecisionTable :
        /\ band \in row.bands /\ known \in row.known
        /\ row.context <=> complete
        /\ a = row.action
  BY <1>1, <1>3 DEF DecisionTable
<1> QED BY <1>4 DEF Permitted, known, band, complete, a

(* Once the loop is left nothing the table speaks of changes.              *)
LEMMA StepTable == IInv /\ [Next]_vars => DecisionFollowsTable'
<1> SUFFICES ASSUME IInv, [Next]_vars PROVE DecisionFollowsTable'
  OBVIOUS
<1>0. /\ LoopInv /\ FreshInv /\ DecisionFollowsTable
      /\ pc \in [Requests -> PC] /\ chosen \in [Requests -> Actions]
      /\ req \in [Requests -> Input] /\ round \in [Requests -> Nat]
      /\ fresh \in [Requests -> Signals]
  BY DEF IInv, TypeOK
<1> DEFINE Out(q) == pc[q] \notin Looping \cup {"gone"} /\ req[q].force = "none"
           Fine(q) == Out(q) => Permitted(q, fresh[q], chosen[q])
<1>1. SUFFICES ASSUME NEW q \in Requests PROVE Fine(q)'
  BY DEF DecisionFollowsTable
<1>2. Fine(q)
  BY <1>0 DEF DecisionFollowsTable
<1>3. ASSUME UNCHANGED <<req[q], fresh[q], chosen[q]>>, Out(q)' => Out(q)
      PROVE  Fine(q)'
  BY <1>2, <1>3 DEF Permitted, KnownPattern
<1>4. CASE UNCHANGED vars
  BY <1>3, <1>4 DEF vars
<1>5. ASSUME NEW r \in Requests, Decide(r) \/ Resolve(r) \/ Enrich(r)
      PROVE  Fine(q)'
  <2>1. CASE q = r
    <3>1. ~Out(q)'
      BY <1>0, <1>5, <2>1 DEF Decide, Resolve, Enrich, Refresh, Goto, Looping
    <3> QED BY <3>1
  <2>2. CASE q # r
    <3>1. UNCHANGED <<req[q], fresh[q], chosen[q], pc[q]>>
      BY <1>0, <1>5, <2>2 DEF Decide, Resolve, Enrich, Refresh, Goto
    <3> QED BY <1>3, <3>1
  <2> QED BY <2>1, <2>2
<1>6. ASSUME NEW r \in Requests, Evaluate(r) PROVE Fine(q)'
  <2>1. UNCHANGED <<req, fresh, signals>>
    BY <1>6 DEF Evaluate
  <2>2. CASE q = r /\ pc'[q] = "acting"
    <3>1. chosen'[q] = SelectAction(signals[q], KnownPattern(q, signals[q]), round[q])
      BY <1>0, <1>6, <2>2 DEF Evaluate, Goto
    <3>2. Permitted(q, signals[q], chosen'[q])
      BY <1>0, <3>1, PolicyIsTable DEF LoopInv, FreshInv
    <3> QED BY <1>0, <2>1, <3>2 DEF FreshInv, Permitted, KnownPattern
  <2>3. CASE q = r /\ pc'[q] # "acting"
    <3>1. ~Out(q)'
      BY <1>0, <1>6, <2>3 DEF Evaluate, Goto, Looping
    <3> QED BY <3>1
  <2>4. CASE q # r
    <3>1. UNCHANGED <<chosen[q], pc[q]>>
      BY <1>0, <1>6, <2>4 DEF Evaluate, Goto
    <3> QED BY <1>3, <2>1, <3>1
  <2> QED BY <2>2, <2>3, <2>4
<1>7. ASSUME NEW r \in Requests,
             \/ ActRemediate(r) \/ ActRca(r) \/ ActEscalate(r)
             \/ Propose(r) \/ Announce(r) \/ Annotate(r)
             \/ AskRca(r) \/ HearRca(r) \/ LoseRca(r)
             \/ ReadDescription(r) \/ PatchEscalation(r) \/ Crash(r)
      PROVE  Fine(q)'
  <2>1. /\ UNCHANGED <<req, fresh, chosen>>
        /\ \E l : pc' = [pc EXCEPT ![r] = l]
    BY <1>7
       DEF ActRemediate, ActRca, ActEscalate, Propose, Announce, Annotate, Note,
           AskRca, HearRca, LoseRca, GiveUpCall, ReadDescription,
           PatchEscalation, Crash, Goto, locals
  <2>2. pc[r] \notin Looping \/ pc'[r] = "gone"
    BY <1>0, <1>7
       DEF ActRemediate, ActRca, ActEscalate, Propose, Announce, Annotate, Note,
           AskRca, HearRca, LoseRca, ReadDescription, PatchEscalation, Crash,
           Goto, Looping
  <2>3. pc[r] # "gone"
    BY <1>7
       DEF ActRemediate, ActRca, ActEscalate, Propose, Announce, Annotate,
           AskRca, HearRca, LoseRca, ReadDescription, PatchEscalation, Crash
  <2>4. Out(q)' => Out(q)
    BY <1>0, <2>1, <2>2, <2>3
  <2> QED BY <1>3, <2>1, <2>4
<1>8. ASSUME NEW j \in Jobs, JobStep(j) PROVE Fine(q)'
  <2>1. UNCHANGED <<req, fresh, chosen, pc>>
    BY <1>8 DEF JobStep, Analyse, PersistRca, SuggestRemediation, locals
  <2> QED BY <1>3, <2>1
<1> QED
  BY <1>4, <1>5, <1>6, <1>7, <1>8 DEF Next, Step

-----------------------------------------------------------------------------
(* What a decision says of itself *)

Story(r) ==
  pc[r] = "done" =>
    /\ escalated[r] <=> action[r] \notin Automatic
    /\ ~escalated[r] => action[r] = chosen[r] /\ opinion[r] # "unsure"
    /\ llm[r] <=> chosen[r] = "rca_suggest"

LEMMA StepOutcome ==
  IInv /\ [Next]_vars =>
    OutcomeIsConsistent' /\ \A r \in Requests : OutcomeInv(r)'
<1> SUFFICES ASSUME IInv, [Next]_vars, NEW q \in Requests
             PROVE  OutcomeInv(q)' /\ Story(q)'
  BY DEF OutcomeIsConsistent, Story, Automatic
<1>0. /\ OutcomeInv(q) /\ Story(q)
      /\ pc \in [Requests -> PC] /\ chosen \in [Requests -> Actions]
      /\ action \in [Requests -> Actions] /\ llm \in [Requests -> BOOLEAN]
      /\ escalated \in [Requests -> BOOLEAN]
      /\ opinion \in [Requests -> Opinions]
  BY DEF IInv, TypeOK, OutcomeIsConsistent, Story, Automatic
<1> DEFINE own == <<pc[q], chosen[q], action[q], escalated[q], llm[q], opinion[q]>>
<1>1. ASSUME UNCHANGED own PROVE OutcomeInv(q)' /\ Story(q)'
  BY <1>0, <1>1 DEF OutcomeInv, Story
<1>2. CASE UNCHANGED vars
  BY <1>1, <1>2 DEF vars
<1>3. ASSUME NEW j \in Jobs, JobStep(j) PROVE OutcomeInv(q)' /\ Story(q)'
  <2>1. UNCHANGED own
    BY <1>3 DEF JobStep, Analyse, PersistRca, SuggestRemediation, locals
  <2> QED BY <1>1, <2>1
<1>4. ASSUME NEW r \in Requests, Decide(r) \/ Step(r) \/ Crash(r), r # q
      PROVE  OutcomeInv(q)' /\ Story(q)'
  <2>1. CASE Decide(r) \/ Resolve(r) \/ Evaluate(r) \/ Enrich(r) \/ Crash(r)
    <3>1. UNCHANGED own
      BY <1>0, <1>4, <2>1
         DEF Decide, Resolve, Evaluate, Enrich, Refresh, Crash, Goto, locals
    <3> QED BY <1>1, <3>1
  <2>2. CASE \/ ActRemediate(r) \/ ActRca(r) \/ ActEscalate(r)
             \/ Propose(r) \/ Announce(r) \/ Annotate(r)
    <3>1. UNCHANGED own
      BY <1>0, <1>4, <2>2
         DEF ActRemediate, ActRca, ActEscalate, Propose, Announce, Annotate,
             Note, Goto, locals
    <3> QED BY <1>1, <3>1
  <2>3. CASE \/ AskRca(r) \/ HearRca(r) \/ LoseRca(r)
             \/ ReadDescription(r) \/ PatchEscalation(r)
    <3>1. UNCHANGED own
      BY <1>0, <1>4, <2>3
         DEF AskRca, HearRca, LoseRca, GiveUpCall, ReadDescription,
             PatchEscalation, Goto
    <3> QED BY <1>1, <3>1
  <2> QED BY <1>4, <2>1, <2>2, <2>3 DEF Step
<1>5. CASE Decide(q) \/ Enrich(q) \/ Crash(q)
  BY <1>0, <1>5
     DEF OutcomeInv, Story, Decide, Enrich, Refresh, Crash, Goto, Looping, locals
<1>6. CASE Resolve(q)
  BY <1>0, <1>6 DEF OutcomeInv, Story, Resolve, Goto, Looping
<1>7. CASE Evaluate(q)
  <2>1. CASE pc'[q] = "enriching"
    BY <1>0, <1>7, <2>1 DEF OutcomeInv, Story, Evaluate, Goto, Looping
  <2>2. CASE pc'[q] = "acting"
    <3>1. /\ UNCHANGED <<escalated, llm, opinion>> /\ pc[q] = "deciding"
          /\ \/ action'[q] = chosen'[q]
             \/ action'[q] = "escalate_oncall" /\ chosen'[q] = "handoff_exhausted"
      BY <1>0, <1>7, <2>2 DEF Evaluate, Goto
    <3> QED BY <1>0, <2>2, <3>1 DEF OutcomeInv, Story, Looping, Automatic
  <2> QED BY <1>0, <1>7, <2>1, <2>2 DEF Evaluate, Goto
<1>8. CASE ActRemediate(q) \/ Propose(q) \/ Announce(q)
  BY <1>0, <1>8
     DEF OutcomeInv, Story, ActRemediate, Propose, Announce, Note, Goto,
         Looping, Automatic, locals
<1>9. CASE ActRca(q)
  <2>1. /\ pc[q] = "acting" /\ llm'[q] /\ UNCHANGED <<chosen, opinion>>
        /\ action[q] = "rca_suggest"
    BY <1>0, <1>9 DEF ActRca
  <2>2. CASE ~req[q].dry /\ EnableLlm /\ incident[q] = NoIncident
    <3>1. pc'[q] = "done" /\ action'[q] = "escalate_oncall" /\ escalated'[q]
      BY <1>0, <1>9, <2>2 DEF ActRca, Goto, Targeted
    <3> QED BY <1>0, <2>1, <3>1 DEF OutcomeInv, Story, Looping, Automatic
  <2>3. CASE ~(~req[q].dry /\ EnableLlm /\ incident[q] = NoIncident)
    <3>1. pc'[q] \in {"asking", "done"} /\ UNCHANGED <<action, escalated>>
      BY <1>0, <1>9, <2>3 DEF ActRca, Goto
    <3> QED BY <1>0, <2>1, <3>1 DEF OutcomeInv, Story, Looping, Automatic
  <2> QED BY <2>2, <2>3
<1>10. CASE ActEscalate(q)
  BY <1>0, <1>10 DEF OutcomeInv, Story, ActEscalate, Goto, Looping, Automatic
<1>11. CASE Annotate(q)
  BY <1>0, <1>11 DEF OutcomeInv, Story, Annotate, Note, Goto, Looping, Automatic
<1>12. CASE AskRca(q) \/ LoseRca(q)
  BY <1>0, <1>12
     DEF OutcomeInv, Story, AskRca, LoseRca, GiveUpCall, Goto, Looping
<1>13. CASE HearRca(q)
  <2>1. /\ pc[q] = "waiting" /\ UNCHANGED <<llm, chosen>>
        /\ opinion'[q] = answer[<<q, call[q]>>]
    BY <1>0, <1>13 DEF HearRca
  <2>2. CASE answer[<<q, call[q]>>] = "unsure"
    <3>1. pc'[q] = "reading" /\ action'[q] = "escalate_oncall" /\ escalated'[q]
      BY <1>0, <1>13, <2>2 DEF HearRca, Goto
    <3> QED BY <1>0, <2>1, <3>1 DEF OutcomeInv, Story, Looping, Automatic
  <2>3. CASE answer[<<q, call[q]>>] # "unsure"
    <3>1. pc'[q] = "annotating" /\ UNCHANGED <<action, escalated>>
      BY <1>0, <1>13, <2>3 DEF HearRca, Goto
    <3> QED BY <1>0, <2>1, <2>3, <3>1 DEF OutcomeInv, Story, Looping
  <2> QED BY <2>2, <2>3
<1>14. CASE ReadDescription(q) \/ PatchEscalation(q)
  <2>1. /\ pc[q] \in {"reading", "escalating"}
        /\ pc'[q] \in {"escalating", "done"}
        /\ UNCHANGED <<chosen, action, escalated, llm, opinion>>
    BY <1>0, <1>14 DEF ReadDescription, PatchEscalation, Goto
  <2> QED BY <1>0, <2>1 DEF OutcomeInv, Story, Looping
<1> QED
  BY <1>2, <1>3, <1>4, <1>5, <1>6, <1>7, <1>8, <1>9, <1>10, <1>11, <1>12, <1>13,
     <1>14
     DEF Next, Step

-----------------------------------------------------------------------------
(* The ticket of an escalation *)

Reached(r) ==
  pc[r] = "done" /\ escalated[r] /\ patched[r] => ticket[incident[r]].severe

LEMMA StepTarget ==
  IInv /\ [Next]_vars =>
    EscalationReachesTicket' /\ \A r \in Requests : TargetInv(r)'
<1> SUFFICES ASSUME IInv, [Next]_vars, NEW q \in Requests
             PROVE  TargetInv(q)' /\ Reached(q)'
  BY DEF EscalationReachesTicket, Reached
<1>0. /\ TargetInv(q) /\ Reached(q) /\ OutcomeInv(q) /\ TypeOK
      /\ \A r \in Requests : TargetInv(r) /\ JobInv(r)
      /\ pc \in [Requests -> PC] /\ escalated \in [Requests -> BOOLEAN]
      /\ patched \in [Requests -> BOOLEAN]
      /\ incident \in [Requests -> Incidents \cup {NoIncident}]
  BY DEF IInv, TypeOK, EscalationReachesTicket, Reached
<1> DEFINE own == <<pc[q], escalated[q], patched[q], incident[q]>>
<1>1. ASSUME UNCHANGED own,
             \A i \in Incidents : ticket[i].severe => ticket'[i].severe
      PROVE  TargetInv(q)' /\ Reached(q)'
  BY <1>0, <1>1 DEF TargetInv, Reached
<1>2. CASE UNCHANGED vars
  BY <1>1, <1>2 DEF vars
(* No PATCH lowers the severity.                                           *)
<1>3. ASSUME NEW r \in Requests, Announce(r) \/ Annotate(r),
             NEW i \in Incidents, ticket[i].severe
      PROVE  ticket'[i].severe
  <2>1. incident[r] \in Incidents
    BY <1>0, <1>3 DEF TargetInv, Announce, Annotate
  <2>2. \/ ticket' = ticket
        \/ ticket' = Noted(incident[r], "remediating", "engine")
        \/ ticket' = Noted(incident[r], "investigating", "engine")
    BY <1>3 DEF Announce, Annotate, Note, Call
  <2> QED BY <1>0, <1>3, <2>1, <2>2, TicketNoted
<1>4. ASSUME NEW j \in Jobs, PersistRca(j), NEW i \in Incidents, ticket[i].severe
      PROVE  ticket'[i].severe
  <2>1. incident[j[1]] \in Incidents
    <3>1. PICK r \in Requests, k \in {1, 2} : j = <<r, k>>
      BY DEF Jobs
    <3>2. job[<<r, k>>] # "absent" /\ j[1] = r
      BY <1>4, <3>1 DEF PersistRca
    <3>3. JobInv(r)
      BY <1>0
    <3>4. incident[r] \in Incidents
      BY <3>2, <3>3 DEF JobInv
    <3> QED BY <3>2, <3>4
  <2>2. ticket' \in {ticket, Noted(incident[j[1]], "investigating", "rca")}
    BY <1>4 DEF PersistRca
  <2> QED BY <1>0, <1>4, <2>1, <2>2, TicketNoted
<1>5. ASSUME NEW r \in Requests, PatchEscalation(r)
      PROVE  /\ \A i \in Incidents : ticket[i].severe => ticket'[i].severe
             /\ ticket' # ticket => ticket'[incident[r]].severe
             /\ patched'[r] = patched[r] \/ ticket'[incident[r]].severe
  <2> DEFINE t == [status |-> "investigating", severe |-> TRUE,
                   notes |-> "engine", explained |-> seen[r] \cup {r}]
  <2>1. t.severe
    OBVIOUS
  <2>2. incident[r] \in Incidents /\ ticket \in [Incidents -> Ticket]
    BY <1>0, <1>5 DEF TargetInv, PatchEscalation, TypeOK
  <2>3. \/ ticket' = [ticket EXCEPT ![incident[r]] = t]
        \/ ticket' = ticket /\ patched' = patched
    BY <1>5 DEF PatchEscalation
  <2> HIDE DEF t
  <2> QED BY <2>1, <2>2, <2>3
<1>6. ASSUME NEW r \in Requests, r # q, Decide(r) \/ Step(r) \/ Crash(r)
      PROVE  TargetInv(q)' /\ Reached(q)'
  <2>1. CASE Decide(r) \/ Resolve(r) \/ Evaluate(r) \/ Enrich(r) \/ Crash(r)
    <3>1. UNCHANGED own /\ UNCHANGED ticket
      BY <1>0, <1>6, <2>1
         DEF Decide, Resolve, Evaluate, Enrich, Refresh, Crash, Goto, locals, outside
    <3> QED BY <1>1, <3>1
  <2>2. CASE \/ ActRemediate(r) \/ ActRca(r) \/ ActEscalate(r) \/ Propose(r)
             \/ AskRca(r) \/ HearRca(r) \/ LoseRca(r) \/ ReadDescription(r)
    <3>1. UNCHANGED own /\ UNCHANGED ticket
      BY <1>0, <1>6, <2>2
         DEF ActRemediate, ActRca, ActEscalate, Propose, AskRca, HearRca,
             LoseRca, GiveUpCall, ReadDescription, Goto, locals, outside
    <3> QED BY <1>1, <3>1
  <2>3. CASE Announce(r) \/ Annotate(r)
    <3>1. UNCHANGED own
      BY <1>0, <1>6, <2>3 DEF Announce, Annotate, Note, Goto
    <3> QED BY <1>1, <1>3, <2>3, <3>1
  <2>4. CASE PatchEscalation(r)
    <3>1. UNCHANGED own
      BY <1>0, <1>6, <2>4 DEF PatchEscalation, Goto
    <3> QED BY <1>1, <1>5, <2>4, <3>1
  <2> QED BY <1>6, <2>1, <2>2, <2>3, <2>4 DEF Step
<1>7. CASE Decide(q) \/ Resolve(q) \/ Evaluate(q) \/ Enrich(q) \/ Crash(q)
  <2>1. ~patched'[q]
    BY <1>0, <1>7
       DEF Decide, Resolve, Evaluate, Enrich, Refresh, Crash, TargetInv, locals
  <2>2. pc'[q] \in Looping \cup {"acting", "gone"}
    BY <1>0, <1>7 DEF Decide, Resolve, Evaluate, Enrich, Refresh, Crash, Goto, Looping
  <2> QED BY <2>1, <2>2 DEF TargetInv, Reached, Looping
<1>8. CASE \/ ActRemediate(q) \/ ActRca(q) \/ ActEscalate(q) \/ Propose(q)
           \/ AskRca(q) \/ HearRca(q) \/ LoseRca(q) \/ ReadDescription(q)
  <2>1. UNCHANGED <<incident, patched>> /\ ~patched[q]
    BY <1>0, <1>8
       DEF ActRemediate, ActRca, ActEscalate, Propose, AskRca, HearRca, LoseRca,
           ReadDescription, TargetInv, locals
  <2>2. pc'[q] = "done" \/ incident[q] \in Incidents
    <3>1. CASE ActRemediate(q) \/ ActRca(q) \/ ActEscalate(q)
      BY <1>0, <3>1 DEF ActRemediate, ActRca, ActEscalate, Goto, Targeted
    <3>2. CASE \/ Propose(q) \/ AskRca(q) \/ HearRca(q) \/ LoseRca(q)
               \/ ReadDescription(q)
      BY <1>0, <3>2
         DEF Propose, AskRca, HearRca, LoseRca, ReadDescription, TargetInv
    <3> QED BY <1>8, <3>1, <3>2
  <2> QED BY <2>1, <2>2 DEF TargetInv, Reached
<1>9. CASE Announce(q) \/ Annotate(q)
  <2>1. /\ pc'[q] = "done" /\ ~escalated'[q]
    BY <1>0, <1>9 DEF OutcomeInv, Announce, Annotate, Note, Goto
  <2> QED BY <2>1 DEF TargetInv, Reached
<1>10. CASE PatchEscalation(q)
  <2>1. /\ pc'[q] = "done" /\ UNCHANGED incident /\ incident[q] \in Incidents
        /\ ~patched[q]
    BY <1>0, <1>10 DEF TargetInv, PatchEscalation, Goto
  <2>2. patched'[q] => ticket'[incident[q]].severe
    BY <1>5, <1>10, <2>1
  <2> QED BY <2>1, <2>2 DEF TargetInv, Reached
<1>11. ASSUME NEW j \in Jobs, JobStep(j) PROVE TargetInv(q)' /\ Reached(q)'
  <2>1. UNCHANGED own
    BY <1>11 DEF JobStep, Analyse, PersistRca, SuggestRemediation, locals
  <2>2. PersistRca(j) \/ UNCHANGED ticket
    BY <1>11 DEF JobStep, Analyse, SuggestRemediation, outside
  <2> QED BY <1>1, <1>4, <2>1, <2>2
<1> QED
  BY <1>2, <1>6, <1>7, <1>8, <1>9, <1>10, <1>11 DEF Next, Step

-----------------------------------------------------------------------------
(* Analyses and proposals *)

LEMMA FaultsGrow ==
  TypeOK /\ [Next]_vars => faults' \in Nat /\ faults' >= faults
<1> SUFFICES ASSUME TypeOK, [Next]_vars
             PROVE  faults' \in Nat /\ faults' >= faults
  OBVIOUS
<1>1. faults \in Nat
  BY DEF TypeOK
<1>2. faults' \in {faults, faults + 1}
  <2>1. ASSUME NEW r \in Requests, Decide(r) \/ Crash(r)
        PROVE  faults' \in {faults, faults + 1}
    BY <2>1 DEF Decide, Crash, Fault
  <2>2. ASSUME NEW r \in Requests, Step(r)
        PROVE  faults' \in {faults, faults + 1}
    <3>1. CASE \/ Resolve(r) \/ Evaluate(r) \/ Enrich(r)
               \/ ActRemediate(r) \/ ActRca(r) \/ ActEscalate(r)
      BY <3>1
         DEF Resolve, Evaluate, Enrich, Refresh, ActRemediate, ActRca, ActEscalate, Fault
    <3>2. CASE \/ Propose(r) \/ Announce(r) \/ Annotate(r)
               \/ ReadDescription(r) \/ PatchEscalation(r)
      BY <3>2
         DEF Propose, Announce, Annotate, Note, Call, ReadDescription,
             PatchEscalation, Fault
    <3>3. CASE AskRca(r) \/ HearRca(r) \/ LoseRca(r)
      BY <3>3 DEF AskRca, HearRca, LoseRca, Fault
    <3> QED BY <2>2, <3>1, <3>2, <3>3 DEF Step
  <2>3. ASSUME NEW j \in Jobs, JobStep(j)
        PROVE  faults' \in {faults, faults + 1}
    BY <2>3 DEF JobStep, Analyse, PersistRca, SuggestRemediation, Call, Fault
  <2> QED BY <2>1, <2>2, <2>3 DEF Next, vars
<1> QED BY <1>1, <1>2

LEMMA StepJob == IInv /\ [Next]_vars => \A r \in Requests : JobInv(r)'
<1> SUFFICES ASSUME IInv, [Next]_vars, NEW q \in Requests PROVE JobInv(q)'
  OBVIOUS
<1>0. /\ JobInv(q) /\ OutcomeInv(q) /\ TargetInv(q)
      /\ pc \in [Requests -> PC] /\ chosen \in [Requests -> Actions]
      /\ incident \in [Requests -> Incidents \cup {NoIncident}]
      /\ call \in [Requests -> {1, 2}] /\ job \in [Jobs -> JobStates]
      /\ faults \in Nat
  BY DEF IInv, TypeOK
<1>f. faults' \in Nat /\ faults' >= faults
  BY FaultsGrow DEF IInv
<1>j. \A r \in Requests : \A k \in {1, 2} : <<r, k>> \in Jobs
  BY DEF Jobs
<1> DEFINE own  == <<pc[q], chosen[q], incident[q], call[q]>>
           jobs == <<job[<<q, 1>>], job[<<q, 2>>]>>
           said == <<(<<q, 0>> \in proposals), (<<q, 1>> \in proposals),
                     (<<q, 2>> \in proposals)>>
<1>1. ASSUME UNCHANGED own, UNCHANGED jobs, UNCHANGED said PROVE JobInv(q)'
  BY <1>0, <1>f, <1>1 DEF JobInv
<1>2. CASE UNCHANGED vars
  BY <1>1, <1>2 DEF vars
<1>3. ASSUME NEW r \in Requests, r # q, Decide(r) \/ Step(r) \/ Crash(r)
      PROVE  JobInv(q)'
  <2>1. CASE Decide(r) \/ Resolve(r) \/ Evaluate(r) \/ Enrich(r) \/ Crash(r)
    <3>1. UNCHANGED own /\ UNCHANGED <<job, proposals>>
      BY <1>0, <1>3, <2>1
         DEF Decide, Resolve, Evaluate, Enrich, Refresh, Crash, Goto, locals, outside,
             analysis
    <3> QED BY <1>1, <3>1
  <2>2. CASE \/ ActRemediate(r) \/ ActRca(r) \/ ActEscalate(r)
             \/ Announce(r) \/ Annotate(r) \/ HearRca(r) \/ LoseRca(r)
             \/ ReadDescription(r) \/ PatchEscalation(r)
    <3>1. UNCHANGED own /\ UNCHANGED <<job, proposals>>
      BY <1>0, <1>3, <2>2
         DEF ActRemediate, ActRca, ActEscalate, Announce, Annotate, Note,
             HearRca, LoseRca, GiveUpCall, ReadDescription, PatchEscalation,
             Goto, locals, outside, analysis
    <3> QED BY <1>1, <3>1
  <2>3. CASE Propose(r)
    <3>1. UNCHANGED own /\ UNCHANGED job
      BY <1>0, <1>3, <2>3 DEF Propose, Goto, locals, analysis
    <3>2. proposals' \in {proposals, proposals \cup {<<r, 0>>}}
      BY <2>3 DEF Propose, Call
    <3>3. UNCHANGED said
      BY <1>3, <3>2
    <3> QED BY <1>1, <3>1, <3>3
  <2>4. CASE AskRca(r)
    <3>1. UNCHANGED own /\ UNCHANGED proposals
      BY <1>0, <1>3, <2>4 DEF AskRca, GiveUpCall, Goto, outside
    <3>2. job' \in {job, [job EXCEPT ![<<r, call[r]>>] = "gathering"]}
      BY <2>4 DEF AskRca
    <3>3. UNCHANGED jobs
      BY <1>0, <1>3, <1>j, <3>2
    <3> QED BY <1>1, <3>1, <3>3
  <2> QED BY <1>3, <2>1, <2>2, <2>3, <2>4 DEF Step
<1>4. CASE Decide(q) \/ Resolve(q) \/ Evaluate(q)
  <2>1. /\ UNCHANGED <<job, proposals, call>> /\ pc[q] \in Looping
        /\ pc'[q] \in Looping \cup {"acting"}
    BY <1>0, <1>4
       DEF Decide, Resolve, Evaluate, Goto, Looping, outside, analysis
  <2> QED BY <1>0, <1>f, <2>1 DEF JobInv, Looping
<1>5. CASE Enrich(q) \/ Crash(q)
  <2>1. /\ UNCHANGED <<job, proposals, call, chosen, incident>>
        /\ pc'[q] \in {"deciding", "gone"}
        /\ pc'[q] = "deciding" => pc[q] = "enriching"
    BY <1>0, <1>5 DEF Enrich, Refresh, Crash, Goto, locals, outside, analysis
  <2> QED BY <1>0, <1>f, <2>1 DEF JobInv, Looping
<1>6. CASE ActRemediate(q) \/ ActRca(q) \/ ActEscalate(q)
  <2>1. /\ UNCHANGED <<job, proposals, call, chosen, incident>>
        /\ pc[q] = "acting"
        /\ pc'[q] \in {"proposing", "done", "asking", "reading"}
    BY <1>0, <1>6
       DEF ActRemediate, ActRca, ActEscalate, Goto, locals, outside, analysis
  <2>2. call[q] = 1 /\ \A k \in {1, 2} : job[<<q, k>>] = "absent"
    BY <1>0, <2>1 DEF JobInv
  <2> QED BY <1>0, <1>f, <2>1, <2>2 DEF JobInv
<1>7. CASE Propose(q)
  <2>1. /\ UNCHANGED <<job, call, chosen, incident>>
        /\ pc[q] = "proposing" /\ pc'[q] = "announcing"
    BY <1>0, <1>7 DEF Propose, Goto, locals, analysis
  <2>2. chosen[q] = "auto_remediate_gated"
    BY <1>0, <2>1 DEF OutcomeInv
  <2>3. proposals' \in {proposals, proposals \cup {<<q, 0>>}}
    BY <1>7 DEF Propose, Call
  <2>4. \A k \in {1, 2} : <<q, k>> \in proposals' => <<q, k>> \in proposals
    BY <2>3
  <2> QED BY <1>0, <1>f, <2>1, <2>2, <2>4 DEF JobInv, Looping
<1>8. CASE Announce(q) \/ Annotate(q) \/ ReadDescription(q) \/ PatchEscalation(q)
  <2>1. /\ UNCHANGED <<job, proposals, call, chosen, incident>>
        /\ pc[q] \in {"announcing", "annotating", "reading", "escalating"}
        /\ pc'[q] \in {"done", "escalating"}
    BY <1>0, <1>8
       DEF Announce, Annotate, Note, ReadDescription, PatchEscalation, Goto,
           outside, analysis
  <2> QED BY <1>0, <1>f, <2>1 DEF JobInv, Looping
<1>9. CASE HearRca(q)
  <2>1. /\ UNCHANGED <<job, proposals, call, chosen, incident>>
        /\ pc[q] = "waiting" /\ pc'[q] \in {"annotating", "reading"}
    BY <1>0, <1>9 DEF HearRca, Goto, outside, analysis
  <2> QED BY <1>0, <1>f, <2>1 DEF JobInv, Looping
<1>10. ASSUME pc[q] \in {"asking", "waiting"}, Fault, GiveUpCall(q),
              UNCHANGED <<job, proposals, chosen, incident>>
       PROVE  JobInv(q)'
  <2>1. faults' > 0 /\ call'[q] = 2
    BY <1>0, <1>10 DEF Fault, GiveUpCall
  <2>2. pc'[q] = IF call[q] = 1 THEN "asking" ELSE "annotating"
    BY <1>0, <1>10 DEF GiveUpCall, Goto
  <2>3. pc'[q] = "asking" => job[<<q, 2>>] = "absent"
    BY <1>0, <2>2 DEF JobInv
  <2> QED BY <1>0, <1>10, <2>1, <2>2, <2>3 DEF JobInv, Looping
<1>11. CASE LoseRca(q)
  BY <1>10, <1>11 DEF LoseRca, outside, analysis
<1>12. CASE AskRca(q)
  <2>1. pc[q] = "asking" /\ UNCHANGED <<proposals, chosen, incident>>
    BY <1>12 DEF AskRca, outside
  <2>2. CASE pc'[q] = "waiting"
    <3>1. /\ job' = [job EXCEPT ![<<q, call[q]>>] = "gathering"]
          /\ UNCHANGED call
      BY <1>0, <1>12, <2>2 DEF AskRca, GiveUpCall, Goto
    <3>2. chosen[q] = "rca_suggest" /\ incident[q] \in Incidents
      BY <1>0, <2>1 DEF OutcomeInv, TargetInv
    <3>3. call[q] \in {1, 2} /\ job[<<q, call[q]>>] = "absent"
      BY <1>0, <2>1 DEF JobInv
    <3>4. ASSUME NEW k \in {1, 2}
          PROVE  /\ k # call[q] => job'[<<q, k>>] = job[<<q, k>>]
                 /\ k = call[q] => job'[<<q, k>>] = "gathering"
      BY <1>0, <1>j, <3>1
    <3>5. \A k \in {1, 2} : <<q, k>> \in proposals => job'[<<q, k>>] = "finished"
      BY <1>0, <3>3, <3>4 DEF JobInv
    <3> QED BY <1>0, <1>f, <2>1, <2>2, <3>1, <3>2, <3>3, <3>4, <3>5
            DEF JobInv, Looping
  <2>3. CASE pc'[q] # "waiting"
    BY <1>0, <1>10, <1>12, <2>1, <2>3 DEF AskRca, Goto
  <2> QED BY <2>2, <2>3
<1>13. ASSUME NEW j \in Jobs, JobStep(j) PROVE JobInv(q)'
  <2>1. UNCHANGED own /\ job[j] # "absent"
    BY <1>13 DEF JobStep, Analyse, PersistRca, SuggestRemediation, locals
  <2>2. PICK s \in JobStates \ {"absent"} : job' = [job EXCEPT ![j] = s]
    BY <1>13
       DEF JobStep, Analyse, PersistRca, SuggestRemediation, JobStates
  <2>3. \/ UNCHANGED proposals /\ job[j] # "finished"
        \/ proposals' \in {proposals, proposals \cup {j}} /\ s = "finished"
    <3>1. CASE Analyse(j) \/ PersistRca(j)
      BY <3>1 DEF Analyse, PersistRca, outside
    <3>2. CASE SuggestRemediation(j)
      <4>1. job'[j] = "finished"
        BY <1>0, <3>2 DEF SuggestRemediation
      <4> QED BY <1>0, <2>2, <3>2, <4>1 DEF SuggestRemediation, Call
    <3> QED BY <1>13, <3>1, <3>2 DEF JobStep
  <2>4. PICK r \in Requests, k \in {1, 2} : j = <<r, k>>
    BY DEF Jobs
  <2>5. CASE r # q
    <3>1. UNCHANGED jobs
      BY <1>0, <1>j, <2>2, <2>4, <2>5
    <3>2. UNCHANGED said
      BY <2>3, <2>4, <2>5
    <3> QED BY <1>1, <2>1, <3>1, <3>2
  <2>6. CASE r = q
    <3>1. job'[<<q, k>>] = s /\ s # "absent" /\ job[<<q, k>>] # "absent"
      BY <1>0, <2>1, <2>2, <2>4, <2>6
    <3>2. \A l \in {1, 2} \ {k} : job'[<<q, l>>] = job[<<q, l>>]
      BY <1>0, <1>j, <2>2, <2>4, <2>6
    <3>3. \A l \in {1, 2} : job'[<<q, l>>] # "absent" <=> job[<<q, l>>] # "absent"
      BY <3>1, <3>2
    <3>4. <<q, 0>> \in proposals' => <<q, 0>> \in proposals
      BY <2>3, <2>4, <2>6
    <3>5. \A l \in {1, 2} :
            <<q, l>> \in proposals' => job'[<<q, l>>] = "finished"
      <4>1. CASE UNCHANGED proposals /\ job[j] # "finished"
        BY <1>0, <2>4, <2>6, <3>2, <4>1 DEF JobInv
      <4>2. CASE proposals' \in {proposals, proposals \cup {j}} /\ s = "finished"
        BY <1>0, <2>4, <2>6, <3>1, <3>2, <4>2 DEF JobInv
      <4> QED BY <2>3, <4>1, <4>2
    <3> QED BY <1>0, <1>f, <2>1, <3>3, <3>4, <3>5 DEF JobInv
  <2> QED BY <2>5, <2>6
<1> QED
  BY <1>2, <1>3, <1>4, <1>5, <1>6, <1>7, <1>8, <1>9, <1>11, <1>12, <1>13
     DEF Next, Step

-----------------------------------------------------------------------------
(* The theorems *)

(* The inductive invariant: the loop, the decision, the ticket and the     *)
(* analyses, together.                                                     *)
THEOREM Invariance == Spec => []IInv
<1>1. IInv /\ [Next]_vars => IInv'
  BY StepType, StepLoop, StepTable, StepOutcome, StepTarget, StepJob DEF IInv
<1> QED BY InitInv, <1>1, PTL DEF Spec

(* Every variable keeps its type.                                          *)
THEOREM TypeCorrect == Spec => []TypeOK
<1>1. IInv => TypeOK
  BY DEF IInv
<1> QED BY <1>1, Invariance, PTL

(* engine.decide carries out what DECISION_TABLE says of the freshest      *)
(* signals, for every threshold and every answer of the detector.          *)
THEOREM FollowsTable == Spec => []DecisionFollowsTable
<1>1. IInv => DecisionFollowsTable
  BY DEF IInv
<1> QED BY <1>1, Invariance, PTL

(* The loop of decide asks the detector at most once and takes at most     *)
(* max_iterations turns.                                                   *)
THEOREM EnrichesOnce == Spec => []EnrichedAtMostOnce
<1>1. IInv => EnrichedAtMostOnce
  <2> SUFFICES ASSUME IInv, NEW r \in Requests
               PROVE  scored[r] <= 1 /\ round[r] <= Rounds
    BY DEF EnrichedAtMostOnce
  <2>1. LoopInv
    BY DEF IInv
  <2>2. /\ scored[r] = IF enriched[r] THEN 1 ELSE 0
        /\ round[r] <= Rounds
    BY <2>1 DEF LoopInv
  <2>3. scored[r] \in {0, 1}
    BY <2>2
  <2> QED BY <2>2, <2>3
<1> QED BY <1>1, Invariance, PTL

(* What a decision says of itself is consistent, whichever way it got      *)
(* there.                                                                  *)
THEOREM OutcomeConsistent == Spec => []OutcomeIsConsistent
<1>1. IInv => OutcomeIsConsistent
  BY DEF IInv
<1> QED BY <1>1, Invariance, PTL

(* An escalation that says so has raised its ticket's severity, and no     *)
(* later PATCH of the engine or of an analysis lowers it.                  *)
THEOREM EscalationReaches == Spec => []EscalationReachesTicket
<1>1. IInv => EscalationReachesTicket
  BY DEF IInv
<1> QED BY <1>1, Invariance, PTL

(* Without a fault a decision has one proposal at most.                    *)
THEOREM OneProposal == Spec => []OneProposalPerDecision
<1>1. IInv => OneProposalPerDecision
  <2> SUFFICES ASSUME IInv, faults = 0, NEW r \in Requests,
                      NEW p \in ProposalsFor(r), NEW q \in ProposalsFor(r)
               PROVE  p = q
    BY DEF OneProposalPerDecision
  <2>1. JobInv(r) /\ call[r] \in {1, 2} /\ proposals \subseteq Requests \X {0, 1, 2}
    BY DEF IInv, TypeOK
  <2>2. job[<<r, 2>>] = "absent"
    BY <2>1 DEF JobInv
  <2>3. <<r, 2>> \notin proposals
    BY <2>1, <2>2 DEF JobInv
  <2>4. ~(<<r, 0>> \in proposals /\ <<r, 1>> \in proposals)
    BY <2>1 DEF JobInv
  <2>5. p \in {<<r, 0>>, <<r, 1>>} \cap proposals
    BY <2>1, <2>3 DEF ProposalsFor
  <2>6. q \in {<<r, 0>>, <<r, 1>>} \cap proposals
    BY <2>1, <2>3 DEF ProposalsFor
  <2> QED BY <2>4, <2>5, <2>6
<1> QED BY <1>1, Invariance, PTL
=============================================================================
