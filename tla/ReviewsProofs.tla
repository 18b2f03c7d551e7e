---------------------------- MODULE ReviewsProofs ----------------------------
(***************************************************************************)
(* For any number of reviews, incidents and failures: a ticket is closed   *)
(* only on a stored verdict; what Engine QA advises keeps its scale; and   *)
(* the two services that count the reviews advise alike.  The first        *)
(* invariant carries the row of a collector's handler from the insertion   *)
(* to the PATCH: between the two the row stays in the database and the     *)
(* request does not change.  The last carries, while nothing has failed,   *)
(* what the two databases have come to hold.                               *)
(***************************************************************************)
EXTENDS Reviews, TLAPS, FiniteSetTheorems

Places == {"idle", "refused", "killed", "done"} \cup Handling

Shape ==
  /\ DOMAIN rows = Services
  /\ DOMAIN request = Ids
  /\ at \in [Services -> [Ids -> Places]]
  /\ ticket \in [Incidents -> [status : Statuses, feedback : {Nobody} \cup Ids]]

Named == \A id \in Ids : request[id] # Nothing => request[id].incident \in Incidents

IdleUntilSent ==
  \A s \in Services, id \in Ids : request[id] = Nothing => at[s][id] = "idle"

RowKept ==
  \A id \in Ids : at["feedback"][id] \in {"stored", "computed", "recorded"} =>
                    FeedbackRow(id) \in rows["feedback"]

IInv == Shape /\ Named /\ IdleUntilSent /\ RowKept /\ ClosedByAStoredVote

USE DEF Services

-----------------------------------------------------------------------------
(* What has no row in flight and no ticket written can disturb nothing but *)
(* the places.                                                             *)
LEMMA InitCorrect == Init => IInv
BY ReviewsAssumption DEF Init, IInv, Shape, Named, IdleUntilSent, RowKept,
   ClosedByAStoredVote, Places, Handling, Statuses, Nobody

(* A step that leaves rows, requests and tickets alone, moves one handler  *)
(* only, and moves the collector's past its insertion only from there.     *)
LEMMA QuietStep ==
  ASSUME IInv, NEW s \in Services, NEW id \in Ids, NEW where \in Places,
         Goto(s, id, where), request[id] # Nothing,
         s = "feedback" /\ where \in {"stored", "computed", "recorded"} =>
           at[s][id] \in {"stored", "computed", "recorded"},
         UNCHANGED <<rows, request, ticket>>
  PROVE  IInv'
BY DEF IInv, Shape, Named, IdleUntilSent, RowKept, ClosedByAStoredVote, Goto, FeedbackRow,
   Verdict

LEMMA SendStep ==
  ASSUME IInv, NEW s \in Services, NEW id \in Ids, NEW i \in Incidents, NEW b \in Bodies,
         Send(s, id, i, b)
  PROVE  IInv'
<1>1. Shape'
  BY DEF IInv, Shape, Send, Goto, Places, Handling
<1>2. Named'
  BY DEF IInv, Shape, Named, Send
<1>3. IdleUntilSent'
  <2>1. request'[id] # Nothing
    BY DEF IInv, Shape, Send, Nothing
  <2>2. \A other \in Ids : other # id =>
          /\ request'[other] = request[other]
          /\ \A t \in Services : at'[t][other] = at[t][other]
    BY DEF IInv, Shape, Send, Goto
  <2> QED BY <2>1, <2>2 DEF IInv, IdleUntilSent
<1>4. RowKept'
  <2>1. at["feedback"][id] = "idle"
    BY DEF IInv, IdleUntilSent, Send
  <2>2. at'["feedback"][id] \notin {"stored", "computed", "recorded"}
    BY <2>1 DEF IInv, Shape, Send, Goto
  <2>3. \A other \in Ids : other # id =>
          /\ request'[other] = request[other]
          /\ at'["feedback"][other] = at["feedback"][other]
    BY DEF IInv, Shape, Send, Goto
  <2>4. rows' = rows
    BY DEF Send
  <2> QED BY <2>2, <2>3, <2>4 DEF IInv, RowKept, FeedbackRow
<1>5. ClosedByAStoredVote'
  BY DEF IInv, ClosedByAStoredVote, Send, Verdict
<1> QED BY <1>1, <1>2, <1>3, <1>4, <1>5 DEF IInv

(* The collector's database only grows.                                    *)
LEMMA StoreFeedbackStep ==
  ASSUME IInv, NEW id \in Ids, StoreFeedback(id)
  PROVE  IInv'
<1>1. /\ rows'["feedback"] = rows["feedback"] \cup {FeedbackRow(id)}
      /\ request' = request /\ ticket' = ticket
  BY DEF IInv, Shape, StoreFeedback
<1>2. Shape'
  BY DEF IInv, Shape, StoreFeedback, Goto, Places, Handling
<1>3. Named' /\ IdleUntilSent'
  BY <1>1 DEF IInv, Shape, Named, IdleUntilSent, StoreFeedback, Goto
<1>4. RowKept'
  <2>1. \A other \in Ids : other # id => at'["feedback"][other] = at["feedback"][other]
    BY DEF IInv, Shape, StoreFeedback, Goto
  <2> QED BY <1>1, <2>1 DEF IInv, RowKept, FeedbackRow
<1>5. ClosedByAStoredVote'
  BY <1>1 DEF IInv, ClosedByAStoredVote, Verdict
<1> QED BY <1>2, <1>3, <1>4, <1>5 DEF IInv

LEMMA StoreReviewStep ==
  ASSUME IInv, NEW id \in Ids, NEW u, StoreReview(id, u)
  PROVE  IInv'
<1>1. rows'["feedback"] = rows["feedback"] /\ request' = request /\ ticket' = ticket
  BY DEF IInv, Shape, StoreReview
<1>2. at'["feedback"] = at["feedback"]
  BY DEF IInv, Shape, StoreReview, Goto
<1>3. Shape'
  BY DEF IInv, Shape, StoreReview, Goto, Places, Handling
<1>4. Named' /\ IdleUntilSent'
  BY <1>1 DEF IInv, Shape, Named, IdleUntilSent, StoreReview, Goto
<1>5. RowKept' /\ ClosedByAStoredVote'
  BY <1>1, <1>2 DEF IInv, RowKept, ClosedByAStoredVote, Verdict, FeedbackRow
<1> QED BY <1>3, <1>4, <1>5 DEF IInv

(* The verdict written is that of a row still in the database.             *)
LEMMA CloseTicketStep ==
  ASSUME IInv, NEW id \in Ids, CloseTicket(id)
  PROVE  IInv'
<1> DEFINE row == FeedbackRow(id)
<1>1. /\ row \in rows["feedback"]
      /\ rows' = rows /\ request' = request
      /\ ticket' = [ticket EXCEPT ![row.incident] = [status |-> Verdict(row), feedback |-> id]]
  BY DEF IInv, RowKept, CloseTicket
<1>2. row.incident = request[id].incident /\ request[id].incident \in Incidents
  BY DEF FeedbackRow, IInv, Named, IdleUntilSent, CloseTicket
<1>3. Verdict(row) \in Statuses
  BY DEF Verdict, Statuses
<1> HIDE DEF row
<1>4. Shape'
  <2>1. at' \in [Services -> [Ids -> Places]]
    <3>1. at' = [at EXCEPT !["feedback"][id] = "done"]
      BY DEF CloseTicket, Goto
    <3> QED BY <3>1 DEF IInv, Shape, Places
  <2>2. ticket' \in [Incidents -> [status : Statuses, feedback : {Nobody} \cup Ids]]
    BY <1>1, <1>3 DEF IInv, Shape
  <2> QED BY <1>1, <2>1, <2>2 DEF IInv, Shape
<1>5. Named' /\ IdleUntilSent'
  BY <1>1 DEF IInv, Shape, Named, IdleUntilSent, CloseTicket, Goto
<1>6. RowKept'
  BY <1>1 DEF IInv, Shape, RowKept, CloseTicket, Goto, FeedbackRow
<1>7. ClosedByAStoredVote'
  <2> SUFFICES ASSUME NEW i \in Incidents, ticket'[i].status # "investigating"
               PROVE  \E r \in rows["feedback"] :
                        r.incident = i /\ Verdict(r) = ticket'[i].status
    BY <1>1 DEF ClosedByAStoredVote, Verdict
  <2>1. CASE i = row.incident
    BY <1>1, <2>1 DEF IInv, Shape
  <2>2. CASE i # row.incident
    BY <1>1, <2>2 DEF IInv, Shape, ClosedByAStoredVote
  <2> QED BY <2>1, <2>2
<1> QED BY <1>4, <1>5, <1>6, <1>7 DEF IInv

(* Engine QA writes the human feedback and leaves the status.              *)
LEMMA NoteReviewStep ==
  ASSUME IInv, NEW id \in Ids, NoteReview(id)
  PROVE  IInv'
<1>1. request[id].incident \in Incidents
  BY DEF IInv, Named, IdleUntilSent, NoteReview
<1>2. \A i \in Incidents : ticket'[i].status = ticket[i].status
  BY <1>1 DEF IInv, Shape, NoteReview
<1>3. at'["feedback"] = at["feedback"]
  BY DEF IInv, Shape, NoteReview, Goto
<1>4. ticket' \in [Incidents -> [status : Statuses, feedback : {Nobody} \cup Ids]]
  BY <1>1 DEF IInv, Shape, NoteReview
<1>5. Shape'
  BY <1>4 DEF IInv, Shape, NoteReview, Goto, Places, Handling
<1>6. Named' /\ IdleUntilSent'
  BY DEF IInv, Shape, Named, IdleUntilSent, NoteReview, Goto
<1>7. RowKept' /\ ClosedByAStoredVote'
  BY <1>2, <1>3 DEF IInv, RowKept, ClosedByAStoredVote, Verdict, FeedbackRow, NoteReview
<1> QED BY <1>5, <1>6, <1>7 DEF IInv

LEMMA PushStep ==
  ASSUME IInv, NEW id \in Ids, Push(id)
  PROVE  IInv'
<1>1. Shape'
  BY DEF IInv, Shape, Push, Places, Handling
<1>2. Named' /\ IdleUntilSent'
  BY DEF IInv, Shape, Named, IdleUntilSent, Push
<1>3. \A other \in Ids : at'["feedback"][other] \in {"stored", "computed", "recorded"} =>
                           at["feedback"][other] \in {"stored", "computed", "recorded"}
  BY DEF IInv, Shape, Push
<1>4. RowKept' /\ ClosedByAStoredVote'
  BY <1>3 DEF IInv, RowKept, ClosedByAStoredVote, Verdict, FeedbackRow, Push
<1> QED BY <1>1, <1>2, <1>4 DEF IInv

LEMMA RestartStep ==
  ASSUME IInv, NEW s \in Services, Restart(s)
  PROVE  IInv'
<1>1. \A t \in Services, id \in Ids : at'[t][id] = at[t][id] \/ at'[t][id] = "killed"
  BY DEF IInv, Shape, Restart
<1>2. \A t \in Services, id \in Ids : at[t][id] = "idle" => at'[t][id] = "idle"
  BY DEF IInv, Shape, Restart, Handling
<1>3. Shape'
  BY DEF IInv, Shape, Restart, Places
<1>4. Named' /\ IdleUntilSent'
  BY <1>2 DEF IInv, Named, IdleUntilSent, Restart
<1>5. RowKept' /\ ClosedByAStoredVote'
  BY <1>1 DEF IInv, RowKept, ClosedByAStoredVote, Verdict, FeedbackRow, Restart
<1> QED BY <1>3, <1>4, <1>5 DEF IInv

LEMMA HandleStep ==
  ASSUME IInv, NEW s \in Services, NEW id \in Ids, Handle(s, id)
  PROVE  IInv'
<1>0. at[s][id] # "idle" => request[id] # Nothing
  BY DEF IInv, IdleUntilSent
<1>1. CASE StoreFeedback(id)
  BY <1>1, StoreFeedbackStep
<1>2. CASE CloseTicket(id)
  BY <1>2, CloseTicketStep
<1>3. CASE \E u \in SUBSET {"incident", "decisions"} : StoreReview(id, u)
  BY <1>3, StoreReviewStep
<1>4. CASE NoteReview(id)
  BY <1>4, NoteReviewStep
<1>5. CASE Push(id)
  BY <1>5, PushStep
<1>6. CASE s = "qa" /\ PushFails(id)
  <2>1. /\ Goto("qa", id, "done") /\ at["qa"][id] # "idle"
        /\ UNCHANGED <<rows, request, ticket>>
    BY <1>6 DEF PushFails
  <2> QED BY <1>0, <1>6, <2>1, QuietStep, "done" \in Places DEF Places
<1>7. CASE Compute(s, id)
  <2>1. /\ Goto(s, id, "computed") /\ at[s][id] = "stored"
        /\ UNCHANGED <<rows, request, ticket>>
    BY <1>7 DEF Compute
  <2> QED BY <1>0, <2>1, QuietStep, "computed" \in Places DEF Places, Handling
<1>8. CASE Record(s, id)
  <2>1. /\ Goto(s, id, "recorded") /\ at[s][id] = "computed"
        /\ UNCHANGED <<rows, request, ticket>>
    BY <1>8 DEF Record
  <2> QED BY <1>0, <2>1, QuietStep, "recorded" \in Places DEF Places, Handling
<1>9. CASE PatchFails(s, id)
  <2> DEFINE where == IF s = "qa" THEN "patched" ELSE "done"
  <2>1. /\ Goto(s, id, where) /\ at[s][id] = "recorded"
        /\ UNCHANGED <<rows, request, ticket>>
    BY <1>9 DEF PatchFails
  <2>2. where \in Places /\ where \notin {"stored", "computed", "recorded"}
    BY DEF Places, Handling
  <2> HIDE DEF where
  <2> QED BY <1>0, <2>1, <2>2, QuietStep
<1> QED BY <1>1, <1>2, <1>3, <1>4, <1>5, <1>6, <1>7, <1>8, <1>9 DEF Handle

LEMMA StepCorrect == IInv /\ [Next]_vars => IInv'
<1> SUFFICES ASSUME IInv, [Next]_vars PROVE IInv'
  OBVIOUS
<1>1. CASE \E s \in Services, id \in Ids, i \in Incidents, b \in Bodies : Send(s, id, i, b)
  BY <1>1, SendStep
<1>2. CASE \E s \in Services, id \in Ids : Handle(s, id)
  BY <1>2, HandleStep
<1>3. CASE \E s \in Services : Scrape(s)
  BY <1>3 DEF IInv, Shape, Named, IdleUntilSent, RowKept, ClosedByAStoredVote, Verdict,
     FeedbackRow, Scrape
<1>4. CASE \E s \in Services : Restart(s)
  BY <1>4, RestartStep
<1>5. CASE UNCHANGED vars
  BY <1>5 DEF IInv, Shape, Named, IdleUntilSent, RowKept, ClosedByAStoredVote, Verdict,
     FeedbackRow, vars
<1> QED BY <1>1, <1>2, <1>3, <1>4, <1>5 DEF Next

(* A ticket that feedback closed has a stored review with that verdict:    *)
(* the row is inserted before the PATCH is sent and never removed, so no   *)
(* interleaving, failed call or crash separates the two.                   *)
THEOREM TicketsAreClosedOnRecord == Spec => []ClosedByAStoredVote
<1>1. IInv => ClosedByAStoredVote
  BY DEF IInv
<1> QED BY <1>1, InitCorrect, StepCorrect, PTL DEF Spec
-----------------------------------------------------------------------------
(* Arithmetic of rates.                                                    *)

(* The provers cannot reason about a literal as large as Whole, so it is   *)
(* kept folded and ranges up to it are read as inequalities.               *)
LEMMA WholeType == Whole \in Nat \ {0}
BY DEF Whole

LEMMA UpToWhole ==
  ASSUME NEW x
  PROVE  x \in 0..Whole <=> (x \in Int /\ 0 <= x /\ x <= Whole)
<1>1. \A n \in Int : x \in 0..n <=> (x \in Int /\ 0 <= x /\ x <= n)
  OBVIOUS
<1> QED BY <1>1, WholeType

LEMMA RateRounds ==
  ASSUME NEW a \in Nat, NEW b \in Nat \ {0}
  PROVE  /\ Rate(a, b) \in Nat
         /\ 2 * b * Rate(a, b) <= 2 * Whole * a + b
         /\ 2 * Whole * a + b < 2 * b * Rate(a, b) + 2 * b
<1>1. PICK x, y : x = 2 * Whole * a + b /\ y = 2 * b
  OBVIOUS
<1>2. x \in Nat /\ y \in Nat \ {0}
  BY <1>1, WholeType
<1>3. PICK z : z = x \div y
  OBVIOUS
<1>4. z \in Nat /\ y * z <= x /\ x < y * z + y
  BY <1>2, <1>3
<1>5. Rate(a, b) = z
  BY <1>1, <1>3 DEF Rate
<1> QED BY <1>1, <1>4, <1>5

LEMMA RateType ==
  ASSUME NEW a \in Nat, NEW b \in Nat
  PROVE  Rate(a, b) \in Nat
<1>1. CASE b = 0
  BY <1>1 DEF Rate
<1>2. CASE b # 0
  BY <1>2, RateRounds
<1> QED BY <1>1, <1>2

(* A share of a whole is between nothing and all of it.                    *)
LEMMA RateOfShare ==
  ASSUME NEW a \in Nat, NEW b \in Nat, a <= b
  PROVE  Rate(a, b) \in 0..Whole
<1>1. CASE b = 0
  BY <1>1, WholeType, UpToWhole DEF Rate
<1>2. CASE b # 0
  <2>1. PICK x, y : x = 2 * Whole * a + b /\ y = 2 * b
    OBVIOUS
  <2>2. x \in Nat /\ y \in Nat \ {0} /\ x < y * (Whole + 1)
    BY <1>2, <2>1, WholeType
  <2>3. x \div y \in Nat /\ x \div y <= Whole
    BY <2>2, WholeType
  <2> QED BY <1>2, <2>1, <2>3, UpToWhole DEF Rate
<1> QED BY <1>1, <1>2

Weights == [Families -> Nat]

(* Each of the four shares is off by half a unit at most.                  *)
LEMMA NormalizedAddsUp ==
  ASSUME NEW w \in Weights
  PROVE  /\ Normalized(w) \in Weights
         /\ Distance(Whole, SumOfWeights(Normalized(w))) <= 2
<1> PICK wm, wt, wl, we, total :
      /\ wm = w["metrics"] /\ wt = w["traces"] /\ wl = w["logs"] /\ we = w["events"]
      /\ total = SumOfWeights(w)
  OBVIOUS
<1>1. /\ wm \in Nat /\ wt \in Nat /\ wl \in Nat /\ we \in Nat
      /\ total = wm + wt + wl + we
  BY DEF Weights, Families, SumOfWeights
<1>2. CASE total = 0
  BY <1>2 DEF Normalized, SumOfWeights, Weights, Families, Whole, Distance
<1>3. CASE total # 0
  <2>1. PICK m, t, l, e :
          /\ m = Rate(wm, total) /\ t = Rate(wt, total)
          /\ l = Rate(wl, total) /\ e = Rate(we, total)
    OBVIOUS
  <2>2. /\ Normalized(w) \in [Families -> {m, t, l, e}]
        /\ Normalized(w)["metrics"] = m /\ Normalized(w)["traces"] = t
        /\ Normalized(w)["logs"] = l /\ Normalized(w)["events"] = e
    BY <1>3, <2>1 DEF Normalized, Families
  <2>3. PICK sum : sum = m + t + l + e
    OBVIOUS
  <2>4. PICK p : p = 2 * total
    OBVIOUS
  <2>5. /\ total \in Nat \ {0} /\ p \in Nat \ {0}
        /\ m \in Nat /\ t \in Nat /\ l \in Nat /\ e \in Nat /\ sum \in Nat
        /\ p * m <= 2 * Whole * wm + total /\ 2 * Whole * wm + total < p * m + p
        /\ p * t <= 2 * Whole * wt + total /\ 2 * Whole * wt + total < p * t + p
        /\ p * l <= 2 * Whole * wl + total /\ 2 * Whole * wl + total < p * l + p
        /\ p * e <= 2 * Whole * we + total /\ 2 * Whole * we + total < p * e + p
    <3>1. total \in Nat \ {0} /\ p \in Nat \ {0}
      BY <1>1, <1>3, <2>4
    <3>2. ASSUME NEW a \in Nat
          PROVE  /\ Rate(a, total) \in Nat
                 /\ p * Rate(a, total) <= 2 * Whole * a + total
                 /\ 2 * Whole * a + total < p * Rate(a, total) + p
      BY <2>4, <3>1, RateRounds
    <3>3. /\ m \in Nat /\ p * m <= 2 * Whole * wm + total /\ 2 * Whole * wm + total < p * m + p
      BY <1>1, <2>1, <3>2
    <3>4. /\ t \in Nat /\ p * t <= 2 * Whole * wt + total /\ 2 * Whole * wt + total < p * t + p
      BY <1>1, <2>1, <3>2
    <3>5. /\ l \in Nat /\ p * l <= 2 * Whole * wl + total /\ 2 * Whole * wl + total < p * l + p
      BY <1>1, <2>1, <3>2
    <3>6. /\ e \in Nat /\ p * e <= 2 * Whole * we + total /\ 2 * Whole * we + total < p * e + p
      BY <1>1, <2>1, <3>2
    <3> QED BY <2>3, <3>1, <3>3, <3>4, <3>5, <3>6
  <2>6. /\ p * sum <= p * Whole + 2 * p
        /\ p * Whole + 2 * p < p * sum + 4 * p
    <3>1. p * sum = p * m + p * t + p * l + p * e
      BY <2>3, <2>5
    <3>2. 2 * Whole * wm + 2 * Whole * wt + 2 * Whole * wl + 2 * Whole * we = p * Whole
      BY <1>1, <2>4, WholeType
    <3>3. /\ p * m \in Int /\ p * t \in Int /\ p * l \in Int /\ p * e \in Int
          /\ 2 * Whole * wm \in Int /\ 2 * Whole * wt \in Int
          /\ 2 * Whole * wl \in Int /\ 2 * Whole * we \in Int /\ p * Whole \in Int
      BY <1>1, <2>5, WholeType
    <3> QED BY <2>4, <2>5, <3>1, <3>2, <3>3
  <2>7. sum <= Whole + 2 /\ Whole + 2 < sum + 4
    BY <2>5, <2>6, WholeType
  <2>8. SumOfWeights(Normalized(w)) = sum
    BY <2>2, <2>3 DEF SumOfWeights
  <2>9. Distance(Whole, sum) <= 2
    BY <2>5, <2>7, WholeType DEF Distance
  <2> QED BY <2>2, <2>5, <2>8, <2>9 DEF Weights
<1> QED BY <1>2, <1>3

(* A blend of rates is a rate.                                             *)
LEMMA HealthIsARate ==
  ASSUME NEW q,
         q.precision \in 0..Whole, q.reasonable \in 0..Whole,
         q.rcaUseful \in 0..Whole, q.decisionRight \in 0..Whole,
         q.hallucinations \in Nat
  PROVE  Health(q) \in 0..Whole
<1>1. PICK useful : useful = Greatest(0, q.rcaUseful - q.hallucinations \div 2)
  OBVIOUS
<1>2. useful \in 0..Whole
  <2>1. PICK u, h : u = q.rcaUseful /\ h = q.hallucinations \div 2
    OBVIOUS
  <2>2. u \in Int /\ 0 <= u /\ u <= Whole /\ h \in Nat
    <3>1. u \in Int /\ 0 <= u /\ u <= Whole
      BY <2>1, UpToWhole
    <3>2. PICK n \in Nat : n = q.hallucinations
      OBVIOUS
    <3>3. n \div 2 \in Nat
      OBVIOUS
    <3> QED BY <2>1, <3>1, <3>2, <3>3
  <2>3. useful \in Int /\ 0 <= useful /\ useful <= Whole
    BY <1>1, <2>1, <2>2, WholeType DEF Greatest
  <2> QED BY <2>3, UpToWhole
<1> DEFINE weight(votes, percent) == IF votes = 0 THEN 0 ELSE percent
<1>3. PICK a, c, r, d, total, sum :
        /\ a = weight(q.anomalyVotes, 35) /\ c = weight(q.confidenceVotes, 15)
        /\ r = weight(q.rcaVotes, 25)     /\ d = weight(q.decisionVotes, 25)
        /\ total = a + c + r + d
        /\ sum = a * q.precision + c * q.reasonable + r * useful + d * q.decisionRight
  OBVIOUS
<1>4. a \in {0, 35} /\ c \in {0, 15} /\ r \in {0, 25} /\ d \in {0, 25}
  BY <1>3
<1>5. Health(q) = IF total = 0 THEN 0 ELSE sum \div total
  BY <1>1, <1>3 DEF Health
<1>6. ASSUME NEW k \in Nat, NEW x \in 0..Whole
      PROVE  k * x \in Int /\ 0 <= k * x /\ k * x <= k * Whole
  <2>1. x \in Int /\ 0 <= x /\ x <= Whole
    BY <1>6, UpToWhole
  <2> QED BY <2>1, WholeType
<1>7. /\ total \in Nat /\ sum \in Int /\ 0 <= sum /\ sum <= total * Whole
  <2>1. PICK sa, sc, sr, sd :
          /\ sa = a * q.precision /\ sc = c * q.reasonable
          /\ sr = r * useful /\ sd = d * q.decisionRight
    OBVIOUS
  <2>2. /\ sa \in Int /\ 0 <= sa /\ sa <= a * Whole
        /\ sc \in Int /\ 0 <= sc /\ sc <= c * Whole
        /\ sr \in Int /\ 0 <= sr /\ sr <= r * Whole
        /\ sd \in Int /\ 0 <= sd /\ sd <= d * Whole
    <3>1. a \in Nat /\ c \in Nat /\ r \in Nat /\ d \in Nat
      BY <1>4
    <3>2. a * q.precision \in Int /\ 0 <= a * q.precision /\ a * q.precision <= a * Whole
      BY <1>6, <3>1
    <3>3. c * q.reasonable \in Int /\ 0 <= c * q.reasonable /\ c * q.reasonable <= c * Whole
      BY <1>6, <3>1
    <3>4. r * useful \in Int /\ 0 <= r * useful /\ r * useful <= r * Whole
      BY <1>2, <1>6, <3>1
    <3>5. /\ d * q.decisionRight \in Int /\ 0 <= d * q.decisionRight
          /\ d * q.decisionRight <= d * Whole
      BY <1>6, <3>1
    <3> QED BY <2>1, <3>2, <3>3, <3>4, <3>5
  <2>3. total * Whole = a * Whole + c * Whole + r * Whole + d * Whole
    BY <1>3, <1>4, WholeType
  <2> QED BY <1>3, <1>4, <2>1, <2>2, <2>3, WholeType
<1>8. total # 0 => sum \div total \in Int /\ 0 <= sum \div total /\ sum \div total <= Whole
  BY <1>7, WholeType
<1> QED BY <1>5, <1>8, WholeType, UpToWhole

-----------------------------------------------------------------------------
(* The databases are finite: they are at the start, and rows are added one *)
(* by one.                                                                 *)
RowsFinite == \A s \in Services : IsFiniteSet(rows[s])

LEMMA RowsStayFinite == Spec => []RowsFinite
<1>1. Init => RowsFinite
  BY ReviewsAssumption DEF Init, RowsFinite
<1>2. IInv /\ RowsFinite /\ [Next]_vars => RowsFinite'
  <2> SUFFICES ASSUME IInv, RowsFinite, [Next]_vars PROVE RowsFinite'
    OBVIOUS
  <2>1. ASSUME NEW s \in Services, NEW row, rows' = [rows EXCEPT ![s] = @ \cup {row}]
        PROVE  RowsFinite'
    <3>1. IsFiniteSet(rows[s] \cup {row})
      BY FS_AddElement DEF RowsFinite
    <3> QED BY <2>1, <3>1 DEF RowsFinite, IInv, Shape
  <2>2. CASE rows' = rows
    BY <2>2 DEF RowsFinite
  <2>3. ASSUME NEW s \in Services, NEW id \in Ids, Handle(s, id)
        PROVE  RowsFinite'
    <3>1. CASE StoreFeedback(id)
      <4>1. PICK row : row = FeedbackRow(id)
        OBVIOUS
      <4> QED BY <2>1, <3>1, <4>1 DEF StoreFeedback
    <3>2. CASE \E u \in SUBSET {"incident", "decisions"} : StoreReview(id, u)
      <4>1. PICK u : StoreReview(id, u)
        BY <3>2
      <4>2. PICK row : row = ReviewRow(id, u)
        OBVIOUS
      <4> QED BY <2>1, <4>1, <4>2 DEF StoreReview
    <3> QED BY <2>2, <2>3, <3>1, <3>2
         DEF Handle, CloseTicket, NoteReview, Push, PushFails, Compute, Record, PatchFails
  <2> QED BY <2>2, <2>3 DEF Next, Send, Scrape, Restart, vars
<1> QED BY <1>1, <1>2, InitCorrect, StepCorrect, PTL DEF Spec

-----------------------------------------------------------------------------
(* The rates of a finite set of reviews.                                   *)
LEMMA CountOfPart ==
  ASSUME NEW S, NEW T, IsFiniteSet(S), T \subseteq S
  PROVE  /\ Cardinality(T) \in Nat /\ Cardinality(S) \in Nat
         /\ Cardinality(T) <= Cardinality(S)
BY FS_Subset, FS_CardinalityType

LEMMA UpRateType ==
  ASSUME NEW rs, IsFiniteSet(rs), NEW aspect
  PROVE  UpRate(rs, aspect) \in 0..Whole
<1> DEFINE cast == Cast(rs, aspect)
           up   == {r \in rs : r[aspect] = "up"}
<1>1. IsFiniteSet(cast)
  BY FS_Subset DEF Cast
<1>2. up \subseteq cast
  BY DEF Cast
<1>3. /\ Cardinality(up) \in Nat /\ Cardinality(cast) \in Nat
      /\ Cardinality(up) <= Cardinality(cast)
  BY <1>1, <1>2, CountOfPart
<1>4. UpRate(rs, aspect) = Rate(Cardinality(up), Cardinality(cast))
  BY DEF UpRate, Tally
<1> HIDE DEF cast, up
<1> QED BY <1>3, <1>4, RateOfShare

LEMMA HealthOfReviews ==
  ASSUME NEW rs, IsFiniteSet(rs)
  PROVE  Health(Quality(rs)) \in 0..Whole
<1> DEFINE q        == Quality(rs)
           invented == Cardinality({r \in rs : IsHallucination(r)})
           explicit == Greatest(Cardinality(Cast(rs, "rca")),
                                Cardinality(Cast(rs, "hallucinated")))
<1>1. /\ q.precision = UpRate(rs, "anomaly") /\ q.reasonable = UpRate(rs, "confidence")
      /\ q.rcaUseful = UpRate(rs, "rca") /\ q.decisionRight = UpRate(rs, "decision")
      /\ q.hallucinations = Rate(invented, IF explicit = 0 THEN invented ELSE explicit)
  BY DEF Quality
<1>2. invented \in Nat /\ explicit \in Nat
  <2>1. invented \in Nat
    BY CountOfPart
  <2>2. Cardinality(Cast(rs, "rca")) \in Nat /\ Cardinality(Cast(rs, "hallucinated")) \in Nat
    BY CountOfPart DEF Cast
  <2> QED BY <2>1, <2>2 DEF Greatest
<1> HIDE DEF q, invented, explicit
<1>3. q.hallucinations \in Nat
  BY <1>1, <1>2, RateType
<1>4. /\ q.precision \in 0..Whole /\ q.reasonable \in 0..Whole
      /\ q.rcaUseful \in 0..Whole /\ q.decisionRight \in 0..Whole
  BY <1>1, UpRateType
<1>5. Health(q) \in 0..Whole
  BY <1>3, <1>4, HealthIsARate
<1> QED BY <1>5 DEF q

(* The weights advised are shares of one again.                            *)
LEMMA WeightsStayWeights ==
  ASSUME NEW q, NEW w \in Weights
  PROVE  /\ Rebalanced(q, w) \in Weights
         /\ Calibrated(q, w) \in Weights
<1>1. /\ w["metrics"] \in Nat /\ w["traces"] \in Nat /\ w["logs"] \in Nat /\ w["events"] \in Nat
  BY DEF Weights, Families
<1>2. PICK m, t, l, e :
        m = w["metrics"] /\ t = w["traces"] /\ l = w["logs"] /\ e = w["events"]
  OBVIOUS
<1>3. /\ Greatest(2500, m - 500) \in Nat /\ Least(4000, t + 300) \in Nat
      /\ Least(3000, l + 200) \in Nat /\ Greatest(500, e - 200) \in Nat
      /\ Least(4000, t + 200) \in Nat /\ Least(5000, m + 300) \in Nat
  <2>1. m \in Nat /\ t \in Nat /\ l \in Nat /\ e \in Nat
    BY <1>1, <1>2
  <2>2. Greatest(2500, m - 500) \in Nat /\ Least(5000, m + 300) \in Nat
    BY <2>1 DEF Greatest, Least
  <2>3. Least(4000, t + 300) \in Nat /\ Least(4000, t + 200) \in Nat
    BY <2>1 DEF Least
  <2>4. Least(3000, l + 200) \in Nat /\ Greatest(500, e - 200) \in Nat
    BY <2>1 DEF Greatest, Least
  <2> QED BY <2>2, <2>3, <2>4
<1>4. Rebalanced(q, w) \in Weights
  BY <1>2, <1>3 DEF Rebalanced, Weights, Families
<1>5. Calibrated(q, w) \in Weights
  BY <1>2, <1>3 DEF Calibrated, Weights, Families
<1> QED BY <1>4, <1>5

(* What suggest_tuning leaves of the two bands keeps them apart.           *)
LEMMA BandsStayApart ==
  ASSUME NEW m \in Nat, NEW h \in Nat, m + 5 < h, h <= 100,
         NEW noisy \in {Unknown, Least(75, m + 5)},
         NEW medium \in {noisy, Greatest(IF noisy = Unknown THEN m ELSE noisy, Least(80, m + 5))},
         NEW high \in {Unknown, Least(95, h + 5)}
  PROVE  (IF medium = Unknown THEN m ELSE medium) < (IF high = Unknown THEN h ELSE high)
BY DEF Least, Greatest, Unknown

(* What is advised keeps its scale, whatever reviews there are.            *)
LEMMA AdviceOnAnyReviews ==
  ASSUME Knobs.medium + 5 < Knobs.high, Knobs.high <= 100,
         NEW rs, IsFiniteSet(rs)
  PROVE  LET a      == EngineAdvice(rs)
             medium == IF a.medium = Unknown THEN Knobs.medium ELSE a.medium
             high   == IF a.high = Unknown THEN Knobs.high ELSE a.high
         IN  /\ Distance(Whole, SumOfWeights(a.weights)) <= 2
             /\ medium < high
<1> DEFINE q       == Quality(rs)
           current == Normalized(Knobs.weights)
           advised == Normalized(Calibrated(q, Rebalanced(q, current)))
           noisy   == IF NoisyDetector(q) THEN Least(75, Knobs.medium + 5) ELSE Unknown
           medium  == IF ~Inventing(q) THEN noisy
                      ELSE Greatest(IF noisy = Unknown THEN Knobs.medium ELSE noisy,
                                    Least(80, Knobs.medium + 5))
           high    == IF Overconfident(q) THEN Least(95, Knobs.high + 5) ELSE Unknown
<1>1. PICK a : a = EngineAdvice(rs)
  OBVIOUS
<1>2. \/ a.medium = Unknown /\ a.high = Unknown /\ a.weights = current
      \/ a.medium = medium /\ a.high = high /\ a.weights = advised
  BY <1>1 DEF EngineAdvice
<1>3. Knobs.weights \in Weights
  BY QualityAssumption DEF Weights
<1>4. current \in Weights /\ Distance(Whole, SumOfWeights(current)) <= 2
  BY <1>3, NormalizedAddsUp
<1>5. Distance(Whole, SumOfWeights(advised)) <= 2
  <2> HIDE DEF q, current
  <2>1. Rebalanced(q, current) \in Weights
    BY <1>4, WeightsStayWeights
  <2>2. Calibrated(q, Rebalanced(q, current)) \in Weights
    BY <2>1, WeightsStayWeights
  <2> QED BY <2>2, NormalizedAddsUp
<1>6. Knobs.medium \in Nat /\ Knobs.high \in Nat
  BY QualityAssumption
<1>7. (IF medium = Unknown THEN Knobs.medium ELSE medium)
        < (IF high = Unknown THEN Knobs.high ELSE high)
  <2>1. noisy \in {Unknown, Least(75, Knobs.medium + 5)}
    OBVIOUS
  <2>2. medium \in {noisy, Greatest(IF noisy = Unknown THEN Knobs.medium ELSE noisy,
                                    Least(80, Knobs.medium + 5))}
    OBVIOUS
  <2>3. high \in {Unknown, Least(95, Knobs.high + 5)}
    OBVIOUS
  <2> HIDE DEF noisy, medium, high
  <2> QED BY <1>6, <2>1, <2>2, <2>3, BandsStayApart
<1> HIDE DEF current, advised, medium, high
<1>8. Distance(Whole, SumOfWeights(a.weights)) <= 2
  BY <1>2, <1>4, <1>5
<1>9. (IF a.medium = Unknown THEN Knobs.medium ELSE a.medium)
        < (IF a.high = Unknown THEN Knobs.high ELSE a.high)
  BY <1>2, <1>6, <1>7
<1> QED BY <1>1, <1>8, <1>9

(* The health Engine QA publishes is a rate, the weights it advises are    *)
(* shares of one to the rounding of four places, and no advice inverts the *)
(* bands of the decision engine, provided the bands in force are more than *)
(* one step of five points apart (compute_quality, suggest_tuning).        *)
THEOREM AdviceIsUsable ==
  ASSUME Knobs.medium + 5 < Knobs.high, Knobs.high <= 100
  PROVE  Spec => []AdviceKeepsItsScale
<1>1. ASSUME RowsFinite PROVE AdviceKeepsItsScale
  <2>1. IsFiniteSet(rows["qa"])
    BY <1>1 DEF RowsFinite
  <2>2. Health(Quality(rows["qa"])) \in 0..Whole
    BY <2>1, HealthOfReviews
  <2> QED BY <2>1, <2>2, AdviceOnAnyReviews DEF AdviceKeepsItsScale
<1> QED BY <1>1, RowsStayFinite, PTL

-----------------------------------------------------------------------------
(* While nothing has failed, a review sent to Engine QA is at the          *)
(* collector exactly when Engine QA is done with it and it was worth the   *)
(* second write; and the databases hold what they held at the start and    *)
(* the row of every handler past its insertion.                            *)
Past        == {"stored", "computed", "recorded", "patched", "done"}
StoredAt(s) == {id \in Ids : at[s][id] \in Past}

Sent ==
  /\ faults \in Nat
  /\ \A id \in Ids : request[id] # Nothing =>
       request[id].body \in Bodies /\ request[id].service \in Services

Flow(id) ==
  /\ at["qa"][id] # "killed" /\ at["feedback"][id] # "killed"
  /\ request[id] # Nothing /\ request[id].service = "feedback" => at["qa"][id] = "idle"
  /\ request[id] # Nothing /\ request[id].service = "qa" =>
       /\ at["feedback"][id] # "refused"
       /\ at["feedback"][id] # "idle" <=>
            at["qa"][id] = "done" /\ WorthPushing(request[id].body)

Flows == faults = 0 => \A id \in Ids : Flow(id)

GrownFrom(db) ==
  /\ rows["qa"]       = db["qa"] \cup {ReviewRow(id, {}) : id \in StoredAt("qa")}
  /\ rows["feedback"] = db["feedback"] \cup {FeedbackRow(id) : id \in StoredAt("feedback")}

Grown == faults = 0 => \E db \in Databases : GrownFrom(db)

PInv == Sent /\ Flows /\ Grown

LEMMA PairInit == Init => PInv
<1> SUFFICES ASSUME Init PROVE PInv
  OBVIOUS
<1>1. Sent /\ Flows
  BY DEF Init, Sent, Flows, Flow
<1>2. StoredAt("qa") = {} /\ StoredAt("feedback") = {}
  BY DEF Init, StoredAt, Past
<1>3. GrownFrom(rows)
  BY <1>2 DEF GrownFrom
<1> QED BY <1>1, <1>3 DEF PInv, Grown, Init

(* A failure ends what is claimed.                                         *)
LEMMA PairFails ==
  ASSUME PInv, NEW n \in Nat \ {0}, Fail(n), request' = request
  PROVE  PInv'
<1>1. faults' \in Nat /\ faults' # 0
  BY DEF PInv, Sent, Fail
<1> QED BY <1>1 DEF PInv, Sent, Flows, Grown

(* What moves a handler without inserting a row.                           *)
LEMMA SameRows ==
  ASSUME Grown, faults' = faults, rows' = rows,
         \A s \in Services, id \in Ids :
           /\ at'[s][id] \in Past <=> at[s][id] \in Past
           /\ at[s][id] \in Past => request'[id] = request[id]
  PROVE  Grown'
<1>1. StoredAt("qa")' = StoredAt("qa") /\ StoredAt("feedback")' = StoredAt("feedback")
  BY DEF StoredAt
<1>2. ASSUME NEW id \in StoredAt("qa")
      PROVE  ReviewRow(id, {})' = ReviewRow(id, {})
  BY DEF StoredAt, ReviewRow
<1>3. ASSUME NEW id \in StoredAt("feedback")
      PROVE  FeedbackRow(id)' = FeedbackRow(id)
  BY DEF StoredAt, FeedbackRow
<1>4. /\ {ReviewRow(id, {}) : id \in StoredAt("qa")}' = {ReviewRow(id, {}) : id \in StoredAt("qa")}
      /\ {FeedbackRow(id) : id \in StoredAt("feedback")}'
           = {FeedbackRow(id) : id \in StoredAt("feedback")}
  BY <1>1, <1>2, <1>3
<1>5. ASSUME NEW db PROVE GrownFrom(db) => GrownFrom(db)'
  BY <1>4 DEF GrownFrom
<1> QED BY <1>5 DEF Grown

LEMMA PairSend ==
  ASSUME IInv, PInv, NEW s \in Services, NEW id \in Ids, NEW i \in Incidents,
         NEW b \in Bodies, Send(s, id, i, b)
  PROVE  PInv'
<1>1. /\ \A t \in Services : at[t][id] = "idle"
      /\ at'[s][id] \in {"accepted", "refused"}
      /\ \A t \in Services : t # s => at'[t][id] = "idle"
      /\ request'[id] = [service |-> s, incident |-> i, body |-> b]
      /\ \A other \in Ids : other # id =>
           /\ request'[other] = request[other]
           /\ \A t \in Services : at'[t][other] = at[t][other]
      /\ faults' = faults /\ rows' = rows
  BY DEF IInv, Shape, IdleUntilSent, Send, Goto
<1>2. Sent'
  BY <1>1 DEF PInv, Sent
<1>3. Flows'
  <2> SUFFICES ASSUME faults = 0, NEW other \in Ids PROVE Flow(other)'
    BY <1>1 DEF Flows
  <2>1. CASE other # id
    BY <1>1, <2>1 DEF PInv, Flows, Flow
  <2>2. CASE other = id
    BY <1>1, <2>2 DEF Flow
  <2> QED BY <2>1, <2>2
<1>4. Grown'
  <2>1. \A t \in Services, other \in Ids :
          /\ at'[t][other] \in Past <=> at[t][other] \in Past
          /\ at[t][other] \in Past => request'[other] = request[other]
    BY <1>1 DEF Past
  <2> QED BY <1>1, <2>1, SameRows DEF PInv
<1> QED BY <1>2, <1>3, <1>4 DEF PInv

(* A handler's step that is neither a failure nor the hand-over.           *)
LEMMA PairMoves ==
  ASSUME IInv, PInv, NEW s \in Services, NEW id \in Ids, NEW where \in Handling \cup {"done"},
         Goto(s, id, where), at[s][id] \in Handling,
         where = "done" => s = "feedback",
         request' = request, faults' = faults
  PROVE  Sent' /\ Flows'
<1>1. /\ at'[s][id] = where
      /\ \A t \in Services : t # s => at'[t][id] = at[t][id]
      /\ \A other \in Ids : other # id => \A t \in Services : at'[t][other] = at[t][other]
  BY DEF IInv, Shape, Goto
<1>2. Sent'
  BY DEF PInv, Sent
<1>3. Flows'
  <2> SUFFICES ASSUME faults = 0, NEW other \in Ids PROVE Flow(other)'
    BY DEF Flows
  <2>1. Flow(other)
    BY DEF PInv, Flows
  <2>2. CASE other # id
    BY <1>1, <2>1, <2>2 DEF Flow
  <2>3. CASE other = id
    BY <1>1, <2>1, <2>3 DEF Flow, Handling
  <2> QED BY <2>2, <2>3
<1> QED BY <1>2, <1>3

LEMMA PairStoreFeedback ==
  ASSUME IInv, PInv, NEW id \in Ids, StoreFeedback(id)
  PROVE  PInv'
<1>1. Sent' /\ Flows'
  BY PairMoves DEF StoreFeedback, Handling
<1>2. Grown'
  <2> SUFFICES ASSUME faults = 0, NEW db \in Databases, GrownFrom(db) PROVE GrownFrom(db)'
    BY DEF Grown, PInv, StoreFeedback
  <2>1. /\ rows'["feedback"] = rows["feedback"] \cup {FeedbackRow(id)}
        /\ rows'["qa"] = rows["qa"] /\ request' = request
    BY DEF StoreFeedback, IInv, Shape
  <2>2. /\ at'["feedback"][id] = "stored" /\ at'["qa"] = at["qa"]
        /\ \A other \in Ids : other # id => at'["feedback"][other] = at["feedback"][other]
    BY DEF StoreFeedback, IInv, Shape, Goto
  <2>3. StoredAt("qa")' = StoredAt("qa") /\ StoredAt("feedback")' = StoredAt("feedback") \cup {id}
    BY <2>2 DEF StoredAt, Past
  <2>4. \A other : /\ ReviewRow(other, {})' = ReviewRow(other, {})
                   /\ FeedbackRow(other)' = FeedbackRow(other)
    BY <2>1 DEF ReviewRow, FeedbackRow
  <2> QED BY <2>1, <2>3, <2>4 DEF GrownFrom
<1> QED BY <1>1, <1>2 DEF PInv

LEMMA PairStoreReview ==
  ASSUME IInv, PInv, NEW id \in Ids, NEW u \in SUBSET {"incident", "decisions"},
         StoreReview(id, u)
  PROVE  PInv'
<1>1. IsFiniteSet(u) /\ Cardinality(u) \in Nat /\ (Cardinality(u) = 0 <=> u = {})
  <2>1. IsFiniteSet({"incident", "decisions"})
    <3>1. IsFiniteSet({"incident"})
      BY FS_Singleton
    <3>2. IsFiniteSet({"incident"} \cup {"decisions"})
      BY <3>1, FS_AddElement
    <3>3. {"incident", "decisions"} = {"incident"} \cup {"decisions"}
      OBVIOUS
    <3> QED BY <3>2, <3>3
  <2>2. IsFiniteSet(u)
    BY <2>1, FS_Subset
  <2> QED BY <2>2, FS_CardinalityType, FS_EmptySet
<1>2. CASE u # {}
  BY <1>1, <1>2, PairFails DEF StoreReview
<1>3. CASE u = {}
  <2>0. faults' = faults
    BY <1>1, <1>3 DEF StoreReview, Fail, PInv, Sent
  <2>1. Sent' /\ Flows'
    BY <2>0, PairMoves DEF StoreReview, Handling
  <2>2. Grown'
    <3> SUFFICES ASSUME faults = 0, NEW db \in Databases, GrownFrom(db) PROVE GrownFrom(db)'
      BY <2>0 DEF Grown, PInv
    <3>1. /\ rows'["qa"] = rows["qa"] \cup {ReviewRow(id, {})}
          /\ rows'["feedback"] = rows["feedback"] /\ request' = request
      BY <1>3 DEF StoreReview, IInv, Shape
    <3>2. /\ at'["qa"][id] = "stored" /\ at'["feedback"] = at["feedback"]
          /\ \A other \in Ids : other # id => at'["qa"][other] = at["qa"][other]
      BY DEF StoreReview, IInv, Shape, Goto
    <3>3. StoredAt("feedback")' = StoredAt("feedback") /\ StoredAt("qa")' = StoredAt("qa") \cup {id}
      BY <3>2 DEF StoredAt, Past
    <3>4. \A other : /\ ReviewRow(other, {})' = ReviewRow(other, {})
                     /\ FeedbackRow(other)' = FeedbackRow(other)
      BY <3>1 DEF ReviewRow, FeedbackRow
    <3> QED BY <3>1, <3>3, <3>4 DEF GrownFrom
  <2> QED BY <2>1, <2>2 DEF PInv
<1> QED BY <1>2, <1>3

(* The hand-over: the collector has not seen the review before.            *)
LEMMA PairPush ==
  ASSUME IInv, PInv, NEW id \in Ids, Push(id)
  PROVE  PInv'
<1>1. /\ at'["qa"][id] = "done"
      /\ at'["feedback"][id] =
           IF WorthPushing(request[id].body) THEN "accepted" ELSE at["feedback"][id]
      /\ \A other \in Ids : other # id => \A t \in Services : at'[t][other] = at[t][other]
      /\ at["qa"][id] = "patched"
      /\ rows' = rows /\ request' = request /\ faults' = faults
  BY DEF IInv, Shape, Push
<1>2. request[id] # Nothing
  BY <1>1 DEF IInv, IdleUntilSent
<1>3. Sent'
  BY <1>1 DEF PInv, Sent
<1> SUFFICES ASSUME faults = 0 PROVE Flows' /\ Grown'
  BY <1>1, <1>3 DEF PInv, Flows, Grown
<1>4. \A other \in Ids : Flow(other)
  BY DEF PInv, Flows
<1>5. request[id].service = "qa" /\ at["feedback"][id] = "idle"
  BY <1>1, <1>2, <1>4 DEF Flow, PInv, Sent
<1>6. Flows'
  <2> SUFFICES ASSUME NEW other \in Ids PROVE Flow(other)'
    BY DEF Flows
  <2>1. CASE other # id
    BY <1>1, <1>4, <2>1 DEF Flow
  <2>2. CASE other = id
    BY <1>1, <1>2, <1>5, <2>2 DEF Flow
  <2> QED BY <2>1, <2>2
<1>7. Grown'
  <2>1. \A t \in Services, other \in Ids :
          /\ at'[t][other] \in Past <=> at[t][other] \in Past
          /\ at[t][other] \in Past => request'[other] = request[other]
    BY <1>1, <1>5 DEF Past
  <2> QED BY <1>1, <2>1, SameRows DEF PInv
<1> QED BY <1>6, <1>7

LEMMA PairHandle ==
  ASSUME IInv, PInv, NEW s \in Services, NEW id \in Ids, Handle(s, id)
  PROVE  PInv'
<1>0. 1 \in Nat \ {0}
  OBVIOUS
<1>1. CASE StoreFeedback(id)
  BY <1>1, PairStoreFeedback
<1>2. CASE \E u \in SUBSET {"incident", "decisions"} : StoreReview(id, u)
  BY <1>2, PairStoreReview
<1>3. CASE Push(id)
  BY <1>3, PairPush
<1>4. CASE PushFails(id) \/ PatchFails(s, id)
  BY <1>0, <1>4, PairFails DEF PushFails, PatchFails
<1>5. ASSUME NEW where \in {"computed", "recorded", "patched", "done"},
             Goto(s, id, where), at[s][id] \in Past \ {"done"}, where = "done" => s = "feedback",
             rows' = rows, request' = request, faults' = faults
      PROVE  PInv'
  <2>1. Sent' /\ Flows'
    BY <1>5, PairMoves DEF Handling, Past
  <2>2. \A t \in Services, other \in Ids :
          /\ at'[t][other] \in Past <=> at[t][other] \in Past
          /\ at[t][other] \in Past => request'[other] = request[other]
    BY <1>5 DEF IInv, Shape, Goto, Past
  <2>3. Grown'
    BY <1>5, <2>2, SameRows DEF PInv
  <2> QED BY <2>1, <2>3 DEF PInv
<1>6. CASE CloseTicket(id) /\ s = "feedback"
  BY <1>5, <1>6 DEF CloseTicket, Past
<1>7. CASE NoteReview(id) /\ s = "qa"
  BY <1>5, <1>7 DEF NoteReview, Past
<1>8. CASE Compute(s, id)
  BY <1>5, <1>8 DEF Compute, Past
<1>9. CASE Record(s, id)
  BY <1>5, <1>9 DEF Record, Past
<1> QED BY <1>1, <1>2, <1>3, <1>4, <1>6, <1>7, <1>8, <1>9 DEF Handle

LEMMA PairStep == IInv /\ PInv /\ [Next]_vars => PInv'
<1> SUFFICES ASSUME IInv, PInv, [Next]_vars PROVE PInv'
  OBVIOUS
<1>1. CASE \E s \in Services, id \in Ids, i \in Incidents, b \in Bodies : Send(s, id, i, b)
  BY <1>1, PairSend
<1>2. CASE \E s \in Services, id \in Ids : Handle(s, id)
  BY <1>2, PairHandle
<1>3. CASE UNCHANGED <<rows, request, at, faults>>
  <2>1. Sent' /\ Flows'
    BY <1>3 DEF PInv, Sent, Flows, Flow
  <2>2. Grown'
    BY <1>3, SameRows DEF PInv
  <2> QED BY <2>1, <2>2 DEF PInv
<1>4. CASE \E s \in Services : Restart(s)
  <2>1. 1 \in Nat \ {0}
    OBVIOUS
  <2> QED BY <1>4, <2>1, PairFails DEF Restart
<1> QED BY <1>1, <1>2, <1>3, <1>4 DEF Next, Scrape, vars

-----------------------------------------------------------------------------
(* Rows added to a database, one for each of some new ids, add their       *)
(* number to every count.                                                  *)
LEMMA CountGrows ==
  ASSUME NEW old, IsFiniteSet(old), \A r \in old : r.id \notin Ids,
         NEW added \in SUBSET Ids, NEW row, \A id \in added : row[id].id = id,
         NEW vote
  PROVE  Tally(old \cup {row[id] : id \in added}, "anomaly", vote)
           = Tally(old, "anomaly", vote)
               + Cardinality({id \in added : row[id].anomaly = vote})
<1> DEFINE first == {r \in old : r["anomaly"] = vote}
           ids   == {id \in added : row[id].anomaly = vote}
           new   == {row[id] : id \in ids}
           named == [id \in ids |-> row[id]]
<1>1. {r \in old \cup {row[id] : id \in added} : r["anomaly"] = vote} = first \cup new
  OBVIOUS
<1>2. IsFiniteSet(Ids)
  BY ReviewsAssumption, FS_Interval DEF Ids
<1>3. IsFiniteSet(ids) /\ IsFiniteSet(first)
  BY <1>2, FS_Subset
<1>4. named \in Bijection(ids, new)
  <2>1. \A id \in ids : named[id].id = id
    OBVIOUS
  <2>2. named \in [ids -> new]
    OBVIOUS
  <2>3. named \in Injection(ids, new)
    BY <2>1, <2>2 DEF Injection, IsInjective
  <2>4. named \in Surjection(ids, new)
    BY <2>2 DEF Surjection
  <2> QED BY <2>3, <2>4 DEF Bijection
<1>5. ExistsBijection(ids, new)
  BY <1>4 DEF ExistsBijection
<1>6. first \cap new = {}
  OBVIOUS
<1> HIDE DEF named, new
<1>7. IsFiniteSet(new) /\ Cardinality(new) = Cardinality(ids)
  BY <1>3, <1>5, FS_Bijection
<1>8. Cardinality(first \cup new) = Cardinality(first) + Cardinality(new)
  <2>1. Cardinality(first \cap new) = 0
    BY <1>6, FS_EmptySet
  <2> HIDE DEF first
  <2>2. Cardinality(first) \in Nat /\ Cardinality(new) \in Nat
    BY <1>3, <1>7, FS_CardinalityType
  <2>3. Cardinality(first \cup new)
          = Cardinality(first) + Cardinality(new) - Cardinality(first \cap new)
    BY <1>3, <1>7, FS_Union
  <2> QED BY <2>1, <2>2, <2>3
<1> QED BY <1>1, <1>7, <1>8 DEF Tally

(* Of reviews that each vote up, vote down or skip.                        *)
LEMMA CastIsUpAndDown ==
  ASSUME NEW rs, IsFiniteSet(rs), \A r \in rs : r["anomaly"] \in Votes
  PROVE  /\ Cardinality(Cast(rs, "anomaly"))
              = Tally(rs, "anomaly", "up") + Tally(rs, "anomaly", "down")
         /\ Tally(rs, "anomaly", "up") \in Nat /\ Tally(rs, "anomaly", "down") \in Nat
         /\ Cardinality(Cast(rs, "anomaly")) <= Cardinality(rs)
         /\ Cardinality(rs) \in Nat
<1> DEFINE up   == {r \in rs : r["anomaly"] = "up"}
           down == {r \in rs : r["anomaly"] = "down"}
<1>1. Cast(rs, "anomaly") = up \cup down
  BY DEF Cast, Votes
<1>2. up \cap down = {}
  OBVIOUS
<1>3. Tally(rs, "anomaly", "up") = Cardinality(up) /\ Tally(rs, "anomaly", "down") = Cardinality(down)
  BY DEF Tally
<1>4. up \subseteq rs /\ down \subseteq rs
  OBVIOUS
<1> HIDE DEF up, down
<1>5. /\ IsFiniteSet(up) /\ IsFiniteSet(down)
      /\ Cardinality(up) \in Nat /\ Cardinality(down) \in Nat
  BY <1>4, FS_Subset, FS_CardinalityType
<1>6. Cardinality(up \cap down) = 0
  BY <1>2, FS_EmptySet
<1>7. Cardinality(up \cup down) = Cardinality(up) + Cardinality(down) - Cardinality(up \cap down)
  BY <1>5, FS_Union
<1>8. Cardinality(up \cup down) = Cardinality(up) + Cardinality(down)
  BY <1>5, <1>6, <1>7
<1>9. Cardinality(up \cup down) <= Cardinality(rs) /\ Cardinality(rs) \in Nat
  BY <1>4, CountOfPart
<1> QED BY <1>1, <1>3, <1>5, <1>8, <1>9

(* A share that reaches a level before it is rounded reaches it after, and *)
(* one of at most five percent is rounded to at most five percent.         *)
LEMMA RoundingKeepsTheSide ==
  ASSUME NEW a \in Nat, NEW b \in Nat \ {0}, NEW level \in Nat
  PROVE  /\ Whole * a >= level * b => Rate(a, b) >= level
         /\ Whole * a <= level * b => Rate(a, b) <= level
<1>1. PICK r, w, p, l, g :
        r = Rate(a, b) /\ w = Whole * a /\ p = 2 * b /\ l = level * b /\ g = p * r
  OBVIOUS
<1>2. r \in Nat /\ w \in Nat /\ p \in Nat /\ l \in Nat /\ p * level = 2 * l /\ g \in Nat
  <2>1. r \in Nat
    BY <1>1, RateType
  <2>2. p * level = 2 * l
    BY <1>1
  <2> QED BY <1>1, <2>1, <2>2, WholeType
<1>3. g <= 2 * w + b /\ 2 * w + b < g + p
  <2>1. 2 * b * r = g /\ 2 * Whole * a = 2 * w
    BY <1>1, <1>2, WholeType
  <2> QED BY <1>1, <2>1, RateRounds
<1>4. ASSUME w >= l, r < level PROVE FALSE
  <2>1. p * (r + 1) <= p * level /\ p * (r + 1) = g + p
    <3>1. \A x, y, z \in Nat : x <= y => z * x <= z * y
      OBVIOUS
    <3>2. r + 1 \in Nat /\ r + 1 <= level
      BY <1>2, <1>4
    <3>3. p * (r + 1) = p * r + p
      BY <1>2
    <3> QED BY <1>1, <1>2, <3>1, <3>2, <3>3
  <2> QED BY <1>1, <1>2, <1>3, <1>4, <2>1
<1>5. ASSUME w <= l, r > level PROVE FALSE
  <2>1. p * (level + 1) <= g /\ p * (level + 1) = 2 * l + p
    <3>1. \A x, y, z \in Nat : x <= y => z * x <= z * y
      OBVIOUS
    <3>2. level + 1 \in Nat /\ level + 1 <= r
      BY <1>2, <1>5
    <3>3. p * (level + 1) = p * level + p
      BY <1>2
    <3> QED BY <1>1, <1>2, <3>1, <3>2, <3>3
  <2> QED BY <1>1, <1>2, <1>3, <1>5, <2>1
<1> QED BY <1>1, <1>2, <1>4, <1>5

(* Two services that count the same votes on the anomaly do not contradict *)
(* each other: Engine QA counts more reviews and asks for less.  That one  *)
(* rounds the rate and the other does not matters only when the warn level *)
(* is within the five percent at which the collector would lower.          *)
LEMMA SameCountsSameMind ==
  ASSUME Raised # Lowered(Knobs.err), FpWarn > 500, NEW here, NEW there,
         IsFiniteSet(here), \A r \in here : r["anomaly"] \in Votes,
         IsFiniteSet(there), \A r \in there : r["anomaly"] \in Votes,
         Tally(here, "anomaly", "up") = Tally(there, "anomaly", "up"),
         Tally(here, "anomaly", "down") = Tally(there, "anomaly", "down")
  PROVE  LET collector == FeedbackAdvice(here)
             engine    == EngineAdvice(there).thresholds
         IN  /\ collector = Raised  => engine = Raised
             /\ collector = Lowered(Knobs.err) => engine # Raised
<1>1. PICK votes, downs, fp, total :
        /\ votes = Cardinality(Cast(here, "anomaly"))
        /\ downs = Tally(here, "anomaly", "down")
        /\ fp = Rate(downs, votes)
        /\ total = Cardinality(there)
  OBVIOUS
<1>2. /\ votes = Cardinality(Cast(there, "anomaly"))
      /\ votes \in Nat /\ total \in Nat /\ votes <= total /\ downs \in Nat
  BY <1>1, CastIsUpAndDown
<1>3. fp \in Nat
  BY <1>1, <1>2, RateType
<1>4. /\ Quality(there).total = total /\ Quality(there).anomalyVotes = votes
      /\ Quality(there).fpRate = fp
  BY <1>1, <1>2 DEF Quality
<1>5. Raised # Kept /\ Lowered(Knobs.err) # Kept /\ Lowered(Unknown) # Raised
  <2>1. \A n \in Nat : Least(500, n + 50) # Unknown /\ Greatest(150, n - 25) # Unknown
    BY DEF Least, Greatest, Unknown
  <2>2. Raised.z # Kept.z /\ Lowered(Knobs.err).z # Kept.z /\ Raised.err # Lowered(Unknown).err
    BY <2>1, QualityAssumption DEF Raised, Lowered, Kept
  <2> QED BY <2>2
<1>6. PICK stats : stats = FeedbackStats(here)
  OBVIOUS
<1>7. stats.anomalyVotes = votes /\ stats.falsePositives = downs
  BY <1>1, <1>6 DEF FeedbackStats
<1>8. /\ FeedbackAdvice(here) = Raised =>
            votes >= MinSamples /\ Whole * downs >= FpWarn * votes
      /\ FeedbackAdvice(here) = Lowered(Knobs.err) =>
            votes >= MinSamples /\ Whole * downs <= 500 * votes
  <2>1. TooNoisy(stats) => Whole * downs >= FpWarn * votes
    BY <1>7 DEF TooNoisy
  <2>2. VeryClean(stats) => Whole * downs <= 500 * votes
    BY <1>7 DEF VeryClean
  <2>3. FeedbackAdvice(here)
          = IF votes < MinSamples THEN Kept
            ELSE IF TooNoisy(stats) THEN Raised
            ELSE IF VeryClean(stats) THEN Lowered(Knobs.err) ELSE Kept
    BY <1>6, <1>7 DEF FeedbackAdvice
  <2>4. MinSamples \in Nat /\ (~(votes < MinSamples) => votes >= MinSamples)
    BY <1>2, QualityAssumption
  <2>5. CASE votes < MinSamples
    BY <1>5, <2>3, <2>5
  <2>6. CASE ~(votes < MinSamples) /\ TooNoisy(stats)
    <3>1. FeedbackAdvice(here) = Raised
      BY <2>3, <2>6
    <3> QED BY <2>1, <2>4, <2>6, <3>1
  <2>7. CASE ~(votes < MinSamples) /\ ~TooNoisy(stats) /\ VeryClean(stats)
    <3>1. FeedbackAdvice(here) = Lowered(Knobs.err)
      BY <2>3, <2>7
    <3> QED BY <2>2, <2>4, <2>7, <3>1
  <2>8. CASE ~(votes < MinSamples) /\ ~TooNoisy(stats) /\ ~VeryClean(stats)
    BY <1>5, <2>3, <2>8
  <2> QED BY <2>5, <2>6, <2>7, <2>8
<1>9. MinSamples \in Nat \ {0} /\ FpWarn \in Nat /\ FpWarn > 500
  BY QualityAssumption
<1>10. NoisyDetector(Quality(there)) <=> votes > 0 /\ fp >= FpWarn
  BY <1>4 DEF NoisyDetector
<1>11. PICK engine : engine = EngineAdvice(there).thresholds
  OBVIOUS
<1>12. /\ total >= MinSamples /\ NoisyDetector(Quality(there)) => engine = Raised
       /\ ~NoisyDetector(Quality(there)) => engine \in {Kept, Lowered(Unknown)}
  <2> DEFINE q == Quality(there)
             noticed == {s \in {"thresholds", "weights", "calibrate", "llm", "bands"} :
                    CASE s = "thresholds" -> NoisyDetector(q)
                      [] s = "weights"    -> Overconfident(q)
                      [] s = "calibrate"  -> Miscalibrated(q)
                      [] s = "llm"        -> Inventing(q)
                      [] OTHER            -> Misrouting(q)}
  <2>1. NoisyDetector(q) => noticed # {}
    <3>1. NoisyDetector(q) => "thresholds" \in noticed
      OBVIOUS
    <3> QED BY <3>1
  <2>2. engine = CASE q.total < MinSamples -> Kept
                   [] q.total >= MinSamples /\ noticed = {} ->
                        IF q.fpRate <= 500 /\ q.precision >= 9000 THEN Lowered(Unknown) ELSE Kept
                   [] OTHER -> IF NoisyDetector(q) THEN Raised ELSE Kept
    BY <1>11 DEF EngineAdvice
  <2> HIDE DEF noticed
  <2> QED BY <1>2, <1>4, <1>9, <2>1, <2>2
<1>13. FeedbackAdvice(here) = Raised => engine = Raised
  <2> SUFFICES ASSUME FeedbackAdvice(here) = Raised PROVE engine = Raised
    OBVIOUS
  <2>1. votes >= MinSamples /\ Whole * downs >= FpWarn * votes
    BY <1>8
  <2>2. votes \in Nat \ {0}
    BY <1>2, <1>9, <2>1
  <2>3. fp >= FpWarn
    BY <1>1, <1>2, <1>9, <2>1, <2>2, RoundingKeepsTheSide
  <2> QED BY <1>2, <1>9, <1>10, <1>12, <2>1, <2>2, <2>3
<1>14. FeedbackAdvice(here) = Lowered(Knobs.err) => engine # Raised
  <2> SUFFICES ASSUME FeedbackAdvice(here) = Lowered(Knobs.err) PROVE engine # Raised
    OBVIOUS
  <2>1. votes >= MinSamples /\ Whole * downs <= 500 * votes
    BY <1>8
  <2>2. votes \in Nat \ {0} /\ 500 \in Nat
    BY <1>2, <1>9, <2>1
  <2>3. fp <= 500
    BY <1>1, <1>2, <2>1, <2>2, RoundingKeepsTheSide
  <2>4. ~NoisyDetector(Quality(there))
    BY <1>3, <1>9, <1>10, <2>3
  <2> QED BY <1>5, <1>12, <2>4
<1> QED BY <1>11, <1>13, <1>14

(* When the handlers are through, the collector holds the reviews of       *)
(* Engine QA that were worth the second write, and the others voted on     *)
(* nothing of the anomaly.                                                 *)
LEMMA SameTallies ==
  ASSUME IInv, Sent, \A id \in Ids : Flow(id), Quiet, OnlyThroughEngineQA,
         NEW db \in Databases, GrownFrom(db), NEW vote \in {"up", "down"},
         Tally(db["feedback"], "anomaly", vote) = Tally(db["qa"], "anomaly", vote)
  PROVE  Tally(rows["feedback"], "anomaly", vote) = Tally(rows["qa"], "anomaly", vote)
<1> DEFINE here  == StoredAt("feedback")
           there == StoredAt("qa")
           fed   == [id \in here |-> FeedbackRow(id)]
           held  == [id \in there |-> ReviewRow(id, {})]
           fedFor  == {id \in here : fed[id].anomaly = vote}
           heldFor == {id \in there : held[id].anomaly = vote}
<1>1. /\ here \in SUBSET Ids /\ there \in SUBSET Ids
      /\ \A id \in here : fed[id].id = id /\ fed[id].anomaly = request[id].body.anomaly
      /\ \A id \in there : held[id].id = id /\ held[id].anomaly = request[id].body.anomaly
  BY DEF StoredAt, FeedbackRow, ReviewRow
<1>2. /\ rows["feedback"] = db["feedback"] \cup {fed[id] : id \in here}
      /\ rows["qa"] = db["qa"] \cup {held[id] : id \in there}
  BY DEF GrownFrom
<1>3. \A id \in Ids : id \in here <=> id \in there /\ WorthPushing(request[id].body)
  <2> SUFFICES ASSUME NEW id \in Ids
               PROVE  id \in here <=> id \in there /\ WorthPushing(request[id].body)
    OBVIOUS
  <2>1. CASE request[id] = Nothing
    BY <2>1 DEF IInv, IdleUntilSent, StoredAt, Past
  <2>2. CASE request[id] # Nothing
    <3>1. request[id].service = "qa"
      BY <2>2 DEF OnlyThroughEngineQA
    <3>2. /\ at["feedback"][id] # "idle" <=>
               at["qa"][id] = "done" /\ WorthPushing(request[id].body)
          /\ at["feedback"][id] \notin {"refused", "killed"}
          /\ at["qa"][id] # "killed"
      BY <2>2, <3>1 DEF Flow
    <3>3. /\ at["feedback"][id] \in {"idle", "refused", "killed", "done"}
          /\ at["qa"][id] \in {"idle", "refused", "killed", "done"}
      BY DEF Quiet, IInv, Shape, Places
    <3> QED BY <3>2, <3>3 DEF StoredAt, Past
  <2> QED BY <2>1, <2>2
<1>4. \A id \in Ids : request[id].body.anomaly = vote => WorthPushing(request[id].body)
  BY DEF WorthPushing
<1>5. fedFor = heldFor
  BY <1>1, <1>3, <1>4
<1>6. IsFiniteSet(db["feedback"]) /\ \A r \in db["feedback"] : r.id \notin Ids
  BY ReviewsAssumption
<1>7. IsFiniteSet(db["qa"]) /\ \A r \in db["qa"] : r.id \notin Ids
  BY ReviewsAssumption
<1> HIDE DEF here, there, fed, held
<1>8. Tally(rows["feedback"], "anomaly", vote)
        = Tally(db["feedback"], "anomaly", vote) + Cardinality(fedFor)
  <2>1. here \in SUBSET Ids /\ \A id \in here : fed[id].id = id
    BY <1>1
  <2>2. Tally(db["feedback"] \cup {fed[id] : id \in here}, "anomaly", vote)
          = Tally(db["feedback"], "anomaly", vote)
              + Cardinality({id \in here : fed[id].anomaly = vote})
    BY <2>1, <1>6, CountGrows
  <2> QED BY <1>2, <2>2
<1>9. Tally(rows["qa"], "anomaly", vote)
        = Tally(db["qa"], "anomaly", vote) + Cardinality(heldFor)
  <2>1. there \in SUBSET Ids /\ \A id \in there : held[id].id = id
    BY <1>1
  <2>2. PICK old : old = db["qa"]
    OBVIOUS
  <2>3. IsFiniteSet(old) /\ \A r \in old : r.id \notin Ids
    BY <1>7, <2>2
  <2>4. Tally(old \cup {held[id] : id \in there}, "anomaly", vote)
          = Tally(old, "anomaly", vote)
              + Cardinality({id \in there : held[id].anomaly = vote})
    BY <2>1, <2>3, CountGrows
  <2> QED BY <1>2, <2>2, <2>4
<1> HIDE DEF fedFor, heldFor
<1> QED BY <1>5, <1>8, <1>9

LEMMA RowsVote ==
  ASSUME IInv, Sent, NEW db \in Databases, GrownFrom(db)
  PROVE  \A s \in Services : \A r \in rows[s] : r["anomaly"] \in Votes
<1>1. ASSUME NEW s \in Services, NEW r \in db[s] PROVE r["anomaly"] \in Votes
  BY ReviewsAssumption
<1>2. ASSUME NEW s \in Services, NEW id \in StoredAt(s)
      PROVE  request[id].body.anomaly \in Votes
  <2>1. request[id] # Nothing
    BY DEF StoredAt, Past, IInv, IdleUntilSent
  <2>2. request[id].body \in Bodies
    BY <2>1 DEF Sent, StoredAt
  <2> QED BY <2>2, ReviewsAssumption
<1>3. ASSUME NEW id \in StoredAt("feedback") PROVE FeedbackRow(id)["anomaly"] \in Votes
  BY <1>2 DEF FeedbackRow
<1>4. ASSUME NEW id \in StoredAt("qa") PROVE ReviewRow(id, {})["anomaly"] \in Votes
  BY <1>2 DEF ReviewRow
<1> QED BY <1>1, <1>3, <1>4 DEF GrownFrom

(* The double write keeps the two advisors of one mind: when every review  *)
(* came through Engine QA and nothing failed, the two databases count the  *)
(* same votes on the anomaly, and Engine QA never advises against what the *)
(* collector advises, provided the databases counted the same at the start,*)
(* the warn level is above the five percent at which the collector lowers, *)
(* and raising and lowering are two different advices.                     *)
THEOREM TheAdvisorsAgree ==
  ASSUME Raised # Lowered(Knobs.err), FpWarn > 500,
         \A db \in Databases, vote \in {"up", "down"} :
           Tally(db["feedback"], "anomaly", vote) = Tally(db["qa"], "anomaly", vote)
  PROVE  Spec => []AdvisorsAgree
<1>1. ASSUME IInv, PInv, RowsFinite PROVE AdvisorsAgree
  <2> SUFFICES ASSUME Quiet, faults = 0, OnlyThroughEngineQA
               PROVE  LET collector == FeedbackAdvice(rows["feedback"])
                          engine    == EngineAdvice(rows["qa"]).thresholds
                      IN  /\ collector = Raised  => engine = Raised
                          /\ collector = Lowered(Knobs.err) => engine # Raised
    BY DEF AdvisorsAgree
  <2>1. Sent /\ \A id \in Ids : Flow(id)
    BY <1>1 DEF PInv, Flows
  <2>2. PICK db \in Databases : GrownFrom(db)
    BY <1>1 DEF PInv, Grown
  <2>3. /\ Tally(rows["feedback"], "anomaly", "up") = Tally(rows["qa"], "anomaly", "up")
        /\ Tally(rows["feedback"], "anomaly", "down") = Tally(rows["qa"], "anomaly", "down")
    BY <1>1, <2>1, <2>2, SameTallies
  <2>4. /\ \A r \in rows["feedback"] : r["anomaly"] \in Votes
        /\ \A r \in rows["qa"] : r["anomaly"] \in Votes
    BY <1>1, <2>1, <2>2, RowsVote
  <2>5. IsFiniteSet(rows["feedback"]) /\ IsFiniteSet(rows["qa"])
    BY <1>1 DEF RowsFinite
  <2> QED BY <2>3, <2>4, <2>5, SameCountsSameMind
<1> QED BY <1>1, InitCorrect, StepCorrect, PairInit, PairStep, RowsStayFinite, PTL DEF Spec
=============================================================================
