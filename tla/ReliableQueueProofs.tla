------------------------ MODULE ReliableQueueProofs ------------------------
(***************************************************************************)
(* Safety of ReliableQueue for every number of payloads, every set of      *)
(* poison payloads, every retry and recovery limit and every number of     *)
(* faults.                                                                 *)
(***************************************************************************)
EXTENDS ReliableQueue, TLAPS

-----------------------------------------------------------------------------
(* Membership and distinctness under the three list operations             *)

(* LPUSH: the new element joins the others. *)
LEMMA AppendHolds ==
  ASSUME NEW S, NEW q \in Seq(S), NEW x \in S
  PROVE  /\ Append(q, x) \in Seq(S)
         /\ \A p : Holds(Append(q, x), p) <=> Holds(q, p) \/ p = x
         /\ Distinct(q) /\ ~Holds(q, x) => Distinct(Append(q, x))
<1>1. Append(q, x) \in Seq(S) /\ Len(Append(q, x)) = Len(q) + 1 /\ Len(q) \in Nat
  OBVIOUS
<1>2. /\ \A i \in 1 .. Len(q) : Append(q, x)[i] = q[i]
      /\ Append(q, x)[Len(q) + 1] = x
  OBVIOUS
<1>3. ASSUME NEW p PROVE Holds(Append(q, x), p) <=> Holds(q, p) \/ p = x
  BY <1>1, <1>2 DEF Holds
<1>4. Distinct(q) /\ ~Holds(q, x) => Distinct(Append(q, x))
  BY <1>1, <1>2 DEF Holds, Distinct
<1> QED BY <1>1, <1>3, <1>4

(* BLMOVE from the right: the head leaves, and no copy of it stays. *)
LEMMA TailHolds ==
  ASSUME NEW S, NEW q \in Seq(S), q # <<>>
  PROVE  /\ Tail(q) \in Seq(S) /\ Head(q) \in S
         /\ Holds(q, Head(q))
         /\ \A p : Holds(q, p) <=> Holds(Tail(q), p) \/ p = Head(q)
         /\ Distinct(q) => Distinct(Tail(q)) /\ ~Holds(Tail(q), Head(q))
<1>1. /\ Tail(q) \in Seq(S) /\ Head(q) \in S /\ Head(q) = q[1]
      /\ Len(q) \in Nat \ {0} /\ Len(Tail(q)) = Len(q) - 1
  OBVIOUS
<1>2. \A i \in 1 .. Len(Tail(q)) : Tail(q)[i] = q[i + 1]
  OBVIOUS
<1>3. ASSUME NEW p PROVE Holds(q, p) <=> Holds(Tail(q), p) \/ p = Head(q)
  <2>1. Holds(Tail(q), p) \/ p = Head(q) => Holds(q, p)
    BY <1>1, <1>2 DEF Holds
  <2>2. ASSUME Holds(q, p), p # Head(q) PROVE Holds(Tail(q), p)
    <3>1. PICK i \in 1 .. Len(q) : q[i] = p
      BY <2>2 DEF Holds
    <3>2. i - 1 \in 1 .. Len(Tail(q)) /\ Tail(q)[i - 1] = p
      BY <3>1, <2>2, <1>1, <1>2
    <3> QED BY <3>2 DEF Holds
  <2> QED BY <2>1, <2>2
<1>4. ASSUME Distinct(q) PROVE Distinct(Tail(q)) /\ ~Holds(Tail(q), Head(q))
  <2>1. \A i \in 1 .. Len(Tail(q)) : i + 1 \in 1 .. Len(q)
    BY <1>1
  <2>2. Distinct(Tail(q))
    BY <1>1, <1>2, <1>4, <2>1 DEF Distinct
  <2>3. \A i \in 1 .. Len(Tail(q)) : q[i + 1] # q[1]
    BY <1>1, <1>4, <2>1 DEF Distinct
  <2> QED BY <1>1, <1>2, <2>2, <2>3 DEF Holds
<1> QED BY <1>1, <1>3, <1>4

(* RPUSH: the new element joins the others at the reserving end. *)
LEMMA ConsHolds ==
  ASSUME NEW S, NEW q \in Seq(S), NEW x \in S
  PROVE  /\ <<x>> \o q \in Seq(S)
         /\ \A p : Holds(<<x>> \o q, p) <=> Holds(q, p) \/ p = x
         /\ Distinct(q) /\ ~Holds(q, x) => Distinct(<<x>> \o q)
<1> DEFINE r == <<x>> \o q
<1>1. r \in Seq(S) /\ Len(r) = Len(q) + 1 /\ Len(q) \in Nat
  OBVIOUS
<1>2. r[1] = x /\ \A i \in 1 .. Len(q) : r[i + 1] = q[i]
  OBVIOUS
<1>3. \A i \in 1 .. Len(r) : i # 1 => i - 1 \in 1 .. Len(q) /\ r[i] = q[i - 1]
  BY <1>1, <1>2
<1> HIDE DEF r
<1>4. ASSUME NEW p PROVE Holds(r, p) <=> Holds(q, p) \/ p = x
  <2>1. Holds(q, p) \/ p = x => Holds(r, p)
    BY <1>1, <1>2 DEF Holds
  <2>2. Holds(r, p) => Holds(q, p) \/ p = x
    BY <1>1, <1>2, <1>3 DEF Holds
  <2> QED BY <2>1, <2>2
<1>5. ASSUME Distinct(q), ~Holds(q, x) PROVE Distinct(r)
  <2>1. \A i \in 1 .. Len(r) : i # 1 => r[i] # x
    BY <1>3, <1>5 DEF Holds
  <2>2. ASSUME NEW i \in 1 .. Len(r), NEW j \in 1 .. Len(r), r[i] = r[j],
               i # 1, j # 1
        PROVE  i = j
    <3>1. i - 1 \in 1 .. Len(q) /\ j - 1 \in 1 .. Len(q) /\ q[i - 1] = q[j - 1]
      BY <2>2, <1>3
    <3>2. i - 1 = j - 1
      BY <3>1, <1>5 DEF Distinct
    <3> QED BY <3>2, <1>1
  <2> QED BY <2>1, <2>2, <1>2 DEF Distinct
<1> QED BY <1>1, <1>4, <1>5 DEF r

-----------------------------------------------------------------------------
(* The inductive invariant *)

LEMMA InitInv == Init => IInv
<1> SUFFICES ASSUME Init PROVE IInv
  OBVIOUS
<1> USE QueueAssumption DEF Init, Payloads
<1>1. \A p : ~Holds(<<>>, p)
  BY DEF Holds
<1>2. Distinct(<<>>)
  BY DEF Distinct
<1>3. TypeOK
  BY DEF TypeOK, PC
<1> QED
  BY <1>1, <1>2, <1>3 DEF IInv, OnePlace, OnlySent, WorkerInv, AttemptsInv,
     AckedWereHandled, DeadLetterEarned, NoLossBeforeFailure, InQueue

LEMMA StepInv == IInv /\ [Next]_vars => IInv'
<1> SUFFICES ASSUME IInv, [Next]_vars PROVE IInv'
  OBVIOUS
<1> USE QueueAssumption
<1>1. CASE Enqueue
  <2>1. sent + 1 \in Payloads /\ sent \in Nat /\ ~InQueue(sent + 1)
    BY <1>1 DEF Enqueue, IInv, TypeOK, OnlySent, Payloads
  <2>2. /\ queue' \in Seq(Payloads) /\ Distinct(queue')
        /\ \A p : InQueue(p)' <=> InQueue(p) \/ p = sent + 1
    BY <1>1, <2>1, AppendHolds DEF Enqueue, IInv, TypeOK, OnePlace, InQueue
  <2>3. TypeOK'
    BY <1>1, <2>1, <2>2, QueueAssumption, SMTT(30) DEF Enqueue, IInv, TypeOK
  <2>4. OnePlace' /\ OnlySent'
    BY <1>1, <2>1, <2>2 DEF Enqueue, IInv, TypeOK, OnePlace, OnlySent, Payloads
  <2>5. WorkerInv'
    BY <1>1, <2>1, <2>2 DEF Enqueue, IInv, TypeOK, WorkerInv, OnlySent, Payloads, PC
  <2>6. AttemptsInv' /\ AckedWereHandled' /\ DeadLetterEarned'
    BY <1>1 DEF Enqueue, IInv, AttemptsInv, AckedWereHandled, DeadLetterEarned
  <2>7. NoLossBeforeFailure'
    BY <1>1, <2>1, <2>2 DEF Enqueue, IInv, TypeOK, NoLossBeforeFailure, InFlight,
       Settled, Payloads
  <2> QED BY <2>3, <2>4, <2>5, <2>6, <2>7 DEF IInv
<1>2. CASE CommandFails
  <2>1. TypeOK'
    BY <1>2 DEF CommandFails, Fault, GiveUp, IInv, TypeOK, WorkerInv, PC
  <2>2. OnePlace' /\ OnlySent'
    BY <1>2 DEF CommandFails, Fault, GiveUp, IInv, TypeOK, OnePlace, OnlySent, WorkerInv,
       InQueue
  <2>3. WorkerInv'
    BY <1>2 DEF CommandFails, Fault, GiveUp, IInv, TypeOK, OnePlace, OnlySent, WorkerInv,
       InQueue
  <2>4. AttemptsInv'
    BY <1>2 DEF CommandFails, Fault, GiveUp, IInv, TypeOK, WorkerInv, AttemptsInv
  <2>5. AckedWereHandled' /\ DeadLetterEarned'
    BY <1>2 DEF CommandFails, Fault, GiveUp, IInv, TypeOK, WorkerInv, AttemptsInv,
       AckedWereHandled, DeadLetterEarned
  <2>6. NoLossBeforeFailure'
    BY <1>2 DEF CommandFails, Fault, GiveUp, IInv, TypeOK, WorkerInv, AttemptsInv,
       NoLossBeforeFailure, InFlight, Settled, InQueue
  <2> QED BY <2>1, <2>2, <2>3, <2>4, <2>5, <2>6 DEF IInv
<1>3. CASE Crash
  <2>1. TypeOK'
    BY <1>3 DEF Crash, Fault, IInv, TypeOK, WorkerInv, PC
  <2>2. OnePlace' /\ OnlySent'
    BY <1>3 DEF Crash, Fault, IInv, TypeOK, OnePlace, OnlySent, WorkerInv,
       InQueue
  <2>3. WorkerInv'
    BY <1>3 DEF Crash, Fault, IInv, TypeOK, OnePlace, OnlySent, WorkerInv,
       InQueue
  <2>4. AttemptsInv'
    BY <1>3 DEF Crash, Fault, IInv, TypeOK, WorkerInv, AttemptsInv
  <2>5. AckedWereHandled' /\ DeadLetterEarned'
    BY <1>3 DEF Crash, Fault, IInv, TypeOK, WorkerInv, AttemptsInv,
       AckedWereHandled, DeadLetterEarned
  <2>6. NoLossBeforeFailure'
    BY <1>3 DEF Crash, Fault, IInv, TypeOK, WorkerInv, AttemptsInv,
       NoLossBeforeFailure, InFlight, Settled, InQueue
  <2> QED BY <2>1, <2>2, <2>3, <2>4, <2>5, <2>6 DEF IInv
<1>4. ASSUME NEW x \in Payloads, RetryKeyExpires(x) PROVE IInv'
  <2>1. TypeOK'
    BY <1>4 DEF RetryKeyExpires, Fault, IInv, TypeOK, WorkerInv, PC
  <2>2. OnePlace' /\ OnlySent'
    BY <1>4 DEF RetryKeyExpires, Fault, IInv, TypeOK, OnePlace, OnlySent, WorkerInv,
       InQueue
  <2>3. WorkerInv'
    BY <1>4 DEF RetryKeyExpires, Fault, IInv, TypeOK, OnePlace, OnlySent, WorkerInv,
       InQueue
  <2>4. AttemptsInv'
    BY <1>4 DEF RetryKeyExpires, Fault, IInv, TypeOK, WorkerInv, AttemptsInv
  <2>5. AckedWereHandled' /\ DeadLetterEarned'
    BY <1>4 DEF RetryKeyExpires, Fault, IInv, TypeOK, WorkerInv, AttemptsInv,
       AckedWereHandled, DeadLetterEarned
  <2>6. NoLossBeforeFailure'
    BY <1>4 DEF RetryKeyExpires, Fault, IInv, TypeOK, WorkerInv, AttemptsInv,
       NoLossBeforeFailure, InFlight, Settled, InQueue
  <2> QED BY <2>1, <2>2, <2>3, <2>4, <2>5, <2>6 DEF IInv
<1>5. CASE Start
  <2>1. TypeOK'
    BY <1>5 DEF Start, history, IInv, TypeOK, WorkerInv, PC
  <2>2. OnePlace' /\ OnlySent'
    BY <1>5 DEF Start, history, IInv, TypeOK, OnePlace, OnlySent, WorkerInv,
       InQueue
  <2>3. WorkerInv'
    BY <1>5 DEF Start, history, IInv, TypeOK, OnePlace, OnlySent, WorkerInv,
       InQueue
  <2>4. AttemptsInv'
    BY <1>5 DEF Start, history, IInv, TypeOK, WorkerInv, AttemptsInv
  <2>5. AckedWereHandled' /\ DeadLetterEarned'
    BY <1>5 DEF Start, history, IInv, TypeOK, WorkerInv, AttemptsInv,
       AckedWereHandled, DeadLetterEarned
  <2>6. NoLossBeforeFailure'
    BY <1>5 DEF Start, history, IInv, TypeOK, WorkerInv, AttemptsInv,
       NoLossBeforeFailure, InFlight, Settled, InQueue
  <2> QED BY <2>1, <2>2, <2>3, <2>4, <2>5, <2>6 DEF IInv
<1>6. CASE Recovered
  <2>1. TypeOK'
    BY <1>6 DEF Recovered, redis, history, IInv, TypeOK, WorkerInv, PC
  <2>2. OnePlace' /\ OnlySent'
    BY <1>6 DEF Recovered, redis, history, IInv, TypeOK, OnePlace, OnlySent, WorkerInv,
       InQueue
  <2>3. WorkerInv'
    BY <1>6 DEF Recovered, redis, history, IInv, TypeOK, OnePlace, OnlySent, WorkerInv,
       InQueue
  <2>4. AttemptsInv'
    BY <1>6 DEF Recovered, redis, history, IInv, TypeOK, WorkerInv, AttemptsInv
  <2>5. AckedWereHandled' /\ DeadLetterEarned'
    BY <1>6 DEF Recovered, redis, history, IInv, TypeOK, WorkerInv, AttemptsInv,
       AckedWereHandled, DeadLetterEarned
  <2>6. NoLossBeforeFailure'
    BY <1>6 DEF Recovered, redis, history, IInv, TypeOK, WorkerInv, AttemptsInv,
       NoLossBeforeFailure, InFlight, Settled, InQueue
  <2> QED BY <2>1, <2>2, <2>3, <2>4, <2>5, <2>6 DEF IInv
<1>7. CASE HandlerReturns
  <2>1. TypeOK'
    BY <1>7 DEF HandlerReturns, redis, IInv, TypeOK, WorkerInv, PC
  <2>2. OnePlace' /\ OnlySent'
    BY <1>7 DEF HandlerReturns, redis, IInv, TypeOK, OnePlace, OnlySent, WorkerInv,
       InQueue
  <2>3. WorkerInv'
    BY <1>7 DEF HandlerReturns, redis, IInv, TypeOK, OnePlace, OnlySent, WorkerInv,
       InQueue
  <2>4. AttemptsInv'
    BY <1>7 DEF HandlerReturns, redis, IInv, TypeOK, WorkerInv, AttemptsInv
  <2>5. AckedWereHandled' /\ DeadLetterEarned'
    BY <1>7 DEF HandlerReturns, redis, IInv, TypeOK, WorkerInv, AttemptsInv,
       AckedWereHandled, DeadLetterEarned
  <2>6. NoLossBeforeFailure'
    BY <1>7 DEF HandlerReturns, redis, IInv, TypeOK, WorkerInv, AttemptsInv,
       NoLossBeforeFailure, InFlight, Settled, InQueue
  <2> QED BY <2>1, <2>2, <2>3, <2>4, <2>5, <2>6 DEF IInv
<1>8. CASE HandlerRaises
  <2>1. TypeOK'
    BY <1>8 DEF HandlerRaises, redis, Fault, Bump, IInv, TypeOK, WorkerInv, PC
  <2>2. OnePlace' /\ OnlySent'
    BY <1>8 DEF HandlerRaises, redis, Fault, Bump, IInv, TypeOK, OnePlace, OnlySent, WorkerInv,
       InQueue
  <2>3. WorkerInv'
    BY <1>8 DEF HandlerRaises, redis, Fault, Bump, IInv, TypeOK, OnePlace, OnlySent, WorkerInv,
       InQueue
  <2>4. AttemptsInv'
    BY <1>8 DEF HandlerRaises, redis, Fault, Bump, IInv, TypeOK, WorkerInv, AttemptsInv
  <2>5. AckedWereHandled' /\ DeadLetterEarned'
    BY <1>8 DEF HandlerRaises, redis, Fault, Bump, IInv, TypeOK, WorkerInv, AttemptsInv,
       AckedWereHandled, DeadLetterEarned
  <2>6. NoLossBeforeFailure'
    BY <1>8 DEF HandlerRaises, redis, Fault, Bump, IInv, TypeOK, WorkerInv, AttemptsInv,
       NoLossBeforeFailure, InFlight, Settled, InQueue
  <2> QED BY <2>1, <2>2, <2>3, <2>4, <2>5, <2>6 DEF IInv
<1>9. CASE AckRemove
  <2>1. TypeOK'
    BY <1>9 DEF AckRemove, Replied, Fault, GiveUp, IInv, TypeOK, WorkerInv, PC
  <2>2. OnePlace' /\ OnlySent'
    BY <1>9 DEF AckRemove, Replied, Fault, GiveUp, IInv, TypeOK, OnePlace, OnlySent, WorkerInv,
       InQueue
  <2>3. WorkerInv'
    BY <1>9 DEF AckRemove, Replied, Fault, GiveUp, IInv, TypeOK, OnePlace, OnlySent, WorkerInv,
       InQueue
  <2>4. AttemptsInv'
    BY <1>9 DEF AckRemove, Replied, Fault, GiveUp, IInv, TypeOK, WorkerInv, AttemptsInv
  <2>5. AckedWereHandled' /\ DeadLetterEarned'
    BY <1>9 DEF AckRemove, Replied, Fault, GiveUp, IInv, TypeOK, WorkerInv, AttemptsInv,
       AckedWereHandled, DeadLetterEarned
  <2>6. NoLossBeforeFailure'
    BY <1>9 DEF AckRemove, Replied, Fault, GiveUp, IInv, TypeOK, WorkerInv, AttemptsInv,
       NoLossBeforeFailure, InFlight, Settled, InQueue
  <2> QED BY <2>1, <2>2, <2>3, <2>4, <2>5, <2>6 DEF IInv
<1>10. CASE AckClear
  <2>1. TypeOK'
    BY <1>10 DEF AckClear, Replied, Fault, GiveUp, IInv, TypeOK, WorkerInv, PC
  <2>2. OnePlace' /\ OnlySent'
    BY <1>10 DEF AckClear, Replied, Fault, GiveUp, IInv, TypeOK, OnePlace, OnlySent, WorkerInv,
       InQueue
  <2>3. WorkerInv'
    BY <1>10 DEF AckClear, Replied, Fault, GiveUp, IInv, TypeOK, OnePlace, OnlySent, WorkerInv,
       InQueue
  <2>4. AttemptsInv'
    BY <1>10 DEF AckClear, Replied, Fault, GiveUp, IInv, TypeOK, WorkerInv, AttemptsInv
  <2>5. AckedWereHandled' /\ DeadLetterEarned'
    BY <1>10 DEF AckClear, Replied, Fault, GiveUp, IInv, TypeOK, WorkerInv, AttemptsInv,
       AckedWereHandled, DeadLetterEarned
  <2>6. NoLossBeforeFailure'
    BY <1>10 DEF AckClear, Replied, Fault, GiveUp, IInv, TypeOK, WorkerInv, AttemptsInv,
       NoLossBeforeFailure, InFlight, Settled, InQueue
  <2> QED BY <2>1, <2>2, <2>3, <2>4, <2>5, <2>6 DEF IInv
<1>11. CASE CountAttempt
  <2>1. TypeOK'
    BY <1>11 DEF CountAttempt, Replied, Fault, GiveUp, IInv, TypeOK, WorkerInv, PC
  <2>2. OnePlace' /\ OnlySent'
    BY <1>11 DEF CountAttempt, Replied, Fault, GiveUp, IInv, TypeOK, OnePlace, OnlySent, WorkerInv,
       InQueue
  <2>3. WorkerInv'
    BY <1>11 DEF CountAttempt, Replied, Fault, GiveUp, IInv, TypeOK, OnePlace, OnlySent, WorkerInv,
       InQueue
  <2>4. AttemptsInv'
    BY <1>11 DEF CountAttempt, Replied, Fault, GiveUp, IInv, TypeOK, WorkerInv, AttemptsInv
  <2>5. AckedWereHandled' /\ DeadLetterEarned'
    BY <1>11 DEF CountAttempt, Replied, Fault, GiveUp, IInv, TypeOK, WorkerInv, AttemptsInv,
       AckedWereHandled, DeadLetterEarned
  <2>6. NoLossBeforeFailure'
    BY <1>11 DEF CountAttempt, Replied, Fault, GiveUp, IInv, TypeOK, WorkerInv, AttemptsInv,
       NoLossBeforeFailure, InFlight, Settled, InQueue
  <2> QED BY <2>1, <2>2, <2>3, <2>4, <2>5, <2>6 DEF IInv
<1>12. CASE RemoveReservation
  <2>1. TypeOK'
    BY <1>12 DEF RemoveReservation, Replied, Fault, GiveUp, IInv, TypeOK, WorkerInv, PC
  <2>2. OnePlace' /\ OnlySent'
    BY <1>12 DEF RemoveReservation, Replied, Fault, GiveUp, IInv, TypeOK, OnePlace, OnlySent, WorkerInv,
       InQueue
  <2>3. WorkerInv'
    BY <1>12 DEF RemoveReservation, Replied, Fault, GiveUp, IInv, TypeOK, OnePlace, OnlySent, WorkerInv,
       InQueue
  <2>4. AttemptsInv'
    BY <1>12 DEF RemoveReservation, Replied, Fault, GiveUp, IInv, TypeOK, WorkerInv, AttemptsInv
  <2>5. AckedWereHandled' /\ DeadLetterEarned'
    BY <1>12 DEF RemoveReservation, Replied, Fault, GiveUp, IInv, TypeOK, WorkerInv, AttemptsInv,
       AckedWereHandled, DeadLetterEarned
  <2>6. NoLossBeforeFailure'
    BY <1>12 DEF RemoveReservation, Replied, Fault, GiveUp, IInv, TypeOK, WorkerInv, AttemptsInv,
       NoLossBeforeFailure, InFlight, Settled, InQueue
  <2> QED BY <2>1, <2>2, <2>3, <2>4, <2>5, <2>6 DEF IInv
<1>13. CASE DeadLetter
  <2>1. TypeOK'
    BY <1>13 DEF DeadLetter, Replied, Fault, GiveUp, IInv, TypeOK, WorkerInv, PC
  <2>2. OnePlace' /\ OnlySent'
    BY <1>13 DEF DeadLetter, Replied, Fault, GiveUp, IInv, TypeOK, OnePlace, OnlySent, WorkerInv,
       InQueue
  <2>3. WorkerInv'
    BY <1>13 DEF DeadLetter, Replied, Fault, GiveUp, IInv, TypeOK, OnePlace, OnlySent, WorkerInv,
       InQueue
  <2>4. AttemptsInv'
    BY <1>13 DEF DeadLetter, Replied, Fault, GiveUp, IInv, TypeOK, WorkerInv, AttemptsInv
  <2>5. AckedWereHandled' /\ DeadLetterEarned'
    BY <1>13 DEF DeadLetter, Replied, Fault, GiveUp, IInv, TypeOK, WorkerInv, AttemptsInv,
       AckedWereHandled, DeadLetterEarned
  <2>6. NoLossBeforeFailure'
    BY <1>13 DEF DeadLetter, Replied, Fault, GiveUp, IInv, TypeOK, WorkerInv, AttemptsInv,
       NoLossBeforeFailure, InFlight, Settled, InQueue
  <2> QED BY <2>1, <2>2, <2>3, <2>4, <2>5, <2>6 DEF IInv
<1>14. CASE ForgetAttempts
  <2>1. TypeOK'
    BY <1>14 DEF ForgetAttempts, Replied, Fault, GiveUp, IInv, TypeOK, WorkerInv, PC
  <2>2. OnePlace' /\ OnlySent'
    BY <1>14 DEF ForgetAttempts, Replied, Fault, GiveUp, IInv, TypeOK, OnePlace, OnlySent, WorkerInv,
       InQueue
  <2>3. WorkerInv'
    BY <1>14 DEF ForgetAttempts, Replied, Fault, GiveUp, IInv, TypeOK, OnePlace, OnlySent, WorkerInv,
       InQueue
  <2>4. AttemptsInv'
    BY <1>14 DEF ForgetAttempts, Replied, Fault, GiveUp, IInv, TypeOK, WorkerInv, AttemptsInv
  <2>5. AckedWereHandled' /\ DeadLetterEarned'
    BY <1>14 DEF ForgetAttempts, Replied, Fault, GiveUp, IInv, TypeOK, WorkerInv, AttemptsInv,
       AckedWereHandled, DeadLetterEarned
  <2>6. NoLossBeforeFailure'
    BY <1>14 DEF ForgetAttempts, Replied, Fault, GiveUp, IInv, TypeOK, WorkerInv, AttemptsInv,
       NoLossBeforeFailure, InFlight, Settled, InQueue
  <2> QED BY <2>1, <2>2, <2>3, <2>4, <2>5, <2>6 DEF IInv
<1>15. CASE RecoverOne
  <2>1. PICK p \in processing : processing' = processing \ {p} /\ queue' = Append(queue, p)
    BY <1>15 DEF RecoverOne
  <2>2. /\ queue' \in Seq(Payloads) /\ Distinct(queue')
        /\ \A x : InQueue(x)' <=> InQueue(x) \/ x = p
        /\ p \in Payloads /\ ~InQueue(p)
    BY <2>1, AppendHolds DEF IInv, TypeOK, OnePlace, InQueue
  <2>3. TypeOK'
    BY <1>15, <2>1, <2>2 DEF RecoverOne, Fault, IInv, TypeOK
  <2>4. OnePlace' /\ OnlySent'
    BY <1>15, <2>1, <2>2 DEF RecoverOne, IInv, TypeOK, OnePlace, OnlySent
  <2>5. WorkerInv' /\ AttemptsInv'
    BY <1>15, <2>1, <2>2 DEF RecoverOne, IInv, TypeOK, WorkerInv, AttemptsInv
  <2>6. AckedWereHandled' /\ DeadLetterEarned' /\ NoLossBeforeFailure'
    BY <1>15, <2>1, <2>2 DEF RecoverOne, IInv, TypeOK, AckedWereHandled,
       DeadLetterEarned, NoLossBeforeFailure, InFlight, Settled
  <2> QED BY <2>3, <2>4, <2>5, <2>6 DEF IInv
<1>16. CASE Reserve
  <2> PICK h : h = Head(queue)
    OBVIOUS
  <2>1. /\ queue' \in Seq(Payloads) /\ h \in Payloads /\ InQueue(h)
        /\ Distinct(queue') /\ ~InQueue(h)'
        /\ \A x : InQueue(x) <=> InQueue(x)' \/ x = h
    <3>1. queue \in Seq(Payloads) /\ queue # <<>> /\ Distinct(queue)
      BY <1>16 DEF Reserve, IInv, TypeOK, OnePlace
    <3>2. queue' = Tail(queue)
      BY <1>16 DEF Reserve
    <3>3. /\ Tail(queue) \in Seq(Payloads) /\ h \in Payloads
          /\ Holds(queue, h)
          /\ \A x : Holds(queue, x) <=> Holds(Tail(queue), x) \/ x = h
          /\ Distinct(Tail(queue)) /\ ~Holds(Tail(queue), h)
      BY <3>1, TailHolds
    <3> QED BY <3>2, <3>3 DEF InQueue
  <2>2. /\ processing' = processing \cup {h}
        /\ pc = "polling" /\ cur = NoPayload
        /\ \/ pc' = "handling" /\ cur' = h /\ UNCHANGED faults
           \/ Fault /\ UNCHANGED <<pc, cur>>
        /\ UNCHANGED <<dlq, retries, attempts, recovered, sent, done, ok, fails>>
    BY <1>16 DEF Reserve, IInv, WorkerInv
  <2>3. TypeOK'
    BY <2>1, <2>2 DEF Fault, IInv, TypeOK, PC
  <2>4. OnePlace' /\ OnlySent'
    <3>1. h \notin done \cup dlq /\ h <= sent
      BY <2>1 DEF IInv, OnePlace, OnlySent
    <3>2. OnePlace'
      BY <3>1, <2>1, <2>2 DEF IInv, OnePlace
    <3>3. OnlySent'
      BY <3>1, <2>1, <2>2 DEF IInv, OnlySent
    <3> QED BY <3>2, <3>3
  <2>5. WorkerInv' /\ AttemptsInv'
    BY <2>1, <2>2 DEF IInv, TypeOK, WorkerInv, AttemptsInv
  <2>6. AckedWereHandled' /\ DeadLetterEarned' /\ NoLossBeforeFailure'
    BY <2>1, <2>2 DEF IInv, TypeOK, AckedWereHandled,
       DeadLetterEarned, NoLossBeforeFailure, InFlight, Settled
  <2> QED BY <2>3, <2>4, <2>5, <2>6 DEF IInv
<1>17. CASE Requeue
  <2>1. cur \in Payloads /\ ~InQueue(cur) /\ cur <= sent
    BY <1>17 DEF Requeue, IInv, TypeOK, WorkerInv
  <2>2. /\ queue' \in Seq(Payloads) /\ Distinct(queue')
        /\ \A x : InQueue(x)' <=> InQueue(x) \/ x = cur
    BY <1>17, <2>1, ConsHolds DEF Requeue, IInv, TypeOK, OnePlace, InQueue
  <2>3. TypeOK'
    BY <1>17, <2>1, <2>2 DEF Requeue, Replied, Fault, GiveUp, IInv, TypeOK, PC
  <2>4. OnePlace' /\ OnlySent'
    BY <1>17, <2>1, <2>2 DEF Requeue, IInv, TypeOK, OnePlace, OnlySent, WorkerInv
  <2>5. WorkerInv' /\ AttemptsInv'
    BY <1>17, <2>1, <2>2 DEF Requeue, Replied, Fault, GiveUp, IInv, TypeOK,
       WorkerInv, AttemptsInv
  <2>6. AckedWereHandled' /\ DeadLetterEarned' /\ NoLossBeforeFailure'
    BY <1>17, <2>1, <2>2 DEF Requeue, Replied, Fault, GiveUp, IInv, TypeOK,
       WorkerInv, AckedWereHandled, DeadLetterEarned, NoLossBeforeFailure,
       InFlight, Settled
  <2> QED BY <2>3, <2>4, <2>5, <2>6 DEF IInv
<1>18. CASE UNCHANGED vars
  BY <1>18 DEF vars, IInv, TypeOK, OnePlace, OnlySent, WorkerInv, AttemptsInv,
     AckedWereHandled, DeadLetterEarned, NoLossBeforeFailure, InFlight,
     Settled, InQueue
<1> QED
  BY <1>1, <1>2, <1>3, <1>4, <1>5, <1>6, <1>7, <1>8, <1>9, <1>10, <1>11,
     <1>12, <1>13, <1>14, <1>15, <1>16, <1>17, <1>18 DEF Next, LoopStep

(* Every reachable state satisfies the inductive invariant.                *)
THEOREM Invariance == Spec => []IInv
  BY InitInv, StepInv, PTL DEF Spec

(* Type correctness. *)
THEOREM TypeCorrect == Spec => []TypeOK
<1>1. IInv => TypeOK
  BY DEF IInv
<1> QED BY <1>1, Invariance, PTL

(* A payload is acknowledged only after its handler has returned: no crash *)
(* or lost reply acknowledges it early.                                    *)
THEOREM AcksAreEarned == Spec => []AckedWereHandled
<1>1. IInv => AckedWereHandled
  BY DEF IInv
<1> QED BY <1>1, Invariance, PTL

(* A payload is dead-lettered only after it has failed more than           *)
(* MaxRetries times, whichever retry keys expire or are counted twice.     *)
THEOREM DeadLettersAreEarned == Spec => []DeadLetterEarned
<1>1. IInv => DeadLetterEarned
  BY DEF IInv
<1> QED BY <1>1, Invariance, PTL

(* A payload whose handler has not failed is never lost, wherever the      *)
(* worker dies and whichever replies go missing.                           *)
THEOREM NoLoss == Spec => []NoLossBeforeFailure
<1>1. IInv => NoLossBeforeFailure
  BY DEF IInv
<1> QED BY <1>1, Invariance, PTL

(* A worker takes up a payload only by Reserve, from the queue, where no   *)
(* settled payload is: settled payloads are never handled again.           *)
THEOREM SettledFinality == Spec => SettledIsFinal
<1>1. IInv /\ [Next]_vars =>
        [\A p \in Payloads : Settled(p) /\ cur' = p => cur = p]_vars
  <2> SUFFICES ASSUME IInv, Next, NEW p \in Payloads, Settled(p), cur' = p
               PROVE  cur = p
    BY DEF vars
  <2>1. cur' # NoPayload
    BY QueueAssumption
  <2>2. CASE Reserve
    <3>1. InQueue(Head(queue))
      BY <2>2, TailHolds DEF Reserve, IInv, TypeOK, InQueue
    <3>2. ~InQueue(p)
      BY DEF IInv, OnePlace, Settled
    <3> QED BY <2>2, <3>1, <3>2 DEF Reserve
  <2>3. CASE ~Reserve
    BY <2>1, <2>3 DEF Next, LoopStep, Enqueue, Start, RecoverOne, Recovered,
       HandlerReturns, HandlerRaises, AckRemove, AckClear, CountAttempt,
       RemoveReservation, Requeue, DeadLetter, ForgetAttempts, CommandFails,
       Crash, RetryKeyExpires, Replied, GiveUp, Fault
  <2> QED BY <2>2, <2>3
<1> QED BY <1>1, Invariance, PTL DEF Spec, SettledIsFinal
-----------------------------------------------------------------------------
(* Refinement of Delivery *)

(* A step after which the same payloads are sent, in flight, acknowledged  *)
(* and dead-lettered changes no status.                                    *)
LEMMA SameStatus ==
  ASSUME UNCHANGED <<sent, done, dlq>>,
         \A p \in Payloads : InFlight(p)' <=> InFlight(p)
  PROVE  deliveryStatus' = deliveryStatus
BY DEF deliveryStatus

(* The status of a payload that is sent, in flight and not yet settled.    *)
LEMMA PendingStatus ==
  ASSUME IInv, NEW p \in Payloads,
         p \in processing \/ (pc = "requeueing" /\ cur = p)
  PROVE  deliveryStatus[p] = "pending"
<1>1. p <= sent /\ p \notin done /\ p \notin dlq /\ InFlight(p)
  BY DEF IInv, OnePlace, OnlySent, WorkerInv, InFlight
<1>2. p \in Nat /\ sent \in Nat
  BY QueueAssumption DEF IInv, TypeOK, Payloads
<1> QED BY <1>1, <1>2 DEF deliveryStatus

(* The status function changes at one payload.                             *)
LEMMA StatusUpdate ==
  ASSUME NEW c \in Payloads, NEW s,
         deliveryStatus'[c] = s,
         \A x \in Payloads : x # c => deliveryStatus'[x] = deliveryStatus[x]
  PROVE  deliveryStatus' = [deliveryStatus EXCEPT ![c] = s]
BY DEF deliveryStatus

(* Losing the worker's only copy of a failed payload.                      *)
LEMMA LoseStep ==
  ASSUME IInv, pc = "requeueing", cur' = NoPayload, pc' # "requeueing",
         UNCHANGED <<queue, processing, dlq, sent, done, ok, fails>>
  PROVE  D!Next
<1> PICK c : c = cur
  OBVIOUS
<1>1. c \in Payloads /\ c <= sent /\ sent \in Nat /\ c \in Nat
  BY QueueAssumption DEF IInv, TypeOK, WorkerInv, Payloads
<1>2. deliveryStatus[c] = "pending" /\ fails[c] > 0
  BY <1>1, PendingStatus DEF IInv, AttemptsInv
<1>3. \A x \in Payloads : x # c => (InFlight(x)' <=> InFlight(x))
  BY DEF InFlight, InQueue
<1>4. ~InFlight(c)' /\ c \notin done /\ c \notin dlq
  BY <1>1 DEF IInv, WorkerInv, InFlight, InQueue
<1>5. deliveryStatus' = [deliveryStatus EXCEPT ![c] = "lost"]
  <2>1. deliveryStatus'[c] = "lost"
    BY <1>1, <1>4 DEF deliveryStatus
  <2>2. \A x \in Payloads : x # c => deliveryStatus'[x] = deliveryStatus[x]
    BY <1>3 DEF deliveryStatus
  <2> QED BY <1>1, <2>1, <2>2, StatusUpdate
<1> QED
  BY <1>1, <1>2, <1>5 DEF D!Next, D!Lose, D!Becomes, D!Payloads, Payloads

(* Initial states map to initial states.                                   *)
LEMMA InitRefines == Init => D!Init
BY QueueAssumption DEF Init, D!Init, D!Payloads, Payloads, deliveryStatus

(* Every step maps to a step of Delivery or to a stutter.                  *)
LEMMA StepRefines == IInv /\ IInv' /\ [Next]_vars => [D!Next]_(D!vars)
<1> SUFFICES ASSUME IInv, IInv', [Next]_vars
             PROVE  D!Next \/ UNCHANGED <<deliveryStatus, ok, fails>>
  BY DEF D!vars
<1> USE QueueAssumption
<1>1. CASE Enqueue
  <2> PICK s : s = sent + 1
    OBVIOUS
  <2>1. s \in Payloads /\ sent \in Nat /\ sent < s
    BY <1>1 DEF Enqueue, IInv, TypeOK, Payloads
  <2>2. \A x \in Payloads : InFlight(x)' <=> InFlight(x) \/ x = s
    BY <1>1, <2>1, AppendHolds DEF Enqueue, IInv, TypeOK, InFlight, InQueue
  <2>3. s \notin done /\ s \notin dlq
    BY <2>1 DEF IInv, OnlySent
  <2>4. deliveryStatus[s] = "unsent"
    BY <2>1 DEF deliveryStatus
  <2>5. deliveryStatus' = [deliveryStatus EXCEPT ![s] = "pending"]
    <3>1. sent' = s /\ UNCHANGED <<done, dlq>>
      BY <1>1 DEF Enqueue
    <3>2. deliveryStatus'[s] = "pending"
      BY <2>1, <2>2, <2>3, <3>1 DEF deliveryStatus, Payloads
    <3>3. ASSUME NEW x \in Payloads, x # s
          PROVE  deliveryStatus'[x] = deliveryStatus[x]
      <4>1. x > s <=> x > sent
        BY <2>1, <3>3 DEF Payloads
      <4> QED BY <2>2, <3>1, <3>3, <4>1 DEF deliveryStatus
    <3> QED BY <2>1, <3>2, <3>3, StatusUpdate
  <2> QED
    BY <1>1, <2>1, <2>4, <2>5
    DEF Enqueue, D!Next, D!Send, D!Becomes, D!Payloads, Payloads
<1>2. CASE CommandFails \/ Crash
  <2>1. /\ cur' = NoPayload /\ pc' # "requeueing"
        /\ UNCHANGED <<queue, processing, dlq, sent, done, ok, fails>>
    BY <1>2 DEF CommandFails, Crash, GiveUp
  <2>2. CASE pc = "requeueing"
    BY <2>1, <2>2, LoseStep
  <2>3. CASE pc # "requeueing"
    BY <2>1, <2>3, SameStatus DEF InFlight, InQueue
  <2> QED BY <2>2, <2>3
<1>3. CASE \/ Start \/ Recovered \/ AckClear \/ CountAttempt \/ ForgetAttempts
           \/ \E p \in Payloads : RetryKeyExpires(p)
  <2>1. /\ \/ pc # "requeueing" /\ pc' # "requeueing"
           \/ UNCHANGED <<pc, cur>>
        /\ UNCHANGED <<queue, processing, dlq, sent, done, ok, fails>>
    BY <1>3 DEF Start, Recovered, AckClear, CountAttempt, ForgetAttempts,
       RetryKeyExpires, Replied, GiveUp, redis, history
  <2> QED BY <2>1, SameStatus DEF InFlight, InQueue
<1>4. CASE RecoverOne
  <2>1. PICK p \in processing :
          processing' = processing \ {p} /\ queue' = Append(queue, p)
    BY <1>4 DEF RecoverOne
  <2>2. \A x : InQueue(x)' <=> InQueue(x) \/ x = p
    BY <2>1, AppendHolds DEF IInv, TypeOK, InQueue
  <2> QED BY <1>4, <2>1, <2>2, SameStatus DEF RecoverOne, InFlight
<1>5. CASE Reserve
  <2> PICK h : h = Head(queue)
    OBVIOUS
  <2>1. \A x : InQueue(x) <=> InQueue(x)' \/ x = h
    <3>1. queue \in Seq(Payloads) /\ queue # <<>> /\ queue' = Tail(queue)
      BY <1>5 DEF Reserve, IInv, TypeOK
    <3>2. \A x : Holds(queue, x) <=> Holds(Tail(queue), x) \/ x = h
      BY <3>1, TailHolds
    <3> QED BY <3>1, <3>2 DEF InQueue
  <2>2. /\ processing' = processing \cup {h}
        /\ pc # "requeueing" /\ pc' # "requeueing"
        /\ UNCHANGED <<dlq, sent, done, ok, fails>>
    BY <1>5 DEF Reserve
  <2> QED BY <2>1, <2>2, SameStatus DEF InFlight
<1>6. CASE HandlerReturns \/ HandlerRaises
  <2>1. cur \in Payloads /\ deliveryStatus[cur] = "pending"
    BY <1>6, PendingStatus DEF HandlerReturns, HandlerRaises, IInv, TypeOK, WorkerInv
  <2>2. deliveryStatus' = deliveryStatus
    BY <1>6, SameStatus DEF HandlerReturns, HandlerRaises, redis, InFlight, InQueue
  <2> QED
    BY <1>6, <2>1, <2>2 DEF HandlerReturns, HandlerRaises, Bump, D!Next,
       D!Succeed, D!Fail, D!Bump, D!Payloads, Payloads
<1>7. CASE AckRemove
  <2> PICK c : c = cur
    OBVIOUS
  <2>1. c \in Payloads /\ deliveryStatus[c] = "pending" /\ c <= sent /\ c \in ok
    BY <1>7, PendingStatus DEF AckRemove, IInv, TypeOK, OnlySent, WorkerInv
  <2>2. \A x \in Payloads : x # c => (InFlight(x)' <=> InFlight(x))
    BY <1>7 DEF AckRemove, Replied, GiveUp, InFlight, InQueue
  <2>3. c \in Nat /\ sent \in Nat
    BY <2>1 DEF IInv, TypeOK, Payloads
  <2>4. deliveryStatus' = [deliveryStatus EXCEPT ![c] = "done"]
    BY <1>7, <2>1, <2>2, <2>3 DEF AckRemove, deliveryStatus
  <2> QED
    BY <1>7, <2>1, <2>4
    DEF AckRemove, D!Next, D!Acknowledge, D!Becomes, D!Payloads, Payloads
<1>8. CASE RemoveReservation
  <2> PICK c : c = cur
    OBVIOUS
  <2>1. /\ c \in Payloads /\ deliveryStatus[c] = "pending" /\ c <= sent
        /\ c \in Nat /\ sent \in Nat /\ fails[c] > 0
        /\ ~InQueue(c) /\ c \notin done /\ c \notin dlq
    <3>1. c \in Payloads /\ c \in processing /\ fails[c] > 0
      BY <1>8 DEF RemoveReservation, IInv, TypeOK, WorkerInv, AttemptsInv
    <3>2. ~InQueue(c) /\ c \notin done /\ c \notin dlq /\ c <= sent
      BY <3>1 DEF IInv, OnePlace, OnlySent
    <3>3. c \in Nat /\ sent \in Nat
      BY <3>1 DEF IInv, TypeOK, Payloads
    <3> QED BY <3>1, <3>2, <3>3, PendingStatus
  <2>2. /\ processing' = processing \ {c} /\ pc = "removing" /\ c \in processing
        /\ UNCHANGED <<queue, dlq, sent, done, ok, fails>>
    BY <1>8 DEF RemoveReservation, IInv, WorkerInv
  <2>3. CASE pc' = "requeueing" /\ cur' = c
    BY <2>2, <2>3, SameStatus DEF InFlight, InQueue
  <2>4. CASE pc' = "polling"
    <3>1. \A x \in Payloads : InFlight(x)' <=> InFlight(x) /\ x # c
      BY <2>1, <2>2, <2>4 DEF InFlight, InQueue
    <3>2. deliveryStatus' = [deliveryStatus EXCEPT ![c] = "lost"]
      BY <2>1, <2>2, <3>1 DEF deliveryStatus
    <3> QED
      BY <2>1, <2>2, <3>2 DEF D!Next, D!Lose, D!Becomes, D!Payloads, Payloads
  <2> QED BY <1>8, <2>3, <2>4 DEF RemoveReservation, Replied, GiveUp
<1>9. CASE Requeue
  <2> PICK c : c = cur
    OBVIOUS
  <2>1. c \in Payloads
    BY <1>9 DEF Requeue, IInv, TypeOK, WorkerInv
  <2>2. \A x : InQueue(x)' <=> InQueue(x) \/ x = c
    BY <1>9, <2>1, ConsHolds DEF Requeue, IInv, TypeOK, InQueue
  <2> QED
    BY <1>9, <2>2, SameStatus DEF Requeue, Replied, GiveUp, InFlight
<1>10. CASE DeadLetter
  <2> PICK c : c = cur
    OBVIOUS
  <2>1. /\ c \in Payloads /\ deliveryStatus[c] = "pending" /\ c <= sent
        /\ c \in Nat /\ sent \in Nat /\ c \notin done /\ fails[c] > MaxRetries
    <3>1. c \in Payloads /\ c <= sent /\ c \notin done
      BY <1>10 DEF DeadLetter, IInv, TypeOK, WorkerInv
    <3>2. attempts > MaxRetries /\ (attempts <= fails[c] \/ fails[c] > MaxRetries)
      BY <1>10 DEF DeadLetter, IInv, AttemptsInv
    <3>3. c \in Nat /\ sent \in Nat /\ attempts \in Nat /\ fails[c] \in Nat
      BY <3>1 DEF IInv, TypeOK, Payloads
    <3>4. deliveryStatus[c] = "pending"
      BY <1>10, <3>1, PendingStatus DEF DeadLetter
    <3> QED BY <3>1, <3>2, <3>3, <3>4
  <2>2. \A x \in Payloads : x # c => (InFlight(x)' <=> InFlight(x))
    BY <1>10 DEF DeadLetter, Replied, GiveUp, InFlight, InQueue
  <2>3. deliveryStatus' = [deliveryStatus EXCEPT ![c] = "dead"]
    BY <1>10, <2>1, <2>2 DEF DeadLetter, deliveryStatus
  <2> QED
    BY <1>10, <2>1, <2>3
    DEF DeadLetter, D!Next, D!Bury, D!Becomes, D!Payloads, Payloads
<1>11. CASE UNCHANGED vars
  BY <1>11, SameStatus DEF vars, InFlight, InQueue
<1> QED
  BY <1>1, <1>2, <1>3, <1>4, <1>5, <1>6, <1>7, <1>8, <1>9, <1>10, <1>11
  DEF Next, LoopStep

(* Whatever dies and whichever replies are lost, the queue keeps the       *)
(* promise of Delivery about every payload.                                *)
THEOREM Refinement == Spec => ImplementsDelivery
  BY InitRefines, StepRefines, Invariance, PTL DEF Spec, ImplementsDelivery, D!Spec

-----------------------------------------------------------------------------
(* Order                                                                   *)

Sorted(q) == \A i, j \in 1 .. Len(q) : i < j => q[i] < q[j]

LEMMA AppendSorted ==
  ASSUME NEW q \in Seq(Payloads), NEW x \in Payloads, Sorted(q),
         \A p \in Payloads : Holds(q, p) => p < x
  PROVE  Sorted(Append(q, x))
<1>1. /\ Len(Append(q, x)) = Len(q) + 1 /\ Len(q) \in Nat
      /\ \A i \in 1 .. Len(q) : Append(q, x)[i] = q[i] /\ q[i] \in Payloads
      /\ Append(q, x)[Len(q) + 1] = x
  OBVIOUS
<1>2. \A i \in 1 .. Len(q) : q[i] < x
  BY <1>1 DEF Holds
<1> QED BY <1>1, <1>2 DEF Sorted

LEMMA TailSorted ==
  ASSUME NEW q \in Seq(Payloads), q # <<>>, Sorted(q)
  PROVE  Sorted(Tail(q)) /\ \A p : Holds(Tail(q), p) => Head(q) < p
<1>1. /\ Len(q) \in Nat \ {0} /\ Len(Tail(q)) = Len(q) - 1 /\ Head(q) = q[1]
      /\ \A i \in 1 .. Len(Tail(q)) : Tail(q)[i] = q[i + 1]
  OBVIOUS
<1>2. \A i \in 1 .. Len(Tail(q)) : i + 1 \in 1 .. Len(q) /\ 1 < i + 1
  BY <1>1
<1>3. \A i \in 1 .. Len(Tail(q)) : Head(q) < Tail(q)[i]
  BY <1>1, <1>2 DEF Sorted
<1>4. ASSUME NEW i \in 1 .. Len(Tail(q)), NEW j \in 1 .. Len(Tail(q)), i < j
      PROVE  Tail(q)[i] < Tail(q)[j]
  BY <1>1, <1>2, <1>4 DEF Sorted
<1>5. Sorted(Tail(q))
  BY <1>4 DEF Sorted
<1> QED BY <1>3, <1>5 DEF Holds

LEMMA ConsSorted ==
  ASSUME NEW q \in Seq(Payloads), NEW x \in Payloads, Sorted(q),
         \A p \in Payloads : Holds(q, p) => x < p
  PROVE  Sorted(<<x>> \o q)
<1> DEFINE r == <<x>> \o q
<1>1. /\ Len(r) = Len(q) + 1 /\ Len(q) \in Nat /\ r[1] = x
      /\ \A i \in 1 .. Len(q) : r[i + 1] = q[i] /\ q[i] \in Payloads
  OBVIOUS
<1>2. \A i \in 1 .. Len(r) : i # 1 => i - 1 \in 1 .. Len(q) /\ r[i] = q[i - 1]
  BY <1>1
<1> HIDE DEF r
<1>3. ASSUME NEW i \in 1 .. Len(r), NEW j \in 1 .. Len(r), i < j
      PROVE  r[i] < r[j]
  <2>1. j # 1 /\ j - 1 \in 1 .. Len(q) /\ r[j] = q[j - 1]
    BY <1>1, <1>2, <1>3
  <2>2. CASE i = 1
    BY <1>1, <2>1, <2>2 DEF Holds
  <2>3. CASE i # 1
    <3>1. i - 1 \in 1 .. Len(q) /\ r[i] = q[i - 1] /\ i - 1 < j - 1
      BY <1>1, <1>2, <1>3, <2>3
    <3> QED BY <2>1, <3>1 DEF Sorted
  <2> QED BY <2>2, <2>3
<1> QED BY <1>3 DEF r, Sorted

(* As long as nothing has failed, the queue is in the order of sending,    *)
(* the payload in hand comes before all of it, and what is in neither is   *)
(* settled.                                                                *)
FifoInv ==
  faults = 0 =>
    /\ processing \subseteq {cur}
    /\ Sorted(queue)
    /\ cur # NoPayload => \A p \in Payloads : InQueue(p) => cur < p
    /\ cur # NoPayload => \A p \in 1 .. (cur - 1) : Settled(p)
    /\ \A p \in 1 .. sent : Settled(p) \/ InQueue(p) \/ p = cur

LEMMA StepFifo ==
  ASSUME IInv, FifoInv, [Next]_vars
  PROVE  FifoInv'
<1> SUFFICES ASSUME faults' = 0 PROVE FifoInv'
  BY DEF FifoInv
<1> USE QueueAssumption
<1>1. TypeOK /\ faults \in Nat /\ sent \in 0 .. N /\ Payloads = 1 .. N
  BY DEF IInv, TypeOK, Payloads
<1>2. ~Fault
  BY <1>1 DEF Fault
<1>3. faults = 0
  BY <1>1
  DEF Next, LoopStep, vars, Enqueue, Start, CommandFails, Crash,
      RetryKeyExpires, RecoverOne, Recovered, Reserve, HandlerReturns,
      HandlerRaises, AckRemove, AckClear, CountAttempt, RemoveReservation,
      Requeue, DeadLetter, ForgetAttempts, Replied, Fault, history
<1>4. /\ processing \subseteq {cur} /\ Sorted(queue)
      /\ cur # NoPayload => \A p \in Payloads : InQueue(p) => cur < p
      /\ cur # NoPayload => \A p \in 1 .. (cur - 1) : Settled(p)
      /\ \A p \in 1 .. sent : Settled(p) \/ InQueue(p) \/ p = cur
  BY <1>3 DEF FifoInv
<1>5. CASE Enqueue
  <2>1. /\ sent + 1 \in Payloads /\ sent \in Nat
        /\ \A p \in Payloads : InQueue(p) => p < sent + 1
    BY <1>1, <1>5 DEF Enqueue, IInv, OnlySent
  <2>2. Sorted(queue') /\ \A p : InQueue(p)' <=> InQueue(p) \/ p = sent + 1
    <3>1. PICK x \in Payloads : x = sent + 1 /\ queue' = Append(queue, x)
      BY <1>5, <2>1 DEF Enqueue
    <3>2. queue \in Seq(Payloads) /\ \A p \in Payloads : Holds(queue, p) => p < x
      BY <1>1, <2>1, <3>1 DEF TypeOK, InQueue
    <3>3. Sorted(queue')
      BY <1>4, <3>1, <3>2, AppendSorted
    <3>4. \A p : Holds(queue', p) <=> Holds(queue, p) \/ p = x
      BY <3>1, <3>2, AppendHolds
    <3> QED BY <3>1, <3>3, <3>4 DEF InQueue
  <2>3. cur # NoPayload => cur \in Nat /\ cur <= sent
    BY <1>1, <1>4, <1>5 DEF IInv, TypeOK, WorkerInv, OnlySent, PC
  <2>4. \A p : Settled(p)' <=> Settled(p)
    BY <1>5 DEF Enqueue, Settled
  <2>5. cur' # NoPayload => \A p \in Payloads : InQueue(p)' => cur' < p
    BY <1>4, <1>5, <2>1, <2>2, <2>3 DEF Enqueue
  <2>6. \A p \in 1 .. sent' : Settled(p)' \/ InQueue(p)' \/ p = cur'
    BY <1>4, <1>5, <2>1, <2>2, <2>4 DEF Enqueue
  <2> QED BY <1>4, <1>5, <2>2, <2>4, <2>5, <2>6 DEF FifoInv, Enqueue
<1>6. CASE Reserve
  <2> PICK h : h = Head(queue)
    OBVIOUS
  <2>1. /\ h \in Payloads /\ Sorted(queue')
        /\ \A p : InQueue(p) <=> InQueue(p)' \/ p = h
        /\ \A p : InQueue(p)' => h < p
    <3>1. queue \in Seq(Payloads) /\ queue # <<>> /\ queue' = Tail(queue)
      BY <1>1, <1>6 DEF Reserve, TypeOK
    <3> QED BY <1>4, <3>1, TailSorted, TailHolds DEF InQueue
  <2>2. /\ cur = NoPayload /\ cur' = h /\ processing = {}
        /\ processing' = {h} /\ UNCHANGED <<dlq, done, sent>>
    BY <1>1, <1>2, <1>4, <1>6 DEF Reserve, IInv, WorkerInv, TypeOK
  <2>3. \A p : Settled(p)' <=> Settled(p)
    BY <2>2 DEF Settled
  <2>4. h <= sent
    BY <1>1, <2>1 DEF IInv, OnlySent
  <2>5. \A p \in 1 .. (h - 1) : Settled(p)
    <3>1. ASSUME NEW p \in 1 .. (h - 1) PROVE Settled(p)
      <4>1. p \in 1 .. sent /\ p \in Payloads /\ p < h
        BY <1>1, <2>1, <2>4
      <4>2. ~InQueue(p)
        BY <1>1, <2>1, <4>1
      <4> QED BY <1>4, <2>2, <4>1, <4>2
    <3> QED BY <3>1
  <2>6. \A p \in 1 .. sent' : Settled(p)' \/ InQueue(p)' \/ p = cur'
    BY <1>1, <1>4, <2>1, <2>2, <2>3
  <2> QED BY <2>1, <2>2, <2>3, <2>5, <2>6 DEF FifoInv
<1>7. CASE Requeue
  <2>1. /\ cur \in Payloads /\ cur' = NoPayload /\ processing = {}
        /\ UNCHANGED <<processing, dlq, done, sent>>
    BY <1>1, <1>2, <1>4, <1>7
    DEF Requeue, Replied, IInv, WorkerInv, TypeOK
  <2>2. Sorted(queue') /\ \A p : InQueue(p)' <=> InQueue(p) \/ p = cur
    BY <1>1, <1>4, <1>7, <2>1, ConsSorted, ConsHolds DEF Requeue, TypeOK, InQueue
  <2>3. \A p : Settled(p)' <=> Settled(p)
    BY <2>1 DEF Settled
  <2> QED BY <1>4, <2>1, <2>2, <2>3 DEF FifoInv
(* The other steps of the loop keep the queue and let go only of a settled *)
(* payload.                                                                *)
<1>8. ASSUME UNCHANGED <<queue, sent>>, processing' \subseteq processing,
             done \subseteq done', dlq \subseteq dlq',
             \/ cur' = cur
             \/ cur' = NoPayload /\ cur \notin processing' /\ cur \in done' \cup dlq'
      PROVE  FifoInv'
  <2>1. \A p : InQueue(p)' <=> InQueue(p)
    BY <1>8 DEF InQueue
  <2>2. \A p : Settled(p) => Settled(p)'
    BY <1>8 DEF Settled
  <2>3. processing' \subseteq {cur'} /\ Sorted(queue')
    BY <1>4, <1>8
  <2>4. \A p \in 1 .. sent' : Settled(p)' \/ InQueue(p)' \/ p = cur'
    <3> SUFFICES ASSUME NEW p \in 1 .. sent
                 PROVE  Settled(p)' \/ InQueue(p)' \/ p = cur'
      BY <1>8
    <3>1. Settled(p) \/ InQueue(p) \/ p = cur
      BY <1>4
    <3>2. p = cur => p = cur' \/ Settled(p)'
      BY <1>8 DEF Settled
    <3> QED BY <2>1, <2>2, <3>1, <3>2
  <2> QED BY <1>4, <1>8, <2>1, <2>2, <2>3, <2>4 DEF FifoInv
<1>9. CASE AckRemove \/ DeadLetter
  BY <1>2, <1>8, <1>9 DEF AckRemove, DeadLetter, Replied
<1>10. CASE AckClear \/ ForgetAttempts
  <2>1. /\ cur' = NoPayload
        /\ UNCHANGED <<queue, processing, dlq, sent, done>>
    BY <1>2, <1>10 DEF AckClear, ForgetAttempts, Replied
  <2>2. cur \in done' \cup dlq' /\ cur \notin processing'
    BY <1>10, <2>1 DEF AckClear, ForgetAttempts, IInv, WorkerInv, OnePlace
  <2> QED BY <1>8, <2>1, <2>2
<1>11. CASE CountAttempt \/ RemoveReservation
  BY <1>2, <1>8, <1>11 DEF CountAttempt, RemoveReservation, Replied
<1>12. CASE HandlerReturns \/ HandlerRaises \/ Recovered \/ Start
  BY <1>8, <1>12
  DEF HandlerReturns, HandlerRaises, Recovered, Start, redis, history
<1>13. CASE RecoverOne
  BY <1>1, <1>4, <1>13 DEF RecoverOne, IInv, WorkerInv, TypeOK
<1>14. CASE CommandFails \/ Crash \/ \E p \in Payloads : RetryKeyExpires(p)
  BY <1>2, <1>14 DEF CommandFails, Crash, RetryKeyExpires
<1>15. CASE UNCHANGED vars
  BY <1>8, <1>15 DEF vars
<1> QED
  BY <1>5, <1>6, <1>7, <1>9, <1>10, <1>11, <1>12, <1>13, <1>14, <1>15
  DEF Next, LoopStep

(* As long as nothing fails but poison handlers, payloads are taken up in  *)
(* the order in which they were sent, retries included, for any number of  *)
(* payloads and retries.                                                   *)
THEOREM OrderIsKept == Spec => []FifoWithoutFaults
<1>1. Init => FifoInv
  BY QueueAssumption DEF Init, FifoInv, Sorted
<1>2. IInv /\ FifoInv /\ [Next]_vars => FifoInv'
  BY StepFifo
<1>3. FifoInv => FifoWithoutFaults
  BY DEF FifoInv, FifoWithoutFaults
<1> QED BY <1>1, <1>2, <1>3, Invariance, PTL DEF Spec
=============================================================================
