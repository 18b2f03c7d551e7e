------------------------- MODULE RemediationProofs --------------------------
(***************************************************************************)
(* What holds of the remediation service for every set of threads, actions *)
(* and names: the locked sections of one key exclude each other, and       *)
(* nothing high-risk runs without an approval.                             *)
(***************************************************************************)
EXTENDS Remediation, TLAPS

-----------------------------------------------------------------------------
(* Type correctness *)

LEMMA SnapshotFacts ==
  /\ NoSnapshot \in Snapshots
  /\ \A S \in SUBSET Injections : S \in Snapshots
  /\ \A S \in Snapshots : S # NoSnapshot => S \in SUBSET Injections
BY DEF Snapshots

LEMMA InitInv == Init => IInv
<1> USE RemediationAssumption
<1> SUFFICES ASSUME Init PROVE IInv
  OBVIOUS
<1>1. TypeOK
  <2>1. /\ rows \in [Actions -> Statuses] /\ copy \in [Workers -> Statuses]
        /\ ticket \in [Tickets -> TicketStatuses] /\ pc \in [Workers -> PC]
    BY DEF Init, Statuses, TicketStatuses, PC
  <2>2. /\ locks \in [Names -> Actions \cup {NoAction}]
        /\ cur \in [Workers -> Actions \cup {NoAction}]
        /\ chaos \in [Services -> SUBSET Injections]
        /\ snapshot \in [Workers -> Snapshots]
        /\ todo \in [Workers -> SUBSET Actions]
    BY SnapshotFacts DEF Init
  <2>3. /\ approvals \subseteq Actions /\ disturbed \subseteq Services
        /\ faults \in 0 .. MaxFaults
    BY DEF Init
  <2> QED
    BY <2>1, <2>2, <2>3 DEF TypeOK
<1>2. CurInv
  BY DEF Init, CurInv
<1>3. LockInv /\ MutualExclusion
  BY DEF Init, LockInv, MutualExclusion, Holds, Holding
<1>4. ApprovalInv
  BY DEF Init, ApprovalInv, Earned, Running
<1>5. NoLockForgotten /\ ResetInv
  BY DEF Init, NoLockForgotten, ResetInv
<1> QED
  BY <1>1, <1>2, <1>3, <1>4, <1>5 DEF IInv

(* A fault is counted up to the bound.                                     *)
LEMMA FaultType == ASSUME TypeOK, Fault PROVE faults' \in 0 .. MaxFaults
BY RemediationAssumption DEF TypeOK, Fault

(* The end of a request leaves the thread's variables well typed.          *)
LEMMA EndType ==
  ASSUME TypeOK, NEW w \in Workers, Return(w) \/ Abandon(w)
  PROVE  /\ pc' \in [Workers -> PC] /\ todo' \in [Workers -> SUBSET Actions]
         /\ cur' \in [Workers -> Actions \cup {NoAction}]
         /\ copy' \in [Workers -> Statuses]
         /\ snapshot' \in [Workers -> Snapshots]
<1>1. CASE Return(w)
  <2>1. pc' \in [Workers -> PC]
    BY <1>1 DEF TypeOK, Return, Goto, PC
  <2>2. copy' \in [Workers -> Statuses]
    BY <1>1 DEF TypeOK, Return, Statuses
  <2> QED
    BY <1>1, <2>1, <2>2, SnapshotFacts DEF TypeOK, Return
<1>2. CASE Abandon(w)
  <2>1. pc' \in [Workers -> PC]
    BY <1>2 DEF TypeOK, Abandon, Goto, PC
  <2>2. copy' \in [Workers -> Statuses]
    BY <1>2 DEF TypeOK, Abandon, Statuses
  <2> QED
    BY <1>2, <2>1, <2>2, SnapshotFacts DEF TypeOK, Abandon
<1> QED
  BY <1>1, <1>2

LEMMA StepType ==
  ASSUME IInv, [Next]_vars
  PROVE  TypeOK'
<1> USE RemediationAssumption DEF IInv
<1>1. ASSUME NEW w \in Workers, NEW t \in Tickets, NEW auto \in BOOLEAN,
             Propose(w, t, auto)
      PROVE  TypeOK'
  BY <1>1 DEF Propose, TypeOK, Goto, stores, history, PC
<1>2. ASSUME NEW w \in Workers, NEW a \in Actions,
             InsertProposal(w, a) PROVE TypeOK'
  BY <1>2 DEF InsertProposal, TypeOK, Goto, stores, history, PC, Statuses
<1>3. ASSUME NEW w \in Workers, NEW a \in Actions, NEW now \in BOOLEAN,
             Approve(w, a, now) PROVE TypeOK'
  BY <1>3 DEF Approve, TypeOK, Goto, stores, history, PC
<1>4. ASSUME NEW w \in Workers, WriteApproval(w) PROVE TypeOK'
  <2>1. cur[w] \in Actions
    BY <1>4 DEF WriteApproval, CurInv
  <2>2. /\ pc' \in [Workers -> PC] /\ todo' \in [Workers -> SUBSET Actions]
        /\ cur' \in [Workers -> Actions \cup {NoAction}]
        /\ copy' \in [Workers -> Statuses]
        /\ snapshot' \in [Workers -> Snapshots]
    BY <1>4, EndType DEF WriteApproval, TypeOK, Goto, PC
  <2> QED
    BY <1>4, <2>1, <2>2 DEF WriteApproval, TypeOK, Statuses
<1>5. ASSUME NEW w \in Workers, NEW a \in Actions, Execute(w, a) PROVE TypeOK'
  BY <1>5 DEF Execute, TypeOK, Goto, stores, history, PC
<1>6. ASSUME NEW a \in Actions, Reject(a) PROVE TypeOK'
  BY <1>6 DEF Reject, TypeOK, threads, history, Statuses
<1>7. ASSUME NEW w \in Workers, NEW a \in Actions,
             MarkFalsePositive(w, a) PROVE TypeOK'
  BY <1>7 DEF MarkFalsePositive, TypeOK, Goto, history, PC, Statuses
<1>8. ASSUME NEW w \in Workers, RecordFalsePositive(w) PROVE TypeOK'
  BY <1>8 DEF RecordFalsePositive, TypeOK, Goto, history, PC, Statuses
<1>9. ASSUME NEW w \in Workers, CloseAsFalsePositive(w) PROVE TypeOK'
  BY <1>9, EndType DEF CloseAsFalsePositive, TypeOK, history, TicketStatuses, Closed
<1>10. ASSUME NEW w \in Workers, Load(w) PROVE TypeOK'
  <2>1. cur[w] \in Actions
    BY <1>10 DEF Load, CurInv
  <2>2. /\ pc' \in [Workers -> PC] /\ todo' \in [Workers -> SUBSET Actions]
        /\ cur' \in [Workers -> Actions \cup {NoAction}]
        /\ copy' \in [Workers -> Statuses]
        /\ snapshot' \in [Workers -> Snapshots]
    BY <1>10, <2>1, EndType DEF Load, TypeOK, Goto, PC
  <2> QED
    BY <1>10, <2>2 DEF Load, TypeOK, stores, history
<1>11. ASSUME NEW w \in Workers, WriteBlocked(w) PROVE TypeOK'
  BY <1>11, EndType DEF WriteBlocked, TypeOK, history
<1>12. ASSUME NEW w \in Workers, AcquireLock(w) PROVE TypeOK'
  <2>1. cur[w] \in Actions
    BY <1>12 DEF AcquireLock, CurInv
  <2> QED
    BY <1>12, <2>1 DEF AcquireLock, TypeOK, Goto, history, PC
<1>13. ASSUME NEW w \in Workers, Record(w) PROVE TypeOK'
  <2>1. rows' \in [Actions -> Statuses] /\ pc' \in [Workers -> PC]
    BY <1>13 DEF Record, TypeOK, Goto, PC
  <2>2. faults' \in 0 .. MaxFaults
    BY <1>13, FaultType DEF Record, TypeOK
  <2> QED
    BY <1>13, <2>1, <2>2 DEF Record, TypeOK
<1>14. ASSUME NEW w \in Workers, ReleaseLock(w) PROVE TypeOK'
  <2>1. /\ pc' \in [Workers -> PC] /\ todo' \in [Workers -> SUBSET Actions]
        /\ cur' \in [Workers -> Actions \cup {NoAction}]
        /\ copy' \in [Workers -> Statuses]
        /\ snapshot' \in [Workers -> Snapshots]
    BY <1>14, EndType DEF ReleaseLock, TypeOK, Goto, PC
  <2>2. locks' \in [Names -> Actions \cup {NoAction}]
    BY <1>14 DEF ReleaseLock, TypeOK
  <2> QED
    BY <1>14, <2>1, <2>2 DEF ReleaseLock, TypeOK, history
<1>15. ASSUME NEW w \in Workers, NoteOnTicket(w) PROVE TypeOK'
  <2>1. faults' \in 0 .. MaxFaults
    BY <1>15, FaultType DEF NoteOnTicket, TypeOK
  <2> QED
    BY <1>15, <2>1, EndType DEF NoteOnTicket, TypeOK, TicketStatuses
<1>16. ASSUME NEW w \in Workers, ActQuietly(w) PROVE TypeOK'
  BY <1>16 DEF ActQuietly, Outcome, TypeOK, Goto, stores, history, PC, Statuses
<1>17. ASSUME NEW w \in Workers, Restart(w) PROVE TypeOK'
  <2>1. copy' \in [Workers -> Statuses] /\ pc' \in [Workers -> PC]
    BY <1>17 DEF Restart, Outcome, TypeOK, Goto, PC, Statuses
  <2>2. faults' \in 0 .. MaxFaults
    BY <1>17, FaultType DEF Restart, TypeOK
  <2>3. chaos' \in [Services -> SUBSET Injections]
    BY <1>17 DEF Restart, TypeOK
  <2> QED
    BY <1>17, <2>1, <2>2, <2>3 DEF Restart, TypeOK
<1>18. ASSUME NEW w \in Workers, TakeSnapshot(w) PROVE TypeOK'
  <2>1. Url(cur[w]) \in Services
    BY <1>18 DEF TakeSnapshot, CurInv, Url
  <2>2. faults' \in 0 .. MaxFaults
    BY <1>18, FaultType DEF TakeSnapshot, TypeOK
  <2>3. snapshot' \in [Workers -> Snapshots]
    BY <1>18, <2>1, SnapshotFacts DEF TakeSnapshot, TypeOK
  <2>4. pc' \in [Workers -> PC]
    BY <1>18 DEF TakeSnapshot, TypeOK, Goto, PC
  <2> QED
    BY <1>18, <2>2, <2>3, <2>4 DEF TakeSnapshot, TypeOK, stores
<1>19. ASSUME NEW w \in Workers, PostReset(w) PROVE TypeOK'
  <2>1. Url(cur[w]) \in Services
    BY <1>19 DEF PostReset, CurInv, Url
  <2>2. faults' \in 0 .. MaxFaults
    BY <1>19, FaultType DEF PostReset, TypeOK
  <2>3. chaos' \in [Services -> SUBSET Injections]
    BY <1>19, <2>1 DEF PostReset, TypeOK
  <2>4. pc' \in [Workers -> PC] /\ copy' \in [Workers -> Statuses]
    BY <1>19 DEF PostReset, TypeOK, Outcome, Goto, PC, Statuses
  <2> QED
    BY <1>19, <2>2, <2>3, <2>4 DEF PostReset, TypeOK
<1>20. ASSUME NEW w \in Workers, VerifyReset(w) PROVE TypeOK'
  BY <1>20 DEF VerifyReset, Outcome, TypeOK, Goto, stores, history, PC, Statuses
<1>21. ASSUME NEW w \in Workers, RollBack(w) PROVE TypeOK'
  <2>1. Url(cur[w]) \in Services
    BY <1>21 DEF RollBack, CurInv, Url
  <2>2. faults' \in 0 .. MaxFaults
    BY <1>21, FaultType DEF RollBack, TypeOK
  <2>3. chaos' \in [Services -> SUBSET Injections]
    <3>1. snapshot[w] # NoSnapshot => snapshot[w] \in SUBSET Injections
      BY <1>21, SnapshotFacts DEF RollBack, TypeOK
    <3> QED
      BY <1>21, <2>1, <3>1 DEF RollBack, TypeOK
  <2>4. pc' \in [Workers -> PC] /\ copy' \in [Workers -> Statuses]
    BY <1>21 DEF RollBack, TypeOK, Outcome, Goto, PC, Statuses
  <2> QED
    <3>1. UNCHANGED <<rows, locks, ticket, cur, snapshot, todo, approvals,
                      disturbed>>
      BY <1>21 DEF RollBack
    <3> QED
      BY <3>1, <2>2, <2>3, <2>4 DEF TypeOK
<1>22. ASSUME NEW w \in Workers, Crash(w) PROVE TypeOK'
  <2>1. faults' \in 0 .. MaxFaults
    BY <1>22, FaultType DEF Crash
  <2> QED
    BY <1>22, <2>1, EndType DEF Crash, TypeOK, stores
<1>23. ASSUME NEW n \in Names, LockExpires(n) PROVE TypeOK'
  BY <1>23 DEF LockExpires, TypeOK, threads, history
<1>24. ASSUME NEW s \in Services, NEW i \in Injections, Inject(s, i)
       PROVE  TypeOK'
  <2>1. faults' \in 0 .. MaxFaults
    BY <1>24, FaultType DEF Inject
  <2> QED
    BY <1>24, <2>1 DEF Inject, TypeOK, threads
<1>25. ASSUME NEW t \in Tickets, Close(t) PROVE TypeOK'
  BY <1>25 DEF Close, TypeOK, threads, history, TicketStatuses, Closed
<1>26. CASE UNCHANGED vars
  BY <1>26 DEF vars, TypeOK
<1> QED
  BY <1>1, <1>2, <1>3, <1>4, <1>5, <1>6, <1>7, <1>8, <1>9, <1>10, <1>11, <1>12,
     <1>13, <1>14, <1>15, <1>16, <1>17, <1>18, <1>19, <1>20, <1>21, <1>22,
     <1>23, <1>24, <1>25, <1>26 DEF Next, Request, Step

(* Only a request's own steps change its thread.                           *)
LEMMA StepCur ==
  ASSUME IInv, [Next]_vars
  PROVE  CurInv'
<1> USE RemediationAssumption DEF IInv
<1>1. ASSUME NEW w \in Workers, NEW t \in Tickets, NEW auto \in BOOLEAN,
   Propose(w, t, auto)
       PROVE  CurInv'
  BY <1>1 DEF Propose, Goto, stores, history, CurInv, TypeOK
<1>2. ASSUME NEW w \in Workers, NEW a \in Actions, InsertProposal(w, a)
       PROVE  CurInv'
  BY <1>2 DEF InsertProposal, Goto, history, CurInv, TypeOK
<1>3. ASSUME NEW w \in Workers, NEW a \in Actions, NEW now \in BOOLEAN,
   Approve(w, a, now)
       PROVE  CurInv'
  BY <1>3 DEF Approve, Goto, stores, history, CurInv, TypeOK
<1>4. ASSUME NEW w \in Workers, WriteApproval(w)
       PROVE  CurInv'
  BY <1>4 DEF WriteApproval, Goto, Return, CurInv, TypeOK
<1>5. ASSUME NEW w \in Workers, NEW a \in Actions, Execute(w, a)
       PROVE  CurInv'
  BY <1>5 DEF Execute, Goto, stores, history, CurInv, TypeOK
<1>6. ASSUME NEW a \in Actions, Reject(a)
       PROVE  CurInv'
  BY <1>6 DEF Reject, threads, history, CurInv, TypeOK
<1>7. ASSUME NEW w \in Workers, NEW a \in Actions, MarkFalsePositive(w, a)
       PROVE  CurInv'
  BY <1>7 DEF MarkFalsePositive, Goto, history, CurInv, TypeOK
<1>8. ASSUME NEW w \in Workers, RecordFalsePositive(w)
       PROVE  CurInv'
  BY <1>8 DEF RecordFalsePositive, Goto, history, CurInv, TypeOK
<1>9. ASSUME NEW w \in Workers, CloseAsFalsePositive(w)
       PROVE  CurInv'
  BY <1>9 DEF CloseAsFalsePositive, Goto, Return, history, CurInv, TypeOK
<1>10. ASSUME NEW w \in Workers, Load(w)
       PROVE  CurInv'
  BY <1>10 DEF Load, Goto, Return, stores, history, CurInv, TypeOK
<1>11. ASSUME NEW w \in Workers, WriteBlocked(w)
       PROVE  CurInv'
  BY <1>11 DEF WriteBlocked, Goto, Return, history, CurInv, TypeOK
<1>12. ASSUME NEW w \in Workers, AcquireLock(w)
       PROVE  CurInv'
  BY <1>12 DEF AcquireLock, Goto, history, CurInv, TypeOK
<1>13. ASSUME NEW w \in Workers, Record(w)
       PROVE  CurInv'
  BY <1>13 DEF Record, Goto, CurInv, TypeOK
<1>14. ASSUME NEW w \in Workers, ReleaseLock(w)
       PROVE  CurInv'
  BY <1>14 DEF ReleaseLock, Goto, Abandon, history, CurInv, TypeOK
<1>15. ASSUME NEW w \in Workers, NoteOnTicket(w)
       PROVE  CurInv'
  BY <1>15 DEF NoteOnTicket, Goto, Return, CurInv, TypeOK
<1>16. ASSUME NEW w \in Workers, ActQuietly(w)
       PROVE  CurInv'
  BY <1>16 DEF ActQuietly, Goto, Outcome, stores, history, CurInv, TypeOK
<1>17. ASSUME NEW w \in Workers, Restart(w)
       PROVE  CurInv'
  BY <1>17 DEF Restart, Goto, Outcome, CurInv, TypeOK
<1>18. ASSUME NEW w \in Workers, TakeSnapshot(w)
       PROVE  CurInv'
  BY <1>18 DEF TakeSnapshot, Goto, stores, CurInv, TypeOK
<1>19. ASSUME NEW w \in Workers, PostReset(w)
       PROVE  CurInv'
  BY <1>19 DEF PostReset, Goto, Outcome, CurInv, TypeOK
<1>20. ASSUME NEW w \in Workers, VerifyReset(w)
       PROVE  CurInv'
  BY <1>20 DEF VerifyReset, Goto, Outcome, stores, history, CurInv, TypeOK
<1>21. ASSUME NEW w \in Workers, RollBack(w)
       PROVE  CurInv'
  BY <1>21 DEF RollBack, Goto, Outcome, CurInv, TypeOK
<1>22. ASSUME NEW w \in Workers, Crash(w)
       PROVE  CurInv'
  BY <1>22 DEF Crash, Goto, Abandon, stores, CurInv, TypeOK
<1>23. ASSUME NEW n \in Names, LockExpires(n)
       PROVE  CurInv'
  BY <1>23 DEF LockExpires, threads, history, CurInv, TypeOK
<1>24. ASSUME NEW s \in Services, NEW i \in Injections, Inject(s, i)
       PROVE  CurInv'
  BY <1>24 DEF Inject, threads, CurInv, TypeOK
<1>25. ASSUME NEW t \in Tickets, Close(t)
       PROVE  CurInv'
  BY <1>25 DEF Close, threads, history, CurInv, TypeOK
<1>26. CASE UNCHANGED vars
  BY <1>26 DEF vars, CurInv, TypeOK
<1> QED
  BY <1>1, <1>2, <1>3, <1>4, <1>5, <1>6, <1>7, <1>8, <1>9, <1>10, <1>11,
     <1>12, <1>13, <1>14, <1>15, <1>16, <1>17, <1>18, <1>19, <1>20, <1>21,
     <1>22, <1>23, <1>24, <1>25, <1>26 DEF Next, Request, Step

-----------------------------------------------------------------------------
(* The locked sections: a request enters one only while the key is free,   *)
(* and an owner is removed only by the request that leaves or by time,     *)
(* when no request is inside.                                              *)
LEMMA StepLock ==
  ASSUME IInv, [Next]_vars
  PROVE  LockInv' /\ MutualExclusion'
<1> USE RemediationAssumption DEF IInv
<1>1. ASSUME NEW w \in Workers, NEW t \in Tickets, NEW auto \in BOOLEAN,
   Propose(w, t, auto)
       PROVE  LockInv' /\ MutualExclusion'
  BY <1>1 DEF Propose, Goto, stores, history, LockInv, MutualExclusion, Holds,
     Holding, CurInv, TypeOK
<1>2. ASSUME NEW w \in Workers, NEW a \in Actions, InsertProposal(w, a)
       PROVE  LockInv' /\ MutualExclusion'
  <2>1. pc'[w] \notin Holding
    BY <1>2 DEF InsertProposal, Goto, Holding, TypeOK
  <2>2. \A v \in Workers \ {w} : pc'[v] = pc[v] /\ cur'[v] = cur[v]
    BY <1>2 DEF InsertProposal, Goto, TypeOK
  <2>3. locks' = locks
    BY <1>2 DEF InsertProposal
  <2> QED
    BY <2>1, <2>2, <2>3 DEF LockInv, MutualExclusion, Holds
<1>3. ASSUME NEW w \in Workers, NEW a \in Actions, NEW now \in BOOLEAN,
   Approve(w, a, now)
       PROVE  LockInv' /\ MutualExclusion'
  BY <1>3 DEF Approve, Goto, stores, history, LockInv, MutualExclusion, Holds,
     Holding, CurInv, TypeOK
<1>4. ASSUME NEW w \in Workers, WriteApproval(w)
       PROVE  LockInv' /\ MutualExclusion'
  <2>1. pc'[w] \notin Holding
    BY <1>4 DEF WriteApproval, Goto, Return, Holding, TypeOK
  <2>2. \A v \in Workers \ {w} : pc'[v] = pc[v] /\ cur'[v] = cur[v]
    BY <1>4 DEF WriteApproval, Goto, Return, TypeOK
  <2>3. locks' = locks
    BY <1>4 DEF WriteApproval
  <2> QED
    BY <2>1, <2>2, <2>3 DEF LockInv, MutualExclusion, Holds
<1>5. ASSUME NEW w \in Workers, NEW a \in Actions, Execute(w, a)
       PROVE  LockInv' /\ MutualExclusion'
  BY <1>5 DEF Execute, Goto, stores, history, LockInv, MutualExclusion, Holds,
     Holding, CurInv, TypeOK
<1>6. ASSUME NEW a \in Actions, Reject(a)
       PROVE  LockInv' /\ MutualExclusion'
  BY <1>6 DEF Reject, threads, history, LockInv, MutualExclusion, Holds,
     Holding, CurInv, TypeOK
<1>7. ASSUME NEW w \in Workers, NEW a \in Actions, MarkFalsePositive(w, a)
       PROVE  LockInv' /\ MutualExclusion'
  BY <1>7 DEF MarkFalsePositive, Goto, history, LockInv, MutualExclusion,
     Holds, Holding, CurInv, TypeOK
<1>8. ASSUME NEW w \in Workers, RecordFalsePositive(w)
       PROVE  LockInv' /\ MutualExclusion'
  BY <1>8 DEF RecordFalsePositive, Goto, history, LockInv, MutualExclusion,
     Holds, Holding, CurInv, TypeOK
<1>9. ASSUME NEW w \in Workers, CloseAsFalsePositive(w)
       PROVE  LockInv' /\ MutualExclusion'
  BY <1>9 DEF CloseAsFalsePositive, Goto, Return, history, LockInv,
     MutualExclusion, Holds, Holding, CurInv, TypeOK
<1>10. ASSUME NEW w \in Workers, Load(w)
       PROVE  LockInv' /\ MutualExclusion'
  BY <1>10 DEF Load, Goto, Return, stores, history, LockInv, MutualExclusion,
     Holds, Holding, CurInv, TypeOK
<1>11. ASSUME NEW w \in Workers, WriteBlocked(w)
       PROVE  LockInv' /\ MutualExclusion'
  BY <1>11 DEF WriteBlocked, Goto, Return, history, LockInv, MutualExclusion,
     Holds, Holding, CurInv, TypeOK
<1>12. ASSUME NEW w \in Workers, AcquireLock(w)
       PROVE  LockInv' /\ MutualExclusion'
  BY <1>12 DEF AcquireLock, Goto, history, LockInv, MutualExclusion, Holds,
     Holding, CurInv, TypeOK
<1>13. ASSUME NEW w \in Workers, Record(w)
       PROVE  LockInv' /\ MutualExclusion'
  BY <1>13 DEF Record, Goto, LockInv, MutualExclusion, Holds, Holding, CurInv,
     TypeOK
<1>14. ASSUME NEW w \in Workers, ReleaseLock(w)
       PROVE  LockInv' /\ MutualExclusion'
  <2>1. /\ pc[w] \in Holding /\ pc'[w] \notin Holding
        /\ cur[w] \in Actions /\ Target[cur[w]] \in Names
    <3>1. pc[w] \in Holding /\ cur[w] \in Actions
      BY <1>14 DEF ReleaseLock, Holding, CurInv
    <3>2. pc'[w] \notin Holding
      BY <1>14 DEF ReleaseLock, Goto, Abandon, Holding, TypeOK
    <3> QED
      BY <3>1, <3>2
  <2>2. \A v \in Workers \ {w} : pc'[v] = pc[v] /\ cur'[v] = cur[v]
    BY <1>14 DEF ReleaseLock, Goto, Abandon, TypeOK
  <2>3. \A n \in Names :
         \/ locks'[n] = locks[n]
         \/ n = Target[cur[w]] /\ locks[n] = cur[w]
    <3>1. locks \in [Names -> Actions \cup {NoAction}]
      BY DEF TypeOK
    <3>2. CASE locks[Target[cur[w]]] = cur[w]
      BY <1>14, <3>1, <3>2 DEF ReleaseLock
    <3>3. CASE locks[Target[cur[w]]] # cur[w]
      BY <1>14, <3>1, <3>3 DEF ReleaseLock
    <3> QED
      BY <3>2, <3>3
  <2>4. ASSUME NEW v \in Workers, NEW n \in Names, Holds(v, n)'
        PROVE  v # w /\ Holds(v, n) /\ locks'[n] = locks[n]
    <3>1. v # w /\ Holds(v, n)
      BY <2>1, <2>2, <2>4 DEF Holds
    <3>2. locks[n] = cur[w] => Holds(w, n)
      BY <2>1, <3>1 DEF Holds, LockInv
    <3> QED
      BY <2>3, <3>1, <3>2 DEF MutualExclusion
  <2> QED
    BY <2>2, <2>4 DEF LockInv, MutualExclusion
<1>15. ASSUME NEW w \in Workers, NoteOnTicket(w)
       PROVE  LockInv' /\ MutualExclusion'
  BY <1>15 DEF NoteOnTicket, Goto, Return, LockInv, MutualExclusion, Holds,
     Holding, CurInv, TypeOK
<1>16. ASSUME NEW w \in Workers, ActQuietly(w)
       PROVE  LockInv' /\ MutualExclusion'
  BY <1>16 DEF ActQuietly, Goto, Outcome, stores, history, LockInv,
     MutualExclusion, Holds, Holding, CurInv, TypeOK
<1>17. ASSUME NEW w \in Workers, Restart(w)
       PROVE  LockInv' /\ MutualExclusion'
  BY <1>17 DEF Restart, Goto, Outcome, LockInv, MutualExclusion, Holds,
     Holding, CurInv, TypeOK
<1>18. ASSUME NEW w \in Workers, TakeSnapshot(w)
       PROVE  LockInv' /\ MutualExclusion'
  BY <1>18 DEF TakeSnapshot, Goto, stores, LockInv, MutualExclusion, Holds,
     Holding, CurInv, TypeOK
<1>19. ASSUME NEW w \in Workers, PostReset(w)
       PROVE  LockInv' /\ MutualExclusion'
  BY <1>19 DEF PostReset, Goto, Outcome, LockInv, MutualExclusion, Holds,
     Holding, CurInv, TypeOK
<1>20. ASSUME NEW w \in Workers, VerifyReset(w)
       PROVE  LockInv' /\ MutualExclusion'
  BY <1>20 DEF VerifyReset, Goto, Outcome, stores, history, LockInv,
     MutualExclusion, Holds, Holding, CurInv, TypeOK
<1>21. ASSUME NEW w \in Workers, RollBack(w)
       PROVE  LockInv' /\ MutualExclusion'
  BY <1>21 DEF RollBack, Goto, Outcome, LockInv, MutualExclusion, Holds,
     Holding, CurInv, TypeOK
<1>22. ASSUME NEW w \in Workers, Crash(w)
       PROVE  LockInv' /\ MutualExclusion'
  BY <1>22 DEF Crash, Goto, Abandon, stores, LockInv, MutualExclusion, Holds,
     Holding, CurInv, TypeOK
<1>23. ASSUME NEW n \in Names, LockExpires(n)
       PROVE  LockInv' /\ MutualExclusion'
  BY <1>23 DEF LockExpires, threads, history, LockInv, MutualExclusion, Holds,
     Holding, CurInv, TypeOK
<1>24. ASSUME NEW s \in Services, NEW i \in Injections, Inject(s, i)
       PROVE  LockInv' /\ MutualExclusion'
  BY <1>24 DEF Inject, threads, LockInv, MutualExclusion, Holds, Holding,
     CurInv, TypeOK
<1>25. ASSUME NEW t \in Tickets, Close(t)
       PROVE  LockInv' /\ MutualExclusion'
  BY <1>25 DEF Close, threads, history, LockInv, MutualExclusion, Holds,
     Holding, CurInv, TypeOK
<1>26. CASE UNCHANGED vars
  BY <1>26 DEF vars, LockInv, MutualExclusion, Holds, Holding, CurInv, TypeOK
<1> QED
  BY <1>1, <1>2, <1>3, <1>4, <1>5, <1>6, <1>7, <1>8, <1>9, <1>10, <1>11,
     <1>12, <1>13, <1>14, <1>15, <1>16, <1>17, <1>18, <1>19, <1>20, <1>21,
     <1>22, <1>23, <1>24, <1>25, <1>26 DEF Next, Request, Step

-----------------------------------------------------------------------------
(* Approvals: a status that only approval leads to is copied from a row    *)
(* that has it, or is the outcome of a run that was let through.           *)
LEMMA StepApproval ==
  ASSUME IInv, [Next]_vars
  PROVE  ApprovalInv'
<1> USE RemediationAssumption DEF IInv
<1>1. ASSUME NEW w \in Workers, NEW t \in Tickets, NEW auto \in BOOLEAN,
   Propose(w, t, auto)
       PROVE  ApprovalInv'
  BY <1>1 DEF Propose, Goto, stores, history, ApprovalInv, Earned, Running,
     CurInv, TypeOK
<1>2. ASSUME NEW w \in Workers, NEW a \in Actions, InsertProposal(w, a)
       PROVE  ApprovalInv'
  BY <1>2 DEF InsertProposal, Goto, history, ApprovalInv, Earned, Running,
     CurInv, TypeOK
<1>3. ASSUME NEW w \in Workers, NEW a \in Actions, NEW now \in BOOLEAN,
   Approve(w, a, now)
       PROVE  ApprovalInv'
  BY <1>3 DEF Approve, Goto, stores, history, ApprovalInv, Earned, Running,
     CurInv, TypeOK
<1>4. ASSUME NEW w \in Workers, WriteApproval(w)
       PROVE  ApprovalInv'
  BY <1>4 DEF WriteApproval, Goto, Return, ApprovalInv, Earned, Running,
     CurInv, TypeOK
<1>5. ASSUME NEW w \in Workers, NEW a \in Actions, Execute(w, a)
       PROVE  ApprovalInv'
  BY <1>5 DEF Execute, Goto, stores, history, ApprovalInv, Earned, Running,
     CurInv, TypeOK
<1>6. ASSUME NEW a \in Actions, Reject(a)
       PROVE  ApprovalInv'
  BY <1>6 DEF Reject, threads, history, ApprovalInv, Earned, Running, CurInv,
     TypeOK
<1>7. ASSUME NEW w \in Workers, NEW a \in Actions, MarkFalsePositive(w, a)
       PROVE  ApprovalInv'
  BY <1>7 DEF MarkFalsePositive, Goto, history, ApprovalInv, Earned, Running,
     CurInv, TypeOK
<1>8. ASSUME NEW w \in Workers, RecordFalsePositive(w)
       PROVE  ApprovalInv'
  <2>1. cur[w] \in Actions /\ Kind[cur[w]] \notin HighRisk
    BY <1>8 DEF RecordFalsePositive, CurInv, HighRisk
  <2> QED
    BY <1>8, <2>1 DEF RecordFalsePositive, Goto, history, ApprovalInv, Earned,
       Running, TypeOK
<1>9. ASSUME NEW w \in Workers, CloseAsFalsePositive(w)
       PROVE  ApprovalInv'
  BY <1>9 DEF CloseAsFalsePositive, Goto, Return, history, ApprovalInv,
     Earned, Running, CurInv, TypeOK
<1>10. ASSUME NEW w \in Workers, Load(w)
       PROVE  ApprovalInv'
  BY <1>10 DEF Load, Goto, Return, stores, history, ApprovalInv, Earned,
     Running, CurInv, TypeOK
<1>11. ASSUME NEW w \in Workers, WriteBlocked(w)
       PROVE  ApprovalInv'
  BY <1>11 DEF WriteBlocked, Goto, Return, history, ApprovalInv, Earned,
     Running, CurInv, TypeOK
<1>12. ASSUME NEW w \in Workers, AcquireLock(w)
       PROVE  ApprovalInv'
  BY <1>12 DEF AcquireLock, Goto, history, ApprovalInv, Earned, Running,
     CurInv, TypeOK
<1>13. ASSUME NEW w \in Workers, Record(w)
       PROVE  ApprovalInv'
  BY <1>13 DEF Record, Goto, ApprovalInv, Earned, Running, CurInv, TypeOK
<1>14. ASSUME NEW w \in Workers, ReleaseLock(w)
       PROVE  ApprovalInv'
  BY <1>14 DEF ReleaseLock, Goto, Abandon, history, ApprovalInv, Earned,
     Running, CurInv, TypeOK
<1>15. ASSUME NEW w \in Workers, NoteOnTicket(w)
       PROVE  ApprovalInv'
  BY <1>15 DEF NoteOnTicket, Goto, Return, ApprovalInv, Earned, Running,
     CurInv, TypeOK
<1>16. ASSUME NEW w \in Workers, ActQuietly(w)
       PROVE  ApprovalInv'
  BY <1>16 DEF ActQuietly, Goto, Outcome, stores, history, ApprovalInv,
     Earned, Running, CurInv, TypeOK
<1>17. ASSUME NEW w \in Workers, Restart(w)
       PROVE  ApprovalInv'
  BY <1>17 DEF Restart, Goto, Outcome, ApprovalInv, Earned, Running, CurInv,
     TypeOK
<1>18. ASSUME NEW w \in Workers, TakeSnapshot(w)
       PROVE  ApprovalInv'
  BY <1>18 DEF TakeSnapshot, Goto, stores, ApprovalInv, Earned, Running,
     CurInv, TypeOK
<1>19. ASSUME NEW w \in Workers, PostReset(w)
       PROVE  ApprovalInv'
  BY <1>19 DEF PostReset, Goto, Outcome, ApprovalInv, Earned, Running, CurInv,
     TypeOK
<1>20. ASSUME NEW w \in Workers, VerifyReset(w)
       PROVE  ApprovalInv'
  BY <1>20 DEF VerifyReset, Goto, Outcome, stores, history, ApprovalInv,
     Earned, Running, CurInv, TypeOK
<1>21. ASSUME NEW w \in Workers, RollBack(w)
       PROVE  ApprovalInv'
  BY <1>21 DEF RollBack, Goto, Outcome, ApprovalInv, Earned, Running, CurInv,
     TypeOK
<1>22. ASSUME NEW w \in Workers, Crash(w)
       PROVE  ApprovalInv'
  BY <1>22 DEF Crash, Goto, Abandon, stores, ApprovalInv, Earned, Running,
     CurInv, TypeOK
<1>23. ASSUME NEW n \in Names, LockExpires(n)
       PROVE  ApprovalInv'
  BY <1>23 DEF LockExpires, threads, history, ApprovalInv, Earned, Running,
     CurInv, TypeOK
<1>24. ASSUME NEW s \in Services, NEW i \in Injections, Inject(s, i)
       PROVE  ApprovalInv'
  BY <1>24 DEF Inject, threads, ApprovalInv, Earned, Running, CurInv, TypeOK
<1>25. ASSUME NEW t \in Tickets, Close(t)
       PROVE  ApprovalInv'
  BY <1>25 DEF Close, threads, history, ApprovalInv, Earned, Running, CurInv,
     TypeOK
<1>26. CASE UNCHANGED vars
  BY <1>26 DEF vars, ApprovalInv, Earned, Running, CurInv, TypeOK
<1> QED
  BY <1>1, <1>2, <1>3, <1>4, <1>5, <1>6, <1>7, <1>8, <1>9, <1>10, <1>11,
     <1>12, <1>13, <1>14, <1>15, <1>16, <1>17, <1>18, <1>19, <1>20, <1>21,
     <1>22, <1>23, <1>24, <1>25, <1>26 DEF Next, Request, Step

(* Locks: without a fault every request that takes one reaches the release. *)
LEMMA StepForgotten ==
  ASSUME IInv, [Next]_vars
  PROVE  NoLockForgotten'
<1> USE RemediationAssumption DEF IInv
<1>1. ASSUME NEW w \in Workers, NEW t \in Tickets, NEW auto \in BOOLEAN,
   Propose(w, t, auto)
       PROVE  NoLockForgotten'
  BY <1>1 DEF Propose, Goto, stores, history, NoLockForgotten, Fault, LockInv,
     Holds, Holding, CurInv, TypeOK
<1>2. ASSUME NEW w \in Workers, NEW a \in Actions, InsertProposal(w, a)
       PROVE  NoLockForgotten'
  BY <1>2 DEF InsertProposal, Goto, history, NoLockForgotten, Fault, LockInv,
     Holds, Holding, CurInv, TypeOK
<1>3. ASSUME NEW w \in Workers, NEW a \in Actions, NEW now \in BOOLEAN,
   Approve(w, a, now)
       PROVE  NoLockForgotten'
  BY <1>3 DEF Approve, Goto, stores, history, NoLockForgotten, Fault, LockInv,
     Holds, Holding, CurInv, TypeOK
<1>4. ASSUME NEW w \in Workers, WriteApproval(w)
       PROVE  NoLockForgotten'
  BY <1>4 DEF WriteApproval, Goto, Return, NoLockForgotten, Fault, LockInv,
     Holds, Holding, CurInv, TypeOK
<1>5. ASSUME NEW w \in Workers, NEW a \in Actions, Execute(w, a)
       PROVE  NoLockForgotten'
  BY <1>5 DEF Execute, Goto, stores, history, NoLockForgotten, Fault, LockInv,
     Holds, Holding, CurInv, TypeOK
<1>6. ASSUME NEW a \in Actions, Reject(a)
       PROVE  NoLockForgotten'
  BY <1>6 DEF Reject, threads, history, NoLockForgotten, Fault, LockInv,
     Holds, Holding, CurInv, TypeOK
<1>7. ASSUME NEW w \in Workers, NEW a \in Actions, MarkFalsePositive(w, a)
       PROVE  NoLockForgotten'
  BY <1>7 DEF MarkFalsePositive, Goto, history, NoLockForgotten, Fault,
     LockInv, Holds, Holding, CurInv, TypeOK
<1>8. ASSUME NEW w \in Workers, RecordFalsePositive(w)
       PROVE  NoLockForgotten'
  BY <1>8 DEF RecordFalsePositive, Goto, history, NoLockForgotten, Fault,
     LockInv, Holds, Holding, CurInv, TypeOK
<1>9. ASSUME NEW w \in Workers, CloseAsFalsePositive(w)
       PROVE  NoLockForgotten'
  BY <1>9 DEF CloseAsFalsePositive, Goto, Return, history, NoLockForgotten,
     Fault, LockInv, Holds, Holding, CurInv, TypeOK
<1>10. ASSUME NEW w \in Workers, Load(w)
       PROVE  NoLockForgotten'
  BY <1>10 DEF Load, Goto, Return, stores, history, NoLockForgotten, Fault,
     LockInv, Holds, Holding, CurInv, TypeOK
<1>11. ASSUME NEW w \in Workers, WriteBlocked(w)
       PROVE  NoLockForgotten'
  BY <1>11 DEF WriteBlocked, Goto, Return, history, NoLockForgotten, Fault,
     LockInv, Holds, Holding, CurInv, TypeOK
<1>12. ASSUME NEW w \in Workers, AcquireLock(w)
       PROVE  NoLockForgotten'
  <2> DEFINE k == Target[cur[w]]
  <2>1. cur[w] \in Actions /\ k \in Names /\ Locked(cur[w])
    BY <1>12 DEF AcquireLock, CurInv, TypeOK
  <2>2. faults' = faults /\ cur' = cur
    BY <1>12 DEF AcquireLock, history
  <2>3. \A v \in Workers, n \in Names : Holds(v, n) => Holds(v, n)'
    <3>1. pc[w] \notin Holding
      BY <1>12 DEF AcquireLock, Holding
    <3>2. \A v \in Workers \ {w} : pc'[v] = pc[v]
      BY <1>12 DEF AcquireLock, Goto, TypeOK
    <3> QED
      BY <2>2, <3>1, <3>2 DEF Holds
  <2>4. \A n \in Names :
         \/ locks'[n] = locks[n]
         \/ n = k /\ locks[n] = NoAction
    <3>1. locks \in [Names -> Actions \cup {NoAction}]
      BY DEF TypeOK
    <3>2. \/ locks' = locks
          \/ locks[k] = NoAction /\ locks' = [locks EXCEPT ![k] = cur[w]]
      BY <1>12 DEF AcquireLock
    <3> QED
      BY <3>1, <3>2
  <2>5. locks'[k] # locks[k] => locks'[k] = cur[w] /\ Holds(w, k)'
    <3>1. locks'[k] # locks[k] => locks'[k] = cur[w] /\ pc'[w] = "acting"
      BY <1>12, <2>1 DEF AcquireLock, Goto, TypeOK
    <3> QED
      BY <2>1, <2>2, <3>1 DEF Holds, Holding
  <2> QED
    BY <2>2, <2>3, <2>4, <2>5 DEF NoLockForgotten
<1>13. ASSUME NEW w \in Workers, Record(w)
       PROVE  NoLockForgotten'
  BY <1>13 DEF Record, Goto, NoLockForgotten, Fault, LockInv, Holds, Holding,
     CurInv, TypeOK
<1>14. ASSUME NEW w \in Workers, ReleaseLock(w)
       PROVE  NoLockForgotten'
  BY <1>14 DEF ReleaseLock, Goto, Abandon, history, NoLockForgotten, Fault,
     LockInv, Holds, Holding, CurInv, TypeOK
<1>15. ASSUME NEW w \in Workers, NoteOnTicket(w)
       PROVE  NoLockForgotten'
  BY <1>15 DEF NoteOnTicket, Goto, Return, NoLockForgotten, Fault, LockInv,
     Holds, Holding, CurInv, TypeOK
<1>16. ASSUME NEW w \in Workers, ActQuietly(w)
       PROVE  NoLockForgotten'
  BY <1>16 DEF ActQuietly, Goto, Outcome, stores, history, NoLockForgotten,
     Fault, LockInv, Holds, Holding, CurInv, TypeOK
<1>17. ASSUME NEW w \in Workers, Restart(w)
       PROVE  NoLockForgotten'
  BY <1>17 DEF Restart, Goto, Outcome, NoLockForgotten, Fault, LockInv, Holds,
     Holding, CurInv, TypeOK
<1>18. ASSUME NEW w \in Workers, TakeSnapshot(w)
       PROVE  NoLockForgotten'
  BY <1>18 DEF TakeSnapshot, Goto, stores, NoLockForgotten, Fault, LockInv,
     Holds, Holding, CurInv, TypeOK
<1>19. ASSUME NEW w \in Workers, PostReset(w)
       PROVE  NoLockForgotten'
  BY <1>19 DEF PostReset, Goto, Outcome, NoLockForgotten, Fault, LockInv,
     Holds, Holding, CurInv, TypeOK
<1>20. ASSUME NEW w \in Workers, VerifyReset(w)
       PROVE  NoLockForgotten'
  BY <1>20 DEF VerifyReset, Goto, Outcome, stores, history, NoLockForgotten,
     Fault, LockInv, Holds, Holding, CurInv, TypeOK
<1>21. ASSUME NEW w \in Workers, RollBack(w)
       PROVE  NoLockForgotten'
  BY <1>21 DEF RollBack, Goto, Outcome, NoLockForgotten, Fault, LockInv,
     Holds, Holding, CurInv, TypeOK
<1>22. ASSUME NEW w \in Workers, Crash(w)
       PROVE  NoLockForgotten'
  BY <1>22 DEF Crash, Goto, Abandon, stores, NoLockForgotten, Fault, LockInv,
     Holds, Holding, CurInv, TypeOK
<1>23. ASSUME NEW n \in Names, LockExpires(n)
       PROVE  NoLockForgotten'
  BY <1>23 DEF LockExpires, threads, history, NoLockForgotten, Fault, LockInv,
     Holds, Holding, CurInv, TypeOK
<1>24. ASSUME NEW s \in Services, NEW i \in Injections, Inject(s, i)
       PROVE  NoLockForgotten'
  BY <1>24 DEF Inject, threads, NoLockForgotten, Fault, LockInv, Holds,
     Holding, CurInv, TypeOK
<1>25. ASSUME NEW t \in Tickets, Close(t)
       PROVE  NoLockForgotten'
  BY <1>25 DEF Close, threads, history, NoLockForgotten, Fault, LockInv,
     Holds, Holding, CurInv, TypeOK
<1>26. CASE UNCHANGED vars
  BY <1>26 DEF vars, NoLockForgotten, Fault, LockInv, Holds, Holding, CurInv,
     TypeOK
<1> QED
  BY <1>1, <1>2, <1>3, <1>4, <1>5, <1>6, <1>7, <1>8, <1>9, <1>10, <1>11,
     <1>12, <1>13, <1>14, <1>15, <1>16, <1>17, <1>18, <1>19, <1>20, <1>21,
     <1>22, <1>23, <1>24, <1>25, <1>26 DEF Next, Request, Step

(* A snapshot that was read is not NoSnapshot.                             *)
LEMMA InjectionsFacts == \A S \in SUBSET Injections : S # NoSnapshot
BY DEF Injections, NoSnapshot

LEMMA StepReset ==
  ASSUME IInv, [Next]_vars
  PROVE  ResetInv'
<1> USE RemediationAssumption DEF IInv
<1>1. ASSUME NEW w \in Workers, NEW t \in Tickets, NEW auto \in BOOLEAN,
   Propose(w, t, auto)
       PROVE  ResetInv'
  BY <1>1, InjectionsFacts DEF Propose, Goto, stores, history, ResetInv,
     Fault, CurInv, TypeOK
<1>2. ASSUME NEW w \in Workers, NEW a \in Actions, InsertProposal(w, a)
       PROVE  ResetInv'
  BY <1>2, InjectionsFacts DEF InsertProposal, Goto, history, ResetInv, Fault,
     CurInv, TypeOK
<1>3. ASSUME NEW w \in Workers, NEW a \in Actions, NEW now \in BOOLEAN,
   Approve(w, a, now)
       PROVE  ResetInv'
  BY <1>3, InjectionsFacts DEF Approve, Goto, stores, history, ResetInv,
     Fault, CurInv, TypeOK
<1>4. ASSUME NEW w \in Workers, WriteApproval(w)
       PROVE  ResetInv'
  BY <1>4, InjectionsFacts DEF WriteApproval, Goto, Return, ResetInv, Fault,
     CurInv, TypeOK
<1>5. ASSUME NEW w \in Workers, NEW a \in Actions, Execute(w, a)
       PROVE  ResetInv'
  BY <1>5, InjectionsFacts DEF Execute, Goto, stores, history, ResetInv,
     Fault, CurInv, TypeOK
<1>6. ASSUME NEW a \in Actions, Reject(a)
       PROVE  ResetInv'
  BY <1>6, InjectionsFacts DEF Reject, threads, history, ResetInv, Fault,
     CurInv, TypeOK
<1>7. ASSUME NEW w \in Workers, NEW a \in Actions, MarkFalsePositive(w, a)
       PROVE  ResetInv'
  BY <1>7, InjectionsFacts DEF MarkFalsePositive, Goto, history, ResetInv,
     Fault, CurInv, TypeOK
<1>8. ASSUME NEW w \in Workers, RecordFalsePositive(w)
       PROVE  ResetInv'
  BY <1>8, InjectionsFacts DEF RecordFalsePositive, Goto, history, ResetInv,
     Fault, CurInv, TypeOK
<1>9. ASSUME NEW w \in Workers, CloseAsFalsePositive(w)
       PROVE  ResetInv'
  BY <1>9, InjectionsFacts DEF CloseAsFalsePositive, Goto, Return, history,
     ResetInv, Fault, CurInv, TypeOK
<1>10. ASSUME NEW w \in Workers, Load(w)
       PROVE  ResetInv'
  BY <1>10, InjectionsFacts DEF Load, Goto, Return, stores, history, ResetInv,
     Fault, CurInv, TypeOK
<1>11. ASSUME NEW w \in Workers, WriteBlocked(w)
       PROVE  ResetInv'
  BY <1>11, InjectionsFacts DEF WriteBlocked, Goto, Return, history, ResetInv,
     Fault, CurInv, TypeOK
<1>12. ASSUME NEW w \in Workers, AcquireLock(w)
       PROVE  ResetInv'
  BY <1>12, InjectionsFacts DEF AcquireLock, Goto, history, ResetInv, Fault,
     CurInv, TypeOK
<1>13. ASSUME NEW w \in Workers, Record(w)
       PROVE  ResetInv'
  BY <1>13, InjectionsFacts DEF Record, Goto, ResetInv, Fault, CurInv, TypeOK
<1>14. ASSUME NEW w \in Workers, ReleaseLock(w)
       PROVE  ResetInv'
  BY <1>14, InjectionsFacts DEF ReleaseLock, Goto, Abandon, history, ResetInv,
     Fault, CurInv, TypeOK
<1>15. ASSUME NEW w \in Workers, NoteOnTicket(w)
       PROVE  ResetInv'
  BY <1>15, InjectionsFacts DEF NoteOnTicket, Goto, Return, ResetInv, Fault,
     CurInv, TypeOK
<1>16. ASSUME NEW w \in Workers, ActQuietly(w)
       PROVE  ResetInv'
  BY <1>16, InjectionsFacts DEF ActQuietly, Goto, Outcome, stores, history,
     ResetInv, Fault, CurInv, TypeOK
<1>17. ASSUME NEW w \in Workers, Restart(w)
       PROVE  ResetInv'
  BY <1>17, InjectionsFacts DEF Restart, Goto, Outcome, ResetInv, Fault,
     CurInv, TypeOK
<1>18. ASSUME NEW w \in Workers, TakeSnapshot(w)
       PROVE  ResetInv'
  <2>1. chaos[Url(cur[w])] # NoSnapshot
    <3>1. Url(cur[w]) \in Services
      BY <1>18 DEF TakeSnapshot, CurInv, Url
    <3> QED
      BY <3>1, InjectionsFacts DEF TypeOK
  <2>2. faults \in Nat
    BY DEF TypeOK
  <2>3. /\ snapshot'[w] = NoSnapshot => faults' > 0
        /\ faults' >= faults
    BY <1>18, <2>1, <2>2 DEF TakeSnapshot, Fault, TypeOK
  <2>4. Kind[cur[w]] \in Resets /\ cur' = cur /\ faults' \in Nat
    BY <1>18, <2>2 DEF TakeSnapshot, Fault
  <2>5. \A v \in Workers \ {w} : pc'[v] = pc[v] /\ snapshot'[v] = snapshot[v]
    BY <1>18 DEF TakeSnapshot, Goto, TypeOK
  <2> SUFFICES ASSUME NEW v \in Workers,
                      pc'[v] \in {"posting", "verifying", "rolling_back"}
               PROVE  /\ Kind[cur'[v]] \in Resets
                      /\ snapshot'[v] = NoSnapshot => faults' > 0
    BY DEF ResetInv
  <2>6. CASE v = w
    BY <2>3, <2>4, <2>6
  <2>7. CASE v # w
    BY <2>2, <2>3, <2>4, <2>5, <2>7 DEF ResetInv
  <2> QED
    BY <2>6, <2>7
<1>19. ASSUME NEW w \in Workers, PostReset(w)
       PROVE  ResetInv'
  BY <1>19, InjectionsFacts DEF PostReset, Goto, Outcome, ResetInv, Fault,
     CurInv, TypeOK
<1>20. ASSUME NEW w \in Workers, VerifyReset(w)
       PROVE  ResetInv'
  BY <1>20, InjectionsFacts DEF VerifyReset, Goto, Outcome, stores, history,
     ResetInv, Fault, CurInv, TypeOK
<1>21. ASSUME NEW w \in Workers, RollBack(w)
       PROVE  ResetInv'
  BY <1>21, InjectionsFacts DEF RollBack, Goto, Outcome, ResetInv, Fault,
     CurInv, TypeOK
<1>22. ASSUME NEW w \in Workers, Crash(w)
       PROVE  ResetInv'
  BY <1>22, InjectionsFacts DEF Crash, Goto, Abandon, stores, ResetInv, Fault,
     CurInv, TypeOK
<1>23. ASSUME NEW n \in Names, LockExpires(n)
       PROVE  ResetInv'
  BY <1>23, InjectionsFacts DEF LockExpires, threads, history, ResetInv,
     Fault, CurInv, TypeOK
<1>24. ASSUME NEW s \in Services, NEW i \in Injections, Inject(s, i)
       PROVE  ResetInv'
  BY <1>24, InjectionsFacts DEF Inject, threads, ResetInv, Fault, CurInv,
     TypeOK
<1>25. ASSUME NEW t \in Tickets, Close(t)
       PROVE  ResetInv'
  BY <1>25, InjectionsFacts DEF Close, threads, history, ResetInv, Fault,
     CurInv, TypeOK
<1>26. CASE UNCHANGED vars
  BY <1>26 DEF vars, ResetInv, Fault, CurInv, TypeOK
<1> QED
  BY <1>1, <1>2, <1>3, <1>4, <1>5, <1>6, <1>7, <1>8, <1>9, <1>10, <1>11,
     <1>12, <1>13, <1>14, <1>15, <1>16, <1>17, <1>18, <1>19, <1>20, <1>21,
     <1>22, <1>23, <1>24, <1>25, <1>26 DEF Next, Request, Step

-----------------------------------------------------------------------------
(* The inductive invariant holds in every reachable state: every variable  *)
(* keeps its type and the parts it is made of hold together.               *)
THEOREM Invariance == Spec => []IInv
<1>1. IInv /\ [Next]_vars => IInv'
  BY StepType, StepCur, StepLock, StepForgotten, StepApproval, StepReset DEF IInv
<1> QED
  BY <1>1, InitInv, PTL DEF Spec

(* Types: for all sets of threads, actions, names and services.            *)
THEOREM TypeCorrect == Spec => []TypeOK
<1>1. IInv => TypeOK
  BY DEF IInv
<1> QED
  BY <1>1, Invariance, PTL

(* try_acquire_resource_lock and release_resource_lock: two requests are   *)
(* never inside the locked section of one key, whatever crashes, expires   *)
(* or fails.                                                               *)
THEOREM LockedSectionsExclude == Spec => []MutualExclusion
<1>1. IInv => MutualExclusion
  BY DEF IInv
<1> QED
  BY <1>1, Invariance, PTL

(* propose, approve and execute: no high-risk action is let through or     *)
(* recorded as run without an approval, whatever copies are written back.  *)
THEOREM ApprovalIsRequired == Spec => []HighRiskNeedsApproval
<1>1. IInv => HighRiskNeedsApproval
  <2> SUFFICES ASSUME IInv, NEW a \in Actions, Kind[a] \in HighRisk,
                      \/ rows[a] \in {"executed", "simulated", "failed"}
                      \/ \E w \in Workers : cur[w] = a /\ Running(w)
               PROVE  a \in approvals
    BY DEF HighRiskNeedsApproval
  <2> QED
    BY DEF IInv, ApprovalInv, Earned
<1> QED
  BY <1>1, Invariance, PTL

(* finally: without a fault no way through execute leaves a lock behind.   *)
THEOREM LocksAreReturned == Spec => []NoLockForgotten
<1>1. IInv => NoLockForgotten
  BY DEF IInv
<1> QED
  BY <1>1, Invariance, PTL

-----------------------------------------------------------------------------
(* Outcomes: nobody else touches a service while its name is locked.       *)
TrueOf(w) ==
  LET s == Url(cur[w]) IN
  pc[w] = "recording" /\ Kind[cur[w]] \in Resets /\ s \notin disturbed =>
    /\ copy[w] = "executed" => chaos[s] \cap Clears(cur[w]) = {}
    /\ copy[w] = "rolled_back" => chaos[s] = snapshot[w]
    /\ copy[w] = "failed" => faults > 0

(* Between two requests that hold locks on different names there is no     *)
(* service in common.                                                      *)
LEMMA OthersStayTrue ==
  ASSUME OneNamePerEndpoint, IInv, OutcomeIsTrue,
         NEW w \in Workers, cur[w] \in Actions, Holds(w, Target[cur[w]]),
         cur' = cur, disturbed' = disturbed, faults > 0 => faults' > 0,
         \A v \in Workers \ {w} :
           pc'[v] = pc[v] /\ copy'[v] = copy[v] /\ snapshot'[v] = snapshot[v],
         \A s \in Services \ {Url(cur[w])} : chaos'[s] = chaos[s],
         TrueOf(w)'
  PROVE  OutcomeIsTrue'
<1> USE RemediationAssumption DEF IInv
<1> SUFFICES ASSUME NEW v \in Workers PROVE TrueOf(v)'
  BY DEF OutcomeIsTrue, TrueOf
<1>1. CASE v = w
  BY <1>1
<1>2. CASE v # w
  <2> SUFFICES ASSUME pc[v] = "recording", Kind[cur[v]] \in Resets
               PROVE  TrueOf(v)'
    BY <1>2 DEF TrueOf
  <2>1. cur[v] \in Actions /\ Target[cur[v]] \in Names
    BY DEF CurInv
  <2>2. Holds(v, Target[cur[v]])
    BY DEF Holds, Holding, Locked, Mutating
  <2>3. Target[cur[v]] # Target[cur[w]]
    BY <1>2, <2>1, <2>2 DEF MutualExclusion
  <2>4. Url(cur[v]) \in Services \ {Url(cur[w])}
    BY <2>1, <2>3 DEF Url, OneNamePerEndpoint
  <2>5. TrueOf(v)
    BY DEF OutcomeIsTrue, TrueOf
  <2>6. chaos'[Url(cur[v])] = chaos[Url(cur[v])]
    BY <2>4
  <2> QED
    BY <1>2, <2>5, <2>6 DEF TrueOf, Url, Clears
<1> QED
  BY <1>1, <1>2

LEMMA StepOutcome ==
  ASSUME OneNamePerEndpoint, IInv, OutcomeIsTrue, [Next]_vars
  PROVE  OutcomeIsTrue'
<1> USE RemediationAssumption DEF IInv
<1>1. ASSUME NEW w \in Workers, NEW t \in Tickets, NEW auto \in BOOLEAN,
   Propose(w, t, auto)
       PROVE  OutcomeIsTrue'
  BY <1>1 DEF Propose, Goto, stores, history, OutcomeIsTrue, Fault, CurInv,
     TypeOK
<1>2. ASSUME NEW w \in Workers, NEW a \in Actions, InsertProposal(w, a)
       PROVE  OutcomeIsTrue'
  BY <1>2 DEF InsertProposal, Goto, history, OutcomeIsTrue, Fault, CurInv,
     TypeOK
<1>3. ASSUME NEW w \in Workers, NEW a \in Actions, NEW now \in BOOLEAN,
   Approve(w, a, now)
       PROVE  OutcomeIsTrue'
  BY <1>3 DEF Approve, Goto, stores, history, OutcomeIsTrue, Fault, CurInv,
     TypeOK
<1>4. ASSUME NEW w \in Workers, WriteApproval(w)
       PROVE  OutcomeIsTrue'
  BY <1>4 DEF WriteApproval, Goto, Return, OutcomeIsTrue, Fault, CurInv, TypeOK
<1>5. ASSUME NEW w \in Workers, NEW a \in Actions, Execute(w, a)
       PROVE  OutcomeIsTrue'
  BY <1>5 DEF Execute, Goto, stores, history, OutcomeIsTrue, Fault, CurInv,
     TypeOK
<1>6. ASSUME NEW a \in Actions, Reject(a)
       PROVE  OutcomeIsTrue'
  BY <1>6 DEF Reject, threads, history, OutcomeIsTrue, Fault, CurInv, TypeOK
<1>7. ASSUME NEW w \in Workers, NEW a \in Actions, MarkFalsePositive(w, a)
       PROVE  OutcomeIsTrue'
  BY <1>7 DEF MarkFalsePositive, Goto, history, OutcomeIsTrue, Fault, CurInv,
     TypeOK
<1>8. ASSUME NEW w \in Workers, RecordFalsePositive(w)
       PROVE  OutcomeIsTrue'
  BY <1>8 DEF RecordFalsePositive, Goto, history, OutcomeIsTrue, Fault,
     CurInv, TypeOK
<1>9. ASSUME NEW w \in Workers, CloseAsFalsePositive(w)
       PROVE  OutcomeIsTrue'
  BY <1>9 DEF CloseAsFalsePositive, Goto, Return, history, OutcomeIsTrue,
     Fault, CurInv, TypeOK
<1>10. ASSUME NEW w \in Workers, Load(w)
       PROVE  OutcomeIsTrue'
  BY <1>10 DEF Load, Goto, Return, stores, history, OutcomeIsTrue, Fault,
     CurInv, TypeOK
<1>11. ASSUME NEW w \in Workers, WriteBlocked(w)
       PROVE  OutcomeIsTrue'
  BY <1>11 DEF WriteBlocked, Goto, Return, history, OutcomeIsTrue, Fault,
     CurInv, TypeOK
<1>12. ASSUME NEW w \in Workers, AcquireLock(w)
       PROVE  OutcomeIsTrue'
  BY <1>12 DEF AcquireLock, Goto, history, OutcomeIsTrue, Fault, CurInv, TypeOK
<1>13. ASSUME NEW w \in Workers, Record(w)
       PROVE  OutcomeIsTrue'
  BY <1>13 DEF Record, Goto, OutcomeIsTrue, Fault, CurInv, TypeOK
<1>14. ASSUME NEW w \in Workers, ReleaseLock(w)
       PROVE  OutcomeIsTrue'
  BY <1>14 DEF ReleaseLock, Goto, Abandon, history, OutcomeIsTrue, Fault,
     CurInv, TypeOK
<1>15. ASSUME NEW w \in Workers, NoteOnTicket(w)
       PROVE  OutcomeIsTrue'
  BY <1>15 DEF NoteOnTicket, Goto, Return, OutcomeIsTrue, Fault, CurInv, TypeOK
<1>16. ASSUME NEW w \in Workers, ActQuietly(w)
       PROVE  OutcomeIsTrue'
  BY <1>16 DEF ActQuietly, Goto, Outcome, stores, history, OutcomeIsTrue,
     Resets, CurInv, TypeOK
<1>17. ASSUME NEW w \in Workers, Restart(w)
       PROVE  OutcomeIsTrue'
  <2>1. /\ cur[w] \in Actions /\ Holds(w, Target[cur[w]])
        /\ Url(cur[w]) \in Services /\ Target[cur[w]] \in Names
    BY <1>17 DEF Restart, CurInv, ResetInv, Url, Holds, Holding, Locked, Mutating
  <2>2. /\ cur' = cur /\ disturbed' = disturbed
        /\ faults \in Nat /\ (faults' = faults \/ faults' = faults + 1)
    BY <1>17 DEF Restart, Fault, TypeOK
  <2>3. \A v \in Workers \ {w} :
          pc'[v] = pc[v] /\ copy'[v] = copy[v] /\ snapshot'[v] = snapshot[v]
    BY <1>17 DEF Restart, Goto, Outcome, TypeOK
  <2>4. \A s \in Services \ {Url(cur[w])} : chaos'[s] = chaos[s]
    BY <1>17 DEF Restart, Url, TypeOK
  <2>5. TrueOf(w)'
    BY <1>17, <2>2 DEF Restart, TrueOf, Resets
  <2> QED
    BY <2>1, <2>2, <2>3, <2>4, <2>5, OthersStayTrue
<1>18. ASSUME NEW w \in Workers, TakeSnapshot(w)
       PROVE  OutcomeIsTrue'
  BY <1>18 DEF TakeSnapshot, Goto, stores, OutcomeIsTrue, Fault, CurInv, TypeOK
<1>19. ASSUME NEW w \in Workers, PostReset(w)
       PROVE  OutcomeIsTrue'
  <2>1. /\ cur[w] \in Actions /\ Holds(w, Target[cur[w]])
        /\ Url(cur[w]) \in Services /\ Target[cur[w]] \in Names
    BY <1>19 DEF PostReset, CurInv, ResetInv, Url, Holds, Holding, Locked, Mutating
  <2>2. /\ cur' = cur /\ disturbed' = disturbed
        /\ faults \in Nat /\ (faults' = faults \/ faults' = faults + 1)
    BY <1>19 DEF PostReset, Fault, TypeOK
  <2>3. \A v \in Workers \ {w} :
          pc'[v] = pc[v] /\ copy'[v] = copy[v] /\ snapshot'[v] = snapshot[v]
    BY <1>19 DEF PostReset, Goto, Outcome, TypeOK
  <2>4. \A s \in Services \ {Url(cur[w])} : chaos'[s] = chaos[s]
    BY <1>19 DEF PostReset, TypeOK
  <2>5. TrueOf(w)'
    <3>1. pc'[w] = "recording" =>
            copy'[w] # "rolled_back" /\ (copy'[w] = "failed" => faults' > 0)
      BY <1>19, <2>2 DEF PostReset, Goto, Outcome, Fault, TypeOK
    <3>2. pc'[w] = "recording" /\ copy'[w] = "executed" =>
            chaos'[Url(cur[w])] \cap Clears(cur[w]) = {}
      BY <1>19, <2>1 DEF PostReset, Goto, Outcome, TypeOK
    <3> QED
      BY <2>2, <3>1, <3>2 DEF TrueOf, Url, Clears
  <2> QED
    BY <2>1, <2>2, <2>3, <2>4, <2>5, OthersStayTrue
<1>20. ASSUME NEW w \in Workers, VerifyReset(w)
       PROVE  OutcomeIsTrue'
  BY <1>20 DEF VerifyReset, Goto, Outcome, stores, history, OutcomeIsTrue,
     Fault, CurInv, TypeOK
<1>21. ASSUME NEW w \in Workers, RollBack(w)
       PROVE  OutcomeIsTrue'
  <2>1. /\ cur[w] \in Actions /\ Holds(w, Target[cur[w]])
        /\ Url(cur[w]) \in Services /\ Target[cur[w]] \in Names
    BY <1>21 DEF RollBack, CurInv, ResetInv, Url, Holds, Holding, Locked, Mutating
  <2>2. /\ cur' = cur /\ disturbed' = disturbed
        /\ faults \in Nat /\ (faults' = faults \/ faults' = faults + 1)
    BY <1>21 DEF RollBack, Fault, TypeOK
  <2>3. \A v \in Workers \ {w} :
          pc'[v] = pc[v] /\ copy'[v] = copy[v] /\ snapshot'[v] = snapshot[v]
    BY <1>21 DEF RollBack, Goto, Outcome, TypeOK
  <2>4. \A s \in Services \ {Url(cur[w])} : chaos'[s] = chaos[s]
    BY <1>21 DEF RollBack, TypeOK
  <2>5. TrueOf(w)'
    <3>1. copy'[w] # "executed" /\ (copy'[w] = "failed" => faults' > 0)
      BY <1>21, <2>2 DEF RollBack, Goto, Outcome, Fault, ResetInv, TypeOK
    <3>2. copy'[w] = "rolled_back" =>
            chaos'[Url(cur[w])] = snapshot[w] /\ snapshot' = snapshot
      BY <1>21, <2>1 DEF RollBack, Goto, Outcome, TypeOK
    <3> QED
      BY <2>2, <3>1, <3>2 DEF TrueOf, Url, Clears
  <2> QED
    BY <2>1, <2>2, <2>3, <2>4, <2>5, OthersStayTrue
<1>22. ASSUME NEW w \in Workers, Crash(w)
       PROVE  OutcomeIsTrue'
  BY <1>22 DEF Crash, Goto, Abandon, stores, OutcomeIsTrue, Fault, CurInv,
     TypeOK
<1>23. ASSUME NEW n \in Names, LockExpires(n)
       PROVE  OutcomeIsTrue'
  BY <1>23 DEF LockExpires, threads, history, OutcomeIsTrue, Fault, CurInv,
     TypeOK
<1>24. ASSUME NEW s \in Services, NEW i \in Injections, Inject(s, i)
       PROVE  OutcomeIsTrue'
  BY <1>24 DEF Inject, threads, OutcomeIsTrue, Fault, CurInv, TypeOK
<1>25. ASSUME NEW t \in Tickets, Close(t)
       PROVE  OutcomeIsTrue'
  BY <1>25 DEF Close, threads, history, OutcomeIsTrue, Fault, CurInv, TypeOK
<1>26. CASE UNCHANGED vars
  BY <1>26 DEF vars, OutcomeIsTrue, Fault, CurInv, TypeOK
<1> QED
  BY <1>1, <1>2, <1>3, <1>4, <1>5, <1>6, <1>7, <1>8, <1>9, <1>10, <1>11,
     <1>12, <1>13, <1>14, <1>15, <1>16, <1>17, <1>18, <1>19, <1>20, <1>21,
     <1>22, <1>23, <1>24, <1>25, <1>26 DEF Next, Request, Step

(* _reset_chaos: when every service is the endpoint of one name only, the  *)
(* outcome a request is about to record is true of the service, whatever   *)
(* the other requests do.                                                  *)
THEOREM OutcomesAreReal ==
  ASSUME OneNamePerEndpoint
  PROVE  Spec => []OutcomeIsTrue
<1>1. Init => OutcomeIsTrue
  BY DEF Init, OutcomeIsTrue
<1>2. IInv /\ OutcomeIsTrue /\ [Next]_vars => OutcomeIsTrue'
  BY StepOutcome
<1> QED
  BY <1>1, <1>2, Invariance, PTL DEF Spec
=============================================================================
