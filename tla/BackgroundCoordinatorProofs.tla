----------------------- MODULE BackgroundCoordinatorProofs -----------------------
(***************************************************************************)
(* What the coordinator does with its sessions, for every set of processes *)
(* and every number of sessions. The invariant accounts for every session  *)
(* ever created, and for what the loop knows where it stops them.          *)
(***************************************************************************)
EXTENDS BackgroundCoordinator, TLAPS

(* A session that is not created yet is unused; one that is neither in the *)
(* map nor retained has stopped.                                           *)
Accounted ==
    /\ \A s \in Sessions : s > created => phase[s] = "unused" /\ ~residue[s]
    /\ \A s \in Sessions :
          s <= created => \/ s \in open \cup retained
                          \/ phase[s] = "stopped" /\ ~residue[s]

(* A session is retained only on the way to a return that is not Pass.     *)
Outcome ==
    /\ location \in {"waiting", "reconciling", "retiring"} => retained = {}
    /\ result = "Pass" =>
          /\ retained = {} /\ except = {}
          /\ location \in {"stopping", "returned"}
    /\ location = "returned" => open = {}

(* Until the loop stops everything, the sessions in the map are those that *)
(* no snapshot has missed, and, while the last snapshot is worked on, those *)
(* that it has missed; all are live that need not be reconciled any more.  *)
Kept ==
    location \in {"waiting", "reconciling", "retiring"} =>
        /\ location # "reconciling" => todo = {}
        /\ \A s \in 1..created : s \in open \/ s \in missed
        /\ \A s \in open :
              /\ phase[s] = "live" \/ (phase[s] = "fresh" /\ pid[s] \in todo)
              /\ s \in missed <=> /\ location # "waiting"
                                 /\ snapshot[pid[s]] = "absent"

-----------------------------------------------------------------------------
(* In the beginning there is no session.                                   *)
LEMMA CoordinatorStarts ==
    CoordinatorInit =>
        CoordinatorTypeOK /\ Accounted /\ Outcome
        /\ OneSessionPerProcess /\ FailedIsLeftAlone
<1> SUFFICES ASSUME CoordinatorInit
             PROVE  CoordinatorTypeOK /\ Accounted /\ Outcome
                    /\ OneSessionPerProcess /\ FailedIsLeftAlone
    OBVIOUS
<1>1. LoopTypeOK
    <2>1. stopEvent \in BOOLEAN /\ snapshot \in [Pids -> Views]
        BY DEF CoordinatorInit, NoSnapshot, Views
    <2>2. pid \in Seq(Pids) /\ created = 0
        BY DEF CoordinatorInit, created
    <2> QED
        BY <2>1, <2>2, MaxSessionsAssumption DEF CoordinatorInit, LoopTypeOK
<1>2. ContractTypeOK
    <2>1. phase \in [Sessions -> {"unused", "fresh", "live", "lost", "stopped"}]
        BY DEF CoordinatorInit
    <2>2. residue \in [Sessions -> BOOLEAN]
        BY Zenon DEF CoordinatorInit
    <2> QED BY <2>1, <2>2 DEF ContractTypeOK
<1>3. Accounted
    BY DEF CoordinatorInit, Accounted, created, Sessions
<1>4. Outcome /\ OneSessionPerProcess /\ FailedIsLeftAlone
    BY DEF CoordinatorInit, Outcome, OneSessionPerProcess, FailedIsLeftAlone
<1> QED BY <1>1, <1>2, <1>3, <1>4 DEF CoordinatorTypeOK

(* What a call makes of a session is of its type.                          *)
LEMMA CallTypes ==
    ASSUME ContractTypeOK, NEW s \in Sessions,
           \/ ReconcileSucceeds(s) \/ ReconcileFails(s)
           \/ StopSucceeds(s) \/ StopFails(s) \/ Becomes(s, "fresh", FALSE)
    PROVE  ContractTypeOK'
<1>1. ASSUME NEW ph \in {"fresh", "live", "lost", "stopped"},
             NEW left \in BOOLEAN, Becomes(s, ph, left)
      PROVE  ContractTypeOK'
    <2>1. phase' \in [Sessions -> {"unused", "fresh", "live", "lost", "stopped"}]
        BY <1>1 DEF Becomes, ContractTypeOK
    <2>2. residue' \in [Sessions -> BOOLEAN]
        BY <1>1, Zenon DEF Becomes, ContractTypeOK
    <2> QED BY <2>1, <2>2 DEF ContractTypeOK
<1>2. CASE UNCHANGED contractVars
    BY <1>2 DEF contractVars, ContractTypeOK
<1>3. CASE ReconcileSucceeds(s)
    <2>1. PICK left \in BOOLEAN : Becomes(s, "live", left)
        BY <1>3, Zenon DEF ReconcileSucceeds
    <2> QED BY <1>1, <2>1
<1>4. CASE ReconcileFails(s)
    <2>1. \/ UNCHANGED contractVars
          \/ \E ph \in {"live", "lost"}, left \in BOOLEAN : Becomes(s, ph, left)
        BY <1>4, Zenon DEF ReconcileFails
    <2> QED BY <1>1, <1>2, <2>1
<1>5. CASE StopSucceeds(s)
    BY <1>1, <1>5 DEF StopSucceeds
<1>6. CASE StopFails(s)
    <2>1. \/ UNCHANGED contractVars
          \/ \E ph \in {"live", "lost"}, left \in BOOLEAN : Becomes(s, ph, left)
        BY <1>6, Zenon DEF StopFails
    <2> QED BY <1>1, <1>2, <2>1
<1>7. CASE Becomes(s, "fresh", FALSE)
    BY <1>1, <1>7
<1> QED BY <1>3, <1>4, <1>5, <1>6, <1>7

(* Every step keeps the types of the loop and of the map.                  *)
LEMMA LoopTypeSteps ==
    LoopTypeOK /\ [CoordinatorNext]_coordinatorVars
    => LoopTypeOK'
<1> SUFFICES ASSUME LoopTypeOK, [CoordinatorNext]_coordinatorVars
             PROVE  LoopTypeOK'
    OBVIOUS
<1> USE DEF LoopTypeOK, Views, loopVars, mapVars, contractVars, created
<1>1. CASE UNCHANGED coordinatorVars
    BY <1>1 DEF coordinatorVars
<1>2. CASE StopRequested
    BY <1>2 DEF StopRequested, StopAll, NoSnapshot
<1>3. CASE SnapshotRefused
    BY <1>3 DEF SnapshotRefused, StopAll, NoSnapshot
<1>4. CASE AllReconciled
    BY <1>4 DEF AllReconciled
<1>5. CASE OutOfMemory
    BY <1>5 DEF OutOfMemory, StopAll, NoSnapshot
<1>6. CASE AllRetired
    BY <1>6 DEF AllRetired, NoSnapshot
<1>7. CASE Returns
    BY <1>7 DEF Returns
<1>8. CASE SignalStop
    BY <1>8 DEF SignalStop
<1>9. ASSUME NEW views \in [Pids -> Views], SnapshotReceived(views)
      PROVE  LoopTypeOK'
    BY <1>9 DEF SnapshotReceived, NotListed
<1>10. ASSUME NEW p \in Pids, PassesOver(p)
      PROVE  LoopTypeOK'
    BY <1>10 DEF PassesOver
<1>11. ASSUME NEW p \in Pids, Creates(p)
      PROVE  LoopTypeOK'
    <2> DEFINE n == Len(pid)
    <2>1. n \in Nat /\ pid' \in Seq(Pids) /\ Len(pid') = n + 1
        BY <1>11 DEF Creates
    <2>2. n + 1 <= MaxSessions
        BY <1>11, <2>1, MaxSessionsAssumption DEF Creates
    <2>3. 1..n \subseteq 1..(n + 1) /\ n + 1 \in 1..(n + 1)
        BY <2>1
    <2>4. open' \subseteq 1..(n + 1)
        BY <1>11, <2>3 DEF Creates
    <2>5. /\ retained' \subseteq 1..(n + 1) /\ failed' \subseteq 1..(n + 1)
          /\ missed' \subseteq 1..(n + 1)
        BY <1>11, <2>3 DEF Creates
    <2> QED BY <1>11, <2>1, <2>2, <2>4, <2>5 DEF Creates
<1>12. ASSUME NEW p \in Pids, CreationFails(p)
      PROVE  LoopTypeOK'
    BY <1>12 DEF CreationFails, StopAll, NoSnapshot
<1>13. ASSUME NEW s \in Sessions, Reconciles(s)
      PROVE  LoopTypeOK'
    BY <1>13 DEF Reconciles
<1>14. ASSUME NEW s \in Sessions, ReconciliationFails(s)
      PROVE  LoopTypeOK'
    BY <1>14 DEF ReconciliationFails, StopAll, NoSnapshot
<1>15. ASSUME NEW s \in Sessions, Retires(s)
      PROVE  LoopTypeOK'
    BY <1>15 DEF Retires, Youngest, Absent
<1>16. ASSUME NEW s \in Sessions, RetirementFails(s)
      PROVE  LoopTypeOK'
    BY <1>16 DEF RetirementFails, Youngest, Absent, StopAll, NoSnapshot
<1>17. ASSUME NEW s \in Sessions, RetainsExcepted(s)
      PROVE  LoopTypeOK'
    BY <1>17 DEF RetainsExcepted, Youngest
<1>18. ASSUME NEW s \in Sessions, StopsOne(s)
      PROVE  LoopTypeOK'
    BY <1>18 DEF StopsOne, Youngest
<1>19. ASSUME NEW s \in Sessions, StopOneFails(s)
      PROVE  LoopTypeOK'
    BY <1>19 DEF StopOneFails, Youngest
<1>20. ASSUME NEW p \in Pids, ProcessEnds(p)
      PROVE  LoopTypeOK'
    BY <1>20 DEF ProcessEnds
<1> QED
    BY <1>1, <1>2, <1>3, <1>4, <1>5, <1>6, <1>7, <1>8, <1>9, <1>10,
       <1>11, <1>12, <1>13, <1>14, <1>15, <1>16, <1>17, <1>18, <1>19,
       <1>20
    DEF CoordinatorNext, CoordinatorStep

(* Every step keeps the types of the sessions.                             *)
LEMMA ContractTypeSteps ==
    LoopTypeOK /\ ContractTypeOK /\ [CoordinatorNext]_coordinatorVars
    => ContractTypeOK'
<1> SUFFICES ASSUME LoopTypeOK, ContractTypeOK,
                    [CoordinatorNext]_coordinatorVars
             PROVE  ContractTypeOK'
    OBVIOUS
<1>1. CASE UNCHANGED contractVars
    BY <1>1 DEF contractVars, ContractTypeOK
<1>2. CASE UNCHANGED coordinatorVars
    BY <1>1, <1>2 DEF coordinatorVars
<1>3. CASE StopRequested \/ SnapshotRefused \/ AllReconciled \/ OutOfMemory
           \/ AllRetired \/ Returns \/ SignalStop
    BY <1>1, <1>3 DEF StopRequested, SnapshotRefused, AllReconciled,
                      OutOfMemory, AllRetired, Returns, SignalStop
<1>4. ASSUME NEW views \in [Pids -> Views], SnapshotReceived(views)
      PROVE  ContractTypeOK'
    BY <1>1, <1>4 DEF SnapshotReceived
<1>5. ASSUME NEW p \in Pids, PassesOver(p) \/ CreationFails(p)
      PROVE  ContractTypeOK'
    BY <1>1, <1>5 DEF PassesOver, CreationFails
<1>6. ASSUME NEW p \in Pids, Creates(p)
      PROVE  ContractTypeOK'
    <2>1. created + 1 \in Sessions
        BY <1>6, MaxSessionsAssumption
        DEF Creates, LoopTypeOK, Sessions, created
    <2>2. Becomes(created + 1, "fresh", FALSE)
        BY <1>6 DEF Creates
    <2> QED BY <2>1, <2>2, CallTypes
<1>7. ASSUME NEW s \in Sessions,
             \/ Reconciles(s) \/ ReconciliationFails(s)
             \/ Retires(s) \/ RetirementFails(s)
             \/ RetainsExcepted(s) \/ StopsOne(s) \/ StopOneFails(s)
      PROVE  ContractTypeOK'
    <2>1. \/ ReconcileSucceeds(s) \/ ReconcileFails(s)
          \/ StopSucceeds(s) \/ StopFails(s) \/ UNCHANGED contractVars
        BY <1>7, Zenon
        DEF Reconciles, ReconciliationFails, Retires, RetirementFails,
            RetainsExcepted, StopsOne, StopOneFails
    <2> QED BY <1>1, <2>1, CallTypes
<1>8. ASSUME NEW p \in Pids, ProcessEnds(p)
      PROVE  ContractTypeOK'
    <2>1. UNCHANGED phase
        BY <1>8 DEF ProcessEnds
    <2>2. residue' \in [Sessions -> BOOLEAN]
        BY <1>8, Zenon DEF ProcessEnds
    <2> QED BY <2>1, <2>2 DEF ContractTypeOK
<1> QED
    BY <1>2, <1>3, <1>4, <1>5, <1>6, <1>7, <1>8
    DEF CoordinatorNext, CoordinatorStep

(* Every step keeps the types.                                             *)
LEMMA TypeSteps ==
    CoordinatorTypeOK /\ [CoordinatorNext]_coordinatorVars => CoordinatorTypeOK'
BY LoopTypeSteps, ContractTypeSteps DEF CoordinatorTypeOK

(* No step loses a session.                                                *)
LEMMA AccountedSteps ==
    CoordinatorTypeOK /\ Accounted /\ [CoordinatorNext]_coordinatorVars
    => Accounted'
<1> SUFFICES ASSUME CoordinatorTypeOK, Accounted, [CoordinatorNext]_coordinatorVars
             PROVE  Accounted'
    OBVIOUS
<1> USE DEF CoordinatorTypeOK, LoopTypeOK, ContractTypeOK, Accounted, Sessions,
           loopVars, mapVars, contractVars, created
<1>1. CASE UNCHANGED coordinatorVars
    BY <1>1 DEF coordinatorVars
<1>2. CASE StopRequested
    BY <1>2 DEF StopRequested, StopAll, NoSnapshot
<1>3. CASE SnapshotRefused
    BY <1>3 DEF SnapshotRefused, StopAll, NoSnapshot
<1>4. CASE AllReconciled
    BY <1>4 DEF AllReconciled
<1>5. CASE OutOfMemory
    BY <1>5 DEF OutOfMemory, StopAll, NoSnapshot
<1>6. CASE AllRetired
    BY <1>6 DEF AllRetired, NoSnapshot
<1>7. CASE Returns
    BY <1>7 DEF Returns
<1>8. CASE SignalStop
    BY <1>8 DEF SignalStop
<1>9. ASSUME NEW views \in [Pids -> Views], SnapshotReceived(views)
      PROVE  Accounted'
    BY <1>9 DEF SnapshotReceived
<1>10. ASSUME NEW p \in Pids, PassesOver(p)
      PROVE  Accounted'
    BY <1>10 DEF PassesOver
<1>11. ASSUME NEW p \in Pids, Creates(p)
      PROVE  Accounted'
    BY <1>11 DEF Creates, Becomes, SessionsOf
<1>12. ASSUME NEW p \in Pids, CreationFails(p)
      PROVE  Accounted'
    BY <1>12 DEF CreationFails, StopAll, NoSnapshot
<1>13. ASSUME NEW s \in Sessions, Reconciles(s)
      PROVE  Accounted'
    BY <1>13 DEF Reconciles, ReconcileSucceeds, Becomes
<1>14. ASSUME NEW s \in Sessions, ReconciliationFails(s)
      PROVE  Accounted'
    BY <1>14 DEF ReconciliationFails, ReconcileFails, Becomes, StopAll, NoSnapshot
<1>15. ASSUME NEW s \in Sessions, Retires(s)
      PROVE  Accounted'
    BY <1>15 DEF Retires, Youngest, Absent, StopSucceeds, Becomes
<1>16. ASSUME NEW s \in Sessions, RetirementFails(s)
      PROVE  Accounted'
    BY <1>16 DEF RetirementFails, Youngest, Absent, StopFails, Becomes, StopAll, NoSnapshot
<1>17. ASSUME NEW s \in Sessions, RetainsExcepted(s)
      PROVE  Accounted'
    BY <1>17 DEF RetainsExcepted, Youngest
<1>18. ASSUME NEW s \in Sessions, StopsOne(s)
      PROVE  Accounted'
    BY <1>18 DEF StopsOne, Youngest, StopSucceeds, Becomes
<1>19. ASSUME NEW s \in Sessions, StopOneFails(s)
      PROVE  Accounted'
    BY <1>19 DEF StopOneFails, Youngest, StopFails, Becomes
<1>20. ASSUME NEW p \in Pids, ProcessEnds(p)
      PROVE  Accounted'
    BY <1>20 DEF ProcessEnds
<1> QED
    BY <1>1, <1>2, <1>3, <1>4, <1>5, <1>6, <1>7, <1>8, <1>9, <1>10,
       <1>11, <1>12, <1>13, <1>14, <1>15, <1>16, <1>17, <1>18, <1>19,
       <1>20
    DEF CoordinatorNext, CoordinatorStep

(* The outcome is known wherever the loop is.                              *)
LEMMA OutcomeSteps ==
    Outcome /\ [CoordinatorNext]_coordinatorVars
    => Outcome'
<1> SUFFICES ASSUME Outcome, [CoordinatorNext]_coordinatorVars
             PROVE  Outcome'
    OBVIOUS
<1> USE DEF Outcome, loopVars, mapVars, contractVars
<1>1. CASE UNCHANGED coordinatorVars
    BY <1>1 DEF coordinatorVars
<1>2. CASE StopRequested
    BY <1>2 DEF StopRequested, StopAll, NoSnapshot
<1>3. CASE SnapshotRefused
    BY <1>3 DEF SnapshotRefused, StopAll, NoSnapshot
<1>4. CASE AllReconciled
    BY <1>4 DEF AllReconciled
<1>5. CASE OutOfMemory
    BY <1>5 DEF OutOfMemory, StopAll, NoSnapshot
<1>6. CASE AllRetired
    BY <1>6 DEF AllRetired, NoSnapshot
<1>7. CASE Returns
    BY <1>7 DEF Returns
<1>8. CASE SignalStop
    BY <1>8 DEF SignalStop
<1>9. ASSUME NEW views \in [Pids -> Views], SnapshotReceived(views)
      PROVE  Outcome'
    BY <1>9 DEF SnapshotReceived
<1>10. ASSUME NEW p \in Pids, PassesOver(p)
      PROVE  Outcome'
    BY <1>10 DEF PassesOver
<1>11. ASSUME NEW p \in Pids, Creates(p)
      PROVE  Outcome'
    BY <1>11 DEF Creates, Becomes, SessionsOf
<1>12. ASSUME NEW p \in Pids, CreationFails(p)
      PROVE  Outcome'
    BY <1>12 DEF CreationFails, StopAll, NoSnapshot
<1>13. ASSUME NEW s \in Sessions, Reconciles(s)
      PROVE  Outcome'
    BY <1>13 DEF Reconciles, ReconcileSucceeds, Becomes
<1>14. ASSUME NEW s \in Sessions, ReconciliationFails(s)
      PROVE  Outcome'
    BY <1>14 DEF ReconciliationFails, ReconcileFails, Becomes, StopAll, NoSnapshot
<1>15. ASSUME NEW s \in Sessions, Retires(s)
      PROVE  Outcome'
    BY <1>15 DEF Retires, Youngest, Absent, StopSucceeds, Becomes
<1>16. ASSUME NEW s \in Sessions, RetirementFails(s)
      PROVE  Outcome'
    BY <1>16 DEF RetirementFails, Youngest, Absent, StopFails, Becomes, StopAll, NoSnapshot
<1>17. ASSUME NEW s \in Sessions, RetainsExcepted(s)
      PROVE  Outcome'
    BY <1>17 DEF RetainsExcepted, Youngest
<1>18. ASSUME NEW s \in Sessions, StopsOne(s)
      PROVE  Outcome'
    BY <1>18 DEF StopsOne, Youngest, StopSucceeds, Becomes
<1>19. ASSUME NEW s \in Sessions, StopOneFails(s)
      PROVE  Outcome'
    BY <1>19 DEF StopOneFails, Youngest, StopFails, Becomes
<1>20. ASSUME NEW p \in Pids, ProcessEnds(p)
      PROVE  Outcome'
    BY <1>20 DEF ProcessEnds
<1> QED
    BY <1>1, <1>2, <1>3, <1>4, <1>5, <1>6, <1>7, <1>8, <1>9, <1>10,
       <1>11, <1>12, <1>13, <1>14, <1>15, <1>16, <1>17, <1>18, <1>19,
       <1>20
    DEF CoordinatorNext, CoordinatorStep

(* A session is created only for a process that has none.                  *)
LEMMA OneSessionSteps ==
    CoordinatorTypeOK /\ OneSessionPerProcess /\ [CoordinatorNext]_coordinatorVars
    => OneSessionPerProcess'
<1> SUFFICES ASSUME CoordinatorTypeOK, OneSessionPerProcess, [CoordinatorNext]_coordinatorVars
             PROVE  OneSessionPerProcess'
    OBVIOUS
<1> USE DEF CoordinatorTypeOK, LoopTypeOK, ContractTypeOK, OneSessionPerProcess,
           loopVars, mapVars, contractVars, created
<1>1. CASE UNCHANGED coordinatorVars
    BY <1>1 DEF coordinatorVars
<1>2. CASE StopRequested
    BY <1>2 DEF StopRequested, StopAll, NoSnapshot
<1>3. CASE SnapshotRefused
    BY <1>3 DEF SnapshotRefused, StopAll, NoSnapshot
<1>4. CASE AllReconciled
    BY <1>4 DEF AllReconciled
<1>5. CASE OutOfMemory
    BY <1>5 DEF OutOfMemory, StopAll, NoSnapshot
<1>6. CASE AllRetired
    BY <1>6 DEF AllRetired, NoSnapshot
<1>7. CASE Returns
    BY <1>7 DEF Returns
<1>8. CASE SignalStop
    BY <1>8 DEF SignalStop
<1>9. ASSUME NEW views \in [Pids -> Views], SnapshotReceived(views)
      PROVE  OneSessionPerProcess'
    BY <1>9 DEF SnapshotReceived
<1>10. ASSUME NEW p \in Pids, PassesOver(p)
      PROVE  OneSessionPerProcess'
    BY <1>10 DEF PassesOver
<1>11. ASSUME NEW p \in Pids, Creates(p)
      PROVE  OneSessionPerProcess'
    BY <1>11 DEF Creates, Becomes, SessionsOf
<1>12. ASSUME NEW p \in Pids, CreationFails(p)
      PROVE  OneSessionPerProcess'
    BY <1>12 DEF CreationFails, StopAll, NoSnapshot
<1>13. ASSUME NEW s \in Sessions, Reconciles(s)
      PROVE  OneSessionPerProcess'
    BY <1>13 DEF Reconciles, ReconcileSucceeds, Becomes
<1>14. ASSUME NEW s \in Sessions, ReconciliationFails(s)
      PROVE  OneSessionPerProcess'
    BY <1>14 DEF ReconciliationFails, ReconcileFails, Becomes, StopAll, NoSnapshot
<1>15. ASSUME NEW s \in Sessions, Retires(s)
      PROVE  OneSessionPerProcess'
    BY <1>15 DEF Retires, Youngest, Absent, StopSucceeds, Becomes
<1>16. ASSUME NEW s \in Sessions, RetirementFails(s)
      PROVE  OneSessionPerProcess'
    BY <1>16 DEF RetirementFails, Youngest, Absent, StopFails, Becomes, StopAll, NoSnapshot
<1>17. ASSUME NEW s \in Sessions, RetainsExcepted(s)
      PROVE  OneSessionPerProcess'
    BY <1>17 DEF RetainsExcepted, Youngest
<1>18. ASSUME NEW s \in Sessions, StopsOne(s)
      PROVE  OneSessionPerProcess'
    BY <1>18 DEF StopsOne, Youngest, StopSucceeds, Becomes
<1>19. ASSUME NEW s \in Sessions, StopOneFails(s)
      PROVE  OneSessionPerProcess'
    BY <1>19 DEF StopOneFails, Youngest, StopFails, Becomes
<1>20. ASSUME NEW p \in Pids, ProcessEnds(p)
      PROVE  OneSessionPerProcess'
    BY <1>20 DEF ProcessEnds
<1> QED
    BY <1>1, <1>2, <1>3, <1>4, <1>5, <1>6, <1>7, <1>8, <1>9, <1>10,
       <1>11, <1>12, <1>13, <1>14, <1>15, <1>16, <1>17, <1>18, <1>19,
       <1>20
    DEF CoordinatorNext, CoordinatorStep

(* A failure ends the loop, and no call of stopAll goes to its session.     *)
LEMMA FailedSteps ==
    CoordinatorTypeOK /\ FailedIsLeftAlone /\ [CoordinatorNext]_coordinatorVars
    => FailedIsLeftAlone'
<1> SUFFICES ASSUME CoordinatorTypeOK, FailedIsLeftAlone, [CoordinatorNext]_coordinatorVars
             PROVE  FailedIsLeftAlone'
    OBVIOUS
<1> USE DEF CoordinatorTypeOK, LoopTypeOK, ContractTypeOK, FailedIsLeftAlone,
           loopVars, mapVars, contractVars, created
<1>1. CASE UNCHANGED coordinatorVars
    BY <1>1 DEF coordinatorVars
<1>2. CASE StopRequested
    BY <1>2 DEF StopRequested, StopAll, NoSnapshot
<1>3. CASE SnapshotRefused
    BY <1>3 DEF SnapshotRefused, StopAll, NoSnapshot
<1>4. CASE AllReconciled
    BY <1>4 DEF AllReconciled
<1>5. CASE OutOfMemory
    BY <1>5 DEF OutOfMemory, StopAll, NoSnapshot
<1>6. CASE AllRetired
    BY <1>6 DEF AllRetired, NoSnapshot
<1>7. CASE Returns
    BY <1>7 DEF Returns
<1>8. CASE SignalStop
    BY <1>8 DEF SignalStop
<1>9. ASSUME NEW views \in [Pids -> Views], SnapshotReceived(views)
      PROVE  FailedIsLeftAlone'
    BY <1>9 DEF SnapshotReceived
<1>10. ASSUME NEW p \in Pids, PassesOver(p)
      PROVE  FailedIsLeftAlone'
    BY <1>10 DEF PassesOver
<1>11. ASSUME NEW p \in Pids, Creates(p)
      PROVE  FailedIsLeftAlone'
    BY <1>11 DEF Creates, Becomes, SessionsOf
<1>12. ASSUME NEW p \in Pids, CreationFails(p)
      PROVE  FailedIsLeftAlone'
    BY <1>12 DEF CreationFails, StopAll, NoSnapshot
<1>13. ASSUME NEW s \in Sessions, Reconciles(s)
      PROVE  FailedIsLeftAlone'
    BY <1>13 DEF Reconciles, ReconcileSucceeds, Becomes
<1>14. ASSUME NEW s \in Sessions, ReconciliationFails(s)
      PROVE  FailedIsLeftAlone'
    BY <1>14 DEF ReconciliationFails, ReconcileFails, Becomes, StopAll, NoSnapshot
<1>15. ASSUME NEW s \in Sessions, Retires(s)
      PROVE  FailedIsLeftAlone'
    BY <1>15 DEF Retires, Youngest, Absent, StopSucceeds, Becomes
<1>16. ASSUME NEW s \in Sessions, RetirementFails(s)
      PROVE  FailedIsLeftAlone'
    BY <1>16 DEF RetirementFails, Youngest, Absent, StopFails, Becomes, StopAll, NoSnapshot
<1>17. ASSUME NEW s \in Sessions, RetainsExcepted(s)
      PROVE  FailedIsLeftAlone'
    BY <1>17 DEF RetainsExcepted, Youngest
<1>18. ASSUME NEW s \in Sessions, StopsOne(s)
      PROVE  FailedIsLeftAlone'
    BY <1>18 DEF StopsOne, Youngest, StopSucceeds, Becomes
<1>19. ASSUME NEW s \in Sessions, StopOneFails(s)
      PROVE  FailedIsLeftAlone'
    BY <1>19 DEF StopOneFails, Youngest, StopFails, Becomes
<1>20. ASSUME NEW p \in Pids, ProcessEnds(p)
      PROVE  FailedIsLeftAlone'
    BY <1>20 DEF ProcessEnds
<1> QED
    BY <1>1, <1>2, <1>3, <1>4, <1>5, <1>6, <1>7, <1>8, <1>9, <1>10,
       <1>11, <1>12, <1>13, <1>14, <1>15, <1>16, <1>17, <1>18, <1>19,
       <1>20
    DEF CoordinatorNext, CoordinatorStep
-----------------------------------------------------------------------------
(* The variables of the coordinator have their types.                      *)
THEOREM CoordinatorTypesHold == CoordinatorSpec => []CoordinatorTypeOK
BY CoordinatorStarts, TypeSteps, PTL DEF CoordinatorSpec

(* The map never holds two sessions of one process.                        *)
THEOREM SessionsAreUnique == CoordinatorSpec => []OneSessionPerProcess
BY CoordinatorStarts, CoordinatorTypesHold, OneSessionSteps, PTL
DEF CoordinatorSpec

(* A session that failed gets no other call.                               *)
THEOREM FailuresAreFinal == CoordinatorSpec => []FailedIsLeftAlone
BY CoordinatorStarts, CoordinatorTypesHold, FailedSteps, PTL
DEF CoordinatorSpec

(* Every session that is not destroyed is still accounted for.             *)
LEMMA AccountedHolds == CoordinatorSpec => []Accounted
BY CoordinatorStarts, CoordinatorTypesHold, AccountedSteps, PTL
DEF CoordinatorSpec

(* A session that has left something in its process is never destroyed.    *)
THEOREM NothingIsDropped == CoordinatorSpec => []NothingDropped
<1>1. CoordinatorTypeOK /\ Accounted => NothingDropped
    BY DEF CoordinatorTypeOK, LoopTypeOK, ContractTypeOK, Accounted,
            NothingDropped, Sessions, created
<1> QED BY CoordinatorTypesHold, AccountedHolds, <1>1, PTL

(* Pass means that every session has stopped.                              *)
THEOREM PassIsTruthful == CoordinatorSpec => []PassIsClean
<1>1. CoordinatorSpec => []Outcome
    BY CoordinatorStarts, OutcomeSteps, PTL DEF CoordinatorSpec
<1>2. CoordinatorTypeOK /\ Accounted /\ Outcome => PassIsClean
    BY DEF CoordinatorTypeOK, LoopTypeOK, ContractTypeOK, Accounted,
            Outcome, PassIsClean, Sessions, created
<1> QED BY CoordinatorTypesHold, AccountedHolds, <1>1, <1>2, PTL

(* What the loop knows of the map is kept by every step.                   *)
LEMMA KeptSteps ==
    /\ CoordinatorTypeOK /\ OneSessionPerProcess /\ Kept
    /\ [CoordinatorNext]_coordinatorVars
    => Kept'
<1> SUFFICES ASSUME CoordinatorTypeOK, OneSessionPerProcess, Kept,
                    [CoordinatorNext]_coordinatorVars
             PROVE  Kept'
    OBVIOUS
<1>0. /\ created \in Nat /\ open \subseteq 1..created
      /\ missed \subseteq 1..created
      /\ pid \in Seq(Pids) /\ phase \in [Sessions ->
                  {"unused", "fresh", "live", "lost", "stopped"}]
    BY DEF CoordinatorTypeOK, LoopTypeOK, ContractTypeOK, created
<1>s. open \subseteq Sessions
    <2>1. created <= MaxSessions
        BY DEF CoordinatorTypeOK, LoopTypeOK
    <2>2. created \in Nat /\ MaxSessions \in Nat
        BY <1>0, MaxSessionsAssumption
    <2>3. 1..created \subseteq Sessions
        <3> DEFINE n == created
        <3>1. n \in Nat /\ n <= MaxSessions
            BY <2>1, <2>2
        <3> HIDE DEF n
        <3>2. 1..n \subseteq 1..MaxSessions
            BY <2>2, <3>1
        <3> QED BY <3>2 DEF n, Sessions
    <2> QED BY <1>0, <2>3
<1> USE DEF loopVars, mapVars, contractVars
<1>1. CASE location' \in {"stopping", "returned"}
    BY <1>1 DEF Kept
<1>2. CASE /\ UNCHANGED <<location, snapshot, todo, mapVars, phase>>
    BY <1>2 DEF Kept, created
<1>3. CASE UNCHANGED coordinatorVars \/ SignalStop \/ \E p \in Pids : ProcessEnds(p)
    BY <1>2, <1>3 DEF coordinatorVars, SignalStop, ProcessEnds
<1>4. CASE \/ StopRequested \/ SnapshotRefused \/ OutOfMemory \/ Returns
           \/ \E p \in Pids : CreationFails(p)
           \/ \E s \in Sessions : ReconciliationFails(s) \/ RetirementFails(s)
    BY <1>1, <1>4 DEF StopRequested, SnapshotRefused, OutOfMemory, Returns,
        CreationFails, ReconciliationFails, RetirementFails, StopAll
<1>5. ASSUME NEW s \in Sessions,
             RetainsExcepted(s) \/ StopsOne(s) \/ StopOneFails(s)
      PROVE  Kept'
    <2>1. location' = "stopping"
        BY <1>5 DEF RetainsExcepted, StopsOne, StopOneFails
    <2> QED BY <1>1, <2>1
<1>6. ASSUME NEW views \in [Pids -> Views], SnapshotReceived(views)
      PROVE  Kept'
    <2>1. /\ location = "waiting" /\ location' = "reconciling"
          /\ snapshot' = views /\ UNCHANGED <<pid, open, phase>>
          /\ missed' = missed \cup {s \in 1..created : views[pid[s]] = "absent"}
        BY <1>6 DEF SnapshotReceived, NotListed
    <2>2. \A s \in open : s \in missed' <=> views[pid[s]] = "absent"
        BY <1>0, <2>1 DEF Kept
    <2>3. \A s \in open : phase[s] = "live"
        BY <2>1 DEF Kept
    <2> QED BY <2>1, <2>2, <2>3 DEF Kept, created
<1>7. ASSUME NEW p \in Pids, PassesOver(p)
      PROVE  Kept'
    <2>1. /\ location = "reconciling" /\ todo' = todo \ {p}
          /\ UNCHANGED <<location, snapshot, pid, open, missed, phase>>
          /\ \A s \in open : pid[s] # p
        BY <1>7 DEF PassesOver, SessionsOf
    <2> QED BY <2>1 DEF Kept, created
<1>8. ASSUME NEW p \in Pids, Creates(p)
      PROVE  Kept'
    <2> DEFINE n == Len(pid)
    <2>1. /\ n \in Nat /\ Len(pid') = n + 1
          /\ \A s \in 1..n : pid'[s] = pid[s]
          /\ pid'[n + 1] = p
        BY <1>0, <1>8 DEF Creates
    <2>2. n + 1 \in Sessions
        BY <1>8, <2>1, MaxSessionsAssumption DEF Creates, created, Sessions
    <2>3. /\ location = "reconciling" /\ p \in todo /\ snapshot[p] = "shown"
          /\ UNCHANGED <<location, snapshot, todo, missed>>
          /\ open' = open \cup {n + 1}
          /\ phase' = [phase EXCEPT ![n + 1] = "fresh"]
        BY <1>8 DEF Creates, Becomes, created
    <2>4. /\ open \subseteq 1..n /\ missed \subseteq 1..n
          /\ n + 1 \notin 1..n /\ 1..(n + 1) = (1..n) \cup {n + 1}
        BY <1>0, <2>1 DEF created
    <2>5. \A s \in open : phase'[s] = phase[s]
        BY <1>0, <2>3, <2>4
    <2>6. phase'[n + 1] = "fresh"
        BY <1>0, <2>2, <2>3
    <2>7. \A s \in 1..(n + 1) : s \in open' \/ s \in missed'
        BY <2>3, <2>4 DEF Kept, created
    <2>8. ASSUME NEW s \in open
          PROVE  /\ phase'[s] = "live" \/ (phase'[s] = "fresh" /\ pid'[s] \in todo')
                 /\ s \in missed' <=> /\ location' # "waiting"
                                      /\ snapshot'[pid'[s]] = "absent"
        <3>1. pid'[s] = pid[s] /\ phase'[s] = phase[s]
            BY <2>1, <2>4, <2>5, <2>8
        <3> QED BY <2>3, <2>8, <3>1 DEF Kept
    <2> QED BY <2>1, <2>3, <2>4, <2>6, <2>7, <2>8 DEF Kept, created
<1>9. ASSUME NEW s \in Sessions, Reconciles(s)
      PROVE  Kept'
    <2>1. /\ location = "reconciling" /\ s \in open /\ todo' = todo \ {pid[s]}
          /\ UNCHANGED <<location, snapshot, pid, open, missed>>
          /\ phase' = [phase EXCEPT ![s] = "live"]
        BY <1>9, Zenon DEF Reconciles, ReconcileSucceeds, Becomes
    <2>2. \A t \in open : pid[t] = pid[s] => t = s
        BY <2>1 DEF OneSessionPerProcess
    <2>3. \A t \in open : phase'[t] = IF t = s THEN "live" ELSE phase[t]
        BY <1>0, <1>s, <2>1
    <2> QED BY <2>1, <2>2, <2>3 DEF Kept, created
<1>10. CASE AllReconciled
    <2>1. /\ location = "reconciling" /\ location' = "retiring" /\ todo = {}
          /\ UNCHANGED <<snapshot, todo, pid, open, missed, phase>>
        BY <1>10 DEF AllReconciled
    <2> QED BY <2>1 DEF Kept, created
<1>11. ASSUME NEW s \in Sessions, Retires(s)
      PROVE  Kept'
    <2>1. /\ location = "retiring" /\ s \in open /\ snapshot[pid[s]] = "absent"
          /\ UNCHANGED <<location, snapshot, todo, pid, missed>>
          /\ open' = open \ {s}
          /\ phase' = [phase EXCEPT ![s] = "stopped"]
        BY <1>11 DEF Retires, Youngest, Absent, StopSucceeds, Becomes
    <2>2. s \in missed
        BY <2>1 DEF Kept
    <2>3. \A t \in open' : phase'[t] = phase[t]
        BY <1>0, <1>s, <2>1
    <2> QED BY <2>1, <2>2, <2>3 DEF Kept, created
<1>12. CASE AllRetired
    <2>1. /\ location = "retiring" /\ location' = "waiting"
          /\ UNCHANGED <<todo, pid, open, missed, phase>>
          /\ \A s \in open : snapshot[pid[s]] # "absent"
        BY <1>12 DEF AllRetired, Absent
    <2> QED BY <2>1 DEF Kept, created
<1> QED
    BY <1>3, <1>4, <1>5, <1>6, <1>7, <1>8, <1>9, <1>10, <1>11, <1>12
    DEF CoordinatorNext, CoordinatorStep

(* Whenever the loop waits, the processes that no snapshot has missed have *)
(* their sessions, and the other sessions are gone without a trace.        *)
THEOREM SeenProcessesAreServed == CoordinatorSpec => []SeenIsServed
<1>1. CoordinatorSpec => []Outcome
    BY CoordinatorStarts, OutcomeSteps, PTL DEF CoordinatorSpec
<1>2. CoordinatorInit => Kept
    BY DEF CoordinatorInit, Kept, created
<1>3. CoordinatorSpec => []Kept
    BY CoordinatorTypesHold, SessionsAreUnique, KeptSteps, <1>2, PTL
    DEF CoordinatorSpec
<1>4. ASSUME CoordinatorTypeOK, Accounted, Outcome, Kept, location = "waiting"
      PROVE  /\ open = (1..created) \ missed
             /\ \A s \in open : phase[s] = "live"
             /\ \A s \in missed : phase[s] = "stopped" /\ ~residue[s]
    <2>1. /\ open \subseteq 1..created /\ missed \subseteq 1..created
          /\ created \in Nat /\ created <= MaxSessions
        BY <1>4 DEF CoordinatorTypeOK, LoopTypeOK, created
    <2>2. open = (1..created) \ missed
        BY <1>4, <2>1 DEF Kept
    <2>3. \A s \in open : phase[s] = "live"
        BY <1>4 DEF Kept
    <2>4. ASSUME NEW s \in missed
          PROVE  phase[s] = "stopped" /\ ~residue[s]
        <3>1. s \in Sessions /\ s <= created
            BY <2>1, MaxSessionsAssumption DEF Sessions
        <3>2. s \notin open \cup retained
            BY <1>4, <2>2 DEF Outcome
        <3> QED BY <1>4, <3>1, <3>2 DEF Accounted
    <2> QED BY <2>2, <2>3, <2>4
<1>5. CoordinatorTypeOK /\ Accounted /\ Outcome /\ Kept => SeenIsServed
    BY <1>4 DEF SeenIsServed
<1> QED BY CoordinatorTypesHold, AccountedHolds, <1>1, <1>3, <1>5, PTL

=============================================================================
