----------------------- MODULE StatusPaneRefreshProofs -----------------------
(***************************************************************************)
(* Safety of the refresh pipeline for every number of layout changes, with *)
(* and without failures: the types, an inductive invariant, and what       *)
(* follows from it. Each preservation lemma has one step per action.       *)
(***************************************************************************)
EXTENDS StatusPaneRefresh, TLAPS

(* StopWindowWorker starts only after ActivateRuntimeWindow, closes the    *)
(* ingress first, then stops the coordinator, and joins the worker last.   *)
StopOrder ==
    /\ upc \in {"enabling", "signalling"} => kpc = "running"
    /\ kpc # "running" => ~enabled
    /\ kpc \in {"stopping", "joining", "joined", "timedout"} <=> stopped
    /\ kpc = "joined" => wpc = "exited"

(* The inductive invariant: the checked invariants support one another     *)
(* once StopOrder ties the coordinator's stopped_ to the stopping thread.  *)
SafetyInv == OneReflowMessage /\ IngressNotLost /\ StopIsFinal /\ StopOrder

-----------------------------------------------------------------------------
(* The atomic flags and the coordinator's bits stay Boolean.               *)
LEMMA InitFlagsOK == Init => FlagsOK
  BY Zenon DEF Init, FlagsOK

(* No step leaves the Booleans.                                            *)
(* No step leaves the Booleans.                                            *)
(* No step leaves the Booleans.                                            *)
(* No step leaves the Booleans.                                            *)
LEMMA NextFlagsOK == FlagsOK /\ [Next]_vars => FlagsOK'
  <1> SUFFICES ASSUME FlagsOK, [Next]_vars
               PROVE  FlagsOK'
    OBVIOUS
  <1> USE DEF FlagsOK, ingress, coordinator, handles, worker, ui, world,
          history
  <1>1. CASE LayoutChanges
    BY <1>1 DEF LayoutChanges
  <1>2. CASE SignalStep
    <2>1. CASE SignalCheck
      BY <2>1 DEF SignalCheck
    <2>2. CASE SignalClaim
      BY <2>2 DEF SignalClaim
    <2>3. CASE SignalSet
      BY <2>3 DEF SignalSet, SetRefreshEvent
    <2>4. CASE SignalSetFails
      BY <2>4 DEF SignalSetFails
    <2> QED
      BY <1>2, <2>1, <2>2, <2>3, <2>4 DEF SignalStep
  <1>3. CASE Worker
    <2>1. CASE WorkerStops
      BY <2>1 DEF WorkerStops
    <2>2. CASE WorkerWakes
      BY <2>2 DEF WorkerWakes
    <2>3. CASE WorkerConsumes
      BY <2>3 DEF WorkerConsumes
    <2>4. CASE WorkerSignals
      BY <2>4 DEF WorkerSignals, CoordinatorSignal
    <2>5. CASE WorkerCaptures
      BY <2>5 DEF WorkerCaptures
    <2>6. CASE WorkerCaptureFails
      BY <2>6 DEF WorkerCaptureFails
    <2>7. CASE WorkerPublishes
      BY <2>7 DEF WorkerPublishes
    <2>8. CASE WorkerPosts
      BY <2>8 DEF WorkerPosts
    <2>9. CASE WorkerUnposts
      BY <2>9 DEF WorkerUnposts
    <2>10. CASE WorkerCompletesFailure
      BY <2>10 DEF WorkerCompletesFailure
    <2>11. CASE WorkerWakesItself
      BY <2>11 DEF WorkerWakesItself, SetRefreshEvent
    <2>12. CASE WorkerUnwakes
      BY <2>12 DEF WorkerUnwakes, CoordinatorUnwake
    <2> QED
      BY <1>3, <2>1, <2>2, <2>3, <2>4, <2>5, <2>6, <2>7, <2>8, <2>9, <2>10, <2>11, <2>12 DEF Worker
  <1>4. CASE UiStep
    <2>1. CASE UiEnables
      BY <2>1 DEF UiEnables
    <2>2. CASE UiSignals
      BY <2>2 DEF UiSignals, CoordinatorSignal
    <2>3. CASE UiWakesWorker
      BY <2>3 DEF UiWakesWorker, SetRefreshEvent
    <2>4. CASE UiUnwakes
      BY <2>4 DEF UiUnwakes, CoordinatorUnwake
    <2>5. CASE UiConsumes
      BY <2>5 DEF UiConsumes
    <2>6. CASE UiApplies
      BY <2>6 DEF UiApplies
    <2>7. CASE UiCompletes
      BY <2>7 DEF UiCompletes
    <2> QED
      BY <1>4, <2>1, <2>2, <2>3, <2>4, <2>5, <2>6, <2>7 DEF UiStep
  <1>5. CASE StopStep
    <2>1. CASE StopClearsIngress
      BY <2>1 DEF StopClearsIngress
    <2>2. CASE StopCoordinator
      BY <2>2 DEF StopCoordinator
    <2>3. CASE StopSignalsWorker
      BY <2>3 DEF StopSignalsWorker
    <2>4. CASE StopJoins
      BY <2>4 DEF StopJoins
    <2> QED
      BY <1>5, <2>1, <2>2, <2>3, <2>4 DEF StopStep
  <1>6. CASE StopBegins
    BY <1>6 DEF StopBegins
  <1>7. CASE StopTimesOut
    BY <1>7 DEF StopTimesOut
  <1>8. CASE UNCHANGED vars
    BY <1>8 DEF vars
  <1> QED
    BY <1>1, <1>2, <1>3, <1>4, <1>5, <1>6, <1>7, <1>8 DEF Next

(* Locations, the message count and the layout versions keep their types.  *)
LEMMA InitValuesOK == Init => ValuesOK
  BY MaxLayoutAssumption DEF Init, ValuesOK, Versions, NoResult,
     WorkerLocations, UiLocations, SignalLocations, StopLocations

(* No step leaves the other types.                                         *)
(* No step leaves the other types.                                         *)
(* No step leaves the other types.                                         *)
(* No step leaves the other types.                                         *)
LEMMA NextValuesOK == ValuesOK /\ [Next]_vars => ValuesOK'
  <1> SUFFICES ASSUME ValuesOK, [Next]_vars
               PROVE  ValuesOK'
    OBVIOUS
  <1> USE MaxLayoutAssumption
      DEF ValuesOK, Versions, NoResult, WorkerLocations, UiLocations,
          SignalLocations, StopLocations, ingress, coordinator, handles,
          worker, ui, world,
          history
  <1>1. CASE LayoutChanges
    BY <1>1 DEF LayoutChanges
  <1>2. CASE SignalStep
    <2>1. CASE SignalCheck
      BY <2>1 DEF SignalCheck
    <2>2. CASE SignalClaim
      BY <2>2 DEF SignalClaim
    <2>3. CASE SignalSet
      BY <2>3 DEF SignalSet, SetRefreshEvent
    <2>4. CASE SignalSetFails
      BY <2>4 DEF SignalSetFails
    <2> QED
      BY <1>2, <2>1, <2>2, <2>3, <2>4 DEF SignalStep
  <1>3. CASE Worker
    <2>1. CASE WorkerStops
      BY <2>1 DEF WorkerStops
    <2>2. CASE WorkerWakes
      BY <2>2 DEF WorkerWakes
    <2>3. CASE WorkerConsumes
      BY <2>3 DEF WorkerConsumes
    <2>4. CASE WorkerSignals
      BY <2>4 DEF WorkerSignals, CoordinatorSignal
    <2>5. CASE WorkerCaptures
      BY <2>5 DEF WorkerCaptures
    <2>6. CASE WorkerCaptureFails
      BY <2>6 DEF WorkerCaptureFails
    <2>7. CASE WorkerPublishes
      BY <2>7 DEF WorkerPublishes
    <2>8. CASE WorkerPosts
      BY <2>8 DEF WorkerPosts
    <2>9. CASE WorkerUnposts
      BY <2>9 DEF WorkerUnposts
    <2>10. CASE WorkerCompletesFailure
      BY <2>10 DEF WorkerCompletesFailure
    <2>11. CASE WorkerWakesItself
      BY <2>11 DEF WorkerWakesItself, SetRefreshEvent
    <2>12. CASE WorkerUnwakes
      BY <2>12 DEF WorkerUnwakes, CoordinatorUnwake
    <2> QED
      BY <1>3, <2>1, <2>2, <2>3, <2>4, <2>5, <2>6, <2>7, <2>8, <2>9, <2>10, <2>11, <2>12 DEF Worker
  <1>4. CASE UiStep
    <2>1. CASE UiEnables
      BY <2>1 DEF UiEnables
    <2>2. CASE UiSignals
      BY <2>2 DEF UiSignals, CoordinatorSignal
    <2>3. CASE UiWakesWorker
      BY <2>3 DEF UiWakesWorker, SetRefreshEvent
    <2>4. CASE UiUnwakes
      BY <2>4 DEF UiUnwakes, CoordinatorUnwake
    <2>5. CASE UiConsumes
      BY <2>5 DEF UiConsumes
    <2>6. CASE UiApplies
      BY <2>6 DEF UiApplies
    <2>7. CASE UiCompletes
      BY <2>7 DEF UiCompletes
    <2> QED
      BY <1>4, <2>1, <2>2, <2>3, <2>4, <2>5, <2>6, <2>7 DEF UiStep
  <1>5. CASE StopStep
    <2>1. CASE StopClearsIngress
      BY <2>1 DEF StopClearsIngress
    <2>2. CASE StopCoordinator
      BY <2>2 DEF StopCoordinator
    <2>3. CASE StopSignalsWorker
      BY <2>3 DEF StopSignalsWorker
    <2>4. CASE StopJoins
      BY <2>4 DEF StopJoins
    <2> QED
      BY <1>5, <2>1, <2>2, <2>3, <2>4 DEF StopStep
  <1>6. CASE StopBegins
    BY <1>6 DEF StopBegins
  <1>7. CASE StopTimesOut
    BY <1>7 DEF StopTimesOut
  <1>8. CASE UNCHANGED vars
    BY <1>8 DEF vars
  <1> QED
    BY <1>1, <1>2, <1>3, <1>4, <1>5, <1>6, <1>7, <1>8 DEF Next

(* Every step keeps the coalescing, the ingress and the stop discipline.   *)
LEMMA InitSafetyInv == Init => SafetyInv
  BY DEF Init, SafetyInv, OneReflowMessage, IngressNotLost, StopIsFinal,
     StopOrder

(* Every step preserves the inductive invariant.                           *)
(* Every step preserves the inductive invariant.                           *)
(* Every step preserves the inductive invariant.                           *)
(* Every step preserves the inductive invariant.                           *)
LEMMA NextSafetyInv ==
    ValuesOK /\ SafetyInv /\ [Next]_vars => SafetyInv'
  <1> SUFFICES ASSUME posted \in Nat, SafetyInv, [Next]_vars
               PROVE  SafetyInv'
    BY DEF ValuesOK
  <1> USE DEF SafetyInv, OneReflowMessage, IngressNotLost, StopIsFinal,
          StopOrder, ingress, coordinator, handles, worker, ui, world,
          history
  <1>1. CASE LayoutChanges
    BY <1>1 DEF LayoutChanges
  <1>2. CASE SignalStep
    <2>1. CASE SignalCheck
      BY <2>1 DEF SignalCheck
    <2>2. CASE SignalClaim
      BY <2>2 DEF SignalClaim
    <2>3. CASE SignalSet
      BY <2>3 DEF SignalSet, SetRefreshEvent
    <2>4. CASE SignalSetFails
      BY <2>4 DEF SignalSetFails
    <2> QED
      BY <1>2, <2>1, <2>2, <2>3, <2>4 DEF SignalStep
  <1>3. CASE Worker
    <2>1. CASE WorkerStops
      BY <2>1 DEF WorkerStops
    <2>2. CASE WorkerWakes
      BY <2>2 DEF WorkerWakes
    <2>3. CASE WorkerConsumes
      BY <2>3 DEF WorkerConsumes
    <2>4. CASE WorkerSignals
      BY <2>4 DEF WorkerSignals, CoordinatorSignal
    <2>5. CASE WorkerCaptures
      BY <2>5 DEF WorkerCaptures
    <2>6. CASE WorkerCaptureFails
      BY <2>6 DEF WorkerCaptureFails
    <2>7. CASE WorkerPublishes
      BY <2>7 DEF WorkerPublishes
    <2>8. CASE WorkerPosts
      BY <2>8 DEF WorkerPosts
    <2>9. CASE WorkerUnposts
      BY <2>9 DEF WorkerUnposts
    <2>10. CASE WorkerCompletesFailure
      BY <2>10 DEF WorkerCompletesFailure
    <2>11. CASE WorkerWakesItself
      BY <2>11 DEF WorkerWakesItself, SetRefreshEvent
    <2>12. CASE WorkerUnwakes
      BY <2>12 DEF WorkerUnwakes, CoordinatorUnwake
    <2> QED
      BY <1>3, <2>1, <2>2, <2>3, <2>4, <2>5, <2>6, <2>7, <2>8, <2>9, <2>10, <2>11, <2>12 DEF Worker
  <1>4. CASE UiStep
    <2>1. CASE UiEnables
      BY <2>1 DEF UiEnables
    <2>2. CASE UiSignals
      BY <2>2 DEF UiSignals, CoordinatorSignal
    <2>3. CASE UiWakesWorker
      BY <2>3 DEF UiWakesWorker, SetRefreshEvent
    <2>4. CASE UiUnwakes
      BY <2>4 DEF UiUnwakes, CoordinatorUnwake
    <2>5. CASE UiConsumes
      BY <2>5 DEF UiConsumes
    <2>6. CASE UiApplies
      BY <2>6 DEF UiApplies
    <2>7. CASE UiCompletes
      BY <2>7 DEF UiCompletes
    <2> QED
      BY <1>4, <2>1, <2>2, <2>3, <2>4, <2>5, <2>6, <2>7 DEF UiStep
  <1>5. CASE StopStep
    <2>1. CASE StopClearsIngress
      BY <2>1 DEF StopClearsIngress
    <2>2. CASE StopCoordinator
      BY <2>2 DEF StopCoordinator
    <2>3. CASE StopSignalsWorker
      BY <2>3 DEF StopSignalsWorker
    <2>4. CASE StopJoins
      BY <2>4 DEF StopJoins
    <2> QED
      BY <1>5, <2>1, <2>2, <2>3, <2>4 DEF StopStep
  <1>6. CASE StopBegins
    BY <1>6 DEF StopBegins
  <1>7. CASE StopTimesOut
    BY <1>7 DEF StopTimesOut
  <1>8. CASE UNCHANGED vars
    BY <1>8 DEF vars
  <1> QED
    BY <1>1, <1>2, <1>3, <1>4, <1>5, <1>6, <1>7, <1>8 DEF Next

-----------------------------------------------------------------------------
(* Type correctness of the pipeline.                                       *)
THEOREM RefreshTypeOK == Spec => []TypeOK
  <1>1. Init => TypeOK
    BY InitFlagsOK, InitValuesOK DEF TypeOK
  <1>2. TypeOK /\ [Next]_vars => TypeOK'
    BY NextFlagsOK, NextValuesOK DEF TypeOK
  <1> QED
    BY <1>1, <1>2, PTL DEF Spec

(* The inductive invariant holds in every state.                           *)
(* The inductive invariant holds in every state.                           *)
(* The inductive invariant holds in every state.                           *)
(* The inductive invariant holds in every state.                           *)
LEMMA RefreshSafetyInv == Spec => []SafetyInv
  <1>1. TypeOK /\ SafetyInv /\ [Next]_vars => SafetyInv'
    BY NextSafetyInv DEF TypeOK
  <1> QED
    BY <1>1, InitSafetyInv, RefreshTypeOK, PTL DEF Spec

(* At most one reflow message is ever queued for a pane.                   *)
THEOREM RefreshOneReflowMessage == Spec => []OneReflowMessage
  <1>1. SafetyInv => OneReflowMessage
    BY DEF SafetyInv
  <1> QED
    BY <1>1, RefreshSafetyInv, PTL

(* A claimed ingress signal always has a wake to come.                     *)
THEOREM RefreshIngressNotLost == Spec => []IngressNotLost
  <1>1. SafetyInv => IngressNotLost
    BY DEF SafetyInv
  <1> QED
    BY <1>1, RefreshSafetyInv, PTL

(* Nothing survives StatusPaneRefreshCoordinator::Stop.                    *)
THEOREM RefreshStopIsFinal == Spec => []StopIsFinal
  <1>1. SafetyInv => StopIsFinal
    BY DEF SafetyInv
  <1> QED
    BY <1>1, RefreshSafetyInv, PTL
=============================================================================
