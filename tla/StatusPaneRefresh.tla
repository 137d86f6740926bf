-------------------------- MODULE StatusPaneRefresh --------------------------
(***************************************************************************)
(* The refresh pipeline of one status pane: the atomic ingress that window *)
(* callbacks signal (HookRuntimeRefreshIngress), the coordinator that      *)
(* coalesces captures and pane messages (StatusPaneRefreshCoordinator),    *)
(* the RefreshWorker thread that captures the layout, the UI thread that   *)
(* applies a published placement, and StopWindowWorker, which ends it all. *)
(*                                                                         *)
(* One action is one critical section, one atomic operation or one system  *)
(* call of the code, so every interleaving of the three threads is there.  *)
(* A layout is abstracted to its version number.                           *)
(***************************************************************************)
EXTENDS Naturals

CONSTANTS
    MaxLayout   \* bound: how often the Explorer layout changes in a behaviour

ASSUME MaxLayoutAssumption == MaxLayout \in Nat \ {0}

VARIABLES
    enabled,    \* HookRuntimeRefreshIngress::enabled_
    pending,    \* HookRuntimeRefreshIngress::pending_
    stopped,    \* StatusPaneRefreshCoordinator::stopped_
    active,     \* ::worker_active_
    dirty,      \* ::dirty_
    dispatch,   \* ::dispatch_pending_
    applying,   \* ::apply_pending_
    retryUsed,  \* ::automatic_retry_used_
    result,     \* ::result_, a layout version or NoResult
    event,      \* refresh_event, an auto-reset event
    stopEvent,  \* refresh_stop, a manual-reset event
    posted,     \* reflow messages in the pane's queue
    wpc,        \* location of RefreshWorker
    captured,   \* the placement RefreshWorker holds
    upc,        \* location of the UI thread
    placement,  \* the placement the UI thread took from the coordinator
    spc,        \* location of the SignalEvent call nested in the UI thread
    kpc,        \* location of StopWindowWorker
    layout,     \* version of the layout Explorer has now
    shown,      \* version of the layout the pane was last placed for
    merged,     \* history: some SetEvent found refresh_event already set
    failed      \* history: some capture, placement or system call failed

ingress == <<enabled, pending>>
coordinator == <<stopped, active, dirty, dispatch, applying, retryUsed, result>>
handles == <<event, stopEvent, posted>>
worker == <<wpc, captured>>
ui == <<upc, placement, spc>>
world == <<layout, shown>>
history == <<merged, failed>>
vars == <<enabled, pending, stopped, active, dirty, dispatch, applying,
          retryUsed, result, event, stopEvent, posted, wpc, captured, upc,
          placement, spc, kpc, layout, shown, merged, failed>>

Versions == 0..MaxLayout
NoResult == MaxLayout + 1

WorkerLocations == {"waiting", "consuming", "signalling", "capturing",
                    "failed", "publishing", "posting", "unposting",
                    "waking", "unwaking", "exited"}
UiLocations == {"enabling", "signalling", "idle", "applying", "accepted",
                "rejected", "waking", "unwaking"}
SignalLocations == {"none", "check", "claim", "set"}
StopLocations == {"running", "disabling", "disabled", "stopping", "joining",
                  "joined", "timedout"}

(* ActivateRuntimeWindow has created the worker thread; nothing else ran.  *)
Init ==
    /\ enabled = FALSE /\ pending = FALSE
    /\ stopped = FALSE /\ active = FALSE /\ dirty = FALSE
    /\ dispatch = FALSE /\ applying = FALSE /\ retryUsed = FALSE
    /\ result = NoResult
    /\ event = FALSE /\ stopEvent = FALSE /\ posted = 0
    /\ wpc = "waiting" /\ captured = 0
    /\ upc = "enabling" /\ placement = 0 /\ spc = "none"
    /\ kpc = "running"
    /\ layout = 1 /\ shown = 0
    /\ merged = FALSE /\ failed = FALSE

(* SetEvent(refresh_event). Two calls before the worker waits are one.     *)
SetRefreshEvent ==
    /\ event' = TRUE
    /\ merged' = (merged \/ event)

-----------------------------------------------------------------------------
(* HookRuntimeRefreshIngress::SignalEvent, called from the window          *)
(* callbacks of the UI thread, possibly nested in ApplyStatusPanePlacement.*)

(* Explorer changed its layout and its message reaches a window callback.  *)
LayoutChanges ==
    /\ spc = "none" /\ upc \in {"idle", "applying"}
    /\ layout < MaxLayout
    /\ layout' = layout + 1
    /\ spc' = "check"
    /\ UNCHANGED <<ingress, coordinator, handles, worker, upc, placement,
                   kpc, shown, history>>

SignalCheck ==
    /\ spc = "check"
    /\ spc' = IF enabled THEN "claim" ELSE "none"
    /\ UNCHANGED <<ingress, coordinator, handles, worker, upc, placement,
                   kpc, world, history>>

SignalClaim ==
    /\ spc = "claim"
    /\ spc' = IF pending THEN "none" ELSE "set"
    /\ pending' = TRUE
    /\ UNCHANGED <<enabled, coordinator, handles, worker, upc, placement,
                   kpc, world, history>>

SignalSet ==
    /\ spc = "set"
    /\ spc' = "none"
    /\ SetRefreshEvent
    /\ UNCHANGED <<ingress, coordinator, stopEvent, posted, worker, upc,
                   placement, kpc, world, failed>>

(* Mutant: the failed SetEvent leaves the claim behind.                    *)
SignalSetFailsKeepingClaim ==
    /\ failed' = TRUE
    /\ spc = "set"
    /\ spc' = "none"
    /\ UNCHANGED <<ingress, coordinator, handles, worker, upc, placement,
                   kpc, world, merged>>

SignalSetFails ==
    /\ failed' = TRUE
    /\ spc = "set"
    /\ spc' = "none"
    /\ pending' = FALSE
    /\ UNCHANGED <<enabled, coordinator, handles, worker, upc, placement,
                   kpc, world, merged>>

SignalStep == SignalCheck \/ SignalClaim \/ SignalSet \/ SignalSetFails

-----------------------------------------------------------------------------
(* StatusPaneRefreshCoordinator: its critical sections.                    *)

(* Mutant: a request that finds a capture in flight is dropped.            *)
CoordinatorSignalWithoutDirty(claimed) ==
    /\ ~stopped
    /\ claimed = ~(active \/ dispatch)
    /\ active' = (active \/ claimed)
    /\ dirty' = FALSE
    /\ retryUsed' = FALSE
    /\ UNCHANGED <<stopped, dispatch, applying, result>>

(* Signal: claim the worker, or leave the request to the capture in flight.*)
CoordinatorSignal(claimed) ==
    /\ ~stopped
    /\ claimed = ~(active \/ dispatch)
    /\ active' = (active \/ claimed)
    /\ dirty' = ~claimed
    /\ retryUsed' = FALSE
    /\ UNCHANGED <<stopped, dispatch, applying, result>>

(* The failed-wake branch shared by Signal, CaptureFailed, ApplyCompleted. *)
CoordinatorUnwake ==
    /\ active' = FALSE
    /\ dirty' = TRUE
    /\ UNCHANGED <<stopped, dispatch, applying, retryUsed, result>>

-----------------------------------------------------------------------------
(* RefreshWorker.                                                          *)

WorkerStops ==
    /\ wpc = "waiting" /\ stopEvent
    /\ wpc' = "exited"
    /\ UNCHANGED <<ingress, coordinator, handles, captured, ui, kpc, world,
                   history>>

WorkerWakes ==
    /\ wpc = "waiting" /\ ~stopEvent /\ event
    /\ event' = FALSE
    /\ wpc' = "consuming"
    /\ UNCHANGED <<ingress, coordinator, stopEvent, posted, captured, ui,
                   kpc, world, history>>

(* HookRuntimeRefreshIngress::Consume. Without a pending signal the wake   *)
(* came from the coordinator, which claimed the worker beforehand.         *)
WorkerConsumes ==
    /\ wpc = "consuming"
    /\ wpc' = IF pending THEN "signalling" ELSE "capturing"
    /\ pending' = FALSE
    /\ UNCHANGED <<enabled, coordinator, handles, captured, ui, kpc, world,
                   history>>

WorkerSignals ==
    /\ wpc = "signalling"
    /\ \/ \E claimed \in BOOLEAN :
             /\ CoordinatorSignal(claimed)
             /\ wpc' = IF claimed THEN "capturing" ELSE "waiting"
       \/ /\ stopped
          /\ wpc' = "waiting"
          /\ UNCHANGED coordinator
    /\ UNCHANGED <<ingress, handles, captured, ui, kpc, world, history>>

WorkerCaptures ==
    /\ wpc = "capturing"
    /\ captured' = layout
    /\ wpc' = "publishing"
    /\ UNCHANGED <<ingress, coordinator, handles, ui, kpc, world, history>>

WorkerCaptureFails ==
    /\ failed' = TRUE
    /\ wpc = "capturing"
    /\ wpc' = "failed"
    /\ UNCHANGED <<ingress, coordinator, handles, captured, ui, kpc, world,
                   merged>>

(* Mutant: every publication posts its own message.                        *)
WorkerPublishesAlways ==
    /\ wpc = "publishing"
    /\ active' = FALSE
    /\ IF stopped
       THEN /\ wpc' = "waiting"
            /\ UNCHANGED <<result, dispatch>>
       ELSE /\ wpc' = "posting"
            /\ result' = captured
            /\ dispatch' = TRUE
    /\ UNCHANGED <<ingress, stopped, dirty, applying, retryUsed, handles,
                   captured, ui, kpc, world, history>>

(* Mutant: a capture that outlives Stop is published.                      *)
WorkerPublishesStopped ==
    /\ wpc = "publishing"
    /\ active' = FALSE
    /\ wpc' = IF dispatch THEN "waiting" ELSE "posting"
    /\ result' = captured
    /\ dispatch' = TRUE
    /\ UNCHANGED <<ingress, stopped, dirty, applying, retryUsed, handles,
                   captured, ui, kpc, world, history>>

WorkerPublishes ==
    /\ wpc = "publishing"
    /\ active' = FALSE
    /\ IF stopped
       THEN /\ wpc' = "waiting"
            /\ UNCHANGED <<result, dispatch>>
       ELSE /\ wpc' = IF dispatch THEN "waiting" ELSE "posting"
            /\ result' = captured
            /\ dispatch' = TRUE
    /\ UNCHANGED <<ingress, stopped, dirty, applying, retryUsed, handles,
                   captured, ui, kpc, world, history>>

WorkerPosts ==
    /\ wpc = "posting"
    /\ \/ /\ posted' = posted + 1
          /\ wpc' = "waiting"
          /\ UNCHANGED failed
       \/ /\ failed' = TRUE
          /\ wpc' = "unposting"
          /\ UNCHANGED posted
    /\ UNCHANGED <<ingress, coordinator, event, stopEvent, captured, ui, kpc,
                   world, merged>>

WorkerUnposts ==
    /\ wpc = "unposting"
    /\ dispatch' = FALSE
    /\ result' = NoResult
    /\ wpc' = "waiting"
    /\ UNCHANGED <<ingress, stopped, active, dirty, applying, retryUsed,
                   handles, captured, ui, kpc, world, history>>

(* CaptureFailed: a request that came meanwhile gets its own capture.      *)
WorkerCompletesFailure ==
    /\ wpc = "failed"
    /\ LET again == dirty /\ ~stopped
       IN  /\ active' = again
           /\ dirty' = (dirty /\ ~again)
           /\ wpc' = IF again THEN "waking" ELSE "waiting"
    /\ UNCHANGED <<ingress, stopped, dispatch, applying, retryUsed, result,
                   handles, captured, ui, kpc, world, history>>

WorkerWakesItself ==
    /\ wpc = "waking"
    /\ \/ /\ SetRefreshEvent
          /\ wpc' = "waiting"
          /\ UNCHANGED failed
       \/ /\ failed' = TRUE
          /\ wpc' = "unwaking"
          /\ UNCHANGED <<event, merged>>
    /\ UNCHANGED <<ingress, coordinator, stopEvent, posted, captured, ui,
                   kpc, world>>

WorkerUnwakes ==
    /\ wpc = "unwaking"
    /\ CoordinatorUnwake
    /\ wpc' = "waiting"
    /\ UNCHANGED <<ingress, handles, captured, ui, kpc, world, history>>

Worker ==
    \/ WorkerStops \/ WorkerWakes \/ WorkerConsumes \/ WorkerSignals
    \/ WorkerCaptures \/ WorkerCaptureFails \/ WorkerPublishes
    \/ WorkerPosts \/ WorkerUnposts \/ WorkerCompletesFailure
    \/ WorkerWakesItself \/ WorkerUnwakes

-----------------------------------------------------------------------------
(* The UI thread of the pane.                                              *)

(* ActivateRuntimeWindow: ingress.Enable, then refresh.Signal(WM_SIZE).    *)
UiEnables ==
    /\ upc = "enabling"
    /\ pending' = FALSE
    /\ enabled' = TRUE
    /\ upc' = "signalling"
    /\ UNCHANGED <<coordinator, handles, worker, placement, spc, kpc, world,
                   history>>

UiSignals ==
    /\ upc = "signalling"
    /\ \E claimed \in BOOLEAN :
          /\ CoordinatorSignal(claimed)
          /\ upc' = IF claimed THEN "waking" ELSE "idle"
    /\ UNCHANGED <<ingress, handles, worker, placement, spc, kpc, world,
                   history>>

UiWakesWorker ==
    /\ upc = "waking"
    /\ \/ /\ SetRefreshEvent
          /\ upc' = "idle"
          /\ UNCHANGED failed
       \/ /\ failed' = TRUE
          /\ upc' = "unwaking"
          /\ UNCHANGED <<event, merged>>
    /\ UNCHANGED <<ingress, coordinator, stopEvent, posted, worker,
                   placement, spc, kpc, world>>

UiUnwakes ==
    /\ upc = "unwaking"
    /\ CoordinatorUnwake
    /\ upc' = "idle"
    /\ UNCHANGED <<ingress, handles, worker, placement, spc, kpc, world,
                   history>>

(* HandleStatusPaneRuntimeMessage on a reflow message: Consume.            *)
UiConsumes ==
    /\ upc = "idle" /\ spc = "none"
    /\ posted > 0
    /\ posted' = posted - 1
    /\ IF stopped \/ ~dispatch \/ result = NoResult
       THEN UNCHANGED <<dispatch, applying, result, upc, placement>>
       ELSE /\ placement' = result
            /\ result' = NoResult
            /\ dispatch' = FALSE
            /\ applying' = TRUE
            /\ upc' = "applying"
    /\ UNCHANGED <<ingress, stopped, active, dirty, retryUsed, event,
                   stopEvent, worker, spc, kpc, world, history>>

(* ApplyStatusPanePlacementResult, then UpdateRuntimeParentSubclass: the   *)
(* second can reject a placement that is on the screen already.            *)
UiApplies ==
    /\ upc = "applying" /\ spc = "none"
    /\ \/ /\ shown' = placement
          /\ upc' = "accepted"
          /\ UNCHANGED failed
       \/ /\ failed' = TRUE
          /\ upc' = "rejected"
          /\ shown' \in {shown, placement}
    /\ UNCHANGED <<ingress, coordinator, handles, worker, placement, spc,
                   kpc, layout, merged>>

(* Mutant: a rejected placement is retried without limit.                  *)
UiCompletesRetryingForever ==
    /\ upc \in {"accepted", "rejected"}
    /\ IF stopped \/ ~applying
       THEN /\ upc' = "idle"
            /\ UNCHANGED <<applying, active, dirty, retryUsed>>
       ELSE LET retry == upc = "rejected"
            IN  /\ applying' = FALSE
                /\ upc' = IF dirty \/ retry THEN "waking" ELSE "idle"
                /\ active' = (active \/ dirty \/ retry)
                /\ dirty' = FALSE
                /\ retryUsed' = (~dirty /\ upc = "rejected")
    /\ UNCHANGED <<ingress, stopped, dispatch, result, handles, worker,
                   placement, spc, kpc, world, history>>

(* ApplyCompleted: recapture for a request that came meanwhile, or once    *)
(* for a rejected placement.                                               *)
UiCompletes ==
    /\ upc \in {"accepted", "rejected"}
    /\ IF stopped \/ ~applying
       THEN /\ upc' = "idle"
            /\ UNCHANGED <<applying, active, dirty, retryUsed>>
       ELSE LET retry == upc = "rejected" /\ ~retryUsed
            IN  /\ applying' = FALSE
                /\ upc' = IF dirty \/ retry THEN "waking" ELSE "idle"
                /\ active' = (active \/ dirty \/ retry)
                /\ dirty' = FALSE
                /\ retryUsed' = (~dirty /\ upc = "rejected")
    /\ UNCHANGED <<ingress, stopped, dispatch, result, handles, worker,
                   placement, spc, kpc, world, history>>

UiStep == UiEnables \/ UiSignals \/ UiWakesWorker \/ UiUnwakes \/ UiConsumes
          \/ UiApplies \/ UiCompletes

-----------------------------------------------------------------------------
(* StopWindowWorker, run by the UI thread or by the pipe worker.           *)

StopBegins ==
    /\ kpc = "running" /\ upc \notin {"enabling", "signalling"}
    /\ enabled' = FALSE
    /\ kpc' = "disabling"
    /\ UNCHANGED <<pending, coordinator, handles, worker, ui, world, history>>

StopClearsIngress ==
    /\ kpc = "disabling"
    /\ pending' = FALSE
    /\ kpc' = "disabled"
    /\ UNCHANGED <<enabled, coordinator, handles, worker, ui, world, history>>

(* StatusPaneRefreshCoordinator::Stop.                                     *)
StopCoordinator ==
    /\ kpc = "disabled"
    /\ stopped' = TRUE
    /\ active' = FALSE /\ dirty' = FALSE
    /\ dispatch' = FALSE /\ applying' = FALSE
    /\ result' = NoResult
    /\ kpc' = "stopping"
    /\ UNCHANGED <<ingress, retryUsed, handles, worker, ui, world, history>>

(* Mutant: StopWindowWorker waits for a worker nobody told to stop.        *)
StopForgetsWorker ==
    /\ kpc = "stopping"
    /\ kpc' = "joining"
    /\ UNCHANGED <<ingress, coordinator, handles, worker, ui, world, history>>

StopSignalsWorker ==
    /\ kpc = "stopping"
    /\ \/ /\ stopEvent' = TRUE
          /\ kpc' = "joining"
          /\ UNCHANGED failed
       \/ /\ failed' = TRUE
          /\ kpc' = "timedout"
          /\ UNCHANGED stopEvent
    /\ UNCHANGED <<ingress, coordinator, event, posted, worker, ui, world,
                   merged>>

StopJoins ==
    /\ kpc = "joining" /\ wpc = "exited"
    /\ kpc' = "joined"
    /\ UNCHANGED <<ingress, coordinator, handles, worker, ui, world, history>>

(* The wait of 5000 ms ends first: the window is retained.                 *)
StopTimesOut ==
    /\ kpc = "joining" /\ wpc # "exited"
    /\ kpc' = "timedout"
    /\ UNCHANGED <<ingress, coordinator, handles, worker, ui, world, history>>

StopStep == StopClearsIngress \/ StopCoordinator \/ StopSignalsWorker
            \/ StopJoins

Next == \/ LayoutChanges \/ SignalStep \/ Worker \/ UiStep
        \/ StopBegins \/ StopStep \/ StopTimesOut

(* Every thread that can run eventually does. Explorer need not change its *)
(* layout, the window need not be closed, and no wait need time out.       *)
Fairness ==
    /\ WF_vars(SignalStep) /\ WF_vars(Worker)
    /\ WF_vars(UiStep) /\ WF_vars(StopStep)

Spec == Init /\ [][Next]_vars
FairSpec == Spec /\ Fairness

-----------------------------------------------------------------------------
FlagsOK ==
    /\ enabled \in BOOLEAN /\ pending \in BOOLEAN
    /\ stopped \in BOOLEAN /\ active \in BOOLEAN /\ dirty \in BOOLEAN
    /\ dispatch \in BOOLEAN /\ applying \in BOOLEAN
    /\ retryUsed \in BOOLEAN
    /\ event \in BOOLEAN /\ stopEvent \in BOOLEAN
    /\ merged \in BOOLEAN /\ failed \in BOOLEAN

ValuesOK ==
    /\ result \in Versions \cup {NoResult}
    /\ posted \in Nat
    /\ wpc \in WorkerLocations /\ captured \in Versions
    /\ upc \in UiLocations /\ placement \in Versions
    /\ spc \in SignalLocations /\ kpc \in StopLocations
    /\ layout \in Versions /\ shown \in Versions

(* Every variable has its type.                                            *)
TypeOK == FlagsOK /\ ValuesOK

(***************************************************************************)
(* Safety.                                                                 *)
(***************************************************************************)

(* Coalescing (dispatch_pending_): whatever the signals, captures and      *)
(* applications do, the pane's queue never holds two reflow messages, and  *)
(* a message is under way only while the coordinator knows of it.          *)
OneReflowMessage ==
    /\ posted <= 1
    /\ posted = 1 => wpc \notin {"posting", "unposting"}
    /\ (posted = 1 \/ wpc \in {"posting", "unposting"}) /\ ~stopped
       => dispatch

(* A claimed ingress signal is not lost: until RefreshWorker takes it, the *)
(* event is set or its setter has yet to set it, so a second SignalEvent   *)
(* that relies on pending_ and sets nothing is served as well.             *)
IngressNotLost ==
    pending => \/ event \/ wpc \in {"consuming", "exited"} \/ spc = "set"

(* Stop is final: a publication, completion or signal that was in flight   *)
(* while StopWindowWorker ran leaves no placement, no message claim and no *)
(* application behind, so nothing touches the pane after its cleanup.      *)
StopIsFinal ==
    stopped => ~active /\ ~dispatch /\ ~applying /\ result = NoResult

(***************************************************************************)
(* Liveness.                                                               *)
(***************************************************************************)

(* "Rearms without busy loop", "recovery is bounded": however often        *)
(* captures fail and placements are rejected, once Explorer leaves its     *)
(* layout alone RefreshWorker ends up waiting on an unset event for good.  *)
NoBusyLoop ==
    <>[](wpc = "exited" \/ (wpc = "waiting" /\ ~event))

(* A window being closed gets its refresh worker to exit.                  *)
StopTerminates == kpc = "disabling" ~> wpc = "exited" \/ kpc = "timedout"

(* Every layout change reaches the pane unless its window is being closed  *)
(* or some call has failed.                                                *)
RefreshNotLost == layout # shown ~> layout = shown \/ kpc # "running" \/ failed

(* The same, but for the behaviours in which one SetEvent found the event  *)
(* set: two wakes with different meanings were merged into one.            *)
RefreshNotLostUnlessMerged ==
    layout # shown ~> layout = shown \/ kpc # "running" \/ failed \/ merged
=============================================================================
