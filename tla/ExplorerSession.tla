----------------------------- MODULE ExplorerSession -----------------------------
(***************************************************************************)
(* The Host's session with one Explorer process. Reconcile brings the      *)
(* hooks, the tab sets and the pane texts of the process to a snapshot of  *)
(* its windows, one pipe exchange at a time, and remembers the snapshot    *)
(* only when all of it was acknowledged; Stop takes everything back, and   *)
(* may be called again after it failed.                                    *)
(*                                                                         *)
(* The session's mutex is held for the whole of an operation, so one       *)
(* operation runs at a time. Its steps interleave with the process, whose  *)
(* threads end and which dies as it likes. The order of the windows in a   *)
(* snapshot is abstracted: any order will do. An exchange that fails may   *)
(* have been carried out.                                                  *)
(***************************************************************************)
EXTENDS ThreadHookInjector, Functions

CONSTANTS
    Windows,    \* top-level window handles of the process
    MaxGen,     \* bound: generations of a window handle
    Texts,      \* what the pane of an active tab is to show
    NoTab,      \* the snapshot of a window without a known active tab
    NoWindow,   \* no window is being worked on
    MaxRequest  \* the last request identifier

ASSUME SessionAssumption ==
    /\ MaxGen \in Nat \ {0} /\ MaxRequest \in Nat
    /\ NoTab \notin Texts /\ NoWindow \notin Windows

VARIABLES
    attached, uncertain, stopped,       \* the flags of ExplorerSession
    releaseComplete, detachComplete,
    windows,        \* windows_: the snapshot of each window, last committed
    lastRequest,    \* last_request_id_
    pc,             \* the step of the operation that runs, or "idle"
    candidate,      \* local of Reconcile: the snapshot to bring about
    todo,           \* the windows its current loop has not come to
    now,            \* the window its current loop is at
    acked,          \* the process: the updates and texts it has carried out
    module,         \* the process: the DLL is loaded
    detaching       \* the process: it has the request to detach

flags == <<attached, uncertain, stopped, releaseComplete, detachComplete>>
locals == <<pc, candidate, todo, now>>
process == <<acked, module, detaching>>
vars == <<flags, windows, lastRequest, locals, process, injectorVars>>

Snapshot == [thread : UiThreads, gen : 1..MaxGen, text : Texts \cup {NoTab}]
Snapshots == UNION {[W -> Snapshot] : W \in SUBSET Windows}
None == [w \in {} |-> 0]

Init ==
    /\ InjectorInit
    /\ attached = FALSE /\ uncertain = FALSE /\ stopped = FALSE
    /\ releaseComplete = FALSE /\ detachComplete = FALSE
    /\ windows = None /\ lastRequest = 0
    /\ pc = "idle" /\ candidate = None /\ todo = {} /\ now = NoWindow
    /\ acked = None /\ module = FALSE /\ detaching = FALSE

(* An operation returns to its caller.                                     *)
Returns ==
    /\ pc' = "idle" /\ candidate' = None /\ todo' = {} /\ now' = NoWindow

-----------------------------------------------------------------------------
(* Explorer.                                                               *)

SomeThreadsEnd ==
    /\ \E threads \in SUBSET (UiThreads \ ended) :
          threads # {} /\ ThreadsEnd(threads)
    /\ UNCHANGED <<flags, windows, lastRequest, locals, process>>

(* The process dies, or it unloads the DLL after the detach, when the      *)
(* event of the hooks is set.                                              *)
ModuleUnloads ==
    /\ module
    /\ ended = UiThreads \/ (detaching /\ signaled)
    /\ module' = FALSE
    /\ UNCHANGED <<flags, windows, lastRequest, locals, acked, detaching,
                   injectorVars>>

-----------------------------------------------------------------------------
(* Reconcile.                                                              *)

(* The windows have been validated, and no generation goes back. A handle  *)
(* that was reused has another active tab: see ReconcileObserverTabSet.    *)
ReconcileBegins ==
    /\ pc = "idle" /\ ~stopped /\ ~uncertain
    /\ \E c \in Snapshots :
          /\ DOMAIN c # {} \/ attached
          /\ \A w \in DOMAIN c :
                /\ c[w].thread \notin ended
                /\ w \in DOMAIN windows =>
                      /\ c[w].gen >= windows[w].gen
                      /\ \/ c[w].text # windows[w].text
                         \/ c[w].gen = windows[w].gen
          /\ candidate' = c /\ todo' = DOMAIN c
    /\ pc' = IF attached THEN "updating" ELSE "attaching"
    /\ UNCHANGED <<flags, windows, lastRequest, now, process, injectorVars>>

Uncertain == uncertain' = TRUE /\ Returns

AttachInitial ==
    /\ pc = "attaching"
    /\ \E w \in todo : AttachSucceeds(candidate[w].thread)
    /\ attached' = TRUE /\ module' = TRUE
    /\ pc' = "updating"
    /\ UNCHANGED <<uncertain, stopped, releaseComplete, detachComplete,
                   windows, lastRequest, candidate, todo, now, acked,
                   detaching>>

(* The injector or a step before it fails, or the outcome does not         *)
(* authorize the unloading.                                                *)
AttachInitialFails ==
    /\ pc = "attaching"
    /\ \E w \in todo : AttachFails(candidate[w].thread)
    /\ module' \in BOOLEAN
    /\ Uncertain
    /\ UNCHANGED <<attached, stopped, releaseComplete, detachComplete,
                   windows, lastRequest, acked, detaching>>

Ensure ==
    /\ pc = "updating"
    /\ \E w \in todo :
          /\ Ensured(candidate[w].thread)
          /\ now' = w /\ todo' = todo \ {w}
    /\ pc' = "exchanging"
    /\ UNCHANGED <<flags, windows, lastRequest, candidate, process>>

EnsureFailed ==
    /\ pc = "updating"
    /\ \E w \in todo : EnsureFails(candidate[w].thread)
    /\ Uncertain
    /\ UNCHANGED <<attached, stopped, releaseComplete, detachComplete,
                   windows, lastRequest, process>>

(* A request with an identifier of its own that comes back acknowledged;   *)
(* nobody answers when the module is gone.                                 *)
Exchanged(after) ==
    /\ lastRequest < MaxRequest /\ lastRequest' = lastRequest + 1
    /\ module /\ acked' = after

(* No identifier is left, or the exchange fails wherever it is.            *)
ExchangeFails(after) ==
    /\ \/ lastRequest = MaxRequest /\ UNCHANGED <<lastRequest, acked>>
       \/ /\ lastRequest < MaxRequest /\ lastRequest' = lastRequest + 1
          /\ acked' = acked \/ (module /\ acked' = after)
    /\ Uncertain
    /\ UNCHANGED <<attached, stopped, releaseComplete, detachComplete,
                   windows, module, injectorVars>>

(* The runtime keeps the text of a window that it updates and starts a new *)
(* pane for a new generation.                                              *)
AfterUpdate(w) ==
    LET s == candidate[w]
        old == w \in DOMAIN acked /\ acked[w].gen = s.gen
    IN  [v \in DOMAIN acked \cup {w} |->
            IF v # w THEN acked[v]
            ELSE [s EXCEPT !.text = IF old THEN acked[w].text ELSE NoTab]]
AfterText(w) ==
    [v \in DOMAIN acked |->
        IF v # w THEN acked[v] ELSE [acked[w] EXCEPT !.text = candidate[w].text]]
AfterRemoval(w) == Restrict(acked, DOMAIN acked \ {w})

(* Mutant: the pane is taken for unchanged whenever the window is known.   *)
PaneChangedOnce(w) == w \notin DOMAIN windows

PaneChanged(w) ==
    \/ w \notin DOMAIN windows
    \/ windows[w].text # candidate[w].text

SendUpdate ==
    /\ pc = "exchanging"
    /\ Exchanged(AfterUpdate(now))
    /\ IF candidate[now].text # NoTab /\ PaneChanged(now)
       THEN pc' = "texting" /\ UNCHANGED now
       ELSE pc' = "updating" /\ now' = NoWindow
    /\ UNCHANGED <<flags, windows, candidate, todo, module, detaching,
                   injectorVars>>

SendPaneText ==
    /\ pc = "texting"
    /\ Exchanged(AfterText(now))
    /\ pc' = "updating" /\ now' = NoWindow
    /\ UNCHANGED <<flags, windows, candidate, todo, module, detaching,
                   injectorVars>>

UpdatesDone ==
    /\ pc = "updating" /\ todo = {}
    /\ pc' = "removing" /\ todo' = DOMAIN windows \ DOMAIN candidate
    /\ UNCHANGED <<flags, windows, lastRequest, candidate, now, process,
                   injectorVars>>

SendRemoval ==
    /\ pc = "removing"
    /\ \E w \in todo : Exchanged(AfterRemoval(w)) /\ todo' = todo \ {w}
    /\ UNCHANGED <<flags, windows, pc, candidate, now, module, detaching,
                   injectorVars>>

SendFails ==
    /\ \/ pc = "exchanging" /\ ExchangeFails(AfterUpdate(now))
       \/ pc = "texting" /\ ExchangeFails(AfterText(now))
       \/ pc = "removing" /\ \E w \in todo : ExchangeFails(AfterRemoval(w))
    /\ UNCHANGED detaching

Commit ==
    /\ pc = "removing" /\ todo = {}
    /\ windows' = candidate
    /\ Returns
    /\ UNCHANGED <<flags, lastRequest, process, injectorVars>>

(* bad_alloc, between any two steps.                                       *)
OutOfMemory ==
    /\ pc \in {"attaching", "updating", "exchanging", "texting", "removing"}
    /\ uncertain' = attached
    /\ Returns
    /\ UNCHANGED <<attached, stopped, releaseComplete, detachComplete,
                   windows, lastRequest, process, injectorVars>>

Reconcile ==
    \/ ReconcileBegins \/ AttachInitial \/ AttachInitialFails
    \/ Ensure \/ EnsureFailed \/ SendUpdate \/ SendPaneText \/ UpdatesDone
    \/ SendRemoval \/ SendFails \/ Commit \/ OutOfMemory

-----------------------------------------------------------------------------
(* Stop. What has been done is not done again.                             *)

StopUnattached ==
    /\ pc = "idle" /\ ~stopped /\ ~uncertain /\ ~attached
    /\ stopped' = TRUE
    /\ UNCHANGED <<attached, uncertain, releaseComplete, detachComplete,
                   windows, lastRequest, locals, process, injectorVars>>

(* Mutant: the process is asked to detach before the hooks are off.        *)
StopSkipsRelease ==
    /\ pc = "idle" /\ ~stopped /\ ~uncertain /\ attached
    /\ pc' = IF detachComplete THEN "awaiting" ELSE "detaching"
    /\ UNCHANGED <<flags, windows, lastRequest, candidate, todo, now, process,
                   injectorVars>>

StopBegins ==
    /\ pc = "idle" /\ ~stopped /\ ~uncertain /\ attached
    /\ pc' = IF ~releaseComplete THEN "releasing"
             ELSE IF ~detachComplete THEN "detaching" ELSE "awaiting"
    /\ UNCHANGED <<flags, windows, lastRequest, candidate, todo, now, process,
                   injectorVars>>

ReleaseHooks ==
    /\ pc = "releasing"
    /\ Released
    /\ releaseComplete' = TRUE /\ pc' = "detaching"
    /\ UNCHANGED <<attached, uncertain, stopped, detachComplete, windows,
                   lastRequest, candidate, todo, now, process>>

ReleaseHooksFails ==
    /\ pc = "releasing"
    /\ ReleaseFails
    /\ Returns
    /\ UNCHANGED <<flags, windows, lastRequest, process>>

Detach ==
    /\ pc = "detaching"
    /\ Exchanged(None)
    /\ detaching' = TRUE
    /\ detachComplete' = TRUE /\ pc' = "awaiting"
    /\ UNCHANGED <<attached, uncertain, stopped, releaseComplete, windows,
                   candidate, todo, now, module, injectorVars>>

(* The process reports a cleanup that failed, or does not answer.          *)
DetachFails ==
    /\ pc = "detaching"
    /\ ExchangeFails(None)
    /\ detaching' \in {detaching, TRUE}

(* The wait times out, or the modules of the process cannot be listed.     *)
WaitModuleAbsentFails ==
    /\ pc = "awaiting"
    /\ Returns
    /\ UNCHANGED <<flags, windows, lastRequest, process, injectorVars>>

(* Mutant: the end of the wait is taken for the end of the module.         *)
WaitModuleOver ==
    /\ pc = "awaiting"
    /\ pc' = "confirming"
    /\ UNCHANGED <<flags, windows, lastRequest, candidate, todo, now, process,
                   injectorVars>>

WaitModuleAbsent ==
    /\ pc = "awaiting" /\ ~module
    /\ pc' = "confirming"
    /\ UNCHANGED <<flags, windows, lastRequest, candidate, todo, now, process,
                   injectorVars>>

(* It cannot refuse here: see ReleaseOrder.                                *)
ConfirmTargetGone ==
    /\ pc = "confirming"
    /\ Confirmed
    /\ windows' = None /\ attached' = FALSE /\ stopped' = TRUE
    /\ Returns
    /\ UNCHANGED <<uncertain, releaseComplete, detachComplete, lastRequest,
                   process>>

Stop ==
    \/ StopUnattached \/ StopBegins \/ ReleaseHooks \/ ReleaseHooksFails
    \/ Detach \/ DetachFails \/ WaitModuleAbsent \/ WaitModuleAbsentFails
    \/ ConfirmTargetGone

Next == SomeThreadsEnd \/ ModuleUnloads \/ Reconcile \/ Stop

Spec == Init /\ [][Next]_vars

-----------------------------------------------------------------------------
(* Every variable has its type.                                            *)
TypeOK ==
    /\ InjectorTypeOK
    /\ attached \in BOOLEAN /\ uncertain \in BOOLEAN /\ stopped \in BOOLEAN
    /\ releaseComplete \in BOOLEAN /\ detachComplete \in BOOLEAN
    /\ windows \in Snapshots /\ candidate \in Snapshots /\ acked \in Snapshots
    /\ lastRequest \in 0..MaxRequest
    /\ pc \in {"idle", "attaching", "updating", "exchanging", "texting",
               "removing", "releasing", "detaching", "awaiting", "confirming"}
    /\ todo \subseteq Windows /\ now \in Windows \cup {NoWindow}
    /\ module \in BOOLEAN /\ detaching \in BOOLEAN

(* A session that still answers between calls, and has not begun to stop.  *)
Serving ==
    pc = "idle" /\ attached /\ ~uncertain /\ ~stopped /\ ~releaseStarted

(* What the session believes of the process is what the process has        *)
(* acknowledged: the windows, their generations and threads, and the texts *)
(* of their panes. The texts are sent only when they change, so a text     *)
(* that is missed once would be missed for good.                           *)
MirrorExact ==
    Serving =>
        /\ DOMAIN acked = DOMAIN windows
        /\ \A w \in DOMAIN windows :
              /\ acked[w].gen = windows[w].gen
              /\ acked[w].thread = windows[w].thread
              /\ windows[w].text \in {NoTab, acked[w].text}

(* Release, then detach: once the hooks are being released no window is    *)
(* updated any more, whatever the caller asks for; and no process is asked *)
(* to detach while a hook of ours could still call into its DLL, and from  *)
(* then on its entry is there with no hook in it, so that its end can be   *)
(* confirmed.                                                              *)
ReleaseOrder ==
    [][/\ releaseStarted /\ ~stopped =>
             \A w \in DOMAIN acked' : w \in DOMAIN acked /\ acked'[w] = acked[w]
       /\ detaching' => /\ hooked' = {}
                        /\ ~stopped' => retained' /\ held' = {} /\ signaled']_vars

(* The session as its owner sees it. The abstract specification is         *)
(* SessionContract: a stopped session has left no hook and no module.      *)
phaseBar == IF stopped THEN "stopped"
            ELSE IF uncertain THEN "lost"
            ELSE IF attached THEN "live" ELSE "fresh"
residueBar == hooked # {} \/ module
Contract == INSTANCE SessionContract WITH phase <- phaseBar, residue <- residueBar
ImplementsContract == Contract!ContractSpec
=============================================================================
