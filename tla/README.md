# WinExInfo: a verification development in TLA+

WinExInfo injects a DLL into the running Explorer, which adds a status pane to
every Explorer window. A Host process watches Explorer, hooks its UI threads and
tells the DLL, over one named pipe per Explorer process, which windows and tabs
there are and what their panes are to show. At the end the Host takes everything
back: hooks, subclasses, panes, and finally the DLL itself, while Explorer goes
on. What is hard about this program is that it lives in a process it does not
own. Window handles are reused, windows and threads end at any moment, callbacks
run while their resources are being taken away, every call may fail half way,
and an error at the wrong place leaves code or hooks behind in Explorer.

The modules here follow the code under `src/src`. A definition in a module
carries the name of the function, flag or field it models, where TLA+ allows it;
`PROJECT.json` names the lines of each.

## 1. The system

    Host  (WinExInfo.exe)                          Explorer process, with our DLL
    ---------------------------------              ------------------------------
    observer: shell, UIA and Win32  --snapshot-->  (windows, tabs, UI threads)
       | tab identity (generations)
       v
    RunBackgroundCoordinator
       | one session per process
       v
    ExplorerSession --injector--> hooks on threads --> hook entry --> callbacks
       |                                                   |
       +---------- named pipe, one request at a time --> RuntimeWorker
                                                           | SendMessageTimeout
                                                           v
                                                  ProcessRuntime: 64 window slots,
                                                  each with tab subclasses, a pane
                                                  and its refresh worker

### Inventory

For each part: its state; its operations; what is hard about it; what makes it
correct. The last column of the table in section 2 says how far it is modelled.

**Status pane refresh** (`hook/runtime.cpp`, `hook/hook_runtime.h`). State: the
two atomic bits of the ingress, the coordinator's claims (worker active,
dirty, message dispatched, application pending), an auto-reset event shared by
both, a queue of reflow messages. Operations: signal, consume, capture, publish,
apply, complete, stop, on three threads. Hard: two protocols share one event;
Stop comes at any point. Correct: one message at most, no lost wake, no spinning,
nothing touches the pane after Stop, every layout change arrives.

**Window slot** (`hook/process_runtime.cpp`, `HookCallbackGate`). State: two
epochs, two rundown words, a lifecycle, flags of the slot. Operations: leases
without a lock, creation, three ways of retirement, reaping, finalization. Hard:
the ABA of a reused slot; three claimants of one lifecycle; waits that end with
a timeout. Correct: a lease pins its tenant, nobody cleans next to a callback,
counts stay exact, a failure keeps the DLL loaded.

**Process runtime, control protocol** (`hook/process_runtime.cpp`, RuntimeWorker).
State: the pending record and its token, the retention flag, the slots. Operations:
attach, pane text, update and removal through SendMessageTimeout, requested removals,
RemoveAll, cleanup proof, finalization. Hard: a handler that outlives the wait for it; windows that
close between any two steps. Correct: one slot per window, a truthful
acknowledgement, no unload with a pane or a hook left.

**Tab subclass set** (`hook/tab_subclass_set.cpp`). State: the installed and the
authoritative tab set, the generations seen, two failure flags. Operations:
Apply with reconciliation and rollback, RemoveAll, the notification that a tab is
gone. Hard: each of a row of calls may fail, and so may the undoing. Correct: no
subclass it has forgotten; a set that says it is sound is exact; a tab identity
once retired does not return.

**Thread hook injector** (`injection/thread_hook_injector.cpp`). State: one
retained entry per process with a lease per thread, the release flags, a
HookReleased event. Operations: attach, ensure a lease, release, confirm the
target gone. Hard: partial failures of SetWindowsHookEx and UnhookWindowsHookEx,
retries, threads that end. Correct: no hook without a lease; the event means that
no hook is left; no new hook after it.

**Explorer session** (`host/explorer_session.cpp`). State: flags (attached,
uncertain, stopped, release and detach complete), the mirror of the windows, a
request counter. Operations: Reconcile and Stop. Hard: a sequence of exchanges
of which one fails; a Stop that is retried. Correct: the mirror is exact or the
session says it is uncertain; every hooked thread stays held, and hooks go before detach.

**Background coordinator** (`host/background_coordinator.cpp`). State: the map of
sessions, the retained ones, the exit code. Operations: snapshot, reconcile, retire,
stop all. Hard: one failing process among many; processes that disappear. Correct: no
session with residue is dropped, none is called after it failed, Pass means clean.

**Tab identity** (`probe/tab_identity.cpp`, the tracker in
`host/background_coordinator.cpp`). State: generations per handle, the previous
captures. Operations: capture and reconcile. Hard: reused handles, captures that
see Explorer at two moments. Correct: a generation names one tab; the DLL accepts
what is published.

**Observer queue and loop** (`probe/observer_runtime.cpp`). State: phases, slots
of pending callbacks, a fatal cutoff, a wake event. Operations: admit, complete,
fail, drain, the coordinator loop. Hard: completions out of order, failures of the
wake itself, shutdown with callbacks under way. Correct: events are recorded in order
of admission and none past the cutoff; the loop does not sleep on work; shutdown ends.

**UIA observer worker and production runtime** (`probe/uia_observer_worker.cpp`,
`probe/observer_production_runtime.cpp`). State: a command queue, a response
queue, a stop handshake. Operations: submit, consume, stop, join; process an
event, process a response, start-up and cleanup. Hard: a response that comes
just after its wait has ended; a stop between wait and command. Correct: for every
event that waits there is an answer under way; no handler is left; the worker ends.

**Shell subscriptions and event reducer** (`probe/observer_runtime.cpp`,
`probe/event_observer.cpp`). State: the subscriptions and the mapped tabs.
Operations: reconcile with rollback, seed, begin and complete a remap. Hard: a call of a
transaction fails, and so does its undoing. Correct: all or nothing; a cleanup that
says it succeeded has left no connection.

**Hook entry and export** (`hook/hook_entry.cpp`, `hook/hook_export.cpp`). State:
the gate of the process and the module reference. Operation: a hook callback; the
unload. Hard: code that runs after the gate was left.

**Pipe protocol and named pipe** (`ipc/`), **status pane and layout**
(`hook/status_pane.cpp`, `hook/explorer_layout.cpp`), **probes** and **reports**
(`probe/`), **command line and main** (`host/`): encoding, geometry, readers of
Explorer, output. They keep little or no state between calls.

The list of hazards, with the line at which each bites and the properties that
would catch it, is in `PROJECT.json`.

## 2. Modules

| Module | Models | Depends on |
| --- | --- | --- |
| `StatusPaneRefresh`, `StatusPaneRefreshProofs` | the refresh pipeline of one pane | |
| `WindowSlot`, `WindowSlotProofs`, `MCWindowSlot` | one slot, its gates and its owner | |
| `ProcessRuntime`, `ProcessRuntimeProofs` | the worker, the control messages and all slots of one process | |
| `TabSubclassSet`, `TabSubclassSetProofs`, `MCTabs` | the tab subclasses of one window | |
| `ThreadHookInjector` | hooks and leases of one process | |
| `ExplorerSession`, `ExplorerSessionProofs`, `MCSession` | the session with one process; the proofs of the injector, then those of the session | extends the injector |
| `SessionContract` | what a session promises (abstract) | implemented by `ExplorerSession` |
| `BackgroundCoordinator`, `BackgroundCoordinatorProofs` | the loop over all processes | its sessions follow `SessionContract` |
| `TabIdentity`, `TabIdentityProofs`, `MCTabIdentity` | captures, generations, and the DLL's acceptance of them | |
| `ObserverQueue` | the callback queue, its wake and its cutoff | |
| `UiaWorker` | the UIA thread with its commands, responses and stop | extends the queue |
| `ShellSubscriptions` | the transactions on the shell's connections | extends the worker |
| `EventReducer` | which windows are known and which remap is under way | extends the subscriptions |
| `ObserverRuntime`, `ObserverRuntimeProofs`, `MCObserver` | the coordinator loop over all of them, start to end | extends the reducer |

The injector is checked inside the session, which calls it in the orders the Host really
uses, and proved by itself for any order of calls; the proofs of the session build on these.

### How state and actions correspond to the code

*StatusPaneRefresh.* `enabled` and `pending` are the two atomics of
`HookRuntimeRefreshIngress`; `stopped`, `active`, `dirty`, `dispatch`, `applying`,
`retryUsed`, `result` the members of `StatusPaneRefreshCoordinator`, each of whose
methods holds one lock and is one action. A program counter per thread (`wpc` for
`RefreshWorker`, `upc` for the UI thread, `spc` for a `SignalEvent` call nested in it,
`kpc` for `StopWindowWorker`) puts every system call between two actions. A layout is
its version number. The auto-reset event is a bit, so two calls of `SetEvent` merge.

*WindowSlot.* One action is one atomic operation. A gate is one word (closed bit and
count) with the arithmetic of the code modulo `2 * Limit`. Threads read an epoch,
enter the gate, and read the epoch again. The owner is the UI thread within a control
message or the pipe worker, which the code never lets run at once except through a
handler that outlives its wait; that case belongs to `ProcessRuntime`.

*ProcessRuntime.* The attach is one action on the UI thread of the first window, for each
of its outcomes; it may leave a runtime without a worker, and a worker that cannot connect
leaves a window. The worker walks through its request loop and its ending (`worker.pc`);
`DispatchProcessTabSetUpdate` is the actions from `Reads` to `Returned`. Each window has
a UI thread with a location (`ui`), whose handler is the actions from `Receives` to
`Completes`. `posted` holds the messages no thread has received, `sent` what the call of
`SendMessageTimeout` knows, so a handler can outlive its sender. `pending`, `retention`
and the fields of a slot (`life` is `lifecycle`, `admitted` says whether the admission epoch
is not 0) have the code's meaning; `pane` is where the pane of the slot is: shown,
sheltered (moved out of a window that goes), or lost with its window. A wait for callbacks
to drain succeeds or runs out; `WindowSlot` looks inside it. The Host is reduced to what
its session may send: one request at a time, texts only to windows that were updated,
release before detach, nothing after a failure. A text is written by the worker itself,
to the first slot that has the window's handle, and then the pane is shown or hidden
(`ShowReturns`), by a call that waits for the UI thread of the pane.
Explorer opens and closes windows, and reuses their handles, at any moment.

*TabSubclassSet.* One Win32 call is one action. `pc` walks through the phases of
Reconcile and Rollback. Tabs open, move, close and reuse handles between any two
calls where Explorer could run. The order of tabs is left out.

*ThreadHookInjector.* An operation is one action per outcome, because the injector
holds its mutex for the whole call. `hooked` is what Windows knows, `held` what the
Host believes; threads end without telling it.

*ExplorerSession.* An operation is a sequence of steps (`pc`, `todo`, `now`): one
per injector call or pipe exchange. An exchange that fails may have been carried
out. `acked` and `module` are the process.

*BackgroundCoordinator.* One call of a session is one action; a session follows
`SessionContract`, so the two levels meet at that module: `ExplorerSession` is
shown to implement what the coordinator relies on.

*TabIdentity.* A capture is two actions, as the code looks at the window tree and at
the shell's list one after the other; Explorer moves in between.

*ObserverQueue.* The methods of `ObserverCallbackQueue` hold its mutex and are operators on
one record. A slot is taken when a callback begins (`SinkInvoke` for the shell, which runs on
the coordinator's thread, `HandlerBegins` for UIA) and filled when it ends, in any order. The
wake is `wake` (the event), `posted` (the message) or `deaf` (neither could be sent); `cutoff`
is `fatal_raw_sequence_`, and `Emergency` says that one is set.

*UiaWorker.* `WorkerThread` is the thread: it takes a command, works, hands its response
over, and answers what is left when it is told to stop. Between the work and the response
the coordinator moves. `terminal` is the response that could not be stored in the queue.

*ShellSubscriptions.* A reconciliation runs on one thread that nobody else observes, so it
is one step; its outcomes are every set of calls that may fail, in the transaction
(`added` and `removed` are what was done before it) and in its undoing (`lost`, `stuck`).

*EventReducer.* A window is seeded or not, a remap is open or not. `Strangers` are windows
that are opened after the start: the code never seeds them, so their events fail.

*ObserverRuntime.* `loop` holds the locals of `RunObserverCoordinator`, with a program
counter at every place where it waits, pumps messages or calls a component; `runtime` the
members of `ProductionObserverRuntime`. Callbacks run while the coordinator is at a place
that lets them in. What Explorer looks like is chosen anew at each capture. A call that
fails spends one of `MaxFaults`.

## 3. What the runs check

Every configuration states its bounds and why it may stop. "pass" runs find no
error; "violation" runs exhibit the findings of section 6.

| Run | Instance | Shows |
| --- | --- | --- |
| `refresh` | four layout versions, all failures | at most one message (`OneReflowMessage`); no claimed ingress without a wake (`IngressNotLost`); nothing after Stop (`StopIsFinal`); the worker comes to rest (`NoBusyLoop`) and exits (`StopTerminates`); every layout arrives unless wakes merged (`RefreshNotLostUnlessMerged`) |
| `refresh_lost` | two versions | a merged wake loses a refresh (finding 1) |
| `slot_safety` | two tenants, three threads, all failures | leases pin their tenant (`LeaseKeepsTenant`), cleanup is alone, gates and `active_count_` exact, failed slots are not reused (`FailsClosed`), finalized means empty |
| `slot_partial_create` | three tenants | a creation that failed late breaks the gate (finding 2) |
| `process` | two windows, two slots, two generations, two control messages, all failures | one slot and one pane per window (`OnePanePerWindow`); a record in use does not change (`PendingStable`); the acknowledgement of a detach is true (`AckTruthful`); no unload with a hook, a pane or a handler left (`UnloadIsQuiet`); every window of the session has a slot that takes callbacks (`MirrorServed`); the worker returns unless a UI thread hangs in the `ShowWindow` of its pane (`WorkerReturns`) |
| `process_closing` | the same, three messages, no failure | closing one window ends the session (finding 4) |
| `tab_subclasses` | three handles, three generations | no forgotten subclass, safe means exact, retired identities stay retired |
| `session` | two windows, two threads, two texts, six requests | the mirror is exact (`MirrorExact`), every hook is held (`EveryHookHeld`), the event is truthful (`SignaledMeansUnhooked`), release comes before detach and no update after it (`ReleaseOrder`), no hook is set after it (`NoHookAfterRelease`), and the session implements its contract (`ImplementsContract`) |
| `tab_identity` | two windows, tabs, browsers, three generations | a generation names one tab; the DLL accepts every update |
| `two_tabs` | the same | two new tabs get equal generations (finding 3) |
| `coordinator` | three processes, three sessions | no session with residue dropped, none called after a failure, Pass means clean; whenever the loop waits, the map holds exactly the sessions whose process no snapshot has missed, each of them live (`SeenIsServed`); the stop event is answered |
| `observer` | three tabs, two windows, two callbacks, two faults | events are recorded in order and none past the cutoff (`RecordedInOrder`); none that counts is dropped, and a gate that may pass has seen all (`NothingSkipped`); no sleep on work (`NeverSleepsOnWork`) or on an answer (`AnswerOnTheWay`); a refresh of the subscriptions is all or nothing (`AllOrNothing`); a good cleanup has left nothing (`NothingLeftUnsaid`); the observation ends (`Finishes`) |

Why the bounds are enough. Two tenants make every interleaving of an old lease
with a reused slot; three were checked as well and show nothing new for the passing
properties. Three threads are the UI thread and two others that race with it and
with one another. Four layout versions put a change at each stage of the one
before. Two windows on one or two threads are the smallest session in which a
hook is shared or not, and in which one update of several fails. Three handles
of tabs let one be kept, one added and one removed in the same update. Three
sessions put the failing one first, in the middle and last in the order of
creation. Two windows fill two slots and need a third when one is
replaced; two messages leave the handler of the first behind the second or behind
RemoveAll, and one generation more per handle lets a reused handle meet its old slot.
Two callbacks are the fewest that complete in another order than they began, fail on one
side of an event or the other, and leave one event waiting behind another; two faults
let an operation fail and then its undoing, or both ways of waking the loop; a tab that is
dragged to the other window is the one case in which two tabs have one browser. Model
values that the code treats alike are symmetric, except where a liveness property is
checked.

The type invariants are not checked by runs of their own: those of the modules with proofs
are proved, the others document their variables and hold on these instances as well. Each
inductive invariant of section 5 was checked by TLC on the instance above before its proof.

## 4. Fairness

*StatusPaneRefresh* (`FairSpec`): weak fairness of the refresh worker, the UI
thread, the signalling callback nested in it and the stopping thread. Each is a
Windows thread that runs when it can, and the UI thread dispatches messages. There is
no fairness for Explorer (it need not change its layout), for StopBegins (a window
need not close) or for the expiry of a wait.

*BackgroundCoordinator* (`CoordinatorSpec`): weak fairness of the loop's own step. Calls
of sessions return, because every wait in them has a timeout, on the Host's side of the
pipe. That the stop event is tested before a snapshot is taken is what makes `StopAnswered`
hold, not fairness.

*ProcessRuntime* (`FairSpec`): weak fairness of the worker alone. A UI thread belongs to
Explorer and may hang, so it has no fairness, and `WorkerReturns` has to hold without it.
Waits for events and messages of the worker have a timeout, and a response fits the buffer of
the pipe. Its call of `ShowWindow` on a pane has none: as long as the pane is there that step
needs its UI thread (`NeedsUi`) and is left out of the fairness. `WorkerReturns` names it as
the one exception; without the exception TLC finds the worker waiting there for ever.

*ObserverRuntime* (`Spec`): weak fairness of the coordinator and of the UIA worker, which
are the observer's own threads and whose calls return; strong fairness of the passing of a
deadline while the coordinator waits, for it may be woken again and again before it looks
at the clock. There is none for callbacks: `Finishes` has to hold with one that never returns.

The other specifications state safety only.

## 5. What is proved

For every value of the constants, by TLAPS:

*StatusPaneRefresh.* `TypeOK`, `OneReflowMessage`, `IngressNotLost` and `StopIsFinal`
are invariants. The inductive invariant is their conjunction with `StopOrder`, which
ties the coordinator's `stopped_` to the location of the stopping thread: without it
nothing excludes a state in which the ingress is enabled and the coordinator stopped
at once. Assumption: `MaxLayout` is a positive natural number.

*ThreadHookInjector.* `InjectorTypeOK`, `EveryHookHeld` and `SignaledMeansUnhooked`
are invariants and `NoHookAfterRelease` an action property. `SignaledMeansUnhooked` is
not inductive: a signaled event with a lease that holds the dead handle of an ended
thread would allow the next step to lie. The invariant `InjectorInvariant` adds that an
entry that is not retained holds nothing, and that the event excludes every held handle,
dead ones included. Assumption: `MaxLeases` is a positive natural number; the set of
threads is arbitrary.

*BackgroundCoordinator.* `CoordinatorTypeOK`, `OneSessionPerProcess`,
`FailedIsLeftAlone`, `NothingDropped`, `PassIsClean` and `SeenIsServed` are invariants.
`Accounted` says of every session ever created that it is in the map, retained, or stopped
without residue; `Outcome` says what the exit code of the loop means on the way to it. Both
are needed: `PassIsClean` speaks of sessions that left the map long ago. `Kept` carries
`SeenIsServed` through a round of the loop: which sessions the snapshot at hand has missed,
and that one that is not live yet has its process still to be reconciled, which rests on
`OneSessionPerProcess`; `missed` is a history variable that only snapshots extend.
Assumption: `MaxSessions` is a natural number; the set of processes is arbitrary.

*WindowSlot.* `TypeOK`, `LeaseKeepsTenant`, `CleanupAloneUnlessPartial`, `GatesExact` and
`ActiveCountExact` are invariants and `FailsClosed` an action property. None of them is
inductive: a lease is sound only because the epochs are 0 or the tenant's (`EpochInv`), the
gate is closed where the owner waits for it to drain (`CallbackInv`, `StorageInv`), and
the lifecycle says which of three claimants may clean (`LifecycleInv`, `LeaseInv`). The
reuse of a slot is the hard case, for a thread that read an old epoch may enter the gate of
the new tenant: it reads the epoch again, and epochs only grow. Assumptions: the set of
threads is finite and contains the UI thread, and a gate can count them all; the number
of tenants is any natural number.

*ExplorerSession.* `TypeOK`, `MirrorExact`, the three properties of the injector and
`ReleaseOrder` hold of a session, for any windows, threads and texts. In the middle of a
reconciliation the mirror is not exact: `MirrorInv` says of each window whether it has been
brought to the candidate, is being brought there, or still agrees with the old snapshot.
`ReleaseInv` ties the flags that survive a failed Stop to the injector's event, so that a
Stop that is retried does not detach with a hook in place. `SessionKeepsContract` is the
refinement: under `phaseBar` and its companions every step of the session is a step of
`SessionContract` or leaves it alone. With `BackgroundCoordinator`, whose sessions follow that
contract, the two levels are connected by proof. Assumptions: the bounds are natural numbers,
and the names for no tab and no window are not a tab's or a window's.

*ProcessRuntime.* `ProcessTypeOK`, `OnePanePerWindow`, `AckTruthful`, `UnloadIsQuiet` and
`MirrorServed` are invariants and `PendingStable` an action property, for any windows, slots,
generations and control messages. The difficulty is the orphan: a handler whose sender gave up
waiting and which goes on with the pending record beside a worker that may be removing the
same windows. `ControlInv` says that there is at most one handler, that the record is its own,
and that an orphan has made the session `Hopeless`: the Host lost it before it released the
hooks, so HookReleased is never signaled and neither the acknowledgement nor the unload
comes. `RetainedInv` gives for every other failure its evidence, a slot that cannot be reaped,
which is why the worker unloads correctly without looking at `retention_required_`.
`OnceInv` follows a handler from its search for the window to the creation of a slot;
`ServedInv` says why a window takes no callbacks when it does not: closed, about to be
removed, or in a failure that retains the runtime. Assumptions: the first window is a
window, and there is a slot and a generation. The fairness of `FairSpec` is not used.

*TabSubclassSet.* `TypeOK`, `NoUntrackedCallback`, `SafeMeansExact` and `RetiredStaysRetired`
are invariants. That a rollback ends where Apply began would be an induction over the list
of mutations; `ListInv` and `InstalledInv` say it tab by tab instead. A tab is in the list
not at all, once, or twice and then removed before it was added, so the list tells what is
installed of it now, and undoing the last mutation leaves a state of the same kind. `RetiredInv`
adds that what is retired is older than the latest generation of its handle, or that
generation and no longer authoritative. Assumption: `MaxGen` is a positive natural number.

*TabIdentity.* `TypeOK` and `GenerationsNameTabs` are invariants and `RuntimeAccepts` is an
action property. The invariant says that a tab of the last capture has the latest
generation of its handle, that no name is newer than that, and that the DLL holds the tabs
of the last capture and no generation that was not given. Assumption: the same.

*ObserverRuntime.* `TypeOK`, `RecordedInOrder`, `NothingSkipped`, `NeverSleepsOnWork`,
`AnswerOnTheWay` and `NothingLeftUnsaid` are invariants and `AllOrNothing` an action property,
for the queue, the worker, the subscriptions, the reducer and the loop together, from the
startup to the end. None is inductive alone, and `ObserverInvariant` has a part for each thing
they lean on.
- `LineInv` follows the events. A sequence number goes from a slot (in the order of admission,
  `SlotsInv`) to the backlog, to the event that waits, to the records (`OrderInv`), always ahead
  of the slots that are left and of the cutoff (`SentInv`), and every number before the cutoff is
  at one of these places (`CoverInv`). The hard point is a failure that comes late: a callback,
  the drain or a processed event may lower the cutoff, and must not lower it below what was sent
  on. `SlotsInv` therefore has a failed slot behind the cutoff, and `SentInv` has the event that
  failed behind everything sent and ahead of every slot. Three lemmas carry the argument:
  `LineLowers` (a cutoff that is lowered no further than what was sent), `LineTakes` (a drain that
  moves a prefix of the slots) and `LineRecords` (the head of the line is recorded).
- `WorkerInv` says that the worker has one command at most, in one of four places, and `AwaitInv`
  that nothing is in any of them when nobody waits: so the answer that comes is the one waited for.
- `SleepInv` states at three places of the loop what `NeverSleepsOnWork` states at the wait alone,
  since callbacks fill slots between the last drain and the wait.
- `StartInv`, `ShellInv`, `CleanInv` and `StopInv` say what is subscribed, running and admitted at
  each place of the startup and of the shutdown. A startup that fails admits no event, because the
  queue never ran; this is why the drain after it finds nothing.

That a drain takes the ready slots in order is an induction, done on the length of the prefix by
choosing the first number at which it would fail. Assumptions: `MaxCallbacks` and
`MaxFaults` are natural numbers, `Tabs` and `Targets` are finite sets; strangers and the browsers
of the tabs are arbitrary. The fairness of `Spec` is not used.

Only model-checked, and why. The liveness properties `WorkerReturns`, `StopAnswered`, `NoBusyLoop`,
`StopTerminates`, `RefreshNotLostUnlessMerged` and `Finishes`: the prover does not do fairness.
Nothing else: every invariant and every action property of a passing run is a theorem.

## 6. Findings

1. *A refresh is lost for good* (`refresh_lost`). `RefreshWorker` tells a wake of the
   coordinator from a wake of the ingress by the ingress bit alone. When both have set
   the auto-reset event before it waits, it takes the wake for a signal, finds
   `worker_active_` set, and leaves the capture to a worker that is itself.
2. *A gate left open* (`slot_partial_create`). When a window cannot be activated its slot
   is reaped with a callback gate that was never closed. A thread that stalled in
   between can later take a count away from another window.
3. *Two new tabs, one generation* (`two_tabs`). Generations count per handle, so the
   tabs that are new in a window all get 1; the protocol refuses such an update.
4. *Closing a window ends the session* (`process_closing`). WM_DESTROY shelters the pane,
   and the next dispatch cleans and reaps the slot, so the removal that the session sends
   for the closed window finds nothing, or goes to a handle that no longer exists. Either
   way the answer is an error, the session becomes uncertain and the Host exits. The plan
   of the addendum removes absent windows by an acknowledged operation, and the lifecycle
   script expects its result to be 0.

What `UnloadIsQuiet` rests on deserves a remark. The worker never looks at
`retention_required_` before it unloads; what keeps the DLL loaded after a timed-out
message is that the Host gives the session up and never signals HookReleased. The
property holds for the composition of the two, and its mutant releases a lost session; the
proof makes the argument explicit (`Hopeless` and `RetainedInv`).
Likewise `OnePanePerWindow` speaks of panes only while requests are served: a handler that
outlives its wait may create a window after RemoveAllProcessWindows has passed its slot.

The following was noticed while modelling and is kept in the models as the code has it. No
document promises otherwise, or none precisely enough to be refuted, so there is no run; the
first item alone contradicts the plans, and the run `process` covers it by the exception in
its property.

- A pane's text is sent with a timeout of 5 s (`runtime.cpp:347`), but the `ShowWindow` after it
  (`runtime.cpp:356`) waits for the UI thread of the pane without one. A thread that takes the
  text and then hangs keeps the worker: it reads no request, does not notice that the Host has
  gone and unloads nothing, until the thread answers or the pane is destroyed. The plans of
  2026-07-12 bound every wait by 5000 ms.
- A worker of the DLL that cannot connect to the pipe, or deliver the attach result, just
  returns: the pane it came with stays until Explorer closes the window.
- A window opened during an observation is never seeded in the event reducer. Its first
  NavigateComplete2 fails the observation, and the branch of `ProcessEvent` that would add the
  window to the UIA worker is not reached by any event.
- When undoing a removal and undoing an addition of subscriptions both fail, two connections
  can have one canonical identity; the cleanup then refuses the state and unadvises nothing.
  It says so: `NothingLeftUnsaid` holds.
- A startup that fails for a reason of one kind while its rollback fails for another keeps only
  the first: `runtime.unreported` marks that case, the exception in `NothingLeftUnsaid`.
- After a startup of the shell that failed and was rolled back, `owner_thread_id` is 0, and the
  cleanup at the end reports a failure of the contract that there was not.
- A capture that does not agree with the event is ignored in `ProcessEvent` and fatal in
  `ProcessResponse`. The number of tabs that UIA counted is compared with a later capture.
- A worker whose response event cannot be set stops itself; the coordinator learns of it when
  its deadline has passed.
- The callback queue is a local of the function that runs the observation. It is destroyed with
  a UIA callback in flight if the shutdown runs into its deadline.

## 7. Plan

The runs cover the components that keep state, and every safety property of a passing run is a
theorem. What could follow: the gate of `hook_entry.cpp` with the
module reference that a callback takes and gives back, at the grain of `WindowSlot`; and memory
exhaustion in the lists of the coordinator.

## 8. What is not modelled

*Hook entry and export.* The dispatch of a hook message to attach, control and destroy is the
guard of the actions of `ProcessRuntime`. What a callback executes after it has left the gate,
and the module reference it takes and gives back, are instructions below its grain.

*Explorer controller* (Gate C): the single-window predecessor of the session, used by the gate
scripts. The injector it drives is proved for any order of calls.

*Hook platform, pipe protocol, named pipe.* Wrappers, encoders and blocking reads without state
of their own. Their failures are choices of the models that use them; of the encoders only the
rule about equal generations matters to another component, and `TabIdentity` has it.

*Status pane and layout.* Creating, placing and removing a pane is one step of `ProcessRuntime`
that succeeds, fails or leaves a residue. Geometry is arithmetic over rectangles.

*Probes, runner, reports, command line.* Sequential readers of Explorer and writers of text.

Inside the modelled parts: memory exhaustion inside `stopAll` and `retain_session` of the
coordinator; the text of a pane that does not match its window; the reuse of a thread id by a
new UI thread, which the injector takes for the ended one; in the observer the contents of
records, the counts that are only reported, the command `RemoveTarget`, which nothing sends,
and callbacks after the loop has ended; the wording of reports and journals.
