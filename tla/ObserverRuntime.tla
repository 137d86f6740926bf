----------------------------- MODULE ObserverRuntime -----------------------------
(***************************************************************************)
(* The observer: a coordinator that subscribes to the shell and, through   *)
(* the UIA worker, to the tab lists of the windows it finds, then records  *)
(* the events that the callbacks queue until its time is up or something   *)
(* fails, and takes everything down again.                                 *)
(*                                                                         *)
(* The coordinator is one thread. It blocks in its wait, in the start and  *)
(* the join of the worker, and in the wait for the worker's first answers. *)
(* What Explorer looks like is chosen anew at each capture; what a record  *)
(* says is left out.                                                       *)
(***************************************************************************)
EXTENDS EventReducer

VARIABLES
    loop,       \* the locals of RunObserverCoordinator
    runtime,    \* the ProductionObserverRuntime
    events,     \* the snapshot: the raw sequences recorded, in order
    ignored     \* the raw sequences that were ignored

log == <<events, ignored>>
vars == <<queue, faults, worker, shell, reducer, loop, runtime, log>>

Sequences == 1..MaxCallbacks

Loop == [pc : {"create", "shell", "verify", "tabs", "seed", "worker",
               "starting", "submit", "adding", "unwind", "begin", "drain",
               "process", "resume", "check", "wait", "pump", "respond",
               "stop", "cleanup", "done"},
         stopping : BOOLEAN,            \* in the shutdown
         looked : BOOLEAN,              \* and in its loop
         failed : BOOLEAN,              \* failures.has_runtime_failure
         backlog : Seq(Envelope),
         pending : 0..MaxCallbacks,     \* pendingEnvelope, 0 for none
         fatal : 0..MaxCallbacks,       \* processingFatalRawSequence
         timedOut : BOOLEAN]            \* the shutdown's deadline has passed

Runtime == [uiaStarted : BOOLEAN,
            added : SUBSET Targets,         \* uia_targets_
            awaiting : Nat,                 \* pending_command_id_, or 0
            origin : Unclean,               \* why the startup failed
            cleanupComplete : BOOLEAN,
            cleanupFailed : BOOLEAN,        \* the snapshot's cleanup_status
            unreported : BOOLEAN]           \* history: a rollback's failure
                                            \* was not coherent

Init ==
    /\ QueueInit /\ WorkerInit /\ ShellInit /\ ReducerInit
    /\ loop = [pc |-> "create", stopping |-> FALSE, looked |-> FALSE,
               failed |-> FALSE, backlog |-> <<>>, pending |-> 0, fatal |-> 0,
               timedOut |-> FALSE]
    /\ runtime = [uiaStarted |-> FALSE, added |-> {}, awaiting |-> 0,
                  origin |-> "contract", cleanupComplete |-> FALSE,
                  cleanupFailed |-> FALSE, unreported |-> FALSE]
    /\ events = <<>> /\ ignored = {}

At(pc) == loop.pc = pc
Goto(pc) == loop' = [loop EXCEPT !.pc = pc]

(* recordOperation of a failure, and where the coordinator goes on.        *)
FailAt(pc) == loop' = [loop EXCEPT !.pc = pc, !.failed = TRUE]

-----------------------------------------------------------------------------
(* Startup.                                                                *)

(* Before anything is subscribed the windows are enumerated and their list *)
(* is created.                                                             *)
CreateShell ==
    /\ At("create")
    /\ \/ /\ NoFault
          /\ shell' = [shell EXCEPT !.owned = TRUE]
          /\ Goto("shell") /\ UNCHANGED queue
       \/ /\ Fault(1)
          /\ queue' = RecordCoordinatorFailure(queue)
          /\ FailAt("begin") /\ UNCHANGED shell
    /\ UNCHANGED <<worker, runtime, reducer, log>>

(* What has been subscribed when the startup fails is unsubscribed.        *)
UndoShell(s, failed) ==
    \E outcome \in CleanupOutcomes(s) :
       /\ Fault(failed + outcome.failed)
       /\ shell' = outcome.left
       /\ runtime' = [runtime EXCEPT !.cleanupFailed = outcome.status # "ok"]
       /\ queue' = RecordCoordinatorFailure(EnsureStopping(queue))
       /\ FailAt("begin")

(* The list of windows is advised, then the browsers of a first capture.   *)
Advised(lifecycle, tabs) ==
    [shell EXCEPT !.lifecycle = lifecycle, !.connections = tabs]

StartShell ==
    /\ At("shell")
    /\ \/ \E tabs \in TabSets :
             /\ NoFault
             /\ shell' = Advised(TRUE, tabs)
             /\ Goto("verify")
             /\ UNCHANGED <<queue, runtime>>
       \/ UndoShell(Advised(FALSE, {}), 1)
       \/ \E tabs \in TabSets : UndoShell(Advised(TRUE, tabs), 1)
    /\ UNCHANGED <<worker, reducer, log>>

(* The second capture is the same as the first, and no callback has come.  *)
VerifyShell ==
    /\ At("verify")
    /\ \/ /\ ~Emergency(queue) /\ NoFault
          /\ Goto("tabs")
          /\ UNCHANGED <<queue, shell, runtime>>
       \/ UndoShell(shell, 0)
    /\ UNCHANGED <<worker, reducer, log>>

(* FailAfterShellStartup, up to the join of the worker.                    *)
FailStartup ==
    /\ \E origin \in Unclean : runtime' = [runtime EXCEPT !.origin = origin]
    /\ queue' = EnsureStopping(queue)
    /\ Goto("unwind")

(* The tabs of the baseline; the connections are the first subscriptions.  *)
InitializeTabs ==
    /\ At("tabs")
    /\ NoFault
    /\ \/ /\ shell' = [shell EXCEPT !.subscriptions = shell.connections]
          /\ Goto("seed")
          /\ UNCHANGED <<queue, runtime>>
       \/ FailStartup /\ UNCHANGED shell
    /\ UNCHANGED <<worker, reducer, log>>

(* CaptureLogicalState: one active view, none or several, or an error.     *)
Views == {"shown", "hidden", "unknown"}

(* Every window has to show one view.                                      *)
SeedBaseline ==
    /\ At("seed")
    /\ NoFault
    /\ \/ \E window \in Unseeded(reducer), view \in Views :
             IF view = "shown"
             THEN /\ reducer' = SeedWindow(reducer, window)
                  /\ UNCHANGED <<queue, loop, runtime>>
             ELSE FailStartup /\ UNCHANGED reducer
       \/ /\ Unseeded(reducer) = {}
          /\ Goto("worker")
          /\ UNCHANGED <<queue, runtime, reducer>>
    /\ UNCHANGED <<shell, worker, log>>

StartWorker ==
    /\ At("worker")
    /\ \/ /\ NoFault
          /\ worker' = Start(worker)
          /\ Goto("starting")
          /\ UNCHANGED <<queue, runtime>>
       \/ Fault(1) /\ FailStartup /\ UNCHANGED worker
    /\ UNCHANGED <<shell, reducer, log>>

WorkerStarted ==
    /\ At("starting") /\ StartupComplete(worker)
    /\ NoFault
    /\ IF worker.phase = "Running"
       THEN /\ runtime' = [runtime EXCEPT !.uiaStarted = TRUE]
            /\ Goto("submit") /\ UNCHANGED queue
       ELSE FailStartup
    /\ UNCHANGED <<shell, worker, reducer, log>>

(* The handlers of one window after the other are added; at the end the    *)
(* startup looks for a callback that came too early.                       *)
SubmitTarget ==
    /\ At("submit")
    /\ NoFault
    /\ IF Targets \ runtime.added # {}
       THEN LET target == CHOOSE t \in Targets \ runtime.added : TRUE
            IN  IF MaySubmit(worker)
                THEN /\ worker' = Submit(worker, "AddTarget", target)
                     /\ runtime' = [runtime EXCEPT !.added = @ \cup {target}]
                     /\ Goto("adding") /\ UNCHANGED queue
                ELSE FailStartup /\ UNCHANGED worker
       ELSE /\ UNCHANGED worker
            /\ IF Emergency(queue)
               THEN FailStartup
               ELSE Goto("begin") /\ UNCHANGED <<queue, runtime>>
    /\ UNCHANGED <<shell, reducer, log>>

TargetAdded ==
    /\ At("adding") /\ worker.signaled
    /\ LET id == worker.next - 1
       IN  \/ /\ NoFault
              /\ IF MayConsume(worker, id)
                 THEN /\ worker' = Consume(worker)
                      /\ IF NextAnswer(worker).ok
                         THEN Goto("submit") /\ UNCHANGED <<queue, runtime>>
                         ELSE FailStartup
                 ELSE FailStartup /\ UNCHANGED worker
           \/ /\ MayConsume(worker, id) /\ LastAnswer(worker)
              /\ Fault(1) /\ FailStartup /\ UNCHANGED worker
    /\ UNCHANGED <<shell, reducer, log>>

(* Five seconds without an answer.                                         *)
TargetTimeout ==
    /\ At("adding") /\ ~worker.signaled
    /\ NoFault
    /\ FailStartup
    /\ UNCHANGED <<shell, worker, reducer, log>>

(* BeginStopping of the worker, ahead of the join.                         *)
StopWorker ==
    /\ At("unwind") /\ runtime.uiaStarted
    /\ worker.phase \in {"Starting", "Running"}
    /\ worker' = BeginStopping(worker)
    /\ UNCHANGED <<queue, faults, shell, loop, runtime, reducer, log>>

Joined == runtime.uiaStarted => worker.phase = "Joined"
WorkerStatus == IF runtime.uiaStarted THEN worker.cleanup ELSE "ok"

(* A contract failure of the startup that comes with a transport failure   *)
(* of its rollback is not coherent: RunObserverCoordinator puts a failure  *)
(* of its own in its place, one without a rollback.                        *)
Coherent(origin, rollback) == origin = "transport" \/ rollback # "transport"

UnwindStartup ==
    /\ At("unwind") /\ Joined
    /\ \E outcome \in CleanupOutcomes(shell) :
          LET rollback == Merged(WorkerStatus, outcome.status)
              coherent == Coherent(runtime.origin, rollback)
          IN  /\ Fault(outcome.failed)
              /\ shell' = outcome.left
              /\ runtime' = [runtime EXCEPT
                    !.uiaStarted = FALSE,
                    !.cleanupComplete = rollback = "ok",
                    !.cleanupFailed = coherent /\ rollback # "ok",
                    !.unreported = ~coherent]
    /\ queue' = RecordCoordinatorFailure(queue)
    /\ FailAt("begin")
    /\ UNCHANGED <<worker, reducer, log>>

BeginObservation ==
    /\ At("begin")
    /\ NoFault
    /\ IF Emergency(queue)
       THEN FailAt("stop") /\ UNCHANGED queue
       ELSE Goto("drain") /\ queue' = BeginRunning(queue)
    /\ UNCHANGED <<worker, shell, runtime, reducer, log>>

-----------------------------------------------------------------------------
(* The loop, which the observation and the shutdown share.                 *)

DrainCallbacks ==
    /\ At("drain")
    /\ Unsound(queue) = {}
    /\ LET drained == Drained(queue)
           l == [loop EXCEPT !.pc = "process", !.failed = @ \/ Emergency(queue)]
       IN  \/ /\ NoFault
              /\ queue' = AfterDrain(queue)
              /\ loop' = IF loop.fatal # 0 THEN l
                         ELSE [l EXCEPT !.backlog = @ \o drained]
           \/ \E k \in DOMAIN drained :
                 /\ loop.fatal = 0
                 /\ Fault(1)
                 /\ queue' = RecordEventFailure(AfterDrain(queue),
                                                drained[k].sequence)
                 /\ loop' = [l EXCEPT
                       !.backlog = @ \o SubSeq(drained, 1, k - 1),
                       !.fatal = drained[k].sequence, !.failed = TRUE]
    /\ ignored' = ignored \cup DrainedIgnored(queue)
    /\ UNCHANGED <<worker, shell, runtime, reducer, events>>

DrainingFails ==
    /\ At("drain")
    /\ \E signal \in Signals :
          /\ Fault((IF Unsound(queue) = {} THEN 1 ELSE 0) + Failing(signal))
          /\ queue' = DrainFails(queue, signal)
    /\ FailAt("check")
    /\ UNCHANGED <<worker, shell, runtime, reducer, log>>

(* applyProcessingResult.                                                  *)
Record(sequence) == events' = Append(events, sequence) /\ UNCHANGED ignored
Ignore(sequence) == ignored' = ignored \cup {sequence} /\ UNCHANGED events

(* Mutant: the events behind one that failed are still processed.          *)
FailEventOnly(sequence, pc) ==
    /\ queue' = RecordEventFailure(queue, sequence)
    /\ loop' = [loop EXCEPT !.pc = pc, !.failed = TRUE, !.pending = 0,
                            !.backlog = IF @ = <<>> THEN @ ELSE Tail(@)]
    /\ UNCHANGED log

FailEvent(sequence, pc) ==
    /\ queue' = RecordEventFailure(queue, sequence)
    /\ loop' = [loop EXCEPT !.pc = pc, !.failed = TRUE, !.pending = 0,
                            !.fatal = sequence, !.backlog = <<>>]
    /\ UNCHANGED log

MayProcess ==
    /\ loop.pending = 0 /\ loop.backlog # <<>>
    /\ loop.fatal # 0 => Head(loop.backlog).sequence < loop.fatal

Rest == [loop EXCEPT !.backlog = Tail(@)]

(* ProcessEvent. An event is ignored when the capture does not add up,     *)
(* when its window is gone or its tab is not the active one; one of the    *)
(* list of windows also when there are no tabs to speak of.                *)
IgnoreEvent(event) ==
    /\ CaptureFails \/ Refreshed
    /\ Ignore(event.sequence)
    /\ loop' = Rest
    /\ UNCHANGED <<queue, worker, runtime, reducer>>

RecordLifecycle(event) ==
    /\ event.kind = "direct"
    /\ Refreshed
    /\ shell.subscriptions # {} \/ shell'.subscriptions # {}
    /\ Record(event.sequence)
    /\ loop' = Rest
    /\ UNCHANGED <<queue, worker, runtime, reducer>>

RecordRemap(event) ==
    /\ event.kind = "direct"
    /\ Refreshed
    /\ \E window \in Windows : MayBeginRemap(reducer, window)
    /\ reducer' = CompleteRemap(BeginRemap(reducer, event.sequence))
    /\ Record(event.sequence)
    /\ loop' = Rest
    /\ UNCHANGED <<queue, worker, runtime>>

(* The worker counts the tabs of the window again, and the event waits.    *)
AskWorker(event) ==
    /\ event.kind = "structure"
    /\ Refreshed
    /\ MaySubmit(worker) /\ runtime.awaiting = 0
    /\ \E target \in runtime.added :
          /\ MayBeginRemap(reducer, target)
          /\ worker' = Submit(worker, "Reenumerate", target)
    /\ reducer' = BeginRemap(reducer, event.sequence)
    /\ runtime' = [runtime EXCEPT !.awaiting = worker.next]
    /\ loop' = [Rest EXCEPT !.pending = event.sequence]
    /\ UNCHANGED <<queue, log>>

(* The refresh, the reducer, the capture of the active view, or the submit *)
(* to a worker that is stopping.                                           *)
EventFails(event) ==
    /\ \/ RefreshFails /\ UNCHANGED reducer
       \/ /\ Refreshed
          /\ \E window \in Windows :
                reducer' = IF MayBeginRemap(reducer, window)
                           THEN BeginRemap(reducer, event.sequence) ELSE reducer
    /\ FailEvent(event.sequence, loop.pc)
    /\ UNCHANGED <<worker, runtime>>

ProcessBacklog ==
    /\ loop.pc \in {"process", "resume"} /\ MayProcess
    /\ LET event == Head(loop.backlog)
       IN  \/ IgnoreEvent(event) \/ RecordLifecycle(event) \/ RecordRemap(event)
           \/ AskWorker(event) \/ EventFails(event)

BacklogDone ==
    /\ loop.pc \in {"process", "resume"} /\ ~MayProcess
    /\ Goto(IF At("process") THEN "check" ELSE "drain")
    /\ UNCHANGED <<queue, faults, worker, shell, runtime, reducer, log>>

(* Mutant: the shutdown looks at its queue only.                           *)
SettledQueue == IsQuiescent(queue)

Settled == IsQuiescent(queue) /\ loop.pending = 0 /\ loop.backlog = <<>>

Check ==
    /\ At("check")
    /\ loop' = IF loop.stopping
               THEN [loop EXCEPT !.looked = TRUE,
                        !.pc = CASE Settled \/ loop.timedOut -> "cleanup"
                                 [] ~loop.looked -> "drain"
                                 [] OTHER -> "wait"]
               ELSE [loop EXCEPT !.pc = IF loop.failed THEN "stop" ELSE "wait"]
    /\ UNCHANGED <<queue, faults, worker, shell, runtime, reducer, log>>

-----------------------------------------------------------------------------
(* WaitForObserverActivity: the deadline, the wake event, the response     *)
(* event, and a message, in this order.                                    *)

WaitDeadline ==
    /\ At("wait")
    /\ NoFault
    /\ IF loop.stopping
       THEN /\ queue' = RecordCoordinatorFailure(queue)
            /\ loop' = [loop EXCEPT !.pc = "cleanup", !.failed = TRUE,
                                    !.timedOut = TRUE]
       ELSE Goto("stop") /\ UNCHANGED queue
    /\ UNCHANGED <<worker, shell, runtime, reducer, log>>

WaitWake ==
    /\ At("wait") /\ queue.wake
    /\ NoFault
    /\ queue' = [queue EXCEPT !.wake = FALSE]
    /\ Goto("drain")
    /\ UNCHANGED <<worker, shell, runtime, reducer, log>>

WaitResponse ==
    /\ At("wait") /\ ~queue.wake /\ worker.signaled
    /\ Goto("respond")
    /\ UNCHANGED <<queue, faults, worker, shell, runtime, reducer, log>>

WaitMessage ==
    /\ At("wait") /\ ~queue.wake /\ ~worker.signaled
    /\ queue.posted \/ Subscribed(shell)
    /\ Goto("pump")
    /\ UNCHANGED <<queue, faults, worker, shell, runtime, reducer, log>>

WaitFails ==
    /\ At("wait")
    /\ Fault(1)
    /\ queue' = RecordCoordinatorFailure(queue)
    /\ FailAt(IF loop.stopping THEN "drain" ELSE "stop")
    /\ UNCHANGED <<worker, shell, runtime, reducer, log>>

(* All messages are dispatched; one that asks the thread to quit is a      *)
(* failure.                                                                *)
PumpMessages ==
    /\ At("pump")
    /\ \/ /\ NoFault
          /\ queue' = [queue EXCEPT !.posted = FALSE]
          /\ Goto("drain")
       \/ /\ Fault(1)
          /\ queue' = RecordCoordinatorFailure(queue)
          /\ FailAt("drain")
    /\ UNCHANGED <<worker, shell, runtime, reducer, log>>

(* ProcessResponse of the event that waits. The number of tabs the worker  *)
(* counted has to be the number the shell has now.                         *)
ResponseRecorded ==
    /\ At("respond") /\ loop.pending # 0
    /\ MayConsume(worker, runtime.awaiting) /\ NextAnswer(worker).ok
    /\ worker' = Consume(worker)
    /\ runtime' = [runtime EXCEPT !.awaiting = 0]
    /\ Refreshed
    /\ MayCompleteRemap(reducer)
    /\ reducer' = CompleteRemap(reducer)
    /\ Record(loop.pending)
    /\ loop' = [loop EXCEPT !.pc = "resume", !.pending = 0]
    /\ UNCHANGED queue

ResponseFails ==
    /\ At("respond") /\ loop.pending # 0
    /\ IF MayConsume(worker, runtime.awaiting)
       THEN \/ /\ worker' = Consume(worker)
               /\ runtime' = [runtime EXCEPT !.awaiting = 0]
               /\ IF NextAnswer(worker).ok THEN RefreshFails \/ Refreshed
                                           ELSE NoFault /\ UNCHANGED shell
            \/ /\ LastAnswer(worker)
               /\ Fault(1) /\ UNCHANGED <<worker, runtime, shell>>
       ELSE NoFault /\ UNCHANGED <<worker, runtime, shell>>
    /\ FailEvent(loop.pending, "drain")
    /\ UNCHANGED reducer

(* A response that nothing waits for is a failure and thrown away.         *)
ResponseSpurious ==
    /\ At("respond") /\ loop.pending = 0
    /\ \/ NoFault /\ worker' = (IF MayConsume(worker, 0) THEN Consume(worker)
                                                         ELSE worker)
       \/ /\ MayConsume(worker, 0) /\ LastAnswer(worker)
          /\ Fault(1) /\ UNCHANGED worker
    /\ queue' = RecordCoordinatorFailure(queue)
    /\ FailAt(IF loop.stopping THEN "drain" ELSE "stop")
    /\ UNCHANGED <<shell, runtime, reducer, log>>

HandleResponse == ResponseRecorded \/ ResponseFails \/ ResponseSpurious

-----------------------------------------------------------------------------
(* The end.                                                                *)

BeginStop ==
    /\ At("stop")
    /\ NoFault
    /\ LET refused == runtime.uiaStarted /\ ~MayBeginStopping(worker)
       IN  \E late \in BOOLEAN :
              /\ loop' = [loop EXCEPT !.pc = "drain", !.stopping = TRUE,
                             !.failed = @ \/ refused \/ late, !.timedOut = late]
              /\ queue' = IF refused \/ late
                          THEN RecordCoordinatorFailure(EnsureStopping(queue))
                          ELSE EnsureStopping(queue)
    /\ worker' = IF runtime.uiaStarted THEN BeginStopping(worker) ELSE worker
    /\ UNCHANGED <<shell, runtime, reducer, log>>

Cleanup ==
    /\ At("cleanup") /\ Joined
    /\ IF runtime.cleanupComplete
       THEN NoFault /\ UNCHANGED <<shell, runtime>>
       ELSE \E outcome \in CleanupOutcomes(shell) :
               /\ Fault(outcome.failed)
               /\ shell' = outcome.left
               /\ runtime' = [runtime EXCEPT
                     !.uiaStarted = FALSE,
                     !.cleanupFailed =
                        @ \/ Merged(WorkerStatus, outcome.status) # "ok"]
    /\ Goto("done")
    /\ UNCHANGED <<queue, worker, reducer, log>>

-----------------------------------------------------------------------------
Startup ==
    \/ CreateShell \/ StartShell \/ VerifyShell \/ InitializeTabs \/ SeedBaseline \/ StartWorker \/ WorkerStarted
    \/ SubmitTarget \/ TargetAdded \/ TargetTimeout \/ StopWorker \/ UnwindStartup
    \/ BeginObservation

Waits == WaitDeadline \/ WaitWake \/ WaitResponse \/ WaitMessage \/ WaitFails

Coordinator ==
    \/ Startup
    \/ DrainCallbacks \/ DrainingFails \/ ProcessBacklog \/ BacklogDone \/ Check
    \/ Waits \/ PumpMessages \/ HandleResponse
    \/ BeginStop \/ Cleanup

WorkerStep == WorkerThread /\ UNCHANGED <<queue, shell, loop, runtime, reducer, log>>

(* Where the coordinator's thread lets calls of the shell in.              *)
Pumping == {"verify", "tabs", "seed", "process", "resume", "pump", "respond", "cleanup"}

Callback ==
    /\ loop.pc # "done"
    /\ \/ loop.pc \in Pumping /\ Subscribed(shell) /\ SinkInvoke
       \/ worker.handlers # {} /\ HandlerBegins
       \/ HandleAutomationEvent
       \/ HandleStructureChangedEvent
    /\ UNCHANGED <<worker, shell, loop, runtime, reducer, log>>

Next == Coordinator \/ WorkerStep \/ Callback

(* Time passes, so that a wait that is begun again and again finds its     *)
(* deadline passed; the calls of UIA return. A callback need not.          *)
Fairness ==
    /\ WF_vars(Coordinator) /\ SF_vars(WaitDeadline)
    /\ WF_vars(WorkerStep)

Spec == Init /\ [][Next]_vars /\ Fairness

-----------------------------------------------------------------------------
(* Properties. Before are the sequences admitted ahead of the cutoff: the  *)
(* events that count.                                                      *)

Before == {n \in Sequences : n < queue.next /\ BeforeCutoff(queue, n)}
Handled == ToSet(events) \cup ignored
Waiting == {slot.sequence : slot \in {s \in ToSet(queue.slots) : s.state # "Failure"}}
           \cup {event.sequence : event \in ToSet(loop.backlog)}
           \cup {loop.pending}

(* EvaluateEventObservationGate passes nothing that failed.                *)
GateMayPass == ~loop.failed /\ ~runtime.cleanupFailed

(* Events are recorded in the order in which their callbacks began, on     *)
(* whatever threads they ran and ended, and none of those that came after  *)
(* the first failure are.                                                  *)
RecordedInOrder ==
    /\ \A i, j \in DOMAIN events : i < j => events[i] < events[j]
    /\ ToSet(events) \subseteq Before

(* No event that counts is dropped between the queue, the backlog and the  *)
(* answer that one waits for; when the shutdown ends ahead of its deadline *)
(* all of them are recorded or ignored; and an observation whose gate may  *)
(* pass has seen every callback that was ever admitted.                    *)
NothingSkipped ==
    /\ Before \subseteq Handled \cup Waiting
    /\ At("done") /\ ~loop.timedOut => Before \subseteq Handled
    /\ At("done") /\ GateMayPass =>
          /\ {n \in Sequences : n < queue.next} \subseteq Handled
          /\ queue.inFlight = 0 /\ worker.handlers = {} /\ ~Subscribed(shell)

(* When the coordinator goes to sleep, events that could be drained and    *)
(* failures that it has not seen are announced to it, by the wake event or *)
(* by a message; only when both could not be sent it may sleep on them.    *)
NeverSleepsOnWork ==
    At("wait") =>
        \/ queue.wake \/ queue.posted \/ queue.deaf
        \/ Ready(queue) = <<>> /\ (Emergency(queue) => loop.failed)

(* For the event that waits for the worker there is a command, a response  *)
(* under way or a response, also while the worker is being stopped; its    *)
(* remap is the one the reducer has begun; and a response that is there    *)
(* wakes the coordinator, unless the worker could not say so and stopped.  *)
OnTheWay(id) ==
    \/ \E i \in DOMAIN worker.commands : worker.commands[i].id = id
    \/ worker.working.id = id \/ worker.terminal.id = id
    \/ \E i \in DOMAIN worker.responses : worker.responses[i].id = id
AnswerOnTheWay ==
    /\ loop.pending # 0 =>
          /\ runtime.awaiting # 0 /\ OnTheWay(runtime.awaiting)
          /\ reducer.remap = loop.pending
    /\ At("wait") /\ Answers(worker) =>
          worker.signaled \/ worker.phase \in {"Stopping", "Joined"}

(* A refresh of the subscriptions is all or nothing: when one call fails   *)
(* everything is as it was, and when undoing it fails as well the state    *)
(* that is committed is that of the connections there really are.          *)
AllOrNothing ==
    [][runtime.uiaStarted /\ runtime'.uiaStarted =>
         /\ shell'.subscriptions = shell'.connections
         /\ loop'.fatal # loop.fatal /\ faults' = faults + 1 => shell' = shell]_vars

(* A cleanup that is reported to have succeeded has left no handler with   *)
(* UIA and no subscription with the shell. The exception is a startup      *)
(* whose own failure is of another kind than its rollback's.               *)
NothingLeftUnsaid ==
    At("done") /\ ~runtime.cleanupFailed /\ ~runtime.unreported =>
        worker.handlers = {} /\ ~Subscribed(shell)

(* The observation comes to its end, whatever fails, also when a callback  *)
(* never returns.                                                          *)
Finishes == <>At("done")
=============================================================================
