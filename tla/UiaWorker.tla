-------------------------------- MODULE UiaWorker --------------------------------
(***************************************************************************)
(* The thread that owns everything of UIA. The coordinator submits         *)
(* commands to it and is told of responses through a manual-reset event;   *)
(* it never has more than one command under way. A worker that is stopped  *)
(* answers what was submitted before, takes its handlers off and ends.     *)
(*                                                                         *)
(* The methods hold the worker's mutex and are operators on its state; the *)
(* worker's own thread moves in WorkerStep.                                *)
(***************************************************************************)
EXTENDS ObserverQueue, FiniteSets

CONSTANTS Targets   \* the windows that were there when the observer started

ASSUME TargetsAssumption == IsFiniteSet(Targets)

VARIABLES worker

Commands == {"AddTarget", "Reenumerate"}
HandlerKinds == {"selection", "structure"}
Handlers == Targets \X HandlerKinds
Command == [id : Nat, kind : Commands, target : Targets]
Response == [id : Nat, ok : BOOLEAN]
NoResponse == [id |-> 0, ok |-> FALSE]

(* working is the response that the thread has not handed over yet.        *)
Worker == [phase : {"Created", "Starting", "Running", "Stopping", "Joined"},
           next : Nat,                      \* next_command_id
           commands : Seq(Command),
           working : Response,
           responses : Seq(Response),
           terminal : Response,             \* terminal_response
           signaled : BOOLEAN,              \* the response event
           handlers : SUBSET Handlers,      \* what is registered with UIA
           rollback : {"ok", "contract", "transport"},
           cleanup : {"ok", "contract", "transport"}]

WorkerInit ==
    worker = [phase |-> "Created", next |-> 1, commands |-> <<>>,
              working |-> NoResponse, responses |-> <<>>,
              terminal |-> NoResponse, signaled |-> FALSE, handlers |-> {},
              rollback |-> "ok", cleanup |-> "contract"]

-----------------------------------------------------------------------------
(* What the coordinator calls.                                             *)

Start(w) == [w EXCEPT !.phase = "Starting"]
StartupComplete(w) == w.phase # "Starting"

MaySubmit(w) == w.phase = "Running"
Submit(w, kind, target) ==
    [w EXCEPT !.commands = Append(@, [id |-> w.next, kind |-> kind,
                                      target |-> target]),
              !.next = @ + 1]

(* Mutant: the commands of a worker that is stopping are dropped.          *)
BeginStoppingDrops(w) ==
    IF w.phase \in {"Starting", "Running"}
    THEN [w EXCEPT !.phase = "Stopping", !.commands = <<>>] ELSE w

(* Mutant: the worker is not told to stop.                                 *)
BeginStoppingForgets(w) == w

MayBeginStopping(w) == w.phase \notin {"Created", "Joined"}
BeginStopping(w) ==
    IF w.phase \in {"Starting", "Running"} THEN [w EXCEPT !.phase = "Stopping"]
                                          ELSE w

Answers(w) == w.responses # <<>> \/ w.terminal # NoResponse
NextAnswer(w) == IF w.responses # <<>> THEN Head(w.responses) ELSE w.terminal

(* Any answer will do for the command 0.                                   *)
MayConsume(w, id) == Answers(w) /\ id \in {0, NextAnswer(w).id}
LastAnswer(w) ==
    Len(w.responses) + (IF w.terminal # NoResponse THEN 1 ELSE 0) = 1
Consume(w) ==
    LET left == IF w.responses # <<>>
                THEN [w EXCEPT !.responses = Tail(@)]
                ELSE [w EXCEPT !.terminal = NoResponse]
    IN  [left EXCEPT !.signaled = ~LastAnswer(w)]

-----------------------------------------------------------------------------
(* The worker's thread.                                                    *)

Initialize ==
    /\ worker.phase = "Starting"
    /\ \/ NoFault /\ worker' = [worker EXCEPT !.phase = "Running"]
       \/ Fault(1) /\ worker' = [worker EXCEPT !.phase = "Joined",
                                               !.cleanup = "ok"]

HasTarget(w, t) == \E h \in w.handlers : h[1] = t

Answer(w, command, ok) ==
    [w EXCEPT !.commands = Tail(@), !.working = [id |-> command.id, ok |-> ok]]

(* Of several failures one of a call matters more than one of a contract.  *)
Unclean == {"contract", "transport"}

(* Mutant: the last outcome is taken for all of them.                      *)
MergedLast(first, second) == second

Merged(first, second) ==
    CASE "transport" \in {first, second} -> "transport"
      [] "contract" \in {first, second} -> "contract"
      [] OTHER -> "ok"

(* RemoveObserverUiaHandlerRegistrations, which goes on after a failure:   *)
(* what may be left of the handlers, and its status.                       *)
Removals(handlers) ==
    {[left |-> stuck, status |-> IF stuck = {} THEN "ok" ELSE origin] :
        stuck \in SUBSET handlers, origin \in Unclean}

(* The target's tab list is captured, the selection handler is added, the  *)
(* structure handler is added and the tabs are counted; what was added is  *)
(* removed again when a later step fails.                                  *)
AddTarget(command) ==
    LET both == {command.target} \X HandlerKinds
        selection == {<<command.target, "selection">>}
    IN  \/ /\ ~HasTarget(worker, command.target)
           /\ NoFault
           /\ worker' = [Answer(worker, command, TRUE) EXCEPT
                            !.handlers = @ \cup both]
        \/ \E added \in {{}, selection, both} : \E removal \in Removals(added) :
              /\ Fault(1 + Cardinality(removal.left))
              /\ worker' = [Answer(worker, command, FALSE) EXCEPT
                    !.handlers = @ \cup removal.left,
                    !.rollback = Merged(@, removal.status)]

Reenumerate(command) ==
    \/ /\ HasTarget(worker, command.target)
       /\ NoFault
       /\ worker' = Answer(worker, command, TRUE)
    \/ Fault(1) /\ worker' = Answer(worker, command, FALSE)

Process ==
    /\ worker.phase \in {"Running", "Stopping"}
    /\ worker.working = NoResponse /\ worker.commands # <<>>
    /\ LET command == Head(worker.commands)
       IN  IF command.kind = "AddTarget" THEN AddTarget(command)
                                         ELSE Reenumerate(command)

(* append_response and set_event. A response that cannot be stored is kept *)
(* as the terminal one; one that cannot be announced becomes a failure.    *)
Respond ==
    /\ worker.working # NoResponse
    /\ LET w == [worker EXCEPT !.working = NoResponse]
           response == worker.working
           failed == [response EXCEPT !.ok = FALSE]
       IN  \/ /\ NoFault
              /\ worker' = [w EXCEPT !.responses = Append(@, response),
                                     !.signaled = TRUE]
           \/ \E set \in BOOLEAN :
                 /\ Fault(IF set THEN 1 ELSE 2)
                 /\ worker' = [w EXCEPT !.terminal = failed,
                                        !.phase = "Stopping",
                                        !.signaled = @ \/ set]
           \/ /\ Fault(1)
              /\ worker' = [w EXCEPT !.responses = Append(@, failed),
                                     !.phase = "Stopping"]

(* The handlers of every target are removed; the failures of rollbacks     *)
(* count as well.                                                          *)
CleanupResources ==
    \E removal \in Removals(worker.handlers) :
       /\ Fault(Cardinality(removal.left))
       /\ worker' = [worker EXCEPT
             !.phase = "Joined", !.handlers = removal.left,
             !.cleanup = Merged(worker.rollback, removal.status)]

Finish == /\ worker.phase = "Stopping"
          /\ worker.working = NoResponse /\ worker.commands = <<>>
          /\ CleanupResources

WorkerThread == Initialize \/ Process \/ Respond \/ Finish
=============================================================================
