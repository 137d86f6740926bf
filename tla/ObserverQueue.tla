------------------------------ MODULE ObserverQueue ------------------------------
(***************************************************************************)
(* The queue between the callbacks that Explorer makes into the observer   *)
(* and the coordinator that processes them. A callback takes a slot of the *)
(* queue when it begins and fills it when it is done, so that the          *)
(* coordinator takes events in the order in which they began; the first    *)
(* failure sets a cutoff, and nothing from there on counts. Every callback *)
(* that ends wakes the coordinator through an auto-reset event and, if     *)
(* that cannot be set, through a message to its thread.                    *)
(*                                                                         *)
(* The methods of the queue hold its mutex; they are operators on the      *)
(* queue, from which the callbacks and the coordinator build their steps.  *)
(* The counts of late and ignored events are only reported and left out.   *)
(***************************************************************************)
EXTENDS Integers, Sequences, SequencesExt

CONSTANTS
    MaxCallbacks,   \* bound: the callbacks that are admitted
    MaxFaults       \* bound: the calls of the system that fail

ASSUME BoundsAssumption == MaxCallbacks \in Nat /\ MaxFaults \in Nat

VARIABLES
    queue,      \* the ObserverCallbackQueue, its event and its messages
    faults      \* how many calls have failed

(* What a slot holds. An event is "direct" when the coordinator processes  *)
(* it at once and "structure" when it asks the UIA worker first.           *)
Kinds == {"direct", "structure"}
SlotStates == {"Pending", "Failure", "Ignored"} \cup Kinds
Envelope == [sequence : 1..MaxCallbacks, kind : Kinds]
Slot == [sequence : 1..MaxCallbacks, state : SlotStates]

Queue == [phase : {"Starting", "Running", "Stopping", "Failed"},
          slots : Seq(Slot),
          next : 1..MaxCallbacks + 1,       \* next_sequence_
          inFlight : 0..MaxCallbacks,
          cutoff : 0..MaxCallbacks + 1,     \* fatal_raw_sequence_, or 0
          wake : BOOLEAN,                   \* the wake event
          posted : BOOLEAN,                 \* the message to the coordinator
          deaf : BOOLEAN]                   \* history: neither could be sent

QueueInit ==
    /\ queue = [phase |-> "Starting", slots |-> <<>>, next |-> 1,
                inFlight |-> 0, cutoff |-> 0, wake |-> FALSE, posted |-> FALSE,
                deaf |-> FALSE]
    /\ faults = 0

(* n of the system's calls fail in this step.                              *)
Fault(n) == faults + n <= MaxFaults /\ faults' = faults + n
NoFault == UNCHANGED faults

-----------------------------------------------------------------------------
(* The methods.                                                            *)

Emergency(q) == q.cutoff # 0

RecordEmergency(q, sequence) ==
    [q EXCEPT !.cutoff = IF @ = 0 \/ sequence < @ THEN sequence ELSE @,
              !.phase = IF @ \in {"Starting", "Running"} THEN "Failed" ELSE @]

(* SetEvent, or failing that PostThreadMessage, or neither.                *)
Signals == {"set", "posted", "lost"}
Failing(signal) == CASE signal = "set" -> 0 [] signal = "posted" -> 1
                     [] signal = "lost" -> 2

(* Mutant: an event that cannot be set is taken for set.                   *)
SignalOnce(q, sequence, signal) ==
    IF signal = "set" THEN [q EXCEPT !.wake = TRUE]
                      ELSE RecordEmergency(q, sequence)

SignalWake(q, sequence, signal) ==
    CASE signal = "set" -> [q EXCEPT !.wake = TRUE]
      [] signal = "posted" ->
            [RecordEmergency(q, sequence) EXCEPT !.posted = TRUE]
      [] signal = "lost" ->
            [RecordEmergency(q, sequence) EXCEPT !.deaf = TRUE]

CutoffOrNext(q) == IF q.cutoff = 0 THEN q.next ELSE q.cutoff

ValidateStartingState(q) ==
    q.phase = "Starting" /\ q.slots = <<>> /\ q.inFlight = 0 /\ ~Emergency(q)

BeginRunning(q) == [q EXCEPT !.phase = "Running"]
EnsureStopping(q) == [q EXCEPT !.phase = "Stopping"]

(* A callback that comes too early is a failure of the observation.        *)
AdmitEarly(q, signal) ==
    SignalWake(RecordEmergency(q, q.next), q.next, signal)

Reserve(q) ==
    [q EXCEPT !.slots = Append(@, [sequence |-> q.next, state |-> "Pending"]),
              !.next = @ + 1,
              !.inFlight = @ + 1]

ReserveFails(q, signal) ==
    SignalWake(RecordEmergency(q, q.next), q.next, signal)

PendingSequences(q) ==
    {q.slots[i].sequence :
        i \in {j \in DOMAIN q.slots : q.slots[j].state = "Pending"}}

Fill(q, sequence, state) ==
    [q EXCEPT !.slots = [i \in DOMAIN @ |->
                            IF @[i].sequence = sequence
                            THEN [@[i] EXCEPT !.state = state] ELSE @[i]],
              !.inFlight = @ - 1]

Complete(q, sequence, kind, signal) ==
    SignalWake(Fill(q, sequence, kind), CutoffOrNext(q), signal)

CompleteIgnored(q, sequence, signal) ==
    SignalWake(Fill(q, sequence, "Ignored"), CutoffOrNext(q), signal)

CompleteFailure(q, sequence, signal) ==
    SignalWake(RecordEmergency(Fill(q, sequence, "Failure"), sequence),
               sequence, signal)

(* RecordCoordinatorFailure with and without an event that it is about.    *)
RecordCoordinatorFailure(q) == RecordEmergency(q, q.next)
RecordEventFailure(q, sequence) ==
    IF sequence < q.next THEN RecordEmergency(q, sequence)
                         ELSE RecordCoordinatorFailure(q)

(* Drain takes the slots in front of the first that is still pending; of   *)
(* these, the events before the cutoff go to the coordinator.              *)
Ready(q) ==
    LET pending == SelectInSeq(q.slots, LAMBDA slot : slot.state = "Pending")
    IN  IF pending = 0 THEN q.slots ELSE SubSeq(q.slots, 1, pending - 1)

BeforeCutoff(q, sequence) == ~Emergency(q) \/ sequence < q.cutoff

IsEvent(q, slot) == slot.state \in Kinds /\ BeforeCutoff(q, slot.sequence)

Drained(q) ==
    LET ready == Ready(q)
        candidate[n \in 0..Len(ready)] ==
            IF n = 0 THEN <<>>
            ELSE IF IsEvent(q, ready[n])
                 THEN Append(candidate[n - 1], [sequence |-> ready[n].sequence,
                                                kind |-> ready[n].state])
                 ELSE candidate[n - 1]
    IN  candidate[Len(ready)]

DrainedIgnored(q) ==
    {slot.sequence : slot \in {s \in ToSet(Ready(q)) :
        s.state = "Ignored" /\ BeforeCutoff(q, s.sequence)}}

(* A failure ahead of the cutoff would not be sound.                       *)
Unsound(q) == {slot.sequence : slot \in {s \in ToSet(Ready(q)) :
                  s.state = "Failure" /\ BeforeCutoff(q, s.sequence)}}

AfterDrain(q) ==
    [q EXCEPT !.slots = SubSeq(@, Len(Ready(q)) + 1, Len(@))]

DrainFails(q, signal) ==
    LET sequence == IF Unsound(q) = {} THEN q.next ELSE Min(Unsound(q))
    IN  SignalWake(RecordEmergency(q, sequence), sequence, signal)

IsQuiescent(q) == q.inFlight = 0 /\ q.slots = <<>>

-----------------------------------------------------------------------------
(* Callbacks.                                                              *)

(* Admit, the first thing a callback does, when it gives it no slot.       *)
AdmitRefuses ==
    \/ /\ queue.phase = "Running" /\ queue.next <= MaxCallbacks
       /\ \E signal \in Signals :
             /\ Fault(1 + Failing(signal))
             /\ queue' = ReserveFails(queue, signal)
    \/ /\ queue.phase = "Starting"
       /\ \E signal \in Signals :
             /\ Fault(Failing(signal))
             /\ queue' = AdmitEarly(queue, signal)

AdmitTakesSlot ==
    /\ queue.phase = "Running" /\ queue.next <= MaxCallbacks
    /\ queue' = Reserve(queue)
    /\ NoFault

Completed(q, sequence, state, signal) ==
    CASE state = "Failure" -> CompleteFailure(q, sequence, signal)
      [] state = "Ignored" -> CompleteIgnored(q, sequence, signal)
      [] OTHER -> Complete(q, sequence, state, signal)

(* What the arguments of a call come to.                                   *)
SinkOutcomes == {"direct", "Ignored", "Failure"}
SelectionOutcomes == {"direct", "Ignored", "Failure"}
StructureOutcomes == {"structure", "Ignored", "Failure"}

(* The sinks of the shell run on the coordinator's own thread, whenever it *)
(* waits for a call or pumps its messages: for the queue, in one step.     *)
SinkInvoke ==
    \/ AdmitRefuses
    \/ /\ queue.phase = "Running" /\ queue.next <= MaxCallbacks
       /\ \E signal \in Signals, state \in SinkOutcomes :
             /\ Fault(Failing(signal))
             /\ queue' = Completed(Reserve(queue), queue.next, state, signal)

(* The handlers of UIA run on threads of their own and ask Explorer about  *)
(* the sender before they know what to report.                             *)
HandlerBegins == AdmitRefuses \/ AdmitTakesSlot

HandlerEnds(outcomes) ==
    \E sequence \in PendingSequences(queue), signal \in Signals, state \in outcomes :
       /\ Fault(Failing(signal))
       /\ queue' = Completed(queue, sequence, state, signal)
HandleAutomationEvent == HandlerEnds(SelectionOutcomes)
HandleStructureChangedEvent == HandlerEnds(StructureOutcomes)
=============================================================================
