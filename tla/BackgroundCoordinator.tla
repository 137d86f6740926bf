-------------------------- MODULE BackgroundCoordinator --------------------------
(***************************************************************************)
(* RunBackgroundCoordinator: the Host's loop over snapshots of Explorer.   *)
(* It opens a session for every process that shows a window, brings it up  *)
(* to date, stops it when the process is no longer seen, and stops them    *)
(* all before it returns. A session is what SessionContract promises, and  *)
(* ExplorerSession implements; sessions are numbered in the order of their *)
(* creation.                                                               *)
(***************************************************************************)
EXTENDS Naturals, Sequences

CONSTANTS
    Pids,           \* process ids that Explorer uses, again and again
    MaxSessions     \* bound: sessions created in one run of the Host

ASSUME MaxSessionsAssumption == MaxSessions \in Nat

Sessions == 1..MaxSessions

(* What a snapshot says of a process that it lists, and of one it does not *)
Views == {"shown", "windowless", "unvalidated", "absent"}

VARIABLES
    location,       \* "waiting", "reconciling", "retiring", "stopping" or "returned"
    snapshot,       \* the view of each process
    todo,           \* processes of the snapshot that remain to be reconciled
    except,         \* exceptPid of stopAll, as a set
    result,         \* the exit code
    stopEvent,      \* the stop event is signaled
    pid,            \* the processes of the sessions, in order of creation
    open,           \* sessions in the map
    retained,       \* sessions given to retain_session
    failed,         \* sessions one of whose calls failed
    missed,         \* history: sessions whose process a snapshot did not list
    phase, residue  \* of every session, as in SessionContract

loopVars == <<location, snapshot, todo, except, result, stopEvent>>
mapVars == <<pid, open, retained, failed, missed>>
contractVars == <<phase, residue>>
coordinatorVars == <<loopVars, mapVars, contractVars>>

NoSnapshot == [p \in Pids |-> "absent"]

created == Len(pid)

CoordinatorInit ==
    /\ location = "waiting" /\ snapshot = NoSnapshot
    /\ todo = {} /\ except = {} /\ result = "none" /\ stopEvent = FALSE
    /\ pid = <<>> /\ open = {} /\ retained = {} /\ failed = {} /\ missed = {}
    /\ phase = [s \in Sessions |-> "unused"]
    /\ residue = [s \in Sessions |-> FALSE]

-----------------------------------------------------------------------------
(* What a call of a session does to it, and what happens behind its back.  *)

Becomes(s, ph, left) ==
    /\ phase' = [phase EXCEPT ![s] = ph]
    /\ residue' = [residue EXCEPT ![s] = left]

ReconcileSucceeds(s) ==
    /\ phase[s] \in {"fresh", "live"}
    /\ \E left \in BOOLEAN : Becomes(s, "live", left)

ReconcileFails(s) ==
    \/ phase[s] = "fresh" /\ UNCHANGED contractVars
    \/ phase[s] \in {"fresh", "live"} /\ \E left \in BOOLEAN : Becomes(s, "lost", left)
    \/ phase[s] = "live" /\ \E left \in BOOLEAN : Becomes(s, "live", left)
    \/ phase[s] \in {"lost", "stopped"} /\ UNCHANGED contractVars

(* The hooks come off and the module goes in the course of Stop.           *)
StopSucceeds(s) ==
    /\ phase[s] \in {"fresh", "live"}
    /\ Becomes(s, "stopped", FALSE)

StopFails(s) ==
    \/ phase[s] = "live"
       /\ \E left \in BOOLEAN, ph \in {"live", "lost"} : Becomes(s, ph, left)
    \/ phase[s] \in {"lost", "stopped"} /\ UNCHANGED contractVars

(* Explorer exits, and a later process gets its id.                        *)
ProcessEnds(p) ==
    /\ residue' = [s \in Sessions |->
                      residue[s] /\ (s <= created => pid[s] # p)]
    /\ UNCHANGED <<loopVars, mapVars, phase>>

SignalStop ==
    /\ stopEvent' = TRUE
    /\ UNCHANGED <<location, snapshot, todo, except, result, mapVars, contractVars>>

-----------------------------------------------------------------------------
(* next_snapshot                                                           *)

StopAll(excepted, code) ==
    /\ location' = "stopping" /\ except' = excepted /\ result' = code
    /\ snapshot' = NoSnapshot /\ todo' = {} /\ UNCHANGED stopEvent

(* The event is looked at before a snapshot is taken, in the same call.    *)
StopRequested ==
    /\ location = "waiting" /\ stopEvent
    /\ StopAll({}, "Pass")
    /\ UNCHANGED <<mapVars, contractVars>>

(* The sessions whose process is not in the snapshot at all.               *)
NotListed(views) == {s \in 1..created : views[pid[s]] = "absent"}

(* Mutant: a snapshot is preferred to the stop event.                      *)
SnapshotReceivedFirst(views) ==
    /\ location = "waiting"
    /\ location' = "reconciling" /\ snapshot' = views
    /\ todo' = {p \in Pids : views[p] \in {"shown", "windowless"}}
    /\ missed' = missed \cup NotListed(views)
    /\ UNCHANGED <<except, result, stopEvent, pid, open, retained, failed,
                   contractVars>>

SnapshotReceived(views) ==
    /\ location = "waiting" /\ ~stopEvent
    /\ location' = "reconciling" /\ snapshot' = views
    /\ todo' = {p \in Pids : views[p] \in {"shown", "windowless"}}
    /\ missed' = missed \cup NotListed(views)
    /\ UNCHANGED <<except, result, stopEvent, pid, open, retained, failed,
                   contractVars>>

(* The capture failed; or it lists a process twice, or an old sequence.    *)
SnapshotRefused ==
    /\ location = "waiting" /\ ~stopEvent
    /\ \E code \in {"Win32ComFailure", "ContractFailure"} : StopAll({}, code)
    /\ UNCHANGED <<mapVars, contractVars>>

-----------------------------------------------------------------------------
(* The processes of the snapshot, in its order, which can be any.          *)

SessionsOf(p) == {s \in open : pid[s] = p}

PassesOver(p) ==
    /\ location = "reconciling" /\ p \in todo
    /\ SessionsOf(p) = {} /\ snapshot[p] = "windowless"
    /\ todo' = todo \ {p}
    /\ UNCHANGED <<location, snapshot, except, result, stopEvent, mapVars, contractVars>>

Creates(p) ==
    /\ location = "reconciling" /\ p \in todo
    /\ SessionsOf(p) = {} /\ snapshot[p] = "shown"
    /\ created < MaxSessions
    /\ pid' = Append(pid, p)
    /\ open' = open \cup {created + 1}
    /\ Becomes(created + 1, "fresh", FALSE)
    /\ UNCHANGED <<loopVars, retained, failed, missed>>

CreationFails(p) ==
    /\ location = "reconciling" /\ p \in todo
    /\ SessionsOf(p) = {} /\ snapshot[p] = "shown"
    /\ StopAll({}, "Win32ComFailure")
    /\ UNCHANGED <<mapVars, contractVars>>

Reconciles(s) ==
    /\ location = "reconciling" /\ s \in open /\ pid[s] \in todo
    /\ ReconcileSucceeds(s)
    /\ todo' = todo \ {pid[s]}
    /\ UNCHANGED <<location, snapshot, except, result, stopEvent, mapVars>>

(* Mutant: the session that failed is stopped with the others.             *)
ReconciliationFailsLikeAny(s) ==
    /\ location = "reconciling" /\ s \in open /\ pid[s] \in todo
    /\ ReconcileFails(s)
    /\ failed' = failed \cup {s}
    /\ StopAll({}, "Win32ComFailure")
    /\ UNCHANGED <<pid, open, retained, missed>>

ReconciliationFails(s) ==
    /\ location = "reconciling" /\ s \in open /\ pid[s] \in todo
    /\ ReconcileFails(s)
    /\ failed' = failed \cup {s}
    /\ StopAll({pid[s]}, "Win32ComFailure")
    /\ UNCHANGED <<pid, open, retained, missed>>

AllReconciled ==
    /\ location = "reconciling" /\ todo = {}
    /\ location' = "retiring"
    /\ UNCHANGED <<snapshot, todo, except, result, stopEvent, mapVars, contractVars>>

(* std::bad_alloc while a snapshot is worked on.                           *)
OutOfMemory ==
    /\ location \in {"reconciling", "retiring"}
    /\ StopAll({}, "Win32ComFailure")
    /\ UNCHANGED <<mapVars, contractVars>>

-----------------------------------------------------------------------------
(* Sessions whose process is not in the snapshot, the youngest first.      *)

(* Mutant: a process that could not be validated counts as gone.           *)
AbsentOrUnvalidated ==
    {s \in open : snapshot[pid[s]] \in {"absent", "unvalidated"}}

Youngest(s, among) == s \in among /\ \A t \in among : t <= s

Absent == {s \in open : snapshot[pid[s]] = "absent"}

Retires(s) ==
    /\ location = "retiring" /\ Youngest(s, Absent)
    /\ StopSucceeds(s)
    /\ open' = open \ {s}
    /\ UNCHANGED <<loopVars, pid, retained, failed, missed>>

(* Mutant: the session that would not stop is destroyed.                   *)
RetirementFailsDropping(s) ==
    /\ location = "retiring" /\ Youngest(s, Absent)
    /\ StopFails(s)
    /\ failed' = failed \cup {s}
    /\ open' = open \ {s}
    /\ StopAll({}, "Win32ComFailure")
    /\ UNCHANGED <<pid, retained, missed>>

RetirementFails(s) ==
    /\ location = "retiring" /\ Youngest(s, Absent)
    /\ StopFails(s)
    /\ failed' = failed \cup {s}
    /\ open' = open \ {s} /\ retained' = retained \cup {s}
    /\ StopAll({}, "Win32ComFailure")
    /\ UNCHANGED <<pid, missed>>

AllRetired ==
    /\ location = "retiring" /\ Absent = {}
    /\ location' = "waiting" /\ snapshot' = NoSnapshot
    /\ UNCHANGED <<todo, except, result, stopEvent, mapVars, contractVars>>

-----------------------------------------------------------------------------
(* stopAll                                                                 *)

RetainsExcepted(s) ==
    /\ location = "stopping" /\ Youngest(s, open)
    /\ pid[s] \in except
    /\ open' = open \ {s} /\ retained' = retained \cup {s}
    /\ UNCHANGED <<loopVars, pid, failed, missed, contractVars>>

StopsOne(s) ==
    /\ location = "stopping" /\ Youngest(s, open)
    /\ pid[s] \notin except
    /\ StopSucceeds(s)
    /\ open' = open \ {s}
    /\ UNCHANGED <<loopVars, pid, retained, failed, missed>>

(* Mutant: stopAll forgets that a session failed.                          *)
StopOneFailsPassing(s) ==
    /\ location = "stopping" /\ Youngest(s, open)
    /\ pid[s] \notin except
    /\ StopFails(s)
    /\ failed' = failed \cup {s}
    /\ open' = open \ {s} /\ retained' = retained \cup {s}
    /\ UNCHANGED <<loopVars, pid, missed>>

(* What stopAll returns is the exit code of an ordinary stop only.         *)
StopOneFails(s) ==
    /\ location = "stopping" /\ Youngest(s, open)
    /\ pid[s] \notin except
    /\ StopFails(s)
    /\ failed' = failed \cup {s}
    /\ open' = open \ {s} /\ retained' = retained \cup {s}
    /\ result' = IF result = "Pass" THEN "Win32ComFailure" ELSE result
    /\ UNCHANGED <<location, snapshot, todo, except, stopEvent, pid, missed>>

Returns ==
    /\ location = "stopping" /\ open = {}
    /\ location' = "returned"
    /\ UNCHANGED <<snapshot, todo, except, result, stopEvent, mapVars, contractVars>>

-----------------------------------------------------------------------------
CoordinatorStep ==
    \/ StopRequested \/ SnapshotRefused
    \/ \E views \in [Pids -> Views] : SnapshotReceived(views)
    \/ \E p \in Pids : PassesOver(p) \/ Creates(p) \/ CreationFails(p)
    \/ \E s \in Sessions :
          \/ Reconciles(s) \/ ReconciliationFails(s)
          \/ Retires(s) \/ RetirementFails(s)
          \/ RetainsExcepted(s) \/ StopsOne(s) \/ StopOneFails(s)
    \/ AllReconciled \/ OutOfMemory \/ AllRetired \/ Returns

CoordinatorNext ==
    \/ CoordinatorStep \/ SignalStop \/ \E p \in Pids : ProcessEnds(p)

(* Every call of the loop is bounded by a timeout, so it goes on.          *)
CoordinatorSpec ==
    CoordinatorInit /\ [][CoordinatorNext]_coordinatorVars
    /\ WF_coordinatorVars(CoordinatorStep)

-----------------------------------------------------------------------------
LoopTypeOK ==
    /\ location \in {"waiting", "reconciling", "retiring", "stopping", "returned"}
    /\ snapshot \in [Pids -> Views] /\ todo \subseteq Pids /\ except \subseteq Pids
    /\ result \in {"none", "Pass", "Win32ComFailure", "ContractFailure"}
    /\ stopEvent \in BOOLEAN
    /\ pid \in Seq(Pids) /\ created <= MaxSessions
    /\ open \subseteq 1..created /\ retained \subseteq 1..created
    /\ failed \subseteq 1..created /\ missed \subseteq 1..created

ContractTypeOK ==
    /\ phase \in [Sessions -> {"unused", "fresh", "live", "lost", "stopped"}]
    /\ residue \in [Sessions -> BOOLEAN]

(* Every variable has its type; sessions are numbered without a gap.       *)
CoordinatorTypeOK == LoopTypeOK /\ ContractTypeOK

(* A session is destroyed only when it has left nothing in its process:    *)
(* one with a hook or the module of ours in Explorer is in the map or has  *)
(* been retained, whatever failed and in whatever order.                   *)
NothingDropped == {s \in Sessions : residue[s]} \subseteq open \cup retained

(* No process has two sessions, which would hook its threads twice.        *)
OneSessionPerProcess == \A s, t \in open : pid[s] = pid[t] => s = t

(* After a session fails it gets no other call; the loop never waits for a *)
(* snapshot with such a session in its map.                                *)
FailedIsLeftAlone ==
    \A s \in failed \cap open : location = "stopping" /\ pid[s] \in except

(* Pass is returned only when every session has stopped.                   *)
PassIsClean ==
    location = "returned" /\ result = "Pass" =>
        /\ retained = {}
        /\ \A s \in Sessions : phase[s] \in {"unused", "stopped"}

(* Whenever the loop waits, a process that every snapshot has listed since *)
(* its session was created still has that session, which is live, also if  *)
(* it could not be validated or had no window; and the session of one that *)
(* was missed even once has been stopped and has left nothing, also if a   *)
(* process with its id is back by now.                                     *)
SeenIsServed ==
    location = "waiting" =>
        /\ open = (1..created) \ missed
        /\ \A s \in open : phase[s] = "live"
        /\ \A s \in missed : phase[s] = "stopped" /\ ~residue[s]

(* A signaled stop event is answered: the loop returns.                    *)
StopAnswered == stopEvent ~> location = "returned"
=============================================================================
