----------------------------- MODULE ProcessRuntime -----------------------------
(***************************************************************************)
(* The runtime of the DLL inside one Explorer process, with all its slots, *)
(* as the Host drives it. RuntimeWorker reads requests from the pipe and   *)
(* hands each to the UI thread of the window it is about, with a token and *)
(* SendMessageTimeout; the UI threads create, update and retire windows,   *)
(* and lose them when Explorer closes them. When the Host asks to detach,  *)
(* or its pipe breaks, the worker removes every window and unloads the DLL *)
(* unless something is left behind.                                        *)
(*                                                                         *)
(* Every window has its UI thread. How a slot is drained of callbacks is   *)
(* the subject of WindowSlot; here a wait for them succeeds or runs out.   *)
(***************************************************************************)
EXTENDS Integers

CONSTANTS
    Windows,    \* top-level window handles of the process
    First,      \* the one the DLL was attached through
    NoWindow,   \* no window
    MaxSlots,   \* kMaximumRuntimeWindows
    MaxGen,     \* bound: generations of a handle
    MaxToken,   \* the last control token
    MayFail     \* whether calls fail, waits run out and the Host gives up

ASSUME RuntimeAssumption ==
    /\ First \in Windows /\ NoWindow \notin Windows
    /\ MaxSlots \in Nat \ {0} /\ MaxGen \in Nat \ {0} /\ MaxToken \in Nat
    /\ MayFail \in BOOLEAN

VARIABLES
    live,           \* Explorer: the windows that exist
    closed,         \* history: windows closed since the Host last named them
    slots,          \* slots_, occupied_, removed_ and admission_epoch_
    nextOrder,      \* next_creation_sequence_
    retention,      \* retention_required_
    pending,        \* pending_
    nextToken,      \* next_token_
    posted,         \* control messages that no UI thread has received
    sent,           \* what SendMessageTimeout knows of its message
    ui,             \* where each UI thread is, and at which slot
    gateClosed,     \* g_callback_gate accepts no callback any more
    worker,         \* RuntimeWorker: its location and its locals
    request,        \* the request in the pipe
    host,           \* the session's side of the pipe
    mirror,         \* the session's windows_: the generation of each, or 0
    latest,         \* the last generation the Host gave to a handle
    hooked,         \* the hooks of the process are in place
    hookReleased,   \* the HookReleased event
    acked           \* the Host was told that the process is detached

explorer == <<live, closed>>
registry == <<slots, nextOrder, retention>>
control == <<pending, nextToken, posted, sent>>
hostVars == <<host, mirror, latest, hooked, hookReleased, acked>>
vars == <<live, closed, slots, nextOrder, retention, pending, nextToken,
          posted, sent, ui, gateClosed, worker, request, host, mirror, latest,
          hooked, hookReleased, acked>>

Slots == 1..MaxSlots
NoRequest == [kind |-> "none", win |-> NoWindow, gen |-> 0]
Free == [win |-> NoWindow, gen |-> 0, order |-> 0, life |-> "active",
         occupied |-> FALSE, removed |-> FALSE, admitted |-> FALSE,
         pane |-> "none"]
Idle == [pc |-> "idle", slot |-> 0]

(* The hook has called BeginHookRuntimeAttach on the thread of the first   *)
(* window.                                                                 *)
Init ==
    /\ live = {First} /\ closed = {}
    /\ slots = [s \in Slots |-> Free]
    /\ nextOrder = 0 /\ retention = FALSE
    /\ pending = [token |-> 0, kind |-> "update", win |-> NoWindow,
                  gen |-> 0, completed |-> FALSE, ok |-> FALSE]
    /\ nextToken = 0 /\ posted = {} /\ sent = "none"
    /\ ui = [[w \in Windows |-> Idle] EXCEPT ![First].pc = "attaching"]
    /\ gateClosed = FALSE
    /\ worker = [pc |-> "attaching", slot |-> 0, failed |-> FALSE, detach |-> FALSE]
    /\ request = NoRequest
    /\ host = "attaching" /\ acked = FALSE
    /\ mirror = [w \in Windows |-> 0] /\ latest = [w \in Windows |-> 0]
    /\ hooked = TRUE /\ hookReleased = FALSE

Occupied == {s \in Slots : slots[s].occupied}
Removed == {s \in Slots : slots[s].removed}

(* The slot of S that was filled last.                                     *)
Youngest(s, S) == s \in S /\ \A t \in S : slots[t].order <= slots[s].order

-----------------------------------------------------------------------------
(* The Host. Its session holds one request in the pipe at a time.          *)

Asks(r) ==
    /\ request' = r
    /\ UNCHANGED <<live, registry, control, ui, gateClosed, worker, mirror,
                   hooked, hookReleased, acked>>

(* A window the Host has lost sight of for one capture comes back with the *)
(* next generation of its handle.                                          *)
HostUpdates(w) ==
    /\ host = "serving" /\ w \in live
    /\ \E g \in {mirror[w], latest[w] + 1} \cap 1..MaxGen :
          /\ latest' = [latest EXCEPT ![w] = g]
          /\ Asks([kind |-> "update", win |-> w, gen |-> g])
    /\ host' = "awaiting" /\ closed' = closed \ {w}

(* The session takes an empty list of windows too.                         *)
HostRemoves(w) ==
    /\ host = "serving" /\ mirror[w] # 0
    /\ Asks([kind |-> "remove", win |-> w, gen |-> mirror[w]])
    /\ host' = "awaiting" /\ UNCHANGED <<latest, closed>>

(* A pane's text goes only to a window whose update was answered.          *)
HostTexts(w) ==
    /\ host = "serving" /\ mirror[w] # 0
    /\ Asks([kind |-> "text", win |-> w, gen |-> mirror[w]])
    /\ host' = "awaiting" /\ UNCHANGED <<latest, closed>>

(* Mutant: a session that lost its process is stopped like any other.      *)
HostReleasesLost ==
    /\ host \in {"serving", "lost"}
    /\ host' = IF host = "lost" THEN "lost" ELSE "released"
    /\ hooked' = FALSE /\ hookReleased' = TRUE
    /\ UNCHANGED <<explorer, registry, control, ui, gateClosed, worker,
                   request, mirror, latest, acked>>

(* Mutant: the event is set before the hooks are off.                      *)
HostReleasesEarly ==
    /\ host = "serving"
    /\ host' = "released" /\ hookReleased' = TRUE
    /\ UNCHANGED <<explorer, registry, control, ui, gateClosed, worker,
                   request, mirror, latest, hooked, acked>>

HostReleases ==
    /\ host = "serving"
    /\ host' = "released" /\ hooked' = FALSE /\ hookReleased' = TRUE
    /\ UNCHANGED <<explorer, registry, control, ui, gateClosed, worker,
                   request, mirror, latest, acked>>

HostDetaches ==
    /\ host = "released"
    /\ Asks([NoRequest EXCEPT !.kind = "detach"])
    /\ host' = "detaching" /\ UNCHANGED <<latest, closed>>

(* The worker is in its request loop, or on the way to it.                 *)
Serving == worker.pc \in {"attaching", "connecting", "reading", "showing",
                          "requested", "reaping", "checking", "sending",
                          "waiting"}

(* The exchange runs out of time, the pipe breaks, or the Host process     *)
(* ends and its hooks with it.                                             *)
HostLoses ==
    /\ host \notin {"lost", "detached"}
    /\ \/ MayFail /\ hooked' \in {hooked, FALSE}
       \/ ~Serving /\ ~worker.detach /\ UNCHANGED hooked
    /\ host' = "lost"
    /\ UNCHANGED <<explorer, registry, control, ui, gateClosed, worker,
                   request, mirror, latest, hookReleased, acked>>

HostStep ==
    \/ \E w \in Windows : HostUpdates(w) \/ HostRemoves(w) \/ HostTexts(w)
    \/ HostReleases \/ HostDetaches \/ HostLoses

-----------------------------------------------------------------------------
(* The registry.                                                           *)

(* ReapRemovedProcessWindows frees the removed slots up to the first one   *)
(* that must be kept, or has a lease out when the wait ends.               *)
NoneStuck == MaxSlots + 1
Reap(stuck) ==
    /\ stuck \in Removed \cup {NoneStuck}
    /\ \A s \in Removed : s < stuck => slots[s].life = "cleaned"
    /\ stuck \in Removed => MayFail \/ slots[stuck].life # "cleaned"
    /\ slots' = [s \in Slots |->
                   IF s \in Removed /\ s < stuck
                   THEN [Free EXCEPT !.admitted = slots[s].admitted]
                   ELSE slots[s]]
    /\ retention' = (retention \/ (stuck \in Removed
                                   /\ slots[stuck].life # "cleaned"))
    /\ UNCHANGED nextOrder

(* The pane is taken off, unless Windows has destroyed it.                 *)
CanClean(s, ok) == IF ok THEN slots[s].pane # "lost"
                         ELSE MayFail \/ slots[s].pane = "lost"

(* A slot after its cleanup, which takes it out of the registry.           *)
Cleaned(s, ok) ==
    [slots[s] EXCEPT !.life = IF ok THEN "cleaned" ELSE "failed",
                     !.occupied = FALSE, !.removed = TRUE,
                     !.pane = IF ok THEN "none" ELSE @]

-----------------------------------------------------------------------------
(* The attach, on the UI thread of the first window, and the worker's      *)
(* connection to the Host.                                                 *)

Goes(pc) == worker' = [worker EXCEPT !.pc = pc]

(* The window a failed or finished attach leaves in the first slot, with   *)
(* the provisional generation 0.                                           *)
Initial == [Free EXCEPT !.win = First, !.order = 1, !.occupied = TRUE,
                        !.pane = "shown"]

AttachDone == /\ ui[First].pc = "attaching"
              /\ ui' = [ui EXCEPT ![First] = Idle]
              /\ UNCHANGED <<explorer, control, gateClosed, request, hostVars>>

AttachBegins ==
    /\ AttachDone /\ Goes("connecting")
    /\ slots' = [slots EXCEPT ![1] = [Initial EXCEPT !.admitted = TRUE]]
    /\ nextOrder' = 1 /\ UNCHANGED retention

(* Everything was taken back, and the runtime with it.                     *)
AttachFails ==
    /\ MayFail /\ AttachDone /\ Goes("absent")
    /\ UNCHANGED registry

(* Nothing was created, or what was could not be taken back: the runtime   *)
(* stays, without a worker.                                                *)
AttachFailsResidue ==
    /\ MayFail /\ AttachDone /\ Goes("retained")
    /\ \/ UNCHANGED registry
       \/ /\ slots' = [slots EXCEPT ![1] = Initial]
          /\ nextOrder' = 1 /\ UNCHANGED retention
       \/ /\ slots' = [slots EXCEPT ![1] =
                          [Initial EXCEPT !.life = "failed", !.occupied = FALSE,
                                          !.removed = TRUE]]
          /\ nextOrder' = 1 /\ retention' = TRUE

(* The Host gets the attach result. A worker that cannot deliver it just   *)
(* returns, and the window stays.                                          *)
Connects ==
    /\ worker.pc = "connecting"
    /\ \/ host = "attaching" /\ host' = "serving" /\ Goes("reading")
       \/ /\ MayFail \/ host # "attaching"
          /\ Goes("retained") /\ UNCHANGED host
    /\ UNCHANGED <<explorer, registry, control, ui, gateClosed, request, mirror,
                   latest, hooked, hookReleased, acked>>

-----------------------------------------------------------------------------
(* RuntimeWorker: reading, and dispatching a request.                      *)

(* The response is written; a Host that is gone does not get it.           *)
Answers(ok) ==
    /\ worker' = [worker EXCEPT !.pc = "reading", !.slot = 0, !.failed = FALSE]
    /\ request' = NoRequest
    /\ \/ host # "awaiting" /\ UNCHANGED <<host, mirror>>
       \/ host = "awaiting" /\ ~ok /\ host' = "lost" /\ UNCHANGED mirror
       \/ /\ host = "awaiting" /\ ok /\ host' = "serving"
          /\ mirror' = [mirror EXCEPT ![request.win] =
                          IF request.kind = "remove" THEN 0 ELSE request.gen]
    /\ UNCHANGED <<latest, hooked, hookReleased, acked>>

(* A failed update ends the request loop, a failed removal is answered.    *)
DispatchFails ==
    IF request.kind = "update"
    THEN /\ worker' = [worker EXCEPT !.pc = "removing", !.failed = FALSE]
         /\ UNCHANGED <<request, hostVars>>
    ELSE Answers(FALSE)

(* DispatchProcessTabSetUpdate, DispatchProcessWindowRemovalByIdentity: a  *)
(* removal is looked up by its identity in the slots that still have their *)
(* resources.                                                              *)
Named(s) == /\ s \in Occupied \cup Removed
            /\ slots[s].win = request.win /\ slots[s].gen = request.gen

Reads ==
    /\ worker.pc = "reading" /\ request.kind \in {"update", "remove"}
    /\ IF retention \/ (request.kind = "remove" /\ ~\E s \in Slots : Named(s))
       THEN DispatchFails
       ELSE Goes("requested") /\ UNCHANGED <<request, hostVars>>
    /\ UNCHANGED <<explorer, registry, control, ui, gateClosed>>

(* ApplyRuntimePaneText takes the first slot that has its resources and    *)
(* the window's handle, a removed one too, and refuses when that is not    *)
(* the tenant or has no pane. Nobody asks about retention.                 *)
Texted(s) ==
    /\ s \in Occupied \cup Removed /\ slots[s].win = request.win
    /\ \A t \in Occupied \cup Removed : slots[t].win = request.win => s <= t
    /\ slots[s].gen = request.gen /\ slots[s].pane \in {"shown", "sheltered"}

(* The text is sent with a timeout.                                        *)
ReadsText ==
    /\ worker.pc = "reading" /\ request.kind = "text"
    /\ \/ /\ MayFail \/ ~\E s \in Slots : Texted(s)
          /\ Answers(FALSE)
       \/ /\ \E s \in Slots :
                /\ Texted(s)
                /\ worker' = [worker EXCEPT !.pc = "showing", !.slot = s]
          /\ UNCHANGED <<request, hostVars>>
    /\ UNCHANGED <<explorer, registry, control, ui, gateClosed>>

PaneLost == slots[worker.slot].pane = "lost"

(* Then the pane is shown or hidden. ShowWindow waits for the thread that  *)
(* owns the pane, without a timeout; nobody looks at what it returns.      *)
ShowReturns ==
    /\ worker.pc = "showing"
    /\ PaneLost \/ ui[slots[worker.slot].win].pc = "idle"
    /\ Answers(TRUE)
    /\ UNCHANGED <<explorer, registry, control, ui, gateClosed>>

ReadsDetach ==
    /\ worker.pc = "reading" /\ request.kind = "detach"
    /\ worker' = [worker EXCEPT !.pc = "removing", !.detach = TRUE]
    /\ UNCHANGED <<explorer, registry, control, ui, gateClosed, request,
                   hostVars>>

(* ReadFrame fails: the Host's end of the pipe is closed.                  *)
ReadFails ==
    /\ worker.pc = "reading" /\ host = "lost"
    /\ Goes("removing")
    /\ UNCHANGED <<explorer, registry, control, ui, gateClosed, request,
                   hostVars>>

Requested == {s \in Occupied : slots[s].life = "requested"}

(* ProcessRequestedWindowRemovals, one window.                             *)
RemovesRequested ==
    /\ worker.pc = "requested"
    /\ \E s \in Requested, ok \in BOOLEAN :
          /\ Youngest(s, Requested) /\ CanClean(s, ok)
          /\ slots' = [slots EXCEPT ![s] = Cleaned(s, ok)]
          /\ retention' = (retention \/ ~ok)
          /\ worker' = [worker EXCEPT !.failed = @ \/ ~ok]
    /\ UNCHANGED <<explorer, nextOrder, control, ui, gateClosed, request,
                   hostVars>>

RequestedDone ==
    /\ worker.pc = "requested" /\ Requested = {}
    /\ IF worker.failed THEN DispatchFails
                        ELSE Goes("reaping") /\ UNCHANGED <<request, hostVars>>
    /\ UNCHANGED <<explorer, registry, control, ui, gateClosed>>

(* The reaper's result is ignored.                                         *)
ReapsBeforeDispatch ==
    /\ worker.pc = "reaping"
    /\ \E stuck \in 1..NoneStuck : Reap(stuck)
    /\ Goes("checking")
    /\ UNCHANGED <<explorer, control, ui, gateClosed, request, hostVars>>

(* The token has run out, or the window of an update is not there.         *)
Checks ==
    /\ worker.pc = "checking"
    /\ LET exhausted == nextToken = MaxToken
           missing == request.kind = "update" /\ request.win \notin live
       IN  /\ retention' = (retention \/ exhausted)
           /\ IF exhausted \/ missing
              THEN DispatchFails
              ELSE Goes("sending") /\ UNCHANGED <<request, hostVars>>
    /\ UNCHANGED <<explorer, slots, nextOrder, control, ui, gateClosed>>

(* PrepareProcessRuntimeControl and SendMessageTimeout. Only an update is  *)
(* refused when the runtime retains or another control is pending.         *)
Sends ==
    /\ worker.pc = "sending"
    /\ nextToken' = nextToken + 1
    /\ IF request.kind = "update" /\ (retention \/ pending.token # 0)
       THEN /\ retention' = TRUE
            /\ DispatchFails
            /\ UNCHANGED <<pending, posted, sent>>
       ELSE /\ pending' = [token |-> nextToken + 1, kind |-> request.kind,
                           win |-> request.win, gen |-> request.gen,
                           completed |-> FALSE, ok |-> TRUE]
            /\ IF request.win \in live
               THEN /\ posted' = posted \cup {[win |-> request.win,
                                               token |-> nextToken + 1]}
                    /\ sent' = "waiting"
               ELSE sent' = "failed" /\ UNCHANGED posted
            /\ Goes("waiting")
            /\ UNCHANGED <<retention, request, hostVars>>
    /\ UNCHANGED <<explorer, slots, nextOrder, ui, gateClosed>>

Returned ==
    /\ worker.pc = "waiting" /\ sent \in {"returned", "failed"}
    /\ sent' = "none"
    /\ IF /\ sent = "returned" /\ pending.completed
          /\ request.kind = "update" => pending.token = 0
       THEN Answers(pending.ok) /\ UNCHANGED retention
       ELSE DispatchFails /\ retention' = TRUE
    /\ UNCHANGED <<explorer, slots, nextOrder, pending, nextToken, posted, ui,
                   gateClosed>>

(* Mutant: a wait that ran out is tried again.                             *)
SendTimesOutRetrying ==
    /\ MayFail
    /\ worker.pc = "waiting" /\ sent = "waiting"
    /\ sent' = "none"
    /\ Goes("checking")
    /\ UNCHANGED <<explorer, registry, pending, nextToken, posted, ui,
                   gateClosed, request, hostVars>>

(* Mutant: SendMessage, without a timeout.                                 *)
SendWaitsForever == FALSE /\ UNCHANGED vars

(* The UI thread may not have seen the message yet, or be in its handler.  *)
SendTimesOut ==
    /\ MayFail
    /\ worker.pc = "waiting" /\ sent = "waiting"
    /\ sent' = "none" /\ retention' = TRUE
    /\ DispatchFails
    /\ UNCHANGED <<explorer, slots, nextOrder, pending, nextToken, posted, ui,
                   gateClosed>>

Dispatch == Connects \/ Reads \/ ReadsText \/ ShowReturns \/ ReadsDetach
            \/ ReadFails \/ RemovesRequested \/ RequestedDone
            \/ ReapsBeforeDispatch \/ Checks \/ Sends
            \/ Returned \/ SendTimesOut

-----------------------------------------------------------------------------
(* RuntimeWorker, after its request loop.                                  *)

(* RemoveAllProcessWindows takes the youngest window, unless it is another *)
(* thread's to clean.                                                      *)
RemoveAllClaims ==
    /\ worker.pc = "removing"
    /\ \E s \in Occupied :
          /\ Youngest(s, Occupied)
          /\ IF slots[s].life \in {"active", "requested"}
             THEN /\ slots' = [slots EXCEPT ![s].life = "cleaning",
                                            ![s].admitted = FALSE]
                  /\ worker' = [worker EXCEPT !.pc = "cleaning", !.slot = s]
             ELSE /\ slots' = [slots EXCEPT ![s].life = "failed",
                                            ![s].admitted = FALSE,
                                            ![s].occupied = FALSE,
                                            ![s].removed = TRUE]
                  /\ worker' = [worker EXCEPT !.failed = TRUE]
    /\ UNCHANGED <<explorer, nextOrder, retention, control, ui, gateClosed,
                   request, hostVars>>

RemoveAllCleans ==
    /\ worker.pc = "cleaning"
    /\ \E ok \in BOOLEAN :
          /\ CanClean(worker.slot, ok)
          /\ slots' = [slots EXCEPT ![worker.slot] = Cleaned(worker.slot, ok)]
          /\ worker' = [worker EXCEPT !.pc = "removing", !.slot = 0,
                                      !.failed = @ \/ ~ok]
    /\ UNCHANGED <<explorer, nextOrder, retention, control, ui, gateClosed,
                   request, hostVars>>

(* A window that was not removed keeps the DLL; the worker just returns.   *)
RemoveAllDone ==
    /\ worker.pc = "removing" /\ Occupied = {}
    /\ retention' = (retention \/ worker.failed)
    /\ gateClosed' = ~worker.failed
    /\ Goes(IF worker.failed THEN "retained" ELSE "draining")
    /\ UNCHANGED <<explorer, slots, nextOrder, control, ui, request, hostVars>>

UiQuiet == \A w \in Windows : ui[w].pc = "idle"

Drains ==
    /\ worker.pc = "draining"
    /\ \/ UiQuiet /\ Goes("reporting")
       \/ MayFail /\ ~UiQuiet /\ Goes("retained")
    /\ UNCHANGED <<explorer, registry, control, ui, gateClosed, request,
                   hostVars>>

Proof == \A s \in Occupied \cup Removed : slots[s].pane = "none"

(* CaptureProcessDetachCleanupProof, the last reaping, HookReleased, and   *)
(* the acknowledgement, which EncodeDetachResult refuses unless the proof  *)
(* shows that nothing is left. Without a detach request nobody looks at    *)
(* the proof.                                                              *)
Reports ==
    /\ worker.pc = "reporting"
    /\ \E stuck \in 1..NoneStuck :
          /\ Reap(stuck)
          /\ \/ /\ stuck = NoneStuck /\ hookReleased
                /\ worker.detach => Proof
                /\ Goes("finalizing")
                /\ acked' = (worker.detach /\ host = "detaching")
                /\ host' = IF acked' THEN "detached" ELSE host
             \/ /\ \/ stuck # NoneStuck \/ ~hookReleased
                   \/ worker.detach /\ (~Proof \/ host # "detaching")
                /\ Goes("retained")
                /\ UNCHANGED <<acked, host>>
    /\ UNCHANGED <<explorer, control, ui, gateClosed, request, mirror, latest,
                   hooked, hookReleased>>

(* FinalizeProcessWindowsAfterDrain, and FreeLibraryAndExitThread.         *)
Finalizes ==
    /\ worker.pc = "finalizing"
    /\ slots' = [s \in Slots |-> [slots[s] EXCEPT !.admitted = FALSE]]
    /\ \/ Goes("unloaded") /\ UNCHANGED retention
       \/ MayFail /\ Goes("retained") /\ retention' = TRUE
    /\ UNCHANGED <<explorer, nextOrder, control, ui, gateClosed, request,
                   hostVars>>

Ending == RemoveAllClaims \/ RemoveAllCleans \/ RemoveAllDone \/ Drains
          \/ Reports \/ Finalizes

WorkerStep == Dispatch \/ Ending

-----------------------------------------------------------------------------
(* A UI thread that receives the control message.                          *)

At(w, pc) == ui[w].pc = pc
Moves(w, pc, s) == ui' = [ui EXCEPT ![w] = [pc |-> pc, slot |-> s]]

(* SendMessageTimeout returns, if it still waits.                          *)
Returns(w) ==
    /\ ui' = [ui EXCEPT ![w] = Idle]
    /\ sent' = IF sent = "waiting" THEN "returned" ELSE sent

Completes(w, ok) ==
    /\ Returns(w)
    /\ pending' = [pending EXCEPT !.completed = TRUE, !.ok = ok]
    /\ UNCHANGED <<nextToken, posted>>

worldVars == <<explorer, gateClosed, worker, request, hostVars>>

(* HandleProcessRuntimeControlMessageFor up to its claim of the token.     *)
Receives(w) ==
    /\ At(w, "idle") /\ w \in live
    /\ \E m \in posted :
          /\ m.win = w
          /\ posted' = posted \ {m}
          /\ IF /\ hooked /\ ~gateClosed /\ ~retention
                /\ pending.token = m.token /\ pending.win = w
             THEN /\ pending' = [pending EXCEPT !.token = 0]
                  /\ Moves(w, "deciding", 0)
                  /\ UNCHANGED sent
             ELSE Returns(w) /\ UNCHANGED pending
    /\ UNCHANGED <<registry, nextToken, worldVars>>

(* The slot a scan finds first for the window.                             *)
Existing(w, s) ==
    /\ s \in Occupied /\ slots[s].win = w
    /\ \A t \in Occupied : slots[t].win = w => s <= t

DecidesRemoval(w) ==
    /\ At(w, "deciding") /\ pending.kind = "remove"
    /\ \/ \E s \in Slots :
             /\ Existing(w, s) /\ slots[s].gen = pending.gen
             /\ Moves(w, "retiring", s)
             /\ UNCHANGED control
       \/ /\ ~\E s \in Slots : Existing(w, s) /\ slots[s].gen = pending.gen
          /\ Completes(w, FALSE)
    /\ UNCHANGED <<registry, worldVars>>

(* Mutant: a new generation is a new window, whatever is there.            *)
DecidesUpdateCreating(w) ==
    /\ At(w, "deciding") /\ pending.kind = "update"
    /\ \/ \E s \in Slots :
             /\ Existing(w, s) /\ slots[s].gen \in {0, pending.gen}
             /\ Moves(w, "applying", s)
       \/ /\ ~\E s \in Slots : /\ Existing(w, s)
                               /\ slots[s].gen \in {0, pending.gen}
          /\ Moves(w, "creating", 0)
    /\ UNCHANGED <<control, registry, worldVars>>

(* A stale generation is refused, the same or a provisional one is         *)
(* updated, an older one is replaced.                                      *)
DecidesUpdate(w) ==
    /\ At(w, "deciding") /\ pending.kind = "update"
    /\ \/ \E s \in Slots :
             /\ Existing(w, s)
             /\ \/ /\ slots[s].gen > pending.gen
                   /\ Completes(w, FALSE)
                \/ /\ slots[s].gen \in {0, pending.gen}
                   /\ Moves(w, "applying", s) /\ UNCHANGED control
                \/ /\ slots[s].gen # 0 /\ slots[s].gen < pending.gen
                   /\ Moves(w, "retiring", s) /\ UNCHANGED control
       \/ /\ ~\E s \in Slots : Existing(w, s)
          /\ Moves(w, "creating", 0) /\ UNCHANGED control
    /\ UNCHANGED <<registry, worldVars>>

(* apply_update; one whose tabs cannot be undone retains the runtime.      *)
Applies(w) ==
    /\ At(w, "applying")
    /\ \/ /\ Completes(w, TRUE)
          /\ slots' = [slots EXCEPT ![ui[w].slot].gen = pending.gen]
          /\ UNCHANGED retention
       \/ /\ MayFail /\ Completes(w, FALSE)
          /\ retention' \in {retention, TRUE}
          /\ UNCHANGED slots
    /\ UNCHANGED <<nextOrder, worldVars>>

(* retire closes the slot and claims its window, or finds it claimed.      *)
RetireClaims(w) ==
    /\ At(w, "retiring")
    /\ LET s == ui[w].slot
       IN  IF slots[s].life = "active"
           THEN /\ slots' = [slots EXCEPT ![s].admitted = FALSE,
                                          ![s].life = "cleaning"]
                /\ Moves(w, "cleaning", s)
                /\ UNCHANGED control
           ELSE /\ slots' = [slots EXCEPT ![s].admitted = FALSE]
                /\ Completes(w, FALSE)
    /\ UNCHANGED <<nextOrder, retention, worldVars>>

RetireCleans(w) ==
    /\ At(w, "cleaning")
    /\ LET s == ui[w].slot
       IN  \E ok \in BOOLEAN :
              /\ CanClean(s, ok)
              /\ slots' = [slots EXCEPT ![s] = Cleaned(s, ok)]
              /\ retention' = (retention \/ ~ok)
              /\ IF ok /\ pending.kind = "update"
                 THEN Moves(w, "reaping", 0) /\ UNCHANGED control
                 ELSE Completes(w, ok)
    /\ UNCHANGED <<nextOrder, worldVars>>

(* The callbacks of the window do not end: its slot stays occupied.        *)
RetireTimesOut(w) ==
    /\ MayFail /\ At(w, "cleaning")
    /\ slots' = [slots EXCEPT ![ui[w].slot].life = "failed"]
    /\ retention' = TRUE
    /\ Completes(w, FALSE)
    /\ UNCHANGED <<nextOrder, worldVars>>

ReapsForUpdate(w) ==
    /\ At(w, "reaping")
    /\ \E stuck \in 1..NoneStuck :
          /\ Reap(stuck)
          /\ IF stuck = NoneStuck
             THEN Moves(w, "creating", 0) /\ UNCHANGED control
             ELSE Completes(w, FALSE)
    /\ UNCHANGED worldVars

Vacant(s) == slots[s].occupied = FALSE /\ slots[s].removed = FALSE
Chosen(s) == Vacant(s) /\ \A t \in Slots : Vacant(t) => s <= t

(* create_window into the first free slot.                                 *)
Creates(w) ==
    /\ At(w, "creating")
    /\ \E s \in Slots :
          /\ Chosen(s)
          /\ nextOrder' = nextOrder + 1
          /\ slots' = [slots EXCEPT
                 ![s].win = w, ![s].gen = pending.gen,
                 ![s].order = nextOrder + 1, ![s].life = "active",
                 ![s].occupied = TRUE, ![s].pane = "shown"]
          /\ Moves(w, "publishing", s)
    /\ UNCHANGED <<retention, control, worldVars>>

(* No slot is free, or nothing was created.                                *)
CreatesNothing(w) ==
    /\ At(w, "creating")
    /\ MayFail \/ ~\E s \in Slots : Vacant(s)
    /\ Completes(w, FALSE)
    /\ UNCHANGED <<registry, worldVars>>

(* What was created by half and cannot be taken back occupies the slot.    *)
CreatesResidue(w) ==
    /\ MayFail /\ At(w, "creating")
    /\ \E s \in Slots :
          /\ Chosen(s)
          /\ nextOrder' = nextOrder + 1
          /\ slots' = [slots EXCEPT
                 ![s].win = w, ![s].gen = pending.gen,
                 ![s].order = nextOrder + 1, ![s].life = "failed",
                 ![s].removed = TRUE, ![s].pane = "shown"]
    /\ retention' = TRUE
    /\ Completes(w, FALSE)
    /\ UNCHANGED worldVars

Publishes(w) ==
    /\ At(w, "publishing")
    /\ slots' = [slots EXCEPT ![ui[w].slot].admitted = TRUE]
    /\ Completes(w, TRUE)
    /\ UNCHANGED <<nextOrder, retention, worldVars>>

(* Mutant: the result of the update hides the failed activation.           *)
PublishFailsSilently(w) ==
    /\ MayFail /\ At(w, "publishing")
    /\ LET s == ui[w].slot
       IN  \E ok \in BOOLEAN :
              /\ slots' = [slots EXCEPT ![s] = Cleaned(s, ok)]
              /\ retention' = (retention \/ ~ok)
    /\ Completes(w, TRUE)
    /\ UNCHANGED <<nextOrder, worldVars>>

(* apply_update or activate_window failed: the window is taken back.       *)
PublishFails(w) ==
    /\ MayFail /\ At(w, "publishing")
    /\ LET s == ui[w].slot
       IN  \E ok \in BOOLEAN :
              /\ slots' = [slots EXCEPT ![s] = Cleaned(s, ok)]
              /\ retention' = (retention \/ ~ok)
    /\ Completes(w, FALSE)
    /\ UNCHANGED <<nextOrder, worldVars>>

(* An exception leaves the request unanswered and the runtime retained.    *)
HandlerThrows(w) ==
    /\ MayFail /\ ui[w].pc \in {"deciding", "creating", "publishing"}
    /\ retention' = TRUE
    /\ Returns(w)
    /\ UNCHANGED <<slots, nextOrder, pending, nextToken, posted, worldVars>>

Handler(w) == Receives(w) \/ DecidesRemoval(w) \/ DecidesUpdate(w)
              \/ Applies(w) \/ RetireClaims(w) \/ RetireCleans(w)
              \/ RetireTimesOut(w) \/ ReapsForUpdate(w) \/ Creates(w)
              \/ CreatesNothing(w) \/ CreatesResidue(w) \/ Publishes(w)
              \/ PublishFails(w) \/ HandlerThrows(w)

-----------------------------------------------------------------------------
(* Explorer closes a window and reuses its handle.                         *)

Seen(w, s) == /\ hooked /\ ~gateClosed
              /\ slots[s].admitted /\ slots[s].win = w
              /\ slots[s].life = "active"

(* The window is gone, with the messages it has not received; the panes in *)
(* it are destroyed.                                                       *)
Gone(w) ==
    /\ live' = live \ {w} /\ closed' = closed \cup {w}
    /\ posted' = {m \in posted : m.win # w}
    /\ sent' = IF \E m \in posted : m.win = w /\ m.token = nextToken
                  /\ sent = "waiting" THEN "failed" ELSE sent
    /\ UNCHANGED <<pending, nextToken>>

(* HandleProcessRuntimeTopLevelDestroy claims the window.                  *)
DestroyClaims(w) ==
    /\ At(w, "idle") /\ w \in live
    /\ \E s \in Slots :
          /\ Seen(w, s)
          /\ slots' = [slots EXCEPT ![s].life = "cleaning",
                                    ![s].admitted = FALSE]
          /\ Moves(w, "sheltering", s)
    /\ closed' = closed \cup {w}
    /\ UNCHANGED <<live, nextOrder, retention, control, gateClosed, worker,
                   request, hostVars>>

(* The pane is moved out of the window before it goes, for the worker to   *)
(* remove, or goes with it.                                                *)
DestroyShelters(w) ==
    /\ At(w, "sheltering")
    /\ LET s == ui[w].slot
       IN  \E ok \in BOOLEAN :
              /\ ~ok => MayFail
              /\ slots' = [slots EXCEPT
                     ![s].life = IF ok THEN "requested" ELSE "failed",
                     ![s].pane = CASE @ # "shown" -> @
                                   [] ok -> "sheltered"
                                   [] OTHER -> "lost"]
              /\ retention' = (retention \/ ~ok)
    /\ ui' = [ui EXCEPT ![w] = Idle]
    /\ Gone(w)
    /\ UNCHANGED <<nextOrder, gateClosed, worker, request, hostVars>>

(* No callback of the DLL sees the window go.                              *)
DestroyUnseen(w) ==
    /\ At(w, "idle") /\ w \in live
    /\ ~\E s \in Slots : Seen(w, s)
    /\ slots' = [s \in Slots |->
                   IF slots[s].win = w /\ slots[s].pane = "shown"
                   THEN [slots[s] EXCEPT !.pane = "lost"] ELSE slots[s]]
    /\ Gone(w)
    /\ UNCHANGED <<nextOrder, retention, ui, gateClosed, worker, request,
                   hostVars>>

(* The UI thread of a closed window ends, and its sheltered pane with it.  *)
ThreadEnds(w) ==
    /\ At(w, "idle") /\ w \notin live
    /\ \E s \in Slots : slots[s].win = w /\ slots[s].pane = "sheltered"
    /\ slots' = [s \in Slots |->
                   IF slots[s].win = w /\ slots[s].pane = "sheltered"
                   THEN [slots[s] EXCEPT !.pane = "lost"] ELSE slots[s]]
    /\ UNCHANGED <<explorer, nextOrder, retention, control, ui, gateClosed,
                   worker, request, hostVars>>

WindowOpens(w) ==
    /\ At(w, "idle") /\ w \notin live
    /\ live' = live \cup {w}
    /\ UNCHANGED <<closed, registry, control, ui, gateClosed, worker, request,
                   hostVars>>

Explorer(w) == DestroyClaims(w) \/ DestroyShelters(w) \/ DestroyUnseen(w)
               \/ ThreadEnds(w) \/ WindowOpens(w)

Attach == AttachBegins \/ AttachFails \/ AttachFailsResidue

Next == \/ Attach \/ HostStep \/ WorkerStep
        \/ \E w \in Windows : Handler(w) \/ Explorer(w)

Spec == Init /\ [][Next]_vars

(* A UI thread may hang for good, and has no fairness: the worker runs     *)
(* whenever it can go on without one. Its only call that does not end by   *)
(* itself is the ShowWindow of a pane that is there.                       *)
NeedsUi == worker.pc = "showing" /\ ~PaneLost

FairSpec == Spec /\ WF_vars(WorkerStep /\ ~NeedsUi)

-----------------------------------------------------------------------------
SlotRecord ==
    [win : Windows \cup {NoWindow}, gen : 0..MaxGen, order : Nat,
     life : {"active", "cleaning", "cleaned", "failed", "requested"},
     occupied : BOOLEAN, removed : BOOLEAN, admitted : BOOLEAN,
     pane : {"none", "shown", "sheltered", "lost"}]
Message == [win : Windows, token : 1..MaxToken]

(* Every variable has its type.                                            *)
ProcessTypeOK ==
    /\ live \subseteq Windows /\ closed \subseteq Windows
    /\ slots \in [Slots -> SlotRecord] /\ nextOrder \in Nat
    /\ retention \in BOOLEAN
    /\ pending \in [token : 0..MaxToken, kind : {"update", "remove"},
                    win : Windows \cup {NoWindow}, gen : 0..MaxGen,
                    completed : BOOLEAN, ok : BOOLEAN]
    /\ nextToken \in 0..MaxToken /\ posted \subseteq Message
    /\ sent \in {"none", "waiting", "returned", "failed"}
    /\ ui \in [Windows ->
                 [pc : {"idle", "attaching", "deciding", "applying", "retiring",
                        "cleaning", "reaping", "creating", "publishing",
                        "sheltering"},
                  slot : 0..MaxSlots]]
    /\ gateClosed \in BOOLEAN
    /\ worker \in [pc : {"attaching", "connecting", "absent", "reading",
                         "showing", "requested", "reaping", "checking",
                         "sending", "waiting", "removing", "cleaning",
                         "draining", "reporting", "finalizing", "retained",
                         "unloaded"},
                   slot : 0..MaxSlots, failed : BOOLEAN, detach : BOOLEAN]
    /\ request \in [kind : {"none", "update", "remove", "text", "detach"},
                    win : Windows \cup {NoWindow}, gen : 0..MaxGen]
    /\ host \in {"attaching", "serving", "awaiting", "released", "detaching",
                 "lost", "detached"}
    /\ mirror \in [Windows -> 0..MaxGen] /\ latest \in [Windows -> 0..MaxGen]
    /\ hooked \in BOOLEAN /\ hookReleased \in BOOLEAN /\ acked \in BOOLEAN

(***************************************************************************)
(* Safety.                                                                 *)
(***************************************************************************)

(* A window has one slot in the registry, and while requests are served it *)
(* shows one pane, whatever is left of earlier windows with its handle and *)
(* of attempts that failed. (A handler whose sender gave up may go on into *)
(* RemoveAllProcessWindows and create a window that nobody will remove.)   *)
OnePanePerWindow ==
    \A s, t \in Slots :
        /\ slots[s].win = slots[t].win /\ slots[s].win # NoWindow
        /\ \/ slots[s].occupied /\ slots[t].occupied
           \/ Serving /\ slots[s].pane = "shown" /\ slots[t].pane = "shown"
        => s = t

(* A handler that has claimed the pending record has it to itself to its   *)
(* end, although the worker that wrote it may have given up on it.         *)
PendingStable ==
    [][\A w \in Windows : ui[w].pc \notin {"idle", "attaching", "sheltering"} =>
          /\ pending'.token = 0 /\ pending'.win = w
          /\ pending'.kind = pending.kind /\ pending'.gen = pending.gen]_vars

(* What the Host was told is so: after the acknowledged detach no hook is  *)
(* in place and no pane is left in the process.                            *)
AckTruthful ==
    acked => ~hooked /\ \A s \in Slots : slots[s].pane = "none"

(* The DLL goes only when nothing of it can run any more: no hook, no      *)
(* pane, no handler, and no failure that asked for its retention.          *)
UnloadIsQuiet ==
    worker.pc = "unloaded" =>
        /\ ~hooked /\ ~retention /\ UiQuiet
        /\ \A s \in Slots : slots[s].pane \notin {"shown", "sheltered"}

(* Every window the session believes to be up to date has a slot with its  *)
(* generation that takes callbacks, unless Explorer has closed it since.   *)
MirrorServed ==
    host = "serving" =>
        \A w \in Windows : mirror[w] # 0 /\ w \notin closed =>
            \E s \in Occupied : /\ slots[s].win = w /\ slots[s].gen = mirror[w]
                                /\ slots[s].admitted

(* Whatever the UI threads do, and with every wait that runs out, the      *)
(* worker returns to its pipe or comes to its end, unless the thread that  *)
(* owns a pane takes its text, and then never answers its ShowWindow.      *)
WorkerReturns ==
    \/ <>[]NeedsUi
    \/ worker.pc \notin {"attaching", "absent"}
           ~> worker.pc \in {"reading", "retained", "unloaded"}

(* Closing a window of a process that shows others is part of a session's  *)
(* life: when nothing of its pane is left behind, its removal is answered  *)
(* with success and the session goes on.                                   *)
ClosingKeepsSession ==
    [][/\ request.kind = "remove" /\ request.win \in closed
       /\ \E w \in live \ {request.win} : mirror[w] # 0
       /\ \A s \in Slots : slots[s].pane # "lost"
       => host' # "lost"]_vars
=============================================================================
