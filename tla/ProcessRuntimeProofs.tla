-------------------------- MODULE ProcessRuntimeProofs --------------------------
(***************************************************************************)
(* The safety properties of ProcessRuntime, for every set of windows, any  *)
(* number of slots, of generations of a handle and of control tokens. What *)
(* makes them hard is a handler whose sender has given up: it goes on with *)
(* the pending record, beside a worker that may be removing the windows.   *)
(* The invariant says what such an orphan implies: that the Host has lost  *)
(* its session before it released the hooks, so that the event which the   *)
(* unloading waits for will not be set; and, for every other failure that  *)
(* retained the runtime, where the failed window is still to be found.     *)
(***************************************************************************)
EXTENDS ProcessRuntime, TLAPS, WellFoundedInduction

Handling == {"deciding", "applying", "retiring", "cleaning", "reaping",
             "creating", "publishing"}
Handles(w) == ui[w].pc \in Handling

Dispatching == {"requested", "reaping", "checking", "sending", "waiting"}
Leaving == {"reporting", "finalizing", "unloaded"}

(* The Host's session is lost, and its hooks will never be released.       *)
Hopeless ==
    /\ ~hookReleased
    /\ host = "lost" \/ (host = "awaiting" /\ ~Serving)

(* So it is, and the worker may take the window of an orphan from it.      *)
Beyond == Hopeless /\ ~Serving

(* The worker has met a window that it could not remove.                   *)
Taken == \/ worker.failed /\ worker.pc \in {"removing", "cleaning"}
         \/ worker.pc = "retained"

(* A request that failed in its handler is about to be answered so.        *)
Failing == /\ worker.pc = "waiting" /\ sent = "returned"
           /\ ~(pending.completed /\ pending.ok)

(* Where the request in the pipe is, at its two ends.                      *)
PipeInv ==
    /\ worker.pc \in {"attaching", "connecting"} =>
          host \in {"attaching", "lost"} /\ request.kind = "none"
    /\ host = "attaching" =>
          /\ worker.pc \in {"attaching", "connecting", "absent", "retained"}
          /\ request.kind = "none" /\ ~hookReleased
    /\ host \in {"serving", "released"} =>
          worker.pc = "reading" /\ request.kind = "none"
    /\ host = "serving" => ~hookReleased
    /\ host = "awaiting" => request.kind \in {"update", "remove", "text"}
    /\ host = "detaching" => request.kind = "detach"
    /\ request.kind \in {"update", "remove", "text"} =>
          /\ request.win \in Windows
          /\ host \in {"awaiting", "lost"} /\ ~hookReleased
    /\ worker.pc \in Dispatching => request.kind \in {"update", "remove"}
    /\ worker.pc = "showing" => request.kind = "text"
    /\ worker.pc = "sending" => nextToken < MaxToken
    /\ hookReleased => ~hooked

(* The pending record, the message that announces it, and its handler,     *)
(* which is the worker's to wait for or an orphan.                         *)
ControlInv ==
    /\ \A m \in posted :
          \/ retention
          \/ /\ worker.pc = "waiting" /\ sent = "waiting"
             /\ pending.token = m.token /\ pending.win = m.win
    /\ pending.token # 0 =>
          retention \/ (worker.pc = "waiting" /\ ~pending.completed)
    /\ worker.pc = "waiting" =>
          /\ pending.kind = request.kind
          /\ pending.win = request.win /\ pending.gen = request.gen
    /\ \A w \in Windows : Handles(w) =>
          /\ pending.token = 0 /\ pending.win = w
          /\ \/ /\ worker.pc = "waiting" /\ sent = "waiting"
                /\ posted = {} /\ ~pending.completed
             \/ /\ worker.pc \in {"reading", "showing", "removing",
                                  "cleaning", "draining", "retained"}
                /\ retention /\ Hopeless

(* A slot has a tenant or what a cleanup left of one, or nothing.          *)
Settled(s) ==
    /\ ~(slots[s].occupied /\ slots[s].removed)
    /\ ~slots[s].occupied /\ ~slots[s].removed =>
          slots[s].pane = "none" /\ slots[s].win = NoWindow
    /\ slots[s].removed =>
          /\ slots[s].life # "active"
          /\ slots[s].life \in {"cleaned", "failed"} \/ Taken

WorkerAt(s) == worker.pc = "cleaning" /\ worker.slot = s

(* The slot is a thread's to clean, unless the worker gave it up.          *)
InHand(s) ==
    /\ ~WorkerAt(s)
    /\ \/ slots[s].occupied /\ slots[s].life = "cleaning"
       \/ slots[s].removed /\ slots[s].life = "failed" /\ Taken

(* A UI thread that is at a slot of its window.                            *)
Placed(w) ==
    LET s == ui[w].slot
    IN  /\ ui[w].pc \in {"applying", "retiring", "cleaning", "publishing",
                         "sheltering"} => s \in Slots /\ slots[s].win = w
        /\ ui[w].pc \in {"cleaning", "sheltering"} => InHand(s)
        /\ ui[w].pc \in {"applying", "retiring"} => slots[s].occupied \/ Beyond
        /\ ui[w].pc = "publishing" =>
              \/ /\ slots[s].occupied /\ slots[s].life = "active"
                 /\ slots[s].gen = pending.gen
              \/ Beyond

(* The worker at the slot that it cleans; an orphan may have done so.      *)
WorkerPlaced ==
    worker.pc = "cleaning" =>
        /\ worker.slot \in Slots
        /\ \/ slots[worker.slot].occupied /\ slots[worker.slot].life = "cleaning"
           \/ /\ slots[worker.slot].removed /\ Beyond
              /\ \A w \in Windows : ~Handles(w)

PlaceInv ==
    /\ \A s \in Slots : Settled(s)
    /\ \A w \in Windows : Placed(w)
    /\ WorkerPlaced

(* What a runtime that must be retained has to show for it.                *)
RetainedInv ==
    retention => \/ Hopeless \/ Taken \/ Failing
                 \/ \E s \in Slots : /\ slots[s].occupied \/ slots[s].removed
                                     /\ slots[s].life = "failed"

(* The attach, and the worker's way out.                                   *)
EndInv ==
    /\ worker.pc = "attaching" => ~retention /\ slots = [s \in Slots |-> Free]
    /\ \A w \in Windows : ui[w].pc = "attaching" =>
          w = First /\ worker.pc = "attaching"
    /\ worker.pc \in {"draining"} \cup Leaving =>
          gateClosed /\ (hookReleased => Occupied = {})
    /\ worker.pc \in Leaving => UiQuiet
    /\ worker.pc \in {"finalizing", "unloaded"} =>
          hookReleased /\ Removed = {}
    /\ worker.pc = "unloaded" => ~retention
    /\ acked => /\ worker.pc \in {"finalizing", "unloaded", "retained"}
                /\ gateClosed /\ UiQuiet /\ ~hooked
                /\ \A s \in Slots : slots[s].pane = "none"

(* A window is in the registry once.                                       *)
RegisteredOnce ==
    \A s, t \in Slots :
        /\ slots[s].occupied /\ slots[t].occupied
        /\ slots[s].win = slots[t].win
        => s = t

(* A handler that is about to create a window has found none, and one that *)
(* retires a window has found the only one.                                *)
NoneLeft ==
    \A w \in Windows : ui[w].pc \in {"reaping", "creating"} =>
        \A s \in Occupied : slots[s].win # w
OneLeft ==
    \A w \in Windows : ui[w].pc \in {"retiring", "cleaning"} =>
        \A s \in Occupied : slots[s].win = w => s = ui[w].slot

(* While requests are served, nothing that still shows a pane outside of   *)
(* the registry is beside another slot of its window.                      *)
ShownOnce ==
    Serving => \A s \in Removed : slots[s].pane = "shown" =>
        /\ retention
        /\ \A t \in Slots \ {s} :
              slots[t].occupied \/ slots[t].pane = "shown" =>
                  slots[t].win # slots[s].win
        /\ \A w \in Windows : Handles(w) => slots[s].win # w

OnceInv == RegisteredOnce /\ NoneLeft /\ OneLeft /\ ShownOnce

(* The window has a slot of the generation that takes callbacks.           *)
Served(w, g) ==
    \E s \in Occupied : /\ slots[s].win = w /\ slots[s].gen = g
                        /\ slots[s].admitted

(* The thread that changes the slot, if any, while requests are served.    *)
Claimed(s) ==
    /\ slots[s].win \in Windows
    /\ ui[slots[s].win].slot = s
    /\ \/ slots[s].life = "cleaning"
          /\ ui[slots[s].win].pc \in {"cleaning", "sheltering"}
       \/ slots[s].life = "active" /\ ui[slots[s].win].pc = "publishing"

(* Only a window that nobody removes takes callbacks, once it is published.*)
AdmittedLive ==
    Serving =>
        /\ \A s \in Slots : slots[s].admitted =>
              slots[s].occupied /\ slots[s].life = "active"
        /\ \A w \in Windows : ui[w].pc = "publishing" =>
              ~slots[ui[w].slot].admitted

(* A window that takes none has its reason.                                *)
Accounted ==
    Serving =>
        \A s \in Occupied :
            \/ slots[s].admitted \/ retention \/ Claimed(s)
            \/ slots[s].life = "requested"

(* When a request is dispatched, the windows that were closed before have  *)
(* been removed.                                                           *)
RequestedClosed ==
    worker.pc \in Dispatching \ {"requested"} =>
        \A s \in Occupied :
            slots[s].life = "requested" => slots[s].win \in closed

(* What the session believes, and the request that may change it.          *)
MirrorHeld ==
    Serving /\ host \in {"serving", "awaiting"} =>
        \A w \in Windows :
            \/ mirror[w] = 0 \/ w \in closed
            \/ Served(w, mirror[w])
            \/ /\ host = "awaiting" /\ request.win = w
               /\ request.kind \in {"update", "remove"}
MirrorAsked ==
    /\ host = "attaching" => \A w \in Windows : mirror[w] = 0
    /\ host = "awaiting" /\ request.kind = "text" =>
          request.gen = mirror[request.win]

(* An update on its way to its answer.                                     *)
UpdateServes ==
    \A w \in Windows :
        /\ worker.pc = "waiting" /\ pending.win = w /\ pending.kind = "update"
        /\ w \notin closed
        => /\ ui[w].pc = "deciding" => \A s \in Occupied :
                  slots[s].win = w => slots[s].admitted
           /\ ui[w].pc = "applying" => slots[ui[w].slot].admitted
           /\ pending.completed /\ pending.ok => Served(w, pending.gen)

ServedInv ==
    /\ AdmittedLive /\ Accounted /\ RequestedClosed /\ MirrorHeld
    /\ MirrorAsked /\ UpdateServes

RuntimeInvariant ==
    /\ ProcessTypeOK /\ PipeInv /\ ControlInv /\ PlaceInv /\ RetainedInv
    /\ EndInv /\ OnceInv /\ ServedInv

-----------------------------------------------------------------------------
(* Slots.                                                                  *)

(* A scan of the slots has a first hit.                                    *)
LEMMA LeastSlot ==
    ASSUME NEW S, S \subseteq Slots, S # {}
    PROVE  \E s \in S : \A t \in S : s <= t
<1>1. S \subseteq Nat
    BY RuntimeAssumption DEF Slots
<1>2. PICK s \in S : \A t \in S : ~(<<t, s>> \in OpToRel(<, Nat))
    BY <1>1, NatLessThanWellFounded, WFMin, Zenon
<1>3. \A t \in S : ~(t < s)
    BY <1>1, <1>2 DEF OpToRel
<1>4. s \in S /\ \A t \in S : s <= t
    <2>1. s \in S
        BY <1>2
    <2> QED BY <1>1, <1>3, <2>1
<1> QED BY <1>4

(* What a reaping frees and what it leaves.                                *)
LEMMA ReapDoes ==
    ASSUME ProcessTypeOK, NEW stuck \in 1..NoneStuck, Reap(stuck)
    PROVE  /\ slots' \in [Slots -> SlotRecord] /\ nextOrder' = nextOrder
           /\ retention' \in BOOLEAN
           /\ \A s \in Slots :
                 \/ slots'[s] = slots[s]
                 \/ /\ slots[s].removed /\ slots[s].life = "cleaned"
                    /\ slots'[s] = [Free EXCEPT !.admitted = slots[s].admitted]
           /\ retention => retention'
           /\ retention' => \/ retention
                            \/ \E s \in Removed : /\ slots[s].life # "cleaned"
                                                  /\ slots'[s] = slots[s]
           /\ stuck = NoneStuck => Removed' = {}
<1> USE RuntimeAssumption DEF ProcessTypeOK
<1>1. \A s \in Slots : [Free EXCEPT !.admitted = slots[s].admitted] \in SlotRecord
    <2> TAKE s \in Slots
    <2>1. slots[s].admitted \in BOOLEAN
        BY DEF SlotRecord
    <2>2. Free \in SlotRecord
        BY DEF SlotRecord, Free
    <2>3. [Free EXCEPT !.admitted = slots[s].admitted] \in SlotRecord
        BY <2>1, <2>2 DEF SlotRecord
    <2> QED BY <2>3
<1>2. /\ slots' = [s \in Slots |->
                     IF s \in Removed /\ s < stuck
                     THEN [Free EXCEPT !.admitted = slots[s].admitted]
                     ELSE slots[s]]
      /\ \A s \in Removed : s < stuck => slots[s].life = "cleaned"
      /\ retention' = (retention \/ (stuck \in Removed
                                     /\ slots[stuck].life # "cleaned"))
      /\ UNCHANGED nextOrder
    BY DEF Reap
<1>3. slots' \in [Slots -> SlotRecord]
    BY <1>1, <1>2
<1>4. retention' \in BOOLEAN
    BY <1>2, Zenon
<1>5. \A s \in Slots :
         \/ slots'[s] = slots[s]
         \/ /\ slots[s].removed /\ slots[s].life = "cleaned"
            /\ slots'[s] = [Free EXCEPT !.admitted = slots[s].admitted]
    BY <1>2 DEF Removed
<1>6. retention' /\ ~retention => \E s \in Removed : /\ slots[s].life # "cleaned"
                                                     /\ slots'[s] = slots[s]
    <2> SUFFICES ASSUME retention', ~retention
                 PROVE  stuck \in Removed /\ slots[stuck].life # "cleaned"
                        /\ slots'[stuck] = slots[stuck]
        OBVIOUS
    <2>1. stuck \in Removed /\ slots[stuck].life # "cleaned"
        BY <1>2
    <2> QED BY <1>5, <2>1 DEF Removed
<1>7. stuck = NoneStuck => Removed' = {}
    <2>1. \A s \in Slots : stuck = NoneStuck => s < stuck
        BY DEF NoneStuck, Slots
    <2>2. ASSUME NEW s \in Slots, stuck = NoneStuck
          PROVE  ~slots'[s].removed
        <3>1. CASE s \in Removed
            BY <1>2, <2>1, <2>2, <3>1 DEF Free
        <3>2. CASE s \notin Removed
            BY <1>2, <3>2 DEF Removed
        <3> QED BY <3>1, <3>2
    <2> QED BY <2>2 DEF Removed
<1> QED BY <1>2, <1>3, <1>4, <1>5, <1>6, <1>7, Zenon

-----------------------------------------------------------------------------
(* Types.                                                                  *)

(* The flags stay Booleans.                                                *)
LEMMA RuntimeFlagsTyped ==
    ASSUME ProcessTypeOK, [Next]_vars
    PROVE  /\ retention' \in BOOLEAN /\ gateClosed' \in BOOLEAN
           /\ hooked' \in BOOLEAN /\ hookReleased' \in BOOLEAN
           /\ acked' \in BOOLEAN
<1> DEFINE Flags == /\ retention \in BOOLEAN /\ gateClosed \in BOOLEAN
                    /\ hooked \in BOOLEAN /\ hookReleased \in BOOLEAN
                    /\ acked \in BOOLEAN
<1>1. Flags
    BY Zenon DEF ProcessTypeOK
<1>2. ASSUME NEW stuck \in 1..NoneStuck, Reap(stuck)
      PROVE  retention' \in BOOLEAN
    BY <1>2, ReapDoes, Zenon
<1>3. CASE UNCHANGED vars
    BY <1>1, <1>3, Zenon DEF vars
<1>4. CASE HostStep
    BY <1>1, <1>4, Zenon DEF HostStep, HostUpdates, HostRemoves, HostTexts,
        Asks, HostReleases, HostDetaches, HostLoses, registry
<1>5. CASE Attach
    BY <1>1, <1>5, Zenon DEF Attach, AttachBegins, AttachFails,
        AttachFailsResidue, AttachDone, registry, hostVars
<1>6. CASE Dispatch
    BY <1>1, <1>2, <1>6, Zenon DEF Dispatch, Connects, Reads, ReadsText, ShowReturns,
        ReadsDetach, ReadFails, RemovesRequested, RequestedDone,
        ReapsBeforeDispatch, Checks, Sends, Returned, SendTimesOut, Answers,
        DispatchFails, registry, hostVars
<1>7. CASE Ending
    BY <1>1, <1>2, <1>7, Zenon DEF Ending, RemoveAllClaims, RemoveAllCleans,
        RemoveAllDone, Drains, Reports, Finalizes, registry, hostVars
<1>8. ASSUME NEW w \in Windows, Handler(w)
      PROVE  Flags'
    BY <1>1, <1>2, <1>8, Zenon DEF Handler, Receives, DecidesRemoval,
        DecidesUpdate, Applies, RetireClaims, RetireCleans, RetireTimesOut,
        ReapsForUpdate, Creates, CreatesNothing, CreatesResidue, Publishes,
        PublishFails, HandlerThrows, worldVars, registry, hostVars
<1>9. ASSUME NEW w \in Windows, Explorer(w)
      PROVE  Flags'
    BY <1>1, <1>9, Zenon DEF Explorer, DestroyClaims, DestroyShelters,
        DestroyUnseen, ThreadEnds, WindowOpens, registry, hostVars
<1> QED BY <1>3, <1>4, <1>5, <1>6, <1>7, <1>8, <1>9, Zenon
        DEF Next, WorkerStep

Request == [kind : {"none", "update", "remove", "text", "detach"},
            win : Windows \cup {NoWindow}, gen : 0..MaxGen]
HostStates == {"attaching", "serving", "awaiting", "released", "detaching",
               "lost", "detached"}

(* What happens between the Host and the worker keeps its types.           *)
LEMMA PipeTyped ==
    ASSUME ProcessTypeOK, PipeInv, [Next]_vars
    PROVE  /\ request' \in Request /\ host' \in HostStates
           /\ mirror' \in [Windows -> 0..MaxGen]
           /\ latest' \in [Windows -> 0..MaxGen]
           /\ live' \subseteq Windows /\ closed' \subseteq Windows
<1>0. /\ request \in Request /\ host \in HostStates
      /\ mirror \in [Windows -> 0..MaxGen]
      /\ latest \in [Windows -> 0..MaxGen]
      /\ live \subseteq Windows /\ closed \subseteq Windows
    BY DEF ProcessTypeOK, Request, HostStates
<1> USE <1>0
<1>r. NoRequest \in Request /\ [NoRequest EXCEPT !.kind = "detach"] \in Request
    BY RuntimeAssumption DEF NoRequest, Request
<1>m. \A w \in Windows : mirror[w] \in 0..MaxGen
    OBVIOUS
<1>1. CASE UNCHANGED vars
    BY <1>1 DEF vars
<1>2. CASE HostStep
    <2>1. ASSUME NEW w \in Windows, HostUpdates(w)
          PROVE  /\ UNCHANGED <<live, mirror>> /\ host' = "awaiting"
                 /\ latest' \in [Windows -> 0..MaxGen]
                 /\ request' \in Request
                 /\ closed' \subseteq Windows
        BY <2>1, RuntimeAssumption DEF HostUpdates, Asks, Request
    <2>2. ASSUME NEW w \in Windows, HostRemoves(w) \/ HostTexts(w)
          PROVE  /\ UNCHANGED <<live, mirror, closed, latest>>
                 /\ request' \in Request /\ host' = "awaiting"
        BY <2>2, <1>m DEF HostRemoves, HostTexts, Asks, Request
    <2>3. CASE HostReleases \/ HostDetaches \/ HostLoses
        BY <2>3, <1>r DEF HostReleases, HostDetaches, HostLoses, explorer,
            Asks, HostStates
    <2> QED BY <1>2, <2>1, <2>2, <2>3 DEF HostStep, HostStates
<1>3. CASE Attach
    BY <1>3 DEF Attach, AttachBegins, AttachFails,
        AttachFailsResidue, AttachDone, explorer, hostVars
<1>4. CASE Dispatch
    <2>1. ASSUME NEW ok \in BOOLEAN, Answers(ok)
          PROVE  /\ request' \in Request /\ latest' = latest
                 /\ host' \in HostStates
                 /\ mirror' \in [Windows -> 0..MaxGen]
        <3>1. request.gen \in 0..MaxGen
            BY DEF Request
        <3>2. mirror' \in [Windows -> 0..MaxGen]
            BY <2>1, <3>1, RuntimeAssumption DEF Answers
        <3> QED BY <2>1, <3>2, <1>r DEF Answers, HostStates
    <2>2. CASE Connects \/ Reads \/ ReadsDetach \/ ReadFails
               \/ RemovesRequested \/ RequestedDone
        BY <2>1, <2>2 DEF Connects, Reads, ReadsDetach, ReadFails,
            RemovesRequested, RequestedDone, DispatchFails, explorer, hostVars,
            HostStates
    <2>3. CASE ReadsText \/ ShowReturns
        BY <2>1, <2>3 DEF ReadsText, ShowReturns, explorer, hostVars
    <2>4. CASE Returned
        <3>1. pending.ok \in BOOLEAN
            BY DEF ProcessTypeOK
        <3> QED BY <2>1, <2>4, <3>1 DEF Returned, DispatchFails, explorer,
                hostVars
    <2>5. CASE ReapsBeforeDispatch \/ Checks \/ Sends \/ SendTimesOut
        BY <2>1, <2>5 DEF ReapsBeforeDispatch, Checks, Sends, SendTimesOut,
            DispatchFails, explorer, hostVars
    <2> QED BY <1>4, <2>2, <2>3, <2>4, <2>5 DEF Dispatch
<1>5. CASE Ending
    BY <1>5 DEF Ending, RemoveAllClaims, RemoveAllCleans, RemoveAllDone,
        Drains, Reports, Finalizes, explorer, hostVars, HostStates
<1>6. ASSUME NEW w \in Windows, Handler(w)
      PROVE  UNCHANGED <<request, hostVars, explorer>>
    BY <1>6 DEF Handler, Receives, DecidesRemoval,
        DecidesUpdate, Applies, RetireClaims, RetireCleans, RetireTimesOut,
        ReapsForUpdate, Creates, CreatesNothing, CreatesResidue, Publishes,
        PublishFails, HandlerThrows, worldVars
<1>7. ASSUME NEW w \in Windows, Explorer(w)
      PROVE  UNCHANGED <<request, hostVars>> /\ live' \subseteq Windows
             /\ closed' \subseteq Windows
    BY <1>7 DEF Explorer, DestroyClaims, DestroyShelters,
        DestroyUnseen, ThreadEnds, WindowOpens, explorer, Gone
<1> QED BY <1>1, <1>2, <1>3, <1>4, <1>5, <1>6, <1>7
        DEF Next, WorkerStep, hostVars, explorer

Pending == [token : 0..MaxToken, kind : {"update", "remove"},
            win : Windows \cup {NoWindow}, gen : 0..MaxGen,
            completed : BOOLEAN, ok : BOOLEAN]
SentStates == {"none", "waiting", "returned", "failed"}

(* So does what passes between the worker and the UI threads.              *)
LEMMA ControlTyped ==
    ASSUME ProcessTypeOK, PipeInv, [Next]_vars
    PROVE  /\ pending' \in Pending /\ nextToken' \in 0..MaxToken
           /\ posted' \subseteq Message /\ sent' \in SentStates
<1>0. /\ pending \in Pending /\ nextToken \in 0..MaxToken
      /\ posted \subseteq Message /\ sent \in SentStates
      /\ request \in Request
    BY DEF ProcessTypeOK, Pending, SentStates, Request
<1> USE <1>0
<1>1. CASE UNCHANGED control
    BY <1>1 DEF control
<1>2. CASE Sends
    <2>1. /\ nextToken + 1 \in 1..MaxToken /\ request.kind \in {"update", "remove"}
          /\ request.win \in Windows
        BY <1>2, RuntimeAssumption DEF Sends, PipeInv, Dispatching
    <2>2. [token |-> nextToken + 1, kind |-> request.kind,
           win |-> request.win, gen |-> request.gen,
           completed |-> FALSE, ok |-> TRUE] \in Pending
        BY <2>1 DEF Pending, Request
    <2>3. [win |-> request.win, token |-> nextToken + 1] \in Message
        BY <2>1 DEF Message
    <2>4. nextToken' \in 0..MaxToken
        BY <1>2, <2>1 DEF Sends
    <2>5. pending' \in Pending
        BY <1>2, <2>2, Zenon DEF Sends
    <2>6. posted' \subseteq Message /\ sent' \in SentStates
        BY <1>2, <2>3 DEF Sends, SentStates
    <2> QED BY <2>4, <2>5, <2>6
<1>3. CASE Returned \/ SendTimesOut
    BY <1>3 DEF Returned, SendTimesOut, SentStates
<1>4. ASSUME NEW w \in Windows, NEW ok \in BOOLEAN, Completes(w, ok)
      PROVE  /\ pending' \in Pending /\ nextToken' \in 0..MaxToken
             /\ posted' \subseteq Message /\ sent' \in SentStates
    BY <1>4 DEF Completes, Returns, Pending, SentStates
<1>5. ASSUME NEW w \in Windows, Receives(w)
      PROVE  /\ pending' \in Pending /\ nextToken' \in 0..MaxToken
             /\ posted' \subseteq Message /\ sent' \in SentStates
    BY <1>5, RuntimeAssumption DEF Receives, Returns, Pending, SentStates
<1>6. ASSUME NEW w \in Windows, DestroyShelters(w) \/ DestroyUnseen(w)
      PROVE  /\ pending' \in Pending /\ nextToken' \in 0..MaxToken
             /\ posted' \subseteq Message /\ sent' \in SentStates
    BY <1>6 DEF DestroyShelters, DestroyUnseen, Gone, SentStates
<1>7. ASSUME NEW w \in Windows, Handler(w)
      PROVE  UNCHANGED control \/ Receives(w)
             \/ (\E ok \in BOOLEAN : Completes(w, ok)) \/ HandlerThrows(w)
    <2>1. CASE Receives(w) \/ DecidesRemoval(w) \/ DecidesUpdate(w)
               \/ Applies(w) \/ RetireClaims(w)
        BY <2>1 DEF DecidesRemoval, DecidesUpdate, Applies, RetireClaims
    <2>2. CASE RetireCleans(w) \/ RetireTimesOut(w)
        BY <2>2 DEF RetireCleans, RetireTimesOut
    <2>3. CASE ReapsForUpdate(w) \/ Creates(w) \/ CreatesNothing(w)
        BY <2>3 DEF ReapsForUpdate, Creates, CreatesNothing
    <2>4. CASE CreatesResidue(w) \/ Publishes(w) \/ PublishFails(w)
               \/ HandlerThrows(w)
        BY <2>4 DEF CreatesResidue, Publishes, PublishFails
    <2> QED BY <1>7, <2>1, <2>2, <2>3, <2>4 DEF Handler
<1>8. ASSUME NEW w \in Windows, HandlerThrows(w)
      PROVE  /\ pending' \in Pending /\ nextToken' \in 0..MaxToken
             /\ posted' \subseteq Message /\ sent' \in SentStates
    BY <1>8 DEF HandlerThrows, Returns, SentStates
<1>9. HostStep \/ Attach \/ Ending \/ UNCHANGED vars => UNCHANGED control
    BY DEF HostStep, HostUpdates, HostRemoves, HostTexts, Asks, HostReleases,
        HostDetaches, HostLoses, Attach, AttachBegins, AttachFails,
        AttachFailsResidue, AttachDone, Ending, RemoveAllClaims,
        RemoveAllCleans, RemoveAllDone, Drains, Reports, Finalizes, vars,
        control
<1>10. Dispatch => UNCHANGED control \/ Sends \/ Returned \/ SendTimesOut
    BY DEF Dispatch, Connects, Reads, ReadsText, ShowReturns, ReadsDetach, ReadFails,
        RemovesRequested, RequestedDone, ReapsBeforeDispatch, Checks, control
<1>11. ASSUME NEW w \in Windows, Explorer(w)
       PROVE  UNCHANGED control \/ DestroyShelters(w) \/ DestroyUnseen(w)
    BY <1>11 DEF Explorer, DestroyClaims, ThreadEnds, WindowOpens
<1> QED BY <1>1, <1>2, <1>3, <1>4, <1>5, <1>6, <1>7, <1>8, <1>9, <1>10, <1>11
        DEF Next, WorkerStep

WorkerRecord == [pc : {"attaching", "connecting", "absent", "reading",
                       "showing", "requested", "reaping", "checking",
                       "sending", "waiting", "removing", "cleaning",
                       "draining", "reporting", "finalizing", "retained",
                       "unloaded"},
                 slot : 0..MaxSlots, failed : BOOLEAN, detach : BOOLEAN]

(* And where the worker is.                                                *)
LEMMA WorkerTyped ==
    ASSUME ProcessTypeOK, [Next]_vars
    PROVE  worker' \in WorkerRecord
<1>0. worker \in WorkerRecord
    BY DEF ProcessTypeOK, WorkerRecord
<1>1. CASE UNCHANGED worker
    BY <1>0, <1>1
<1>2. CASE Attach
    BY <1>0, <1>2 DEF Attach, AttachBegins, AttachFails, AttachFailsResidue,
        Goes, WorkerRecord
<1>3. CASE Dispatch
    <2>1. Slots \subseteq 0..MaxSlots /\ 0 \in 0..MaxSlots
        BY RuntimeAssumption DEF Slots
    <2>2. ASSUME DispatchFails \/ \E ok \in BOOLEAN : Answers(ok)
          PROVE  worker' \in WorkerRecord
        BY <1>0, <2>1, <2>2 DEF DispatchFails, Answers, WorkerRecord
    <2>3. CASE ReadsText \/ ShowReturns
        BY <1>0, <2>1, <2>2, <2>3 DEF ReadsText, ShowReturns, WorkerRecord
    <2>4. CASE Connects \/ Reads \/ ReadsDetach \/ ReadFails \/ RemovesRequested
               \/ RequestedDone
        BY <1>0, <2>2, <2>4 DEF Connects, Reads, ReadsDetach, ReadFails,
            RemovesRequested, RequestedDone, Goes, WorkerRecord
    <2>5. CASE ReapsBeforeDispatch \/ Checks \/ Sends \/ Returned \/ SendTimesOut
        <3>1. pending.ok \in BOOLEAN
            BY DEF ProcessTypeOK
        <3> QED BY <1>0, <2>2, <2>5, <3>1 DEF ReapsBeforeDispatch, Checks,
                Sends, Returned, SendTimesOut, Goes, WorkerRecord
    <2> QED BY <1>3, <2>3, <2>4, <2>5 DEF Dispatch
<1>4. CASE Ending
    <2>1. CASE RemoveAllClaims
        <3>1. Occupied \subseteq 0..MaxSlots
            BY RuntimeAssumption DEF Occupied, Slots
        <3> QED BY <1>0, <2>1, <3>1 DEF RemoveAllClaims, WorkerRecord
    <2>2. CASE RemoveAllCleans
        <3>1. PICK ok \in BOOLEAN :
                  worker' = [worker EXCEPT !.pc = "removing", !.slot = 0,
                                           !.failed = @ \/ ~ok]
            BY <2>2 DEF RemoveAllCleans
        <3>2. \/ (worker.failed \/ ~ok) = TRUE
              \/ (worker.failed \/ ~ok) = FALSE
            BY Zenon
        <3>3. \/ worker' = [worker EXCEPT !.pc = "removing", !.slot = 0,
                                          !.failed = TRUE]
              \/ worker' = [worker EXCEPT !.pc = "removing", !.slot = 0,
                                          !.failed = FALSE]
            BY <3>1, <3>2, Zenon
        <3>4. 0 \in 0..MaxSlots
            BY RuntimeAssumption
        <3> QED BY <1>0, <3>3, <3>4, Zenon DEF WorkerRecord
    <2>3. CASE RemoveAllDone \/ Drains \/ Reports \/ Finalizes
        BY <1>0, <2>3 DEF RemoveAllDone, Drains, Reports, Finalizes, Goes,
            WorkerRecord
    <2> QED BY <1>4, <2>1, <2>2, <2>3 DEF Ending
<1>5. HostStep \/ UNCHANGED vars => UNCHANGED worker
    BY DEF HostStep, HostUpdates, HostRemoves, HostTexts, Asks, HostReleases,
        HostDetaches, HostLoses, vars
<1>6. ASSUME NEW w \in Windows, Handler(w)
      PROVE  UNCHANGED worker
    BY <1>6 DEF Handler, Receives, DecidesRemoval,
        DecidesUpdate, Applies, RetireClaims, RetireCleans, RetireTimesOut,
        ReapsForUpdate, Creates, CreatesNothing, CreatesResidue, Publishes,
        PublishFails, HandlerThrows, worldVars
<1>7. ASSUME NEW w \in Windows, Explorer(w)
      PROVE  UNCHANGED worker
    BY <1>7 DEF Explorer, DestroyClaims, DestroyShelters,
        DestroyUnseen, ThreadEnds, WindowOpens
<1> QED BY <1>1, <1>2, <1>3, <1>4, <1>5, <1>6, <1>7 DEF Next, WorkerStep

UiRecord == [pc : {"idle", "attaching", "deciding", "applying", "retiring",
                   "cleaning", "reaping", "creating", "publishing",
                   "sheltering"},
             slot : 0..MaxSlots]

(* And where the UI threads are.                                           *)
LEMMA UiTyped ==
    ASSUME ProcessTypeOK, PlaceInv, [Next]_vars
    PROVE  ui' \in [Windows -> UiRecord]
<1>0. ui \in [Windows -> UiRecord]
    BY DEF ProcessTypeOK, UiRecord
<1>1. CASE UNCHANGED ui
    BY <1>0, <1>1
<1>2. Idle \in UiRecord
    BY RuntimeAssumption DEF Idle, UiRecord
<1>3. CASE Attach
    BY <1>0, <1>2, <1>3 DEF Attach, AttachBegins, AttachFails,
        AttachFailsResidue, AttachDone
<1>4. HostStep \/ WorkerStep \/ UNCHANGED vars => UNCHANGED ui
    BY DEF WorkerStep, HostStep, HostUpdates, HostRemoves, HostTexts, Asks,
        HostReleases, HostDetaches, HostLoses, vars, Dispatch, Connects, Reads,
        ReadsText, ShowReturns, ReadsDetach, ReadFails, RemovesRequested, RequestedDone,
        ReapsBeforeDispatch, Checks, Sends, Returned, SendTimesOut,
        Ending, RemoveAllClaims, RemoveAllCleans,
        RemoveAllDone, Drains, Reports, Finalizes
<1>5. ASSUME NEW w \in Windows, Handler(w)
      PROVE  \E pc \in {"deciding", "applying", "retiring", "cleaning", "reaping",
                        "creating", "publishing"}, s \in 0..MaxSlots :
                 Moves(w, pc, s) \/ Returns(w)
    <2>1. Slots \subseteq 0..MaxSlots /\ 0 \in 0..MaxSlots
        BY RuntimeAssumption DEF Slots
    <2>2. CASE Receives(w) \/ DecidesRemoval(w) \/ DecidesUpdate(w)
               \/ Applies(w)
        BY <2>1, <2>2 DEF Receives, DecidesRemoval, DecidesUpdate, Applies,
            Completes
    <2>3. CASE RetireClaims(w) \/ RetireCleans(w) \/ RetireTimesOut(w)
        <3>1. ui[w].slot \in 0..MaxSlots
            BY <1>0 DEF UiRecord
        <3> QED BY <2>1, <2>3, <3>1 DEF RetireClaims, RetireCleans,
                RetireTimesOut, Completes
    <2>4. CASE ReapsForUpdate(w) \/ Creates(w) \/ CreatesNothing(w)
               \/ CreatesResidue(w) \/ Publishes(w) \/ PublishFails(w)
               \/ HandlerThrows(w)
        BY <2>1, <2>4 DEF ReapsForUpdate, Creates, CreatesNothing,
            CreatesResidue, Publishes, PublishFails, HandlerThrows, Completes
    <2> QED BY <1>5, <2>2, <2>3, <2>4 DEF Handler
<1>6. ASSUME NEW w \in Windows, Explorer(w)
      PROVE  \/ UNCHANGED ui \/ ui' = [ui EXCEPT ![w] = Idle]
             \/ \E s \in 0..MaxSlots : Moves(w, "sheltering", s)
    <2>1. Slots \subseteq 0..MaxSlots
        BY RuntimeAssumption DEF Slots
    <2> QED BY <1>6, <2>1 DEF Explorer, DestroyClaims, DestroyShelters,
        DestroyUnseen, ThreadEnds, WindowOpens
<1> QED BY <1>0, <1>1, <1>2, <1>3, <1>4, <1>5, <1>6
        DEF Next, Moves, Returns, UiRecord

(* What a cleanup leaves of its slot.                                      *)
LEMMA CleanedIs ==
    ASSUME ProcessTypeOK, NEW s \in Slots, NEW ok \in BOOLEAN
    PROVE  /\ Cleaned(s, ok) \in SlotRecord
           /\ ~Cleaned(s, ok).occupied /\ Cleaned(s, ok).removed
           /\ Cleaned(s, ok).win = slots[s].win
           /\ Cleaned(s, ok).admitted = slots[s].admitted
           /\ Cleaned(s, ok).life = IF ok THEN "cleaned" ELSE "failed"
           /\ Cleaned(s, ok).pane = IF ok THEN "none" ELSE slots[s].pane
<1>1. slots[s] \in SlotRecord
    BY DEF ProcessTypeOK
<1>2. CASE ok
    BY <1>1, <1>2 DEF Cleaned, SlotRecord
<1>3. CASE ~ok
    BY <1>1, <1>3 DEF Cleaned, SlotRecord
<1> QED BY <1>2, <1>3

(* The slot that a creation fills.                                         *)
LEMMA CreatesDoes ==
    ASSUME ProcessTypeOK, NEW w \in Windows, Creates(w)
    PROVE  \E s \in Slots :
              /\ Chosen(s) /\ Moves(w, "publishing", s)
              /\ \E r \in SlotRecord :
                    /\ slots' = [slots EXCEPT ![s] = r]
                    /\ r.win = w /\ r.gen = pending.gen /\ r.life = "active"
                    /\ r.occupied /\ ~r.removed /\ r.pane = "shown"
                    /\ r.admitted = slots[s].admitted
<1>1. PICK s \in Slots :
        /\ Chosen(s) /\ Moves(w, "publishing", s)
        /\ slots' = [slots EXCEPT
                ![s].win = w, ![s].gen = pending.gen,
                ![s].order = nextOrder + 1, ![s].life = "active",
                ![s].occupied = TRUE, ![s].pane = "shown"]
    BY DEF Creates
<1> DEFINE r == [slots[s] EXCEPT !.win = w, !.gen = pending.gen,
                    !.order = nextOrder + 1, !.life = "active",
                    !.occupied = TRUE, !.pane = "shown"]
<1>2. slots \in [Slots -> SlotRecord] /\ slots[s] \in SlotRecord
      /\ nextOrder + 1 \in Nat /\ pending.gen \in 0..MaxGen
    BY DEF ProcessTypeOK
<1>3. slots' = [slots EXCEPT ![s] = r]
    BY <1>1, <1>2, Zenon
<1>4. r \in SlotRecord
    BY <1>2, Zenon DEF SlotRecord
<1>5. /\ r.win = w /\ r.gen = pending.gen /\ r.life = "active"
      /\ r.occupied /\ ~r.removed /\ r.pane = "shown"
      /\ r.admitted = slots[s].admitted
    BY <1>1, <1>2 DEF SlotRecord, Chosen, Vacant
<1> QED BY <1>1, <1>3, <1>4, <1>5

(* And what a creation that cannot be taken back leaves in it.             *)
LEMMA ResidueDoes ==
    ASSUME ProcessTypeOK, NEW w \in Windows, CreatesResidue(w)
    PROVE  \E s \in Slots :
              /\ Chosen(s)
              /\ \E r \in SlotRecord :
                    /\ slots' = [slots EXCEPT ![s] = r]
                    /\ r.win = w /\ r.life = "failed"
                    /\ ~r.occupied /\ r.removed /\ r.pane = "shown"
                    /\ r.admitted = slots[s].admitted
<1>1. PICK s \in Slots :
        /\ Chosen(s)
        /\ slots' = [slots EXCEPT
                ![s].win = w, ![s].gen = pending.gen,
                ![s].order = nextOrder + 1, ![s].life = "failed",
                ![s].removed = TRUE, ![s].pane = "shown"]
    BY DEF CreatesResidue
<1> DEFINE r == [slots[s] EXCEPT !.win = w, !.gen = pending.gen,
                    !.order = nextOrder + 1, !.life = "failed",
                    !.removed = TRUE, !.pane = "shown"]
<1>2. slots \in [Slots -> SlotRecord] /\ slots[s] \in SlotRecord
      /\ nextOrder + 1 \in Nat /\ pending.gen \in 0..MaxGen
    BY DEF ProcessTypeOK
<1>3. slots' = [slots EXCEPT ![s] = r]
    BY <1>1, <1>2, Zenon
<1>4. r \in SlotRecord
    BY <1>2, Zenon DEF SlotRecord
<1>5. /\ r.win = w /\ r.life = "failed"
      /\ ~r.occupied /\ r.removed /\ r.pane = "shown"
      /\ r.admitted = slots[s].admitted
    BY <1>1, <1>2 DEF SlotRecord, Chosen, Vacant
<1> QED BY <1>1, <1>3, <1>4, <1>5

(* The slots keep their type.                                              *)
LEMMA SlotsTyped ==
    ASSUME ProcessTypeOK, PlaceInv, [Next]_vars
    PROVE  slots' \in [Slots -> SlotRecord] /\ nextOrder' \in Nat
<1>0. /\ slots \in [Slots -> SlotRecord] /\ nextOrder \in Nat
      /\ pending.gen \in 0..MaxGen
      /\ \A s \in Slots : slots[s] \in SlotRecord
    BY DEF ProcessTypeOK
<1>1. CASE UNCHANGED <<slots, nextOrder>>
    BY <1>0, <1>1
<1>2. CASE Attach
    <2>1. Initial \in SlotRecord /\ [Initial EXCEPT !.admitted = TRUE] \in SlotRecord
          /\ [Initial EXCEPT !.life = "failed", !.occupied = FALSE,
                             !.removed = TRUE] \in SlotRecord
        <3>1. 0 \in 0..MaxGen /\ 0 \in Nat /\ 1 \in Nat /\ First \in Windows
            BY RuntimeAssumption
        <3> QED BY <3>1, Zenon DEF Initial, Free, SlotRecord
    <2>2. 1 \in Nat
        OBVIOUS
    <2>3. CASE AttachBegins
        BY <1>0, <2>1, <2>2, <2>3 DEF AttachBegins
    <2>4. CASE AttachFails
        BY <1>1, <2>4 DEF AttachFails, registry
    <2>5. CASE AttachFailsResidue
        BY <1>0, <1>1, <2>1, <2>2, <2>5 DEF AttachFailsResidue, registry
    <2> QED BY <1>2, <2>3, <2>4, <2>5 DEF Attach
<1>3. ASSUME NEW s \in Slots, NEW ok \in BOOLEAN,
             slots' = [slots EXCEPT ![s] = Cleaned(s, ok)]
      PROVE  slots' \in [Slots -> SlotRecord]
    BY <1>0, <1>3, CleanedIs
<1>4. CASE RemovesRequested
    BY <1>0, <1>3, <1>4 DEF RemovesRequested, Requested, Occupied
<1>5. CASE ReapsBeforeDispatch \/ Reports
    BY <1>0, <1>5, ReapDoes DEF ReapsBeforeDispatch, Reports
<1>6. CASE RemoveAllClaims
    BY <1>0, <1>6 DEF RemoveAllClaims, Occupied, SlotRecord
<1>7. CASE RemoveAllCleans
    BY <1>0, <1>3, <1>7 DEF RemoveAllCleans, PlaceInv, WorkerPlaced
<1>8. CASE Finalizes
    BY <1>0, <1>8 DEF Finalizes, SlotRecord
<1>9. ASSUME NEW w \in Windows, Handler(w)
      PROVE  slots' \in [Slots -> SlotRecord] /\ nextOrder' \in Nat
    <2>1. CASE Receives(w) \/ DecidesRemoval(w) \/ DecidesUpdate(w)
               \/ CreatesNothing(w) \/ HandlerThrows(w)
        BY <1>0, <2>1 DEF Receives, DecidesRemoval, DecidesUpdate,
            CreatesNothing, HandlerThrows, registry
    <2>2. CASE Applies(w) \/ RetireClaims(w) \/ RetireTimesOut(w)
               \/ Publishes(w)
        <3>1. ui[w].slot \in Slots
            BY <2>2 DEF PlaceInv, Placed, Applies, RetireClaims, RetireTimesOut,
                Publishes, At
        <3>2. slots[ui[w].slot] \in SlotRecord
            BY <1>0, <3>1
        <3>3. \A g \in 0..MaxGen :
                 [slots[ui[w].slot] EXCEPT !.gen = g] \in SlotRecord
            BY <3>2, Zenon DEF SlotRecord
        <3>4. /\ [slots[ui[w].slot] EXCEPT !.admitted = TRUE] \in SlotRecord
              /\ [slots[ui[w].slot] EXCEPT !.admitted = FALSE] \in SlotRecord
              /\ [slots[ui[w].slot] EXCEPT !.life = "failed"] \in SlotRecord
              /\ [slots[ui[w].slot] EXCEPT !.admitted = FALSE,
                                           !.life = "cleaning"] \in SlotRecord
            BY <3>2, Zenon DEF SlotRecord
        <3>5. CASE Applies(w)
            BY <1>0, <3>1, <3>3, <3>5 DEF Applies
        <3>6. CASE RetireClaims(w)
            BY <1>0, <3>1, <3>4, <3>6 DEF RetireClaims
        <3>7. CASE RetireTimesOut(w) \/ Publishes(w)
            BY <1>0, <3>1, <3>4, <3>7 DEF RetireTimesOut, Publishes
        <3> QED BY <2>2, <3>5, <3>6, <3>7
    <2>3. CASE RetireCleans(w) \/ PublishFails(w)
        <3>1. ui[w].slot \in Slots
            BY <2>3 DEF PlaceInv, Placed, RetireCleans, PublishFails, At
        <3> QED BY <1>0, <1>3, <2>3, <3>1 DEF RetireCleans, PublishFails
    <2>4. CASE ReapsForUpdate(w)
        BY <1>0, <2>4, ReapDoes DEF ReapsForUpdate
    <2>5. CASE Creates(w) \/ CreatesResidue(w)
        <3>1. nextOrder' \in Nat
            <4>1. nextOrder' = nextOrder + 1
                BY <2>5, Zenon DEF Creates, CreatesResidue
            <4> QED BY <1>0, <4>1
        <3>2. PICK s \in Slots, r \in SlotRecord : slots' = [slots EXCEPT ![s] = r]
            <4>1. CASE Creates(w)
                BY <4>1, CreatesDoes
            <4>2. CASE CreatesResidue(w)
                BY <4>2, ResidueDoes
            <4> QED BY <2>5, <4>1, <4>2
        <3> QED BY <1>0, <3>1, <3>2
    <2> QED BY <1>9, <2>1, <2>2, <2>3, <2>4, <2>5 DEF Handler
<1>10. ASSUME NEW w \in Windows, Explorer(w)
       PROVE  slots' \in [Slots -> SlotRecord] /\ nextOrder' \in Nat
    <2>1. CASE DestroyClaims(w)
        <3>1. \A s \in Slots : [slots[s] EXCEPT !.life = "cleaning",
                                       !.admitted = FALSE] \in SlotRecord
            BY <1>0, Zenon DEF SlotRecord
        <3> QED BY <1>0, <2>1, <3>1 DEF DestroyClaims
    <2>2. CASE DestroyShelters(w)
        <3>1. ui[w].slot \in Slots
            BY <2>2 DEF PlaceInv, Placed, DestroyShelters, At
        <3> QED BY <1>0, <2>2, <3>1 DEF DestroyShelters, SlotRecord
    <2>3. CASE DestroyUnseen(w) \/ ThreadEnds(w) \/ WindowOpens(w)
        BY <1>0, <2>3 DEF DestroyUnseen, ThreadEnds, WindowOpens, SlotRecord,
            registry
    <2> QED BY <1>10, <2>1, <2>2, <2>3 DEF Explorer
<1>11. HostStep \/ UNCHANGED vars => UNCHANGED <<slots, nextOrder>>
    BY DEF HostStep, HostUpdates, HostRemoves, HostTexts, Asks, HostReleases,
        HostDetaches, HostLoses, vars, registry
<1>12. Dispatch => \/ UNCHANGED <<slots, nextOrder>> \/ RemovesRequested
                   \/ ReapsBeforeDispatch
    BY DEF Dispatch, Connects, Reads, ReadsText, ShowReturns, ReadsDetach, ReadFails,
        RequestedDone, Checks, Sends, Returned, SendTimesOut, registry
<1>13. Ending => \/ UNCHANGED <<slots, nextOrder>> \/ RemoveAllClaims
                 \/ RemoveAllCleans \/ Reports \/ Finalizes
    BY DEF Ending, RemoveAllDone, Drains, registry
<1>14. RemovesRequested \/ RemoveAllClaims \/ RemoveAllCleans \/ Finalizes
           => UNCHANGED nextOrder
    BY DEF RemovesRequested, RemoveAllClaims, RemoveAllCleans, Finalizes
<1>15. ReapsBeforeDispatch \/ Reports => UNCHANGED nextOrder
    BY DEF ReapsBeforeDispatch, Reports, Reap
<1> QED BY <1>0, <1>1, <1>2, <1>4, <1>5, <1>6, <1>7, <1>8, <1>9, <1>10, <1>11,
        <1>12, <1>13, <1>14, <1>15 DEF Next, WorkerStep

(* Every step keeps the types.                                             *)
LEMMA ProcessTyped ==
    ASSUME ProcessTypeOK, PipeInv, PlaceInv, [Next]_vars
    PROVE  ProcessTypeOK'
BY RuntimeFlagsTyped, PipeTyped, ControlTyped, WorkerTyped, UiTyped, SlotsTyped,
   Zenon DEF ProcessTypeOK, Request, HostStates, Pending, SentStates,
             WorkerRecord, UiRecord

-----------------------------------------------------------------------------
(* The pipe.                                                               *)

(* No handler and nothing that Explorer does touches the pipe.             *)
LEMMA WindowsLeavePipe ==
    ASSUME NEW w \in Windows, Handler(w) \/ Explorer(w)
    PROVE  UNCHANGED <<worker, request, hostVars, nextToken>>
<1>1. CASE Handler(w)
    BY <1>1 DEF Handler, Receives, DecidesRemoval, DecidesUpdate, Applies,
        RetireClaims, RetireCleans, RetireTimesOut, ReapsForUpdate, Creates,
        CreatesNothing, CreatesResidue, Publishes, PublishFails, HandlerThrows,
        Completes, worldVars, control
<1>2. CASE Explorer(w)
    BY <1>2 DEF Explorer, DestroyClaims, DestroyShelters, DestroyUnseen,
        ThreadEnds, WindowOpens, Gone, control
<1> QED BY <1>1, <1>2

(* Every step keeps what the two ends of the pipe know of each other.      *)
LEMMA PipeKept ==
    ASSUME ProcessTypeOK, PipeInv, EndInv, [Next]_vars
    PROVE  PipeInv'
<1> USE DEF PipeInv, Dispatching
<1>0. /\ worker \in WorkerRecord /\ request \in Request
      /\ NoRequest.kind = "none"
    BY DEF ProcessTypeOK, WorkerRecord, Request, NoRequest
<1>1. CASE UNCHANGED <<worker, request, hostVars, nextToken>>
    BY <1>1 DEF hostVars
<1>2. CASE HostStep
    <2>1. ASSUME NEW w \in Windows, HostUpdates(w) \/ HostRemoves(w) \/ HostTexts(w)
          PROVE  PipeInv'
        BY <1>0, <2>1 DEF HostUpdates, HostRemoves, HostTexts, Asks, control
    <2>2. CASE HostReleases \/ HostDetaches
        BY <1>0, <2>2 DEF HostReleases, HostDetaches, Asks, NoRequest, control
    <2>3. CASE HostLoses
        <3>1. hookReleased' => ~hooked'
            BY <2>3, Zenon DEF HostLoses
        <3> QED BY <1>0, <2>3, <3>1 DEF HostLoses, control
    <2> QED BY <1>2, <2>1, <2>2, <2>3 DEF HostStep
<1>3. CASE Attach
    BY <1>0, <1>3, RuntimeAssumption DEF Attach, AttachBegins, AttachFails,
        AttachFailsResidue, AttachDone, Goes, WorkerRecord, EndInv, hostVars,
        control
<1>4. CASE Dispatch
    <2> DEFINE Asked == request.kind \in {"update", "remove", "text"}
    <2>1. ASSUME NEW ok \in BOOLEAN, Answers(ok), Asked
          PROVE  PipeInv'
        BY <1>0, <2>1 DEF Answers, WorkerRecord
    <2>2. ASSUME DispatchFails, Asked
          PROVE  PipeInv'
        <3>1. CASE request.kind = "update"
            BY <1>0, <2>2, <3>1 DEF DispatchFails, WorkerRecord, hostVars
        <3>2. CASE request.kind # "update"
            BY <2>1, <2>2, <3>2 DEF DispatchFails
        <3> QED BY <3>1, <3>2
    <2>3. CASE Connects \/ ReadsDetach \/ ReadFails
        <3>1. CASE Connects
            BY <1>0, <3>1 DEF Connects, Goes, WorkerRecord, control
        <3>2. CASE ReadsDetach
            BY <1>0, <3>2 DEF ReadsDetach, WorkerRecord, hostVars, control
        <3>3. CASE ReadFails
            BY <1>0, <3>3 DEF ReadFails, Goes, WorkerRecord, hostVars, control
        <3> QED BY <2>3, <3>1, <3>2, <3>3
    <2>4. CASE Reads
        BY <1>0, <2>2, <2>4 DEF Reads, Goes, WorkerRecord, hostVars, control
    <2>5. CASE ReadsText \/ ShowReturns
        <3>1. Asked /\ worker.pc \in {"reading", "showing"} /\ UNCHANGED nextToken
            BY <2>5 DEF ReadsText, ShowReturns, control
        <3>2. \/ \E ok \in BOOLEAN : Answers(ok)
              \/ /\ worker'.pc = "showing" /\ request.kind = "text"
                 /\ UNCHANGED <<request, hostVars>>
            BY <1>0, <2>5 DEF ReadsText, ShowReturns, WorkerRecord
        <3>3. CASE /\ worker'.pc = "showing" /\ request.kind = "text"
                   /\ UNCHANGED <<request, hostVars>>
            <4>1. host # "attaching" /\ host \notin {"serving", "released"}
                BY <3>1, <3>3
            <4> QED BY <3>1, <3>3, <4>1 DEF hostVars
        <3> QED BY <2>1, <3>1, <3>2, <3>3
    <2>6. CASE RemovesRequested \/ RequestedDone
        BY <1>0, <2>2, <2>6 DEF RemovesRequested, RequestedDone, Goes,
            WorkerRecord, hostVars, control
    <2>7. CASE ReapsBeforeDispatch \/ Checks
        <3>1. nextToken # MaxToken => nextToken < MaxToken
            BY RuntimeAssumption DEF ProcessTypeOK
        <3> QED BY <1>0, <2>2, <2>7, <3>1 DEF ReapsBeforeDispatch, Checks, Goes,
            WorkerRecord, hostVars, control
    <2>8. CASE Sends
        BY <1>0, <2>2, <2>8 DEF Sends, Goes, WorkerRecord, hostVars
    <2>9. CASE Returned \/ SendTimesOut
        <3>1. pending.ok \in BOOLEAN
            BY DEF ProcessTypeOK
        <3> QED BY <1>0, <2>1, <2>2, <2>9, <3>1 DEF Returned, SendTimesOut
    <2> QED BY <1>4, <2>3, <2>4, <2>5, <2>6, <2>7, <2>8, <2>9 DEF Dispatch
<1>5. CASE Ending
    <2>1. CASE RemoveAllClaims \/ RemoveAllDone \/ Drains \/ Finalizes
        <3>1. /\ worker.pc \notin {"attaching", "connecting", "reading"}
              /\ worker'.pc \in {"removing", "cleaning", "draining", "reporting",
                                "retained", "unloaded"}
              /\ UNCHANGED <<request, hostVars, nextToken>>
            BY <1>0, <2>1 DEF RemoveAllClaims, RemoveAllDone, Drains, Finalizes,
                Goes, WorkerRecord, control
        <3>2. host = "attaching" => worker.pc \in {"absent", "retained"}
            BY <3>1
        <3>3. host # "attaching"
            BY <2>1, <3>2 DEF RemoveAllClaims, RemoveAllDone, Drains, Finalizes
        <3> QED BY <3>1, <3>3 DEF hostVars
    <2>2. CASE RemoveAllCleans
        <3>1. /\ worker.pc = "cleaning" /\ worker'.pc = "removing"
              /\ UNCHANGED <<request, hostVars, nextToken>>
            BY <1>0, <2>2 DEF RemoveAllCleans, WorkerRecord, control
        <3> QED BY <3>1 DEF hostVars
    <2>3. CASE Reports
        BY <1>0, <2>3 DEF Reports, Goes, WorkerRecord, control
    <2> QED BY <1>5, <2>1, <2>2, <2>3 DEF Ending
<1> QED BY <1>1, <1>2, <1>3, <1>4, <1>5, WindowsLeavePipe
        DEF Next, WorkerStep, vars, hostVars

-----------------------------------------------------------------------------
(* The pending record.                                                     *)

(* A lost session stays lost, with its hooks.                              *)
LEMMA HopelessStays ==
    ASSUME ProcessTypeOK, PipeInv, EndInv, [Next]_vars
    PROVE  /\ Hopeless => Hopeless'
           /\ ~Serving => ~Serving'
<1>0. worker \in WorkerRecord
    BY DEF ProcessTypeOK, WorkerRecord
<1> USE DEF Hopeless, Serving, PipeInv
<1>1. CASE UNCHANGED <<worker, host, hookReleased>>
    BY <1>1
<1>2. CASE HostStep
    <2>1. /\ UNCHANGED worker
          /\ host \in {"serving", "released"} \/ HostLoses
        BY <1>2 DEF HostStep, HostUpdates, HostRemoves, HostTexts, Asks,
            HostReleases, HostDetaches, HostLoses
    <2>2. HostLoses => host' = "lost" /\ UNCHANGED hookReleased
        BY DEF HostLoses
    <2> QED BY <2>1, <2>2
<1>3. CASE Attach
    BY <1>0, <1>3, RuntimeAssumption DEF Attach, AttachBegins, AttachFails,
        AttachFailsResidue, AttachDone, Goes, EndInv, WorkerRecord, hostVars
<1>4. CASE Dispatch
    <2>1. worker.pc \in {"connecting", "reading", "showing"} \cup Dispatching
        BY <1>4 DEF Dispatch, Connects, Reads, ReadsText, ShowReturns, ReadsDetach,
            ReadFails, RemovesRequested, RequestedDone, ReapsBeforeDispatch,
            Checks, Sends, Returned, SendTimesOut, Dispatching
    <2>2. \/ UNCHANGED <<host, hookReleased>>
          \/ host = "attaching" /\ worker.pc = "connecting"
          \/ host # "lost" /\ UNCHANGED hookReleased
        BY <1>4 DEF Dispatch, Connects, Reads, ReadsText, ShowReturns, ReadsDetach,
            ReadFails, RemovesRequested, RequestedDone, ReapsBeforeDispatch,
            Checks, Sends, Returned, SendTimesOut, DispatchFails, Answers,
            hostVars
    <2> QED BY <2>1, <2>2 DEF Dispatching
<1>5. CASE Ending
    <2>1. worker.pc \in {"removing", "cleaning", "draining", "reporting",
                         "finalizing"}
        BY <1>5 DEF Ending, RemoveAllClaims, RemoveAllCleans, RemoveAllDone,
            Drains, Reports, Finalizes
    <2>2. worker'.pc \in {"removing", "cleaning", "draining", "reporting",
                          "finalizing", "retained", "unloaded"}
        BY <1>0, <1>5 DEF Ending, RemoveAllClaims, RemoveAllCleans,
            RemoveAllDone, Drains, Reports, Finalizes, Goes, WorkerRecord
    <2>3. \/ UNCHANGED <<host, hookReleased>>
          \/ host = "detaching" /\ UNCHANGED hookReleased
        BY <1>5 DEF Ending, RemoveAllClaims, RemoveAllCleans, RemoveAllDone,
            Drains, Reports, Finalizes, hostVars
    <2> QED BY <2>1, <2>2, <2>3
<1> QED BY <1>1, <1>2, <1>3, <1>4, <1>5, WindowsLeavePipe
        DEF Next, WorkerStep, vars, hostVars

(* A handler is woken by its message; from then on it goes on, or returns   *)
(* with a result or without.                                               *)
LEMMA HandlerDoes ==
    ASSUME NEW w \in Windows, Handler(w)
    PROVE  /\ retention => retention'
           /\ \/ Receives(w) /\ UNCHANGED registry
              \/ /\ Handles(w)
                 /\ \/ /\ UNCHANGED control
                       /\ \E pc \in Handling : \E s : Moves(w, pc, s)
                    \/ \E ok \in BOOLEAN : Completes(w, ok)
                    \/ /\ Returns(w) /\ UNCHANGED <<pending, nextToken, posted>>
                       /\ retention'
<1> DEFINE Done == \E ok \in BOOLEAN : Completes(w, ok)
<1>t. Completes(w, TRUE) \/ Completes(w, FALSE) => Done
    BY Zenon
<1> DEFINE Moved == \E pc \in Handling : \E s : Moves(w, pc, s)
<1>m. \A s : \/ Moves(w, "retiring", s) \/ Moves(w, "applying", s)
             \/ Moves(w, "creating", s) \/ Moves(w, "cleaning", s)
             \/ Moves(w, "reaping", s) \/ Moves(w, "publishing", s)
             => Moved
    BY DEF Handling
<1> SUFFICES /\ retention => retention'
             /\ \/ Receives(w) /\ UNCHANGED registry
                \/ /\ Handles(w)
                   /\ \/ UNCHANGED control /\ Moved
                      \/ Done
                      \/ /\ Returns(w) /\ UNCHANGED <<pending, nextToken, posted>>
                         /\ retention'
    BY Zenon
<1> HIDE DEF Done, Moved
<1> USE DEF Handles, Handling, At
<1>1. CASE Receives(w)
    BY <1>1 DEF Receives, registry
<1>2. CASE DecidesRemoval(w)
    BY <1>t, <1>m, <1>2 DEF DecidesRemoval, registry
<1>3. CASE DecidesUpdate(w)
    BY <1>t, <1>m, <1>3 DEF DecidesUpdate, registry
<1>4. CASE Applies(w)
    <2>1. retention' \in {retention, TRUE} => (retention => retention')
        BY Zenon
    <2> QED BY <1>t, <1>4, <2>1, Zenon DEF Applies
<1>5. CASE RetireClaims(w)
    BY <1>t, <1>m, <1>5 DEF RetireClaims
<1>6. CASE RetireCleans(w)
    <2>1. \A ok \in BOOLEAN : retention' = (retention \/ ~ok)
                               => (retention => retention')
        BY Zenon
    <2> QED BY <1>t, <1>m, <1>6, <2>1 DEF RetireCleans
<1>7. CASE RetireTimesOut(w)
    BY <1>t, <1>7, Zenon DEF RetireTimesOut
<1>8. CASE ReapsForUpdate(w)
    BY <1>t, <1>m, <1>8 DEF ReapsForUpdate, Reap
<1>9. CASE Creates(w)
    BY <1>m, <1>9 DEF Creates
<1>10. CASE CreatesNothing(w)
    BY <1>t, <1>10, Zenon DEF CreatesNothing, registry
<1>11. CASE CreatesResidue(w)
    BY <1>t, <1>11, Zenon DEF CreatesResidue
<1>12. CASE Publishes(w)
    BY <1>t, <1>12, Zenon DEF Publishes
<1>13. CASE PublishFails(w)
    <2>1. \A ok \in BOOLEAN : retention' = (retention \/ ~ok)
                               => (retention => retention')
        BY Zenon
    <2> QED BY <1>t, <1>13, <2>1, Zenon DEF PublishFails
<1>14. CASE HandlerThrows(w)
    BY <1>14 DEF HandlerThrows
<1> QED BY <1>1, <1>2, <1>3, <1>4, <1>5, <1>6, <1>7, <1>8, <1>9, <1>10, <1>11,
        <1>12, <1>13, <1>14 DEF Handler

(* Nobody but its handler touches a claimed record, orphan or not.         *)
LEMMA ControlKept ==
    ASSUME ProcessTypeOK, PipeInv, ControlInv, PlaceInv, EndInv, [Next]_vars
    PROVE  ControlInv'
<1>0. /\ worker \in WorkerRecord /\ request \in Request /\ pending \in Pending
      /\ ui \in [Windows -> UiRecord] /\ posted \subseteq Message
    BY DEF ProcessTypeOK, WorkerRecord, Request, Pending, UiRecord
<1>h. (Hopeless => Hopeless') /\ (~Serving => ~Serving')
    BY HopelessStays
<1> USE DEF ControlInv, Handles, Handling
<1>q. worker.pc # "waiting" /\ ~retention =>
          posted = {} /\ pending.token = 0 /\ \A w \in Windows : ~Handles(w)
    OBVIOUS
<1>1. CASE /\ UNCHANGED <<pending, posted, sent, ui, request>>
           /\ worker'.pc = worker.pc /\ (retention => retention')
    BY <1>h, <1>1
<1>2. CASE HostStep
    <2>1. /\ UNCHANGED <<pending, posted, sent, ui, worker, retention>>
          /\ UNCHANGED request \/ worker.pc = "reading"
        BY <1>2 DEF HostStep, HostUpdates, HostRemoves, HostTexts, Asks,
            HostReleases, HostDetaches, HostLoses, control, registry, PipeInv
    <2> QED BY <1>h, <2>1
<1>3. CASE Attach
    <2>1. worker.pc = "attaching" /\ ~retention
        BY <1>3, RuntimeAssumption DEF Attach, AttachBegins, AttachFails,
            AttachFailsResidue, AttachDone, EndInv
    <2>2. posted = {} /\ pending.token = 0 /\ \A w \in Windows : ~Handles(w)
        BY <1>0, <2>1
    <2>3. /\ UNCHANGED <<pending, posted>> /\ worker'.pc # "waiting"
          /\ ui' = [ui EXCEPT ![First] = Idle]
        BY <1>0, <1>3 DEF Attach, AttachBegins, AttachFails,
            AttachFailsResidue, AttachDone, Goes, WorkerRecord, control
    <2>4. \A w \in Windows : ~Handles(w)'
        BY <1>0, <2>2, <2>3, RuntimeAssumption DEF Idle, UiRecord
    <2> QED BY <2>2, <2>3, <2>4
<1>4. CASE Dispatch
    <2>1. ASSUME Answers(FALSE) \/ DispatchFails,
                 UNCHANGED <<pending, posted, ui>>,
                 worker.pc \in {"reading"} \cup Dispatching,
                 request.kind \in {"update", "remove", "text"},
                 retention' \/ (worker.pc # "waiting" /\ ~retention)
          PROVE  ControlInv'
        <3>1. worker'.pc \in {"reading", "removing"}
            BY <1>0, <2>1 DEF Answers, DispatchFails, WorkerRecord
        <3>2. worker.pc = "waiting" => Hopeless'
            <4>1. /\ host' \in {"awaiting", "lost"} /\ ~hookReleased'
                  /\ host' = "awaiting" => worker'.pc = "removing"
                BY <1>0, <2>1 DEF Answers, DispatchFails, WorkerRecord, PipeInv,
                    hostVars
            <4> QED BY <4>1 DEF Hopeless, Serving
        <3>3. ASSUME NEW w \in Windows, Handles(w)
              PROVE  Hopeless'
            BY <1>h, <3>2, <3>3
        <3>4. CASE retention'
            BY <2>1, <3>1, <3>3, <3>4
        <3>5. CASE ~retention'
            BY <1>q, <2>1, <3>1, <3>5
        <3> QED BY <3>4, <3>5
    <2>2. CASE Connects \/ ReadsDetach \/ ReadFails
        <3>1. /\ UNCHANGED <<pending, posted, sent, ui, retention, request>>
              /\ worker.pc = "connecting" \/ worker'.pc = "removing"
              /\ worker.pc \in {"connecting", "reading"}
              /\ worker'.pc # "waiting"
            BY <1>0, <2>2 DEF Connects, ReadsDetach, ReadFails, Goes,
                WorkerRecord, control, registry
        <3> QED BY <1>h, <3>1
    <2>3. CASE Reads
        <3>1. /\ UNCHANGED <<pending, posted, sent, ui, retention>>
              /\ worker.pc = "reading" /\ request.kind \in {"update", "remove"}
              /\ \/ DispatchFails
                 \/ ~retention /\ worker'.pc = "requested"
            BY <1>0, <2>3 DEF Reads, control, registry, Goes, WorkerRecord
        <3> QED BY <1>q, <2>1, <3>1
    <2>4. CASE ReadsText \/ ShowReturns
        <3>1. /\ UNCHANGED <<pending, posted, sent, ui, retention>>
              /\ worker.pc \in {"reading", "showing"}
              /\ worker'.pc \in {"reading", "showing"}
            BY <1>0, <2>4 DEF ReadsText, ShowReturns, control, registry, Answers,
                WorkerRecord
        <3> QED BY <1>h, <3>1
    <2>5. CASE RemovesRequested \/ ReapsBeforeDispatch
        <3>1. /\ UNCHANGED <<pending, posted, sent, ui, request>>
              /\ retention => retention'
              /\ worker.pc \in {"requested", "reaping"}
              /\ worker'.pc \in {"requested", "checking"}
            BY <1>0, <2>5 DEF RemovesRequested, ReapsBeforeDispatch, Reap,
                control, Goes, WorkerRecord
        <3> QED BY <3>1
    <2>6. CASE RequestedDone \/ Checks
        <3>1. /\ UNCHANGED <<pending, posted, sent, ui>>
              /\ retention => retention'
              /\ retention' \/ ~retention
              /\ worker.pc \in {"requested", "checking"}
              /\ \/ DispatchFails
                 \/ worker'.pc \in {"reaping", "sending"} /\ UNCHANGED request
            BY <1>0, <2>6 DEF RequestedDone, Checks, control, registry, Goes,
                WorkerRecord
        <3>2. request.kind \in {"update", "remove"}
            BY <3>1 DEF PipeInv, Dispatching
        <3>3. CASE DispatchFails
            BY <2>1, <3>1, <3>2, <3>3 DEF Dispatching
        <3>4. CASE worker'.pc \in {"reaping", "sending"} /\ UNCHANGED request
            BY <3>1, <3>4
        <3> QED BY <3>1, <3>3, <3>4
    <2>7. CASE Sends
        <3> DEFINE refused == request.kind = "update"
                              /\ (retention \/ pending.token # 0)
        <3>1. CASE refused
            <4>1. /\ UNCHANGED <<pending, posted, ui>> /\ retention'
                  /\ DispatchFails /\ worker.pc = "sending"
                BY <2>7, <3>1 DEF Sends
            <4> QED BY <2>1, <4>1 DEF PipeInv, Dispatching
        <3>2. CASE ~refused
            <4>1. /\ worker.pc = "sending" /\ worker'.pc = "waiting"
                  /\ UNCHANGED <<ui, retention, request>>
                  /\ pending'.kind = request.kind /\ pending'.win = request.win
                  /\ pending'.gen = request.gen /\ ~pending'.completed
                  /\ pending'.token = nextToken + 1
                BY <1>0, <2>7, <3>2 DEF Sends, Goes, WorkerRecord
            <4>2. \A m \in posted' : \/ m \in posted
                                     \/ /\ m.win = request.win
                                        /\ m.token = nextToken + 1
                                        /\ sent' = "waiting"
                BY <2>7, <3>2 DEF Sends
            <4>3. \A w \in Windows : ~Handles(w)
                BY <4>1
            <4> QED BY <4>1, <4>2, <4>3
        <3> QED BY <3>1, <3>2
    <2>8. CASE Returned
        <3>1. /\ UNCHANGED <<pending, posted, ui>> /\ worker.pc = "waiting"
              /\ \A w \in Windows : ~Handles(w)
            BY <2>8 DEF Returned
        <3>2. CASE DispatchFails /\ retention'
            BY <2>1, <3>1, <3>2 DEF PipeInv, Dispatching
        <3>3. CASE Answers(pending.ok) /\ UNCHANGED retention /\ pending.completed
            <4>1. worker'.pc = "reading"
                BY <1>0, <3>3 DEF Answers, WorkerRecord
            <4>2. posted # {} \/ pending.token # 0 => retention
                BY <2>8, <3>3 DEF Returned
            <4> QED BY <3>1, <3>3, <4>1, <4>2
        <3> QED BY <2>8, <3>2, <3>3 DEF Returned
    <2>9. CASE SendTimesOut
        BY <2>1, <2>9 DEF SendTimesOut, PipeInv, Dispatching
    <2> QED BY <1>4, <2>2, <2>3, <2>4, <2>5, <2>6, <2>7, <2>8, <2>9 DEF Dispatch
<1>5. CASE Ending
    <2>1. /\ UNCHANGED <<pending, posted, sent, ui, request>>
          /\ retention => retention'
          /\ worker.pc \in {"removing", "cleaning", "draining", "reporting",
                            "finalizing"}
        BY <1>5 DEF Ending, RemoveAllClaims, RemoveAllCleans, RemoveAllDone,
            Drains, Reports, Finalizes, Reap, control, registry
    <2>2. /\ worker'.pc # "waiting"
          /\ \/ worker.pc \in {"reporting", "finalizing"}
             \/ worker'.pc \in {"removing", "cleaning", "draining", "retained"}
             \/ UiQuiet
        BY <1>0, <1>5 DEF Ending, RemoveAllClaims, RemoveAllCleans,
            RemoveAllDone, Drains, Reports, Finalizes, Goes, WorkerRecord
    <2> QED BY <1>h, <2>1, <2>2 DEF UiQuiet
<1>6. ASSUME NEW w \in Windows, Handler(w)
      PROVE  ControlInv'
    <2>0. UNCHANGED <<worker, request, host, hookReleased>> /\ Hopeless' = Hopeless
        BY <1>6, WindowsLeavePipe DEF hostVars, Hopeless, Serving
    <2>1. CASE Receives(w)
        <3>1. PICK m \in posted :
                  /\ m.win = w /\ posted' = posted \ {m}
                  /\ IF /\ hooked /\ ~gateClosed /\ ~retention
                        /\ pending.token = m.token /\ pending.win = w
                     THEN /\ pending' = [pending EXCEPT !.token = 0]
                          /\ Moves(w, "deciding", 0)
                          /\ UNCHANGED sent
                     ELSE Returns(w) /\ UNCHANGED pending
            BY <2>1 DEF Receives
        <3>2. m \in Message /\ At(w, "idle") /\ UNCHANGED retention
            BY <1>0, <2>1 DEF Receives, registry
        <3>3. CASE ~retention /\ pending.token = m.token /\ pending.win = w
                   /\ hooked /\ ~gateClosed
            <4>1. /\ worker.pc = "waiting" /\ sent = "waiting"
                  /\ m.token # 0 /\ ~pending.completed
                BY <3>2, <3>3 DEF Message
            <4>2. posted' = {}
                BY <1>0, <3>1, <3>3 DEF Message
            <4>3. /\ pending'.token = 0 /\ pending'.win = w
                  /\ pending'.kind = pending.kind /\ pending'.gen = pending.gen
                  /\ pending'.completed = pending.completed
                  /\ UNCHANGED sent /\ Moves(w, "deciding", 0)
                BY <1>0, <3>1, <3>3 DEF Pending
            <4>4. \A v \in Windows \ {w} : ~Handles(v)'
                BY <1>0, <4>1, <4>3, <3>3 DEF Moves, UiRecord
            <4>5. Handles(w)' => /\ pending'.token = 0 /\ pending'.win = w
                                 /\ worker'.pc = "waiting" /\ sent' = "waiting"
                                 /\ posted' = {} /\ ~pending'.completed
                BY <2>0, <4>1, <4>2, <4>3
            <4>6. worker'.pc = "waiting" =>
                      /\ pending'.kind = request'.kind
                      /\ pending'.win = request'.win /\ pending'.gen = request'.gen
                BY <2>0, <3>3, <4>1, <4>3
            <4> QED BY <4>2, <4>3, <4>4, <4>5, <4>6
        <3>4. CASE Returns(w) /\ UNCHANGED pending
            <4>1. /\ ui' = [ui EXCEPT ![w] = Idle]
                  /\ sent = "waiting" => sent' = "returned"
                  /\ sent # "waiting" => sent' = sent
                BY <3>4 DEF Returns
            <4>2. \A v \in Windows : Handles(v)' => Handles(v)
                BY <1>0, <4>1 DEF Idle, UiRecord
            <4>3. posted # {} /\ \A v \in Windows : Handles(v) => worker.pc # "waiting"
                BY <3>1
            <4>4. retention \/ posted' = {}
                BY <1>0, <3>1 DEF Message
            <4> QED BY <2>0, <3>1, <3>2, <3>4, <4>1, <4>2, <4>3, <4>4
        <3> QED BY <3>1, <3>2, <3>3, <3>4
    <2>2. CASE Handles(w)
        <3>0. /\ pending.token = 0 /\ pending.win = w
              /\ \A v \in Windows : Handles(v) => v = w
              /\ posted = {} \/ retention
            BY <2>2
        <3>1. CASE /\ UNCHANGED control /\ (retention => retention')
                   /\ \E pc \in Handling : \E s : Moves(w, pc, s)
            <4>1. \A v \in Windows : Handles(v)' => v = w
                BY <1>0, <3>0, <3>1 DEF Moves, UiRecord
            <4>2. UNCHANGED <<pending, posted, sent>>
                BY <3>1 DEF control
            <4>3. Handles(w)' => \/ /\ worker.pc = "waiting" /\ sent = "waiting"
                                    /\ posted = {} /\ ~pending.completed
                                 \/ /\ worker.pc \in {"reading", "showing",
                                                      "removing", "cleaning",
                                                      "draining", "retained"}
                                    /\ retention /\ Hopeless
                BY <2>2
            <4> QED BY <2>0, <3>0, <3>1, <4>1, <4>2, <4>3
        <3>2. ASSUME Returns(w), UNCHANGED <<nextToken, posted>>,
                     retention => retention',
                     /\ pending'.token = 0 /\ pending'.kind = pending.kind
                     /\ pending'.win = pending.win /\ pending'.gen = pending.gen
              PROVE  ControlInv'
            <4>1. \A v \in Windows : ~Handles(v)'
                BY <1>0, <3>0, <3>2 DEF Returns, Idle, UiRecord
            <4> QED BY <2>0, <2>2, <3>0, <3>2, <4>1
        <3>3. ASSUME NEW ok \in BOOLEAN, Completes(w, ok)
              PROVE  /\ Returns(w) /\ UNCHANGED <<nextToken, posted>>
                     /\ pending'.token = 0 /\ pending'.kind = pending.kind
                     /\ pending'.win = pending.win /\ pending'.gen = pending.gen
            BY <1>0, <3>0, <3>3 DEF Completes, Pending
        <3> QED BY <1>6, <2>2, <3>0, <3>1, <3>2, <3>3, HandlerDoes
                DEF Receives, At
    <2> QED BY <1>6, <2>1, <2>2, HandlerDoes
<1>7. ASSUME NEW w \in Windows, Explorer(w)
      PROVE  ControlInv'
    <2>0. UNCHANGED <<worker, request, host, hookReleased, pending>>
          /\ Hopeless' = Hopeless
        BY <1>7, WindowsLeavePipe DEF hostVars, Hopeless, Serving, Explorer,
            DestroyClaims, DestroyShelters, DestroyUnseen, ThreadEnds,
            WindowOpens, Gone, control
    <2>1. \A v \in Windows : Handles(v)' => Handles(v)
        <3>1. \/ UNCHANGED ui \/ ui' = [ui EXCEPT ![w] = Idle]
              \/ \E s : Moves(w, "sheltering", s)
            BY <1>7 DEF Explorer, DestroyClaims, DestroyShelters,
                DestroyUnseen, ThreadEnds, WindowOpens
        <3> QED BY <1>0, <3>1 DEF Moves, Idle, UiRecord
    <2>2. retention => retention'
        BY <1>7, Zenon DEF Explorer, DestroyClaims, DestroyShelters,
            DestroyUnseen, ThreadEnds, WindowOpens, registry
    <2>3. \/ UNCHANGED <<posted, sent>>
          \/ /\ posted' = {m \in posted : m.win # w}
             /\ sent' = IF \E m \in posted : m.win = w /\ m.token = nextToken
                           /\ sent = "waiting" THEN "failed" ELSE sent
        BY <1>7 DEF Explorer, DestroyClaims, DestroyShelters, DestroyUnseen,
            ThreadEnds, WindowOpens, Gone, control
    <2>4. CASE UNCHANGED sent /\ posted' \subseteq posted
        BY <2>0, <2>1, <2>2, <2>4
    <2>5. ASSUME NEW m \in posted, m.win = w, sent = "waiting",
                 posted' = {n \in posted : n.win # w}
          PROVE  ControlInv'
        <3>1. \A v \in Windows : Handles(v) => worker.pc # "waiting"
            BY <2>5
        <3>2. retention \/ posted' = {}
            BY <2>5
        <3> QED BY <2>0, <2>1, <2>2, <3>1, <3>2
    <2> QED BY <2>3, <2>4, <2>5
<1> QED BY <1>0, <1>1, <1>2, <1>3, <1>4, <1>5, <1>6, <1>7
        DEF Next, WorkerStep, vars

-----------------------------------------------------------------------------
(* The slots that threads are at.                                          *)

(* A worker that has met such a window does not forget it.                 *)
LEMMA TakenStays ==
    ASSUME ProcessTypeOK, EndInv, [Next]_vars
    PROVE  Taken => Taken'
<1>0. worker \in WorkerRecord
    BY DEF ProcessTypeOK, WorkerRecord
<1> USE DEF Taken
<1>1. CASE UNCHANGED worker
    BY <1>1
<1>2. CASE Attach
    BY <1>2, <1>0, RuntimeAssumption DEF EndInv, AttachDone, Attach, AttachBegins,
        AttachFails, AttachFailsResidue, Goes, WorkerRecord
<1>3. CASE Dispatch
    BY <1>3 DEF Dispatch, Connects, Reads, ReadsText, ShowReturns, ReadsDetach, ReadFails,
        RemovesRequested, RequestedDone, ReapsBeforeDispatch, Checks, Sends,
        Returned, SendTimesOut
<1>4. CASE Ending
    <2>1. CASE RemoveAllClaims
        BY <1>0, <2>1 DEF RemoveAllClaims, WorkerRecord
    <2>2. CASE RemoveAllCleans
        <3>1. PICK ok \in BOOLEAN :
                  worker' = [worker EXCEPT !.pc = "removing", !.slot = 0,
                                           !.failed = @ \/ ~ok]
            BY <2>2 DEF RemoveAllCleans
        <3>2. worker.failed => worker'.failed
            BY <1>0, <3>1, Zenon DEF WorkerRecord
        <3> QED BY <1>0, <2>2, <3>1, <3>2 DEF RemoveAllCleans, WorkerRecord
    <2>3. CASE RemoveAllDone \/ Drains \/ Reports \/ Finalizes
        BY <1>0, <2>3 DEF RemoveAllDone, Drains, Reports, Finalizes, Goes,
            WorkerRecord
    <2> QED BY <1>4, <2>1, <2>2, <2>3 DEF Ending
<1>5. HostStep => UNCHANGED worker
    BY DEF HostStep, HostUpdates, HostRemoves, HostTexts, Asks, HostReleases,
        HostDetaches, HostLoses
<1> QED BY <1>1, <1>2, <1>3, <1>4, <1>5, WindowsLeavePipe
        DEF Next, WorkerStep, vars

(* What does not change the state of a slot keeps it settled.              *)
LEMMA SettledStays ==
    ASSUME NEW s \in Slots, Settled(s), Taken => Taken',
           slots'[s].occupied = slots[s].occupied,
           slots'[s].removed = slots[s].removed,
           slots'[s].win = slots[s].win, slots'[s].life = slots[s].life,
           slots'[s].pane \in {slots[s].pane, "none"}
               \/ slots[s].occupied \/ slots[s].removed
    PROVE  Settled(s)'
BY DEF Settled

(* What moves neither a thread nor the slot it is at keeps it there.       *)
LEMMA PlacedStays ==
    ASSUME NEW w \in Windows, Placed(w), ui'[w] = ui[w],
           Taken => Taken', Beyond => Beyond',
           NEW s, s = ui[w].slot,
           \/ ui[w].pc \in {"idle", "attaching", "deciding", "reaping", "creating"}
           \/ /\ slots'[s].occupied = slots[s].occupied
              /\ slots'[s].removed = slots[s].removed
              /\ slots'[s].win = slots[s].win /\ slots'[s].life = slots[s].life
              /\ \/ ui[w].pc # "publishing"
                 \/ slots'[s].gen = slots[s].gen /\ pending'.gen = pending.gen
              /\ WorkerAt(s)' => WorkerAt(s)
    PROVE  Placed(w)'
BY DEF Placed, InHand

(* Neither the Host, nor the attach, nor the worker moves a slot away from *)
(* the thread that is at it, as long as the thread counts on it.           *)
LEMMA PlaceKeptByWorker ==
    ASSUME ProcessTypeOK, PipeInv, ControlInv, PlaceInv, EndInv, [Next]_vars,
           HostStep \/ Attach \/ WorkerStep \/ UNCHANGED vars
    PROVE  PlaceInv'
<1>0. /\ worker \in WorkerRecord /\ ui \in [Windows -> UiRecord]
      /\ slots \in [Slots -> SlotRecord]
      /\ \A s \in Slots : slots[s] \in SlotRecord
    BY DEF ProcessTypeOK, WorkerRecord, UiRecord
<1>t. (Taken => Taken') /\ (Beyond => Beyond')
    BY TakenStays, HopelessStays DEF Beyond
<1>k. \A w \in Windows : Handles(w) =>
          \/ worker.pc = "waiting"
          \/ Hopeless /\ worker.pc \in {"reading", "showing", "removing",
                                        "cleaning", "draining", "retained"}
    BY DEF ControlInv
<1>p. /\ \A s \in Slots : Settled(s)
      /\ \A w \in Windows : Placed(w)
      /\ WorkerPlaced
    BY DEF PlaceInv
<1>1. CASE /\ UNCHANGED <<slots, ui>>
           /\ \/ UNCHANGED worker
              \/ worker.pc # "cleaning" /\ worker'.pc # "cleaning"
           /\ \A w \in Windows : Handles(w) => pending'.gen = pending.gen
    <2>1. ASSUME NEW s \in Slots
          PROVE  Settled(s)'
        BY <1>1, <1>p, <1>t, SettledStays
    <2>2. ASSUME NEW w \in Windows
          PROVE  Placed(w)'
        BY <1>1, <1>p, <1>t, PlacedStays DEF WorkerAt, Handles, Handling
    <2>3. WorkerPlaced'
        BY <1>1, <1>p, <1>t DEF WorkerPlaced, Handles
    <2> QED BY <2>1, <2>2, <2>3 DEF PlaceInv
<1>2. CASE HostStep
    <2>1. UNCHANGED <<slots, ui, worker, pending>>
        BY <1>2 DEF HostStep, HostUpdates, HostRemoves, HostTexts, Asks,
            HostReleases, HostDetaches, HostLoses, control, registry
    <2> QED BY <1>1, <2>1
<1>3. CASE Attach
    <2>1. /\ ui[First].pc = "attaching" /\ worker.pc = "attaching"
          /\ slots = [s \in Slots |-> Free]
          /\ ui' = [ui EXCEPT ![First] = Idle] /\ worker'.pc # "cleaning"
        BY <1>0, <1>3, RuntimeAssumption DEF Attach, AttachBegins, AttachFails,
            AttachFailsResidue, AttachDone, EndInv, Goes, WorkerRecord
    <2>2. 1 \in Slots
        BY RuntimeAssumption DEF Slots
    <2>3. \A s \in Slots : slots'[s] = Free \/ (s = 1 /\
              \/ slots'[s] = Initial \/ slots'[s] = [Initial EXCEPT !.admitted = TRUE]
              \/ slots'[s] = [Initial EXCEPT !.life = "failed", !.occupied = FALSE,
                                             !.removed = TRUE])
        BY <1>3, <2>1, <2>2 DEF Attach, AttachBegins, AttachFails,
            AttachFailsResidue, registry
    <2>4. ASSUME NEW s \in Slots
          PROVE  Settled(s)'
        <3> DEFINE left == [Initial EXCEPT !.life = "failed", !.occupied = FALSE,
                                           !.removed = TRUE]
                   begun == [Initial EXCEPT !.admitted = TRUE]
        <3>1. /\ ~Free.occupied /\ ~Free.removed
              /\ Free.pane = "none" /\ Free.win = NoWindow
              /\ Initial.occupied /\ ~Initial.removed
              /\ begun.occupied /\ ~begun.removed
              /\ ~left.occupied /\ left.removed /\ left.life = "failed"
            BY DEF Initial, Free
        <3> HIDE DEF left, begun
        <3>2. slots'[s] \in {Free, Initial, begun, left}
            BY <2>3 DEF left, begun
        <3> QED BY <3>1, <3>2 DEF Settled
    <2>5. ASSUME NEW w \in Windows
          PROVE  Placed(w)'
        <3>1. \A s \in Slots : slots[s].win # w
            BY <2>1, RuntimeAssumption DEF Free
        <3>2. ui[w].pc \in {"idle", "attaching", "deciding", "reaping", "creating"}
            BY <1>0, <1>p, <3>1 DEF Placed, UiRecord
        <3>3. ui'[w].pc \in {"idle", "attaching", "deciding", "reaping", "creating"}
            BY <1>0, <2>1, <3>2 DEF Idle
        <3> QED BY <3>3 DEF Placed
    <2>6. WorkerPlaced'
        BY <2>1 DEF WorkerPlaced
    <2> QED BY <2>4, <2>5, <2>6 DEF PlaceInv
<1>4. CASE RemovesRequested
    <2>1. PICK s \in Requested, ok \in BOOLEAN :
              slots' = [slots EXCEPT ![s] = Cleaned(s, ok)]
        BY <1>4 DEF RemovesRequested
    <2>2. /\ s \in Slots /\ slots[s].occupied /\ slots[s].life = "requested"
          /\ UNCHANGED ui /\ worker.pc = "requested" /\ worker'.pc = "requested"
        BY <1>0, <1>4, <2>1 DEF Requested, Occupied, RemovesRequested, WorkerRecord
    <2>3. \A t \in Slots : slots'[t] = IF t = s THEN Cleaned(s, ok) ELSE slots[t]
        BY <1>0, <2>1, <2>2
    <2>4. ASSUME NEW t \in Slots
          PROVE  Settled(t)'
        BY <1>p, <1>t, <2>2, <2>3, CleanedIs, SettledStays DEF Settled
    <2>5. ASSUME NEW w \in Windows
          PROVE  Placed(w)'
        <3>1. ui[w].pc \in {"idle", "attaching", "deciding", "reaping", "creating",
                            "sheltering"}
            BY <1>0, <1>k, <2>2 DEF Handles, Handling, UiRecord
        <3>2. ui[w].pc = "sheltering" => ui[w].slot \in Slots /\ ui[w].slot # s
            BY <1>p, <2>2 DEF Placed, InHand
        <3> QED BY <1>p, <1>t, <2>2, <2>3, <3>1, <3>2, PlacedStays DEF WorkerAt
    <2>6. WorkerPlaced'
        BY <2>2 DEF WorkerPlaced
    <2> QED BY <2>4, <2>5, <2>6 DEF PlaceInv
<1>5. CASE ReapsBeforeDispatch \/ Reports
    <2>1. PICK stuck \in 1..NoneStuck : Reap(stuck)
        BY <1>5 DEF ReapsBeforeDispatch, Reports
    <2>2. \A s \in Slots :
              \/ slots'[s] = slots[s]
              \/ /\ slots[s].removed /\ slots[s].life = "cleaned"
                 /\ slots'[s] = [Free EXCEPT !.admitted = slots[s].admitted]
        BY <2>1, ReapDoes
    <2>3. /\ UNCHANGED ui /\ worker.pc \in {"reaping", "reporting"}
          /\ worker'.pc # "cleaning"
        BY <1>0, <1>5 DEF ReapsBeforeDispatch, Reports, Goes, WorkerRecord
    <2>4. ASSUME NEW t \in Slots
          PROVE  Settled(t)'
        <3>1. CASE slots'[t] = slots[t]
            BY <1>p, <1>t, <3>1, SettledStays
        <3>2. CASE slots'[t] = [Free EXCEPT !.admitted = slots[t].admitted]
            BY <3>2 DEF Settled, Free
        <3> QED BY <2>2, <3>1, <3>2
    <2>5. ASSUME NEW w \in Windows
          PROVE  Placed(w)'
        <3>1. ui[w].pc \in {"idle", "attaching", "deciding", "reaping", "creating",
                            "sheltering"}
            BY <1>0, <1>k, <2>3 DEF Handles, Handling, UiRecord
        <3>2. ui[w].pc = "sheltering" =>
                  /\ ui[w].slot \in Slots
                  /\ ~(slots[ui[w].slot].removed
                       /\ slots[ui[w].slot].life = "cleaned")
            BY <1>p DEF Placed, InHand, Settled
        <3> QED BY <1>p, <1>t, <2>2, <2>3, <3>1, <3>2, PlacedStays DEF WorkerAt
    <2>6. WorkerPlaced'
        BY <2>3 DEF WorkerPlaced
    <2> QED BY <2>4, <2>5, <2>6 DEF PlaceInv
<1>6. CASE Dispatch
    <2>1. ASSUME DispatchFails \/ \E ok \in BOOLEAN : Answers(ok)
          PROVE  worker'.pc \in {"reading", "removing"}
        BY <1>0, <2>1 DEF DispatchFails, Answers, WorkerRecord
    <2>2. CASE \/ Connects \/ Reads \/ ReadsText \/ ShowReturns \/ ReadsDetach \/ ReadFails
               \/ RequestedDone \/ Checks \/ Sends \/ Returned \/ SendTimesOut
        <3>1. UNCHANGED <<slots, ui>> /\ worker.pc # "cleaning"
            BY <2>2 DEF Connects, Reads, ReadsText, ShowReturns, ReadsDetach, ReadFails,
                RequestedDone, Checks, Sends, Returned, SendTimesOut, registry
        <3>2. worker'.pc # "cleaning"
            <4>1. pending.ok \in BOOLEAN
                BY DEF ProcessTypeOK
            <4> QED BY <1>0, <2>1, <2>2, <4>1 DEF Connects, Reads, ReadsText, ShowReturns,
                    ReadsDetach, ReadFails, RequestedDone, Checks, Sends, Returned,
                    SendTimesOut, Goes, WorkerRecord
        <3>3. \A w \in Windows : Handles(w) => pending'.gen = pending.gen
            BY <1>k, <2>2 DEF Connects, Reads, ReadsText, ShowReturns, ReadsDetach, ReadFails,
                RequestedDone, Checks, Sends, Returned, SendTimesOut, control
        <3> QED BY <1>1, <3>1, <3>2, <3>3
    <2> QED BY <1>4, <1>5, <1>6, <2>2 DEF Dispatch
<1>7. CASE Ending
    <2>1. UNCHANGED <<ui, pending>>
        BY <1>7 DEF Ending, RemoveAllClaims, RemoveAllCleans, RemoveAllDone,
            Drains, Reports, Finalizes, control
    <2>b. \A w \in Windows : Handles(w) => Beyond
        <3>1. worker.pc \in {"removing", "cleaning", "draining", "reporting",
                             "finalizing"}
            BY <1>7 DEF Ending, RemoveAllClaims, RemoveAllCleans, RemoveAllDone,
                Drains, Reports, Finalizes
        <3> QED BY <1>k, <3>1 DEF Beyond, Serving
    <2>2. CASE RemoveAllClaims
        <3>1. PICK s \in Occupied :
                 IF slots[s].life \in {"active", "requested"}
                 THEN /\ slots' = [slots EXCEPT ![s].life = "cleaning",
                                                ![s].admitted = FALSE]
                      /\ worker' = [worker EXCEPT !.pc = "cleaning", !.slot = s]
                 ELSE /\ slots' = [slots EXCEPT ![s].life = "failed",
                                                ![s].admitted = FALSE,
                                                ![s].occupied = FALSE,
                                                ![s].removed = TRUE]
                      /\ worker' = [worker EXCEPT !.failed = TRUE]
            BY <2>2 DEF RemoveAllClaims
        <3>2. s \in Slots /\ slots[s].occupied /\ worker.pc = "removing"
            BY <2>2 DEF Occupied, RemoveAllClaims
        <3>3. CASE slots[s].life \in {"active", "requested"}
            <4>1. /\ \A t \in Slots \ {s} : slots'[t] = slots[t]
                  /\ slots'[s].life = "cleaning"
                  /\ slots'[s].occupied = slots[s].occupied
                  /\ slots'[s].removed = slots[s].removed
                  /\ slots'[s].win = slots[s].win
                  /\ slots'[s].pane = slots[s].pane
                  /\ worker'.pc = "cleaning" /\ worker'.slot = s
                <5> DEFINE r == [slots[s] EXCEPT !.life = "cleaning",
                                                 !.admitted = FALSE]
                <5>1. slots' = [slots EXCEPT ![s] = r]
                    BY <1>0, <3>1, <3>2, <3>3, Zenon
                <5>2. /\ r.life = "cleaning" /\ r.occupied = slots[s].occupied
                      /\ r.removed = slots[s].removed /\ r.win = slots[s].win
                      /\ r.pane = slots[s].pane
                    BY <1>0, <3>2 DEF SlotRecord
                <5>3. worker'.pc = "cleaning" /\ worker'.slot = s
                    BY <1>0, <3>1, <3>3 DEF WorkerRecord
                <5> HIDE DEF r
                <5> QED BY <1>0, <3>2, <5>1, <5>2, <5>3
            <4>2. ASSUME NEW t \in Slots
                  PROVE  Settled(t)'
                BY <1>p, <1>t, <3>2, <4>1, SettledStays DEF Settled
            <4>3. ASSUME NEW w \in Windows
                  PROVE  Placed(w)'
                <5>1. CASE ui[w].slot # s \/ ui[w].pc \in {"idle", "attaching",
                                              "deciding", "reaping", "creating"}
                    BY <1>p, <1>t, <2>1, <4>1, <5>1, PlacedStays DEF WorkerAt, Placed
                <5>2. CASE ui[w].slot = s /\ ui[w].pc \in {"cleaning", "sheltering"}
                    BY <1>p, <3>2, <3>3, <5>2 DEF Placed, InHand, Settled
                <5>3. CASE ui[w].slot = s
                           /\ ui[w].pc \in {"applying", "retiring", "publishing"}
                    <6>1. Beyond'
                        BY <1>t, <2>b, <5>3 DEF Handles, Handling
                    <6> QED BY <1>p, <2>1, <4>1, <5>3, <6>1 DEF Placed
                <5> QED BY <1>0, <5>1, <5>2, <5>3 DEF UiRecord
            <4>4. WorkerPlaced'
                BY <3>2, <4>1 DEF WorkerPlaced
            <4> QED BY <4>2, <4>3, <4>4 DEF PlaceInv
        <3>4. CASE slots[s].life \notin {"active", "requested"}
            <4>1. /\ \A t \in Slots \ {s} : slots'[t] = slots[t]
                  /\ slots'[s].life = "failed"
                  /\ ~slots'[s].occupied /\ slots'[s].removed
                  /\ slots'[s].win = slots[s].win
                  /\ worker'.pc = "removing" /\ worker'.failed
                BY <1>0, <3>1, <3>2, <3>4 DEF SlotRecord, WorkerRecord
            <4>t. Taken' /\ \A t \in Slots : ~WorkerAt(t)'
                BY <4>1 DEF Taken, WorkerAt
            <4>2. ASSUME NEW t \in Slots
                  PROVE  Settled(t)'
                BY <1>p, <1>t, <3>2, <4>1, SettledStays DEF Settled
            <4>3. ASSUME NEW w \in Windows
                  PROVE  Placed(w)'
                <5>1. CASE ui[w].slot # s \/ ui[w].pc \in {"idle", "attaching",
                                              "deciding", "reaping", "creating"}
                    BY <1>p, <1>t, <2>1, <4>1, <4>t, <5>1, PlacedStays DEF Placed
                <5>2. CASE ui[w].slot = s /\ ui[w].pc \in {"cleaning", "sheltering"}
                    BY <1>p, <2>1, <4>1, <4>t, <5>2 DEF Placed, InHand
                <5>3. CASE ui[w].slot = s
                           /\ ui[w].pc \in {"applying", "retiring", "publishing"}
                    <6>1. Beyond'
                        BY <1>t, <2>b, <5>3 DEF Handles, Handling
                    <6> QED BY <1>p, <2>1, <4>1, <5>3, <6>1 DEF Placed
                <5> QED BY <1>0, <5>1, <5>2, <5>3 DEF UiRecord
            <4>4. WorkerPlaced'
                BY <4>1 DEF WorkerPlaced
            <4> QED BY <4>2, <4>3, <4>4 DEF PlaceInv
        <3> QED BY <3>3, <3>4
    <2>3. CASE RemoveAllCleans
        <3> DEFINE s == worker.slot
        <3>1. PICK ok \in BOOLEAN : slots' = [slots EXCEPT ![s] = Cleaned(s, ok)]
            BY <2>3 DEF RemoveAllCleans
        <3>2. /\ s \in Slots /\ worker.pc = "cleaning" /\ worker'.pc = "removing"
              /\ slots[s].win \in Windows \cup {NoWindow}
            BY <1>0, <1>p, <2>3 DEF RemoveAllCleans, WorkerRecord, WorkerPlaced,
                SlotRecord
        <3>3. \A t \in Slots : slots'[t] = IF t = s THEN Cleaned(s, ok) ELSE slots[t]
            BY <1>0, <3>1, <3>2
        <3> HIDE DEF s
        <3>4. ASSUME NEW t \in Slots
              PROVE  Settled(t)'
            BY <1>p, <1>t, <3>2, <3>3, CleanedIs, SettledStays DEF Settled
        <3>5. ASSUME NEW w \in Windows
              PROVE  Placed(w)'
            <4>1. CASE ui[w].slot # s \/ ui[w].pc \in {"idle", "attaching",
                                          "deciding", "reaping", "creating"}
                <5>1. ~WorkerAt(ui[w].slot)'
                    BY <3>2 DEF WorkerAt
                <5> QED BY <1>p, <1>t, <2>1, <3>3, <4>1, <5>1, PlacedStays DEF Placed
            <4>2. CASE ui[w].slot = s /\ ui[w].pc \in {"cleaning", "sheltering"}
                BY <1>p, <3>2, <4>2 DEF Placed, InHand, WorkerAt, s
            <4>3. CASE ui[w].slot = s
                       /\ ui[w].pc \in {"applying", "retiring", "publishing"}
                <5>1. Beyond'
                    BY <1>t, <2>b, <4>3 DEF Handles, Handling
                <5>2. slots'[s].win = w
                    BY <1>p, <3>2, <3>3, <4>3, CleanedIs DEF Placed
                <5> QED BY <2>1, <3>2, <4>3, <5>1, <5>2 DEF Placed
            <4> QED BY <1>0, <4>1, <4>2, <4>3 DEF UiRecord
        <3>6. WorkerPlaced'
            BY <3>2 DEF WorkerPlaced
        <3> QED BY <3>4, <3>5, <3>6 DEF PlaceInv
    <2>4. CASE RemoveAllDone \/ Drains
        <3>1. UNCHANGED slots /\ worker.pc # "cleaning" /\ worker'.pc # "cleaning"
            BY <1>0, <2>4 DEF RemoveAllDone, Drains, Goes, WorkerRecord, registry
        <3> QED BY <1>1, <2>1, <3>1
    <2>5. CASE Finalizes
        <3>1. /\ \A t \in Slots : slots'[t] = [slots[t] EXCEPT !.admitted = FALSE]
              /\ worker.pc = "finalizing" /\ worker'.pc # "cleaning"
            BY <1>0, <2>5 DEF Finalizes, Goes, WorkerRecord
        <3>2. \A t \in Slots : /\ slots'[t].occupied = slots[t].occupied
                               /\ slots'[t].removed = slots[t].removed
                               /\ slots'[t].win = slots[t].win
                               /\ slots'[t].life = slots[t].life
                               /\ slots'[t].pane = slots[t].pane
                               /\ slots'[t].gen = slots[t].gen
            BY <1>0, <3>1 DEF SlotRecord
        <3>3. ASSUME NEW t \in Slots
              PROVE  Settled(t)'
            BY <1>p, <1>t, <3>2, SettledStays
        <3>4. ASSUME NEW w \in Windows
              PROVE  Placed(w)'
            <4>1. ui[w].pc = "idle"
                BY <3>1 DEF EndInv, Leaving, UiQuiet
            <4> QED BY <1>p, <1>t, <2>1, <4>1, PlacedStays
        <3>5. WorkerPlaced'
            BY <3>1 DEF WorkerPlaced
        <3> QED BY <3>3, <3>4, <3>5 DEF PlaceInv
    <2> QED BY <1>5, <1>7, <2>2, <2>3, <2>4, <2>5 DEF Ending
<1>8. UNCHANGED vars => UNCHANGED <<slots, ui, worker, pending>>
    BY DEF vars
<1> QED BY <1>1, <1>2, <1>3, <1>6, <1>7, <1>8 DEF WorkerStep

(* A handler keeps to the slots of its window.                             *)
LEMMA PlaceKeptByHandler ==
    ASSUME ProcessTypeOK, PipeInv, ControlInv, PlaceInv, EndInv,
           NEW w \in Windows, Handler(w)
    PROVE  PlaceInv'
<1>0. /\ ui \in [Windows -> UiRecord] /\ slots \in [Slots -> SlotRecord]
      /\ \A s \in Slots : slots[s] \in SlotRecord
    BY DEF ProcessTypeOK, UiRecord
<1>u. /\ UNCHANGED <<worker, host, hookReleased>>
      /\ Taken' = Taken /\ Beyond' = Beyond
      /\ \A s : WorkerAt(s)' = WorkerAt(s)
    BY WindowsLeavePipe DEF hostVars, Taken, Beyond, Hopeless, Serving, WorkerAt
<1>p. /\ \A s \in Slots : Settled(s)
      /\ \A v \in Windows : Placed(v)
      /\ WorkerPlaced
    BY DEF PlaceInv
<1>1. CASE Receives(w)
    <2>1. /\ UNCHANGED slots
          /\ \E m \in posted : TRUE
          /\ \/ Moves(w, "deciding", 0) /\ ~retention
             \/ Returns(w) /\ UNCHANGED pending
        BY <1>1 DEF Receives, registry
    <2>2. \A v \in Windows \ {w} : ui'[v] = ui[v]
        BY <1>0, <2>1 DEF Moves, Returns
    <2>3. ui'[w].pc \in {"idle", "deciding"}
        BY <1>0, <2>1 DEF Moves, Returns, Idle
    <2>4. CASE Moves(w, "deciding", 0) /\ ~retention
        <3>1. worker.pc = "waiting" /\ \A v \in Windows : ~Handles(v)
            <4>1. PICK m \in posted : TRUE
                BY <2>1
            <4> QED BY <2>4, <4>1 DEF ControlInv
        <3>2. \A v \in Windows : Placed(v)'
            <4>1. ASSUME NEW v \in Windows \ {w}
                  PROVE  Placed(v)'
                BY <1>p, <1>u, <2>1, <2>2, <3>1, PlacedStays DEF Handles, Handling
            <4>2. Placed(w)'
                BY <2>3 DEF Placed
            <4> QED BY <4>1, <4>2
        <3>3. \A s \in Slots : Settled(s)'
            BY <1>p, <1>u, <2>1, SettledStays
        <3> QED BY <1>u, <3>1, <3>2, <3>3 DEF PlaceInv, WorkerPlaced
    <2>5. CASE Returns(w) /\ UNCHANGED pending
        <3>1. \A v \in Windows : Placed(v)'
            <4>1. ASSUME NEW v \in Windows \ {w}
                  PROVE  Placed(v)'
                BY <1>p, <1>u, <2>1, <2>2, <2>5, PlacedStays
            <4>2. Placed(w)'
                BY <2>3 DEF Placed
            <4> QED BY <4>1, <4>2
        <3>2. \A s \in Slots : Settled(s)'
            BY <1>p, <1>u, <2>1, SettledStays
        <3>3. \A v \in Windows : Handles(v)' => Handles(v)
            BY <1>0, <2>5 DEF Returns, Idle, Handles, Handling, UiRecord
        <3>4. WorkerPlaced'
            BY <1>p, <1>u, <2>1, <3>3 DEF WorkerPlaced
        <3> QED BY <3>1, <3>2, <3>4 DEF PlaceInv
    <2> QED BY <2>1, <2>4, <2>5
<1>2. CASE Handles(w)
    <2>1. /\ pending.win = w
          /\ \A v \in Windows \ {w} : ~Handles(v)
          /\ ~Serving => Beyond
        BY <1>2 DEF ControlInv, Serving, Beyond
    <2>2. \A v \in Windows \ {w} :
              /\ ui'[v] = ui[v]
              /\ ui[v].pc \in {"idle", "attaching", "sheltering"}
        <3>1. ASSUME NEW v \in Windows \ {w}
              PROVE  ui'[v] = ui[v]
            BY <1>0, HandlerDoes DEF Receives, Moves, Completes, Returns
        <3> QED BY <1>0, <2>1, <3>1 DEF Handles, Handling, UiRecord
    <2>3. worker.pc = "cleaning" =>
              /\ worker.slot \in Slots
              /\ slots[worker.slot].occupied /\ slots[worker.slot].life = "cleaning"
        BY <1>2, <1>p DEF WorkerPlaced
    <2>4. \A v \in Windows : ui[v].pc = "sheltering" =>
              ui[v].slot \in Slots /\ slots[ui[v].slot].win = v /\ InHand(ui[v].slot)
        BY <1>p DEF Placed
    <2>v. ASSUME NEW v \in Windows \ {w},
                 ui[v].pc = "sheltering" =>
                     slots'[ui[v].slot] = slots[ui[v].slot]
          PROVE  Placed(v)'
        BY <1>p, <1>u, <2>2, <2>v, PlacedStays
    <2>s. PICK s : s = ui[w].slot
        OBVIOUS
    <2> USE <2>s
    <2>5. ASSUME UNCHANGED slots, Placed(w)'
          PROVE  PlaceInv'
        <3>1. \A t \in Slots : Settled(t)'
            BY <1>p, <1>u, <2>5, SettledStays
        <3>2. \A v \in Windows : Placed(v)'
            BY <2>5, <2>v
        <3>3. WorkerPlaced'
            BY <1>u, <2>3, <2>5 DEF WorkerPlaced
        <3> QED BY <3>1, <3>2, <3>3 DEF PlaceInv
    <2>6. ASSUME NEW t \in Slots, NEW r \in SlotRecord,
                 slots' = [slots EXCEPT ![t] = r],
                 slots[t].win \in {w, NoWindow},
                 \A v \in Windows \ {w} : ui[v].pc = "sheltering" => ui[v].slot # t,
                 Settled(t)', Placed(w)',
                 WorkerAt(t) => \/ r.occupied /\ r.life = "cleaning"
                                \/ r.removed /\ ui'[w] = Idle
          PROVE  PlaceInv'
        <3>1. \A u \in Slots : slots'[u] = IF u = t THEN r ELSE slots[u]
            BY <1>0, <2>6
        <3>2. ASSUME NEW u \in Slots
              PROVE  Settled(u)'
            BY <1>p, <1>u, <2>6, <3>1, SettledStays
        <3>3. ASSUME NEW v \in Windows \ {w}
              PROVE  Placed(v)'
            BY <2>4, <2>6, <2>v, <3>1
        <3>4. WorkerPlaced'
            <4>1. CASE ~WorkerAt(t)
                BY <1>u, <2>3, <3>1, <4>1 DEF WorkerPlaced, WorkerAt
            <4>2. CASE WorkerAt(t) /\ r.occupied /\ r.life = "cleaning"
                BY <1>u, <2>3, <3>1, <4>2 DEF WorkerPlaced, WorkerAt
            <4>3. CASE WorkerAt(t) /\ r.removed /\ ui'[w] = Idle
                <5>1. \A v \in Windows : ~Handles(v)'
                    BY <2>1, <2>2, <4>3 DEF Handles, Handling, Idle
                <5>2. Beyond'
                    BY <1>u, <2>1, <4>3 DEF WorkerAt, Serving
                <5> QED BY <1>u, <2>3, <3>1, <4>3, <5>1, <5>2
                        DEF WorkerPlaced, WorkerAt
            <4> QED BY <2>6, <4>1, <4>2, <4>3
        <3> QED BY <2>6, <3>2, <3>3, <3>4 DEF PlaceInv
    <2>7. CASE DecidesRemoval(w) \/ DecidesUpdate(w)
        <3>1. /\ UNCHANGED slots
              /\ \/ ui'[w].pc \in {"idle", "creating"}
                 \/ \E t \in Slots : Existing(w, t) /\ ui'[w].slot = t
                       /\ ui'[w].pc \in {"retiring", "applying"}
            BY <1>0, <2>7 DEF DecidesRemoval, DecidesUpdate, Moves, Completes,
                Returns, Idle, registry
        <3>2. Placed(w)'
            BY <3>1 DEF Placed, Existing, Occupied
        <3> QED BY <2>5, <3>1, <3>2
    <2>8. CASE CreatesNothing(w) \/ HandlerThrows(w)
        <3>1. UNCHANGED slots /\ ui'[w].pc = "idle"
            BY <1>0, <2>8 DEF CreatesNothing, HandlerThrows, Completes, Returns,
                Idle, registry
        <3> QED BY <2>5, <3>1 DEF Placed
    <2>9. CASE ReapsForUpdate(w)
        <3>1. PICK stuck \in 1..NoneStuck : Reap(stuck)
            BY <2>9 DEF ReapsForUpdate
        <3>2. \A t \in Slots :
                  \/ slots'[t] = slots[t]
                  \/ /\ slots[t].removed /\ slots[t].life = "cleaned"
                     /\ slots'[t] = [Free EXCEPT !.admitted = slots[t].admitted]
            BY <3>1, ReapDoes
        <3>3. ui'[w].pc \in {"idle", "creating"}
            BY <1>0, <2>9 DEF ReapsForUpdate, Moves, Completes, Returns, Idle
        <3>4. ASSUME NEW t \in Slots
              PROVE  Settled(t)'
            <4>1. CASE slots'[t] = slots[t]
                BY <1>p, <1>u, <4>1, SettledStays
            <4>2. CASE slots'[t] = [Free EXCEPT !.admitted = slots[t].admitted]
                BY <4>2 DEF Settled, Free
            <4> QED BY <3>2, <4>1, <4>2
        <3>5. ASSUME NEW v \in Windows \ {w}
              PROVE  Placed(v)'
            <4>1. ui[v].pc = "sheltering" =>
                      ~(slots[ui[v].slot].removed /\ slots[ui[v].slot].life = "cleaned")
                BY <1>p, <2>4 DEF InHand, Settled
            <4> QED BY <2>4, <2>v, <3>2, <4>1
        <3>6. Placed(w)'
            BY <3>3 DEF Placed
        <3>7. WorkerPlaced'
            <4>1. worker.pc = "cleaning" => slots'[worker.slot] = slots[worker.slot]
                BY <1>p, <2>3, <3>2 DEF Settled
            <4> QED BY <1>u, <2>3, <4>1 DEF WorkerPlaced
        <3> QED BY <3>4, <3>5, <3>6, <3>7 DEF PlaceInv
    <2>10. CASE Creates(w) \/ CreatesResidue(w)
        <3>1. PICK t \in Slots, r \in SlotRecord :
                  /\ Chosen(t) /\ slots' = [slots EXCEPT ![t] = r]
                  /\ r.win = w /\ r.pane = "shown"
                  /\ \/ /\ r.gen = pending.gen /\ r.life = "active"
                        /\ r.occupied /\ ~r.removed
                        /\ Moves(w, "publishing", t) /\ UNCHANGED control
                     \/ /\ r.life = "failed" /\ ~r.occupied /\ r.removed
                        /\ Returns(w)
            <4>1. CASE Creates(w)
                <5>1. UNCHANGED control
                    BY <4>1 DEF Creates
                <5> QED BY <4>1, <5>1, CreatesDoes
            <4>2. CASE CreatesResidue(w)
                <5>1. Returns(w)
                    BY <4>2 DEF CreatesResidue, Completes
                <5> QED BY <4>2, <5>1, ResidueDoes
            <4> QED BY <2>10, <4>1, <4>2
        <3>2. ~slots[t].occupied /\ ~slots[t].removed /\ slots[t].win = NoWindow
            BY <1>p, <3>1 DEF Chosen, Vacant, Settled
        <3>3. slots'[t] = r
            BY <1>0, <3>1
        <3>4. Settled(t)'
            BY <3>1, <3>3 DEF Settled
        <3>5. Placed(w)'
            <4>1. CASE Returns(w)
                BY <1>0, <4>1 DEF Returns, Idle, Placed
            <4>2. CASE /\ r.gen = pending.gen /\ r.life = "active" /\ r.occupied
                       /\ Moves(w, "publishing", t) /\ UNCHANGED control
                <5>1. /\ ui'[w].pc = "publishing" /\ ui'[w].slot = t
                      /\ pending' = pending
                    BY <1>0, <4>2 DEF Moves, control
                <5> QED BY <3>1, <3>3, <4>2, <5>1 DEF Placed
            <4> QED BY <3>1, <4>1, <4>2
        <3>6. ~WorkerAt(t)
            BY <2>3, <3>2 DEF WorkerAt
        <3>7. \A v \in Windows \ {w} : ui[v].pc = "sheltering" => ui[v].slot # t
            BY <2>4, <3>2, RuntimeAssumption
        <3> QED BY <2>6, <3>1, <3>2, <3>4, <3>5, <3>6, <3>7
    <2>11. CASE Applies(w) \/ RetireClaims(w) \/ Publishes(w)
        <3>1. s \in Slots /\ slots[s].win = w
            BY <1>p, <2>11 DEF Applies, RetireClaims, Publishes, At, Placed
        <3>2. \A v \in Windows \ {w} : ui[v].pc = "sheltering" => ui[v].slot # s
            BY <2>4, <3>1
        <3>3. slots[s].occupied \/ slots[s].removed
            BY <1>p, <3>1, RuntimeAssumption DEF Settled
        <3>4. CASE Applies(w)
            <4>p. Placed(w)'
                <5>1. Returns(w)
                    BY <3>4, Zenon DEF Applies, Completes
                <5>2. ui'[w].pc = "idle"
                    BY <1>0, <5>1 DEF Returns, Idle
                <5> QED BY <5>2 DEF Placed
            <4>1. CASE UNCHANGED slots
                BY <2>5, <4>1, <4>p
            <4>2. CASE slots' = [slots EXCEPT ![ui[w].slot].gen = pending.gen]
                <5> DEFINE r == [slots[s] EXCEPT !.gen = pending.gen]
                <5>1. r \in SlotRecord /\ slots' = [slots EXCEPT ![s] = r]
                    <6>1. pending.gen \in 0..MaxGen
                        BY DEF ProcessTypeOK
                    <6> QED BY <1>0, <3>1, <4>2, <6>1 DEF SlotRecord
                <5>2. /\ r.occupied = slots[s].occupied /\ r.removed = slots[s].removed
                      /\ r.win = w /\ r.life = slots[s].life /\ r.pane = slots[s].pane
                    BY <1>0, <3>1 DEF SlotRecord
                <5> HIDE DEF r
                <5>3. slots'[s] = r
                    BY <1>0, <3>1, <5>1
                <5>4. Settled(s)'
                    BY <1>p, <1>u, <3>1, <5>2, <5>3, SettledStays
                <5>5. WorkerAt(s) => r.occupied /\ r.life = "cleaning"
                    BY <2>3, <5>2 DEF WorkerAt
                <5> QED BY <2>6, <3>1, <3>2, <4>p, <5>1, <5>4, <5>5
            <4> QED BY <3>4, <4>1, <4>2 DEF Applies
        <3>5. CASE RetireClaims(w)
            <4>1. CASE slots[s].life = "active"
                <5> DEFINE r == [slots[s] EXCEPT !.admitted = FALSE,
                                                 !.life = "cleaning"]
                <5>1. slots' = [slots EXCEPT ![s] = r] /\ Moves(w, "cleaning", s)
                    BY <1>0, <3>1, <3>5, <4>1, Zenon DEF RetireClaims
                <5>2. /\ r \in SlotRecord /\ r.occupied = slots[s].occupied
                      /\ r.removed = slots[s].removed
                      /\ r.win = w /\ r.life = "cleaning"
                    BY <1>0, <3>1 DEF SlotRecord
                <5> HIDE DEF r
                <5>3. slots'[s] = r
                    BY <1>0, <3>1, <5>1
                <5>4. slots[s].occupied /\ ~slots[s].removed /\ ~WorkerAt(s)
                    BY <1>p, <2>3, <3>1, <3>3, <4>1 DEF Settled, WorkerAt
                <5>5. Settled(s)'
                    BY <5>2, <5>3, <5>4 DEF Settled
                <5>6. Placed(w)'
                    BY <1>0, <1>u, <3>1, <5>1, <5>2, <5>3, <5>4
                       DEF Moves, Placed, InHand
                <5> QED BY <2>6, <3>1, <3>2, <5>1, <5>2, <5>4, <5>5, <5>6
            <4>2. CASE slots[s].life # "active"
                <5> DEFINE r == [slots[s] EXCEPT !.admitted = FALSE]
                <5>1. slots' = [slots EXCEPT ![s] = r] /\ Completes(w, FALSE)
                    BY <1>0, <3>1, <3>5, <4>2, Zenon DEF RetireClaims
                <5>2. /\ r \in SlotRecord /\ r.occupied = slots[s].occupied
                      /\ r.removed = slots[s].removed /\ r.pane = slots[s].pane
                      /\ r.win = w /\ r.life = slots[s].life
                    BY <1>0, <3>1 DEF SlotRecord
                <5> HIDE DEF r
                <5>3. slots'[s] = r
                    BY <1>0, <3>1, <5>1
                <5>4. Settled(s)'
                    BY <1>p, <1>u, <3>1, <5>2, <5>3, SettledStays
                <5>5. Placed(w)'
                    BY <1>0, <5>1 DEF Completes, Returns, Idle, Placed
                <5>6. WorkerAt(s) => r.occupied /\ r.life = "cleaning"
                    BY <2>3, <5>2 DEF WorkerAt
                <5> QED BY <2>6, <3>1, <3>2, <5>1, <5>2, <5>4, <5>5, <5>6
            <4> QED BY <4>1, <4>2
        <3>6. CASE Publishes(w)
            <4> DEFINE r == [slots[s] EXCEPT !.admitted = TRUE]
            <4>1. slots' = [slots EXCEPT ![s] = r] /\ Completes(w, TRUE)
                BY <1>0, <3>1, <3>6, Zenon DEF Publishes
            <4>2. /\ r \in SlotRecord /\ r.occupied = slots[s].occupied
                  /\ r.removed = slots[s].removed /\ r.pane = slots[s].pane
                  /\ r.win = w /\ r.life = slots[s].life
                BY <1>0, <3>1 DEF SlotRecord
            <4> HIDE DEF r
            <4>3. slots'[s] = r
                BY <1>0, <3>1, <4>1
            <4>4. Settled(s)'
                BY <1>p, <1>u, <3>1, <4>2, <4>3, SettledStays
            <4>5. Placed(w)'
                BY <1>0, <4>1 DEF Completes, Returns, Idle, Placed
            <4>6. WorkerAt(s) => r.occupied /\ r.life = "cleaning"
                BY <2>3, <4>2 DEF WorkerAt
            <4> QED BY <2>6, <3>1, <3>2, <4>1, <4>2, <4>4, <4>5, <4>6
        <3> QED BY <2>11, <3>4, <3>5, <3>6
    <2>12. CASE RetireCleans(w) \/ PublishFails(w)
        <3>1. s \in Slots /\ slots[s].win = w
            BY <1>p, <2>12 DEF RetireCleans, PublishFails, At, Placed
        <3>2. \A v \in Windows \ {w} : ui[v].pc = "sheltering" => ui[v].slot # s
            BY <2>4, <3>1
        <3>3. PICK ok \in BOOLEAN : slots' = [slots EXCEPT ![s] = Cleaned(s, ok)]
            BY <2>12 DEF RetireCleans, PublishFails
        <3>4. slots'[s] = Cleaned(s, ok)
            BY <1>0, <3>1, <3>3
        <3>5. Settled(s)'
            BY <3>1, <3>4, CleanedIs DEF Settled
        <3>6. Placed(w)'
            <4>1. Returns(w) \/ Moves(w, "reaping", 0)
                BY <2>12, Zenon DEF RetireCleans, PublishFails, Completes
            <4>2. ui'[w].pc \in {"idle", "reaping"}
                BY <1>0, <4>1 DEF Returns, Idle, Moves
            <4> QED BY <4>2 DEF Placed
        <3>7. WorkerAt(s) => ui'[w] = Idle
            <4>1. CASE RetireCleans(w)
                BY <1>p, <4>1 DEF RetireCleans, At, Placed, InHand
            <4>2. CASE PublishFails(w)
                BY <1>0, <4>2 DEF PublishFails, Completes, Returns
            <4> QED BY <2>12, <4>1, <4>2
        <3> QED BY <2>6, <3>1, <3>2, <3>3, <3>5, <3>6, <3>7, CleanedIs
    <2>13. CASE RetireTimesOut(w)
        <3> DEFINE r == [slots[s] EXCEPT !.life = "failed"]
        <3>1. s \in Slots /\ slots[s].win = w /\ ~WorkerAt(s)
            BY <1>p, <2>13 DEF RetireTimesOut, At, Placed, InHand
        <3>2. \A v \in Windows \ {w} : ui[v].pc = "sheltering" => ui[v].slot # s
            BY <2>4, <3>1
        <3>3. slots' = [slots EXCEPT ![s] = r] /\ Completes(w, FALSE)
            BY <1>0, <3>1, <2>13, Zenon DEF RetireTimesOut
        <3>4. /\ r \in SlotRecord /\ r.occupied = slots[s].occupied
              /\ r.removed = slots[s].removed /\ r.pane = slots[s].pane
              /\ r.win = w /\ r.life = "failed"
            BY <1>0, <3>1 DEF SlotRecord
        <3> HIDE DEF r
        <3>5. slots'[s] = r
            BY <1>0, <3>1, <3>3
        <3>6. Settled(s)'
            BY <1>p, <3>1, <3>4, <3>5, RuntimeAssumption DEF Settled
        <3>7. Placed(w)'
            BY <1>0, <3>3 DEF Completes, Returns, Idle, Placed
        <3> QED BY <2>6, <3>1, <3>2, <3>3, <3>4, <3>6, <3>7
    <2> QED BY <1>2, <2>7, <2>8, <2>9, <2>10, <2>11, <2>12, <2>13
            DEF Handler, Receives, At, Handles, Handling
<1> QED BY <1>1, <1>2, HandlerDoes

(* So does the thread of a window that Explorer closes.                    *)
LEMMA PlaceKeptByExplorer ==
    ASSUME ProcessTypeOK, PlaceInv, NEW w \in Windows, Explorer(w)
    PROVE  PlaceInv'
<1>0. /\ ui \in [Windows -> UiRecord] /\ slots \in [Slots -> SlotRecord]
      /\ \A s \in Slots : slots[s] \in SlotRecord
    BY DEF ProcessTypeOK, UiRecord
<1>u. /\ UNCHANGED <<worker, host, hookReleased, pending>>
      /\ Taken' = Taken /\ Beyond' = Beyond
      /\ \A s : WorkerAt(s)' = WorkerAt(s)
    <2>1. UNCHANGED pending
        BY DEF Explorer, DestroyClaims, DestroyShelters, DestroyUnseen,
            ThreadEnds, WindowOpens, Gone, control
    <2> QED BY <2>1, WindowsLeavePipe
            DEF hostVars, Taken, Beyond, Hopeless, Serving, WorkerAt
<1>p. /\ \A s \in Slots : Settled(s)
      /\ \A v \in Windows : Placed(v)
      /\ WorkerPlaced
    BY DEF PlaceInv
<1>1. CASE DestroyClaims(w)
    <2>1. PICK s \in Slots :
              /\ Seen(w, s) /\ Moves(w, "sheltering", s)
              /\ slots' = [slots EXCEPT ![s].life = "cleaning",
                                        ![s].admitted = FALSE]
        BY <1>1 DEF DestroyClaims
    <2>2. slots[s].win = w /\ slots[s].life = "active"
        BY <2>1 DEF Seen
    <2>3. slots[s].occupied /\ ~slots[s].removed /\ ~WorkerAt(s)
        BY <1>p, <2>2, RuntimeAssumption DEF Settled, WorkerPlaced, WorkerAt
    <2> DEFINE r == [slots[s] EXCEPT !.life = "cleaning", !.admitted = FALSE]
    <2>4. slots' = [slots EXCEPT ![s] = r]
        BY <1>0, <2>1, Zenon
    <2>5. r.occupied /\ ~r.removed /\ r.win = w /\ r.life = "cleaning"
        BY <1>0, <2>2, <2>3 DEF SlotRecord
    <2> HIDE DEF r
    <2>6. \A t \in Slots : slots'[t] = IF t = s THEN r ELSE slots[t]
        BY <1>0, <2>4
    <2>7. /\ \A v \in Windows \ {w} : ui'[v] = ui[v]
          /\ ui'[w].pc = "sheltering" /\ ui'[w].slot = s
        BY <1>0, <2>1 DEF Moves
    <2>8. ASSUME NEW t \in Slots
          PROVE  Settled(t)'
        <3>1. CASE t = s
            BY <2>5, <2>6, <3>1 DEF Settled
        <3>2. CASE t # s
            BY <1>p, <1>u, <2>6, <3>2, SettledStays
        <3> QED BY <3>1, <3>2
    <2>9. ASSUME NEW v \in Windows
          PROVE  Placed(v)'
        <3>1. CASE v = w
            BY <1>u, <2>3, <2>5, <2>6, <2>7, <3>1 DEF Placed, InHand
        <3>2. CASE v # w
            <4>1. \/ ui[v].pc \in {"idle", "attaching", "deciding", "reaping",
                                   "creating"}
                  \/ ui[v].slot \in Slots /\ slots[ui[v].slot].win = v
                BY <1>0, <1>p DEF Placed, UiRecord
            <4>2. \/ ui[v].pc \in {"idle", "attaching", "deciding", "reaping",
                                   "creating"}
                  \/ slots'[ui[v].slot] = slots[ui[v].slot]
                BY <2>2, <2>6, <3>2, <4>1
            <4> QED BY <1>p, <1>u, <2>7, <3>2, <4>2, PlacedStays
        <3> QED BY <3>1, <3>2
    <2>10. WorkerPlaced'
        <3>1. \A v \in Windows : Handles(v)' => Handles(v)
            BY <2>7 DEF Handles, Handling
        <3> QED BY <1>p, <1>u, <2>3, <2>6, <3>1 DEF WorkerPlaced, WorkerAt
    <2> QED BY <2>8, <2>9, <2>10 DEF PlaceInv
<1>2. CASE DestroyShelters(w)
    <2>1. PICK s : s = ui[w].slot
        OBVIOUS
    <2>2. s \in Slots /\ slots[s].win = w /\ InHand(s) /\ ui[w].pc = "sheltering"
        BY <1>2, <1>p, <2>1 DEF DestroyShelters, At, Placed
    <2>3. /\ \A t \in Slots \ {s} : slots'[t] = slots[t]
          /\ slots'[s].occupied = slots[s].occupied
          /\ slots'[s].removed = slots[s].removed
          /\ slots'[s].life \in {"requested", "failed"}
          /\ ui' = [ui EXCEPT ![w] = Idle]
        BY <1>0, <1>2, <2>1, <2>2 DEF DestroyShelters, SlotRecord
    <2>4. /\ \A v \in Windows \ {w} : ui'[v] = ui[v]
          /\ ui'[w].pc = "idle"
        BY <1>0, <2>3 DEF Idle
    <2>5. slots[s].occupied \/ (slots[s].removed /\ Taken)
        BY <2>2 DEF InHand
    <2>6. ASSUME NEW t \in Slots
          PROVE  Settled(t)'
        <3>1. CASE t = s
            BY <1>p, <1>u, <2>3, <2>5, <3>1 DEF Settled
        <3>2. CASE t # s
            BY <1>p, <1>u, <2>3, <3>2, SettledStays
        <3> QED BY <3>1, <3>2
    <2>7. ASSUME NEW v \in Windows
          PROVE  Placed(v)'
        <3>1. CASE v = w
            BY <2>4, <3>1 DEF Placed
        <3>2. CASE v # w
            <4>1. \/ ui[v].pc \in {"idle", "attaching", "deciding", "reaping",
                                   "creating"}
                  \/ ui[v].slot \in Slots /\ slots[ui[v].slot].win = v
                BY <1>0, <1>p DEF Placed, UiRecord
            <4>2. \/ ui[v].pc \in {"idle", "attaching", "deciding", "reaping",
                                   "creating"}
                  \/ slots'[ui[v].slot] = slots[ui[v].slot]
                BY <2>2, <2>3, <3>2, <4>1
            <4> QED BY <1>p, <1>u, <2>4, <3>2, <4>2, PlacedStays
        <3> QED BY <3>1, <3>2
    <2>8. WorkerPlaced'
        <3>1. \A v \in Windows : Handles(v)' => Handles(v)
            BY <2>4 DEF Handles, Handling
        <3>2. ~WorkerAt(s)
            BY <2>2 DEF InHand
        <3> QED BY <1>p, <1>u, <2>3, <3>1, <3>2 DEF WorkerPlaced, WorkerAt
    <2> QED BY <2>6, <2>7, <2>8 DEF PlaceInv
<1>3. CASE DestroyUnseen(w) \/ ThreadEnds(w) \/ WindowOpens(w)
    <2>1. /\ UNCHANGED ui
          /\ \A t \in Slots :
                \/ slots'[t] = slots[t]
                \/ /\ slots[t].pane \in {"shown", "sheltered"}
                   /\ slots'[t] = [slots[t] EXCEPT !.pane = "lost"]
        BY <1>3 DEF DestroyUnseen, ThreadEnds, WindowOpens, registry
    <2>2. \A t \in Slots :
              /\ slots'[t].occupied = slots[t].occupied
              /\ slots'[t].removed = slots[t].removed
              /\ slots'[t].win = slots[t].win /\ slots'[t].life = slots[t].life
              /\ slots'[t].gen = slots[t].gen
              /\ slots'[t].pane = slots[t].pane
                    \/ slots[t].occupied \/ slots[t].removed
        <3> TAKE t \in Slots
        <3>1. CASE slots'[t] = slots[t]
            BY <3>1
        <3>2. CASE /\ slots[t].pane \in {"shown", "sheltered"}
                   /\ slots'[t] = [slots[t] EXCEPT !.pane = "lost"]
            <4>1. slots[t].occupied \/ slots[t].removed
                BY <1>p, <3>2 DEF Settled
            <4>2. slots[t] \in SlotRecord
                BY <1>0
            <4> QED BY <3>2, <4>1, <4>2 DEF SlotRecord
        <3> QED BY <2>1, <3>1, <3>2
    <2>3. ASSUME NEW t \in Slots
          PROVE  Settled(t)'
        BY <1>p, <1>u, <2>2, SettledStays
    <2>4. ASSUME NEW v \in Windows
          PROVE  Placed(v)'
        <3>1. \/ ui[v].pc \in {"idle", "attaching", "deciding", "reaping", "creating"}
              \/ ui[v].slot \in Slots
            BY <1>0, <1>p DEF Placed, UiRecord
        <3> QED BY <1>p, <1>u, <2>1, <2>2, <3>1, PlacedStays
    <2>5. WorkerPlaced'
        BY <1>p, <1>u, <2>1, <2>2 DEF WorkerPlaced, Handles
    <2> QED BY <2>3, <2>4, <2>5 DEF PlaceInv
<1> QED BY <1>1, <1>2, <1>3 DEF Explorer

(* Every step keeps the places.                                            *)
LEMMA PlaceKept ==
    ASSUME ProcessTypeOK, PipeInv, ControlInv, PlaceInv, EndInv, [Next]_vars
    PROVE  PlaceInv'
BY PlaceKeptByWorker, PlaceKeptByHandler, PlaceKeptByExplorer DEF Next

-----------------------------------------------------------------------------
(* What each of them may do to a slot.                                     *)

SameTenant(s) == slots'[s].win = slots[s].win /\ slots'[s].gen = slots[s].gen
SamePlace(s) == /\ slots'[s].occupied = slots[s].occupied
                /\ slots'[s].removed = slots[s].removed
SameLife(s) == slots'[s].life = slots[s].life
SameAdmitted(s) == slots'[s].admitted = slots[s].admitted
SamePane(s) == slots'[s].pane = slots[s].pane

(* A cleanup takes a window out of the registry, and says how it went.     *)
Removes(s) ==
    /\ SameTenant(s) /\ SameAdmitted(s)
    /\ ~slots'[s].occupied /\ slots'[s].removed
    /\ \/ slots'[s].life = "cleaned" /\ slots'[s].pane = "none"
       \/ slots'[s].life = "failed" /\ SamePane(s)

(* A reaping frees a slot.                                                 *)
Frees(s) ==
    /\ slots[s].removed /\ slots[s].life = "cleaned"
    /\ ~slots'[s].occupied /\ ~slots'[s].removed
    /\ slots'[s].win = NoWindow /\ slots'[s].life = "active"
    /\ slots'[s].pane = "none" /\ SameAdmitted(s)

(* A handler, before and after it has found a slot.                        *)
Fills(w, s) ==
    /\ ui[w].pc = "creating"
    /\ ~slots[s].occupied /\ ~slots[s].removed
    /\ slots'[s].win = w /\ slots'[s].pane = "shown" /\ SameAdmitted(s)
    /\ \/ /\ slots'[s].gen = pending.gen /\ slots'[s].life = "active"
          /\ slots'[s].occupied /\ ~slots'[s].removed
          /\ Moves(w, "publishing", s) /\ UNCHANGED <<control, retention>>
       \/ /\ slots'[s].life = "failed" /\ ~slots'[s].occupied /\ slots'[s].removed
          /\ Completes(w, FALSE) /\ retention'

Handled(w, s) ==
    /\ s = ui[w].slot /\ slots[s].win = w /\ slots'[s].win = w
    /\ \/ /\ ui[w].pc = "applying" /\ Completes(w, TRUE)
          /\ slots'[s].gen = pending.gen
          /\ SamePlace(s) /\ SameLife(s) /\ SameAdmitted(s) /\ SamePane(s)
          /\ UNCHANGED retention
       \/ /\ ui[w].pc = "retiring" /\ slots[s].life = "active"
          /\ slots'[s].life = "cleaning" /\ ~slots'[s].admitted
          /\ SameTenant(s) /\ SamePlace(s) /\ SamePane(s)
          /\ Moves(w, "cleaning", s) /\ UNCHANGED <<control, retention>>
       \/ /\ ui[w].pc = "retiring" /\ slots[s].life # "active"
          /\ SameTenant(s) /\ SamePlace(s) /\ SameLife(s) /\ SamePane(s)
          /\ ~slots'[s].admitted
          /\ Completes(w, FALSE) /\ UNCHANGED retention
       \/ /\ ui[w].pc \in {"cleaning", "publishing"} /\ Removes(s)
          /\ slots'[s].life = "failed" => retention' /\ Completes(w, FALSE)
       \/ /\ ui[w].pc = "cleaning" /\ slots'[s].life = "failed"
          /\ SameTenant(s) /\ SamePlace(s) /\ SameAdmitted(s) /\ SamePane(s)
          /\ Completes(w, FALSE) /\ retention'
       \/ /\ ui[w].pc = "publishing" /\ slots'[s].admitted
          /\ SameTenant(s) /\ SamePlace(s) /\ SameLife(s) /\ SamePane(s)
          /\ Completes(w, TRUE) /\ UNCHANGED retention

(* The writes of a handler to a slot.                                      *)
LEMMA SlotByHandler ==
    ASSUME ProcessTypeOK, PlaceInv, NEW w \in Windows, Handler(w),
           NEW s \in Slots
    PROVE  \/ slots'[s] = slots[s]
           \/ ui[w].pc = "reaping" /\ Frees(s)
           \/ Fills(w, s)
           \/ Handled(w, s)
<1>0. /\ ui \in [Windows -> UiRecord] /\ slots \in [Slots -> SlotRecord]
      /\ slots[s] \in SlotRecord
    BY DEF ProcessTypeOK, UiRecord
<1>1. CASE Receives(w) \/ DecidesRemoval(w) \/ DecidesUpdate(w)
           \/ CreatesNothing(w) \/ HandlerThrows(w)
    BY <1>1 DEF Receives, DecidesRemoval, DecidesUpdate, CreatesNothing,
        HandlerThrows, registry
<1>2. CASE ReapsForUpdate(w)
    <2>1. PICK stuck \in 1..NoneStuck : Reap(stuck)
        BY <1>2 DEF ReapsForUpdate
    <2>2. \/ slots'[s] = slots[s]
          \/ /\ slots[s].removed /\ slots[s].life = "cleaned"
             /\ slots'[s] = [Free EXCEPT !.admitted = slots[s].admitted]
        BY <2>1, ReapDoes
    <2> QED BY <1>2, <2>2 DEF ReapsForUpdate, At, Frees, Free, SameAdmitted
<1>3. CASE Creates(w)
    <2>1. PICK t \in Slots, r \in SlotRecord :
              /\ Chosen(t) /\ Moves(w, "publishing", t)
              /\ slots' = [slots EXCEPT ![t] = r]
              /\ r.win = w /\ r.gen = pending.gen /\ r.life = "active"
              /\ r.occupied /\ ~r.removed /\ r.pane = "shown"
              /\ r.admitted = slots[t].admitted
        BY <1>3, CreatesDoes
    <2>2. UNCHANGED <<control, retention>> /\ ui[w].pc = "creating"
        BY <1>3 DEF Creates, At
    <2>3. slots'[s] = IF s = t THEN r ELSE slots[s]
        BY <1>0, <2>1
    <2> QED BY <2>1, <2>2, <2>3 DEF Fills, SameAdmitted, Chosen, Vacant
<1>4. CASE CreatesResidue(w)
    <2>1. PICK t \in Slots, r \in SlotRecord :
              /\ Chosen(t)
              /\ slots' = [slots EXCEPT ![t] = r]
              /\ r.win = w /\ r.life = "failed"
              /\ ~r.occupied /\ r.removed /\ r.pane = "shown"
              /\ r.admitted = slots[t].admitted
        BY <1>4, ResidueDoes
    <2>2. Completes(w, FALSE) /\ retention' /\ ui[w].pc = "creating"
        BY <1>4, Zenon DEF CreatesResidue, At
    <2>3. slots'[s] = IF s = t THEN r ELSE slots[s]
        BY <1>0, <2>1
    <2> QED BY <2>1, <2>2, <2>3 DEF Fills, SameAdmitted, Chosen, Vacant
<1>5. CASE \/ Applies(w) \/ RetireClaims(w) \/ RetireCleans(w)
           \/ RetireTimesOut(w) \/ Publishes(w) \/ PublishFails(w)
    <2> DEFINE t == ui[w].slot
    <2>1. ui[w].pc \in {"applying", "retiring", "cleaning", "publishing"}
        BY <1>5 DEF Applies, RetireClaims, RetireCleans, RetireTimesOut,
            Publishes, PublishFails, At
    <2>2. t \in Slots /\ slots[t].win = w /\ slots[t] \in SlotRecord
        BY <1>0, <2>1 DEF PlaceInv, Placed
    <2> DEFINE Writes(r) == slots' = [slots EXCEPT ![t] = r]
    <2>3. \A r : Writes(r) => slots'[s] = IF s = t THEN r ELSE slots[s]
        BY <1>0, <2>2
    <2> HIDE DEF t
    <2>4. CASE Applies(w)
        <3>1. CASE UNCHANGED slots
            BY <3>1
        <3>2. CASE slots' = [slots EXCEPT ![ui[w].slot].gen = pending.gen]
                   /\ Completes(w, TRUE) /\ UNCHANGED retention
            <4> DEFINE r == [slots[t] EXCEPT !.gen = pending.gen]
            <4>1. slots'[s] = IF s = t THEN r ELSE slots[s]
                BY <1>0, <2>2, <2>3, <3>2 DEF t
            <4>2. ui[w].pc = "applying"
                BY <2>4 DEF Applies, At
            <4>3. /\ r.win = slots[t].win /\ r.gen = pending.gen
                  /\ r.life = slots[t].life /\ r.admitted = slots[t].admitted
                  /\ r.pane = slots[t].pane
                  /\ r.occupied = slots[t].occupied
                  /\ r.removed = slots[t].removed
                BY <2>2 DEF SlotRecord
            <4> HIDE DEF r
            <4> QED BY <2>2, <3>2, <4>1, <4>2, <4>3 DEF Handled, t,
                    SamePlace, SameLife, SameAdmitted, SamePane
        <3> QED BY <2>4, <3>1, <3>2, Zenon DEF Applies
    <2>5. CASE RetireClaims(w)
        <3>1. CASE slots[t].life = "active"
            <4> DEFINE r == [slots[t] EXCEPT !.admitted = FALSE,
                                             !.life = "cleaning"]
            <4>1. slots'[s] = IF s = t THEN r ELSE slots[s]
                <5>1. Writes(r)
                    BY <1>0, <2>2, <2>5, <3>1, Zenon DEF RetireClaims, t
                <5> QED BY <2>3, <5>1
            <4>2. /\ Moves(w, "cleaning", t) /\ UNCHANGED <<control, retention>>
                  /\ ui[w].pc = "retiring"
                BY <2>5, <3>1 DEF RetireClaims, At, t
            <4>3. /\ r.win = slots[t].win /\ r.gen = slots[t].gen
                  /\ r.life = "cleaning" /\ ~r.admitted /\ r.pane = slots[t].pane
                  /\ r.occupied = slots[t].occupied
                  /\ r.removed = slots[t].removed
                BY <2>2 DEF SlotRecord
            <4> HIDE DEF r
            <4> QED BY <2>2, <3>1, <4>1, <4>2, <4>3 DEF Handled, t, SameTenant,
                    SamePlace, SamePane
        <3>2. CASE slots[t].life # "active"
            <4> DEFINE r == [slots[t] EXCEPT !.admitted = FALSE]
            <4>1. slots'[s] = IF s = t THEN r ELSE slots[s]
                <5>1. Writes(r)
                    BY <1>0, <2>2, <2>5, <3>2, Zenon DEF RetireClaims, t
                <5> QED BY <2>3, <5>1
            <4>2. /\ Completes(w, FALSE) /\ UNCHANGED retention
                  /\ ui[w].pc = "retiring"
                BY <2>5, <3>2 DEF RetireClaims, At, t
            <4>3. /\ r.win = slots[t].win /\ r.gen = slots[t].gen
                  /\ r.life = slots[t].life /\ ~r.admitted
                  /\ r.pane = slots[t].pane
                  /\ r.occupied = slots[t].occupied
                  /\ r.removed = slots[t].removed
                BY <2>2 DEF SlotRecord
            <4> HIDE DEF r
            <4> QED BY <2>2, <3>2, <4>1, <4>2, <4>3 DEF Handled, t, SameTenant,
                    SamePlace, SameLife, SamePane
        <3> QED BY <3>1, <3>2
    <2>6. CASE RetireCleans(w) \/ PublishFails(w)
        <3>1. PICK ok \in BOOLEAN :
                  /\ slots' = [slots EXCEPT ![t] = Cleaned(t, ok)]
                  /\ ~ok => retention' /\ Completes(w, FALSE)
            BY <2>6, Zenon DEF RetireCleans, PublishFails, t
        <3>2. slots'[s] = IF s = t THEN Cleaned(t, ok) ELSE slots[s]
            BY <2>3, <3>1
        <3>3. ui[w].pc \in {"cleaning", "publishing"}
            BY <2>6 DEF RetireCleans, PublishFails, At
        <3>4. Cleaned(t, ok).gen = slots[t].gen
            BY <2>2 DEF Cleaned, SlotRecord
        <3>5. s = t => Removes(s)
            BY <2>2, <3>2, <3>4, CleanedIs DEF Removes, SameTenant, SameAdmitted,
                SamePane
        <3>6. s = t /\ slots'[s].life = "failed" => ~ok
            BY <2>2, <3>2, CleanedIs
        <3> QED BY <2>2, <3>1, <3>2, <3>3, <3>5, <3>6 DEF Handled, Removes,
                SameTenant, t
    <2>7. CASE RetireTimesOut(w)
        <3> DEFINE r == [slots[t] EXCEPT !.life = "failed"]
        <3>1. slots'[s] = IF s = t THEN r ELSE slots[s]
            <4>1. Writes(r)
                BY <1>0, <2>2, <2>7, Zenon DEF RetireTimesOut, t
            <4> QED BY <2>3, <4>1
        <3>2. /\ Completes(w, FALSE) /\ retention' /\ ui[w].pc = "cleaning"
            BY <2>7, Zenon DEF RetireTimesOut, At
        <3>3. /\ r.win = slots[t].win /\ r.gen = slots[t].gen
              /\ r.life = "failed" /\ r.admitted = slots[t].admitted
              /\ r.pane = slots[t].pane
              /\ r.occupied = slots[t].occupied /\ r.removed = slots[t].removed
            BY <2>2 DEF SlotRecord
        <3> HIDE DEF r
        <3> QED BY <2>2, <3>1, <3>2, <3>3 DEF Handled, t, SameTenant,
                SamePlace, SameAdmitted, SamePane
    <2>8. CASE Publishes(w)
        <3> DEFINE r == [slots[t] EXCEPT !.admitted = TRUE]
        <3>1. slots'[s] = IF s = t THEN r ELSE slots[s]
            <4>1. Writes(r)
                BY <1>0, <2>2, <2>8, Zenon DEF Publishes, t
            <4> QED BY <2>3, <4>1
        <3>2. /\ Completes(w, TRUE) /\ UNCHANGED retention
              /\ ui[w].pc = "publishing"
            BY <2>8, Zenon DEF Publishes, At
        <3>3. /\ r.win = slots[t].win /\ r.gen = slots[t].gen
              /\ r.life = slots[t].life /\ r.admitted /\ r.pane = slots[t].pane
              /\ r.occupied = slots[t].occupied /\ r.removed = slots[t].removed
            BY <2>2 DEF SlotRecord
        <3> HIDE DEF r
        <3> QED BY <2>2, <3>1, <3>2, <3>3 DEF Handled, t, SameTenant,
                SamePlace, SameLife, SamePane
    <2> QED BY <1>5, <2>4, <2>5, <2>6, <2>7, <2>8
<1> QED BY <1>1, <1>2, <1>3, <1>4, <1>5 DEF Handler

(* The writes of the worker.                                               *)
Worked(s) ==
    \/ /\ worker.pc = "requested" /\ worker'.pc = "requested"
       /\ slots[s].occupied /\ slots[s].life = "requested" /\ Removes(s)
       /\ slots'[s].life = "failed" => worker'.failed /\ retention'
    \/ /\ worker.pc = "removing" /\ worker'.pc = "cleaning"
       /\ slots[s].occupied /\ slots[s].life \in {"active", "requested"}
       /\ slots'[s].life = "cleaning" /\ ~slots'[s].admitted
       /\ SameTenant(s) /\ SamePlace(s) /\ SamePane(s)
    \/ /\ worker.pc = "removing" /\ worker'.pc = "removing"
       /\ slots[s].occupied /\ slots[s].life \notin {"active", "requested"}
       /\ ~slots'[s].occupied /\ slots'[s].removed
       /\ slots'[s].life = "failed" /\ ~slots'[s].admitted
       /\ SameTenant(s) /\ SamePane(s) /\ worker'.failed
    \/ /\ WorkerAt(s) /\ worker'.pc = "removing" /\ Removes(s)
       /\ slots'[s].life = "failed" => worker'.failed
    \/ /\ worker.pc = "finalizing" /\ ~slots'[s].admitted
       /\ SameTenant(s) /\ SamePlace(s) /\ SameLife(s) /\ SamePane(s)

(* A step of the worker leaves a slot, frees it, or works on it.           *)
LEMMA SlotByWorker ==
    ASSUME ProcessTypeOK, PlaceInv, WorkerStep, NEW s \in Slots
    PROVE  \/ slots'[s] = slots[s]
           \/ worker.pc \in {"reaping", "reporting"} /\ Frees(s)
           \/ Worked(s)
<1>0. /\ worker \in WorkerRecord /\ slots \in [Slots -> SlotRecord]
      /\ slots[s] \in SlotRecord
    BY DEF ProcessTypeOK, WorkerRecord
<1>1. CASE ReapsBeforeDispatch \/ Reports
    <2>1. PICK stuck \in 1..NoneStuck : Reap(stuck)
        BY <1>1 DEF ReapsBeforeDispatch, Reports
    <2>2. \/ slots'[s] = slots[s]
          \/ /\ slots[s].removed /\ slots[s].life = "cleaned"
             /\ slots'[s] = [Free EXCEPT !.admitted = slots[s].admitted]
        BY <2>1, ReapDoes
    <2>3. worker.pc \in {"reaping", "reporting"}
        BY <1>1 DEF ReapsBeforeDispatch, Reports
    <2> QED BY <2>2, <2>3 DEF Frees, Free, SameAdmitted
<1>r. ASSUME NEW t \in Slots, NEW ok \in BOOLEAN,
             slots' = [slots EXCEPT ![t] = Cleaned(t, ok)]
      PROVE  /\ s = t => Removes(s) /\ (slots'[s].life = "failed" => ~ok)
             /\ s # t => slots'[s] = slots[s]
    <2>1. slots'[s] = IF s = t THEN Cleaned(t, ok) ELSE slots[s]
        BY <1>0, <1>r
    <2>2. s = t => Cleaned(t, ok).gen = slots[t].gen
        BY <1>0 DEF Cleaned, SlotRecord
    <2> QED BY <2>1, <2>2, CleanedIs DEF Removes, SameTenant, SameAdmitted,
            SamePane
<1>2. CASE RemovesRequested
    <2>1. PICK t \in Requested, ok \in BOOLEAN :
              /\ slots' = [slots EXCEPT ![t] = Cleaned(t, ok)]
              /\ retention' = (retention \/ ~ok)
              /\ worker' = [worker EXCEPT !.failed = @ \/ ~ok]
        BY <1>2 DEF RemovesRequested
    <2>2. t \in Slots /\ slots[t].occupied /\ slots[t].life = "requested"
        BY DEF Requested, Occupied
    <2>3. ~ok => worker'.failed /\ retention'
        BY <1>0, <2>1, Zenon DEF WorkerRecord
    <2>4. worker.pc = "requested" /\ worker'.pc = "requested"
        BY <1>0, <1>2, <2>1 DEF RemovesRequested, WorkerRecord
    <2>5. s = t => Removes(s) /\ (slots'[s].life = "failed" => ~ok)
        BY <1>r, <2>1, <2>2
    <2>6. s # t => slots'[s] = slots[s]
        BY <1>r, <2>1, <2>2
    <2> QED BY <2>2, <2>3, <2>4, <2>5, <2>6 DEF Worked
<1>3. CASE RemoveAllClaims
    <2>1. PICK t \in Occupied :
             IF slots[t].life \in {"active", "requested"}
             THEN /\ slots' = [slots EXCEPT ![t].life = "cleaning",
                                            ![t].admitted = FALSE]
                  /\ worker' = [worker EXCEPT !.pc = "cleaning", !.slot = t]
             ELSE /\ slots' = [slots EXCEPT ![t].life = "failed",
                                            ![t].admitted = FALSE,
                                            ![t].occupied = FALSE,
                                            ![t].removed = TRUE]
                  /\ worker' = [worker EXCEPT !.failed = TRUE]
        BY <1>3 DEF RemoveAllClaims
    <2>2. /\ t \in Slots /\ slots[t].occupied /\ worker.pc = "removing"
          /\ slots[t] \in SlotRecord
        BY <1>0, <1>3 DEF RemoveAllClaims, Occupied
    <2>3. CASE slots[t].life \in {"active", "requested"}
        <3> DEFINE r == [slots[t] EXCEPT !.life = "cleaning", !.admitted = FALSE]
        <3>1. slots' = [slots EXCEPT ![t] = r]
            BY <1>0, <2>1, <2>2, <2>3, Zenon
        <3>2. slots'[s] = IF s = t THEN r ELSE slots[s]
            BY <1>0, <2>2, <3>1
        <3>3. /\ r.win = slots[t].win /\ r.gen = slots[t].gen
              /\ r.life = "cleaning" /\ ~r.admitted /\ r.pane = slots[t].pane
              /\ r.occupied = slots[t].occupied /\ r.removed = slots[t].removed
            BY <2>2 DEF SlotRecord
        <3>4. worker'.pc = "cleaning"
            BY <1>0, <2>1, <2>3 DEF WorkerRecord
        <3> HIDE DEF r
        <3> QED BY <2>2, <2>3, <3>2, <3>3, <3>4 DEF Worked, SameTenant, SamePlace,
                SamePane
    <2>4. CASE slots[t].life \notin {"active", "requested"}
        <3> DEFINE r == [slots[t] EXCEPT !.life = "failed", !.admitted = FALSE,
                                         !.occupied = FALSE, !.removed = TRUE]
        <3>1. slots' = [slots EXCEPT ![t] = r]
            BY <1>0, <2>1, <2>2, <2>4, Zenon
        <3>2. slots'[s] = IF s = t THEN r ELSE slots[s]
            BY <1>0, <2>2, <3>1
        <3>3. /\ r.win = slots[t].win /\ r.gen = slots[t].gen
              /\ r.life = "failed" /\ ~r.admitted /\ r.pane = slots[t].pane
              /\ ~r.occupied /\ r.removed
            BY <2>2 DEF SlotRecord
        <3>4. worker'.pc = "removing" /\ worker'.failed
            BY <1>0, <2>1, <2>2, <2>4 DEF WorkerRecord
        <3> HIDE DEF r
        <3> QED BY <2>2, <2>4, <3>2, <3>3, <3>4 DEF Worked, SameTenant, SamePane
    <2> QED BY <2>3, <2>4
<1>4. CASE RemoveAllCleans
    <2>0. PICK t : t = worker.slot
        OBVIOUS
    <2>1. PICK ok \in BOOLEAN :
              /\ slots' = [slots EXCEPT ![t] = Cleaned(t, ok)]
              /\ worker' = [worker EXCEPT !.pc = "removing", !.slot = 0,
                                          !.failed = @ \/ ~ok]
        BY <1>4, <2>0 DEF RemoveAllCleans
    <2>2. t \in Slots /\ worker.pc = "cleaning"
        BY <1>4, <2>0 DEF RemoveAllCleans, PlaceInv, WorkerPlaced
    <2>3. ~ok => worker'.failed
        BY <1>0, <2>1, Zenon DEF WorkerRecord
    <2>4. worker'.pc = "removing"
        BY <1>0, <2>1 DEF WorkerRecord
    <2>5. s = t => Removes(s) /\ (slots'[s].life = "failed" => ~ok)
        BY <1>r, <2>1, <2>2
    <2>6. s # t => slots'[s] = slots[s]
        BY <1>r, <2>1, <2>2
    <2> QED BY <2>0, <2>1, <2>2, <2>3, <2>4, <2>5, <2>6 DEF Worked, WorkerAt
<1>5. CASE Finalizes
    <2>1. slots'[s] = [slots[s] EXCEPT !.admitted = FALSE]
          /\ worker.pc = "finalizing"
        BY <1>5 DEF Finalizes
    <2> QED BY <1>0, <2>1 DEF Worked, SameTenant, SamePlace, SameLife, SamePane,
            SlotRecord
<1>6. Dispatch => UNCHANGED slots \/ RemovesRequested \/ ReapsBeforeDispatch
    BY DEF Dispatch, Connects, Reads, ReadsText, ShowReturns, ReadsDetach, ReadFails,
        RequestedDone, Checks, Sends, Returned, SendTimesOut, registry
<1>7. Ending => \/ UNCHANGED slots \/ RemoveAllClaims
                \/ RemoveAllCleans \/ Reports \/ Finalizes
    BY DEF Ending, RemoveAllDone, Drains, registry
<1> QED BY <1>1, <1>2, <1>3, <1>4, <1>5, <1>6, <1>7 DEF WorkerStep

(* The writes of a window that closes.                                     *)
Closes(w, s) ==
    /\ slots[s].win = w /\ SameTenant(s) /\ SamePlace(s)
    /\ \/ /\ Seen(w, s) /\ slots'[s].life = "cleaning" /\ ~slots'[s].admitted
          /\ SamePane(s) /\ Moves(w, "sheltering", s) /\ closed' = closed \cup {w}
       \/ /\ ui[w].pc = "sheltering" /\ s = ui[w].slot /\ SameAdmitted(s)
          /\ slots'[s].life \in {"requested", "failed"}
          /\ slots'[s].life = "failed" => retention'
          /\ slots'[s].pane # "shown" /\ closed' = closed \cup {w}
          /\ slots[s].pane \in {"none", "lost"} => SamePane(s)
       \/ /\ slots[s].pane \in {"shown", "sheltered"} /\ slots'[s].pane = "lost"
          /\ SameLife(s) /\ SameAdmitted(s) /\ ui[w].pc = "idle" /\ UNCHANGED ui
          /\ slots[s].pane = "shown" => closed' = closed \cup {w}

(* A step of Explorer leaves a slot, or closes its window.                 *)
LEMMA SlotByExplorer ==
    ASSUME ProcessTypeOK, PlaceInv, NEW w \in Windows, Explorer(w),
           NEW s \in Slots
    PROVE  slots'[s] = slots[s] \/ Closes(w, s)
<1>0. /\ slots \in [Slots -> SlotRecord] /\ slots[s] \in SlotRecord
    BY DEF ProcessTypeOK
<1>1. CASE DestroyClaims(w)
    <2>1. PICK t \in Slots :
              /\ Seen(w, t) /\ Moves(w, "sheltering", t)
              /\ slots' = [slots EXCEPT ![t].life = "cleaning",
                                        ![t].admitted = FALSE]
              /\ closed' = closed \cup {w}
        BY <1>1 DEF DestroyClaims
    <2> DEFINE r == [slots[t] EXCEPT !.life = "cleaning", !.admitted = FALSE]
    <2>2. slots' = [slots EXCEPT ![t] = r]
        BY <1>0, <2>1, Zenon
    <2>3. slots'[s] = IF s = t THEN r ELSE slots[s]
        BY <1>0, <2>2
    <2>4. s = t => /\ r.win = slots[t].win /\ r.gen = slots[t].gen
                   /\ r.life = "cleaning" /\ ~r.admitted
                   /\ r.pane = slots[t].pane
                   /\ r.occupied = slots[t].occupied
                   /\ r.removed = slots[t].removed
        BY <1>0 DEF SlotRecord
    <2> HIDE DEF r
    <2>5. slots[t].win = w
        BY <2>1 DEF Seen
    <2> QED BY <2>1, <2>3, <2>4, <2>5 DEF Closes, SameTenant, SamePlace, SamePane
<1>2. CASE DestroyShelters(w)
    <2>0. PICK t : t = ui[w].slot
        OBVIOUS
    <2>1. PICK ok \in BOOLEAN :
              /\ slots' = [slots EXCEPT
                     ![t].life = IF ok THEN "requested" ELSE "failed",
                     ![t].pane = CASE @ # "shown" -> @
                                   [] ok -> "sheltered"
                                   [] OTHER -> "lost"]
              /\ retention' = (retention \/ ~ok)
        BY <1>2, <2>0 DEF DestroyShelters
    <2>2. t \in Slots /\ slots[t].win = w /\ ui[w].pc = "sheltering"
        BY <1>2, <2>0 DEF DestroyShelters, At, PlaceInv, Placed
    <2>3. closed' = closed \cup {w}
        BY <1>2 DEF DestroyShelters, Gone
    <2>4. ~ok => retention'
        BY <2>1, Zenon
    <2>5. s # t => slots'[s] = slots[s]
        BY <1>0, <2>1, <2>2
    <2>6. s = t =>
              /\ SameTenant(s) /\ SamePlace(s) /\ SameAdmitted(s)
              /\ slots'[s].life = IF ok THEN "requested" ELSE "failed"
              /\ slots'[s].pane # "shown"
              /\ slots[s].pane # "shown" => SamePane(s)
        BY <1>0, <2>1, <2>2 DEF SlotRecord, SameTenant, SamePlace, SameAdmitted,
            SamePane
    <2> QED BY <2>0, <2>1, <2>2, <2>3, <2>4, <2>5, <2>6 DEF Closes
<1>3. CASE DestroyUnseen(w) \/ ThreadEnds(w) \/ WindowOpens(w)
    <2>1. \/ slots'[s] = slots[s]
          \/ /\ slots[s].pane \in {"shown", "sheltered"} /\ slots[s].win = w
             /\ ui[w].pc = "idle" /\ UNCHANGED ui
             /\ slots[s].pane = "shown" => closed' = closed \cup {w}
             /\ slots'[s] = [slots[s] EXCEPT !.pane = "lost"]
        BY <1>3 DEF DestroyUnseen, ThreadEnds, WindowOpens, registry, Gone, At
    <2> QED BY <1>0, <2>1 DEF Closes, SlotRecord, SameTenant, SamePlace,
            SameLife, SameAdmitted
<1> QED BY <1>1, <1>2, <1>3 DEF Explorer

-----------------------------------------------------------------------------
(* The retention.                                                          *)

Evidence(s) == /\ slots[s].occupied \/ slots[s].removed
               /\ slots[s].life = "failed"

(* A window that failed stays in sight.                                    *)
LEMMA EvidenceStays ==
    ASSUME ProcessTypeOK, PipeInv, ControlInv, PlaceInv, EndInv, [Next]_vars,
           NEW s \in Slots, Evidence(s)
    PROVE  Evidence(s)' \/ Hopeless' \/ Taken'
<1>h. (Hopeless => Hopeless') /\ (Taken => Taken')
    BY HopelessStays, TakenStays
<1> USE DEF Evidence
<1>1. CASE slots'[s] = slots[s]
    BY <1>1
<1>2. CASE Attach
    <2>1. slots = [t \in Slots |-> Free]
        BY <1>2, RuntimeAssumption DEF Attach, AttachBegins, AttachFails,
            AttachFailsResidue, AttachDone, EndInv
    <2> QED BY <2>1 DEF Free
<1>3. CASE WorkerStep
    <2>1. CASE WorkerAt(s)
        <3>1. Beyond
            BY <2>1 DEF PlaceInv, WorkerPlaced, WorkerAt
        <3> QED BY <1>h, <3>1 DEF Beyond
    <2>2. CASE ~WorkerAt(s)
        BY <1>1, <1>3, <2>2, SlotByWorker DEF Frees, Worked, SamePlace, SameLife
    <2> QED BY <2>1, <2>2
<1>4. ASSUME NEW w \in Windows, Handler(w)
      PROVE  Evidence(s)' \/ Hopeless' \/ Taken'
    <2>1. CASE Handled(w, s) /\ ui[w].pc \in {"cleaning", "publishing"}
        <3>1. /\ ui[w].pc = "cleaning" => \/ slots[s].life = "cleaning" \/ Taken
              /\ ui[w].pc = "publishing" => \/ slots[s].life = "active" \/ Beyond
            BY <2>1 DEF PlaceInv, Placed, InHand, Handled
        <3> QED BY <1>h, <2>1, <3>1 DEF Beyond
    <2>2. CASE Handled(w, s) /\ ui[w].pc \notin {"cleaning", "publishing"}
        BY <2>2 DEF Handled, SamePlace, SameLife
    <2>3. CASE Fills(w, s) \/ Frees(s)
        BY <2>3 DEF Fills, Frees
    <2> QED BY <1>1, <1>4, <2>1, <2>2, <2>3, SlotByHandler
<1>5. ASSUME NEW w \in Windows, Explorer(w)
      PROVE  Evidence(s)' \/ Hopeless' \/ Taken'
    <2>1. CASE Closes(w, s) /\ ui[w].pc = "sheltering" /\ s = ui[w].slot
        <3>1. Taken
            BY <2>1 DEF PlaceInv, Placed, InHand
        <3> QED BY <1>h, <3>1
    <2>2. CASE Closes(w, s) /\ ~(ui[w].pc = "sheltering" /\ s = ui[w].slot)
        BY <2>2 DEF Closes, SamePlace, SameLife, Seen
    <2> QED BY <1>1, <1>5, <2>1, <2>2, SlotByExplorer
<1>6. HostStep \/ UNCHANGED vars => UNCHANGED slots
    BY DEF HostStep, HostUpdates, HostRemoves, HostTexts, Asks, HostReleases,
        HostDetaches, HostLoses, vars, registry
<1> QED BY <1>1, <1>2, <1>3, <1>4, <1>5, <1>6 DEF Next

(* A request that fails in the worker's hands loses the Host.              *)
LEMMA FailureLoses ==
    ASSUME ProcessTypeOK, PipeInv, DispatchFails \/ Answers(FALSE),
           request.kind \in {"update", "remove", "text"}
    PROVE  Hopeless'
<1>0. worker \in WorkerRecord
    BY DEF ProcessTypeOK, WorkerRecord
<1>1. host \in {"awaiting", "lost"} /\ ~hookReleased
    BY DEF PipeInv
<1>2. Answers(FALSE) => host' = "lost" /\ UNCHANGED hookReleased
    BY <1>1 DEF Answers
<1>3. CASE Answers(FALSE)
    BY <1>1, <1>2, <1>3 DEF Hopeless
<1>4. CASE ~Answers(FALSE)
    <2>1. worker'.pc = "removing" /\ UNCHANGED <<host, hookReleased>>
        BY <1>0, <1>4 DEF DispatchFails, WorkerRecord, hostVars
    <2> QED BY <1>1, <2>1 DEF Hopeless, Serving
<1> QED BY <1>3, <1>4

(* Whatever retains the runtime leaves its evidence.                       *)
LEMMA RetainedKept ==
    ASSUME ProcessTypeOK, PipeInv, ControlInv, PlaceInv, RetainedInv, EndInv,
           [Next]_vars
    PROVE  RetainedInv'
<1>0. /\ worker \in WorkerRecord /\ ui \in [Windows -> UiRecord]
      /\ pending \in Pending
    BY DEF ProcessTypeOK, WorkerRecord, UiRecord, Pending
<1> DEFINE Shown == \E s \in Slots : Evidence(s)
<1>h. (Hopeless => Hopeless') /\ (Taken => Taken')
    BY HopelessStays, TakenStays
<1>e. Shown => Shown' \/ Hopeless' \/ Taken'
    BY EvidenceStays, Zenon
<1>r. RetainedInv <=> (retention => Hopeless \/ Taken \/ Failing \/ Shown)
    BY DEF RetainedInv, Evidence
<1>q. RetainedInv' <=> (retention' => Hopeless' \/ Taken' \/ Failing' \/ Shown')
    BY DEF RetainedInv, Evidence
<1> HIDE DEF Shown
<1>k. ASSUME UNCHANGED <<worker, pending>>, sent = "returned" => sent' = "returned",
             retention' => retention
      PROVE  RetainedInv'
    <2>1. Failing => Failing'
        BY <1>k DEF Failing
    <2> QED BY <1>h, <1>e, <1>r, <1>q, <1>k, <2>1
<1>n. ASSUME ~Failing, retention' => retention
      PROVE  RetainedInv'
    BY <1>h, <1>e, <1>r, <1>q, <1>n
<1>1. CASE HostStep \/ UNCHANGED vars
    <2>1. UNCHANGED <<worker, pending, sent, retention>>
        BY <1>1 DEF HostStep, HostUpdates, HostRemoves, HostTexts, Asks,
            HostReleases, HostDetaches, HostLoses, vars, control, registry
    <2> QED BY <1>k, <2>1
<1>2. CASE Attach
    <2>1. worker.pc = "attaching"
        BY <1>2, RuntimeAssumption DEF Attach, AttachBegins, AttachFails,
            AttachFailsResidue, AttachDone, EndInv
    <2>2. UNCHANGED retention \/ worker'.pc = "retained"
        BY <1>0, <1>2 DEF Attach, AttachBegins, AttachFails,
            AttachFailsResidue, Goes, WorkerRecord, registry
    <2>3. worker'.pc = "retained" => Taken'
        BY DEF Taken
    <2> QED BY <1>n, <1>q, <2>1, <2>2, <2>3 DEF Failing
<1>p. ASSUME NEW stuck \in 1..NoneStuck, Reap(stuck), retention', ~retention
      PROVE  Taken' \/ Shown'
    <2>1. PICK s \in Removed : slots[s].life # "cleaned" /\ slots'[s] = slots[s]
        BY <1>p, ReapDoes
    <2>2. s \in Slots /\ slots[s].removed
        BY DEF Removed
    <2>3. slots[s].life = "failed" \/ Taken
        BY <2>1, <2>2 DEF PlaceInv, Settled
    <2>4. slots[s].life = "failed" => Evidence(s)'
        BY <2>1, <2>2 DEF Evidence
    <2> QED BY <1>h, <2>2, <2>3, <2>4 DEF Shown
<1>3. CASE Dispatch
    <2>1. CASE Connects \/ Reads \/ ReadsText \/ ShowReturns \/ ReadsDetach \/ ReadFails
               \/ RequestedDone
        BY <1>n, <2>1 DEF Connects, Reads, ReadsText, ShowReturns, ReadsDetach, ReadFails,
            RequestedDone, registry, Failing
    <2>2. CASE RemovesRequested
        <3>1. PICK s \in Requested, ok \in BOOLEAN :
                  /\ slots' = [slots EXCEPT ![s] = Cleaned(s, ok)]
                  /\ retention' = (retention \/ ~ok)
            BY <2>2 DEF RemovesRequested
        <3>2. s \in Slots /\ ~Failing
            BY <2>2 DEF Requested, Occupied, RemovesRequested, Failing
        <3>3. ~ok => Shown'
            <4>1. slots'[s] = Cleaned(s, ok)
                BY <3>1, <3>2 DEF ProcessTypeOK
            <4>2. ~ok => Evidence(s)'
                BY <3>2, <4>1, CleanedIs DEF Evidence
            <4> QED BY <3>2, <4>2 DEF Shown
        <3> QED BY <1>n, <1>q, <3>1, <3>2, <3>3
    <2>3. CASE ReapsBeforeDispatch
        <3>1. \E stuck \in 1..NoneStuck : Reap(stuck)
            BY <2>3 DEF ReapsBeforeDispatch
        <3>2. ~Failing
            BY <2>3 DEF ReapsBeforeDispatch, Failing
        <3> QED BY <1>n, <1>p, <1>q, <3>1, <3>2
    <2>4. CASE Checks \/ Sends
        <3>1. /\ ~Failing /\ request.kind \in {"update", "remove"}
              /\ DispatchFails \/ (retention' => retention)
            BY <2>4, Zenon DEF Checks, Sends, Failing, PipeInv, Dispatching
        <3> QED BY <1>n, <1>q, <3>1, FailureLoses
    <2>5. CASE Returned \/ SendTimesOut
        <3>1. request.kind \in {"update", "remove"}
            BY <2>5 DEF Returned, SendTimesOut, PipeInv, Dispatching
        <3>2. CASE DispatchFails
            BY <1>q, <3>1, <3>2, FailureLoses
        <3>3. CASE /\ Answers(pending.ok) /\ UNCHANGED retention
                   /\ pending.completed
            <4>1. CASE pending.ok
                BY <1>n, <3>3, <4>1 DEF Failing
            <4>2. CASE ~pending.ok
                <5>1. pending.ok = FALSE
                    BY <1>0, <4>2, Zenon DEF Pending
                <5> QED BY <1>q, <3>1, <3>3, <5>1, FailureLoses
            <4> QED BY <4>1, <4>2
        <3> QED BY <2>5, <3>2, <3>3, Zenon DEF Returned, SendTimesOut
    <2> QED BY <1>3, <2>1, <2>2, <2>3, <2>4, <2>5 DEF Dispatch
<1>4. CASE Ending
    <2>1. ~Failing
        BY <1>4 DEF Ending, RemoveAllClaims, RemoveAllCleans, RemoveAllDone,
            Drains, Reports, Finalizes, Failing
    <2>2. CASE RemoveAllClaims \/ RemoveAllCleans \/ Drains
        BY <1>n, <2>1, <2>2 DEF RemoveAllClaims, RemoveAllCleans, Drains, registry
    <2>3. CASE RemoveAllDone
        <3>1. worker'.pc = IF worker.failed THEN "retained" ELSE "draining"
            BY <1>0, <2>3 DEF RemoveAllDone, Goes, WorkerRecord
        <3>2. worker.failed => Taken'
            BY <3>1 DEF Taken
        <3>3. retention' => retention \/ worker.failed
            BY <2>3, Zenon DEF RemoveAllDone
        <3> QED BY <1>n, <1>q, <2>1, <3>2, <3>3
    <2>4. CASE Reports
        <3>1. \E stuck \in 1..NoneStuck : Reap(stuck)
            BY <2>4 DEF Reports
        <3> QED BY <1>n, <1>p, <1>q, <2>1, <3>1
    <2>5. CASE Finalizes
        <3>1. UNCHANGED retention \/ worker'.pc = "retained"
            BY <1>0, <2>5 DEF Finalizes, Goes, WorkerRecord
        <3> QED BY <1>n, <1>q, <2>1, <3>1 DEF Taken
    <2> QED BY <1>4, <2>2, <2>3, <2>4, <2>5 DEF Ending
<1>5. ASSUME NEW w \in Windows, Handler(w)
      PROVE  RetainedInv'
    <2>0. UNCHANGED worker
        BY <1>5, WindowsLeavePipe
    <2>1. CASE Receives(w)
        <3>1. /\ UNCHANGED retention
              /\ retention => UNCHANGED pending /\ Returns(w)
            BY <2>1 DEF Receives, registry
        <3>2. CASE ~retention
            BY <1>q, <3>1, <3>2
        <3>3. CASE retention
            BY <1>k, <2>0, <3>1, <3>3 DEF Returns
        <3> QED BY <3>2, <3>3
    <2>2. CASE Handles(w)
        <3>1. \/ worker.pc = "waiting" /\ sent = "waiting" /\ ~pending.completed
              \/ Hopeless
            BY <2>2 DEF ControlInv
        <3>2. CASE Hopeless
            BY <1>h, <1>q, <3>2
        <3>3. CASE worker.pc = "waiting" /\ sent = "waiting" /\ ~pending.completed
            <4>1. ~Failing
                BY <3>3 DEF Failing
            <4>2. CASE Completes(w, FALSE)
                <5>1. ~pending'.ok /\ sent' = "returned"
                    BY <1>0, <3>3, <4>2 DEF Completes, Returns, Pending
                <5> QED BY <1>q, <2>0, <3>3, <5>1 DEF Failing
            <4>3. CASE Returns(w) /\ UNCHANGED pending
                BY <1>q, <2>0, <3>3, <4>3 DEF Failing, Returns
            <4>4. CASE ~Completes(w, FALSE) /\ ~(Returns(w) /\ UNCHANGED pending)
                <5>1. CASE DecidesRemoval(w) \/ DecidesUpdate(w) \/ Creates(w)
                           \/ CreatesNothing(w) \/ RetireClaims(w)
                    BY <1>n, <4>1, <5>1, Zenon DEF DecidesRemoval, DecidesUpdate,
                        CreatesNothing, RetireClaims, Creates, registry
                <5>2. CASE Applies(w) \/ Publishes(w) \/ RetireTimesOut(w)
                           \/ CreatesResidue(w) \/ PublishFails(w)
                    BY <1>n, <4>1, <4>4, <5>2, Zenon DEF Applies, Publishes,
                        RetireTimesOut, CreatesResidue, PublishFails
                <5>3. CASE RetireCleans(w)
                    <6>1. PICK ok \in BOOLEAN : /\ retention' = (retention \/ ~ok)
                                                /\ ~ok => Completes(w, FALSE)
                        BY <5>3, Zenon DEF RetireCleans
                    <6>2. retention' => retention
                        BY <4>4, <6>1, Zenon
                    <6> QED BY <1>n, <4>1, <6>2
                <5>4. CASE ReapsForUpdate(w)
                    <6>1. PICK stuck \in 1..NoneStuck :
                              /\ Reap(stuck)
                              /\ stuck # NoneStuck => Completes(w, FALSE)
                        BY <5>4 DEF ReapsForUpdate
                    <6> QED BY <1>n, <1>p, <1>q, <4>1, <6>1
                <5>5. CASE HandlerThrows(w)
                    BY <4>4, <5>5 DEF HandlerThrows
                <5> QED BY <1>5, <2>1, <5>1, <5>2, <5>3, <5>4, <5>5 DEF Handler
            <4> QED BY <4>2, <4>3, <4>4
        <3> QED BY <3>1, <3>2, <3>3
    <2> QED BY <1>5, <2>1, <2>2, HandlerDoes
<1>6. ASSUME NEW w \in Windows, Explorer(w)
      PROVE  RetainedInv'
    <2>1. /\ UNCHANGED worker
          /\ UNCHANGED pending
          /\ sent = "returned" => sent' = "returned"
        BY <1>6, WindowsLeavePipe DEF Explorer, DestroyClaims, DestroyShelters,
            DestroyUnseen, ThreadEnds, WindowOpens, Gone, control
    <2>2. CASE DestroyShelters(w)
        <3>1. PICK s : s = ui[w].slot
            OBVIOUS
        <3>2. PICK ok \in BOOLEAN :
                  /\ slots' = [slots EXCEPT
                         ![s].life = IF ok THEN "requested" ELSE "failed",
                         ![s].pane = CASE @ # "shown" -> @
                                       [] ok -> "sheltered"
                                       [] OTHER -> "lost"]
                  /\ retention' = (retention \/ ~ok)
            BY <2>2, <3>1 DEF DestroyShelters
        <3>3. /\ s \in Slots /\ slots[s] \in SlotRecord
              /\ slots[s].occupied \/ slots[s].removed
            BY <2>2, <3>1 DEF DestroyShelters, At, PlaceInv, Placed, InHand,
                ProcessTypeOK
        <3>4. ~ok => Evidence(s)'
            <4>1. ~ok => /\ slots'[s].life = "failed"
                         /\ slots'[s].occupied = slots[s].occupied
                         /\ slots'[s].removed = slots[s].removed
                BY <3>2, <3>3 DEF SlotRecord, ProcessTypeOK
            <4> QED BY <3>3, <4>1 DEF Evidence
        <3>5. ~ok => Shown'
            BY <3>3, <3>4 DEF Shown
        <3>6. ok => (retention' => retention)
            BY <3>2, Zenon
        <3> QED BY <1>k, <1>q, <2>1, <3>5, <3>6
    <2>3. CASE ~DestroyShelters(w)
        <3>1. UNCHANGED retention
            BY <1>6, <2>3 DEF Explorer, DestroyClaims, DestroyUnseen,
                ThreadEnds, WindowOpens, registry
        <3> QED BY <1>k, <2>1, <3>1
    <2> QED BY <2>2, <2>3
<1> QED BY <1>1, <1>2, <1>3, <1>4, <1>5, <1>6 DEF Next, WorkerStep

-----------------------------------------------------------------------------
(* The end.                                                                *)

(* Behind a closed gate, with no thread in the DLL, nothing but the panes  *)
(* of windows that Explorer closes can change.                             *)
LEMMA QuietStays ==
    ASSUME ProcessTypeOK, PlaceInv, gateClosed, UiQuiet,
           NEW w \in Windows, Handler(w) \/ Explorer(w)
    PROVE  /\ UiQuiet' /\ UNCHANGED <<retention, gateClosed>>
           /\ \A s \in Slots :
                 /\ SamePlace(s)
                 /\ slots[s].pane = "none" => slots'[s].pane = "none"
<1>0. ui \in [Windows -> UiRecord] /\ ui[w].pc = "idle"
    BY DEF ProcessTypeOK, UiRecord, UiQuiet
<1>1. CASE Handler(w)
    <2>1. Receives(w) /\ UNCHANGED <<slots, retention, gateClosed>>
        BY <1>0, <1>1, HandlerDoes DEF Handles, Handling, registry, Receives,
            worldVars
    <2>2. ui' = [ui EXCEPT ![w] = Idle]
        BY <2>1 DEF Receives, Returns
    <2>3. UiQuiet'
        BY <1>0, <2>2 DEF UiQuiet, Idle
    <2> QED BY <2>1, <2>3 DEF SamePlace
<1>2. CASE Explorer(w)
    <2>1. UNCHANGED <<ui, retention, gateClosed>>
        BY <1>0, <1>2 DEF Explorer, DestroyClaims, DestroyShelters, Seen,
            DestroyUnseen, ThreadEnds, WindowOpens, At, registry
    <2>2. ASSUME NEW s \in Slots
          PROVE  /\ SamePlace(s)
                 /\ slots[s].pane = "none" => slots'[s].pane = "none"
        BY <1>0, <1>2, SlotByExplorer DEF Closes, SamePlace, SamePane
    <2> QED BY <2>1, <2>2 DEF UiQuiet
<1> QED BY <1>1, <1>2

(* Every step keeps what the attach and the way out rest on.               *)
LEMMA EndKept ==
    ASSUME RuntimeInvariant, [Next]_vars
    PROVE  EndInv'
<1> USE DEF EndInv
<1>i. /\ ProcessTypeOK /\ PipeInv /\ ControlInv /\ PlaceInv /\ RetainedInv
      /\ EndInv
    BY DEF RuntimeInvariant
<1>0. /\ worker \in WorkerRecord /\ ui \in [Windows -> UiRecord]
      /\ slots \in [Slots -> SlotRecord]
      /\ \A s \in Slots : slots[s] \in SlotRecord
    BY <1>i DEF ProcessTypeOK, WorkerRecord, UiRecord
<1>1. CASE UNCHANGED vars
    <2>1. UNCHANGED <<worker, ui, slots, retention, gateClosed, hooked,
                      hookReleased, acked>>
        BY <1>1 DEF vars
    <2> QED BY <1>i, <2>1 DEF UiQuiet, Occupied, Removed, Leaving
<1>2. CASE HostStep
    <2>1. UNCHANGED <<worker, ui, slots, retention, gateClosed, acked>>
        BY <1>2 DEF HostStep, HostUpdates, HostRemoves, HostTexts, Asks,
            HostReleases, HostDetaches, HostLoses, registry
    <2>2. ~hooked => ~hooked'
        BY <1>i, <1>2 DEF HostStep, HostUpdates, HostRemoves, HostTexts, Asks,
            HostReleases, HostDetaches, HostLoses
    <2>3. UNCHANGED hookReleased \/ (hookReleased' /\ worker.pc = "reading")
        BY <1>i, <1>2 DEF HostStep, HostUpdates, HostRemoves, HostTexts, Asks,
            HostReleases, HostDetaches, HostLoses, PipeInv
    <2> QED BY <1>i, <2>1, <2>2, <2>3 DEF UiQuiet, Occupied, Removed, Leaving
<1>3. CASE Attach
    <2>1. /\ worker.pc = "attaching" /\ ui' = [ui EXCEPT ![First] = Idle]
          /\ ui[First].pc = "attaching"
          /\ worker'.pc \in {"connecting", "absent", "retained"}
          /\ UNCHANGED acked
        BY <1>0, <1>i, <1>3, RuntimeAssumption DEF Attach, AttachBegins,
            AttachFails, AttachFailsResidue, AttachDone, Goes, WorkerRecord,
            hostVars
    <2>2. \A w \in Windows : ui[w].pc = "attaching" => w = First
        BY <1>i
    <2>3. ~acked
        BY <1>i, <2>1
    <2> QED BY <1>0, <2>1, <2>2, <2>3, RuntimeAssumption DEF Leaving, Idle
<1>4. CASE Dispatch
    <2>1. /\ worker.pc \in {"connecting", "reading", "showing"} \cup Dispatching
          /\ UNCHANGED <<ui, acked>>
        BY <1>4 DEF Dispatch, Connects, Reads, ReadsText, ShowReturns, ReadsDetach,
            ReadFails, RemovesRequested, RequestedDone, ReapsBeforeDispatch,
            Checks, Sends, Returned, SendTimesOut, Dispatching, Answers,
            DispatchFails, hostVars
    <2>2. worker'.pc \in {"reading", "showing", "removing", "retained"}
                            \cup Dispatching
        <3>1. ASSUME DispatchFails \/ \E ok \in BOOLEAN : Answers(ok)
              PROVE  worker'.pc \in {"reading", "removing"}
            BY <1>0, <3>1 DEF DispatchFails, Answers, WorkerRecord
        <3>2. pending.ok \in BOOLEAN
            BY <1>i DEF ProcessTypeOK
        <3>3. CASE Connects \/ Reads \/ ReadsText \/ ShowReturns \/ ReadsDetach \/ ReadFails
                   \/ RemovesRequested \/ RequestedDone
            BY <1>0, <3>1, <3>3 DEF Connects, Reads, ReadsText, ShowReturns, ReadsDetach,
                ReadFails, RemovesRequested, RequestedDone, Goes, Dispatching,
                WorkerRecord
        <3>4. CASE ReapsBeforeDispatch \/ Checks \/ Sends \/ Returned
                   \/ SendTimesOut
            BY <1>0, <3>1, <3>2, <3>4 DEF ReapsBeforeDispatch, Checks, Sends,
                Returned, SendTimesOut, Goes, Dispatching, WorkerRecord
        <3> QED BY <1>4, <3>3, <3>4 DEF Dispatch
    <2>3. ~acked /\ \A w \in Windows : ui[w].pc # "attaching"
        BY <1>i, <2>1 DEF Dispatching
    <2> QED BY <2>1, <2>2, <2>3 DEF Dispatching, Leaving
<1>5. CASE Ending
    <2>1. /\ worker.pc \in {"removing", "cleaning", "draining", "reporting",
                            "finalizing"}
          /\ UNCHANGED <<ui, hooked, hookReleased>>
        BY <1>5 DEF Ending, RemoveAllClaims, RemoveAllCleans, RemoveAllDone,
            Drains, Reports, Finalizes, hostVars
    <2>2. \A w \in Windows : ui[w].pc # "attaching"
        BY <1>i, <2>1
    <2>3. CASE RemoveAllClaims \/ RemoveAllCleans
        <3>1. worker'.pc \in {"removing", "cleaning"} /\ UNCHANGED acked
            BY <1>0, <2>3 DEF RemoveAllClaims, RemoveAllCleans, WorkerRecord,
                hostVars
        <3>2. ~acked
            BY <1>i, <2>3 DEF RemoveAllClaims, RemoveAllCleans
        <3> QED BY <2>1, <2>2, <3>1, <3>2 DEF Leaving
    <2>4. CASE RemoveAllDone
        <3>1. /\ worker.pc = "removing"
              /\ worker'.pc = IF worker.failed THEN "retained" ELSE "draining"
              /\ gateClosed' = ~worker.failed /\ Occupied = {}
              /\ UNCHANGED <<slots, acked>>
            BY <1>0, <2>4 DEF RemoveAllDone, Goes, WorkerRecord, hostVars
        <3>2. ~worker.failed => gateClosed'
            BY <3>1, Zenon
        <3>3. ~acked
            BY <1>i, <3>1
        <3> QED BY <2>1, <2>2, <3>1, <3>2, <3>3 DEF Leaving, Occupied
    <2>5. CASE Drains
        <3>1. /\ worker.pc = "draining" /\ UNCHANGED <<slots, acked, gateClosed>>
              /\ \/ worker'.pc = "reporting" /\ UiQuiet
                 \/ worker'.pc = "retained"
            BY <1>0, <2>5 DEF Drains, Goes, WorkerRecord, hostVars, registry
        <3>2. ~acked
            BY <1>i, <3>1
        <3> QED BY <1>i, <2>1, <2>2, <3>1, <3>2 DEF Leaving, Occupied, UiQuiet
    <2>6. CASE Reports
        <3>1. PICK stuck \in 1..NoneStuck :
                 /\ Reap(stuck)
                 /\ \/ /\ stuck = NoneStuck /\ hookReleased
                       /\ worker.detach => Proof
                       /\ Goes("finalizing")
                       /\ acked' = (worker.detach /\ host = "detaching")
                    \/ Goes("retained") /\ UNCHANGED acked
            BY <2>6 DEF Reports
        <3>2. worker.pc = "reporting" /\ UNCHANGED gateClosed
            BY <2>6 DEF Reports
        <3>3. gateClosed /\ UiQuiet /\ ~acked /\ (hookReleased => Occupied = {})
            BY <1>i, <3>2 DEF Leaving
        <3>4. worker'.pc \in {"finalizing", "retained"}
            BY <1>0, <3>1 DEF Goes, WorkerRecord
        <3>5. \A s \in Slots :
                 \/ slots'[s] = slots[s]
                 \/ ~slots'[s].occupied /\ slots'[s].pane = "none"
            BY <1>i, <3>1, ReapDoes DEF Free
        <3>6. hookReleased' => Occupied' = {}
            BY <2>1, <3>3, <3>5 DEF Occupied
        <3>7. worker'.pc = "finalizing" => hookReleased' /\ Removed' = {}
            BY <1>0, <1>i, <2>1, <3>1, ReapDoes DEF Goes, WorkerRecord
        <3>8. acked' => /\ worker'.pc = "finalizing" /\ ~hooked
                        /\ \A s \in Slots : slots[s].pane = "none"
            <4>1. acked' => /\ worker'.pc = "finalizing" /\ hookReleased
                            /\ worker.detach /\ Proof
                BY <1>0, <3>1, <3>3 DEF Goes, WorkerRecord
            <4>2. Proof => \A s \in Slots : slots[s].pane = "none"
                BY <1>i DEF Proof, PlaceInv, Settled, Occupied, Removed
            <4> QED BY <1>i, <4>1, <4>2 DEF PipeInv
        <3> QED BY <2>1, <2>2, <3>2, <3>3, <3>4, <3>5, <3>6, <3>7, <3>8
                DEF Leaving, UiQuiet
    <2>7. CASE Finalizes
        <3>1. /\ worker.pc = "finalizing" /\ UNCHANGED <<gateClosed, acked>>
              /\ \/ worker'.pc = "unloaded" /\ UNCHANGED retention
                 \/ worker'.pc = "retained"
            BY <1>0, <2>7 DEF Finalizes, Goes, WorkerRecord, hostVars
        <3>2. \A s \in Slots : SamePlace(s) /\ SamePane(s)
            BY <1>0, <2>7 DEF Finalizes, SamePlace, SamePane, SlotRecord
        <3>3. /\ gateClosed /\ UiQuiet /\ hookReleased
              /\ Occupied = {} /\ Removed = {}
            BY <1>i, <3>1 DEF Leaving
        <3>4. ~retention
            BY <1>i, <3>1, <3>3 DEF RetainedInv, Hopeless, Taken, Failing,
                Occupied, Removed
        <3>5. Occupied' = {} /\ Removed' = {}
            BY <3>2, <3>3 DEF Occupied, Removed, SamePlace
        <3>6. acked => \A s \in Slots : slots'[s].pane = "none"
            BY <1>i, <3>2 DEF SamePane
        <3> QED BY <1>i, <2>1, <2>2, <3>1, <3>3, <3>4, <3>5, <3>6
                DEF Leaving, UiQuiet
    <2> QED BY <1>5, <2>3, <2>4, <2>5, <2>6, <2>7 DEF Ending
<1>6. ASSUME NEW w \in Windows, Handler(w) \/ Explorer(w)
      PROVE  EndInv'
    <2>1. UNCHANGED <<worker, hooked, hookReleased, acked>>
        BY <1>6, WindowsLeavePipe DEF hostVars
    <2>2. UNCHANGED gateClosed
        BY <1>6 DEF Handler, Receives, DecidesRemoval, DecidesUpdate, Applies,
            RetireClaims, RetireCleans, RetireTimesOut, ReapsForUpdate, Creates,
            CreatesNothing, CreatesResidue, Publishes, PublishFails,
            HandlerThrows, worldVars, Explorer, DestroyClaims, DestroyShelters,
            DestroyUnseen, ThreadEnds, WindowOpens
    <2>3. \A v \in Windows : ui'[v].pc = "attaching" => ui[v].pc = "attaching"
        <3>1. CASE Handler(w)
            <4>1. \/ \E pc \in Handling : \E s : Moves(w, pc, s)
                  \/ Returns(w)
                <5>1. (\E ok \in BOOLEAN : Completes(w, ok)) => Returns(w)
                    BY DEF Completes
                <5>2. Receives(w) => Moves(w, "deciding", 0) \/ Returns(w)
                    BY DEF Receives
                <5> QED BY <3>1, <5>1, <5>2, HandlerDoes DEF Handling
            <4> QED BY <1>0, <4>1 DEF Moves, Returns, Idle, Handling, UiRecord
        <3>2. CASE Explorer(w)
            <4>1. \/ UNCHANGED ui \/ ui' = [ui EXCEPT ![w] = Idle]
                  \/ \E s : Moves(w, "sheltering", s)
                BY <3>2 DEF Explorer, DestroyClaims, DestroyShelters,
                    DestroyUnseen, ThreadEnds, WindowOpens
            <4> QED BY <1>0, <4>1 DEF Moves, Idle, UiRecord
        <3> QED BY <1>6, <3>1, <3>2
    <2>4. CASE worker.pc = "attaching"
        <3>1. ~Handler(w)
            <4>1. posted = {} /\ ~Handles(w)
                BY <1>i, <2>4 DEF ControlInv
            <4> QED BY <4>1, HandlerDoes DEF Receives
        <3>2. Explorer(w)
            BY <1>6, <3>1
        <3>3. \A s \in Slots : /\ slots[s] = Free /\ Free.win = NoWindow
            BY <1>i, <2>4 DEF Free
        <3>4. \A s \in Slots : slots'[s] = slots[s]
            BY <1>i, <3>2, <3>3, SlotByExplorer, RuntimeAssumption DEF Closes
        <3>5. ~DestroyShelters(w)
            BY <1>i, <3>3, RuntimeAssumption DEF DestroyShelters, At, PlaceInv,
                Placed
        <3>6. UNCHANGED retention
            BY <3>2, <3>5 DEF Explorer, DestroyClaims, DestroyUnseen, ThreadEnds,
                WindowOpens, registry
        <3>7. slots' = [s \in Slots |-> Free]
            <4>1. slots' \in [Slots -> SlotRecord]
                BY <1>i, SlotsTyped
            <4> QED BY <3>3, <3>4, <4>1
        <3>8. ~acked /\ ~retention
            BY <1>i, <2>4
        <3>9. worker'.pc = "attaching" /\ ~acked' /\ ~retention'
            BY <2>1, <2>4, <3>6, <3>8
        <3> QED BY <1>i, <2>3, <3>7, <3>9 DEF Leaving
    <2>5. CASE worker.pc = "draining"
        <3>1. gateClosed /\ ~acked
            BY <1>i, <2>5
        <3>2. hookReleased => \A s \in Slots : ~slots'[s].occupied
            <4>1. hookReleased => \A s \in Slots : ~slots[s].occupied
                BY <1>i, <2>5 DEF Occupied
            <4>2. hookReleased => ~Handles(w)
                BY <1>i, <2>5 DEF ControlInv, Hopeless
            <4>3. Receives(w) => UNCHANGED slots
                BY DEF Receives, registry
            <4>4. Handler(w) /\ hookReleased => UNCHANGED slots
                BY <4>2, <4>3, HandlerDoes
            <4>5. Explorer(w) => \A s \in Slots : SamePlace(s)
                BY <1>i, SlotByExplorer DEF Closes, SamePlace
            <4> QED BY <1>6, <4>1, <4>4, <4>5 DEF SamePlace
        <3> QED BY <2>1, <2>2, <2>3, <2>5, <3>1, <3>2, <1>i DEF Leaving, Occupied
    <2>6. CASE worker.pc \in Leaving \/ acked
        <3>1. gateClosed /\ UiQuiet
            BY <1>i, <2>6
        <3>2. /\ UiQuiet' /\ UNCHANGED <<retention, gateClosed>>
              /\ \A s \in Slots :
                    /\ SamePlace(s)
                    /\ slots[s].pane = "none" => slots'[s].pane = "none"
            BY <1>6, <1>i, <3>1, QuietStays
        <3>3. (Occupied = {} => Occupied' = {}) /\ (Removed = {} => Removed' = {})
            BY <3>2 DEF Occupied, Removed, SamePlace
        <3> QED BY <1>i, <2>1, <2>3, <2>6, <3>1, <3>2, <3>3 DEF Leaving
    <2>7. CASE worker.pc \notin {"attaching", "draining"} \cup Leaving /\ ~acked
        BY <1>i, <2>1, <2>3, <2>7 DEF Leaving
    <2> QED BY <2>4, <2>5, <2>6, <2>7
<1> QED BY <1>1, <1>2, <1>3, <1>4, <1>5, <1>6 DEF Next, WorkerStep

-----------------------------------------------------------------------------
(* One pane for a window.                                                  *)

(* The retention is never taken back.                                      *)
LEMMA RetentionStays ==
    ASSUME ProcessTypeOK, [Next]_vars, retention
    PROVE  retention'
<1>1. CASE HostStep \/ Attach \/ UNCHANGED vars
    BY <1>1, Zenon DEF HostStep, HostUpdates, HostRemoves, HostTexts, Asks,
        HostReleases, HostDetaches, HostLoses, Attach, AttachBegins,
        AttachFails, AttachFailsResidue, vars, registry
<1>2. CASE Dispatch
    <2>1. ASSUME NEW stuck \in 1..NoneStuck, Reap(stuck)
          PROVE  retention'
        BY <2>1, ReapDoes
    <2> QED BY <1>2, <2>1, Zenon DEF Dispatch, Connects, Reads, ReadsText, ShowReturns,
            ReadsDetach, ReadFails, RemovesRequested, RequestedDone,
            ReapsBeforeDispatch, Checks, Sends, Returned, SendTimesOut, registry
<1>3. CASE Ending
    <2>1. ASSUME NEW stuck \in 1..NoneStuck, Reap(stuck)
          PROVE  retention'
        BY <2>1, ReapDoes
    <2> QED BY <1>3, <2>1, Zenon DEF Ending, RemoveAllClaims, RemoveAllCleans,
            RemoveAllDone, Drains, Reports, Finalizes, registry
<1>4. ASSUME NEW w \in Windows, Handler(w)
      PROVE  retention'
    BY <1>4, HandlerDoes
<1>5. ASSUME NEW w \in Windows, Explorer(w)
      PROVE  retention'
    BY <1>5, Zenon DEF Explorer, DestroyClaims, DestroyShelters, DestroyUnseen,
        ThreadEnds, WindowOpens, registry
<1> QED BY <1>1, <1>2, <1>3, <1>4, <1>5 DEF Next, WorkerStep

(* There is one handler at a time.                                         *)
LEMMA OneHandler ==
    ASSUME ControlInv, NEW v \in Windows, NEW w \in Windows, Handles(v), Handles(w)
    PROVE  v = w
BY DEF ControlInv

(* A thread that is in a handler was there, or has just moved.             *)
LEMMA HandlesComes ==
    ASSUME ProcessTypeOK, [Next]_vars, NEW w \in Windows, Handles(w)'
    PROVE  \/ Handles(w) /\ ui'[w] = ui[w]
           \/ Handler(w)
<1>0. ui \in [Windows -> UiRecord]
    BY DEF ProcessTypeOK, UiRecord
<1>1. CASE UNCHANGED ui
    BY <1>1 DEF Handles
<1>2. CASE Attach
    BY <1>0, <1>2, RuntimeAssumption DEF Attach, AttachBegins, AttachFails,
        AttachFailsResidue, AttachDone, Handles, Handling, Idle
<1>3. ASSUME NEW v \in Windows, Explorer(v)
      PROVE  Handles(w) /\ ui'[w] = ui[w]
    <2>1. \/ UNCHANGED ui \/ ui' = [ui EXCEPT ![v] = Idle]
          \/ \E s : Moves(v, "sheltering", s)
        BY <1>3 DEF Explorer, DestroyClaims, DestroyShelters, DestroyUnseen,
            ThreadEnds, WindowOpens
    <2> QED BY <1>0, <2>1 DEF Moves, Idle, UiRecord, Handles, Handling
<1>4. ASSUME NEW v \in Windows, Handler(v), v # w
      PROVE  Handles(w) /\ ui'[w] = ui[w]
    <2>1. \/ \E pc \in Handling : \E s : Moves(v, pc, s)
          \/ Returns(v)
        <3>1. (\E ok \in BOOLEAN : Completes(v, ok)) => Returns(v)
            BY DEF Completes
        <3>2. Receives(v) => Moves(v, "deciding", 0) \/ Returns(v)
            BY DEF Receives
        <3> QED BY <1>4, <3>1, <3>2, HandlerDoes DEF Handling
    <2> QED BY <1>0, <1>4, <2>1 DEF Moves, Returns, Handles
<1>5. HostStep \/ WorkerStep \/ UNCHANGED vars => UNCHANGED ui
    BY DEF HostStep, HostUpdates, HostRemoves, HostTexts, Asks, HostReleases,
        HostDetaches, HostLoses, vars, WorkerStep, Dispatch, Connects, Reads,
        ReadsText, ShowReturns, ReadsDetach, ReadFails, RemovesRequested, RequestedDone,
        ReapsBeforeDispatch, Checks, Sends, Returned, SendTimesOut, Ending,
        RemoveAllClaims, RemoveAllCleans, RemoveAllDone, Drains, Reports,
        Finalizes
<1> QED BY <1>1, <1>2, <1>3, <1>4, <1>5 DEF Next

(* A slot keeps its place, or gives up its tenant.                         *)
Keeps(s) == /\ slots'[s].win = slots[s].win /\ SamePlace(s)
            /\ slots'[s].pane = "shown" => slots[s].pane = "shown"
Drops(s) == /\ slots'[s].win = slots[s].win
            /\ slots[s].occupied \/ slots[s].removed
            /\ ~slots'[s].occupied /\ slots'[s].removed
            /\ slots'[s].pane = "shown" => slots[s].pane = "shown"
            /\ Serving /\ slots'[s].pane = "shown" =>
                  /\ retention'
                  /\ \A w \in Windows : slots[s].win = w => ~Handles(w)'

(* What a step may do to the place of a slot.                              *)
LEMMA PlaceComes ==
    ASSUME ProcessTypeOK, ControlInv, PlaceInv, [Next]_vars, ~Attach,
           NEW s \in Slots
    PROVE  \/ Keeps(s) \/ Frees(s) \/ Drops(s)
           \/ \E w \in Windows : Handler(w) /\ Fills(w, s)
<1>0. ui \in [Windows -> UiRecord] /\ slots[s] \in SlotRecord
    BY DEF ProcessTypeOK, UiRecord
<1>1. CASE slots'[s] = slots[s]
    BY <1>1 DEF Keeps, SamePlace
<1>2. CASE WorkerStep /\ Worked(s)
    <2>1. CASE worker.pc = "requested"
        <3>1. \A w \in Windows : ~Handles(w)
            BY <2>1 DEF ControlInv
        <3>2. UNCHANGED ui
            BY <1>2, <2>1 DEF WorkerStep, Dispatch, Connects, Reads, ReadsText, ShowReturns,
                ReadsDetach, ReadFails, RemovesRequested, RequestedDone,
                ReapsBeforeDispatch, Checks, Sends, Returned, SendTimesOut,
                Ending, RemoveAllClaims, RemoveAllCleans, RemoveAllDone, Drains,
                Reports, Finalizes
        <3> QED BY <1>2, <2>1, <3>1, <3>2 DEF Worked, Removes, SameTenant,
                SamePane, Drops, Handles, WorkerAt
    <2>2. CASE worker.pc # "requested"
        <3>1. ~Serving
            BY <1>2, <2>2 DEF Worked, WorkerAt, Serving
        <3>2. WorkerAt(s) => slots[s].occupied \/ slots[s].removed
            BY DEF WorkerAt, PlaceInv, WorkerPlaced
        <3> QED BY <1>2, <2>2, <3>1, <3>2 DEF Worked, Removes, SameTenant,
                SamePane, SamePlace, Drops, Keeps
    <2> QED BY <2>1, <2>2
<1>3. ASSUME NEW w \in Windows, Handler(w), Handled(w, s)
      PROVE  Keeps(s) \/ Drops(s)
    <2> DEFINE Lost == slots'[s].life = "failed" => retention' /\ Completes(w, FALSE)
    <2>1. CASE Removes(s) /\ Lost
        <3>1. slots[s].occupied \/ slots[s].removed
            BY <1>3, <2>1, RuntimeAssumption DEF Handled, PlaceInv, Settled
        <3>2. slots'[s].pane = "shown" =>
                 /\ retention' /\ Completes(w, FALSE) /\ slots[s].pane = "shown"
            BY <2>1 DEF Removes, SamePane
        <3>3. ASSUME Completes(w, FALSE), NEW v \in Windows, slots[s].win = v
              PROVE  ~Handles(v)'
            <4>1. v = w /\ ui' = [ui EXCEPT ![w] = Idle]
                BY <1>3, <3>3 DEF Handled, Completes, Returns
            <4> QED BY <1>0, <4>1 DEF Idle, Handles, Handling
        <3> QED BY <2>1, <3>1, <3>2, <3>3 DEF Drops, Removes, SameTenant
    <2>2. CASE ~(Removes(s) /\ Lost)
        BY <1>3, <2>2 DEF Handled, Keeps, SamePlace, SamePane, SameTenant
    <2> QED BY <2>1, <2>2
<1>4. ASSUME NEW w \in Windows, Explorer(w), Closes(w, s)
      PROVE  Keeps(s)
    BY <1>4 DEF Closes, Keeps, SamePane, SameTenant, SamePlace
<1>5. HostStep \/ UNCHANGED vars => slots'[s] = slots[s]
    BY DEF HostStep, HostUpdates, HostRemoves, HostTexts, Asks, HostReleases,
        HostDetaches, HostLoses, vars, registry
<1> QED BY <1>1, <1>2, <1>3, <1>4, <1>5, SlotByHandler, SlotByWorker,
        SlotByExplorer DEF Next

(* How a handler comes to retire a window, or to create one.               *)
LEMMA HandlerTurns ==
    ASSUME ProcessTypeOK, PlaceInv, NEW w \in Windows, Handler(w),
           ui'[w].pc \in {"reaping", "creating", "retiring", "cleaning"}
    PROVE  \/ /\ ui'[w].pc = "creating" /\ UNCHANGED slots
              /\ ~\E s \in Slots : Existing(w, s)
           \/ ui'[w].pc = "creating" /\ ui[w].pc = "reaping"
           \/ /\ ui'[w].pc = "reaping" /\ ui[w].pc = "cleaning"
              /\ ~slots'[ui[w].slot].occupied
           \/ /\ ui'[w].pc = "retiring" /\ UNCHANGED slots
              /\ ui'[w].slot \in Slots /\ Existing(w, ui'[w].slot)
           \/ /\ ui'[w].pc = "cleaning" /\ ui[w].pc = "retiring"
              /\ ui'[w].slot = ui[w].slot
<1>0. ui \in [Windows -> UiRecord]
    BY DEF ProcessTypeOK, UiRecord
<1>m. \A pc \in Handling : \A s : Moves(w, pc, s) =>
         ui'[w].pc = pc /\ ui'[w].slot = s
    BY <1>0 DEF Moves
<1>r. ~Returns(w) /\ \A ok \in BOOLEAN : ~Completes(w, ok)
    <2>1. ~Returns(w)
        BY <1>0 DEF Returns, Idle
    <2> QED BY <2>1 DEF Completes
<1>f. ~Completes(w, TRUE) /\ ~Completes(w, FALSE)
    BY <1>r, Zenon
<1>1. CASE Receives(w)
    BY <1>1, <1>m, <1>r DEF Receives, Handling
<1>2. CASE DecidesRemoval(w)
    BY <1>2, <1>m, <1>f, Zenon DEF DecidesRemoval, Handling, registry
<1>3. CASE DecidesUpdate(w)
    BY <1>3, <1>m, <1>f, Zenon DEF DecidesUpdate, Handling, registry
<1>4. CASE RetireClaims(w)
    BY <1>4, <1>m, <1>f, Zenon DEF RetireClaims, Handling, At
<1>5. CASE RetireCleans(w)
    <2>1. PICK s : s = ui[w].slot
        OBVIOUS
    <2>2. PICK ok \in BOOLEAN :
             /\ slots' = [slots EXCEPT ![s] = Cleaned(s, ok)]
             /\ ui[w].pc = "cleaning"
             /\ Moves(w, "reaping", 0) \/ Completes(w, ok)
        BY <1>5, <2>1, Zenon DEF RetireCleans, At
    <2>3. s \in Slots
        BY <2>1, <2>2 DEF PlaceInv, Placed
    <2>4. ~slots'[s].occupied
        <3>1. slots'[s] = Cleaned(s, ok)
            BY <2>2, <2>3 DEF ProcessTypeOK
        <3> QED BY <2>2, <2>3, <3>1, CleanedIs
    <2>5. Moves(w, "reaping", 0)
        BY <1>r, <2>2, Zenon
    <2> QED BY <1>m, <2>1, <2>2, <2>4, <2>5 DEF Handling
<1>6. CASE ReapsForUpdate(w)
    BY <1>6, <1>m, <1>f, Zenon DEF ReapsForUpdate, Handling, At
<1>7. ~Creates(w)
    BY <1>m DEF Creates, Handling
<1>8. CASE Applies(w) \/ RetireTimesOut(w) \/ CreatesNothing(w)
           \/ CreatesResidue(w) \/ Publishes(w) \/ PublishFails(w)
           \/ HandlerThrows(w)
    BY <1>f, <1>r, <1>8, Zenon DEF Applies, RetireTimesOut, CreatesNothing,
        CreatesResidue, Publishes, PublishFails, HandlerThrows
<1> QED BY <1>1, <1>2, <1>3, <1>4, <1>5, <1>6, <1>7, <1>8 DEF Handler

(* A creation fills one slot.                                              *)
LEMMA FillsOnce ==
    ASSUME ProcessTypeOK, PlaceInv, NEW w \in Windows, Handler(w),
           NEW s \in Slots, NEW t \in Slots, Fills(w, s), Fills(w, t)
    PROVE  s = t
<1>1. /\ slots[s].win = NoWindow /\ slots[t].win = NoWindow
      /\ slots'[s].win = w /\ slots'[t].win = w /\ w # NoWindow
    BY RuntimeAssumption DEF Fills, PlaceInv, Settled
<1>2. ui[w].pc = "creating"
    BY DEF Fills
<1>3. ASSUME NEW x \in Slots, NEW r \in SlotRecord,
             slots' = [slots EXCEPT ![x] = r]
      PROVE  s = t
    <2>1. \A y \in Slots : y # x => slots'[y] = slots[y]
        BY <1>3 DEF ProcessTypeOK
    <2> QED BY <1>1, <2>1
<1>4. CASE Creates(w)
    BY <1>3, <1>4, CreatesDoes
<1>5. CASE CreatesResidue(w)
    BY <1>3, <1>5, ResidueDoes
<1>6. CASE ~Creates(w) /\ ~CreatesResidue(w)
    <2>1. UNCHANGED slots
        BY <1>2, <1>6 DEF Handler, Receives, DecidesRemoval, DecidesUpdate,
            Applies, RetireClaims, RetireCleans, RetireTimesOut, ReapsForUpdate,
            CreatesNothing, Publishes, PublishFails, HandlerThrows, At, registry
    <2> QED BY <1>1, <2>1
<1> QED BY <1>4, <1>5, <1>6

(* Every step keeps a window in one slot.                                  *)
LEMMA OnceKept ==
    ASSUME RuntimeInvariant, [Next]_vars
    PROVE  OnceInv'
<1>i. /\ ProcessTypeOK /\ PipeInv /\ ControlInv /\ PlaceInv /\ EndInv
      /\ RegisteredOnce /\ NoneLeft /\ OneLeft /\ ShownOnce
    BY DEF RuntimeInvariant, OnceInv
<1>0. /\ ui \in [Windows -> UiRecord] /\ slots' \in [Slots -> SlotRecord]
      /\ \A s \in Slots : slots[s] \in SlotRecord
    BY <1>i, SlotsTyped DEF ProcessTypeOK, UiRecord
<1>1. CASE Attach
    <2>1. /\ worker.pc = "attaching" /\ ui' = [ui EXCEPT ![First] = Idle]
          /\ slots = [s \in Slots |-> Free]
        BY <1>1, <1>i, RuntimeAssumption DEF Attach, AttachBegins, AttachFails,
            AttachFailsResidue, AttachDone, EndInv
    <2>2. \A w \in Windows : ui'[w].pc \notin Handling
        BY <1>0, <1>i, <2>1, RuntimeAssumption DEF ControlInv, Handles, Handling,
            Idle
    <2>3. \A s \in Slots : s # 1 => slots'[s] = Free
        BY <1>1, <2>1 DEF Attach, AttachBegins, AttachFails, AttachFailsResidue,
            registry
    <2>4. Serving' => \A s \in Slots : ~slots'[s].removed
        <3>1. AttachFails \/ AttachFailsResidue => ~Serving'
            BY <1>i DEF AttachFails, AttachFailsResidue, Goes, Serving,
                ProcessTypeOK
        <3>2. AttachBegins => ~slots'[1].removed
            BY <2>1, RuntimeAssumption DEF AttachBegins, Initial, Free, Slots
        <3> QED BY <1>1, <2>3, <3>1, <3>2 DEF Attach, Free
    <2>5. RegisteredOnce'
        BY <2>3 DEF RegisteredOnce, Free
    <2>6. NoneLeft' /\ OneLeft'
        BY <2>2 DEF NoneLeft, OneLeft, Handling
    <2>7. ShownOnce'
        BY <2>4 DEF ShownOnce, Removed
    <2> QED BY <2>5, <2>6, <2>7 DEF OnceInv
<1>2. CASE ~Attach
    <2>f. ASSUME NEW w \in Windows, NEW s \in Slots, Handler(w), Fills(w, s)
          PROVE  /\ ui[w].pc = "creating" /\ Handles(w) /\ slots'[s].win = w
                 /\ ~slots[s].occupied /\ ~slots[s].removed
                 /\ slots[s].pane = "none"
                 /\ slots'[s].occupied =>
                       ui'[w] = [pc |-> "publishing", slot |-> s]
                 /\ ~slots'[s].occupied => retention' /\ ~Handles(w)'
        <3>1. slots'[s].occupied => Moves(w, "publishing", s)
            BY <2>f DEF Fills
        <3>2. ~slots'[s].occupied => retention' /\ Completes(w, FALSE)
            BY <2>f DEF Fills
        <3>3. Completes(w, FALSE) => ~Handles(w)'
            BY <1>0 DEF Completes, Returns, Idle, Handles, Handling
        <3> QED BY <1>0, <1>i, <2>f, <3>1, <3>2, <3>3 DEF Fills, Moves, Handles,
                Handling, PlaceInv, Settled
    <2>o. ASSUME NEW s \in Slots, slots'[s].occupied
          PROVE  \/ slots[s].occupied /\ slots'[s].win = slots[s].win
                 \/ LET w == slots'[s].win
                    IN  /\ w \in Windows /\ ui[w].pc = "creating"
                        /\ ui'[w].pc = "publishing" /\ ui'[w].slot = s
        <3>1. CASE Keeps(s) \/ Frees(s) \/ Drops(s)
            BY <2>o, <3>1 DEF Keeps, SamePlace, Frees, Drops
        <3>2. CASE \E w \in Windows : Handler(w) /\ Fills(w, s)
            <4>1. PICK w \in Windows : Handler(w) /\ Fills(w, s)
                BY <3>2
            <4>2. /\ ui[w].pc = "creating" /\ slots'[s].win = w
                  /\ ui'[w] = [pc |-> "publishing", slot |-> s]
                BY <2>f, <2>o, <4>1
            <4> QED BY <4>2
        <3> QED BY <1>2, <1>i, <3>1, <3>2, PlaceComes, Zenon
    <2>1. RegisteredOnce'
        <3> SUFFICES ASSUME NEW s \in Slots, NEW t \in Slots,
                            slots'[s].occupied, slots'[t].occupied,
                            slots'[s].win = slots'[t].win
                     PROVE  s = t
            BY Zenon DEF RegisteredOnce
        <3>1. ASSUME NEW w \in Windows, NEW y \in Slots,
                     ui[w].pc = "creating", slots[y].occupied
              PROVE  slots[y].win # w
            BY <1>i, <3>1 DEF NoneLeft, Occupied
        <3>2. CASE slots[s].occupied /\ slots'[s].win = slots[s].win
                   /\ slots[t].occupied /\ slots'[t].win = slots[t].win
            BY <1>i, <3>2 DEF RegisteredOnce
        <3> QED BY <2>o, <3>1, <3>2
    <2>2. NoneLeft'
        <3> SUFFICES ASSUME NEW w \in Windows, ui'[w].pc \in {"reaping", "creating"},
                            NEW s \in Slots, slots'[s].occupied, slots'[s].win = w
                     PROVE  FALSE
            BY DEF NoneLeft, Occupied
        <3>1. slots[s].occupied /\ slots[s].win = w
            BY <2>o
        <3>2. CASE ui'[w] = ui[w]
            BY <1>i, <3>1, <3>2 DEF NoneLeft, Occupied
        <3>3. CASE Handler(w)
            <4>1. CASE ~\E t \in Slots : Existing(w, t)
                <5>1. PICK t \in {x \in Slots : slots[x].occupied /\ slots[x].win = w} :
                         \A x \in {x \in Slots : slots[x].occupied /\ slots[x].win = w} :
                            t <= x
                    BY <3>1, LeastSlot
                <5> QED BY <4>1, <5>1 DEF Existing, Occupied
            <4>2. CASE ui[w].pc = "reaping"
                BY <1>i, <3>1, <4>2 DEF NoneLeft, Occupied
            <4>3. CASE ui[w].pc = "cleaning" /\ ~slots'[ui[w].slot].occupied
                BY <1>i, <3>1, <4>3 DEF OneLeft, Occupied
            <4> QED BY <1>i, <3>3, <4>1, <4>2, <4>3, HandlerTurns
        <3>4. Handles(w)'
            BY DEF Handles, Handling
        <3> QED BY <1>i, <3>2, <3>3, <3>4, HandlesComes
    <2>3. OneLeft'
        <3> SUFFICES ASSUME NEW w \in Windows, ui'[w].pc \in {"retiring", "cleaning"},
                            NEW s \in Slots, slots'[s].occupied, slots'[s].win = w
                     PROVE  s = ui'[w].slot
            BY DEF OneLeft, Occupied
        <3>1. slots[s].occupied /\ slots[s].win = w
            BY <2>o
        <3>2. CASE ui'[w] = ui[w]
            BY <1>i, <3>1, <3>2 DEF OneLeft, Occupied
        <3>3. CASE Handler(w)
            <4>1. CASE ui'[w].slot \in Slots /\ Existing(w, ui'[w].slot)
                BY <1>i, <3>1, <4>1 DEF Existing, Occupied, RegisteredOnce
            <4>2. CASE ui[w].pc = "retiring" /\ ui'[w].slot = ui[w].slot
                BY <1>i, <3>1, <4>2 DEF OneLeft, Occupied
            <4> QED BY <1>i, <3>3, <4>1, <4>2, HandlerTurns
        <3>4. Handles(w)'
            BY DEF Handles, Handling
        <3> QED BY <1>i, <3>2, <3>3, <3>4, HandlesComes
    <2>4. ShownOnce'
        <3> SUFFICES ASSUME Serving', NEW s \in Slots, slots'[s].removed,
                            slots'[s].pane = "shown"
                     PROVE  /\ retention'
                            /\ \A t \in Slots \ {s} :
                                  slots'[t].occupied \/ slots'[t].pane = "shown" =>
                                      slots'[t].win # slots'[s].win
                            /\ \A w \in Windows : Handles(w)' => slots'[s].win # w
            BY DEF ShownOnce, Removed
        <3>1. Serving
            BY <1>i, HopelessStays
        <3>2. ASSUME NEW x \in Slots, NEW t \in Slots, x # t,
                     slots[x].occupied \/ slots[x].removed, slots[x].pane = "shown",
                     slots[t].occupied \/ slots[t].pane = "shown"
              PROVE  slots[t].win # slots[x].win
            <4>1. CASE slots[x].removed
                BY <1>i, <3>1, <3>2, <4>1 DEF ShownOnce, Removed
            <4>2. CASE slots[x].occupied /\ slots[t].occupied
                BY <1>i, <3>2, <4>2 DEF RegisteredOnce
            <4>3. CASE slots[x].occupied /\ ~slots[t].occupied
                <5>1. slots[t].removed
                    BY <1>i, <3>2, <4>3 DEF PlaceInv, Settled
                <5> QED BY <1>i, <3>1, <3>2, <4>3, <5>1 DEF ShownOnce, Removed
            <4> QED BY <3>2, <4>1, <4>2, <4>3
        <3>3. ASSUME NEW w \in Windows, ui[w].pc = "creating", NEW t \in Slots,
                     \/ slots[t].occupied
                     \/ slots[t].removed /\ slots[t].pane = "shown"
              PROVE  slots[t].win # w
            <4>1. Handles(w)
                BY <3>3 DEF Handles, Handling
            <4> QED BY <1>i, <3>1, <3>3, <4>1
                    DEF NoneLeft, Occupied, ShownOnce, Removed
        <3>4. ASSUME NEW t \in Slots, slots'[t].occupied \/ slots'[t].pane = "shown"
              PROVE  \/ /\ slots[t].occupied \/ slots[t].pane = "shown"
                        /\ slots'[t].win = slots[t].win
                     \/ /\ slots'[t].win \in Windows
                        /\ Handler(slots'[t].win) /\ Fills(slots'[t].win, t)
            <4>1. CASE Keeps(t) \/ Frees(t) \/ Drops(t)
                BY <3>4, <4>1 DEF Keeps, SamePlace, Frees, Drops
            <4>2. CASE \E w \in Windows : Handler(w) /\ Fills(w, t)
                <5>1. PICK w \in Windows : Handler(w) /\ Fills(w, t)
                    BY <4>2
                <5>2. slots'[t].win = w
                    BY <2>f, <5>1
                <5> QED BY <5>1, <5>2
            <4> QED BY <1>2, <1>i, <4>1, <4>2, PlaceComes, Zenon
        <3>5. CASE Keeps(s) \/ Drops(s)
            <4>1. /\ slots[s].occupied \/ slots[s].removed
                  /\ slots[s].pane = "shown" /\ slots'[s].win = slots[s].win
                BY <3>5 DEF Keeps, SamePlace, Drops
            <4>2. ASSUME NEW t \in Slots \ {s},
                         slots'[t].occupied \/ slots'[t].pane = "shown"
                  PROVE  slots'[t].win # slots'[s].win
                <5>1. CASE /\ slots[t].occupied \/ slots[t].pane = "shown"
                           /\ slots'[t].win = slots[t].win
                    BY <3>2, <4>1, <4>2, <5>1
                <5>2. CASE /\ slots'[t].win \in Windows
                           /\ Handler(slots'[t].win) /\ Fills(slots'[t].win, t)
                    <6>1. ui[slots'[t].win].pc = "creating"
                        BY <5>2 DEF Fills
                    <6> QED BY <3>3, <4>1, <5>2, <6>1
                <5> QED BY <3>4, <4>2, <5>1, <5>2
            <4>3. CASE Keeps(s)
                <5>1. slots[s].removed
                    BY <4>3 DEF Keeps, SamePlace
                <5>2. retention /\ \A w \in Windows : Handles(w) => slots[s].win # w
                    BY <1>i, <3>1, <4>1, <5>1 DEF ShownOnce, Removed
                <5>3. retention'
                    BY <1>i, <5>2, RetentionStays
                <5>4. ASSUME NEW w \in Windows, Handles(w)'
                      PROVE  Handles(w)
                    <6>1. CASE Handler(w) /\ ~Handles(w)
                        <7>1. Receives(w)
                            BY <6>1, HandlerDoes
                        <7>2. Returns(w)
                            BY <5>2, <7>1 DEF Receives
                        <7> QED BY <1>0, <5>4, <7>2
                                DEF Returns, Idle, Handles, Handling
                    <6> QED BY <1>i, <5>4, <6>1, HandlesComes
                <5> QED BY <4>1, <4>2, <5>2, <5>3, <5>4
            <4>4. CASE Drops(s)
                <5>1. /\ retention'
                      /\ \A w \in Windows : slots[s].win = w => ~Handles(w)'
                    BY <3>1, <4>4 DEF Drops
                <5> QED BY <4>1, <4>2, <5>1
            <4> QED BY <3>5, <4>3, <4>4
        <3>6. ASSUME NEW w \in Windows, Handler(w), Fills(w, s)
              PROVE  /\ retention'
                     /\ \A t \in Slots \ {s} :
                           slots'[t].occupied \/ slots'[t].pane = "shown" =>
                               slots'[t].win # slots'[s].win
                     /\ \A v \in Windows : Handles(v)' => slots'[s].win # v
            <4>1. ~slots'[s].occupied
                <5>1. Settled(s)'
                    BY <1>i, PlaceKept DEF PlaceInv
                <5> QED BY <5>1 DEF Settled
            <4>2. /\ ui[w].pc = "creating" /\ slots'[s].win = w
                  /\ retention' /\ ~Handles(w)'
                BY <2>f, <3>6, <4>1
            <4>3. ASSUME NEW t \in Slots \ {s}, slots'[t].win = w,
                         slots'[t].occupied \/ slots'[t].pane = "shown"
                  PROVE  FALSE
                <5>1. CASE /\ slots[t].occupied \/ slots[t].pane = "shown"
                           /\ slots'[t].win = slots[t].win
                    <6>1. slots[t].occupied \/ slots[t].removed
                        BY <1>i, <5>1 DEF PlaceInv, Settled
                    <6> QED BY <3>3, <4>2, <4>3, <5>1, <6>1
                <5>2. CASE Handler(w) /\ Fills(w, t)
                    BY <1>i, <3>6, <4>3, <5>2, FillsOnce
                <5> QED BY <3>4, <4>3, <5>1, <5>2
            <4> QED BY <4>2, <4>3
        <3>7. ~Frees(s)
            BY DEF Frees
        <3>8. CASE \E w \in Windows : Handler(w) /\ Fills(w, s)
            <4>1. PICK w \in Windows : Handler(w) /\ Fills(w, s)
                BY <3>8
            <4> QED BY <3>6, <4>1
        <3> QED BY <1>2, <1>i, <3>5, <3>7, <3>8, PlaceComes
    <2> QED BY <2>1, <2>2, <2>3, <2>4 DEF OnceInv
<1> QED BY <1>1, <1>2

-----------------------------------------------------------------------------
(* Serving.                                                                *)

(* The writes to a slot while requests are served.                         *)
LEMMA SlotServed ==
    ASSUME ProcessTypeOK, PlaceInv, [Next]_vars, ~Attach, Serving, NEW s \in Slots
    PROVE  \/ slots'[s] = slots[s]
           \/ Frees(s)
           \/ slots[s].occupied /\ slots[s].life = "requested" /\ Removes(s)
              /\ worker.pc = "requested"
           \/ \E w \in Windows : Handler(w) /\ (Fills(w, s) \/ Handled(w, s))
           \/ \E w \in Windows : Explorer(w) /\ Closes(w, s)
<1>1. CASE WorkerStep
    <2>1. Worked(s) => /\ slots[s].occupied /\ slots[s].life = "requested"
                       /\ Removes(s) /\ worker.pc = "requested"
        BY DEF Worked, WorkerAt, Serving
    <2> QED BY <1>1, <2>1, SlotByWorker
<1>2. HostStep \/ UNCHANGED vars => slots'[s] = slots[s]
    BY DEF HostStep, HostUpdates, HostRemoves, HostTexts, Asks, HostReleases,
        HostDetaches, HostLoses, vars, registry
<1>3. ASSUME NEW w \in Windows, Handler(w)
      PROVE  \/ slots'[s] = slots[s] \/ Frees(s)
             \/ Fills(w, s) \/ Handled(w, s)
    BY <1>3, SlotByHandler
<1>4. ASSUME NEW w \in Windows, Explorer(w)
      PROVE  slots'[s] = slots[s] \/ Closes(w, s)
    BY <1>4, SlotByExplorer
<1> QED BY <1>1, <1>2, <1>3, <1>4 DEF Next

(* A thread that completes or returns is out of its handler.               *)
LEMMA ReturnsIdle ==
    ASSUME ProcessTypeOK, NEW w \in Windows,
           Returns(w) \/ \E ok \in BOOLEAN : Completes(w, ok)
    PROVE  ui'[w] = Idle /\ ui'[w].pc = "idle" /\ ~Handles(w)'
<1>1. Returns(w)
    BY DEF Completes
<1> QED BY <1>1 DEF ProcessTypeOK, Returns, Idle, Handles, Handling

(* A thread that has a window to publish has just created it.              *)
LEMMA PublishingComes ==
    ASSUME ProcessTypeOK, NEW w \in Windows, Handler(w), ui'[w].pc = "publishing"
    PROVE  Creates(w)
<1>0. ui \in [Windows -> UiRecord]
    BY DEF ProcessTypeOK, UiRecord
<1>m. \A pc \in Handling : \A s : Moves(w, pc, s) => ui'[w].pc = pc
    BY <1>0 DEF Moves
<1>r. ~Returns(w) /\ ~Completes(w, TRUE) /\ ~Completes(w, FALSE)
    <2>1. (Completes(w, TRUE) \/ Completes(w, FALSE)) =>
             \E ok \in BOOLEAN : Completes(w, ok)
        BY Zenon
    <2> QED BY <2>1, ReturnsIdle
<1>1. ~Receives(w)
    BY <1>m, <1>r DEF Receives, Handling
<1>2. ~DecidesRemoval(w) /\ ~DecidesUpdate(w) /\ ~RetireClaims(w)
      /\ ~ReapsForUpdate(w)
    <2>1. \A s : /\ ~Moves(w, "retiring", s) /\ ~Moves(w, "applying", s)
                 /\ ~Moves(w, "creating", s) /\ ~Moves(w, "cleaning", s)
        BY <1>m DEF Handling
    <2> QED BY <1>r, <2>1, Zenon DEF DecidesRemoval, DecidesUpdate, RetireClaims,
            ReapsForUpdate
<1>3. ~RetireCleans(w)
    <2>1. ASSUME RetireCleans(w)
          PROVE  Moves(w, "reaping", 0) \/ \E ok \in BOOLEAN : Completes(w, ok)
        BY <2>1, Zenon DEF RetireCleans
    <2>2. ~\E ok \in BOOLEAN : Completes(w, ok)
        BY ReturnsIdle
    <2>3. ~Moves(w, "reaping", 0)
        BY <1>m DEF Handling
    <2> QED BY <2>1, <2>2, <2>3
<1>4. ~Applies(w) /\ ~RetireTimesOut(w) /\ ~CreatesNothing(w)
      /\ ~CreatesResidue(w) /\ ~Publishes(w) /\ ~PublishFails(w)
      /\ ~HandlerThrows(w)
    BY <1>r, Zenon DEF Applies, RetireTimesOut, CreatesNothing, CreatesResidue,
        Publishes, PublishFails, HandlerThrows
<1> QED BY <1>1, <1>2, <1>3, <1>4 DEF Handler

(* The attach fills one slot, and admits its callbacks if it serves.       *)
LEMMA AttachServes ==
    ASSUME ProcessTypeOK, PipeInv, ControlInv, EndInv, Attach, Serving'
    PROVE  /\ worker'.pc = "connecting" /\ host \in {"attaching", "lost"}
           /\ UNCHANGED <<closed, pending, hostVars>>
           /\ \A w \in Windows : ~Handles(w)'
           /\ \A s \in Slots :
                 \/ slots'[s] = Free
                 \/ /\ slots'[s].occupied /\ slots'[s].admitted
                    /\ slots'[s].life = "active"
<1>1. AttachBegins
    BY DEF Attach, AttachFails, AttachFailsResidue, Goes, Serving, ProcessTypeOK
<1>2. /\ worker.pc = "attaching" /\ worker'.pc = "connecting"
      /\ UNCHANGED <<closed, pending, hostVars>>
      /\ slots = [s \in Slots |-> Free]
      /\ ui' = [ui EXCEPT ![First] = Idle]
    BY <1>1, RuntimeAssumption DEF AttachBegins, AttachDone, EndInv, Goes,
        ProcessTypeOK, explorer, control
<1>3. host \in {"attaching", "lost"}
    BY <1>2 DEF PipeInv
<1>4. ASSUME NEW w \in Windows PROVE ~Handles(w)'
    BY <1>2 DEF ControlInv, Handles, Handling, Idle, ProcessTypeOK
<1>5. ASSUME NEW s \in Slots
      PROVE  \/ slots'[s] = Free
             \/ /\ slots'[s].occupied /\ slots'[s].admitted
                /\ slots'[s].life = "active"
    BY <1>1, <1>2 DEF AttachBegins, Initial, Free
<1> QED BY <1>2, <1>3, <1>4, <1>5

(* Every step keeps callbacks to the windows that nobody removes.          *)
LEMMA AdmittedKept ==
    ASSUME RuntimeInvariant, [Next]_vars
    PROVE  AdmittedLive'
<1>i. /\ ProcessTypeOK /\ PipeInv /\ ControlInv /\ PlaceInv /\ EndInv
      /\ AdmittedLive
    BY DEF RuntimeInvariant, ServedInv
<1>0. ui \in [Windows -> UiRecord] /\ slots \in [Slots -> SlotRecord]
    BY <1>i DEF ProcessTypeOK, UiRecord
<1> SUFFICES ASSUME Serving'
             PROVE  /\ \A s \in Slots : slots'[s].admitted =>
                          slots'[s].occupied /\ slots'[s].life = "active"
                    /\ \A w \in Windows : ui'[w].pc = "publishing" =>
                          ~slots'[ui'[w].slot].admitted
    BY DEF AdmittedLive
<1>1. CASE Attach
    <2>1. ASSUME NEW w \in Windows PROVE ui'[w].pc # "publishing"
        BY <1>1, <1>i, AttachServes DEF Handles, Handling
    <2> QED BY <1>1, <1>i, <2>1, AttachServes DEF Free
<1>2. CASE ~Attach
    <2>s. Serving /\ ~Beyond /\ ~Taken
        BY <1>i, HopelessStays DEF Beyond, Taken, Serving
    <2>a. /\ \A s \in Slots : slots[s].admitted =>
                slots[s].occupied /\ slots[s].life = "active"
          /\ \A w \in Windows : ui[w].pc = "publishing" =>
                ~slots[ui[w].slot].admitted
        BY <1>i, <2>s DEF AdmittedLive
    <2>h. ASSUME NEW w \in Windows, NEW s \in Slots, Handled(w, s)
          PROVE  \/ SameAdmitted(s) /\ ~slots[s].admitted
                 \/ ~slots'[s].admitted
                 \/ SamePlace(s) /\ SameLife(s) /\ SameAdmitted(s)
                    /\ ui[w].pc = "applying"
                 \/ /\ slots'[s].occupied /\ slots'[s].life = "active"
                    /\ ui[w].pc = "publishing" /\ Completes(w, TRUE)
        <3>1. ui[w].pc = "cleaning" => ~slots[s].admitted
            BY <1>i, <2>a, <2>h, <2>s DEF Handled, PlaceInv, Placed, InHand,
                Settled
        <3>2. ui[w].pc = "publishing" =>
                 ~slots[s].admitted /\ slots[s].occupied /\ slots[s].life = "active"
            BY <1>i, <2>a, <2>h, <2>s DEF Handled, PlaceInv, Placed
        <3> QED BY <2>h, <3>1, <3>2 DEF Handled, Removes, SamePlace, SameLife,
                SameAdmitted
    <2>c. ASSUME NEW w \in Windows, NEW s \in Slots, Closes(w, s)
          PROVE  \/ ~slots'[s].admitted
                 \/ SamePlace(s) /\ SameLife(s) /\ SameAdmitted(s)
                 \/ SameAdmitted(s) /\ ~slots[s].admitted
        <3>1. ui[w].pc = "sheltering" /\ s = ui[w].slot => ~slots[s].admitted
            BY <1>i, <2>a, <2>s DEF PlaceInv, Placed, InHand, Settled
        <3> QED BY <2>c, <3>1 DEF Closes
    <2>1. ASSUME NEW s \in Slots, slots'[s].admitted
          PROVE  slots'[s].occupied /\ slots'[s].life = "active"
        <3>1. CASE slots'[s] = slots[s]
            BY <2>1, <2>a, <3>1
        <3>2. ~Frees(s)
            BY <1>i, <2>1, <2>a DEF Frees, SameAdmitted, PlaceInv, Settled
        <3>3. ~(slots[s].life = "requested" /\ Removes(s))
            BY <2>1, <2>a DEF Removes, SameAdmitted
        <3>4. ASSUME NEW w \in Windows
              PROVE  ~Fills(w, s)
            BY <2>1, <2>a DEF Fills, SameAdmitted
        <3>5. ASSUME NEW w \in Windows, Handled(w, s)
              PROVE  slots'[s].occupied /\ slots'[s].life = "active"
            BY <2>1, <2>a, <2>h, <3>5 DEF SamePlace, SameLife, SameAdmitted
        <3>6. ASSUME NEW w \in Windows, Closes(w, s)
              PROVE  slots'[s].occupied /\ slots'[s].life = "active"
            BY <2>1, <2>a, <2>c, <3>6 DEF SamePlace, SameLife, SameAdmitted
        <3> QED BY <1>2, <1>i, <2>s, <3>1, <3>2, <3>3, <3>4, <3>5, <3>6,
                SlotServed
    <2>2. ASSUME NEW w \in Windows, ui'[w].pc = "publishing"
          PROVE  ~slots'[ui'[w].slot].admitted
        <3>1. CASE Handler(w)
            <4>1. Creates(w)
                BY <1>i, <2>2, <3>1, PublishingComes
            <4>2. PICK s \in Slots, r \in SlotRecord :
                      /\ Chosen(s) /\ Moves(w, "publishing", s)
                      /\ slots' = [slots EXCEPT ![s] = r]
                      /\ r.admitted = slots[s].admitted
                BY <1>i, <4>1, CreatesDoes
            <4>3. ui'[w].slot = s /\ slots'[s].admitted = slots[s].admitted
                BY <1>0, <4>2 DEF Moves
            <4>4. ~slots[s].admitted
                BY <2>a, <4>2 DEF Chosen, Vacant
            <4> QED BY <4>3, <4>4
        <3>2. CASE ui'[w] = ui[w] /\ Handles(w) /\ ~Handler(w)
            <4>1. PICK s \in Slots : s = ui[w].slot
                BY <1>i, <2>2, <3>2 DEF PlaceInv, Placed
            <4>2. ~slots[s].admitted
                BY <2>2, <2>a, <3>2, <4>1
            <4>3. CASE slots'[s] = slots[s] \/ Frees(s) \/ Removes(s)
                BY <3>2, <4>1, <4>2, <4>3 DEF Frees, Removes, SameAdmitted
            <4>4. ASSUME NEW v \in Windows, Handler(v)
                  PROVE  ~Fills(v, s) /\ ~Handled(v, s)
                <5>1. Fills(v, s) \/ Handled(v, s) => Handles(v)
                    BY DEF Fills, Handled, Handles, Handling
                <5> QED BY <1>i, <3>2, <4>4, <5>1, OneHandler
            <4>5. ASSUME NEW v \in Windows, Closes(v, s)
                  PROVE  ~slots'[s].admitted
                BY <2>a, <2>c, <4>2, <4>5 DEF SameAdmitted
            <4> QED BY <1>2, <1>i, <2>s, <3>2, <4>1, <4>3, <4>4, <4>5, SlotServed
        <3> QED BY <1>i, <2>2, <3>1, <3>2, HandlesComes DEF Handles, Handling
    <2> QED BY <2>1, <2>2
<1> QED BY <1>1, <1>2

(* A thread that moves has a handler, or closes its window.                *)
LEMMA ThreadMoves ==
    ASSUME ProcessTypeOK, [Next]_vars, ~Attach, NEW v \in Windows
    PROVE  ui'[v] = ui[v] \/ Handler(v) \/ Explorer(v)
<1>0. ui \in [Windows -> UiRecord]
    BY DEF ProcessTypeOK, UiRecord
<1>1. ASSUME NEW w \in Windows, w # v, Explorer(w)
      PROVE  ui'[v] = ui[v]
    <2>1. \/ UNCHANGED ui \/ ui' = [ui EXCEPT ![w] = Idle]
          \/ \E s : Moves(w, "sheltering", s)
        BY <1>1 DEF Explorer, DestroyClaims, DestroyShelters, DestroyUnseen,
            ThreadEnds, WindowOpens
    <2> QED BY <1>0, <1>1, <2>1 DEF Moves
<1>2. ASSUME NEW w \in Windows, w # v, Handler(w)
      PROVE  ui'[v] = ui[v]
    <2>1. \/ \E pc \in Handling : \E s : Moves(w, pc, s)
          \/ Returns(w)
        <3>1. (\E ok \in BOOLEAN : Completes(w, ok)) => Returns(w)
            BY DEF Completes
        <3>2. Receives(w) => Moves(w, "deciding", 0) \/ Returns(w)
            BY DEF Receives
        <3> QED BY <1>2, <3>1, <3>2, HandlerDoes DEF Handling
    <2> QED BY <1>0, <1>2, <2>1 DEF Moves, Returns
<1>3. HostStep \/ WorkerStep \/ UNCHANGED vars => UNCHANGED ui
    BY DEF HostStep, HostUpdates, HostRemoves, HostTexts, Asks, HostReleases,
        HostDetaches, HostLoses, vars, WorkerStep, Dispatch, Connects, Reads,
        ReadsText, ShowReturns, ReadsDetach, ReadFails, RemovesRequested, RequestedDone,
        ReapsBeforeDispatch, Checks, Sends, Returned, SendTimesOut, Ending,
        RemoveAllClaims, RemoveAllCleans, RemoveAllDone, Drains, Reports,
        Finalizes
<1> QED BY <1>1, <1>2, <1>3 DEF Next

(* A thread that leaves the slot it has claimed has settled it.            *)
LEMMA ClaimEnds ==
    ASSUME ProcessTypeOK, PlaceInv, NEW v \in Windows, Handler(v) \/ Explorer(v),
           ui[v].pc \in {"cleaning", "publishing", "sheltering"},
           slots'[ui[v].slot].occupied
    PROVE  \/ slots'[ui[v].slot].admitted \/ retention'
           \/ slots'[ui[v].slot].life = "requested"
<1>1. PICK s : s = ui[v].slot
    OBVIOUS
<1>0. s \in Slots /\ slots \in [Slots -> SlotRecord] /\ slots[s] \in SlotRecord
    BY <1>1 DEF ProcessTypeOK, PlaceInv, Placed
<1>2. ASSUME NEW ok \in BOOLEAN, slots' = [slots EXCEPT ![s] = Cleaned(s, ok)]
      PROVE  FALSE
    BY <1>0, <1>1, <1>2, CleanedIs
<1>3. CASE Handler(v)
    <2>1. CASE RetireCleans(v)
        <3>1. PICK ok \in BOOLEAN : slots' = [slots EXCEPT ![s] = Cleaned(s, ok)]
            BY <1>1, <2>1, Zenon DEF RetireCleans
        <3> QED BY <1>2, <3>1
    <2>2. CASE PublishFails(v)
        <3>1. PICK ok \in BOOLEAN : slots' = [slots EXCEPT ![s] = Cleaned(s, ok)]
            BY <1>1, <2>2, Zenon DEF PublishFails
        <3> QED BY <1>2, <3>1
    <2>3. CASE RetireTimesOut(v) \/ HandlerThrows(v)
        <3>1. retention' = TRUE
            BY <2>3, Zenon DEF RetireTimesOut, HandlerThrows
        <3> QED BY <3>1
    <2>4. CASE Publishes(v)
        <3>1. slots' = [slots EXCEPT ![s].admitted = TRUE]
            BY <1>1, <2>4 DEF Publishes
        <3>2. slots'[s].admitted
            BY <1>0, <3>1, Zenon DEF SlotRecord
        <3> QED BY <1>1, <3>2
    <2> QED BY <1>3, <2>1, <2>2, <2>3, <2>4 DEF Handler, Receives,
            DecidesRemoval, DecidesUpdate, Applies, RetireClaims,
            ReapsForUpdate, Creates, CreatesNothing, CreatesResidue, At
<1>4. CASE Explorer(v)
    <2>1. DestroyShelters(v)
        BY <1>4 DEF Explorer, DestroyClaims, DestroyUnseen, ThreadEnds,
            WindowOpens, At
    <2>2. PICK ok \in BOOLEAN :
              /\ slots' = [slots EXCEPT
                     ![s].life = IF ok THEN "requested" ELSE "failed",
                     ![s].pane = CASE @ # "shown" -> @
                                   [] ok -> "sheltered"
                                   [] OTHER -> "lost"]
              /\ retention' = (retention \/ ~ok)
        BY <1>1, <2>1 DEF DestroyShelters
    <2>3. ~ok => retention'
        BY <2>2, Zenon
    <2>4. ok => slots'[s].life = "requested"
        BY <1>0, <2>2 DEF SlotRecord
    <2> QED BY <1>1, <2>3, <2>4
<1> QED BY <1>3, <1>4

(* Every step leaves a window without callbacks its reason.                *)
LEMMA AccountedKept ==
    ASSUME RuntimeInvariant, [Next]_vars
    PROVE  Accounted'
<1>i. /\ ProcessTypeOK /\ PipeInv /\ ControlInv /\ PlaceInv /\ EndInv
      /\ AdmittedLive /\ Accounted
    BY DEF RuntimeInvariant, ServedInv
<1>0. ui \in [Windows -> UiRecord]
    BY <1>i DEF ProcessTypeOK, UiRecord
<1> SUFFICES ASSUME Serving', NEW s \in Slots, slots'[s].occupied
             PROVE  \/ slots'[s].admitted \/ retention' \/ Claimed(s)'
                    \/ slots'[s].life = "requested"
    BY DEF Accounted, Occupied
<1>1. CASE Attach
    BY <1>1, <1>i, AttachServes DEF Free
<1>2. CASE ~Attach
    <2>s. Serving
        BY <1>i, HopelessStays
    <2>r. retention => retention'
        BY <1>i, RetentionStays
    <2>o. slots[s].occupied => \/ slots[s].admitted \/ retention \/ Claimed(s)
                               \/ slots[s].life = "requested"
        BY <1>i, <2>s DEF Accounted, Occupied
    <2>1. CASE slots'[s] = slots[s] /\ Claimed(s)
        <3>1. PICK v \in Windows : v = slots[s].win
            BY <2>1 DEF Claimed
        <3>2. ui[v].slot = s /\ ui[v].pc \in {"cleaning", "publishing", "sheltering"}
            BY <2>1, <3>1 DEF Claimed
        <3>3. CASE ui'[v] = ui[v]
            BY <2>1, <3>1, <3>3 DEF Claimed
        <3>4. CASE Handler(v) \/ Explorer(v)
            BY <1>i, <3>2, <3>4, ClaimEnds
        <3> QED BY <1>2, <1>i, <3>3, <3>4, ThreadMoves
    <2>2. CASE slots'[s] = slots[s] /\ ~Claimed(s)
        BY <2>2, <2>o, <2>r
    <2>3. ~Frees(s) /\ ~Removes(s)
        BY DEF Frees, Removes
    <2>4. ASSUME NEW w \in Windows, Fills(w, s)
          PROVE  Claimed(s)'
        <3>1. slots'[s].win = w /\ slots'[s].life = "active"
              /\ Moves(w, "publishing", s)
            BY <2>4 DEF Fills
        <3>2. ui'[w].pc = "publishing" /\ ui'[w].slot = s
            BY <1>0, <3>1 DEF Moves
        <3> QED BY <3>1, <3>2 DEF Claimed
    <2>5. ASSUME NEW w \in Windows, Handled(w, s)
          PROVE  \/ slots'[s].admitted \/ retention' \/ Claimed(s)'
                 \/ slots'[s].life = "requested"
        <3>1. CASE ui[w].pc = "applying" /\ SameLife(s) /\ SameAdmitted(s)
                   /\ SamePlace(s)
            <4>1. ~Claimed(s)
                BY <2>5, <3>1 DEF Handled, Claimed
            <4> QED BY <2>o, <2>r, <3>1, <4>1 DEF SameLife, SameAdmitted, SamePlace
        <3>2. CASE /\ slots'[s].life = "cleaning" /\ Moves(w, "cleaning", s)
            <4>1. ui'[w].pc = "cleaning" /\ ui'[w].slot = s
                BY <1>0, <3>2 DEF Moves
            <4> QED BY <2>5, <3>2, <4>1 DEF Handled, Claimed
        <3>3. CASE /\ ui[w].pc = "retiring" /\ slots[s].life # "active"
                   /\ SamePlace(s) /\ SameLife(s)
            <4>1. ~Claimed(s) /\ ~slots[s].admitted
                BY <1>i, <2>5, <2>s, <3>3 DEF Handled, Claimed, AdmittedLive
            <4> QED BY <2>o, <2>r, <3>3, <4>1 DEF SamePlace, SameLife
        <3>4. CASE retention' \/ slots'[s].admitted
            BY <3>4
        <3> QED BY <2>3, <2>5, <3>1, <3>2, <3>3, <3>4 DEF Handled
    <2>6. ASSUME NEW w \in Windows, Closes(w, s)
          PROVE  \/ slots'[s].admitted \/ retention' \/ Claimed(s)'
                 \/ slots'[s].life = "requested"
        <3>1. CASE /\ slots'[s].life = "cleaning" /\ Moves(w, "sheltering", s)
            <4>1. ui'[w].pc = "sheltering" /\ ui'[w].slot = s
                BY <1>0, <3>1 DEF Moves
            <4> QED BY <2>6, <3>1, <4>1 DEF Closes, SameTenant, Claimed
        <3>2. CASE SameLife(s) /\ SameAdmitted(s) /\ ui[w].pc = "idle"
            <4>1. ~Claimed(s)
                BY <2>6, <3>2 DEF Closes, Claimed
            <4> QED BY <2>6, <2>o, <2>r, <3>2, <4>1
                    DEF Closes, SamePlace, SameLife, SameAdmitted
        <3> QED BY <2>6, <3>1, <3>2 DEF Closes
    <2> QED BY <1>2, <1>i, <2>s, <2>1, <2>2, <2>3, <2>4, <2>5, <2>6, SlotServed
<1> QED BY <1>1, <1>2

(* A closed window is forgotten only when the Host names it again.         *)
LEMMA ClosedStays ==
    ASSUME ProcessTypeOK, PipeInv, [Next]_vars,
           worker.pc # "reading" \/ ~HostStep
    PROVE  closed \subseteq closed'
<1>1. CASE HostStep
    BY <1>1 DEF HostStep, HostUpdates, HostRemoves, HostTexts, HostReleases,
        HostDetaches, HostLoses, explorer, PipeInv
<1>2. CASE UNCHANGED vars
    BY <1>2 DEF vars
<1>3. CASE Attach \/ WorkerStep
    BY <1>3 DEF Attach, AttachBegins, AttachFails, AttachFailsResidue,
        AttachDone, WorkerStep, Dispatch, Connects, Reads, ReadsText, ShowReturns,
        ReadsDetach, ReadFails, RemovesRequested, RequestedDone,
        ReapsBeforeDispatch, Checks, Sends, Returned, SendTimesOut, Ending,
        RemoveAllClaims, RemoveAllCleans, RemoveAllDone, Drains, Reports,
        Finalizes, explorer
<1>4. ASSUME NEW w \in Windows, Handler(w)
      PROVE  closed \subseteq closed'
    BY <1>4 DEF Handler, Receives, DecidesRemoval, DecidesUpdate, Applies,
        RetireClaims, RetireCleans, RetireTimesOut, ReapsForUpdate, Creates,
        CreatesNothing, CreatesResidue, Publishes, PublishFails, HandlerThrows,
        worldVars, explorer
<1>5. ASSUME NEW w \in Windows, Explorer(w)
      PROVE  closed \subseteq closed'
    BY <1>5 DEF Explorer, DestroyClaims, DestroyShelters, DestroyUnseen,
        ThreadEnds, WindowOpens, Gone, explorer
<1> QED BY <1>1, <1>2, <1>3, <1>4, <1>5 DEF Next

Past == {"reaping", "checking", "sending", "waiting"}

(* The worker comes to the dispatch when no window is to be removed first. *)
LEMMA PastComes ==
    ASSUME ProcessTypeOK, [Next]_vars, worker'.pc \in Past
    PROVE  \/ worker.pc \in Past
           \/ UNCHANGED slots /\ \A s \in Occupied : slots[s].life # "requested"
<1>0. worker \in WorkerRecord
    BY DEF ProcessTypeOK, WorkerRecord
<1>1. CASE UNCHANGED worker
    BY <1>1
<1>2. CASE Attach
    BY <1>0, <1>2 DEF Attach, AttachBegins, AttachFails, AttachFailsResidue, Goes,
        Past, WorkerRecord
<1>3. CASE WorkerStep /\ worker.pc \notin Past /\ ~RequestedDone
    <2>1. CASE Dispatch
        <3>1. ASSUME DispatchFails \/ \E ok \in BOOLEAN : Answers(ok)
              PROVE  worker'.pc \in {"reading", "removing"}
            BY <1>0, <3>1 DEF DispatchFails, Answers, WorkerRecord
        <3>2. CASE Connects \/ Reads \/ ReadsText \/ ShowReturns \/ ReadsDetach \/ ReadFails
                   \/ RemovesRequested
            BY <1>0, <3>1, <3>2 DEF Connects, Reads, ReadsText, ShowReturns, ReadsDetach,
                ReadFails, RemovesRequested, Goes, Past, WorkerRecord
        <3>3. ~ReapsBeforeDispatch /\ ~Checks /\ ~Sends /\ ~Returned /\ ~SendTimesOut
            BY <1>3 DEF ReapsBeforeDispatch, Checks, Sends, Returned,
                SendTimesOut, Past
        <3> QED BY <1>3, <2>1, <3>2, <3>3 DEF Dispatch
    <2>2. CASE Ending
        BY <1>0, <2>2 DEF Ending, RemoveAllClaims, RemoveAllCleans,
            RemoveAllDone, Drains, Reports, Finalizes, Goes, Past, WorkerRecord
    <2> QED BY <1>3, <2>1, <2>2 DEF WorkerStep
<1>4. CASE RequestedDone
    <2>1. worker.pc = "requested" /\ Requested = {} /\ UNCHANGED slots
        BY <1>4 DEF RequestedDone, registry
    <2> QED BY <2>1 DEF Requested
<1>5. HostStep \/ UNCHANGED vars => UNCHANGED worker
    BY DEF HostStep, HostUpdates, HostRemoves, HostTexts, Asks, HostReleases,
        HostDetaches, HostLoses, vars
<1>6. ASSUME NEW w \in Windows, Handler(w) \/ Explorer(w)
      PROVE  UNCHANGED worker
    BY <1>6, WindowsLeavePipe
<1> QED BY <1>1, <1>2, <1>3, <1>4, <1>5, <1>6 DEF Next

(* Every step keeps the closed windows out of a dispatch.                  *)
LEMMA RequestedKept ==
    ASSUME RuntimeInvariant, [Next]_vars
    PROVE  RequestedClosed'
<1>i. /\ ProcessTypeOK /\ PipeInv /\ ControlInv /\ PlaceInv /\ EndInv
      /\ RequestedClosed
    BY DEF RuntimeInvariant, ServedInv
<1> SUFFICES ASSUME worker'.pc \in Past, NEW s \in Slots, slots'[s].occupied,
                    slots'[s].life = "requested"
             PROVE  slots'[s].win \in closed'
    BY DEF RequestedClosed, Occupied, Past, Dispatching
<1>1. CASE worker.pc \notin Past
    BY <1>1, <1>i, PastComes DEF Occupied
<1>2. CASE worker.pc \in Past
    <2>s. Serving /\ ~Attach /\ worker.pc # "requested"
        <3>1. Attach => worker.pc = "attaching"
            BY <1>i, RuntimeAssumption DEF Attach, AttachBegins, AttachFails,
                AttachFailsResidue, AttachDone, EndInv
        <3> QED BY <1>2, <3>1 DEF Past, Serving
    <2>c. closed \subseteq closed'
        BY <1>2, <1>i, ClosedStays DEF Past
    <2>o. slots[s].occupied /\ slots[s].life = "requested" => slots[s].win \in closed
        BY <1>2, <1>i DEF RequestedClosed, Occupied, Past, Dispatching
    <2>1. ~Frees(s) /\ ~Removes(s)
        BY DEF Frees, Removes
    <2>2. ASSUME NEW w \in Windows PROVE ~Fills(w, s)
        BY DEF Fills
    <2>3. ASSUME NEW w \in Windows, Handled(w, s)
          PROVE  slots[s].occupied /\ slots[s].life = "requested"
                 /\ slots'[s].win = slots[s].win
        BY <2>1, <2>3 DEF Handled, SamePlace, SameLife
    <2>4. ASSUME NEW w \in Windows, Closes(w, s)
          PROVE  slots'[s].win \in closed'
        <3>1. CASE closed' = closed \cup {w}
            BY <2>4, <3>1 DEF Closes, SameTenant
        <3>2. CASE closed' # closed \cup {w}
            BY <2>4, <2>c, <2>o, <3>2 DEF Closes, SameTenant, SamePlace, SameLife
        <3> QED BY <3>1, <3>2
    <2> QED BY <1>i, <2>s, <2>c, <2>o, <2>1, <2>2, <2>3, <2>4, SlotServed
<1> QED BY <1>1, <1>2

(* A served window stays so, unless it is closed or in its handler's hands.*)
LEMMA ServedStays ==
    ASSUME ProcessTypeOK, PlaceInv, AdmittedLive, [Next]_vars, ~Attach, Serving,
           NEW w \in Windows, NEW g, Served(w, g)
    PROVE  Served(w, g)' \/ w \in closed' \/ Handles(w)
<1>1. PICK s \in Slots : /\ slots[s].occupied /\ slots[s].win = w
                         /\ slots[s].gen = g /\ slots[s].admitted
    BY DEF Served, Occupied
<1>2. ~slots[s].removed /\ slots[s].life = "active"
    BY <1>1 DEF PlaceInv, Settled, AdmittedLive
<1>3. CASE /\ slots'[s].occupied /\ slots'[s].win = w
           /\ slots'[s].gen = g /\ slots'[s].admitted
    BY <1>3 DEF Served, Occupied
<1>4. CASE slots'[s] = slots[s]
    BY <1>1, <1>3, <1>4
<1>5. ~Frees(s) /\ slots[s].life # "requested"
    BY <1>2 DEF Frees
<1>6. ASSUME NEW v \in Windows, Fills(v, s) \/ Handled(v, s)
      PROVE  Handles(w)
    BY <1>1, <1>6 DEF Fills, Handled, Handles, Handling
<1>7. ASSUME NEW v \in Windows, Closes(v, s)
      PROVE  Served(w, g)' \/ w \in closed' \/ Handles(w)
    <2>1. CASE SameAdmitted(s)
        BY <1>1, <1>3, <1>7, <2>1 DEF Closes, SameTenant, SamePlace, SameAdmitted
    <2>2. CASE ~SameAdmitted(s)
        BY <1>1, <1>7, <2>2 DEF Closes
    <2> QED BY <2>1, <2>2
<1> QED BY <1>4, <1>5, <1>6, <1>7, SlotServed

(* How the worker comes to change what the session believes.               *)
LEMMA WorkerAnswers ==
    ASSUME ProcessTypeOK, PipeInv, WorkerStep, host' \in {"serving", "awaiting"}
    PROVE  \/ UNCHANGED <<host, mirror, request>>
           \/ host = "attaching" /\ UNCHANGED mirror /\ host' = "serving"
           \/ /\ host = "awaiting" /\ host' = "serving"
              /\ UNCHANGED <<slots, closed>>
              /\ mirror' = [mirror EXCEPT ![request.win] =
                              IF request.kind = "remove" THEN 0 ELSE request.gen]
              /\ \/ request.kind = "text"
                 \/ /\ worker.pc = "waiting" /\ pending.completed /\ pending.ok
<1>a. ASSUME Answers(FALSE), request.kind \in {"update", "remove", "text"}
      PROVE  FALSE
    BY <1>a DEF Answers, PipeInv
<1>f. ASSUME DispatchFails, request.kind \in {"update", "remove", "text"}
      PROVE  UNCHANGED <<host, mirror, request>>
    BY <1>a, <1>f DEF DispatchFails, hostVars
<1>t. ASSUME Answers(TRUE), request.kind \in {"update", "remove", "text"}
      PROVE  /\ host = "awaiting" /\ host' = "serving"
             /\ mirror' = [mirror EXCEPT ![request.win] =
                             IF request.kind = "remove" THEN 0 ELSE request.gen]
    BY <1>t DEF Answers, PipeInv
<1>1. CASE Connects
    BY <1>1 DEF Connects
<1>2. CASE Reads
    BY <1>2, <1>f DEF Reads, hostVars
<1>3. CASE ReadsText \/ ShowReturns
    <2>1. UNCHANGED <<slots, closed>> /\ request.kind = "text"
        BY <1>3 DEF ReadsText, ShowReturns, registry, explorer, PipeInv
    <2>2. Answers(TRUE) \/ UNCHANGED <<host, mirror, request>>
        BY <1>3, <1>a, Zenon DEF ReadsText, ShowReturns, hostVars, PipeInv
    <2> QED BY <1>t, <2>1, <2>2
<1>4. CASE RequestedDone \/ Checks \/ Sends \/ SendTimesOut
    BY <1>4, <1>f DEF RequestedDone, Checks, Sends, SendTimesOut, hostVars,
        PipeInv, Dispatching
<1>5. CASE Returned
    <2>1. UNCHANGED <<slots, closed>> /\ worker.pc = "waiting"
          /\ request.kind \in {"update", "remove"}
        BY <1>5 DEF Returned, explorer, PipeInv, Dispatching
    <2>2. DispatchFails \/ (pending.completed /\ Answers(pending.ok))
        BY <1>5, Zenon DEF Returned
    <2>3. CASE pending.ok = TRUE /\ pending.completed /\ Answers(TRUE)
        BY <1>t, <2>1, <2>3
    <2>4. CASE pending.ok = FALSE /\ Answers(FALSE)
        BY <1>a, <2>1, <2>4
    <2>5. pending.ok = TRUE \/ pending.ok = FALSE
        BY DEF ProcessTypeOK
    <2>6. \/ DispatchFails
          \/ pending.ok = TRUE /\ pending.completed /\ Answers(TRUE)
          \/ pending.ok = FALSE /\ Answers(FALSE)
        BY <2>2, <2>5, Zenon
    <2> QED BY <1>f, <2>1, <2>3, <2>4, <2>6
<1>6. CASE ReadsDetach \/ ReadFails \/ RemovesRequested \/ ReapsBeforeDispatch
    BY <1>6 DEF ReadsDetach, ReadFails, RemovesRequested, ReapsBeforeDispatch,
        hostVars
<1>7. CASE Ending
    <2>1. Reports => UNCHANGED <<mirror, request>> /\ (UNCHANGED host \/ host' = "detached")
        BY Zenon DEF Reports
    <2> QED BY <1>7, <2>1 DEF Ending, RemoveAllClaims, RemoveAllCleans,
            RemoveAllDone, Drains, Finalizes, hostVars
<1> QED BY <1>1, <1>2, <1>3, <1>4, <1>5, <1>6, <1>7 DEF WorkerStep, Dispatch

(* Every step keeps what the session asks in line with what it believes.   *)
LEMMA AskedKept ==
    ASSUME RuntimeInvariant, [Next]_vars
    PROVE  MirrorAsked'
<1>i. ProcessTypeOK /\ PipeInv /\ MirrorAsked
    BY DEF RuntimeInvariant, ServedInv
<1>1. CASE UNCHANGED <<host, mirror, request>>
    BY <1>1, <1>i DEF MirrorAsked
<1>2. CASE HostStep
    <2>1. UNCHANGED mirror /\ host' # "attaching"
        BY <1>2 DEF HostStep, HostUpdates, HostRemoves, HostTexts, Asks,
            HostReleases, HostDetaches, HostLoses
    <2>2. ASSUME host' = "awaiting", request'.kind = "text"
          PROVE  request'.gen = mirror[request'.win]
        <3>1. \E w \in Windows : HostUpdates(w) \/ HostRemoves(w) \/ HostTexts(w)
            BY <1>2, <2>2 DEF HostStep, HostReleases, HostDetaches, HostLoses
        <3> QED BY <2>2, <3>1 DEF HostUpdates, HostRemoves, HostTexts, Asks
    <2> QED BY <2>1, <2>2 DEF MirrorAsked
<1>3. CASE WorkerStep
    <2>1. CASE host' = "awaiting"
        BY <1>1, <1>3, <1>i, <2>1, WorkerAnswers
    <2>2. CASE host' = "attaching"
        <3>1. \A ok \in BOOLEAN : Answers(ok) => UNCHANGED <<host, mirror>>
            BY <2>2 DEF Answers
        <3>2. pending.ok \in BOOLEAN
            BY <1>i DEF ProcessTypeOK
        <3>3. DispatchFails => UNCHANGED <<host, mirror>>
            BY <3>1 DEF DispatchFails, hostVars
        <3>4. CASE Dispatch
            BY <1>i, <2>2, <3>1, <3>2, <3>3, <3>4 DEF Dispatch, Connects, Reads,
                ReadsText, ShowReturns, ReadsDetach, ReadFails, RemovesRequested,
                RequestedDone, ReapsBeforeDispatch, Checks, Sends, Returned,
                SendTimesOut, hostVars, MirrorAsked
        <3>5. CASE Ending
            <4>1. Reports => UNCHANGED mirror /\ (UNCHANGED host \/ host' = "detached")
                BY Zenon DEF Reports
            <4>2. UNCHANGED <<host, mirror>>
                BY <2>2, <3>5, <4>1 DEF Ending, RemoveAllClaims, RemoveAllCleans,
                    RemoveAllDone, Drains, Finalizes, hostVars
            <4> QED BY <1>i, <2>2, <4>2 DEF MirrorAsked
        <3> QED BY <1>3, <3>4, <3>5 DEF WorkerStep
    <2>3. CASE host' \notin {"awaiting", "attaching"}
        BY <2>3 DEF MirrorAsked
    <2> QED BY <2>1, <2>2, <2>3
<1>4. Attach => UNCHANGED <<host, mirror, request>>
    BY DEF Attach, AttachBegins, AttachFails, AttachFailsResidue, AttachDone,
        hostVars
<1>5. ASSUME NEW w \in Windows, Handler(w) \/ Explorer(w)
      PROVE  UNCHANGED <<host, mirror, request>>
    BY <1>5, WindowsLeavePipe DEF hostVars
<1>6. UNCHANGED vars => UNCHANGED <<host, mirror, request>>
    BY DEF vars
<1> QED BY <1>1, <1>2, <1>3, <1>4, <1>5, <1>6 DEF Next

(* Every step keeps the session's windows served.                          *)
LEMMA MirrorKept ==
    ASSUME RuntimeInvariant, [Next]_vars
    PROVE  MirrorHeld'
<1>i. /\ ProcessTypeOK /\ PipeInv /\ ControlInv /\ PlaceInv /\ EndInv
      /\ AdmittedLive /\ MirrorHeld /\ MirrorAsked /\ UpdateServes
    BY DEF RuntimeInvariant, ServedInv
<1>0. mirror \in [Windows -> 0..MaxGen]
    BY <1>i DEF ProcessTypeOK
<1> DEFINE Holds(w) ==
        \/ mirror[w] = 0 \/ w \in closed \/ Served(w, mirror[w])
        \/ /\ host = "awaiting" /\ request.win = w
           /\ request.kind \in {"update", "remove"}
<1> SUFFICES ASSUME Serving', host' \in {"serving", "awaiting"}, NEW w \in Windows
             PROVE  Holds(w)'
    BY DEF MirrorHeld
<1>1. ~Attach /\ Serving
    BY <1>i, AttachServes, HopelessStays DEF hostVars
<1>o. host \in {"serving", "awaiting"} => Holds(w)
    BY <1>1, <1>i DEF MirrorHeld
<1>2. CASE UNCHANGED <<host, mirror, request>>
    <2>1. closed \subseteq closed'
        <3>1. HostStep => host' # host
            BY DEF HostStep, HostUpdates, HostRemoves, HostTexts, HostReleases,
                HostDetaches, HostLoses
        <3> QED BY <1>2, <1>i, <3>1, ClosedStays
    <2>2. CASE ~Served(w, mirror[w])
        BY <1>2, <1>o, <2>1, <2>2
    <2>3. CASE Served(w, mirror[w])
        <3>1. Served(w, mirror[w])' \/ w \in closed' \/ Handles(w)
            <4>1. PICK g : g = mirror[w]
                OBVIOUS
            <4>2. Served(w, g)' \/ w \in closed' \/ Handles(w)
                BY <1>1, <1>i, <2>3, <4>1, ServedStays
            <4> QED BY <1>2, <4>1, <4>2
        <3>2. Handles(w) => /\ host = "awaiting" /\ request.win = w
                            /\ request.kind \in {"update", "remove"}
            BY <1>1, <1>2, <1>i DEF ControlInv, PipeInv, Hopeless, Dispatching
        <3> QED BY <1>2, <3>1, <3>2
    <2> QED BY <2>2, <2>3
<1>3. CASE HostStep
    <2>1. UNCHANGED <<slots, mirror>>
        BY <1>3 DEF HostStep, HostUpdates, HostRemoves, HostTexts, Asks,
            HostReleases, HostDetaches, HostLoses, registry
    <2>2. \/ \E v \in Windows : /\ host' = "awaiting" /\ closed' = closed \ {v}
                                /\ request'.win = v /\ request'.kind = "update"
          \/ UNCHANGED closed
        <3>1. ASSUME NEW v \in Windows, HostUpdates(v)
              PROVE  /\ host' = "awaiting" /\ closed' = closed \ {v}
                     /\ request'.win = v /\ request'.kind = "update"
            BY <3>1 DEF HostUpdates, Asks
        <3>2. ASSUME NEW v \in Windows, HostRemoves(v) \/ HostTexts(v)
              PROVE  UNCHANGED closed
            BY <3>2 DEF HostRemoves, HostTexts
        <3>3. HostReleases \/ HostDetaches \/ HostLoses => UNCHANGED closed
            BY DEF HostReleases, HostDetaches, HostLoses, explorer
        <3> QED BY <1>3, <3>1, <3>2, <3>3 DEF HostStep
    <2>3. host = "serving"
        BY <1>3 DEF HostStep, HostUpdates, HostRemoves, HostTexts, HostReleases,
            HostDetaches, HostLoses
    <2>4. mirror[w] = 0 \/ w \in closed \/ Served(w, mirror[w])
        BY <1>o, <2>3
    <2>5. Served(w, mirror[w]) => Served(w, mirror[w])'
        BY <2>1 DEF Served, Occupied
    <2> QED BY <2>1, <2>2, <2>4, <2>5
<1>4. CASE WorkerStep /\ ~UNCHANGED <<host, mirror, request>>
    <2>1. CASE host = "attaching" /\ UNCHANGED mirror
        BY <1>i, <2>1 DEF MirrorAsked
    <2>2. CASE /\ host = "awaiting" /\ host' = "serving"
               /\ UNCHANGED <<slots, closed>>
               /\ mirror' = [mirror EXCEPT ![request.win] =
                               IF request.kind = "remove" THEN 0 ELSE request.gen]
               /\ \/ request.kind = "text"
                  \/ /\ worker.pc = "waiting" /\ pending.completed /\ pending.ok
        <3>1. CASE w # request.win \/ request.kind = "text"
            <4>1. mirror'[w] = mirror[w]
                BY <1>0, <1>i, <2>2, <3>1 DEF MirrorAsked, PipeInv
            <4>2. mirror[w] = 0 \/ w \in closed \/ Served(w, mirror[w])
                BY <1>o, <2>2, <3>1
            <4>3. Served(w, mirror[w]) => Served(w, mirror[w])'
                BY <2>2, <4>1 DEF Served, Occupied
            <4> QED BY <2>2, <4>1, <4>2, <4>3
        <3>2. CASE w = request.win /\ request.kind = "remove"
            BY <1>0, <2>2, <3>2
        <3>3. CASE w = request.win /\ request.kind \notin {"text", "remove"}
            <4>1. /\ request.kind = "update" /\ worker.pc = "waiting"
                  /\ pending.kind = "update" /\ pending.win = w
                  /\ pending.gen = request.gen
                BY <1>i, <2>2, <3>3 DEF PipeInv, ControlInv, Dispatching
            <4>2. w \in closed \/ Served(w, pending.gen)
                BY <1>i, <2>2, <4>1 DEF UpdateServes
            <4>3. mirror'[w] = pending.gen
                BY <1>0, <2>2, <3>3, <4>1
            <4>4. Served(w, pending.gen) => Served(w, mirror[w])'
                BY <2>2, <4>3 DEF Served, Occupied
            <4> QED BY <2>2, <4>2, <4>4
        <3> QED BY <3>1, <3>2, <3>3
    <2> QED BY <1>4, <1>i, <2>1, <2>2, WorkerAnswers
<1>5. ASSUME NEW v \in Windows, Handler(v) \/ Explorer(v)
      PROVE  UNCHANGED <<host, mirror, request>>
    BY <1>5, WindowsLeavePipe DEF hostVars
<1>6. UNCHANGED vars => UNCHANGED <<host, mirror, request>>
    BY DEF vars
<1> QED BY <1>1, <1>2, <1>3, <1>4, <1>5, <1>6 DEF Next

(* A handler comes to decide, and to apply, in one way each.               *)
LEMMA ApplyingComes ==
    ASSUME ProcessTypeOK, NEW w \in Windows, Handler(w),
           ui'[w].pc \in {"deciding", "applying"}
    PROVE  /\ ui'[w].pc = "deciding" =>
                 /\ Receives(w) /\ ui[w].pc = "idle" /\ ~retention
                 /\ pending' = [pending EXCEPT !.token = 0]
                 /\ pending.token # 0
           /\ ui'[w].pc = "applying" =>
                 /\ ui[w].pc = "deciding" /\ UNCHANGED <<slots, control>>
                 /\ ui'[w].slot \in Slots /\ Existing(w, ui'[w].slot)
<1>0. ui \in [Windows -> UiRecord]
    BY DEF ProcessTypeOK, UiRecord
<1>m. \A pc \in Handling : \A s : Moves(w, pc, s) =>
         ui'[w].pc = pc /\ ui'[w].slot = s
    BY <1>0 DEF Moves
<1>r. ~Returns(w) /\ ~Completes(w, TRUE) /\ ~Completes(w, FALSE)
    <2>1. (Completes(w, TRUE) \/ Completes(w, FALSE)) =>
             \E ok \in BOOLEAN : Completes(w, ok)
        BY Zenon
    <2> QED BY <2>1, ReturnsIdle
<1>1. CASE Receives(w)
    <2>1. /\ Moves(w, "deciding", 0) /\ ui[w].pc = "idle" /\ ~retention
          /\ pending' = [pending EXCEPT !.token = 0] /\ pending.token # 0
        BY <1>1, <1>r DEF Receives, At, ProcessTypeOK, Message
    <2> QED BY <1>1, <1>m, <2>1 DEF Handling
<1>2. \A s : /\ ~Moves(w, "retiring", s) /\ ~Moves(w, "creating", s)
             /\ ~Moves(w, "cleaning", s) /\ ~Moves(w, "publishing", s)
             /\ ~Moves(w, "reaping", s)
    BY <1>m DEF Handling
<1>3. CASE DecidesUpdate(w)
    <2>1. PICK s \in Slots : /\ Existing(w, s) /\ Moves(w, "applying", s)
                             /\ UNCHANGED control
        BY <1>2, <1>3, <1>r, Zenon DEF DecidesUpdate
    <2>2. ui[w].pc = "deciding" /\ UNCHANGED slots
        BY <1>3 DEF DecidesUpdate, At, registry
    <2> QED BY <1>m, <2>1, <2>2 DEF Handling
<1>4. ~DecidesRemoval(w) /\ ~RetireClaims(w) /\ ~ReapsForUpdate(w) /\ ~Creates(w)
    BY <1>2, <1>r, Zenon DEF DecidesRemoval, RetireClaims, ReapsForUpdate, Creates
<1>5. ~RetireCleans(w)
    <2>1. ASSUME RetireCleans(w)
          PROVE  Moves(w, "reaping", 0) \/ \E ok \in BOOLEAN : Completes(w, ok)
        BY <2>1, Zenon DEF RetireCleans
    <2>2. ~\E ok \in BOOLEAN : Completes(w, ok)
        BY ReturnsIdle
    <2> QED BY <1>2, <2>1, <2>2
<1>6. ~Applies(w) /\ ~RetireTimesOut(w) /\ ~CreatesNothing(w)
      /\ ~CreatesResidue(w) /\ ~Publishes(w) /\ ~PublishFails(w)
      /\ ~HandlerThrows(w)
    BY <1>r, Zenon DEF Applies, RetireTimesOut, CreatesNothing, CreatesResidue,
        Publishes, PublishFails, HandlerThrows
<1> QED BY <1>1, <1>3, <1>4, <1>5, <1>6 DEF Handler

(* An update that succeeds has its window applied or published.            *)
LEMMA SuccessComes ==
    ASSUME ProcessTypeOK, PlaceInv, Serving, NEW w \in Windows, Handler(w),
           ~pending.completed, pending.kind = "update",
           pending'.completed, pending'.ok
    PROVE  \E s \in Slots :
              /\ s = ui[w].slot /\ slots[s].win = w /\ slots'[s].win = w
              /\ slots'[s].occupied /\ slots'[s].gen = pending.gen
              /\ \/ slots'[s].admitted
                 \/ ui[w].pc = "applying" /\ slots'[s].admitted = slots[s].admitted
<1>0. /\ pending \in Pending /\ slots \in [Slots -> SlotRecord]
      /\ \A s \in Slots : slots[s] \in SlotRecord
    BY DEF ProcessTypeOK, Pending
<1>c. ~UNCHANGED pending /\ ~UNCHANGED control
    BY DEF control
<1>f. ~Completes(w, FALSE)
    BY <1>0 DEF Completes, Pending
<1>s. ~Beyond
    BY DEF Beyond
<1>1. PICK s : s = ui[w].slot
    OBVIOUS
<1>2. CASE Applies(w)
    <2>1. slots' = [slots EXCEPT ![s].gen = pending.gen] /\ ui[w].pc = "applying"
        BY <1>1, <1>2, <1>f DEF Applies, At
    <2>2. s \in Slots /\ slots[s].win = w /\ slots[s].occupied
        BY <1>1, <1>s, <2>1 DEF PlaceInv, Placed
    <2> QED BY <1>0, <1>1, <2>1, <2>2 DEF SlotRecord, Pending
<1>3. CASE Publishes(w)
    <2>1. slots' = [slots EXCEPT ![s].admitted = TRUE] /\ ui[w].pc = "publishing"
        BY <1>1, <1>3 DEF Publishes, At
    <2>2. /\ s \in Slots /\ slots[s].win = w /\ slots[s].occupied
          /\ slots[s].gen = pending.gen
        BY <1>1, <1>s, <2>1 DEF PlaceInv, Placed
    <2>3. slots'[s].win = w /\ slots'[s].occupied /\ slots'[s].gen = pending.gen
        BY <1>0, <2>1, <2>2 DEF SlotRecord
    <2>4. slots'[s].admitted
        BY <1>0, <2>1, <2>2, Zenon DEF SlotRecord
    <2> QED BY <1>1, <2>2, <2>3, <2>4
<1>4. ~RetireCleans(w)
    <2> SUFFICES ASSUME RetireCleans(w)
                 PROVE  FALSE
        OBVIOUS
    <2>1. PICK ok \in BOOLEAN : IF ok /\ pending.kind = "update"
                                THEN UNCHANGED control
                                ELSE Completes(w, ok)
        BY Zenon DEF RetireCleans
    <2>2. ok = FALSE => Completes(w, FALSE)
        BY <2>1
    <2> QED BY <1>c, <1>f, <2>1, <2>2
<1>5. ~Receives(w)
    <2>1. Receives(w) => pending'.completed = pending.completed
        BY <1>0 DEF Receives, Pending
    <2> QED BY <2>1
<1>6. ~DecidesRemoval(w) /\ ~DecidesUpdate(w) /\ ~RetireClaims(w)
      /\ ~ReapsForUpdate(w) /\ ~Creates(w) /\ ~CreatesNothing(w)
      /\ ~CreatesResidue(w) /\ ~PublishFails(w) /\ ~RetireTimesOut(w)
      /\ ~HandlerThrows(w)
    BY <1>c, <1>f, Zenon DEF DecidesRemoval, DecidesUpdate, RetireClaims,
        ReapsForUpdate, Creates, CreatesNothing, CreatesResidue, PublishFails,
        RetireTimesOut, HandlerThrows
<1> QED BY <1>2, <1>3, <1>4, <1>5, <1>6 DEF Handler

(* Every step keeps an update on its way to a served window.               *)
LEMMA UpdateKept ==
    ASSUME RuntimeInvariant, [Next]_vars
    PROVE  UpdateServes'
<1>i. /\ ProcessTypeOK /\ PipeInv /\ ControlInv /\ PlaceInv /\ EndInv
      /\ AdmittedLive /\ Accounted /\ RequestedClosed /\ UpdateServes
    BY DEF RuntimeInvariant, ServedInv
<1>0. /\ ui \in [Windows -> UiRecord] /\ pending \in Pending
      /\ worker \in WorkerRecord
    BY <1>i DEF ProcessTypeOK, UiRecord, Pending, WorkerRecord
<1> DEFINE Promised(w) ==
        /\ ui[w].pc = "deciding" => \A s \in Occupied :
              slots[s].win = w => slots[s].admitted
        /\ ui[w].pc = "applying" => slots[ui[w].slot].admitted
        /\ pending.completed /\ pending.ok => Served(w, pending.gen)
<1> SUFFICES ASSUME NEW w \in Windows, worker'.pc = "waiting", pending'.win = w,
                    pending'.kind = "update", w \notin closed'
             PROVE  Promised(w)'
    BY DEF UpdateServes
<1>1. CASE WorkerStep
    <2>1. ASSUME DispatchFails \/ \E ok \in BOOLEAN : Answers(ok)
          PROVE  FALSE
        BY <1>0, <2>1 DEF DispatchFails, Answers, WorkerRecord
    <2>2. pending.ok \in BOOLEAN
        BY <1>0 DEF Pending
    <2>3. ~Ending
        BY <1>0 DEF Ending, RemoveAllClaims, RemoveAllCleans, RemoveAllDone,
            Drains, Reports, Finalizes, Goes, WorkerRecord
    <2>4. ~Connects /\ ~Reads /\ ~ReadsText /\ ~ShowReturns /\ ~ReadsDetach
          /\ ~ReadFails /\ ~RemovesRequested /\ ~RequestedDone
        BY <1>0, <2>1 DEF Connects, Reads, ReadsText, ShowReturns, ReadsDetach, ReadFails,
            RemovesRequested, RequestedDone, Goes, WorkerRecord
    <2>5. ~ReapsBeforeDispatch /\ ~Checks /\ ~Returned /\ ~SendTimesOut
        BY <1>0, <2>1, <2>2 DEF ReapsBeforeDispatch, Checks, Returned,
            SendTimesOut, Goes, WorkerRecord
    <2>6. Sends
        BY <1>1, <2>3, <2>4, <2>5 DEF WorkerStep, Dispatch
    <2>7. /\ worker.pc = "sending" /\ UNCHANGED ui
          /\ pending'.completed = FALSE
        BY <2>1, <2>6 DEF Sends
    <2>8. ui'[w].pc \notin Handling
        BY <1>i, <2>7 DEF ControlInv, Handles
    <2> QED BY <2>7, <2>8 DEF Handling
<1>2. CASE ~WorkerStep
    <2>1. ~Attach /\ UNCHANGED worker
        <3>1. Attach => worker'.pc # "waiting"
            BY <1>0 DEF Attach, AttachBegins, AttachFails, AttachFailsResidue,
                Goes, WorkerRecord
        <3>2. HostStep \/ UNCHANGED vars => UNCHANGED worker
            BY DEF HostStep, HostUpdates, HostRemoves, HostTexts, Asks,
                HostReleases, HostDetaches, HostLoses, vars
        <3> QED BY <1>2, <3>1, <3>2, WindowsLeavePipe DEF Next
    <2>2. worker.pc = "waiting" /\ Serving /\ w \notin closed
        BY <1>i, <2>1, ClosedStays DEF Serving
    <2>o. pending.win = w /\ pending.kind = "update" => Promised(w)
        BY <1>i, <2>2 DEF UpdateServes
    <2>h. ASSUME NEW v \in Windows, Handles(v)
          PROVE  pending.win = v /\ ~pending.completed
        BY <1>i, <2>2, <2>h DEF ControlInv
    <2>3. CASE HostStep \/ UNCHANGED vars
        <3>1. UNCHANGED <<ui, slots, pending>>
            BY <2>3 DEF HostStep, HostUpdates, HostRemoves, HostTexts, Asks,
                HostReleases, HostDetaches, HostLoses, vars, registry, control
        <3> QED BY <2>o, <3>1 DEF Served, Occupied
    <2>4. ASSUME NEW v \in Windows, Explorer(v)
          PROVE  Promised(w)'
        <3>1. UNCHANGED pending
            BY <2>4 DEF Explorer, DestroyClaims, DestroyShelters, DestroyUnseen,
                ThreadEnds, WindowOpens, Gone, control
        <3>2. Handles(w)' => Handles(w) /\ ui'[w] = ui[w]
            <4>1. \/ UNCHANGED ui \/ ui' = [ui EXCEPT ![v] = Idle]
                  \/ \E s : Moves(v, "sheltering", s)
                BY <2>4 DEF Explorer, DestroyClaims, DestroyShelters,
                    DestroyUnseen, ThreadEnds, WindowOpens
            <4> QED BY <1>0, <4>1 DEF Moves, Idle, UiRecord, Handles, Handling
        <3>3. ASSUME NEW s \in Slots
              PROVE  /\ slots'[s].win = slots[s].win
                     /\ slots'[s].gen = slots[s].gen
                     /\ slots'[s].occupied = slots[s].occupied
                     /\ slots[s].win = w =>
                           slots'[s].admitted = slots[s].admitted
            <4>1. CASE slots'[s] = slots[s]
                BY <4>1
            <4>2. CASE Closes(v, s)
                BY <4>2 DEF Closes, SameTenant, SamePlace, SameAdmitted
            <4> QED BY <1>i, <2>4, <4>1, <4>2, SlotByExplorer
        <3>4. Promised(w)
            BY <2>o, <3>1
        <3>5. ui'[w].pc = "deciding" => \A s \in Slots :
                 slots'[s].occupied /\ slots'[s].win = w => slots'[s].admitted
            BY <3>2, <3>3, <3>4 DEF Handles, Handling, Occupied
        <3>6. ui'[w].pc = "applying" => slots'[ui'[w].slot].admitted
            <4>1. ui'[w].pc = "applying" =>
                     /\ ui'[w] = ui[w] /\ ui[w].slot \in Slots
                     /\ slots[ui[w].slot].win = w
                BY <1>i, <3>2 DEF Handles, Handling, PlaceInv, Placed
            <4> QED BY <3>3, <3>4, <4>1
        <3>7. Served(w, pending.gen) => Served(w, pending.gen)'
            BY <3>1, <3>3 DEF Served, Occupied
        <3> QED BY <3>1, <3>4, <3>5, <3>6, <3>7 DEF Occupied
    <2>5. ASSUME NEW v \in Windows, Handler(v)
          PROVE  Promised(w)'
        <3>1. /\ pending'.win = pending.win /\ pending'.kind = pending.kind
              /\ pending'.gen = pending.gen
            <4>1. CASE Receives(v)
                BY <1>0, <4>1 DEF Receives, Pending
            <4>2. CASE \E ok \in BOOLEAN : Completes(v, ok)
                BY <1>0, <4>2 DEF Completes, Pending
            <4> QED BY <2>5, <4>1, <4>2, HandlerDoes DEF control
        <3>2. Receives(v) => /\ UNCHANGED slots
                             /\ pending'.completed = pending.completed
                             /\ pending'.ok = pending.ok
            BY <1>0 DEF Receives, Pending, registry
        <3>3. Promised(w)
            BY <2>o, <3>1
        <3>4. ASSUME Handles(w)', ~Handler(w)
              PROVE  /\ ui'[w] = ui[w] /\ UNCHANGED slots
            <4>1. Handles(w) /\ ui'[w] = ui[w] /\ v # w
                BY <1>i, <2>5, <3>4, HandlesComes
            <4>2. Receives(v)
                BY <1>i, <2>5, <4>1, HandlerDoes, OneHandler
            <4> QED BY <3>2, <4>1, <4>2
        <3>5. ASSUME ui'[w].pc = "deciding", NEW s \in Slots,
                     slots'[s].occupied, slots'[s].win = w
              PROVE  slots'[s].admitted
            <4>1. CASE Handler(w)
                <5>1. Receives(w) /\ ui[w].pc = "idle" /\ ~retention
                    BY <1>i, <3>5, <4>1, ApplyingComes
                <5>2. UNCHANGED slots
                    BY <5>1 DEF Receives, registry
                <5>3. ~Claimed(s)
                    BY <3>5, <5>1, <5>2 DEF Claimed
                <5>4. slots[s].life # "requested"
                    BY <1>i, <2>2, <3>5, <5>2 DEF RequestedClosed, Dispatching,
                        Occupied
                <5> QED BY <1>i, <2>2, <3>5, <5>1, <5>2, <5>3, <5>4
                        DEF Accounted, Occupied
            <4>2. CASE ~Handler(w)
                <5>1. ui'[w] = ui[w] /\ UNCHANGED slots
                    BY <3>4, <3>5, <4>2 DEF Handles, Handling
                <5> QED BY <3>3, <3>5, <5>1 DEF Occupied
            <4> QED BY <4>1, <4>2
        <3>6. ASSUME ui'[w].pc = "applying"
              PROVE  slots'[ui'[w].slot].admitted
            <4>1. CASE Handler(w)
                <5>1. /\ ui[w].pc = "deciding" /\ UNCHANGED slots
                      /\ ui'[w].slot \in Slots /\ Existing(w, ui'[w].slot)
                    BY <1>i, <3>6, <4>1, ApplyingComes
                <5> QED BY <3>3, <5>1 DEF Existing
            <4>2. CASE ~Handler(w)
                <5>1. ui'[w] = ui[w] /\ UNCHANGED slots
                    BY <3>4, <3>6, <4>2 DEF Handles, Handling
                <5> QED BY <3>3, <3>6, <5>1
            <4> QED BY <4>1, <4>2
        <3>7. ASSUME pending'.completed, pending'.ok
              PROVE  Served(w, pending.gen)'
            <4>1. CASE pending.completed
                <5>1. Receives(v)
                    BY <2>5, <2>h, <4>1, HandlerDoes
                <5>2. Served(w, pending.gen)
                    BY <3>2, <3>3, <3>7, <4>1, <5>1
                <5> QED BY <3>1, <3>2, <5>1, <5>2 DEF Served, Occupied
            <4>2. CASE ~pending.completed
                <5>1. Handles(v) /\ v = w
                    BY <2>5, <2>h, <3>1, <3>2, <3>7, <4>2, HandlerDoes
                <5>2. PICK s \in Slots :
                         /\ s = ui[w].slot
                         /\ slots'[s].occupied /\ slots'[s].gen = pending.gen
                         /\ slots'[s].win = w
                         /\ \/ slots'[s].admitted
                            \/ /\ ui[w].pc = "applying"
                               /\ slots'[s].admitted = slots[s].admitted
                    BY <1>i, <2>2, <2>5, <3>1, <3>7, <4>2, <5>1, SuccessComes
                <5>3. slots'[s].admitted
                    BY <3>3, <5>2
                <5> QED BY <3>1, <5>2, <5>3 DEF Served, Occupied
            <4> QED BY <4>1, <4>2
        <3> QED BY <3>5, <3>6, <3>7 DEF Occupied
    <2> QED BY <1>2, <2>1, <2>3, <2>4, <2>5 DEF Next
<1> QED BY <1>1, <1>2

-----------------------------------------------------------------------------
(* The theorems.                                                           *)

(* The invariant holds when the hook has begun the attach.                 *)
LEMMA RuntimeStarts ==
    ASSUME Init
    PROVE  RuntimeInvariant
<1> USE RuntimeAssumption DEF Init
<1>0. /\ worker.pc = "attaching" /\ host = "attaching" /\ request.kind = "none"
      /\ worker.failed = FALSE
      /\ \A s \in Slots : slots[s] = Free
      /\ \A w \in Windows : ui[w].slot = 0
            /\ ui[w].pc = IF w = First THEN "attaching" ELSE "idle"
    BY DEF Idle, NoRequest
<1>1. ProcessTypeOK
    <2>1. Free \in SlotRecord
        BY DEF Free, SlotRecord
    <2>2. ui \in [Windows -> UiRecord]
        BY DEF UiRecord, Idle
    <2>3. /\ worker \in WorkerRecord /\ request \in Request /\ pending \in Pending
        BY DEF WorkerRecord, Request, Pending, NoRequest
    <2>4. /\ live \subseteq Windows /\ closed \subseteq Windows
          /\ slots \in [Slots -> SlotRecord] /\ nextOrder \in Nat
          /\ nextToken \in 0..MaxToken /\ posted \subseteq Message
          /\ sent \in SentStates /\ host \in HostStates
          /\ mirror \in [Windows -> 0..MaxGen] /\ latest \in [Windows -> 0..MaxGen]
        BY <2>1 DEF SentStates, HostStates
    <2>5. /\ retention \in BOOLEAN /\ gateClosed \in BOOLEAN
          /\ hooked \in BOOLEAN /\ hookReleased \in BOOLEAN /\ acked \in BOOLEAN
        BY Zenon
    <2> QED BY <2>2, <2>3, <2>4, <2>5, Zenon DEF ProcessTypeOK, Request,
            HostStates, Pending, SentStates, WorkerRecord, UiRecord
<1>2. PipeInv
    BY <1>0 DEF PipeInv, Dispatching
<1>3. ControlInv
    BY <1>0 DEF ControlInv, Handles, Handling
<1>4. PlaceInv
    BY <1>0 DEF PlaceInv, Settled, Placed, WorkerPlaced, Free
<1>5. RetainedInv
    BY DEF RetainedInv
<1>6. EndInv
    BY <1>0 DEF EndInv, Leaving
<1>7. OnceInv
    BY <1>0 DEF OnceInv, RegisteredOnce, NoneLeft, OneLeft, ShownOnce, Occupied,
        Removed, Free
<1>8. ServedInv
    BY <1>0 DEF ServedInv, AdmittedLive, Accounted, RequestedClosed, MirrorHeld,
        MirrorAsked, UpdateServes, Occupied, Free, Dispatching
<1> QED BY <1>1, <1>2, <1>3, <1>4, <1>5, <1>6, <1>7, <1>8 DEF RuntimeInvariant

(* Every step keeps the invariant.                                         *)
LEMMA RuntimeKept ==
    ASSUME RuntimeInvariant, [Next]_vars
    PROVE  RuntimeInvariant'
<1>1. /\ ProcessTypeOK /\ PipeInv /\ ControlInv /\ PlaceInv /\ RetainedInv
      /\ EndInv
    BY DEF RuntimeInvariant
<1>2. ProcessTypeOK' /\ PipeInv' /\ ControlInv' /\ PlaceInv' /\ RetainedInv'
    BY <1>1, ProcessTyped, PipeKept, ControlKept, PlaceKept, RetainedKept
<1>3. EndInv' /\ OnceInv'
    BY EndKept, OnceKept
<1>4. ServedInv'
    BY AdmittedKept, AccountedKept, RequestedKept, MirrorKept, AskedKept,
        UpdateKept DEF ServedInv
<1> QED BY <1>2, <1>3, <1>4 DEF RuntimeInvariant

(* The invariant holds of every reachable state, however many windows the  *)
(* process has and whichever calls fail.                                   *)
THEOREM RuntimeInvariantHolds == Spec => []RuntimeInvariant
<1>1. Init => RuntimeInvariant
    BY RuntimeStarts
<1>2. RuntimeInvariant /\ [Next]_vars => RuntimeInvariant'
    BY RuntimeKept
<1> QED BY <1>1, <1>2, PTL DEF Spec

(* Every variable of the runtime has its type.                             *)
THEOREM RuntimeTypesHold == Spec => []ProcessTypeOK
<1>1. RuntimeInvariant => ProcessTypeOK
    BY DEF RuntimeInvariant
<1> QED BY <1>1, RuntimeInvariantHolds, PTL

(* No window has two slots in the registry, nor shows two panes while      *)
(* requests are served, whatever is left of earlier windows, of attempts   *)
(* that failed and of handlers whose sender gave up.                       *)
THEOREM WindowsShowOnePane == Spec => []OnePanePerWindow
<1>1. RuntimeInvariant => OnePanePerWindow
    <2> SUFFICES ASSUME RuntimeInvariant, NEW s \in Slots, NEW t \in Slots,
                        slots[s].win = slots[t].win, slots[s].win # NoWindow,
                        \/ slots[s].occupied /\ slots[t].occupied
                        \/ /\ Serving /\ slots[s].pane = "shown"
                           /\ slots[t].pane = "shown"
                 PROVE  s = t
        BY DEF OnePanePerWindow
    <2>i. PlaceInv /\ RegisteredOnce /\ ShownOnce
        BY DEF RuntimeInvariant, OnceInv
    <2>1. CASE slots[s].occupied /\ slots[t].occupied
        BY <2>1, <2>i DEF RegisteredOnce
    <2>2. CASE ~(slots[s].occupied /\ slots[t].occupied)
        <3>1. slots[s].removed \/ slots[t].removed
            BY <2>2, <2>i DEF PlaceInv, Settled
        <3> QED BY <2>2, <2>i, <3>1 DEF ShownOnce, Removed
    <2> QED BY <2>1, <2>2
<1> QED BY <1>1, RuntimeInvariantHolds, PTL

(* When the Host has been told that the process is detached, the hooks are *)
(* off and no pane is left in any window.                                  *)
THEOREM AcknowledgedIsDetached == Spec => []AckTruthful
<1>1. RuntimeInvariant => AckTruthful
    BY DEF RuntimeInvariant, EndInv, AckTruthful
<1> QED BY <1>1, RuntimeInvariantHolds, PTL

(* The DLL is unloaded only when no hook, no pane and no handler of it is  *)
(* left, and nothing asked for it to be retained.                          *)
THEOREM UnloadedLeavesNothing == Spec => []UnloadIsQuiet
<1>1. RuntimeInvariant => UnloadIsQuiet
    <2> SUFFICES ASSUME RuntimeInvariant, worker.pc = "unloaded"
                 PROVE  /\ ~hooked /\ ~retention /\ UiQuiet
                        /\ \A s \in Slots :
                              slots[s].pane \notin {"shown", "sheltered"}
        BY DEF UnloadIsQuiet
    <2>i. PipeInv /\ PlaceInv /\ EndInv
        BY DEF RuntimeInvariant
    <2>1. /\ hookReleased /\ ~retention /\ UiQuiet
          /\ Occupied = {} /\ Removed = {}
        BY <2>i DEF EndInv, Leaving
    <2>2. \A s \in Slots : slots[s].pane = "none"
        BY <2>1, <2>i DEF PlaceInv, Settled, Occupied, Removed
    <2> QED BY <2>1, <2>2, <2>i DEF PipeInv
<1> QED BY <1>1, RuntimeInvariantHolds, PTL

(* Every window that the session believes to be up to date has a slot of   *)
(* its generation that takes callbacks, unless it was closed since.        *)
THEOREM MirrorStaysServed == Spec => []MirrorServed
<1>1. RuntimeInvariant => MirrorServed
    <2> SUFFICES ASSUME RuntimeInvariant, host = "serving", NEW w \in Windows,
                        mirror[w] # 0, w \notin closed
                 PROVE  Served(w, mirror[w])
        BY DEF MirrorServed, Served
    <2>i. PipeInv /\ MirrorHeld
        BY DEF RuntimeInvariant, ServedInv
    <2>1. Serving
        BY <2>i DEF PipeInv, Serving
    <2> QED BY <2>1, <2>i DEF MirrorHeld
<1> QED BY <1>1, RuntimeInvariantHolds, PTL

(* A handler works on one request to its end: no step of the worker, of    *)
(* another thread or of its own gives the pending record another window,   *)
(* kind or generation while it is under way.                               *)
THEOREM PendingStaysClaimed == Spec => PendingStable
<1> DEFINE Stable ==
        \A w \in Windows : ui[w].pc \notin {"idle", "attaching", "sheltering"} =>
            /\ pending'.token = 0 /\ pending'.win = w
            /\ pending'.kind = pending.kind /\ pending'.gen = pending.gen
<1>1. RuntimeInvariant /\ [Next]_vars => [Stable]_vars
    <2> SUFFICES ASSUME RuntimeInvariant, Next, NEW w \in Windows,
                        ui[w].pc \notin {"idle", "attaching", "sheltering"}
                 PROVE  /\ pending'.token = 0 /\ pending'.win = w
                        /\ pending'.kind = pending.kind
                        /\ pending'.gen = pending.gen
        OBVIOUS
    <2>0. /\ ProcessTypeOK /\ ControlInv /\ EndInv /\ pending \in Pending
        BY DEF RuntimeInvariant, ProcessTypeOK, Pending
    <2>1. Handles(w)
        BY <2>0 DEF ProcessTypeOK, Handles, Handling
    <2>2. /\ pending.token = 0 /\ pending.win = w
          /\ worker.pc \notin {"attaching", "sending"}
        BY <2>0, <2>1 DEF ControlInv
    <2>3. CASE UNCHANGED pending
        BY <2>2, <2>3
    <2>4. HostStep => UNCHANGED pending
        BY DEF HostStep, HostUpdates, HostRemoves, HostTexts, Asks,
            HostReleases, HostDetaches, HostLoses, control
    <2>5. WorkerStep => UNCHANGED pending
        BY <2>2 DEF WorkerStep, Dispatch, Connects, Reads, ReadsText, ShowReturns,
            ReadsDetach, ReadFails, RemovesRequested, RequestedDone,
            ReapsBeforeDispatch, Checks, Sends, Returned, SendTimesOut, Ending,
            RemoveAllClaims, RemoveAllCleans, RemoveAllDone, Drains, Reports,
            Finalizes, control
    <2>6. Attach => UNCHANGED pending
        BY DEF Attach, AttachBegins, AttachFails, AttachFailsResidue, AttachDone,
            control
    <2>7. ASSUME NEW v \in Windows, Explorer(v)
          PROVE  UNCHANGED pending
        BY <2>7 DEF Explorer, DestroyClaims, DestroyShelters, DestroyUnseen,
            ThreadEnds, WindowOpens, Gone, control
    <2>8. ASSUME NEW v \in Windows, Handler(v)
          PROVE  /\ pending'.token = 0 /\ pending'.win = pending.win
                 /\ pending'.kind = pending.kind /\ pending'.gen = pending.gen
        <3>1. CASE Receives(v)
            BY <2>0, <2>2, <3>1 DEF Receives, Pending
        <3>2. CASE \E ok \in BOOLEAN : Completes(v, ok)
            BY <2>0, <2>2, <3>2 DEF Completes, Pending
        <3> QED BY <2>2, <2>8, <3>1, <3>2, HandlerDoes DEF control
    <2> QED BY <2>2, <2>3, <2>4, <2>5, <2>6, <2>7, <2>8 DEF Next
<1>2. Spec => [][Stable]_vars
    BY <1>1, RuntimeInvariantHolds, PTL DEF Spec
<1> QED BY <1>2 DEF PendingStable

=============================================================================
