-------------------------- MODULE ExplorerSessionProofs --------------------------
(***************************************************************************)
(* The safety properties of ExplorerSession, for every set of windows, of  *)
(* threads and of texts, any number of generations of a handle and of      *)
(* requests; and that a session keeps SessionContract, which is all that   *)
(* the coordinator knows of it. The invariant says how far the two loops   *)
(* of Reconcile have come: for each window, whether the process has        *)
(* acknowledged the new snapshot or still the old one.                     *)
(***************************************************************************)
EXTENDS ExplorerSession, TLAPS

-----------------------------------------------------------------------------
(* The injector, for every set of threads and every size of the table of   *)
(* leases. The invariant that carries its properties adds what the entry   *)
(* of a process that is not retained holds (nothing), and what the event   *)
(* says of the hook handles, the dead ones included.                       *)

NothingUnretained ==
    ~retained => /\ leases = {} /\ held = {}
                 /\ ~releaseStarted /\ ~signaled

SignaledMeansReleased == signaled => held = {} /\ releaseStarted

InjectorInvariant ==
    /\ InjectorTypeOK
    /\ NothingUnretained
    /\ EveryHookHeld
    /\ SignaledMeansReleased

-----------------------------------------------------------------------------
(* In the beginning nothing is retained and nothing is hooked.             *)
LEMMA InjectorStarts == InjectorInit => InjectorInvariant
BY DEF InjectorInit, InjectorInvariant, InjectorTypeOK, NothingUnretained,
       EveryHookHeld, SignaledMeansReleased

(* Every operation of the injector, and the end of a thread, keep the      *)
(* invariant.                                                              *)
LEMMA InjectorSteps ==
    InjectorInvariant /\ [InjectorNext]_injectorVars => InjectorInvariant'
<1> SUFFICES ASSUME InjectorInvariant, [InjectorNext]_injectorVars
             PROVE  InjectorInvariant'
    OBVIOUS
<1> USE DEF InjectorInvariant, InjectorTypeOK, NothingUnretained,
            EveryHookHeld, SignaledMeansReleased
<1>1. CASE UNCHANGED injectorVars
    BY <1>1 DEF injectorVars
<1>2. ASSUME NEW t \in UiThreads, AttachSucceeds(t)
      PROVE  InjectorInvariant'
    BY <1>2 DEF AttachSucceeds, Hooks
<1>3. ASSUME NEW t \in UiThreads, AttachFails(t)
      PROVE  InjectorInvariant'
    <2>1. CASE AttachRefused(t)
        BY <1>1, <2>1 DEF AttachRefused
    <2>2. CASE AttachKeepsHook(t)
        BY <2>2 DEF AttachKeepsHook, Hooks
    <2>3. CASE AttachGivesUp(t)
        BY <2>3 DEF AttachGivesUp
    <2> QED BY <1>3, <2>1, <2>2, <2>3 DEF AttachFails
<1>4. ASSUME NEW t \in UiThreads, Ensured(t)
      PROVE  InjectorInvariant'
    <2>1. CASE t \in leases
        BY <1>1, <1>4, <2>1 DEF Ensured
    <2>2. CASE t \notin leases
        BY <1>4, <2>2 DEF Ensured, Hooks
    <2> QED BY <2>1, <2>2
<1>5. ASSUME NEW t \in UiThreads, EnsureFails(t)
      PROVE  InjectorInvariant'
    <2>1. CASE UNCHANGED injectorVars
        BY <1>1, <2>1
    <2>2. ASSUME retained, ~releaseStarted, Hooks(t), releaseStarted' = TRUE,
                 UNCHANGED <<retained, signaled>>
          PROVE  InjectorInvariant'
        BY <2>2 DEF Hooks
    <2> QED BY <1>5, <2>1, <2>2 DEF EnsureFails
<1>6. ASSUME NEW t \in UiThreads, ThreadsEnd({t})
      PROVE  InjectorInvariant'
    BY <1>6 DEF ThreadsEnd
<1>7. CASE Released
    BY <1>7 DEF Released, Unhooks
<1>8. CASE ReleaseFails
    <2>1. CASE ~retained /\ UNCHANGED injectorVars
        BY <1>1, <2>1
    <2>2. ASSUME NEW kept \in SUBSET held,
                 kept # {} \/ ~signaled, Unhooks(kept), UNCHANGED signaled
          PROVE  InjectorInvariant'
        BY <2>2 DEF Unhooks
    <2> QED BY <1>8, <2>1, <2>2 DEF ReleaseFails
<1>9. CASE Confirmed
    BY <1>9 DEF Confirmed, Forgotten
<1>10. CASE ConfirmFails
    BY <1>1, <1>10 DEF ConfirmFails
<1> QED
    BY <1>1, <1>2, <1>3, <1>4, <1>5, <1>6, <1>7, <1>8, <1>9, <1>10
    DEF InjectorNext

(* No operation hooks a thread once the release has begun, as long as the  *)
(* entry is there.                                                         *)
LEMMA InjectorReleases ==
    ASSUME InjectorInvariant, InjectorNext, releaseStarted, retained'
    PROVE  hooked' \subseteq hooked
<1> USE DEF InjectorInvariant, InjectorTypeOK, NothingUnretained
<1>1. ASSUME NEW t \in UiThreads,
             AttachSucceeds(t) \/ AttachFails(t)
      PROVE  hooked' \subseteq hooked
    BY <1>1 DEF AttachSucceeds, AttachFails, AttachRefused,
                AttachKeepsHook, AttachGivesUp, injectorVars
<1>2. ASSUME NEW t \in UiThreads, Ensured(t) \/ EnsureFails(t)
      PROVE  hooked' \subseteq hooked
    BY <1>2 DEF Ensured, EnsureFails, injectorVars
<1>3. ASSUME NEW t \in UiThreads, ThreadsEnd({t})
      PROVE  hooked' \subseteq hooked
    BY <1>3 DEF ThreadsEnd
<1>4. CASE Released \/ ReleaseFails
    BY <1>4 DEF Released, ReleaseFails, Unhooks, injectorVars
<1>5. CASE Confirmed \/ ConfirmFails
    BY <1>5 DEF Confirmed, ConfirmFails, Forgotten, injectorVars
<1> QED BY <1>1, <1>2, <1>3, <1>4, <1>5 DEF InjectorNext

(* The invariant holds of every reachable state.                           *)
THEOREM InjectorInvariantHolds == InjectorSpec => []InjectorInvariant
BY InjectorStarts, InjectorSteps, PTL DEF InjectorSpec

-----------------------------------------------------------------------------
(* The variables of the injector have their types.                         *)
THEOREM InjectorTypesHold == InjectorSpec => []InjectorTypeOK
BY InjectorInvariantHolds, PTL DEF InjectorInvariant

(* Every hook that is in a live thread can still be taken off by the Host. *)
THEOREM NoHookIsLost == InjectorSpec => []EveryHookHeld
BY InjectorInvariantHolds, PTL DEF InjectorInvariant

(* The event that lets the DLL unload itself is set only when no thread of *)
(* the process runs its hook procedure.                                    *)
THEOREM SignalIsTruthful == InjectorSpec => []SignaledMeansUnhooked
<1>1. InjectorInvariant => SignaledMeansUnhooked
    BY DEF InjectorInvariant, SignaledMeansReleased, EveryHookHeld,
           SignaledMeansUnhooked
<1> QED BY InjectorInvariantHolds, <1>1, PTL

(* A process that is being released gets no new hook.                      *)
THEOREM ReleaseIsFinal == InjectorSpec => NoHookAfterRelease
<1>1. InjectorInvariant /\ [InjectorNext]_injectorVars
      => [releaseStarted /\ retained' => hooked' \subseteq hooked]_injectorVars
    BY InjectorReleases DEF injectorVars
<1> QED
    BY InjectorInvariantHolds, <1>1, PTL DEF InjectorSpec, NoHookAfterRelease

-----------------------------------------------------------------------------
(* The session.                                                            *)

Updating == {"updating", "exchanging", "texting"}
Reconciling == {"attaching", "removing"} \cup Updating
Stopping == {"releasing", "detaching", "awaiting", "confirming"}

(* What the flags say of the injector and of the process. A session that   *)
(* is fresh has touched nothing.                                           *)
FlagsInv ==
    /\ pc = "attaching" => ~attached
    /\ pc \in (Reconciling \ {"attaching"}) \cup Stopping => attached
    /\ pc # "idle" => ~uncertain /\ ~stopped
    /\ stopped => ~uncertain /\ ~attached /\ hooked = {} /\ ~module
    /\ attached => retained
    /\ ~attached /\ ~uncertain /\ ~stopped =>
          /\ windows = None /\ acked = None /\ ~module
          /\ ~retained /\ hooked = {}

(* Once the hooks are released they stay so, whatever the caller does.     *)
ReleaseInv ==
    /\ pc \in {"exchanging", "texting"} => ~releaseStarted
    /\ pc \in {"detaching", "awaiting", "confirming"} => releaseComplete
    /\ attached /\ (releaseComplete \/ detaching) => held = {} /\ signaled
    /\ releaseComplete \/ detaching => attached \/ stopped
    /\ detaching => hooked = {}
    /\ pc = "confirming" => ~module

(* Where the loops of Reconcile are.                                       *)
LoopInv ==
    /\ pc = "attaching" => todo = DOMAIN candidate
    /\ pc \in {"attaching"} \cup Updating => todo \subseteq DOMAIN candidate
    /\ pc \in {"exchanging", "texting"} => now \in DOMAIN candidate \ todo
    /\ pc = "removing" => todo \cap DOMAIN candidate = {}
    /\ pc \in Reconciling => \A w \in DOMAIN candidate \cap DOMAIN windows :
          \/ candidate[w].text # windows[w].text
          \/ candidate[w].gen = windows[w].gen

(* The process has acknowledged the snapshot s of the window.              *)
Placed(w, s) ==
    w \in DOMAIN acked /\ acked[w].gen = s.gen /\ acked[w].thread = s.thread
Agrees(w, s) == Placed(w, s) /\ s.text \in {NoTab, acked[w].text}

(* The windows that Reconcile has brought to the candidate.                *)
Reached ==
    DOMAIN candidate \ (IF pc = "updating" THEN todo ELSE todo \cup {now})

(* A session that can still serve, between calls and in Reconcile.         *)
MirrorInv == attached /\ ~uncertain /\ ~releaseStarted =>
    /\ pc \in {"idle", "releasing"} =>
          /\ DOMAIN acked = DOMAIN windows
          /\ \A w \in DOMAIN windows : Agrees(w, windows[w])
    /\ pc \in Updating =>
          /\ DOMAIN acked = DOMAIN windows \cup Reached
                            \cup (IF pc = "texting" THEN {now} ELSE {})
          /\ \A w \in Reached : Agrees(w, candidate[w])
          /\ \A w \in DOMAIN windows \ Reached :
                (pc = "texting" /\ w = now) \/ Agrees(w, windows[w])
    /\ pc = "texting" => Placed(now, candidate[now])
    /\ pc = "removing" =>
          /\ DOMAIN acked = DOMAIN candidate \cup todo
          /\ \A w \in DOMAIN candidate : Agrees(w, candidate[w])

SessionInvariant ==
    /\ TypeOK /\ InjectorInvariant /\ FlagsInv /\ ReleaseInv /\ LoopInv
    /\ MirrorInv

-----------------------------------------------------------------------------
(* Snapshots.                                                              *)

(* A snapshot is a function from some of the windows.                      *)
LEMMA SnapshotsAre ==
    ASSUME NEW f
    PROVE  f \in Snapshots <=>
               DOMAIN f \subseteq Windows /\ f \in [DOMAIN f -> Snapshot]
<1>1. ASSUME f \in Snapshots
      PROVE  DOMAIN f \subseteq Windows /\ f \in [DOMAIN f -> Snapshot]
    <2>1. PICK W \in SUBSET Windows : f \in [W -> Snapshot]
        BY <1>1 DEF Snapshots
    <2>2. DOMAIN f = W
        BY <2>1
    <2> QED BY <2>1, <2>2
<1>2. ASSUME DOMAIN f \subseteq Windows, f \in [DOMAIN f -> Snapshot]
      PROVE  f \in Snapshots
    BY <1>2 DEF Snapshots
<1> QED BY <1>1, <1>2

(* There may be no window at all.                                          *)
LEMMA NoneIsSnapshot == None \in Snapshots /\ DOMAIN None = {}
<1>1. DOMAIN None = {} /\ None \in [{} -> Snapshot]
    BY DEF None
<1> QED BY <1>1, SnapshotsAre

(* What the process has after each exchange.                               *)
LEMMA UpdateDoes ==
    ASSUME acked \in Snapshots, candidate \in Snapshots,
           NEW w \in DOMAIN candidate
    PROVE  /\ AfterUpdate(w) \in Snapshots
           /\ DOMAIN AfterUpdate(w) = DOMAIN acked \cup {w}
           /\ \A v \in DOMAIN acked \ {w} : AfterUpdate(w)[v] = acked[v]
           /\ AfterUpdate(w)[w].gen = candidate[w].gen
           /\ AfterUpdate(w)[w].thread = candidate[w].thread
           /\ w \in DOMAIN acked /\ acked[w].gen = candidate[w].gen =>
                 AfterUpdate(w)[w].text = acked[w].text
<1>1. /\ DOMAIN acked \subseteq Windows /\ acked \in [DOMAIN acked -> Snapshot]
      /\ w \in Windows /\ candidate[w] \in Snapshot
    BY SnapshotsAre
<1> DEFINE old == w \in DOMAIN acked /\ acked[w].gen = candidate[w].gen
           new == [candidate[w] EXCEPT !.text =
                      IF old THEN acked[w].text ELSE NoTab]
<1>2. new \in Snapshot /\ new.gen = candidate[w].gen
      /\ new.thread = candidate[w].thread
      /\ (old => new.text = acked[w].text)
    BY <1>1 DEF Snapshot
<1>3. AfterUpdate(w) = [v \in DOMAIN acked \cup {w} |->
                           IF v # w THEN acked[v] ELSE new]
    BY DEF AfterUpdate
<1> HIDE DEF new
<1>4. AfterUpdate(w) \in [DOMAIN acked \cup {w} -> Snapshot]
    BY <1>1, <1>2, <1>3
<1>5. AfterUpdate(w) \in Snapshots
    BY <1>1, <1>4, SnapshotsAre
<1> QED BY <1>2, <1>3, <1>5

(* A text changes nothing but the text of its window.                      *)
LEMMA TextDoes ==
    ASSUME acked \in Snapshots, candidate \in Snapshots,
           NEW w \in DOMAIN candidate
    PROVE  /\ AfterText(w) \in Snapshots
           /\ DOMAIN AfterText(w) = DOMAIN acked
           /\ \A v \in DOMAIN acked \ {w} : AfterText(w)[v] = acked[v]
           /\ w \in DOMAIN acked =>
                 /\ AfterText(w)[w].gen = acked[w].gen
                 /\ AfterText(w)[w].thread = acked[w].thread
                 /\ AfterText(w)[w].text = candidate[w].text
<1>1. /\ DOMAIN acked \subseteq Windows /\ acked \in [DOMAIN acked -> Snapshot]
      /\ w \in Windows /\ candidate[w] \in Snapshot
    BY SnapshotsAre
<1> DEFINE new == [acked[w] EXCEPT !.text = candidate[w].text]
<1>2. w \in DOMAIN acked => new \in Snapshot /\ new.gen = acked[w].gen
                            /\ new.thread = acked[w].thread
                            /\ new.text = candidate[w].text
    BY <1>1 DEF Snapshot
<1>3. AfterText(w) = [v \in DOMAIN acked |-> IF v # w THEN acked[v] ELSE new]
    BY DEF AfterText
<1> HIDE DEF new
<1>4. AfterText(w) \in [DOMAIN acked -> Snapshot]
    BY <1>1, <1>2, <1>3
<1>5. AfterText(w) \in Snapshots
    BY <1>1, <1>4, SnapshotsAre
<1> QED BY <1>2, <1>3, <1>5

(* A removal leaves the other windows as they are.                         *)
LEMMA RemovalDoes ==
    ASSUME acked \in Snapshots, NEW w
    PROVE  /\ AfterRemoval(w) \in Snapshots
           /\ DOMAIN AfterRemoval(w) = DOMAIN acked \ {w}
           /\ \A v \in DOMAIN acked \ {w} : AfterRemoval(w)[v] = acked[v]
<1>1. DOMAIN acked \subseteq Windows /\ acked \in [DOMAIN acked -> Snapshot]
    BY SnapshotsAre
<1>2. AfterRemoval(w) = [v \in DOMAIN acked \ {w} |-> acked[v]]
    BY DEF AfterRemoval, Restrict
<1>3. AfterRemoval(w) \in [DOMAIN acked \ {w} -> Snapshot]
    BY <1>1, <1>2
<1> QED BY <1>1, <1>2, <1>3, SnapshotsAre

-----------------------------------------------------------------------------
(* The injector inside the session.                                        *)

(* A step of the session is an operation of the injector, the end of some  *)
(* threads, or leaves the injector alone.                                  *)
LEMMA SessionInjects ==
    ASSUME TypeOK, LoopInv, [Next]_vars
    PROVE  \/ UNCHANGED injectorVars
           \/ \E threads \in SUBSET UiThreads : ThreadsEnd(threads)
           \/ InjectorNext
<1>1. pc \in {"attaching", "updating"} =>
          \A w \in todo : candidate[w].thread \in UiThreads
    BY SnapshotsAre DEF TypeOK, LoopInv, Updating, Snapshot
<1>2. CASE SomeThreadsEnd
    BY <1>2 DEF SomeThreadsEnd
<1>3. CASE AttachInitial \/ AttachInitialFails \/ Ensure \/ EnsureFailed
    BY <1>1, <1>3 DEF AttachInitial, AttachInitialFails, Ensure, EnsureFailed,
        InjectorNext
<1>4. CASE ReleaseHooks \/ ReleaseHooksFails \/ ConfirmTargetGone
    BY <1>4 DEF ReleaseHooks, ReleaseHooksFails, ConfirmTargetGone, InjectorNext
<1>5. CASE UNCHANGED vars \/ ModuleUnloads
    BY <1>5 DEF vars, ModuleUnloads
<1>6. CASE ReconcileBegins \/ SendUpdate \/ SendPaneText \/ UpdatesDone
           \/ SendRemoval \/ SendFails \/ Commit \/ OutOfMemory
    BY <1>6 DEF ReconcileBegins, SendUpdate, SendPaneText, UpdatesDone,
        SendRemoval, SendFails, ExchangeFails, Commit, OutOfMemory
<1>7. CASE StopUnattached \/ StopBegins \/ Detach \/ DetachFails
           \/ WaitModuleAbsent \/ WaitModuleAbsentFails
    BY <1>7 DEF StopUnattached, StopBegins, Detach, DetachFails, ExchangeFails,
        WaitModuleAbsent, WaitModuleAbsentFails
<1> QED BY <1>2, <1>3, <1>4, <1>5, <1>6, <1>7 DEF Next, Reconcile, Stop

(* So the invariant of the injector holds inside the session.              *)
LEMMA InjectorKept ==
    ASSUME TypeOK, LoopInv, InjectorInvariant, [Next]_vars
    PROVE  InjectorInvariant'
<1>1. ASSUME NEW threads \in SUBSET UiThreads, ThreadsEnd(threads)
      PROVE  InjectorInvariant'
    BY <1>1 DEF ThreadsEnd, InjectorInvariant, InjectorTypeOK,
        NothingUnretained, EveryHookHeld, SignaledMeansReleased
<1> QED BY <1>1, SessionInjects, InjectorSteps

-----------------------------------------------------------------------------
(* Types.                                                                  *)
LEMMA SessionFlagsTyped ==
    ASSUME TypeOK, [Next]_vars
    PROVE  /\ attached' \in BOOLEAN /\ uncertain' \in BOOLEAN
           /\ stopped' \in BOOLEAN /\ releaseComplete' \in BOOLEAN
           /\ detachComplete' \in BOOLEAN
           /\ module' \in BOOLEAN /\ detaching' \in BOOLEAN
<1> DEFINE Flags == /\ attached \in BOOLEAN /\ uncertain \in BOOLEAN
                    /\ stopped \in BOOLEAN /\ releaseComplete \in BOOLEAN
                    /\ detachComplete \in BOOLEAN
                    /\ module \in BOOLEAN /\ detaching \in BOOLEAN
<1>1. Flags
    BY Zenon DEF TypeOK
<1>2. CASE UNCHANGED vars
    BY <1>1, <1>2, Zenon DEF vars, flags, process
<1>3. CASE SomeThreadsEnd \/ ModuleUnloads
    BY <1>1, <1>3, Zenon DEF SomeThreadsEnd, ModuleUnloads, flags, process
<1>4. CASE Reconcile
    BY <1>1, <1>4, Zenon DEF Reconcile, ReconcileBegins, AttachInitial,
        AttachInitialFails, Ensure, EnsureFailed, SendUpdate, SendPaneText,
        UpdatesDone, SendRemoval, SendFails, ExchangeFails, Uncertain, Commit,
        OutOfMemory, flags, process
<1>5. CASE Stop
    BY <1>1, <1>5, Zenon DEF Stop, StopUnattached, StopBegins, ReleaseHooks,
        ReleaseHooksFails, Detach, DetachFails, ExchangeFails, Uncertain,
        WaitModuleAbsent, WaitModuleAbsentFails, ConfirmTargetGone, flags,
        process
<1> QED BY <1>2, <1>3, <1>4, <1>5 DEF Next

(* What the session itself remembers keeps its type.                       *)
LEMMA SessionLocalsTyped ==
    ASSUME TypeOK, LoopInv, [Next]_vars
    PROVE  /\ windows' \in Snapshots /\ candidate' \in Snapshots
           /\ lastRequest' \in 0..MaxRequest
           /\ pc' \in {"idle"} \cup Reconciling \cup Stopping
           /\ todo' \subseteq Windows /\ now' \in Windows \cup {NoWindow}
<1> DEFINE Locals == /\ windows \in Snapshots /\ candidate \in Snapshots
                     /\ lastRequest \in 0..MaxRequest
                     /\ pc \in {"idle"} \cup Reconciling \cup Stopping
                     /\ todo \subseteq Windows
                     /\ now \in Windows \cup {NoWindow}
<1>1. Locals
    BY DEF TypeOK, Reconciling, Updating, Stopping
<1>2. \A f \in Snapshots : DOMAIN f \subseteq Windows
    BY SnapshotsAre
<1> USE DEF Reconciling, Updating, Stopping, Returns
<1>3. CASE UNCHANGED vars
    BY <1>1, <1>3 DEF vars, locals
<1>4. CASE SomeThreadsEnd \/ ModuleUnloads
    BY <1>1, <1>4 DEF SomeThreadsEnd, ModuleUnloads, locals
<1>5. CASE Reconcile
    BY <1>1, <1>2, <1>5, SessionAssumption, NoneIsSnapshot
    DEF Reconcile, ReconcileBegins, AttachInitial,
        AttachInitialFails, Ensure, EnsureFailed, SendUpdate, SendPaneText,
        UpdatesDone, SendRemoval, SendFails, ExchangeFails, Exchanged,
        Uncertain, Commit, OutOfMemory, locals
<1>6. CASE Stop
    <2>1. CASE StopUnattached \/ StopBegins \/ WaitModuleAbsent
        BY <1>1, <2>1 DEF StopUnattached, StopBegins, WaitModuleAbsent, locals
    <2>2. CASE ReleaseHooks \/ ReleaseHooksFails \/ WaitModuleAbsentFails
               \/ ConfirmTargetGone
        BY <1>1, <2>2, NoneIsSnapshot DEF ReleaseHooks, ReleaseHooksFails,
            WaitModuleAbsentFails, ConfirmTargetGone
    <2>3. CASE Detach
        BY <1>1, <2>3, SessionAssumption DEF Detach, Exchanged
    <2>4. CASE DetachFails
        BY <1>1, <2>4, SessionAssumption, NoneIsSnapshot
        DEF DetachFails, ExchangeFails, Uncertain
    <2> QED BY <1>6, <2>1, <2>2, <2>3, <2>4 DEF Stop
<1> QED BY <1>3, <1>4, <1>5, <1>6 DEF Next

(* The process only ever has what it was sent.                             *)
LEMMA AckedTyped ==
    ASSUME TypeOK, LoopInv, [Next]_vars
    PROVE  acked' \in Snapshots
<1> USE DEF TypeOK
<1>1. CASE UNCHANGED acked
    BY <1>1
<1>2. CASE SendUpdate \/ SendPaneText
    <2>1. now \in DOMAIN candidate
        BY <1>2 DEF SendUpdate, SendPaneText, LoopInv
    <2> QED BY <1>2, <2>1, UpdateDoes, TextDoes DEF SendUpdate, SendPaneText,
            Exchanged
<1>3. CASE SendRemoval
    BY <1>3, RemovalDoes DEF SendRemoval, Exchanged
<1>4. CASE SendFails
    BY <1>4, UpdateDoes, TextDoes, RemovalDoes DEF SendFails, ExchangeFails,
        LoopInv
<1>5. CASE Detach \/ DetachFails
    BY <1>5, NoneIsSnapshot DEF Detach, DetachFails, Exchanged, ExchangeFails
<1>6. [Next]_vars => \/ UNCHANGED acked \/ SendUpdate \/ SendPaneText
                     \/ SendRemoval \/ SendFails \/ Detach \/ DetachFails
    BY DEF Next, vars, process, SomeThreadsEnd, ModuleUnloads,
        Reconcile, ReconcileBegins, AttachInitial,
        AttachInitialFails, Ensure, EnsureFailed,
        UpdatesDone, Commit, OutOfMemory,
        Stop, StopUnattached, StopBegins, ReleaseHooks,
        ReleaseHooksFails, WaitModuleAbsent, WaitModuleAbsentFails,
        ConfirmTargetGone
<1> QED BY <1>1, <1>2, <1>3, <1>4, <1>5, <1>6

(* Every step keeps the types.                                             *)
LEMMA SessionTyped ==
    ASSUME TypeOK, LoopInv, InjectorInvariant, [Next]_vars
    PROVE  TypeOK'
<1>1. InjectorTypeOK'
    BY InjectorKept DEF InjectorInvariant
<1>2. {"idle"} \cup Reconciling \cup Stopping =
          {"idle", "attaching", "updating", "exchanging", "texting",
           "removing", "releasing", "detaching", "awaiting", "confirming"}
    BY DEF Reconciling, Updating, Stopping
<1> QED BY <1>1, <1>2, SessionFlagsTyped, SessionLocalsTyped, AckedTyped, Zenon
        DEF TypeOK

-----------------------------------------------------------------------------
(* Flags, release and loops.                                               *)

(* A new session satisfies the invariant.                                  *)
LEMMA SessionStarts == Init => SessionInvariant
<1> SUFFICES ASSUME Init PROVE SessionInvariant
    OBVIOUS
<1> USE DEF Init
<1>1. InjectorInvariant
    BY InjectorStarts
<1>2. TypeOK
    <2>1. /\ attached \in BOOLEAN /\ uncertain \in BOOLEAN
          /\ stopped \in BOOLEAN /\ releaseComplete \in BOOLEAN
          /\ detachComplete \in BOOLEAN
          /\ module \in BOOLEAN /\ detaching \in BOOLEAN
        BY Zenon
    <2>2. /\ windows \in Snapshots /\ candidate \in Snapshots
          /\ acked \in Snapshots
        BY NoneIsSnapshot
    <2>3. lastRequest \in 0..MaxRequest
        BY SessionAssumption
    <2> QED BY <1>1, <2>1, <2>2, <2>3 DEF TypeOK, InjectorInvariant
<1>3. FlagsInv /\ ReleaseInv /\ LoopInv /\ MirrorInv
    BY DEF InjectorInit, FlagsInv, ReleaseInv, LoopInv, MirrorInv, Updating,
        Reconciling, Stopping
<1> QED BY <1>1, <1>2, <1>3 DEF SessionInvariant

(* An exchange that fails ends the operation, and the session serves no    *)
(* more.                                                                   *)
LEMMA FailureEnds ==
    ASSUME SendFails \/ DetachFails
    PROVE  /\ pc # "idle" /\ pc' = "idle" /\ uncertain'
           /\ UNCHANGED <<attached, stopped, releaseComplete, windows, module,
                          injectorVars>>
BY DEF SendFails, DetachFails, ExchangeFails, Uncertain, Returns

(* Every step keeps what the flags say.                                    *)
LEMMA FlagsKept ==
    ASSUME SessionInvariant, [Next]_vars
    PROVE  FlagsInv'
<1> USE DEF SessionInvariant, FlagsInv, Reconciling, Updating, Stopping, Returns
<1>1. CASE UNCHANGED vars
    BY <1>1 DEF vars, flags, locals, process, injectorVars
<1>2. CASE SomeThreadsEnd \/ ModuleUnloads
    BY <1>2 DEF SomeThreadsEnd, ThreadsEnd, ModuleUnloads, flags, locals,
        process, injectorVars
<1>3. CASE AttachInitial \/ AttachInitialFails \/ Ensure \/ EnsureFailed
    BY <1>3 DEF AttachInitial, AttachSucceeds, AttachInitialFails, Ensure,
        Ensured, EnsureFailed, EnsureFails, Hooks, Uncertain, flags, process,
        injectorVars
<1>4. CASE ReconcileBegins \/ SendUpdate \/ SendPaneText \/ UpdatesDone
           \/ SendRemoval
    BY <1>4 DEF ReconcileBegins, SendUpdate, SendPaneText, UpdatesDone,
        SendRemoval, flags, process, injectorVars
<1>5. CASE SendFails \/ DetachFails
    BY <1>5, FailureEnds DEF injectorVars
<1>6. CASE Commit \/ OutOfMemory
    BY <1>6 DEF Commit, OutOfMemory, flags, process, injectorVars
<1>7. CASE StopUnattached \/ StopBegins \/ WaitModuleAbsent
           \/ WaitModuleAbsentFails \/ Detach
    BY <1>7 DEF StopUnattached, StopBegins, WaitModuleAbsent,
        WaitModuleAbsentFails, Detach, flags, locals, process, injectorVars
<1>8. CASE ReleaseHooks \/ ReleaseHooksFails
    BY <1>8 DEF ReleaseHooks, Released, ReleaseHooksFails, ReleaseFails,
        Unhooks, flags, process, injectorVars
<1>9. CASE ConfirmTargetGone
    BY <1>9 DEF ConfirmTargetGone, Confirmed, Forgotten, process, ReleaseInv,
        InjectorInvariant, EveryHookHeld
<1> QED BY <1>1, <1>2, <1>3, <1>4, <1>5, <1>6, <1>7, <1>8, <1>9
        DEF Next, Reconcile, Stop

(* Every step keeps the order of the release.                              *)
LEMMA ReleaseKept ==
    ASSUME SessionInvariant, [Next]_vars
    PROVE  ReleaseInv'
<1> USE DEF SessionInvariant, FlagsInv, ReleaseInv, Reconciling, Updating,
        Stopping, Returns, InjectorInvariant, InjectorTypeOK,
        SignaledMeansReleased, EveryHookHeld
<1>1. CASE UNCHANGED vars
    BY <1>1 DEF vars, flags, locals, process, injectorVars
<1>2. CASE SomeThreadsEnd \/ ModuleUnloads
    BY <1>2 DEF SomeThreadsEnd, ThreadsEnd, ModuleUnloads, flags, locals,
        process, injectorVars
<1>3. CASE AttachInitial \/ AttachInitialFails \/ Ensure \/ EnsureFailed
    <2>1. CASE AttachInitial
        BY <2>1 DEF AttachInitial, AttachSucceeds
    <2>2. CASE AttachInitialFails
        BY <2>2 DEF AttachInitialFails, Uncertain
    <2>3. CASE Ensure
        BY <2>3 DEF Ensure, Ensured, Hooks, flags, process, injectorVars
    <2>4. CASE EnsureFailed
        <3>1. UNCHANGED injectorVars \/ ~releaseStarted
            BY <2>4 DEF EnsureFailed, EnsureFails
        <3>2. /\ pc' = "idle"
              /\ UNCHANGED <<attached, stopped, releaseComplete, detaching>>
            BY <2>4 DEF EnsureFailed, Uncertain, process
        <3>3. attached
            BY <2>4 DEF EnsureFailed
        <3> QED BY <3>1, <3>2, <3>3 DEF injectorVars
    <2> QED BY <1>3, <2>1, <2>2, <2>3, <2>4
<1>4. CASE ReconcileBegins \/ SendUpdate \/ SendPaneText \/ UpdatesDone
           \/ SendRemoval
    BY <1>4 DEF ReconcileBegins, SendUpdate, SendPaneText, UpdatesDone,
        SendRemoval, flags, process, injectorVars
<1>5. CASE SendFails \/ DetachFails
    <2>1. detaching' => detaching \/ pc = "detaching"
        BY <1>5 DEF SendFails, DetachFails
    <2> QED BY <1>5, <2>1, FailureEnds DEF injectorVars
<1>6. CASE Commit \/ OutOfMemory
    BY <1>6 DEF Commit, OutOfMemory, flags, process, injectorVars
<1>7. CASE StopUnattached \/ StopBegins \/ WaitModuleAbsent
           \/ WaitModuleAbsentFails \/ Detach
    BY <1>7 DEF StopUnattached, StopBegins, WaitModuleAbsent,
        WaitModuleAbsentFails, Detach, flags, locals, process, injectorVars
<1>8. CASE ReleaseHooks \/ ReleaseHooksFails
    BY <1>8 DEF ReleaseHooks, Released, ReleaseHooksFails, ReleaseFails,
        Unhooks, flags, process, injectorVars
<1>9. CASE ConfirmTargetGone
    BY <1>9 DEF ConfirmTargetGone, Confirmed, Forgotten, process
<1> QED BY <1>1, <1>2, <1>3, <1>4, <1>5, <1>6, <1>7, <1>8, <1>9
        DEF Next, Reconcile, Stop

(* Every step keeps the place of the loops.                                *)
LEMMA LoopKept ==
    ASSUME SessionInvariant, [Next]_vars
    PROVE  LoopInv'
<1> USE DEF SessionInvariant, LoopInv, Reconciling, Updating, Returns
<1>1. CASE UNCHANGED vars
    BY <1>1 DEF vars, locals
<1>2. CASE SomeThreadsEnd \/ ModuleUnloads
    BY <1>2 DEF SomeThreadsEnd, ModuleUnloads, locals
<1>3. CASE AttachInitial \/ AttachInitialFails \/ Ensure \/ EnsureFailed
    BY <1>3 DEF AttachInitial, AttachInitialFails, Ensure,
        EnsureFailed, Uncertain, flags, process
<1>4. CASE ReconcileBegins
    BY <1>4, SnapshotsAre DEF ReconcileBegins
<1>5. CASE SendUpdate \/ SendPaneText \/ UpdatesDone \/ SendRemoval
    BY <1>5 DEF SendUpdate, SendPaneText, UpdatesDone, SendRemoval
<1>6. CASE SendFails \/ DetachFails
    BY <1>6 DEF SendFails, DetachFails, ExchangeFails, Uncertain
<1>7. CASE Commit \/ OutOfMemory
    BY <1>7 DEF Commit, OutOfMemory
<1>8. CASE Stop /\ ~DetachFails
    BY <1>8 DEF Stop, StopUnattached, StopBegins, WaitModuleAbsent,
        WaitModuleAbsentFails, Detach, ReleaseHooks, ReleaseHooksFails,
        ConfirmTargetGone, locals
<1> QED BY <1>1, <1>2, <1>3, <1>4, <1>5, <1>6, <1>7, <1>8
        DEF Next, Reconcile, Stop

-----------------------------------------------------------------------------
(* What the session believes of its process.                               *)

(* A window that was updated without a new text shows the right one: an    *)
(* equal text means that the generation is equal, and the process has kept *)
(* the text it had.                                                        *)
LEMMA UpdateMirrored ==
    ASSUME SessionInvariant, SendUpdate,
           attached, ~uncertain, ~releaseStarted
    PROVE  MirrorInv'
<1> USE DEF SessionInvariant, Updating
<1>0. PICK win \in DOMAIN candidate : win = now
    BY DEF SendUpdate, LoopInv
<1>1. /\ pc = "exchanging" /\ now = win /\ win \in DOMAIN candidate \ todo
      /\ acked' = AfterUpdate(win)
      /\ UNCHANGED <<windows, candidate, todo>>
    BY <1>0 DEF SendUpdate, Exchanged, LoopInv
<1>2. win \notin Reached /\ Reached = DOMAIN candidate \ (todo \cup {win})
    BY <1>1 DEF Reached
<1>3. /\ DOMAIN acked = DOMAIN windows \cup Reached
      /\ \A w \in Reached : Agrees(w, candidate[w])
      /\ \A w \in DOMAIN windows \ Reached : Agrees(w, windows[w])
    BY <1>1 DEF MirrorInv
<1>4. /\ DOMAIN acked' = DOMAIN acked \cup {win}
      /\ \A v \in DOMAIN acked \ {win} : acked'[v] = acked[v]
      /\ acked'[win].gen = candidate[win].gen
      /\ acked'[win].thread = candidate[win].thread
      /\ win \in DOMAIN acked /\ acked[win].gen = candidate[win].gen =>
             acked'[win].text = acked[win].text
    BY <1>1, UpdateDoes DEF TypeOK
<1>5. /\ \A w \in Reached : Agrees(w, candidate[w])'
      /\ \A w \in DOMAIN windows \ (Reached \cup {win}) : Agrees(w, windows[w])'
    BY <1>1, <1>2, <1>3, <1>4 DEF Agrees, Placed
<1>6. Placed(win, candidate[win])'
    BY <1>1, <1>4 DEF Placed
<1>7. CASE candidate[win].text # NoTab /\ PaneChanged(win)
    <2>1. pc' = "texting" /\ now' = win
        BY <1>1, <1>7 DEF SendUpdate
    <2>2. Reached' = Reached
        BY <1>1, <1>2, <2>1 DEF Reached
    <2> QED BY <1>1, <1>3, <1>4, <1>5, <1>6, <2>1, <2>2 DEF MirrorInv
<1>8. CASE ~(candidate[win].text # NoTab /\ PaneChanged(win))
    <2>1. pc' = "updating"
        BY <1>1, <1>8 DEF SendUpdate
    <2>2. Reached' = Reached \cup {win}
        BY <1>1, <1>2, <2>1 DEF Reached
    <2>3. candidate[win].text \in {NoTab, acked'[win].text}
        <3>1. SUFFICES ASSUME candidate[win].text # NoTab
                       PROVE  candidate[win].text = acked'[win].text
            OBVIOUS
        <3>2. /\ win \in DOMAIN windows
              /\ windows[win].text = candidate[win].text
            BY <1>8, <3>1 DEF PaneChanged
        <3>3. candidate[win].gen = windows[win].gen
            BY <1>1, <3>2 DEF LoopInv, Reconciling
        <3>4. Agrees(win, windows[win])
            BY <1>2, <1>3, <3>2
        <3> QED BY <1>4, <3>1, <3>2, <3>3, <3>4 DEF Agrees, Placed
    <2>4. Agrees(win, candidate[win])'
        BY <1>1, <1>4, <1>6, <2>3 DEF Agrees, Placed
    <2>5. \A w \in Reached' : Agrees(w, candidate[w])'
        BY <1>5, <2>2, <2>4
    <2> QED BY <1>1, <1>3, <1>4, <1>5, <2>1, <2>2, <2>5 DEF MirrorInv
<1> QED BY <1>7, <1>8

(* A window whose text was sent has been brought to the candidate.         *)
LEMMA TextMirrored ==
    ASSUME SessionInvariant, SendPaneText,
           attached, ~uncertain, ~releaseStarted
    PROVE  MirrorInv'
<1> USE DEF SessionInvariant, Updating
<1>0. PICK win \in DOMAIN candidate : win = now
    BY DEF SendPaneText, LoopInv
<1>1. /\ pc = "texting" /\ now = win /\ win \in DOMAIN candidate \ todo
      /\ acked' = AfterText(win) /\ pc' = "updating"
      /\ UNCHANGED <<windows, candidate, todo>>
    BY <1>0 DEF SendPaneText, Exchanged, LoopInv
<1>2. Reached' = Reached \cup {win}
    BY <1>1 DEF Reached
<1>3. /\ DOMAIN acked = DOMAIN windows \cup Reached \cup {win}
      /\ \A w \in Reached : Agrees(w, candidate[w])
      /\ \A w \in DOMAIN windows \ (Reached \cup {win}) : Agrees(w, windows[w])
      /\ Placed(win, candidate[win])
    BY <1>1 DEF MirrorInv
<1>4. /\ DOMAIN acked' = DOMAIN acked
      /\ \A v \in DOMAIN acked \ {win} : acked'[v] = acked[v]
      /\ acked'[win].gen = acked[win].gen
      /\ acked'[win].thread = acked[win].thread
      /\ acked'[win].text = candidate[win].text
    BY <1>1, <1>3, TextDoes DEF TypeOK
<1>5. Agrees(win, candidate[win])'
    BY <1>1, <1>3, <1>4 DEF Agrees, Placed
<1>6. \A w \in Reached' : Agrees(w, candidate[w])'
    BY <1>1, <1>2, <1>3, <1>4, <1>5 DEF Agrees, Placed
<1>7. \A w \in DOMAIN windows \ Reached' : Agrees(w, windows[w])'
    BY <1>1, <1>2, <1>3, <1>4 DEF Agrees, Placed
<1> QED BY <1>1, <1>2, <1>3, <1>4, <1>6, <1>7 DEF MirrorInv

(* A removal takes a window that the candidate does not have.              *)
LEMMA RemovalMirrored ==
    ASSUME SessionInvariant, SendRemoval,
           attached, ~uncertain, ~releaseStarted
    PROVE  MirrorInv'
<1>1. PICK v \in todo : acked' = AfterRemoval(v) /\ todo' = todo \ {v}
    BY DEF SendRemoval, Exchanged
<1>2. /\ pc = "removing" /\ UNCHANGED <<pc, candidate>>
      /\ v \notin DOMAIN candidate
    BY DEF SendRemoval, SessionInvariant, LoopInv
<1>3. /\ DOMAIN acked' = DOMAIN acked \ {v}
      /\ \A w \in DOMAIN acked \ {v} : acked'[w] = acked[w]
    BY <1>1, RemovalDoes DEF SessionInvariant, TypeOK
<1>4. /\ DOMAIN acked = DOMAIN candidate \cup todo
      /\ \A w \in DOMAIN candidate : Agrees(w, candidate[w])
    BY <1>2 DEF SessionInvariant, MirrorInv
<1>5. \A w \in DOMAIN candidate : Agrees(w, candidate[w])'
    BY <1>2, <1>3, <1>4 DEF Agrees, Placed
<1> QED BY <1>1, <1>2, <1>3, <1>4, <1>5 DEF MirrorInv, Updating

(* Every step keeps the session and its process in agreement.              *)
LEMMA MirrorKept ==
    ASSUME SessionInvariant, [Next]_vars
    PROVE  MirrorInv'
<1> SUFFICES ASSUME attached', ~uncertain', ~releaseStarted'
             PROVE  MirrorInv'
    BY Zenon DEF MirrorInv
<1> USE DEF SessionInvariant, FlagsInv, Updating, Stopping, Reconciling, Returns
<1> DEFINE Serves == attached /\ ~uncertain /\ ~releaseStarted
<1>1. CASE UNCHANGED <<flags, windows, locals, acked, releaseStarted>>
    BY <1>1 DEF MirrorInv, Reached, Agrees, Placed, flags, locals
<1>2. CASE SomeThreadsEnd \/ ModuleUnloads \/ UNCHANGED vars
    BY <1>1, <1>2 DEF SomeThreadsEnd, ThreadsEnd, ModuleUnloads, vars, process,
        injectorVars
<1>3. CASE ReconcileBegins
    <2>1. Serves /\ pc = "idle" /\ pc' = "updating" /\ Reached' = {}
          /\ UNCHANGED <<windows, acked>>
        BY <1>3 DEF ReconcileBegins, Reached, flags, process, injectorVars
    <2> QED BY <2>1 DEF MirrorInv, Agrees, Placed
<1>4. CASE AttachInitial
    <2>1. windows' = None /\ acked' = None /\ pc' = "updating"
        BY <1>4 DEF AttachInitial
    <2>2. Reached' = {}
        BY <1>4, <2>1 DEF AttachInitial, Reached, LoopInv
    <2> QED BY <2>1, <2>2, NoneIsSnapshot DEF MirrorInv
<1>5. CASE Ensure
    <2>1. /\ Serves /\ pc = "updating" /\ pc' = "exchanging"
          /\ UNCHANGED <<windows, acked, candidate>>
        BY <1>5 DEF Ensure, Ensured, flags, process
    <2>2. Reached' = Reached
        BY <1>5 DEF Ensure, Reached
    <2> QED BY <2>1, <2>2 DEF MirrorInv, Agrees, Placed
<1>6. CASE SendUpdate \/ SendPaneText \/ SendRemoval
    <2>1. UNCHANGED <<attached, uncertain, releaseStarted>>
        BY <1>6 DEF SendUpdate, SendPaneText, SendRemoval, flags, injectorVars
    <2> QED BY <1>6, <2>1, UpdateMirrored, TextMirrored, RemovalMirrored
<1>7. CASE UpdatesDone
    <2>1. /\ Serves /\ pc = "updating" /\ pc' = "removing" /\ todo = {}
          /\ todo' = DOMAIN windows \ DOMAIN candidate
          /\ UNCHANGED <<windows, acked, candidate>>
        BY <1>7 DEF UpdatesDone, flags, process, injectorVars
    <2>2. Reached = DOMAIN candidate
        BY <2>1 DEF Reached
    <2> QED BY <2>1, <2>2 DEF MirrorInv, Agrees, Placed
<1>8. CASE Commit
    <2>1. /\ Serves /\ pc = "removing" /\ todo = {} /\ windows' = candidate
          /\ pc' = "idle" /\ UNCHANGED acked
        BY <1>8 DEF Commit, flags, process, injectorVars
    <2> QED BY <2>1 DEF MirrorInv, Agrees, Placed
<1>9. CASE StopBegins
    <2>1. /\ Serves /\ pc = "idle"
          /\ pc' \in {"releasing", "detaching", "awaiting"}
          /\ UNCHANGED <<windows, acked>>
        BY <1>9 DEF StopBegins, flags, process, injectorVars
    <2> QED BY <2>1 DEF MirrorInv, Agrees, Placed
<1>10. ~(AttachInitialFails \/ EnsureFailed \/ SendFails \/ DetachFails
         \/ OutOfMemory)
    <2>1. ~(AttachInitialFails \/ EnsureFailed)
        BY DEF AttachInitialFails, EnsureFailed, Uncertain
    <2>2. ~OutOfMemory
        <3>1. OutOfMemory => uncertain' = attached'
            BY DEF OutOfMemory
        <3> QED BY <3>1, Zenon
    <2> QED BY <2>1, <2>2, FailureEnds
<1>11. ~(StopUnattached \/ ReleaseHooks \/ ReleaseHooksFails \/ ConfirmTargetGone)
    BY DEF StopUnattached, ReleaseHooks, Released, ReleaseHooksFails,
        ReleaseFails, Unhooks, ConfirmTargetGone, injectorVars
<1>12. ~(Detach \/ WaitModuleAbsent \/ WaitModuleAbsentFails)
    <2>1. pc \in {"detaching", "awaiting"} => releaseStarted
        BY DEF ReleaseInv, InjectorInvariant, SignaledMeansReleased
    <2>2. Detach \/ WaitModuleAbsent \/ WaitModuleAbsentFails =>
              pc \in {"detaching", "awaiting"} /\ UNCHANGED releaseStarted
        BY DEF Detach, WaitModuleAbsent, WaitModuleAbsentFails, injectorVars
    <2> QED BY <2>1, <2>2, Zenon
<1> QED BY <1>2, <1>3, <1>4, <1>5, <1>6, <1>7, <1>8, <1>9, <1>10, <1>11, <1>12
        DEF Next, Reconcile, Stop

(* The invariant holds of every reachable state.                           *)
THEOREM SessionInvariantHolds == Spec => []SessionInvariant
<1>1. SessionInvariant /\ [Next]_vars => SessionInvariant'
    <2> SUFFICES ASSUME SessionInvariant, [Next]_vars
                 PROVE  SessionInvariant'
        OBVIOUS
    <2>1. TypeOK' /\ InjectorInvariant'
        BY SessionTyped, InjectorKept DEF SessionInvariant
    <2>2. FlagsInv' /\ ReleaseInv' /\ LoopInv' /\ MirrorInv'
        BY FlagsKept, ReleaseKept, LoopKept, MirrorKept
    <2> QED BY <2>1, <2>2, Zenon DEF SessionInvariant
<1> QED BY SessionStarts, <1>1, PTL DEF Spec

-----------------------------------------------------------------------------
(* Every variable of the session has its type.                             *)
THEOREM SessionTypesHold == Spec => []TypeOK
BY SessionInvariantHolds, PTL DEF SessionInvariant

(* Between two calls a session that serves knows what its process has: no  *)
(* interleaving of the exchanges, of the threads that end and of the       *)
(* windows that come and go lets a text or a generation be missed.         *)
THEOREM MirrorStaysExact == Spec => []MirrorExact
<1>1. SessionInvariant => MirrorExact
    BY DEF SessionInvariant, MirrorInv, MirrorExact, Serving, Agrees, Placed
<1> QED BY SessionInvariantHolds, <1>1, PTL

(* The injector keeps its promises when it is used by a session: a hook in *)
(* a live thread can still be taken off,                                   *)
THEOREM SessionLosesNoHook == Spec => []EveryHookHeld
<1>1. SessionInvariant => EveryHookHeld
    BY DEF SessionInvariant, InjectorInvariant
<1> QED BY SessionInvariantHolds, <1>1, PTL

(* the event that lets the DLL go is set only when no hook is left,        *)
THEOREM SessionSignalIsTruthful == Spec => []SignaledMeansUnhooked
<1>1. SessionInvariant => SignaledMeansUnhooked
    BY DEF SessionInvariant, InjectorInvariant, SignaledMeansReleased,
        EveryHookHeld, SignaledMeansUnhooked
<1> QED BY SessionInvariantHolds, <1>1, PTL

(* and a process that is being released gets no new hook, whatever its     *)
(* session is asked to do.                                                 *)
THEOREM SessionReleaseIsFinal == Spec => NoHookAfterRelease
<1>1. SessionInvariant /\ [Next]_vars
      => [releaseStarted /\ retained' => hooked' \subseteq hooked]_injectorVars
    <2> SUFFICES ASSUME SessionInvariant, [Next]_vars, releaseStarted, retained'
                 PROVE  hooked' \subseteq hooked
        OBVIOUS
    <2>1. CASE UNCHANGED injectorVars
        BY <2>1 DEF injectorVars
    <2>2. ASSUME NEW threads \in SUBSET UiThreads, ThreadsEnd(threads)
          PROVE  hooked' \subseteq hooked
        BY <2>2 DEF ThreadsEnd
    <2>3. CASE InjectorNext
        BY <2>3, InjectorReleases DEF SessionInvariant
    <2> QED BY <2>1, <2>2, <2>3, SessionInjects DEF SessionInvariant
<1> QED BY SessionInvariantHolds, <1>1, PTL DEF Spec, NoHookAfterRelease

-----------------------------------------------------------------------------
(* An exchange can only be a removal once the hooks are being released: an *)
(* update would have found its hook refused.                               *)
LEMMA OnlyRemovals ==
    ASSUME SessionInvariant, [Next]_vars, releaseStarted
    PROVE  \A w \in DOMAIN acked' : w \in DOMAIN acked /\ acked'[w] = acked[w]
<1> USE DEF SessionInvariant, TypeOK, ReleaseInv
<1>1. CASE UNCHANGED acked
    BY <1>1
<1>2. ~(SendUpdate \/ SendPaneText)
    BY DEF SendUpdate, SendPaneText
<1>3. CASE SendRemoval
    BY <1>3, RemovalDoes DEF SendRemoval, Exchanged
<1>4. CASE SendFails
    BY <1>1, <1>4, RemovalDoes DEF SendFails, ExchangeFails
<1>5. CASE Detach \/ DetachFails
    BY <1>1, <1>5, NoneIsSnapshot DEF Detach, DetachFails, Exchanged,
        ExchangeFails
<1>6. [Next]_vars => \/ UNCHANGED acked \/ SendUpdate \/ SendPaneText
                     \/ SendRemoval \/ SendFails \/ Detach \/ DetachFails
    BY DEF Next, vars, process, SomeThreadsEnd, ModuleUnloads,
        Reconcile, ReconcileBegins, AttachInitial,
        AttachInitialFails, Ensure, EnsureFailed,
        UpdatesDone, Commit, OutOfMemory,
        Stop, StopUnattached, StopBegins, ReleaseHooks,
        ReleaseHooksFails, WaitModuleAbsent, WaitModuleAbsentFails,
        ConfirmTargetGone
<1> QED BY <1>1, <1>2, <1>3, <1>4, <1>5, <1>6

(* Release, then detach, then confirm: in this order whatever fails and    *)
(* however often Stop is called.                                           *)
THEOREM SessionReleasesInOrder == Spec => ReleaseOrder
<1> DEFINE Ordered ==
        /\ releaseStarted /\ ~stopped =>
              \A w \in DOMAIN acked' : w \in DOMAIN acked /\ acked'[w] = acked[w]
        /\ detaching' => /\ hooked' = {}
                         /\ ~stopped' => retained' /\ held' = {} /\ signaled'
<1>1. SessionInvariant /\ SessionInvariant' /\ [Next]_vars => [Ordered]_vars
    BY OnlyRemovals DEF SessionInvariant, FlagsInv, ReleaseInv
<1> QED BY SessionInvariantHolds, <1>1, PTL DEF Spec, ReleaseOrder

-----------------------------------------------------------------------------
(* How a session goes on, as its owner sees it.                            *)
LEMMA SessionProgresses ==
    ASSUME SessionInvariant, [Next]_vars
    PROVE  /\ stopped => stopped'
           /\ uncertain => uncertain'
           /\ attached => attached' \/ stopped'
           /\ stopped' /\ ~stopped =>
                 ~uncertain /\ hooked = {} /\ ~module
<1> USE DEF SessionInvariant, FlagsInv, ReleaseInv, Returns
<1>1. CASE UNCHANGED flags
    BY <1>1 DEF flags
<1>2. CASE AttachInitial \/ AttachInitialFails \/ EnsureFailed \/ OutOfMemory
    BY <1>2 DEF AttachInitial, AttachInitialFails, EnsureFailed, OutOfMemory,
        Uncertain
<1>3. CASE SendFails \/ DetachFails
    BY <1>3, FailureEnds
<1>4. CASE StopUnattached
    BY <1>4 DEF StopUnattached
<1>5. CASE ReleaseHooks \/ Detach
    BY <1>5 DEF ReleaseHooks, Detach
<1>6. CASE ConfirmTargetGone
    BY <1>6 DEF ConfirmTargetGone, Confirmed, InjectorInvariant, EveryHookHeld
<1>7. [Next]_vars => \/ UNCHANGED flags \/ AttachInitial \/ AttachInitialFails
                     \/ EnsureFailed \/ OutOfMemory \/ SendFails \/ DetachFails
                     \/ StopUnattached \/ ReleaseHooks \/ Detach
                     \/ ConfirmTargetGone
    BY DEF Next, vars, SomeThreadsEnd, ModuleUnloads, Reconcile,
        ReconcileBegins, Ensure, SendUpdate, SendPaneText, UpdatesDone,
        SendRemoval, Commit, Stop, StopBegins, ReleaseHooksFails,
        WaitModuleAbsent, WaitModuleAbsentFails
<1> QED BY <1>1, <1>2, <1>3, <1>4, <1>5, <1>6, <1>7

(* The session keeps the contract that its owner relies on: it is fresh as *)
(* long as it has touched nothing, it is lost for good once it is, and it  *)
(* has stopped only when neither hook nor module of ours is left.          *)
THEOREM SessionKeepsContract == Spec => ImplementsContract
<1>1. Init => Contract!ContractInit
    BY DEF Init, InjectorInit, Contract!ContractInit, phaseBar, residueBar
<1>2. SessionInvariant /\ SessionInvariant' /\ [Next]_vars
      => [Contract!ContractNext]_(Contract!contractVars)
    <2> SUFFICES ASSUME SessionInvariant, SessionInvariant', [Next]_vars
                 PROVE  \/ Contract!ContractNext
                        \/ UNCHANGED <<phaseBar, residueBar>>
        BY DEF Contract!contractVars
    <2>1. residueBar \in BOOLEAN /\ residueBar' \in BOOLEAN
        BY Zenon DEF residueBar
    <2>2. /\ stopped => stopped'
          /\ uncertain => uncertain'
          /\ attached => attached' \/ stopped'
          /\ stopped' /\ ~stopped => ~uncertain /\ hooked = {} /\ ~module
        BY SessionProgresses
    <2>3. /\ phaseBar \in {"stopped", "fresh"} => ~residueBar
          /\ phaseBar' \in {"stopped", "fresh"} => ~residueBar'
        BY DEF SessionInvariant, FlagsInv, phaseBar, residueBar
    <2>4. CASE phaseBar = "stopped"
        <3>1. phaseBar' = "stopped"
            BY <2>2, <2>4 DEF phaseBar
        <3>2. residueBar = residueBar'
            BY <2>1, <2>3, <2>4, <3>1
        <3> QED BY <2>4, <3>1, <3>2
    <2>5. CASE phaseBar = "fresh"
        <3>1. CASE phaseBar' \in {"fresh", "stopped"}
            <4>1. residueBar = residueBar'
                BY <2>1, <2>3, <2>5, <3>1
            <4> QED BY <2>5, <3>1, <4>1 DEF Contract!ContractNext,
                    Contract!Stops
        <3>2. CASE phaseBar' \in {"live", "lost"}
            BY <2>1, <2>5, <3>2 DEF Contract!ContractNext, Contract!Attaches,
                Contract!Loses
        <3>3. phaseBar' \in {"fresh", "stopped", "live", "lost"}
            BY DEF phaseBar
        <3> QED BY <3>1, <3>2, <3>3
    <2>6. CASE phaseBar = "live"
        <3>1. CASE phaseBar' = "stopped"
            <4>1. stopped' /\ ~stopped
                BY <2>6, <3>1 DEF phaseBar
            <4>2. ~residueBar
                BY <2>2, <4>1 DEF residueBar
            <4>3. residueBar = residueBar'
                BY <2>1, <2>3, <3>1, <4>2
            <4> QED BY <2>6, <3>1, <4>2, <4>3 DEF Contract!ContractNext,
                    Contract!Stops
        <3>2. CASE phaseBar' \in {"live", "lost"}
            BY <2>1, <2>6, <3>2 DEF Contract!ContractNext, Contract!Works,
                Contract!Loses
        <3>3. phaseBar' \in {"stopped", "live", "lost"}
            BY <2>2, <2>6 DEF phaseBar
        <3> QED BY <3>1, <3>2, <3>3
    <2>7. CASE phaseBar = "lost"
        <3>1. phaseBar' = "lost"
            BY <2>2, <2>7 DEF phaseBar
        <3> QED BY <2>1, <2>7, <3>1 DEF Contract!ContractNext, Contract!Works
    <2>8. phaseBar \in {"fresh", "stopped", "live", "lost"}
        BY DEF phaseBar
    <2> QED BY <2>4, <2>5, <2>6, <2>7, <2>8
<1> QED BY SessionInvariantHolds, <1>1, <1>2, PTL
        DEF Spec, ImplementsContract, Contract!ContractSpec

=============================================================================
