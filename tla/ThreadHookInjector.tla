--------------------------- MODULE ThreadHookInjector ---------------------------
(***************************************************************************)
(* The Host's side of the injection into one Explorer process: the hooks   *)
(* it has set on the threads of the process, the entry of retained_targets_*)
(* that remembers them, and the HookReleased event that allows the DLL to  *)
(* unload itself. Callers use the operations in any order.                 *)
(***************************************************************************)
EXTENDS Naturals, FiniteSets

CONSTANTS
    UiThreads,  \* the threads of the process that own windows
    MaxLeases   \* kMaximumThreadHookLeases

ASSUME MaxLeasesAssumption == MaxLeases \in Nat \ {0}

VARIABLES
    hooked,         \* threads with a hook of ours: what Windows knows
    ended,          \* threads that are gone, and their hooks with them
    retained,       \* the process has an entry in retained_targets_
    leases,         \* threads with an entry in its leases
    held,           \* those whose lease holds a hook handle
    releaseStarted, \* release_started
    signaled        \* release_event_signaled

injectorVars == <<hooked, ended, retained, leases, held, releaseStarted,
                  signaled>>

InjectorInit ==
    /\ hooked = {} /\ ended = {}
    /\ retained = FALSE /\ leases = {} /\ held = {}
    /\ releaseStarted = FALSE /\ signaled = FALSE

(* The entry is erased, with all that it knows.                            *)
Forgotten ==
    /\ retained' = FALSE
    /\ leases' = {} /\ held' = {}
    /\ releaseStarted' = FALSE /\ signaled' = FALSE
    /\ UNCHANGED <<hooked, ended>>

(* set_hook gave a hook for the thread, and the lease keeps it.            *)
Hooks(t) ==
    /\ t \notin ended /\ UNCHANGED ended
    /\ hooked' = hooked \cup {t}
    /\ leases' = leases \cup {t} /\ held' = held \cup {t}

-----------------------------------------------------------------------------
(* The window of a thread is closed and the thread ends, or the process    *)
(* dies. Nothing tells the Host, whose lease keeps a dead handle.          *)
ThreadsEnd(threads) ==
    /\ ended' = ended \cup threads
    /\ hooked' = hooked \ threads
    /\ UNCHANGED <<retained, leases, held, releaseStarted, signaled>>

-----------------------------------------------------------------------------
(* Attach, for the first window of the process.                            *)

AttachSucceeds(t) ==
    /\ ~retained
    /\ retained' = TRUE
    /\ Hooks(t)
    /\ UNCHANGED <<releaseStarted, signaled>>

(* Everything before the hook is set, or a trigger that failed and whose   *)
(* hook and event were taken back: the reservation is erased.              *)
AttachRefused(t) == UNCHANGED injectorVars

(* Mutant: the reservation is erased although its hook is still in.        *)
AttachDropsHook(t) ==
    /\ ~retained /\ t \notin ended
    /\ hooked' = hooked \cup {t}
    /\ UNCHANGED <<ended, retained, leases, held, releaseStarted, signaled>>

(* set_hook failed but gave a hook, or the hook would not come off.        *)
AttachKeepsHook(t) ==
    /\ ~retained
    /\ retained' = TRUE
    /\ Hooks(t)
    /\ releaseStarted' = TRUE
    /\ UNCHANGED signaled

(* No attach result in time: the hook is off, and the entry stays for a    *)
(* callback that may be late. The event may have failed to be set.         *)
AttachGivesUp(t) ==
    /\ ~retained
    /\ retained' = TRUE
    /\ leases' = {t}
    /\ releaseStarted' = TRUE
    /\ signaled' \in BOOLEAN
    /\ UNCHANGED <<hooked, ended, held>>

AttachFails(t) == AttachRefused(t) \/ AttachKeepsHook(t) \/ AttachGivesUp(t)

-----------------------------------------------------------------------------
(* EnsureThreadHookLease, for every window of every update.                *)

(* Mutant: a thread is hooked after the release began.                     *)
EnsuredWhileReleasing(t) ==
    /\ retained
    /\ IF t \in leases
       THEN UNCHANGED injectorVars
       ELSE /\ Cardinality(leases) < MaxLeases
            /\ Hooks(t)
            /\ UNCHANGED <<retained, releaseStarted, signaled>>

Ensured(t) ==
    /\ retained /\ ~releaseStarted
    /\ IF t \in leases
       THEN UNCHANGED injectorVars
       ELSE /\ Cardinality(leases) < MaxLeases
            /\ Hooks(t)
            /\ UNCHANGED <<retained, releaseStarted, signaled>>

(* No entry, released, full, the window is not what it was, or the hook    *)
(* cannot be set; a hook that came with an error is kept.                  *)
EnsureFails(t) ==
    \/ UNCHANGED injectorVars
    \/ /\ retained /\ ~releaseStarted
       /\ t \notin leases /\ Cardinality(leases) < MaxLeases
       /\ Hooks(t)
       /\ releaseStarted' = TRUE
       /\ UNCHANGED <<retained, signaled>>

-----------------------------------------------------------------------------
(* ReleaseHookForDetach: every hook is tried, last first, and the event is *)
(* set when none is left. The handle of an ended thread may or may not     *)
(* pass for unhooked.                                                      *)
Unhooks(kept) ==
    /\ retained
    /\ releaseStarted' = TRUE
    /\ held' = kept
    /\ hooked' = hooked \ (held \ kept)
    /\ UNCHANGED <<ended, retained, leases>>

Released == Unhooks({}) /\ signaled' = TRUE

(* Mutant: the event is set although hooks remain.                         *)
ReleaseFailsSignaling ==
    \/ ~retained /\ UNCHANGED injectorVars
    \/ \E kept \in SUBSET held : Unhooks(kept) /\ signaled' = TRUE

(* No entry; or a hook would not come off; or the event would not be set,  *)
(* which is tried once more by the next call.                              *)
ReleaseFails ==
    \/ ~retained /\ UNCHANGED injectorVars
    \/ \E kept \in SUBSET held :
          /\ kept # {} \/ ~signaled
          /\ Unhooks(kept) /\ UNCHANGED signaled

(* ConfirmTargetGone.                                                      *)
Confirmed == retained /\ held = {} /\ signaled /\ Forgotten

ConfirmFails ==
    /\ ~retained \/ held # {} \/ ~signaled
    /\ UNCHANGED injectorVars

-----------------------------------------------------------------------------
InjectorNext ==
    \/ \E t \in UiThreads : AttachSucceeds(t) \/ AttachFails(t)
                            \/ Ensured(t) \/ EnsureFails(t)
                            \/ ThreadsEnd({t})
    \/ Released \/ ReleaseFails \/ Confirmed \/ ConfirmFails

InjectorSpec == InjectorInit /\ [][InjectorNext]_injectorVars

-----------------------------------------------------------------------------
(* Every variable has its type.                                            *)
InjectorTypeOK ==
    /\ retained \in BOOLEAN /\ releaseStarted \in BOOLEAN
    /\ signaled \in BOOLEAN
    /\ hooked \subseteq UiThreads /\ ended \subseteq UiThreads
    /\ leases \subseteq UiThreads /\ held \subseteq leases

(* Every hook that Windows has of ours is in a lease, so that it can still *)
(* be taken off: no failure of a call and no order of calls loses one.     *)
EveryHookHeld == hooked = held \ ended

(* "signals HookReleased only after all exact unhooks succeed": when the   *)
(* DLL may unload, no thread of the process runs its hook procedure, and   *)
(* every later call of the Host has to leave it so.                        *)
SignaledMeansUnhooked == signaled => hooked = {} /\ releaseStarted

(* A process whose release has begun gets no new hook until its module has *)
(* been seen gone.                                                         *)
NoHookAfterRelease ==
    [][releaseStarted /\ retained' => hooked' \subseteq hooked]_injectorVars
=============================================================================
