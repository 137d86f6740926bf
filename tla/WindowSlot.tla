------------------------------ MODULE WindowSlot ------------------------------
(***************************************************************************)
(* One of the 64 stable slots of ProcessRuntime and the two rundown gates  *)
(* (HookCallbackGate) that protect its tenant, a WindowRuntime. Threads    *)
(* that run hook callbacks take leases without a lock: they read an epoch, *)
(* enter the gate and read the epoch again. The owner, which is the UI     *)
(* thread in a control message or the pipe worker between two of them,     *)
(* creates, retires, cleans and reaps tenants.                             *)
(*                                                                         *)
(* One action is one atomic operation of the lock-free protocol.           *)
(***************************************************************************)
EXTENDS Integers, FiniteSets

CONSTANTS
    Threads,        \* the threads that run window callbacks
    Ui,             \* the one that owns the slot's windows
    Limit,          \* a gate counts modulo Limit (2^63 in the code)
    MaxEpoch        \* bound: tenants created in a behaviour

ASSUME ThreadsAssumption ==
    /\ IsFiniteSet(Threads) /\ Ui \in Threads
    /\ Limit \in Nat /\ Cardinality(Threads) < Limit
ASSUME MaxEpochAssumption == MaxEpoch \in Nat

VARIABLES
    admission,  \* admission_epoch_ of the slot
    storage,    \* storage_epoch_ of the slot
    nextEpoch,  \* next_admission_epoch_
    callbacks,  \* the callback gate's rundown_ word
    stored,     \* the storage gate's rundown_ word
    lifecycle,  \* of the WindowRuntime: see the names below
    occupied,   \* occupied_ of the slot
    removed,    \* removed_ of the slot
    count,      \* what the slot adds to active_count_
    retention,  \* retention_required_
    stopping,   \* RuntimeWorker has left its request loop
    tenant,     \* the epoch of the resources in the slot, 0 for none
    agent,      \* who runs the owner's operation, "ui" or "worker"
    opc,        \* location of the owner
    decrement,  \* its local: whether it has to count the window out
    rpc,        \* location of each thread in its lease
    kind,       \* the lease each thread takes, "callback" or "storage"
    seen,       \* the epoch each thread read first
    leased,     \* the tenant each thread found when its lease was granted
    partial     \* history: a creation failed after its slot was occupied

epochs == <<admission, storage, nextEpoch>>
gates == <<callbacks, stored>>
slot == <<occupied, removed, tenant>>
owner == <<stopping, agent, opc, decrement>>
lease == <<rpc, kind, seen, leased>>
vars == <<admission, storage, nextEpoch, callbacks, stored, lifecycle,
          occupied, removed, count, retention, stopping, tenant, agent, opc,
          decrement, rpc, kind,
          seen, leased, partial>>

Active == 0
Cleaning == 1
Cleaned == 2
Failed == 3
DestroyRequested == 4

Kinds == {"callback", "storage"}
LeaseLocations == {"idle", "loaded", "entered", "holding", "leaving",
                   "claimed", "closing", "sheltering", "sheltered"}
OwnerLocations == {"idle", "creating", "publishing", "rejecting", "claiming",
                   "draining", "cleaning", "refused", "retaining",
                   "reapDraining", "reapRejecting", "reapStored",
                   "reapUnpublishing", "reapResetting", "reapReopening",
                   "reapReopeningStorage", "reapFreeing", "finalRejecting",
                   "finalDraining", "finalized", "retained"}

-----------------------------------------------------------------------------
(* HookCallbackGate: one word, the closed bit above the count.             *)
Closed(gate) == gate >= Limit
InFlight(gate) == IF Closed(gate) THEN gate - Limit ELSE gate
CanEnter(gate) == ~Closed(gate) /\ InFlight(gate) # Limit - 1
Leave(gate) == IF gate = 0 THEN 2 * Limit - 1 ELSE gate - 1

RejectNewWork(gate) == IF Closed(gate) THEN gate ELSE gate + Limit

Init ==
    /\ admission = 0 /\ storage = 0 /\ nextEpoch = 0
    /\ callbacks = 0 /\ stored = 0
    /\ lifecycle = Active
    /\ occupied = FALSE /\ removed = FALSE /\ tenant = 0
    /\ count = 0 /\ retention = FALSE
    /\ agent = "worker" /\ opc = "idle"
    /\ stopping = FALSE /\ decrement = FALSE
    /\ rpc = [t \in Threads |-> "idle"]
    /\ kind = [t \in Threads |-> "callback"]
    /\ seen = [t \in Threads |-> 0]
    /\ leased = [t \in Threads |-> 0]
    /\ partial = FALSE

-----------------------------------------------------------------------------
(* A lease: AcquireProcessWindowCallbackAt, AcquireProcessWindowStorageAt. *)

(* The UI thread is not elsewhere while it handles a control message.      *)
Runs(t) == t = Ui => opc = "idle" \/ agent = "worker"

Loads(t) ==
    /\ Runs(t) /\ rpc[t] = "idle"
    /\ \E k \in Kinds :
          LET epoch == IF k = "callback" THEN admission ELSE storage
          IN  /\ epoch # 0
              /\ kind' = [kind EXCEPT ![t] = k]
              /\ seen' = [seen EXCEPT ![t] = epoch]
    /\ rpc' = [rpc EXCEPT ![t] = "loaded"]
    /\ UNCHANGED <<epochs, gates, lifecycle, slot, count, retention, owner,
                   leased, partial>>

Enters(t) ==
    /\ Runs(t) /\ rpc[t] = "loaded"
    /\ IF kind[t] = "callback"
       THEN /\ callbacks' = IF CanEnter(callbacks) THEN callbacks + 1
                                                   ELSE callbacks
            /\ rpc' = [rpc EXCEPT ![t] =
                          IF CanEnter(callbacks) THEN "entered" ELSE "idle"]
            /\ UNCHANGED stored
       ELSE /\ stored' = IF CanEnter(stored) THEN stored + 1 ELSE stored
            /\ rpc' = [rpc EXCEPT ![t] =
                          IF CanEnter(stored) THEN "entered" ELSE "idle"]
            /\ UNCHANGED callbacks
    /\ UNCHANGED <<epochs, lifecycle, slot, count, retention, owner, kind,
                   seen, leased, partial>>

Rechecks(t) ==
    /\ Runs(t) /\ rpc[t] = "entered"
    /\ IF seen[t] = (IF kind[t] = "callback" THEN admission ELSE storage)
       THEN /\ rpc' = [rpc EXCEPT ![t] = "holding"]
            /\ leased' = [leased EXCEPT ![t] = tenant]
       ELSE /\ rpc' = [rpc EXCEPT ![t] = "leaving"]
            /\ UNCHANGED leased
    /\ UNCHANGED <<epochs, gates, lifecycle, slot, count, retention, owner,
                   kind, seen, partial>>

(* The lease is destroyed.                                                 *)
Leaves(t) ==
    /\ Runs(t) /\ rpc[t] \in {"holding", "leaving", "sheltered"}
    /\ rpc' = [rpc EXCEPT ![t] = "idle"]
    /\ callbacks' = IF kind[t] = "callback" THEN Leave(callbacks)
                                            ELSE callbacks
    /\ stored' = IF kind[t] = "storage" THEN Leave(stored) ELSE stored
    /\ UNCHANGED <<epochs, lifecycle, slot, count, retention, owner, kind,
                   seen, leased, partial>>

-----------------------------------------------------------------------------
(* HandleProcessRuntimeTopLevelDestroy, under the callback lease it takes. *)

DestroyClaims ==
    /\ Runs(Ui) /\ rpc[Ui] = "holding" /\ kind[Ui] = "callback"
    /\ rpc' = [rpc EXCEPT ![Ui] =
                  IF lifecycle = Active THEN "claimed" ELSE "leaving"]
    /\ lifecycle' = IF lifecycle = Active THEN Cleaning ELSE lifecycle
    /\ UNCHANGED <<epochs, gates, slot, count, retention, owner, kind, seen,
                   leased, partial>>

DestroyUnpublishes ==
    /\ Runs(Ui) /\ rpc[Ui] = "claimed"
    /\ admission' = 0
    /\ rpc' = [rpc EXCEPT ![Ui] = "closing"]
    /\ UNCHANGED <<storage, nextEpoch, gates, lifecycle, slot, count,
                   retention, owner, kind, seen, leased, partial>>

DestroyRejects ==
    /\ Runs(Ui) /\ rpc[Ui] = "closing"
    /\ callbacks' = RejectNewWork(callbacks)
    /\ rpc' = [rpc EXCEPT ![Ui] = "sheltering"]
    /\ UNCHANGED <<epochs, stored, lifecycle, slot, count, retention, owner,
                   kind, seen, leased, partial>>

(* shelter_window_on_destroy moves the pane away, or fails.                *)
DestroyShelters ==
    /\ Runs(Ui) /\ rpc[Ui] = "sheltering"
    /\ \E ok \in BOOLEAN :
          /\ lifecycle' = IF ok THEN DestroyRequested ELSE Failed
          /\ retention' = (retention \/ ~ok)
    /\ count' = count - 1
    /\ rpc' = [rpc EXCEPT ![Ui] = "sheltered"]
    /\ UNCHANGED <<epochs, gates, slot, owner, kind, seen, leased, partial>>

Destroy == DestroyClaims \/ DestroyUnpublishes \/ DestroyRejects
           \/ DestroyShelters

-----------------------------------------------------------------------------
(* The create branch of HandleProcessRuntimeControlMessageFor.             *)

UiFree == rpc[Ui] = "idle"

CreateBegins ==
    /\ opc = "idle" /\ UiFree /\ ~retention /\ ~stopping
    /\ ~occupied /\ ~removed
    /\ nextEpoch < MaxEpoch
    /\ nextEpoch' = nextEpoch + 1
    /\ tenant' = nextEpoch + 1
    /\ lifecycle' = Active
    /\ occupied' = TRUE
    /\ agent' = "ui" /\ opc' = "creating"
    /\ UNCHANGED <<admission, storage, gates, removed, count, retention,
                   stopping, decrement, lease, partial>>

CreateSucceeds ==
    /\ opc = "creating"
    /\ storage' = tenant
    /\ opc' = "publishing"
    /\ UNCHANGED <<admission, nextEpoch, gates, lifecycle, slot, count,
                   retention, stopping, agent, decrement, lease, partial>>

CreatePublishes ==
    /\ opc = "publishing"
    /\ admission' = tenant
    /\ count' = count + 1
    /\ opc' = "idle"
    /\ UNCHANGED <<storage, nextEpoch, gates, lifecycle, slot, retention,
                   stopping, agent, decrement, lease, partial>>

(* apply_update or activate_window failed: the new tenant is cleaned at    *)
(* once and its slot awaits the reaper.                                    *)
CreateFails ==
    /\ opc = "creating"
    /\ \E ok \in BOOLEAN :
          /\ lifecycle' = IF ok THEN Cleaned ELSE Failed
          /\ retention' = (retention \/ ~ok)
    /\ occupied' = FALSE /\ removed' = TRUE
    /\ storage' = tenant
    /\ opc' = "idle"
    /\ partial' = TRUE
    /\ UNCHANGED <<admission, nextEpoch, gates, count, tenant, stopping, agent,
                   decrement, lease>>

Create == CreateBegins \/ CreateSucceeds \/ CreatePublishes \/ CreateFails

-----------------------------------------------------------------------------
(* Retirement: the control message's retire on the UI thread, and          *)
(* RemoveAllProcessWindows on the worker. Both close admission, claim the  *)
(* lifecycle and drain the gate before they clean.                         *)

RetireUnpublishes ==
    /\ opc = "idle" /\ occupied
    /\ \/ agent' = "ui" /\ UiFree /\ ~retention /\ ~stopping
       \/ agent' = "worker" /\ stopping
    /\ admission' = 0
    /\ opc' = "rejecting"
    /\ UNCHANGED <<storage, nextEpoch, gates, lifecycle, slot, count,
                   retention, stopping, decrement, lease, partial>>

(* Mutant: the gate stays open while the tenant is drained and cleaned.    *)
RetireRejectsNothing ==
    /\ opc = "rejecting"
    /\ opc' = "claiming"
    /\ UNCHANGED <<epochs, gates, lifecycle, slot, count, retention, stopping,
                   agent, decrement, lease, partial>>

RetireRejects ==
    /\ opc = "rejecting"
    /\ callbacks' = RejectNewWork(callbacks)
    /\ opc' = "claiming"
    /\ UNCHANGED <<epochs, stored, lifecycle, slot, count, retention, stopping,
                   agent, decrement, lease, partial>>

(* Mutant: RemoveAll counts a destroyed window out for the second time.    *)
RetireClaimsDecrementing ==
    /\ opc = "claiming"
    /\ LET claimed == \/ lifecycle = Active
                      \/ agent = "worker" /\ lifecycle = DestroyRequested
       IN  \/ claimed /\ lifecycle' = Cleaning /\ opc' = "draining"
           \/ /\ ~claimed /\ UNCHANGED lifecycle
              /\ opc' = IF agent = "ui" THEN "idle" ELSE "refused"
    /\ decrement' = TRUE
    /\ UNCHANGED <<epochs, gates, slot, count, retention, stopping, agent,
                   lease, partial>>

(* The UI thread gives up on any lifecycle but Active (ERROR_BUSY).        *)
(* RemoveAll also takes a requested destruction over, which the destroy    *)
(* handler has counted out already, and refuses the rest.                  *)
RetireClaims ==
    /\ opc = "claiming"
    /\ LET requested == agent = "worker" /\ lifecycle = DestroyRequested
           claimed == lifecycle = Active \/ requested
       IN  /\ \/ claimed /\ lifecycle' = Cleaning /\ opc' = "draining"
              \/ /\ ~claimed /\ UNCHANGED lifecycle
                 /\ opc' = IF agent = "ui" THEN "idle" ELSE "refused"
           /\ decrement' = ~requested
    /\ UNCHANGED <<epochs, gates, slot, count, retention, stopping, agent,
                   lease, partial>>

(* Mutant: the worker forgets that the destroy handler may still be in.    *)
RequestedRemovalAtOnce ==
    /\ opc = "idle" /\ ~retention /\ ~stopping
    /\ occupied /\ lifecycle = DestroyRequested
    /\ lifecycle' = Cleaning
    /\ decrement' = FALSE
    /\ agent' = "worker" /\ opc' = "cleaning"
    /\ UNCHANGED <<epochs, gates, slot, count, retention, stopping, lease,
                   partial>>

(* ProcessRequestedWindowRemovals, before each dispatch.                   *)
RequestedRemoval ==
    /\ opc = "idle" /\ ~retention /\ ~stopping
    /\ occupied /\ lifecycle = DestroyRequested
    /\ lifecycle' = Cleaning
    /\ decrement' = FALSE
    /\ agent' = "worker" /\ opc' = "draining"
    /\ UNCHANGED <<epochs, gates, slot, count, retention, stopping, lease,
                   partial>>

RetireDrains ==
    /\ opc = "draining" /\ InFlight(callbacks) = 0
    /\ opc' = "cleaning"
    /\ UNCHANGED <<epochs, gates, lifecycle, slot, count, retention, stopping,
                   agent, decrement, lease, partial>>

(* The slot leaves the registry, its tenant cleaned or not.                *)
Retired(ok) ==
    /\ lifecycle' = IF ok THEN Cleaned ELSE Failed
    /\ occupied' = FALSE /\ removed' = TRUE
    /\ count' = IF decrement THEN count - 1 ELSE count
    /\ opc' = IF ok THEN "idle" ELSE "retaining"
    /\ UNCHANGED <<epochs, gates, tenant, retention, stopping, agent,
                   decrement, lease, partial>>

RetireCleans == opc = "cleaning" /\ \E ok \in BOOLEAN : Retired(ok)

RetireRefused == opc = "refused" /\ Retired(FALSE)

(* WaitForZero(5000) ran out. The UI thread leaves the slot occupied.      *)
RetireTimesOut ==
    /\ opc = "draining" /\ InFlight(callbacks) # 0
    /\ \/ agent = "worker" /\ Retired(FALSE)
       \/ /\ agent = "ui"
          /\ lifecycle' = Failed
          /\ opc' = "retaining"
          /\ UNCHANGED <<epochs, gates, slot, count, retention, stopping,
                         agent, decrement, lease, partial>>

RetireRetains ==
    /\ opc = "retaining"
    /\ retention' = TRUE
    /\ opc' = IF stopping THEN "retained" ELSE "idle"
    /\ UNCHANGED <<epochs, gates, lifecycle, slot, count, stopping, agent,
                   decrement, lease, partial>>

Retire == RetireUnpublishes \/ RetireRejects \/ RetireClaims
          \/ RequestedRemoval \/ RetireDrains \/ RetireCleans
          \/ RetireRefused \/ RetireTimesOut \/ RetireRetains

-----------------------------------------------------------------------------
(* ReapRemovedProcessWindows.                                              *)

(* The worker reaps before each dispatch and at its end, the UI thread     *)
(* when it replaces a window. Where a failed reap ends: the next dispatch  *)
(* tries again, RuntimeWorker retains the DLL.                             *)
GivenUp == IF stopping THEN "retained" ELSE "idle"

(* Mutant: a window whose cleanup failed is reaped like any other.         *)
ReapBeginsWithFailed ==
    /\ opc = "idle" /\ removed
    /\ ~retention \/ stopping
    /\ \/ agent' = "ui" /\ UiFree /\ ~stopping
       \/ agent' = "worker"
    /\ opc' = "reapDraining"
    /\ UNCHANGED <<epochs, gates, lifecycle, slot, count, retention, stopping,
                   decrement, lease, partial>>

ReapBegins ==
    /\ opc = "idle" /\ removed
    /\ ~retention \/ stopping
    /\ \/ agent' = "ui" /\ UiFree /\ ~stopping
       \/ agent' = "worker"
    /\ opc' = IF lifecycle = Cleaned THEN "reapDraining" ELSE GivenUp
    /\ retention' = (retention \/ lifecycle # Cleaned)
    /\ UNCHANGED <<epochs, gates, lifecycle, slot, count, stopping, decrement,
                   lease, partial>>

ReapDrains ==
    /\ opc = "reapDraining"
    /\ opc' = IF InFlight(callbacks) = 0 THEN "reapRejecting" ELSE GivenUp
    /\ UNCHANGED <<epochs, gates, lifecycle, slot, count, retention, stopping,
                   agent, decrement, lease, partial>>

ReapRejects ==
    /\ opc = "reapRejecting"
    /\ stored' = RejectNewWork(stored)
    /\ opc' = "reapStored"
    /\ UNCHANGED <<epochs, callbacks, lifecycle, slot, count, retention,
                   stopping, agent, decrement, lease, partial>>

(* Mutant: the resources go while pane messages and pane texts use them.   *)
ReapDrainsNoStorage ==
    /\ opc = "reapStored"
    /\ opc' = "reapUnpublishing"
    /\ UNCHANGED <<epochs, gates, lifecycle, slot, count, retention, stopping,
                   agent, decrement, lease, partial>>

ReapDrainsStorage ==
    /\ opc = "reapStored"
    /\ opc' = IF InFlight(stored) = 0 THEN "reapUnpublishing" ELSE GivenUp
    /\ UNCHANGED <<epochs, gates, lifecycle, slot, count, retention, stopping,
                   agent, decrement, lease, partial>>

ReapUnpublishes ==
    /\ opc = "reapUnpublishing"
    /\ storage' = 0
    /\ opc' = "reapResetting"
    /\ UNCHANGED <<admission, nextEpoch, gates, lifecycle, slot, count,
                   retention, stopping, agent, decrement, lease, partial>>

ReapResets ==
    /\ opc = "reapResetting"
    /\ tenant' = 0
    /\ opc' = "reapReopening"
    /\ UNCHANGED <<epochs, gates, lifecycle, occupied, removed, count,
                   retention, stopping, agent, decrement, lease, partial>>

(* ResetForReuse of the callback gate.                                     *)
ReapReopens ==
    /\ opc = "reapReopening"
    /\ callbacks' = 0
    /\ opc' = "reapReopeningStorage"
    /\ UNCHANGED <<epochs, stored, lifecycle, slot, count, retention, stopping,
                   agent, decrement, lease, partial>>

ReapReopensStorage ==
    /\ opc = "reapReopeningStorage"
    /\ stored' = 0
    /\ opc' = "reapFreeing"
    /\ UNCHANGED <<epochs, callbacks, lifecycle, slot, count, retention,
                   stopping, agent, decrement, lease, partial>>

ReapFrees ==
    /\ opc = "reapFreeing"
    /\ lifecycle' = Active
    /\ removed' = FALSE
    /\ opc' = "idle"
    /\ UNCHANGED <<epochs, gates, occupied, tenant, count, retention, stopping,
                   agent, decrement, lease, partial>>

Reap == ReapBegins \/ ReapDrains \/ ReapRejects \/ ReapDrainsStorage
        \/ ReapUnpublishes \/ ReapResets \/ ReapReopens
        \/ ReapReopensStorage \/ ReapFrees

-----------------------------------------------------------------------------
(* RuntimeWorker leaves its request loop; from then on it only removes,    *)
(* reaps and finalizes.                                                    *)
StopBegins ==
    /\ opc = "idle" /\ ~stopping
    /\ stopping' = TRUE
    /\ agent' = "worker"
    /\ UNCHANGED <<epochs, gates, lifecycle, slot, count, retention, opc,
                   decrement, lease, partial>>

(* FinalizeProcessWindowsAfterDrain.                                       *)
FinalizeUnpublishes ==
    /\ opc = "idle" /\ stopping /\ ~occupied /\ ~removed
    /\ admission' = 0 /\ storage' = 0
    /\ opc' = "finalRejecting"
    /\ UNCHANGED <<nextEpoch, gates, lifecycle, slot, count, retention,
                   stopping, agent, decrement, lease, partial>>

FinalizeRejects ==
    /\ opc = "finalRejecting"
    /\ stored' = RejectNewWork(stored)
    /\ opc' = "finalDraining"
    /\ UNCHANGED <<epochs, callbacks, lifecycle, slot, count, retention,
                   stopping, agent, decrement, lease, partial>>

FinalizeDrains ==
    /\ opc = "finalDraining"
    /\ \/ InFlight(stored) = 0 /\ opc' = "finalized" /\ UNCHANGED retention
       \/ InFlight(stored) # 0 /\ opc' = "retained" /\ retention' = TRUE
    /\ UNCHANGED <<epochs, gates, lifecycle, slot, count, stopping, agent,
                   decrement, lease, partial>>

Stop == StopBegins \/ FinalizeUnpublishes \/ FinalizeRejects
        \/ FinalizeDrains

Lease(t) == Loads(t) \/ Enters(t) \/ Rechecks(t) \/ Leaves(t)

Next == \/ \E t \in Threads : Lease(t)
        \/ Destroy \/ Create \/ Retire \/ Reap \/ Stop

Spec == Init /\ [][Next]_vars

-----------------------------------------------------------------------------
(* Every variable has its type.                                            *)
TypeOK ==
    /\ admission \in Nat /\ storage \in Nat /\ nextEpoch \in Nat
    /\ callbacks \in 0..(2 * Limit - 1) /\ stored \in 0..(2 * Limit - 1)
    /\ lifecycle \in Active..DestroyRequested
    /\ occupied \in BOOLEAN /\ removed \in BOOLEAN /\ tenant \in Nat
    /\ count \in Int /\ retention \in BOOLEAN /\ stopping \in BOOLEAN
    /\ agent \in {"ui", "worker"} /\ opc \in OwnerLocations
    /\ decrement \in BOOLEAN
    /\ rpc \in [Threads -> LeaseLocations]
    /\ kind \in [Threads -> Kinds]
    /\ seen \in [Threads -> Nat] /\ leased \in [Threads -> Nat]

Holding == {"holding", "claimed", "closing", "sheltering", "sheltered"}
Inside == Holding \cup {"entered", "leaving"}
Users(k) == {t \in Threads : rpc[t] \in Inside /\ kind[t] = k}

(***************************************************************************)
(* Safety.                                                                 *)
(***************************************************************************)

(* What a lease protects. After a creation that failed halfway only storage *)
(* leases still do.                                                        *)
Pinned(t) == rpc[t] \in Holding /\ (partial => kind[t] = "storage")

(* A lease pins what it was granted for: while a thread holds one, of      *)
(* either kind, the slot keeps the same tenant and its resources, although *)
(* nobody takes a lock and slots are reused; and the runtime is freed only *)
(* when no lease is left and none will come.                               *)
LeaseKeepsTenant ==
    /\ \A t \in Threads : Pinned(t) =>
          tenant = leased[t] /\ leased[t] = seen[t] /\ tenant # 0
    /\ opc = "finalized" => /\ tenant = 0 /\ admission = 0 /\ storage = 0
                            /\ Closed(stored)
                            /\ \A t \in Threads : ~Pinned(t)

(* Rundown: a window is cleaned only when no callback works on it.         *)
CleanupAlone ==
    opc = "cleaning" =>
        \A t \in Threads : ~(rpc[t] \in Holding /\ kind[t] = "callback")

(* The same, as long as no creation has failed halfway.                    *)
CleanupAloneUnlessPartial == ~partial => CleanupAlone

(* The gates count exactly the threads inside, across any number of        *)
(* tenants: no underflow, no thread forgotten by ResetForReuse. A creation *)
(* that failed halfway leaves the callback gate open for the reaper, and   *)
(* it is exact no longer; the storage gate is closed on that path as well. *)
GatesExact ==
    /\ ~partial => InFlight(callbacks) = Cardinality(Users("callback"))
    /\ InFlight(stored) = Cardinality(Users("storage"))

(* "All fail closed": a slot whose cleanup failed is never given to        *)
(* another window, whoever of the UI thread and the worker failed.         *)
FailsClosed ==
    [][tenant # 0 /\ tenant' # tenant => lifecycle = Cleaned /\ ~retention]_vars

(* active_count_ is exact between operations, unless the DLL is retained   *)
(* or a creation failed halfway.                                           *)
ActiveCountExact ==
    (opc = "idle" /\ ~retention /\ ~partial /\ rpc[Ui] \in {"idle", "loaded"})
        => count = (IF admission # 0 THEN 1 ELSE 0)

=============================================================================
