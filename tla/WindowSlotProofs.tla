---------------------------- MODULE WindowSlotProofs ----------------------------
(***************************************************************************)
(* The safety properties of WindowSlot, for every finite set of threads,   *)
(* every width of a gate that can count them, and any number of tenants.   *)
(* The inductive invariant says, for each location of the owner, what the  *)
(* registry, the lifecycle and the two gates are there.                    *)
(***************************************************************************)
EXTENDS WindowSlot, FiniteSetTheorems, TLAPS

Creating == {"creating", "publishing"}
Retiring == {"rejecting", "claiming", "draining", "cleaning", "refused"}
Emptied == {"reapReopening", "reapReopeningStorage", "reapFreeing"}
Reaping == {"reapDraining", "reapRejecting", "reapStored", "reapUnpublishing",
            "reapResetting"} \cup Emptied
Finalizing == {"finalRejecting", "finalDraining", "finalized"}
Claiming == {"claimed", "closing", "sheltering"}

(* Only the UI thread is in the destroy handler, under a callback lease,   *)
(* and it is not in a lease while it owns the slot.                        *)
LeaseInv ==
    /\ \A t \in Threads :
          /\ rpc[t] # "idle" => seen[t] # 0
          /\ rpc[t] \in Claiming \cup {"sheltered"} =>
                t = Ui /\ kind[t] = "callback"
    /\ opc # "idle" /\ agent = "ui" => rpc[Ui] = "idle"

(* The slot is in use, removed or free; it has a tenant in the first two   *)
(* cases, until the reaper has taken it out.                               *)
RegistryInv ==
    /\ ~(occupied /\ removed)
    /\ opc \in Creating \cup Retiring => occupied
    /\ opc \in Reaping => removed
    /\ opc = "retaining" => occupied \/ removed
    /\ opc \in Finalizing => ~occupied /\ ~removed /\ stopping
    /\ opc \in Creating => agent = "ui"
    /\ opc \in {"refused", "retained"} => stopping
    /\ opc \in {"rejecting", "claiming"} /\ agent = "worker" => stopping
    /\ agent = "ui" => ~stopping
    /\ tenant # 0 <=> occupied \/ (removed /\ opc \notin Emptied)

(* What the epochs say of the tenant.                                      *)
EpochInv ==
    /\ admission \in {0, tenant} /\ storage \in {0, tenant}
    /\ removed \/ opc \in Creating => admission = 0
    /\ opc \in Retiring => admission = 0
    /\ opc \in {"creating", "reapResetting"} => storage = 0
    /\ rpc[Ui] \in {"closing", "sheltering"} => admission = 0
    /\ lifecycle = DestroyRequested => admission = 0
    /\ opc = "idle" /\ occupied /\ lifecycle = Active => admission # 0

(* What the lifecycle says of who works on the window.                     *)
LifecycleInv ==
    /\ opc \in Creating => lifecycle = Active
    /\ opc \in {"draining", "cleaning"} => lifecycle = Cleaning
    /\ opc \in Reaping => lifecycle = Cleaned
    /\ rpc[Ui] \in Claiming =>
          \/ lifecycle = Cleaning /\ opc \notin {"draining", "cleaning"}
          \/ lifecycle = Failed /\ stopping /\ opc \in {"retaining", "retained"}
    /\ lifecycle = Failed => retention \/ opc \in {"retaining", "retained"}
    /\ opc = "retaining" =>
          lifecycle = Failed \/ (stopping /\ lifecycle = DestroyRequested)
    /\ removed => stopping \/ lifecycle \in {Cleaned, Failed}
    /\ retention => \/ lifecycle = Failed
                    \/ opc = "retained"
                    \/ opc = "retaining" /\ stopping

(* The storage gate, which a creation that failed halfway leaves intact.   *)
StorageInv ==
    /\ InFlight(stored) = Cardinality(Users("storage"))
    /\ opc \in {"reapStored", "reapUnpublishing", "reapResetting",
                "reapReopening", "reapReopeningStorage", "finalDraining",
                "finalized"} => Closed(stored)
    /\ opc \in {"reapUnpublishing", "reapResetting", "reapReopening",
                "reapReopeningStorage", "finalized"} => Users("storage") = {}

(* The callback gate, as long as no creation has failed halfway.           *)
CallbackInv == ~partial =>
    /\ InFlight(callbacks) = Cardinality(Users("callback"))
    /\ opc \in {"claiming", "draining", "cleaning", "refused"} =>
          Closed(callbacks)
    /\ removed /\ opc \notin {"reapReopeningStorage", "reapFreeing"} =>
          Closed(callbacks)
    /\ lifecycle = DestroyRequested => Closed(callbacks)
    /\ rpc[Ui] = "sheltering" => Closed(callbacks)
    /\ opc \in {"cleaning", "reapRejecting", "reapStored", "reapUnpublishing",
                "reapResetting", "reapReopening"} => Users("callback") = {}

(* What a granted lease stands for.                                        *)
PinInv ==
    \A t \in Threads : Pinned(t) =>
        tenant = leased[t] /\ leased[t] = seen[t] /\ tenant # 0

(* The window counts from its publication until it is destroyed or         *)
(* retired, as long as nothing has failed.                                 *)
Undisturbed ==
    ~retention /\ ~partial /\ opc \notin {"refused", "retaining", "retained"}
Counted ==
    /\ occupied /\ opc \notin Creating /\ lifecycle # DestroyRequested
    /\ opc \in {"draining", "cleaning"} => decrement
CountInv == Undisturbed =>
    /\ count = IF Counted THEN 1 ELSE 0
    /\ lifecycle = Cleaning /\ opc \notin {"draining", "cleaning"} =>
          rpc[Ui] \in Claiming
    /\ removed /\ opc # "reapFreeing" => lifecycle = Cleaned
    /\ lifecycle = Cleaned => removed
    /\ ~occupied /\ ~removed => lifecycle = Active

SlotInvariant ==
    /\ TypeOK /\ LeaseInv /\ RegistryInv /\ EpochInv /\ LifecycleInv
    /\ StorageInv /\ CallbackInv /\ PinInv /\ CountInv

-----------------------------------------------------------------------------
(* The arithmetic of a gate.                                               *)

Gate == 0..(2 * Limit - 1)

(* There is a thread, so that the gate can count one.                      *)
LEMMA LimitPositive == Limit \in Nat \ {0}
BY ThreadsAssumption, FS_CardinalityType

(* Entering an open gate counts one up, and the closed bit stays off.      *)
LEMMA GateEnters ==
    ASSUME NEW gate \in Gate, CanEnter(gate)
    PROVE  /\ gate + 1 \in Gate
           /\ InFlight(gate + 1) = InFlight(gate) + 1
           /\ ~Closed(gate + 1)
BY LimitPositive DEF Gate, CanEnter, InFlight, Closed

(* Leaving stays within the word, and counts one down if anyone is in.     *)
LEMMA GateLeaves ==
    ASSUME NEW gate \in Gate
    PROVE  /\ Leave(gate) \in Gate
           /\ InFlight(gate) # 0 =>
                 /\ InFlight(Leave(gate)) = InFlight(gate) - 1
                 /\ Closed(Leave(gate)) <=> Closed(gate)
BY LimitPositive DEF Gate, Leave, InFlight, Closed

(* Closing a gate does not change what it counts.                          *)
LEMMA GateRejects ==
    ASSUME NEW gate \in Gate
    PROVE  /\ RejectNewWork(gate) \in Gate
           /\ InFlight(RejectNewWork(gate)) = InFlight(gate)
           /\ Closed(RejectNewWork(gate))
BY LimitPositive DEF Gate, RejectNewWork, InFlight, Closed

(* A gate that was reset is open and counts nobody.                        *)
LEMMA GateReset == 0 \in Gate /\ InFlight(0) = 0 /\ ~Closed(0)
BY LimitPositive DEF Gate, InFlight, Closed

(* There are fewer users of a gate than it can count.                      *)
LEMMA UsersCounted ==
    ASSUME NEW k
    PROVE  /\ IsFiniteSet(Users(k)) /\ Cardinality(Users(k)) \in Nat
           /\ Cardinality(Users(k)) < Limit
           /\ Cardinality(Users(k)) = 0 <=> Users(k) = {}
<1>1. Users(k) \in SUBSET Threads
    BY DEF Users
<1>2. IsFiniteSet(Users(k)) /\ Cardinality(Users(k)) <= Cardinality(Threads)
    BY <1>1, ThreadsAssumption, FS_Subset
<1>3. Cardinality(Users(k)) \in Nat /\ Cardinality(Threads) \in Nat
    BY <1>2, ThreadsAssumption, FS_CardinalityType
<1> QED BY <1>2, <1>3, ThreadsAssumption, FS_EmptySet

-----------------------------------------------------------------------------
(* Types.                                                                  *)

Owner == Create \/ Retire \/ Reap \/ Stop

(* In the beginning the slot is free and nobody is near it.                *)
LEMMA SlotStarts == Init => SlotInvariant
<1> SUFFICES ASSUME Init PROVE SlotInvariant
    OBVIOUS
<1> USE DEF Init, Active, DestroyRequested, Cleaning, Cleaned, Failed
<1>1. TypeOK
    <2>1. /\ occupied \in BOOLEAN /\ removed \in BOOLEAN /\ retention \in BOOLEAN
          /\ stopping \in BOOLEAN /\ decrement \in BOOLEAN
        BY Zenon
    <2>2. /\ admission \in Nat /\ storage \in Nat /\ nextEpoch \in Nat
          /\ tenant \in Nat /\ count \in Int
          /\ callbacks \in Gate /\ stored \in Gate
          /\ lifecycle \in Active..DestroyRequested
        BY GateReset
    <2>3. /\ agent \in {"ui", "worker"} /\ opc \in OwnerLocations
          /\ rpc \in [Threads -> LeaseLocations] /\ kind \in [Threads -> Kinds]
          /\ seen \in [Threads -> Nat] /\ leased \in [Threads -> Nat]
        BY DEF LeaseLocations, OwnerLocations, Kinds
    <2> QED BY <2>1, <2>2, <2>3 DEF TypeOK, Gate
<1>2. LeaseInv /\ RegistryInv /\ EpochInv /\ LifecycleInv
    BY ThreadsAssumption
    DEF LeaseInv, RegistryInv, EpochInv, LifecycleInv, Creating, Retiring,
        Reaping, Emptied, Finalizing, Claiming
<1>3. Users("callback") = {} /\ Users("storage") = {}
    BY DEF Users, Inside, Holding
<1>4. StorageInv /\ CallbackInv
    BY <1>3, GateReset, UsersCounted, ThreadsAssumption DEF StorageInv, CallbackInv
<1>5. PinInv /\ CountInv
    BY DEF PinInv, Pinned, Holding, CountInv, Undisturbed, Counted, Creating
<1> QED BY <1>1, <1>2, <1>4, <1>5 DEF SlotInvariant

(* Every step keeps the types: the flags, the words and the locations      *)
(* apart, for the provers.                                                 *)
LEMMA FlagsTyped ==
    ASSUME TypeOK, [Next]_vars
    PROVE  /\ occupied' \in BOOLEAN /\ removed' \in BOOLEAN
           /\ retention' \in BOOLEAN /\ stopping' \in BOOLEAN
           /\ decrement' \in BOOLEAN
<1> DEFINE Flags == /\ occupied \in BOOLEAN /\ removed \in BOOLEAN
                    /\ retention \in BOOLEAN /\ stopping \in BOOLEAN
                    /\ decrement \in BOOLEAN
<1>1. Flags
    BY Zenon DEF TypeOK
<1>2. CASE UNCHANGED vars
    BY <1>1, <1>2, Zenon DEF vars
<1>3. ASSUME NEW t \in Threads, Lease(t) PROVE Flags'
    BY <1>1, <1>3, Zenon DEF Lease, Loads, Enters, Rechecks, Leaves, slot, owner
<1>4. CASE Destroy
    BY <1>1, <1>4, Zenon DEF Destroy, DestroyClaims, DestroyUnpublishes,
        DestroyRejects, DestroyShelters, slot, owner
<1>5. CASE Create
    BY <1>1, <1>5, Zenon DEF Create, CreateBegins, CreateSucceeds,
        CreatePublishes, CreateFails, slot
<1>6. CASE Retire
    BY <1>1, <1>6, Zenon DEF Retire, RetireUnpublishes, RetireRejects,
        RetireClaims, RequestedRemoval, RetireDrains, RetireCleans,
        RetireRefused, RetireTimesOut, RetireRetains, Retired, slot
<1>7. CASE Reap
    BY <1>1, <1>7, Zenon DEF Reap, ReapBegins, ReapDrains, ReapRejects,
        ReapDrainsStorage, ReapUnpublishes, ReapResets, ReapReopens,
        ReapReopensStorage, ReapFrees, slot
<1>8. CASE Stop
    BY <1>1, <1>8, Zenon DEF Stop, StopBegins, FinalizeUnpublishes,
        FinalizeRejects, FinalizeDrains, slot
<1> QED BY <1>2, <1>3, <1>4, <1>5, <1>6, <1>7, <1>8 DEF Next

(* The epochs, the counters and the gate words keep their types.           *)
LEMMA WordsTyped ==
    ASSUME TypeOK, [Next]_vars
    PROVE  /\ admission' \in Nat /\ storage' \in Nat /\ nextEpoch' \in Nat
           /\ tenant' \in Nat /\ count' \in Int
           /\ callbacks' \in Gate /\ stored' \in Gate
           /\ lifecycle' \in Active..DestroyRequested
<1> DEFINE Words == /\ admission \in Nat /\ storage \in Nat /\ nextEpoch \in Nat
                    /\ tenant \in Nat /\ count \in Int
                    /\ callbacks \in Gate /\ stored \in Gate
                    /\ lifecycle \in Active..DestroyRequested
<1>1. Words
    BY DEF TypeOK, Gate
<1> USE DEF Active, Cleaning, Cleaned, Failed, DestroyRequested, epochs, gates,
        slot
<1>2. CASE UNCHANGED vars
    BY <1>1, <1>2 DEF vars
<1>3. ASSUME NEW t \in Threads, Lease(t) PROVE Words'
    BY <1>1, <1>3, GateEnters, GateLeaves
    DEF Lease, Loads, Enters, Rechecks, Leaves
<1>4. CASE Destroy
    BY <1>1, <1>4, GateRejects DEF Destroy, DestroyClaims, DestroyUnpublishes,
        DestroyRejects, DestroyShelters
<1>5. CASE Create
    BY <1>1, <1>5 DEF Create, CreateBegins, CreateSucceeds,
        CreatePublishes, CreateFails
<1>6. CASE Retire
    BY <1>1, <1>6, GateRejects DEF Retire, RetireUnpublishes, RetireRejects,
        RetireClaims, RequestedRemoval, RetireDrains, RetireCleans,
        RetireRefused, RetireTimesOut, RetireRetains, Retired
<1>7. CASE Reap
    BY <1>1, <1>7, GateRejects, GateReset DEF Reap, ReapBegins, ReapDrains,
        ReapRejects, ReapDrainsStorage, ReapUnpublishes, ReapResets,
        ReapReopens, ReapReopensStorage, ReapFrees
<1>8. CASE Stop
    BY <1>1, <1>8, GateRejects DEF Stop, StopBegins, FinalizeUnpublishes,
        FinalizeRejects, FinalizeDrains
<1> QED BY <1>2, <1>3, <1>4, <1>5, <1>6, <1>7, <1>8 DEF Next

(* The locations of the owner, the reaper and the leases keep their types. *)
LEMMA PlacesTyped ==
    ASSUME TypeOK, [Next]_vars
    PROVE  /\ agent' \in {"ui", "worker"} /\ opc' \in OwnerLocations
           /\ rpc' \in [Threads -> LeaseLocations]
           /\ kind' \in [Threads -> Kinds]
           /\ seen' \in [Threads -> Nat] /\ leased' \in [Threads -> Nat]
<1> DEFINE Places == /\ agent \in {"ui", "worker"} /\ opc \in OwnerLocations
                     /\ rpc \in [Threads -> LeaseLocations]
                     /\ kind \in [Threads -> Kinds]
                     /\ seen \in [Threads -> Nat] /\ leased \in [Threads -> Nat]
<1>1. Places /\ tenant \in Nat /\ admission \in Nat /\ storage \in Nat
    BY DEF TypeOK
<1> USE DEF LeaseLocations, OwnerLocations, Kinds, owner, lease
<1>2. CASE UNCHANGED vars
    BY <1>1, <1>2 DEF vars
<1>3. ASSUME NEW t \in Threads, Lease(t) PROVE Places'
    BY <1>1, <1>3 DEF Lease, Loads, Enters, Rechecks, Leaves
<1>4. CASE Destroy
    BY <1>1, <1>4 DEF Destroy, DestroyClaims, DestroyUnpublishes,
        DestroyRejects, DestroyShelters
<1>5. CASE Create
    BY <1>1, <1>5 DEF Create, CreateBegins, CreateSucceeds,
        CreatePublishes, CreateFails
<1>6. CASE Retire
    BY <1>1, <1>6 DEF Retire, RetireUnpublishes, RetireRejects,
        RetireClaims, RequestedRemoval, RetireDrains, RetireCleans,
        RetireRefused, RetireTimesOut, RetireRetains, Retired
<1>7. CASE Reap
    BY <1>1, <1>7 DEF Reap, ReapBegins, ReapDrains,
        ReapRejects, ReapDrainsStorage, ReapUnpublishes, ReapResets,
        ReapReopens, ReapReopensStorage, ReapFrees, GivenUp
<1>8. CASE Stop
    BY <1>1, <1>8 DEF Stop, StopBegins, FinalizeUnpublishes,
        FinalizeRejects, FinalizeDrains
<1> QED BY <1>2, <1>3, <1>4, <1>5, <1>6, <1>7, <1>8 DEF Next

(* Every step keeps the types.                                             *)
LEMMA SlotTyped == TypeOK /\ [Next]_vars => TypeOK'
BY FlagsTyped, WordsTyped, PlacesTyped, Zenon DEF TypeOK, Gate

(* The UI thread is in one place at a time.                                *)
LEMMA LeaseKept ==
    ASSUME SlotInvariant, [Next]_vars
    PROVE  LeaseInv'
<1> USE ThreadsAssumption DEF SlotInvariant, TypeOK, LeaseInv, Claiming, Runs
<1>1. CASE UNCHANGED vars
    BY <1>1 DEF vars
<1>2. ASSUME NEW t \in Threads, Lease(t) PROVE LeaseInv'
    BY <1>2 DEF Lease, Loads, Enters, Rechecks, Leaves, owner
<1>3. CASE Destroy
    BY <1>3 DEF Destroy, DestroyClaims, DestroyUnpublishes,
        DestroyRejects, DestroyShelters, owner
<1>4. CASE Create
    BY <1>4 DEF Create, CreateBegins, CreateSucceeds,
        CreatePublishes, CreateFails, UiFree, lease
<1>5. CASE Retire
    BY <1>5 DEF Retire, RetireUnpublishes, RetireRejects,
        RetireClaims, RequestedRemoval, RetireDrains, RetireCleans,
        RetireRefused, RetireTimesOut, RetireRetains, Retired, UiFree, lease
<1>6. CASE Reap
    BY <1>6 DEF Reap, ReapBegins, ReapDrains,
        ReapRejects, ReapDrainsStorage, ReapUnpublishes, ReapResets,
        ReapReopens, ReapReopensStorage, ReapFrees, UiFree, lease
<1>7. CASE Stop
    BY <1>7 DEF Stop, StopBegins, FinalizeUnpublishes,
        FinalizeRejects, FinalizeDrains, lease, RegistryInv
<1> QED BY <1>1, <1>2, <1>3, <1>4, <1>5, <1>6, <1>7 DEF Next

(* A slot is used, removed or free, and has a tenant accordingly.          *)
LEMMA RegistryKept ==
    ASSUME SlotInvariant, [Next]_vars
    PROVE  RegistryInv'
<1> USE DEF SlotInvariant, RegistryInv, Creating, Retiring, Reaping, Emptied,
        Finalizing
<1>1. CASE UNCHANGED vars
    BY <1>1 DEF vars
<1>2. ASSUME NEW t \in Threads, Lease(t) PROVE RegistryInv'
    BY <1>2 DEF Lease, Loads, Enters, Rechecks, Leaves, owner, slot
<1>3. CASE Destroy
    BY <1>3 DEF Destroy, DestroyClaims, DestroyUnpublishes,
        DestroyRejects, DestroyShelters, owner, slot
<1>4. CASE Create
    BY <1>4 DEF Create, CreateBegins, CreateSucceeds,
        CreatePublishes, CreateFails, slot, TypeOK
<1>5. CASE Retire
    BY <1>5 DEF Retire, RetireUnpublishes, RetireRejects,
        RetireClaims, RequestedRemoval, RetireDrains, RetireCleans,
        RetireRefused, RetireTimesOut, RetireRetains, Retired, slot, TypeOK
<1>6. CASE Reap
    BY <1>6 DEF Reap, ReapBegins, ReapDrains, GivenUp,
        ReapRejects, ReapDrainsStorage, ReapUnpublishes, ReapResets,
        ReapReopens, ReapReopensStorage, ReapFrees, slot
<1>7. CASE Stop
    BY <1>7 DEF Stop, StopBegins, FinalizeUnpublishes,
        FinalizeRejects, FinalizeDrains, slot
<1> QED BY <1>1, <1>2, <1>3, <1>4, <1>5, <1>6, <1>7 DEF Next

(* The epochs name the tenant or nothing.                                  *)
LEMMA EpochKept ==
    ASSUME SlotInvariant, [Next]_vars
    PROVE  EpochInv'
<1> USE ThreadsAssumption DEF SlotInvariant, TypeOK, RegistryInv, EpochInv,
        Creating, Retiring, Reaping, Emptied, Finalizing, Runs
<1> USE DEF Active, Cleaning, Cleaned, Failed, DestroyRequested, epochs, slot
<1>1. CASE UNCHANGED vars
    BY <1>1 DEF vars
<1>2. ASSUME NEW t \in Threads, Lease(t) PROVE EpochInv'
    BY <1>2 DEF Lease, Loads, Enters, Rechecks, Leaves, owner
<1>3. CASE Destroy
    BY <1>3 DEF Destroy, DestroyClaims, DestroyUnpublishes,
        DestroyRejects, DestroyShelters, LeaseInv, Claiming, owner,
        LifecycleInv
<1>4. CASE Create
    BY <1>4 DEF Create, CreateBegins, CreateSucceeds,
        CreatePublishes, CreateFails, UiFree, LeaseInv, lease,
        LifecycleInv
<1>5. CASE Retire
    BY <1>5 DEF Retire, RetireUnpublishes, RetireRejects,
        RetireClaims, RequestedRemoval, RetireDrains, RetireCleans,
        RetireRefused, RetireTimesOut, RetireRetains, Retired, lease,
        LifecycleInv
<1>6. CASE Reap
    BY <1>6 DEF Reap, ReapBegins, ReapDrains, GivenUp,
        ReapRejects, ReapDrainsStorage, ReapUnpublishes, ReapResets,
        ReapReopens, ReapReopensStorage, ReapFrees, LifecycleInv, lease
<1>7. CASE Stop
    BY <1>7 DEF Stop, StopBegins, FinalizeUnpublishes,
        FinalizeRejects, FinalizeDrains, lease
<1> QED BY <1>1, <1>2, <1>3, <1>4, <1>5, <1>6, <1>7 DEF Next

(* Two of the owner's steps find the destroy handler elsewhere: a window   *)
(* that is cleaned is not in it, nor is one that is created.               *)
LEMMA LifecycleKept ==
    ASSUME SlotInvariant, [Next]_vars
    PROVE  LifecycleInv'
<1> USE ThreadsAssumption DEF SlotInvariant, TypeOK, RegistryInv, LifecycleInv,
        Creating, Retiring, Reaping, Emptied, Finalizing, Claiming, Runs
<1> USE DEF Active, Cleaning, Cleaned, Failed, DestroyRequested, slot
<1>1. CASE UNCHANGED vars
    BY <1>1 DEF vars
<1>2. ASSUME NEW t \in Threads, Lease(t) PROVE LifecycleInv'
    BY <1>2 DEF Lease, Loads, Enters, Rechecks, Leaves, owner
<1>3. CASE Destroy
    <2>1. CASE DestroyClaims
        BY <2>1 DEF DestroyClaims, owner
    <2>2. CASE DestroyUnpublishes \/ DestroyRejects
        BY <2>2 DEF DestroyUnpublishes, DestroyRejects, owner
    <2>3. CASE DestroyShelters
        <3>1. /\ rpc[Ui] = "sheltering" /\ rpc'[Ui] = "sheltered"
              /\ UNCHANGED <<opc, stopping, removed, agent>>
            BY <2>3 DEF DestroyShelters, owner
        <3>2. opc \notin Creating \cup Reaping \cup {"draining", "cleaning"}
            BY <2>3, <3>1 DEF DestroyShelters, LeaseInv
        <3>3. removed \/ opc = "retaining" => stopping
            BY <3>1
        <3>4. retention => opc = "retained" \/ (opc = "retaining" /\ stopping)
            BY <3>1
        <3>5. \/ lifecycle' = DestroyRequested /\ UNCHANGED retention
              \/ lifecycle' = Failed /\ retention'
            BY <2>3 DEF DestroyShelters
        <3> QED BY <3>1, <3>2, <3>3, <3>4, <3>5
    <2> QED BY <1>3, <2>1, <2>2, <2>3 DEF Destroy
<1>4. CASE Create
    BY <1>4 DEF Create, CreateBegins, CreateSucceeds,
        CreatePublishes, CreateFails, UiFree, LeaseInv, lease
<1>5. CASE Retire
    BY <1>5 DEF Retire, RetireUnpublishes, RetireRejects,
        RetireClaims, RequestedRemoval, RetireDrains, RetireCleans,
        RetireRefused, RetireTimesOut, RetireRetains, Retired, lease,
        LeaseInv
<1>6. CASE Reap
    BY <1>6 DEF Reap, ReapBegins, ReapDrains, GivenUp,
        ReapRejects, ReapDrainsStorage, ReapUnpublishes, ReapResets,
        ReapReopens, ReapReopensStorage, ReapFrees, lease
<1>7. CASE Stop
    BY <1>7 DEF Stop, StopBegins, FinalizeUnpublishes,
        FinalizeRejects, FinalizeDrains, lease
<1> QED BY <1>1, <1>2, <1>3, <1>4, <1>5, <1>6, <1>7 DEF Next

-----------------------------------------------------------------------------
(* The gates.                                                              *)

(* Who uses a gate depends on who is inside with a lease of its kind.      *)
LEMMA UsersSame ==
    ASSUME NEW k,
           \A t \in Threads : (rpc'[t] \in Inside /\ kind'[t] = k)
                              <=> (rpc[t] \in Inside /\ kind[t] = k)
    PROVE  Users(k)' = Users(k)
BY DEF Users, Inside, Holding

(* A thread that entered is one more user, of its kind of gate only.       *)
LEMMA UserEnters ==
    ASSUME TypeOK, NEW t \in Threads, rpc[t] = "loaded",
           rpc' = [rpc EXCEPT ![t] = "entered"], UNCHANGED kind
    PROVE  /\ Cardinality(Users(kind[t])') = Cardinality(Users(kind[t])) + 1
           /\ \A k \in Kinds \ {kind[t]} : Users(k)' = Users(k)
<1>1. Users(kind[t])' = Users(kind[t]) \cup {t} /\ t \notin Users(kind[t])
    BY DEF Users, Inside, Holding, TypeOK
<1>2. \A k \in Kinds \ {kind[t]} : Users(k)' = Users(k)
    BY DEF Users, Inside, Holding, TypeOK
<1> QED BY <1>1, <1>2, UsersCounted, FS_AddElement

(* A thread that left is one user fewer.                                   *)
LEMMA UserLeaves ==
    ASSUME TypeOK, NEW t \in Threads,
           rpc[t] \in {"holding", "leaving", "sheltered"},
           rpc' = [rpc EXCEPT ![t] = "idle"], UNCHANGED kind
    PROVE  /\ Cardinality(Users(kind[t])') = Cardinality(Users(kind[t])) - 1
           /\ Cardinality(Users(kind[t])) # 0
           /\ Users(kind[t])' \subseteq Users(kind[t])
           /\ \A k \in Kinds \ {kind[t]} : Users(k)' = Users(k)
<1>1. Users(kind[t])' = Users(kind[t]) \ {t} /\ t \in Users(kind[t])
    BY DEF Users, Inside, Holding, TypeOK
<1>2. \A k \in Kinds \ {kind[t]} : Users(k)' = Users(k)
    BY DEF Users, Inside, Holding, TypeOK
<1> QED BY <1>1, <1>2, UsersCounted, FS_RemoveElement

(* No step of a lease makes a gate that was exact inexact, reopens one, or *)
(* brings somebody into one that is closed.                                *)
Follows(gate, next, k) ==
    InFlight(gate) = Cardinality(Users(k)) =>
        /\ InFlight(next) = Cardinality(Users(k)')
        /\ Closed(gate) => Closed(next) /\ Users(k)' \subseteq Users(k)

(* A step of a lease moves the count of a gate with its users.             *)
LEMMA LeaseFollows ==
    ASSUME TypeOK, NEW t \in Threads, Lease(t)
    PROVE  /\ Follows(callbacks, callbacks', "callback")
           /\ Follows(stored, stored', "storage")
<1> USE DEF Follows
<1>1. callbacks \in Gate /\ stored \in Gate /\ kind[t] \in Kinds
    BY DEF TypeOK, Gate
<1>2. CASE Loads(t) \/ Rechecks(t) \/ (Enters(t) /\ rpc'[t] = "idle")
    <2>1. \A k \in Kinds : Users(k)' = Users(k)
        BY <1>2, UsersSame DEF Loads, Rechecks, Enters, Inside, Holding, TypeOK
    <2>2. UNCHANGED <<callbacks, stored>>
        BY <1>2 DEF Loads, Rechecks, Enters, gates, TypeOK
    <2> QED BY <2>1, <2>2 DEF Kinds
<1>3. CASE Enters(t) /\ rpc'[t] = "entered"
    <2>1. /\ rpc[t] = "loaded" /\ rpc' = [rpc EXCEPT ![t] = "entered"]
          /\ UNCHANGED kind
        BY <1>3 DEF Enters, TypeOK
    <2>2. \/ /\ kind[t] = "callback" /\ CanEnter(callbacks)
             /\ callbacks' = callbacks + 1 /\ stored' = stored
          \/ /\ kind[t] = "storage" /\ CanEnter(stored)
             /\ stored' = stored + 1 /\ callbacks' = callbacks
        BY <1>1, <1>3 DEF Enters, TypeOK, Kinds
    <2>3. \A gate \in Gate : CanEnter(gate) => ~Closed(gate)
        BY DEF CanEnter
    <2> QED BY <1>1, <2>1, <2>2, <2>3, UserEnters, GateEnters DEF Kinds
<1>4. CASE Leaves(t)
    <2>1. \/ /\ kind[t] = "callback"
             /\ callbacks' = Leave(callbacks) /\ stored' = stored
          \/ /\ kind[t] = "storage"
             /\ stored' = Leave(stored) /\ callbacks' = callbacks
        BY <1>1, <1>4 DEF Leaves, Kinds
    <2> QED BY <1>1, <1>4, <2>1, UserLeaves, GateLeaves DEF Kinds, Leaves
<1>5. Enters(t) => rpc'[t] \in {"idle", "entered"}
    BY DEF Enters, TypeOK
<1> QED BY <1>2, <1>3, <1>4, <1>5 DEF Lease

(* The destroy handler keeps its callback lease, and the owner takes none. *)
LEMMA OthersStay ==
    ASSUME TypeOK, Destroy \/ Owner, NEW k
    PROVE  Users(k)' = Users(k)
<1>1. CASE Destroy
    BY <1>1, ThreadsAssumption DEF Destroy, DestroyClaims, DestroyUnpublishes,
        DestroyRejects, DestroyShelters, Users, Inside, Holding, TypeOK
<1>2. CASE Owner
    <2>1. UNCHANGED lease
        BY <1>2 DEF Owner, Create, CreateBegins, CreateSucceeds, CreatePublishes,
            CreateFails, Retire, RetireUnpublishes, RetireRejects,
            RetireClaims, RequestedRemoval, RetireDrains, RetireCleans,
            RetireRefused, RetireTimesOut, RetireRetains, Retired, Reap,
            ReapBegins, ReapDrains, ReapRejects, ReapDrainsStorage,
            ReapUnpublishes, ReapResets, ReapReopens, ReapReopensStorage,
            ReapFrees, Stop, StopBegins, FinalizeUnpublishes, FinalizeRejects,
            FinalizeDrains
    <2> QED BY <2>1, UsersSame DEF lease
<1> QED BY <1>1, <1>2

(* The storage gate is exact on every path.                                *)
LEMMA StorageKept ==
    ASSUME SlotInvariant, [Next]_vars
    PROVE  StorageInv'
<1> USE DEF SlotInvariant, StorageInv
<1>1. stored \in Gate
    BY DEF TypeOK, Gate
<1>2. CASE UNCHANGED vars
    BY <1>2, UsersSame DEF vars
<1>3. ASSUME NEW t \in Threads, Lease(t) PROVE StorageInv'
    <2>1. UNCHANGED opc
        BY <1>3 DEF Lease, Loads, Enters, Rechecks, Leaves, owner
    <2> QED BY <1>3, <2>1, LeaseFollows DEF Follows
<1>4. CASE Destroy
    <2>1. UNCHANGED <<opc, stored>>
        BY <1>4 DEF Destroy, DestroyClaims, DestroyUnpublishes,
            DestroyRejects, DestroyShelters, owner, gates
    <2> QED BY <1>4, <2>1, OthersStay
<1>5. CASE Create
    <2>1. Users("storage")' = Users("storage")
        BY <1>5, OthersStay DEF Owner
    <2> QED BY <1>5, <2>1 DEF Create, CreateBegins, CreateSucceeds,
            CreatePublishes, CreateFails, gates
<1>6. CASE Retire
    <2>1. Users("storage")' = Users("storage")
        BY <1>6, OthersStay DEF Owner
    <2> QED BY <1>6, <2>1 DEF Retire, RetireUnpublishes, RetireRejects,
            RetireClaims, RequestedRemoval, RetireDrains, RetireCleans,
            RetireRefused, RetireTimesOut, RetireRetains, Retired, gates
<1>7. CASE Reap
    <2>1. Users("storage")' = Users("storage")
        BY <1>7, OthersStay DEF Owner
    <2> QED BY <1>1, <1>7, <2>1, GateRejects, GateReset, UsersCounted
        DEF Reap, ReapBegins, ReapDrains, ReapRejects, ReapDrainsStorage,
            ReapUnpublishes, ReapResets, ReapReopens, ReapReopensStorage,
            ReapFrees, GivenUp, gates
<1>8. CASE Stop
    <2>1. Users("storage")' = Users("storage")
        BY <1>8, OthersStay DEF Owner
    <2> QED BY <1>1, <1>8, <2>1, GateRejects, UsersCounted DEF Stop, StopBegins,
            FinalizeUnpublishes, FinalizeRejects, FinalizeDrains, gates
<1> QED BY <1>2, <1>3, <1>4, <1>5, <1>6, <1>7, <1>8 DEF Next

(* The callback gate is, unless a creation failed halfway.                 *)
LEMMA CallbackKept ==
    ASSUME SlotInvariant, [Next]_vars
    PROVE  CallbackInv'
<1> USE DEF SlotInvariant, CallbackInv, RegistryInv, Creating, Retiring,
        Reaping, Emptied, Finalizing
<1> USE DEF Active, Cleaning, Cleaned, Failed, DestroyRequested, gates, slot
<1>1. callbacks \in Gate /\ lifecycle \in Active..DestroyRequested
    BY DEF TypeOK, Gate
<1>2. CASE UNCHANGED vars
    BY <1>2, UsersSame DEF vars
<1>3. ASSUME NEW t \in Threads, Lease(t) PROVE CallbackInv'
    <2>1. UNCHANGED <<opc, removed, lifecycle, partial>>
        BY <1>3 DEF Lease, Loads, Enters, Rechecks, Leaves, owner
    <2>2. rpc'[Ui] = "sheltering" => rpc[Ui] = "sheltering"
        BY <1>3, ThreadsAssumption DEF Lease, Loads, Enters, Rechecks, Leaves,
            TypeOK
    <2> QED BY <1>3, <2>1, <2>2, LeaseFollows DEF Follows
<1>4. CASE Destroy
    <2>1. Users("callback")' = Users("callback")
        BY <1>4, OthersStay
    <2> QED BY <1>1, <1>4, <2>1, GateRejects, ThreadsAssumption DEF Destroy,
        DestroyClaims, DestroyUnpublishes, DestroyRejects, DestroyShelters,
        owner, TypeOK
<1>5. CASE Create
    <2>1. Users("callback")' = Users("callback") /\ UNCHANGED rpc
        BY <1>5, OthersStay DEF Owner, Create, CreateBegins, CreateSucceeds,
            CreatePublishes, CreateFails, lease
    <2> QED BY <1>5, <2>1 DEF Create, CreateBegins, CreateSucceeds,
            CreatePublishes, CreateFails
<1>6. CASE Retire
    <2>1. Users("callback")' = Users("callback")
        BY <1>6, OthersStay DEF Owner
    <2> QED BY <1>1, <1>6, <2>1, GateRejects, UsersCounted
        DEF Retire, RetireUnpublishes, RetireRejects,
            RetireClaims, RequestedRemoval, RetireDrains, RetireCleans,
            RetireRefused, RetireTimesOut, RetireRetains, Retired, lease
<1>7. CASE Reap
    <2>1. Users("callback")' = Users("callback")
        BY <1>7, OthersStay DEF Owner
    <2> QED BY <1>1, <1>7, <2>1, GateReset, UsersCounted
        DEF Reap, ReapBegins, ReapDrains, ReapRejects, ReapDrainsStorage,
            ReapUnpublishes, ReapResets, ReapReopens, ReapReopensStorage,
            ReapFrees, GivenUp, lease, LifecycleInv, Claiming
<1>8. CASE Stop
    <2>1. Users("callback")' = Users("callback")
        BY <1>8, OthersStay DEF Owner
    <2> QED BY <1>8, <2>1 DEF Stop, StopBegins,
            FinalizeUnpublishes, FinalizeRejects, FinalizeDrains, lease
<1> QED BY <1>2, <1>3, <1>4, <1>5, <1>6, <1>7, <1>8 DEF Next

(* A lease pins its tenant: the two steps that change the tenant find      *)
(* nobody pinning one.                                                     *)
LEMMA PinKept ==
    ASSUME SlotInvariant, [Next]_vars
    PROVE  PinInv'
<1> USE DEF SlotInvariant, PinInv, Pinned, Holding, slot
<1>1. CASE UNCHANGED vars
    BY <1>1 DEF vars
<1>2. ASSUME NEW t \in Threads, Lease(t) PROVE PinInv'
    <2>1. UNCHANGED <<tenant, partial>>
        BY <1>2 DEF Lease, Loads, Enters, Rechecks, Leaves
    <2>2. \A u \in Threads \ {t} : /\ rpc'[u] = rpc[u] /\ kind'[u] = kind[u]
                                   /\ seen'[u] = seen[u] /\ leased'[u] = leased[u]
        BY <1>2 DEF Lease, Loads, Enters, Rechecks, Leaves, TypeOK
    <2>3. rpc'[t] \in Holding => Rechecks(t)
        BY <1>2 DEF Lease, Loads, Enters, Rechecks, Leaves, TypeOK
    <2>4. Rechecks(t) /\ rpc'[t] \in Holding =>
              seen'[t] = tenant /\ leased'[t] = tenant /\ tenant # 0
        BY DEF Rechecks, TypeOK, EpochInv, LeaseInv
    <2> QED BY <2>1, <2>2, <2>3, <2>4
<1>3. CASE Destroy
    BY <1>3, ThreadsAssumption DEF Destroy, DestroyClaims, DestroyUnpublishes,
        DestroyRejects, DestroyShelters, TypeOK
<1>4. CASE Owner /\ UNCHANGED tenant
    <2>1. UNCHANGED lease /\ (partial => partial')
        BY <1>4 DEF Owner, Create, CreateBegins, CreateSucceeds, CreatePublishes,
            CreateFails, Retire, RetireUnpublishes, RetireRejects,
            RetireClaims, RequestedRemoval, RetireDrains, RetireCleans,
            RetireRefused, RetireTimesOut, RetireRetains, Retired, Reap,
            ReapBegins, ReapDrains, ReapRejects, ReapDrainsStorage,
            ReapUnpublishes, ReapResets, ReapReopens, ReapReopensStorage,
            ReapFrees, Stop, StopBegins, FinalizeUnpublishes, FinalizeRejects,
            FinalizeDrains
    <2> QED BY <1>4, <2>1 DEF lease
<1>5. CASE CreateBegins
    <2>1. tenant = 0
        BY <1>5 DEF CreateBegins, RegistryInv
    <2> QED BY <1>5, <2>1 DEF CreateBegins, lease
<1>6. CASE ReapResets
    <2>1. Users("storage") = {} /\ (~partial => Users("callback") = {})
        BY <1>6 DEF ReapResets, StorageInv, CallbackInv
    <2>2. \A t \in Threads : ~Pinned(t)
        BY <2>1 DEF Users, Inside, TypeOK, Kinds
    <2> QED BY <1>6, <2>2 DEF ReapResets, lease
<1>7. Owner => UNCHANGED tenant \/ CreateBegins \/ ReapResets
    BY DEF Owner, Create, CreateSucceeds, CreatePublishes,
        CreateFails, Retire, RetireUnpublishes, RetireRejects,
        RetireClaims, RequestedRemoval, RetireDrains, RetireCleans,
        RetireRefused, RetireTimesOut, RetireRetains, Retired, Reap,
        ReapBegins, ReapDrains, ReapRejects, ReapDrainsStorage,
        ReapUnpublishes, ReapReopens, ReapReopensStorage,
        ReapFrees, Stop, StopBegins, FinalizeUnpublishes, FinalizeRejects,
        FinalizeDrains
<1> QED BY <1>1, <1>2, <1>3, <1>4, <1>5, <1>6, <1>7 DEF Next, Owner

(* The window counts while it is published and not yet destroyed.          *)
LEMMA CountKept ==
    ASSUME SlotInvariant, [Next]_vars
    PROVE  CountInv'
<1> USE ThreadsAssumption DEF SlotInvariant, TypeOK, RegistryInv, LifecycleInv,
        Creating, Retiring, Reaping, Emptied, Finalizing, Claiming, Runs,
        CountInv, Undisturbed, Counted
<1> USE DEF Active, Cleaning, Cleaned, Failed, DestroyRequested, slot
<1>1. CASE UNCHANGED vars
    BY <1>1 DEF vars
<1>2. ASSUME NEW t \in Threads, Lease(t) PROVE CountInv'
    BY <1>2 DEF Lease, Loads, Enters, Rechecks, Leaves, owner
<1>3. CASE Destroy
    <2>1. rpc[Ui] \in Holding /\ opc \notin Creating
        BY <1>3 DEF Destroy, DestroyClaims, DestroyUnpublishes,
            DestroyRejects, DestroyShelters, Holding, LeaseInv
    <2>2. ~partial => occupied \/ removed
        BY <2>1 DEF PinInv, Pinned
    <2>3. CASE DestroyClaims
        BY <2>1, <2>2, <2>3 DEF DestroyClaims, owner
    <2>4. CASE DestroyUnpublishes
        BY <2>4 DEF DestroyUnpublishes, owner
    <2>5. CASE DestroyRejects
        BY <2>5 DEF DestroyRejects, owner
    <2>6. CASE DestroyShelters
        BY <2>1, <2>2, <2>6 DEF DestroyShelters, owner
    <2> QED BY <1>3, <2>3, <2>4, <2>5, <2>6 DEF Destroy
<1>4. CASE Create
    BY <1>4 DEF Create, CreateBegins, CreateSucceeds,
        CreatePublishes, CreateFails, UiFree, LeaseInv, lease
<1>5. CASE Retire
    BY <1>5 DEF Retire, RetireUnpublishes, RetireRejects,
        RetireClaims, RequestedRemoval, RetireDrains, RetireCleans,
        RetireRefused, RetireTimesOut, RetireRetains, Retired, lease,
        LeaseInv
<1>6. CASE Reap
    BY <1>6 DEF Reap, ReapBegins, ReapDrains, GivenUp,
        ReapRejects, ReapDrainsStorage, ReapUnpublishes, ReapResets,
        ReapReopens, ReapReopensStorage, ReapFrees, lease
<1>7. CASE Stop
    BY <1>7 DEF Stop, StopBegins, FinalizeUnpublishes,
        FinalizeRejects, FinalizeDrains, lease
<1> QED BY <1>1, <1>2, <1>3, <1>4, <1>5, <1>6, <1>7 DEF Next

-----------------------------------------------------------------------------
(* The theorems.                                                           *)

(* The invariant that carries the others: at each location of the owner,   *)
(* what the registry, the lifecycle, the leases and the gates are.         *)
THEOREM SlotInvariantHolds == Spec => []SlotInvariant
<1>1. Init => SlotInvariant
    BY SlotStarts
<1>2. SlotInvariant /\ [Next]_vars => SlotInvariant'
    <2> SUFFICES ASSUME SlotInvariant, [Next]_vars PROVE SlotInvariant'
        OBVIOUS
    <2>1. TypeOK'
        BY SlotTyped DEF SlotInvariant
    <2> QED BY <2>1, LeaseKept, RegistryKept, EpochKept, LifecycleKept,
                StorageKept, CallbackKept, PinKept, CountKept, Zenon
            DEF SlotInvariant
<1> QED BY <1>1, <1>2, PTL DEF Spec

(* Every variable keeps its type; a gate's word stays within its 64 bits.  *)
THEOREM SlotTypesHold == Spec => []TypeOK
<1>1. SlotInvariant => TypeOK
    BY DEF SlotInvariant
<1> QED BY <1>1, SlotInvariantHolds, PTL

(* A callback or storage lease pins the tenant it was granted for          *)
(* (AcquireProcessWindowCallbackAt, AcquireProcessWindowStorageAt), and a  *)
(* finalized runtime has neither a tenant nor a lease.                     *)
THEOREM LeasesPinTheirTenant == Spec => []LeaseKeepsTenant
<1>1. SlotInvariant => LeaseKeepsTenant
    <2> SUFFICES ASSUME SlotInvariant PROVE LeaseKeepsTenant
        OBVIOUS
    <2>1. opc = "finalized" => tenant = 0 /\ admission = 0 /\ storage = 0
        BY DEF SlotInvariant, RegistryInv, EpochInv, Finalizing
    <2>2. opc = "finalized" => Closed(stored)
        BY DEF SlotInvariant, StorageInv
    <2>3. \A t \in Threads : Pinned(t) =>
              tenant = leased[t] /\ leased[t] = seen[t] /\ tenant # 0
        BY DEF SlotInvariant, PinInv
    <2> QED BY <2>1, <2>2, <2>3 DEF LeaseKeepsTenant
<1> QED BY <1>1, SlotInvariantHolds, PTL

(* CleanupWindow runs while no callback holds a lease, unless a creation   *)
(* failed halfway.                                                         *)
THEOREM CleanupRunsAlone == Spec => []CleanupAloneUnlessPartial
<1>1. SlotInvariant => CleanupAloneUnlessPartial
    BY DEF SlotInvariant, CallbackInv, CleanupAloneUnlessPartial, CleanupAlone,
        Users, Inside
<1> QED BY <1>1, SlotInvariantHolds, PTL

(* rundown_ counts the threads inside, for any number of threads that fits *)
(* and any number of tenants.                                              *)
THEOREM GatesStayExact == Spec => []GatesExact
<1>1. SlotInvariant => GatesExact
    BY DEF SlotInvariant, CallbackInv, StorageInv, GatesExact
<1> QED BY <1>1, SlotInvariantHolds, PTL

(* active_count_ agrees with admission between operations.                 *)
THEOREM ActiveCountStaysExact == Spec => []ActiveCountExact
<1>1. SlotInvariant => ActiveCountExact
    <2> SUFFICES ASSUME SlotInvariant, opc = "idle", ~retention, ~partial,
                        rpc[Ui] \in {"idle", "loaded"}
                 PROVE  count = IF admission # 0 THEN 1 ELSE 0
        BY DEF ActiveCountExact
    <2> USE DEF SlotInvariant, Active, Cleaning, Cleaned, Failed,
            DestroyRequested
    <2>1. count = IF Counted THEN 1 ELSE 0
        BY DEF CountInv, Undisturbed
    <2>2. admission # 0 => Counted
        BY DEF EpochInv, RegistryInv, Counted, Creating
    <2>3. Counted => occupied /\ ~removed /\ lifecycle \in {Active, Cleaning,
                                                            Cleaned, Failed}
        BY DEF Counted, RegistryInv, TypeOK
    <2>4. Counted => lifecycle = Active
        BY <2>3 DEF CountInv, Undisturbed, LifecycleInv, Claiming
    <2>5. Counted => admission # 0
        BY <2>3, <2>4 DEF EpochInv
    <2> QED BY <2>1, <2>2, <2>5
<1> QED BY <1>1, SlotInvariantHolds, PTL

(* Reset takes a tenant out only after its cleanup succeeded and while the *)
(* DLL is not retained: a failed slot never gets another window.           *)
THEOREM SlotFailsClosed == Spec => FailsClosed
<1>1. SlotInvariant /\ [Next]_vars =>
          [tenant # 0 /\ tenant' # tenant =>
              lifecycle = Cleaned /\ ~retention]_vars
    <2> SUFFICES ASSUME SlotInvariant, [Next]_vars,
                        tenant # 0, tenant' # tenant
                 PROVE  lifecycle = Cleaned /\ ~retention
        OBVIOUS
    <2>1. CreateBegins \/ ReapResets
        BY DEF Next, vars, slot, Lease, Loads, Enters, Rechecks, Leaves, Destroy,
            DestroyClaims, DestroyUnpublishes, DestroyRejects, DestroyShelters,
            Create, CreateSucceeds, CreatePublishes, CreateFails, Retire,
            RetireUnpublishes, RetireRejects, RetireClaims, RequestedRemoval,
            RetireDrains, RetireCleans, RetireRefused, RetireTimesOut,
            RetireRetains, Retired, Reap, ReapBegins, ReapDrains, ReapRejects,
            ReapDrainsStorage, ReapUnpublishes, ReapReopens,
            ReapReopensStorage, ReapFrees, Stop, StopBegins,
            FinalizeUnpublishes, FinalizeRejects, FinalizeDrains
    <2>2. ~CreateBegins
        BY DEF CreateBegins, SlotInvariant, RegistryInv
    <2> QED BY <2>1, <2>2 DEF ReapResets, SlotInvariant, LifecycleInv, Reaping,
            Cleaned, Failed
<1> QED BY <1>1, SlotInvariantHolds, PTL DEF Spec, FailsClosed

=============================================================================
