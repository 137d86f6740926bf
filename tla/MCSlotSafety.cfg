\* Two tenants in one slot, its UI thread and two other hooked threads; every
\* creation, shelter, cleanup and wait may fail.
SPECIFICATION Spec
CONSTANTS
    ui = ui
    t1 = t1
    t2 = t2
    Threads = {ui, t1, t2}
    Ui = ui
    Limit = 4
    MaxEpoch = 2
INVARIANTS
    LeaseKeepsTenant
    CleanupAloneUnlessPartial
    GatesExact
    ActiveCountExact
PROPERTIES
    FailsClosed
SYMMETRY OtherThreads
\* A finalized or retained runtime leaves nothing to do.
CHECK_DEADLOCK FALSE
