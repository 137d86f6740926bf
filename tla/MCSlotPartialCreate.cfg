\* A creation may fail after the slot is occupied; the third tenant is cleaned too early.
SPECIFICATION Spec
CONSTANTS
    ui = ui
    t1 = t1
    t2 = t2
    Threads = {ui, t1, t2}
    Ui = ui
    Limit = 4
    MaxEpoch = 3
INVARIANTS
    CleanupAlone
\* A finalized or retained runtime leaves nothing to do.
CHECK_DEADLOCK FALSE
