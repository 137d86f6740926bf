\* Three tabs of two browsers; one window of the startup (w) and one that is
\* opened later (v); two callbacks and two faults, so that a rollback can fail
\* too. The observer stops at "done": there the system really ends.
CONSTANTS
    t1 = t1
    t2 = t2
    t3 = t3
    a = a
    b = b
    Tabs <- MCTabs
    Browser <- MCBrowser
    Targets = {w}
    Strangers = {v}
    MaxCallbacks = 2
    MaxFaults = 2
SPECIFICATION Spec
INVARIANTS
    RecordedInOrder
    NothingSkipped
    NeverSleepsOnWork
    AnswerOnTheWay
    NothingLeftUnsaid
PROPERTIES
    AllOrNothing
    Finishes
CHECK_DEADLOCK FALSE
