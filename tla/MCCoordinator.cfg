\* Three processes and three sessions: a session in the middle of the order can
\* fail with others before and after it, and a process can come back. No symmetry,
\* because a liveness property is checked. Once the loop has returned nothing is
\* left to do.
CONSTANTS
    Pids = {p1, p2, p3}
    MaxSessions = 3
SPECIFICATION CoordinatorSpec
INVARIANTS
    NothingDropped
    FailedIsLeftAlone
    PassIsClean
    SeenIsServed
PROPERTIES
    StopAnswered
CHECK_DEADLOCK FALSE
