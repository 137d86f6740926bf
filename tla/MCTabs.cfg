\* Three tab handles and three generations: a handle is reused, a reused handle
\* fails half way, and a stale generation is offered.
CONSTANTS
    t1 = t1
    t2 = t2
    t3 = t3
    Tabs <- TabHandles
    MaxGen = 3
SYMMETRY SameTabs
SPECIFICATION Spec
INVARIANTS
    NoUntrackedCallback
    SafeMeansExact
    RetiredStaysRetired
