\* Two windows that share a thread or not, two generations of a handle, and six
\* requests: enough for three reconciliations, and for the identifiers to run out.
\* The session may really come to rest: stopped, or uncertain for good.
CONSTANTS
    w1 = w1
    w2 = w2
    u1 = u1
    u2 = u2
    Windows <- MCWindows
    UiThreads <- MCThreads
    MaxLeases = 2
    MaxGen = 2
    Texts = {1, 2}
    NoTab = 0
    NoWindow = none
    MaxRequest = 6
SYMMETRY Same
SPECIFICATION Spec
INVARIANTS
    MirrorExact
    EveryHookHeld
    SignaledMeansUnhooked
PROPERTIES
    ReleaseOrder
    ImplementsContract
    NoHookAfterRelease
CHECK_DEADLOCK FALSE
