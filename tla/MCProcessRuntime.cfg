\* Two windows, each with a UI thread; the second may be opened, and both
\* closed and reopened with the same handle. Two slots, two generations of a
\* handle and two control messages: enough to replace a window, to fill the
\* slots, and to leave the handler of one message behind.
CONSTANTS
    Windows = {w1, w2}
    First = w1
    NoWindow = none
    MaxSlots = 2
    MaxGen = 2
    MaxToken = 2
    MayFail = TRUE
SPECIFICATION FairSpec
INVARIANTS
    OnePanePerWindow
    AckTruthful
    UnloadIsQuiet
    MirrorServed
PROPERTIES
    PendingStable
    WorkerReturns
