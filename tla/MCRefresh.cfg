\* Four layout versions: three changes after the first placement request, so a
\* change meets every stage of the one before it, and every call may fail.
SPECIFICATION FairSpec
CONSTANTS
    MaxLayout = 4
INVARIANTS
    OneReflowMessage
    IngressNotLost
    StopIsFinal
PROPERTIES
    NoBusyLoop
    StopTerminates
    RefreshNotLostUnlessMerged
\* A closed window and an unchanging layout leave nothing to do.
CHECK_DEADLOCK FALSE
