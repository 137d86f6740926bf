\* One layout change after the first placement request.
SPECIFICATION FairSpec
CONSTANTS
    MaxLayout = 2
PROPERTIES
    RefreshNotLost
\* A closed window and an unchanging layout leave nothing to do.
CHECK_DEADLOCK FALSE
