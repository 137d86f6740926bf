\* Nothing fails: every call succeeds, every wait is answered in time.
CONSTANTS
    Windows = {w1, w2}
    First = w1
    NoWindow = none
    MaxSlots = 2
    MaxGen = 2
    MaxToken = 3
    MayFail = FALSE
SPECIFICATION Spec
PROPERTIES
    ClosingKeepsSession
