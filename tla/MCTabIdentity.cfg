\* Two tabs in two windows, two browsers to be reused, three generations. A
\* capture that fails ends the Host.
CONSTANTS
    w1 = w1
    w2 = w2
    t1 = t1
    t2 = t2
    b1 = b1
    b2 = b2
    TopLevels <- MCTops
    Tabs <- MCTabs
    Browsers <- MCBrowsers
    MaxGen = 3
SYMMETRY Same
SPECIFICATION Spec
INVARIANTS
    GenerationsNameTabs
PROPERTIES
    RuntimeAccepts
CHECK_DEADLOCK FALSE
