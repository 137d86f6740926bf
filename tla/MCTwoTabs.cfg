\* The same instance: one window, two tabs.
CONSTANTS
    w1 = w1
    w2 = w2
    t1 = t1
    t2 = t2
    b1 = b1
    b2 = b2
    TopLevels <- MCTops
    Tabs <- MCTabs
    Browsers <- MCBrowsers
    MaxGen = 3
SYMMETRY Same
SPECIFICATION Spec
INVARIANTS
    UpdatesEncodable
CHECK_DEADLOCK FALSE
