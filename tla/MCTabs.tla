--------------------------------- MODULE MCTabs ---------------------------------
(* The tabs of one window, interchangeable.                                *)
EXTENDS TabSubclassSet, TLC

CONSTANTS t1, t2, t3

TabHandles == {t1, t2, t3}
SameTabs == Permutations(TabHandles)
=============================================================================
