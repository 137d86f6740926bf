------------------------------ MODULE MCTabIdentity ------------------------------
(* Two windows, two tabs and two browsers, interchangeable.                *)
EXTENDS TabIdentity, TLC

CONSTANTS w1, w2, t1, t2, b1, b2

MCTops == {w1, w2}
MCTabs == {t1, t2}
MCBrowsers == {b1, b2}
Same == Permutations(MCTops) \cup Permutations(MCTabs)
        \cup Permutations(MCBrowsers)
=============================================================================
