-------------------------------- MODULE MCObserver --------------------------------
(* Three tabs, two of which are one browser in one window and then in      *)
(* another; one window of the first capture, and one that is opened later. *)
EXTENDS ObserverRuntime

CONSTANTS t1, t2, t3, a, b

MCTabs == {t1, t2, t3}
MCBrowser(t) == IF t = t3 THEN b ELSE a
=============================================================================
