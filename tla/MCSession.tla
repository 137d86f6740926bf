-------------------------------- MODULE MCSession --------------------------------
(* Two windows on two threads of one process.                              *)
EXTENDS ExplorerSession, TLC

CONSTANTS w1, w2, u1, u2

MCWindows == {w1, w2}
MCThreads == {u1, u2}
Same == Permutations(MCWindows) \cup Permutations(MCThreads)
=============================================================================
