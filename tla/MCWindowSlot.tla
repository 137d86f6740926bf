----------------------------- MODULE MCWindowSlot -----------------------------
(* WindowSlot with named threads. *)
EXTENDS WindowSlot, TLC

CONSTANTS ui, t1, t2

OtherThreads == Permutations({t1, t2})
=============================================================================
