----------------------------- MODULE SessionContract -----------------------------
(***************************************************************************)
(* What a session with one Explorer process promises to its owner: as long *)
(* as it is fresh it has touched nothing, and once it has stopped it has   *)
(* left nothing. A session that has lost track of its process says so, by  *)
(* refusing every call from then on.                                       *)
(***************************************************************************)
VARIABLES
    phase,      \* "fresh", "live", "lost" or "stopped"
    residue     \* the process holds a hook or the module of ours

contractVars == <<phase, residue>>

ContractInit == phase = "fresh" /\ residue = FALSE

(* The first window of the process is attached.                            *)
Attaches == phase = "fresh" /\ phase' = "live" /\ residue' \in BOOLEAN

(* Hooks come and go while the session is live, or lost.                   *)
Works == phase \in {"live", "lost"} /\ residue' \in BOOLEAN /\ UNCHANGED phase

Loses ==
    /\ phase \in {"fresh", "live"} /\ phase' = "lost"
    /\ residue' \in BOOLEAN

Stops ==
    /\ phase = "fresh" \/ (phase = "live" /\ ~residue)
    /\ phase' = "stopped" /\ UNCHANGED residue

ContractNext == Attaches \/ Works \/ Loses \/ Stops

ContractSpec == ContractInit /\ [][ContractNext]_contractVars
=============================================================================
