------------------------------- MODULE EventReducer -------------------------------
(***************************************************************************)
(* The reducer turns an event about a window into a record of what the     *)
(* window's active view was before and is now. It knows the windows that   *)
(* were there when the observer started, and between BeginRemap and        *)
(* CompleteRemap it holds the one event whose record is not finished. The  *)
(* views themselves are left out, and so are the methods that only the     *)
(* tests call.                                                             *)
(***************************************************************************)
EXTENDS ShellSubscriptions

CONSTANTS Strangers     \* windows that are opened later

VARIABLES reducer

Windows == Targets \cup Strangers

Reducer == [windows : SUBSET Targets,
            remap : 0..MaxCallbacks]    \* pending_remap_: its event, or 0

ReducerInit == reducer = [windows |-> {}, remap |-> 0]

(* Every window of the first capture is seeded, with as many tabs as were  *)
(* counted in it; then the baseline is closed.                             *)
Unseeded(r) == Targets \ r.windows
SeedWindow(r, window) == [r EXCEPT !.windows = @ \cup {window}]

(* An event of a window that was not seeded is refused.                    *)
MayBeginRemap(r, window) == r.remap = 0 /\ window \in r.windows
BeginRemap(r, sequence) == [r EXCEPT !.remap = sequence]

MayCompleteRemap(r) == r.remap # 0
CompleteRemap(r) == [r EXCEPT !.remap = 0]
=============================================================================
