------------------------------- MODULE TabIdentity -------------------------------
(***************************************************************************)
(* How the Host tells the tabs of Explorer apart. Window handles are       *)
(* reused, so each capture of all tabs is compared with the one before:    *)
(* what is the same tab (its handle, its window and its IShellBrowser)     *)
(* keeps its generation, everything else gets the next one of its handle.  *)
(* The generations go to the DLL, which refuses a tab set that it takes    *)
(* for stale or malformed.                                                 *)
(*                                                                         *)
(* A capture looks at Explorer twice, first at the windows and then at the *)
(* shell's list of browsers, while Explorer goes on. A capture that does   *)
(* not add up ends the Host.                                               *)
(***************************************************************************)
EXTENDS Integers, FiniteSets, Functions

CONSTANTS
    TopLevels,  \* handles of top-level windows
    Tabs,       \* handles of tabs
    Browsers,   \* canonical identities of IShellBrowser objects
    MaxGen      \* the last generation

ASSUME MaxGenAssumption == MaxGen \in Nat \ {0}

VARIABLES
    explorer,   \* the window and the browser of every tab that exists
    pc,         \* "idle", "joining" between the two looks, or "failed"
    orders,     \* local of Capture: the tabs of the windows it has seen
    tabs,       \* BackgroundObserverTracker::tabs_
    latestTop,  \* generations_.latest_top_levels, 0 for a handle not there
    latestTab,  \* generations_.latest_shell_tabs
    published,  \* history: what each generation of a tab was given to
    runtime     \* the DLL: what it holds of the updates of each window

vars == <<explorer, pc, orders, tabs, latestTop, latestTab, published, runtime>>

Place == [top : TopLevels, browser : Browsers]
Identity == [tab : Tabs, top : TopLevels, browser : Browsers,
             topGen : 1..MaxGen, tabGen : 1..MaxGen]
Partial(S, T) == UNION {[D -> T] : D \in SUBSET S}
NoTabs == [t \in {} |-> 0]

(* A window the DLL holds: its generation, the tabs it holds and the last  *)
(* generation of every tab it ever held.                                   *)
Slot == [gen : 0..MaxGen, active : SUBSET Tabs, known : [Tabs -> 0..MaxGen]]
NoSlot == [gen |-> 0, active |-> {}, known |-> [t \in Tabs |-> 0]]

Init ==
    /\ explorer = NoTabs
    /\ pc = "idle" /\ orders = NoTabs
    /\ tabs = {} /\ published = {}
    /\ latestTop = [w \in TopLevels |-> 0]
    /\ latestTab = [t \in Tabs |-> 0]
    /\ runtime = [w \in TopLevels |-> NoSlot]

tracker == <<tabs, latestTop, latestTab, published, runtime>>

-----------------------------------------------------------------------------
(* Explorer. Neither a tab nor a browser is there twice.                   *)

TabOpens(t, w, b) ==
    /\ pc # "failed"
    /\ t \notin DOMAIN explorer
    /\ \A u \in DOMAIN explorer : explorer[u].browser # b
    /\ explorer' = [u \in DOMAIN explorer \cup {t} |->
                       IF u = t THEN [top |-> w, browser |-> b] ELSE explorer[u]]
    /\ UNCHANGED <<pc, orders, tracker>>

TabCloses(t) ==
    /\ pc # "failed"
    /\ t \in DOMAIN explorer
    /\ explorer' = Restrict(explorer, DOMAIN explorer \ {t})
    /\ UNCHANGED <<pc, orders, tracker>>

TabMoves(t, w) ==
    /\ pc # "failed"
    /\ t \in DOMAIN explorer /\ explorer[t].top # w
    /\ explorer' = [explorer EXCEPT ![t].top = w]
    /\ UNCHANGED <<pc, orders, tracker>>

-----------------------------------------------------------------------------
(* Capture.                                                                *)

(* The tabs of each window, as the class trees show them; a window whose   *)
(* tree does not pass is left out.                                         *)
CaptureOrders ==
    /\ pc = "idle"
    /\ \E seen \in SUBSET TopLevels :
          orders' = [t \in {u \in DOMAIN explorer : explorer[u].top \in seen} |->
                        explorer[t].top]
    /\ pc' = "joining"
    /\ UNCHANGED <<explorer, tracker>>

(* Every tab that was seen is among the shell's entries, at its window.    *)
Joins == \A t \in DOMAIN orders :
            t \in DOMAIN explorer /\ explorer[t].top = orders[t]

ActiveTops == {i.top : i \in tabs}

(* Mutant: a tab that is dragged elsewhere keeps its generation.           *)
RetainedAnywhere(t) ==
    {i \in tabs : i.tab = t /\ i.browser = explorer[t].browser}

(* IsExactIdentity: the tab is the one that the last capture saw.          *)
Retained(t) ==
    {i \in tabs : /\ i.tab = t
                  /\ i.browser = explorer[t].browser
                  /\ i.top = orders[t]}

(* Mutant: the generations start again with the first capture that sees    *)
(* the handle.                                                             *)
GenerationOfSeen(t) ==
    IF Retained(t) # {} THEN (CHOOSE i \in Retained(t) : TRUE).tabGen
    ELSE IF \E i \in tabs : i.tab = t THEN latestTab[t] + 1 ELSE 1

TopGeneration(w) ==
    IF w \in ActiveTops THEN (CHOOSE i \in tabs : i.top = w).topGen
    ELSE latestTop[w] + 1
TabGeneration(t) ==
    IF Retained(t) # {} THEN (CHOOSE i \in Retained(t) : TRUE).tabGen
    ELSE latestTab[t] + 1

GenerationsLeft ==
    /\ \A w \in Range(orders) \ ActiveTops : latestTop[w] < MaxGen
    /\ \A t \in DOMAIN orders : Retained(t) = {} => latestTab[t] < MaxGen

Current ==
    {[tab |-> t, top |-> orders[t], browser |-> explorer[t].browser,
      topGen |-> TopGeneration(orders[t]), tabGen |-> TabGeneration(t)] :
         t \in DOMAIN orders}

(* The DLL takes the update of a window; a new generation takes a new slot *)
(* and a window that is gone gives its slot back.                          *)
Applied(w, current) ==
    LET mine == {i \in current : i.top = w}
        gen == (CHOOSE i \in mine : TRUE).topGen
        old == IF runtime[w].gen = gen THEN runtime[w] ELSE NoSlot
        known == [t \in Tabs |->
                     IF \E i \in mine : i.tab = t
                     THEN (CHOOSE i \in mine : i.tab = t).tabGen
                     ELSE old.known[t]]
    IN  IF mine = {} THEN NoSlot
        ELSE [gen |-> gen, active |-> {i.tab : i \in mine}, known |-> known]

Name(i) == [tab |-> i.tab, gen |-> i.tabGen, top |-> i.top, browser |-> i.browser]

CaptureSucceeds ==
    /\ pc = "joining"
    /\ Joins /\ GenerationsLeft
    /\ tabs' = Current
    /\ latestTop' = [w \in TopLevels |->
                        IF w \in Range(orders) THEN TopGeneration(w)
                                               ELSE latestTop[w]]
    /\ latestTab' = [t \in Tabs |->
                        IF t \in DOMAIN orders THEN TabGeneration(t)
                                               ELSE latestTab[t]]
    /\ published' = published \cup {Name(i) : i \in Current}
    /\ runtime' = [w \in TopLevels |-> Applied(w, Current)]
    /\ pc' = "idle" /\ orders' = NoTabs
    /\ UNCHANGED explorer

CaptureFails ==
    /\ pc = "joining"
    /\ ~(Joins /\ GenerationsLeft)
    /\ pc' = "failed" /\ orders' = NoTabs
    /\ UNCHANGED <<explorer, tracker>>

Capture == CaptureOrders \/ CaptureSucceeds \/ CaptureFails

Next ==
    \/ \E t \in Tabs :
          \/ TabCloses(t)
          \/ \E w \in TopLevels :
                \/ TabMoves(t, w)
                \/ \E b \in Browsers : TabOpens(t, w, b)
    \/ Capture

Spec == Init /\ [][Next]_vars

-----------------------------------------------------------------------------
(* Every variable has its type.                                            *)
TypeOK ==
    /\ explorer \in Partial(Tabs, Place)
    /\ pc \in {"idle", "joining", "failed"}
    /\ orders \in Partial(Tabs, TopLevels)
    /\ tabs \subseteq Identity
    /\ published \subseteq
          [tab : Tabs, gen : 1..MaxGen, top : TopLevels, browser : Browsers]
    /\ latestTop \in [TopLevels -> 0..MaxGen]
    /\ latestTab \in [Tabs -> 0..MaxGen]
    /\ runtime \in [TopLevels -> Slot]

(* "Reuse of an HWND with a different canonical identity creates a new tab *)
(* generation": a handle and a generation never name two different tabs,   *)
(* however handles, browsers and windows are reused and whichever captures *)
(* missed a window.                                                        *)
GenerationsNameTabs ==
    \A i, j \in published : i.tab = j.tab /\ i.gen = j.gen => i = j

(* What the tracker publishes is what ValidateGenerations of the DLL       *)
(* accepts, which remembers every generation it was given for a tab of the *)
(* window: none goes back, and one that stays is of a tab that was there.  *)
Acceptable(i) ==
    LET slot == runtime[i.top]
    IN  slot.gen = i.topGen /\ slot.known[i.tab] # 0 =>
            /\ i.tabGen >= slot.known[i.tab]
            /\ i.tabGen = slot.known[i.tab] => i.tab \in slot.active
RuntimeAccepts == [][pc = "joining" => \A i \in tabs' : Acceptable(i)]_vars

(* ValidateTabSetUpdate refuses an update in which two tabs have the same  *)
(* generation; the production harness expects windows with two tabs to be  *)
(* updated.                                                                *)
UpdatesEncodable ==
    \A i, j \in tabs : i.top = j.top /\ i.tabGen = j.tabGen => i.tab = j.tab
=============================================================================
