---------------------------- MODULE TabIdentityProofs ----------------------------
(***************************************************************************)
(* The safety properties of TabIdentity, for every set of windows, tabs    *)
(* and browsers and any number of generations. What carries them is that   *)
(* a tab of the last capture still has the latest generation of its        *)
(* handle: a generation is kept only by the tab that has it, and every     *)
(* other tab gets one that no name was ever given.                         *)
(***************************************************************************)
EXTENDS TabIdentity, TLAPS

(* The last capture saw a tab once, at its latest generation, and said so. *)
TabsInv ==
    /\ \A i, j \in tabs : i.tab = j.tab => i = j
    /\ \A i \in tabs : i.tabGen = latestTab[i.tab] /\ Name(i) \in published

(* No name is newer than the latest generation of its handle.              *)
NamesInv ==
    /\ \A n \in published : n.gen <= latestTab[n.tab]
    /\ GenerationsNameTabs

(* The DLL holds the tabs of the last capture, and remembers no generation *)
(* that the Host has not given.                                            *)
RuntimeInv ==
    \A w \in TopLevels :
        /\ \A t \in Tabs : runtime[w].known[t] <= latestTab[t]
        /\ \A i \in tabs : i.top = w => i.tab \in runtime[w].active

IdentityInvariant == TypeOK /\ TabsInv /\ NamesInv /\ RuntimeInv

-----------------------------------------------------------------------------
(* Explorer and the first look.                                            *)

(* A partial function is a function from some of the set.                  *)
LEMMA PartialIs ==
    ASSUME NEW S, NEW T, NEW f
    PROVE  f \in Partial(S, T) <=> DOMAIN f \subseteq S /\ f \in [DOMAIN f -> T]
<1>1. ASSUME f \in Partial(S, T)
      PROVE  DOMAIN f \subseteq S /\ f \in [DOMAIN f -> T]
    <2>1. PICK D \in SUBSET S : f \in [D -> T]
        BY <1>1 DEF Partial
    <2>2. DOMAIN f = D
        BY <2>1
    <2> QED BY <2>1, <2>2
<1>2. ASSUME DOMAIN f \subseteq S, f \in [DOMAIN f -> T]
      PROVE  f \in Partial(S, T)
    BY <1>2 DEF Partial
<1> QED BY <1>1, <1>2

(* What Explorer does leaves its tabs typed.                               *)
LEMMA ExplorerTyped ==
    ASSUME TypeOK, NEW t \in Tabs
    PROVE  /\ TabCloses(t) => explorer' \in Partial(Tabs, Place)
           /\ \A w \in TopLevels : TabMoves(t, w) =>
                 explorer' \in Partial(Tabs, Place)
           /\ \A w \in TopLevels, b \in Browsers : TabOpens(t, w, b) =>
                 explorer' \in Partial(Tabs, Place)
<1>1. DOMAIN explorer \subseteq Tabs /\ explorer \in [DOMAIN explorer -> Place]
    BY PartialIs DEF TypeOK
<1>2. ASSUME TabCloses(t)
      PROVE  explorer' \in Partial(Tabs, Place)
    <2>1. explorer' = [u \in DOMAIN explorer \ {t} |-> explorer[u]]
        BY <1>2 DEF TabCloses, Restrict
    <2>2. explorer' \in [DOMAIN explorer \ {t} -> Place]
        BY <1>1, <2>1
    <2> QED BY <1>1, <2>2 DEF Partial
<1>3. ASSUME NEW w \in TopLevels, TabMoves(t, w)
      PROVE  explorer' \in Partial(Tabs, Place)
    <2>1. [explorer[t] EXCEPT !.top = w] \in Place
        BY <1>1, <1>3 DEF TabMoves, Place
    <2>2. explorer' = [explorer EXCEPT ![t] = [explorer[t] EXCEPT !.top = w]]
        BY <1>3 DEF TabMoves
    <2>3. explorer' \in [DOMAIN explorer -> Place]
        BY <1>1, <2>1, <2>2
    <2> QED BY <1>1, <2>3 DEF Partial
<1>4. ASSUME NEW w \in TopLevels, NEW b \in Browsers, TabOpens(t, w, b)
      PROVE  explorer' \in Partial(Tabs, Place)
    <2>1. [top |-> w, browser |-> b] \in Place
        BY DEF Place
    <2>2. explorer' = [u \in DOMAIN explorer \cup {t} |->
                          IF u = t THEN [top |-> w, browser |-> b]
                          ELSE explorer[u]]
        BY <1>4 DEF TabOpens
    <2>3. explorer' \in [DOMAIN explorer \cup {t} -> Place]
        BY <1>1, <2>1, <2>2
    <2> QED BY <1>1, <2>3 DEF Partial
<1> QED BY <1>2, <1>3, <1>4

(* The first look sees tabs at their windows.                              *)
LEMMA OrdersTyped ==
    ASSUME TypeOK, CaptureOrders
    PROVE  orders' \in Partial(Tabs, TopLevels)
<1>1. DOMAIN explorer \subseteq Tabs /\ explorer \in [DOMAIN explorer -> Place]
    BY PartialIs DEF TypeOK
<1>2. PICK seen \in SUBSET TopLevels :
         orders' = [t \in {u \in DOMAIN explorer : explorer[u].top \in seen} |->
                       explorer[t].top]
    BY DEF CaptureOrders
<1>3. DOMAIN orders' \subseteq Tabs
    BY <1>1, <1>2
<1>4. orders' \in [DOMAIN orders' -> TopLevels]
    BY <1>1, <1>2 DEF Place
<1> QED BY <1>3, <1>4, PartialIs

(* Nothing is a partial function as well.                                  *)
LEMMA NothingTyped == ASSUME NEW S, NEW T PROVE NoTabs \in Partial(S, T)
<1>1. DOMAIN NoTabs \subseteq S /\ NoTabs \in [DOMAIN NoTabs -> T]
    BY DEF NoTabs
<1> QED BY <1>1, PartialIs

-----------------------------------------------------------------------------
(* Generations.                                                            *)

(* A tab that is retained keeps the generation of its handle.              *)
LEMMA RetainedKeeps ==
    ASSUME TypeOK, TabsInv, NEW t, NEW i \in Retained(t)
    PROVE  /\ i \in tabs /\ i.tab = t /\ i.top = orders[t]
           /\ i.browser = explorer[t].browser
           /\ TabGeneration(t) = i.tabGen /\ i.tabGen = latestTab[t]
<1>1. \A j \in Retained(t) : j = i
    BY DEF Retained, TabsInv
<1>2. (CHOOSE j \in Retained(t) : TRUE) = i
    BY <1>1
<1>3. TabGeneration(t) = i.tabGen
    BY <1>2 DEF TabGeneration
<1>4. /\ i \in tabs /\ i.tab = t /\ i.top = orders[t]
      /\ i.browser = explorer[t].browser
    BY DEF Retained
<1> QED BY <1>3, <1>4 DEF TabsInv

(* The entry of a tab that the capture saw.                                *)
Entry(t) ==
    [tab |-> t, top |-> orders[t], browser |-> explorer[t].browser,
     topGen |-> TopGeneration(orders[t]), tabGen |-> TabGeneration(t)]

(* The generations that a capture gives are in range, none goes back, and  *)
(* the ones it does not keep are new.                                      *)
LEMMA GenerationsGrow ==
    ASSUME TypeOK, TabsInv, CaptureSucceeds, NEW t \in DOMAIN orders
    PROVE  /\ t \in Tabs /\ orders[t] \in TopLevels
           /\ explorer[t].browser \in Browsers
           /\ TopGeneration(orders[t]) \in 1..MaxGen
           /\ TabGeneration(t) \in 1..MaxGen
           /\ TabGeneration(t) >= latestTab[t]
           /\ Retained(t) = {} => TabGeneration(t) > latestTab[t]
<1> USE MaxGenAssumption
<1>1. /\ DOMAIN orders \subseteq Tabs
      /\ orders \in [DOMAIN orders -> TopLevels]
      /\ explorer \in [DOMAIN explorer -> Place]
    BY PartialIs DEF TypeOK
<1>2. t \in Tabs /\ orders[t] \in TopLevels
    BY <1>1
<1>3. explorer[t].browser \in Browsers
    BY <1>1 DEF CaptureSucceeds, Joins, Place
<1>4. TopGeneration(orders[t]) \in 1..MaxGen
    <2>1. CASE orders[t] \in ActiveTops
        <3>1. PICK i \in tabs : i.top = orders[t]
            BY <2>1 DEF ActiveTops
        <3>2. (CHOOSE j \in tabs : j.top = orders[t]) \in tabs
            BY <3>1
        <3> QED BY <2>1, <3>2 DEF TopGeneration, TypeOK, Identity
    <2>2. CASE orders[t] \notin ActiveTops
        <3>1. orders[t] \in Range(orders) \ ActiveTops
            BY <2>2 DEF Range
        <3>2. latestTop[orders[t]] < MaxGen
            BY <3>1 DEF CaptureSucceeds, GenerationsLeft
        <3> QED BY <1>2, <2>2, <3>2 DEF TopGeneration, TypeOK
    <2> QED BY <2>1, <2>2
<1>5. CASE Retained(t) # {}
    <2>1. PICK i \in Retained(t) : TRUE
        BY <1>5
    <2>2. i \in tabs /\ TabGeneration(t) = i.tabGen /\ i.tabGen = latestTab[t]
        BY <2>1, RetainedKeeps
    <2>3. i.tabGen \in 1..MaxGen
        BY <2>2 DEF TypeOK, Identity
    <2> QED BY <1>2, <1>3, <1>4, <1>5, <2>2, <2>3
<1>6. CASE Retained(t) = {}
    <2>1. latestTab[t] < MaxGen
        BY <1>6 DEF CaptureSucceeds, GenerationsLeft
    <2>2. TabGeneration(t) = latestTab[t] + 1
        BY <1>6 DEF TabGeneration
    <2> QED BY <1>2, <1>3, <1>4, <2>1, <2>2 DEF TypeOK
<1> QED BY <1>5, <1>6

(* A capture has an entry for each tab that it saw, and no other.          *)
LEMMA CurrentIs ==
    /\ \A i \in Current : i.tab \in DOMAIN orders /\ i = Entry(i.tab)
    /\ \A t \in DOMAIN orders : Entry(t) \in Current
BY DEF Current, Entry

(* What a capture that succeeds leaves behind.                             *)
LEMMA CaptureTyped ==
    ASSUME TypeOK, TabsInv, CaptureSucceeds
    PROVE  /\ tabs' \subseteq Identity
           /\ latestTop' \in [TopLevels -> 0..MaxGen]
           /\ latestTab' \in [Tabs -> 0..MaxGen]
           /\ \A t \in Tabs : latestTab'[t] >= latestTab[t]
           /\ \A i \in tabs' : i.tabGen = latestTab'[i.tab]
<1> USE MaxGenAssumption
<1>1. tabs' = Current
    BY DEF CaptureSucceeds
<1>2. \A t \in DOMAIN orders : Entry(t) \in Identity
    BY GenerationsGrow DEF Entry, Identity
<1>3. tabs' \subseteq Identity
    BY <1>1, <1>2, CurrentIs
<1>4. latestTop' \in [TopLevels -> 0..MaxGen]
    <2>1. ASSUME NEW w \in Range(orders)
          PROVE  TopGeneration(w) \in 0..MaxGen
        <3>1. PICK t \in DOMAIN orders : w = orders[t]
            BY DEF Range
        <3>2. TopGeneration(orders[t]) \in 1..MaxGen
            BY GenerationsGrow
        <3> QED BY <3>1, <3>2
    <2>2. latestTop' = [w \in TopLevels |->
                           IF w \in Range(orders) THEN TopGeneration(w)
                                                  ELSE latestTop[w]]
        BY DEF CaptureSucceeds
    <2> QED BY <2>1, <2>2 DEF TypeOK
<1>5. latestTab' = [t \in Tabs |-> IF t \in DOMAIN orders THEN TabGeneration(t)
                                                         ELSE latestTab[t]]
    BY DEF CaptureSucceeds
<1>6. latestTab' \in [Tabs -> 0..MaxGen]
    BY <1>5, GenerationsGrow DEF TypeOK
<1>7. \A t \in Tabs : latestTab'[t] >= latestTab[t]
    BY <1>5, GenerationsGrow DEF TypeOK
<1>8. ASSUME NEW i \in tabs'
      PROVE  i.tabGen = latestTab'[i.tab]
    <2>1. i.tab \in DOMAIN orders /\ i = Entry(i.tab)
        BY <1>1, CurrentIs
    <2>2. i.tabGen = TabGeneration(i.tab)
        BY <2>1 DEF Entry
    <2>3. i.tab \in Tabs
        BY <2>1, GenerationsGrow
    <2> QED BY <1>5, <2>1, <2>2, <2>3
<1> QED BY <1>3, <1>4, <1>6, <1>7, <1>8

(* The DLL's windows stay typed; it remembers only what it was given, and  *)
(* holds the tabs of the update.                                           *)
LEMMA RuntimeTakes ==
    ASSUME TypeOK, TabsInv, RuntimeInv, CaptureSucceeds
    PROVE  /\ runtime' \in [TopLevels -> Slot]
           /\ RuntimeInv'
<1> USE MaxGenAssumption
<1>1. /\ tabs' = Current
      /\ runtime' = [w \in TopLevels |-> Applied(w, Current)]
    BY DEF CaptureSucceeds
<1>2. /\ Current \subseteq Identity
      /\ latestTab' \in [Tabs -> 0..MaxGen]
      /\ \A t \in Tabs : latestTab'[t] >= latestTab[t]
      /\ \A i \in Current : i.tabGen = latestTab'[i.tab]
    BY <1>1, CaptureTyped
<1>3. ASSUME NEW w \in TopLevels
      PROVE  /\ Applied(w, Current) \in Slot
             /\ \A t \in Tabs : Applied(w, Current).known[t] <= latestTab'[t]
             /\ \A i \in Current : i.top = w => i.tab \in Applied(w, Current).active
    <2> DEFINE mine == {i \in Current : i.top = w}
               gen == (CHOOSE i \in mine : TRUE).topGen
               old == IF runtime[w].gen = gen THEN runtime[w] ELSE NoSlot
               known == [t \in Tabs |->
                            IF \E i \in mine : i.tab = t
                            THEN (CHOOSE i \in mine : i.tab = t).tabGen
                            ELSE old.known[t]]
    <2>1. NoSlot \in Slot /\ \A t \in Tabs : NoSlot.known[t] <= latestTab'[t]
        BY <1>2 DEF NoSlot, Slot
    <2>2. CASE mine = {}
        <3>1. Applied(w, Current) = NoSlot
            BY <2>2 DEF Applied
        <3> QED BY <2>1, <2>2, <3>1
    <2>3. CASE mine # {}
        <3>1. Applied(w, Current) =
                 [gen |-> gen, active |-> {i.tab : i \in mine}, known |-> known]
            BY <2>3 DEF Applied
        <3>2. gen \in 0..MaxGen
            <4>1. (CHOOSE i \in mine : TRUE) \in mine
                BY <2>3
            <4> QED BY <1>2, <4>1 DEF Identity
        <3>3. {i.tab : i \in mine} \in SUBSET Tabs
            BY <1>2 DEF Identity
        <3>4. /\ old \in Slot
              /\ \A t \in Tabs : old.known[t] <= latestTab'[t]
            <4>1. runtime[w] \in Slot
                BY DEF TypeOK
            <4>2. \A t \in Tabs : runtime[w].known[t] <= latestTab'[t]
                <5> TAKE t \in Tabs
                <5>1. runtime[w].known[t] \in 0..MaxGen
                    BY <4>1 DEF Slot
                <5>2. latestTab[t] \in 0..MaxGen /\ latestTab'[t] \in 0..MaxGen
                    BY <1>2 DEF TypeOK
                <5>3. runtime[w].known[t] <= latestTab[t]
                    BY DEF RuntimeInv
                <5> QED BY <1>2, <5>1, <5>2, <5>3
            <4> QED BY <2>1, <4>1, <4>2
        <3> HIDE DEF old, gen
        <3>5. ASSUME NEW t \in Tabs
              PROVE  known[t] \in 0..MaxGen /\ known[t] <= latestTab'[t]
            <4>1. CASE \E i \in mine : i.tab = t
                <5>1. PICK i \in mine : i.tab = t
                    BY <4>1
                <5> DEFINE j == CHOOSE j \in mine : j.tab = t
                <5>2. j \in mine /\ j.tab = t
                    BY <5>1
                <5>3. known[t] = j.tabGen
                    BY <4>1
                <5> HIDE DEF j, known
                <5>4. j.tabGen \in 0..MaxGen /\ j.tabGen = latestTab'[t]
                    BY <1>2, <5>2 DEF Identity
                <5> QED BY <5>3, <5>4
            <4>2. CASE ~ \E i \in mine : i.tab = t
                <5>1. known[t] = old.known[t]
                    BY <4>2
                <5> HIDE DEF known
                <5> QED BY <3>4, <5>1 DEF Slot
            <4> QED BY <4>1, <4>2
        <3>6. known \in [Tabs -> 0..MaxGen]
            BY <3>5
        <3> HIDE DEF known
        <3>7. Applied(w, Current) \in Slot
            BY <3>1, <3>2, <3>3, <3>6 DEF Slot
        <3>8. \A t \in Tabs : Applied(w, Current).known[t] <= latestTab'[t]
            BY <3>1, <3>5
        <3>9. \A i \in Current : i.top = w => i.tab \in Applied(w, Current).active
            BY <3>1
        <3> QED BY <3>7, <3>8, <3>9
    <2> QED BY <2>2, <2>3
<1> QED BY <1>1, <1>3 DEF RuntimeInv

(* A name that a capture publishes is an old one of the same tab, or has a *)
(* generation that no name had.                                            *)
LEMMA NamesStayUnique ==
    ASSUME TypeOK, TabsInv, NamesInv, CaptureSucceeds
    PROVE  NamesInv' /\ TabsInv'
<1> USE MaxGenAssumption
<1>1. /\ tabs' = Current
      /\ published' = published \cup {Name(i) : i \in Current}
    BY DEF CaptureSucceeds
<1>2. /\ latestTab \in [Tabs -> 0..MaxGen] /\ latestTab' \in [Tabs -> 0..MaxGen]
      /\ \A t \in Tabs : latestTab'[t] >= latestTab[t]
      /\ \A i \in Current : i.tabGen = latestTab'[i.tab]
      /\ \A i \in Current : i.tab \in Tabs /\ i.tabGen \in 1..MaxGen
    BY <1>1, CaptureTyped DEF TypeOK, Identity
<1>3. \A n \in published : n.tab \in Tabs /\ n.gen \in 1..MaxGen
    BY DEF TypeOK
<1>4. \A i, j \in Current : i.tab = j.tab => i = j
    BY CurrentIs
<1>5. ASSUME NEW i \in Current
      PROVE  \/ Name(i) \in published
             \/ i.tabGen > latestTab[i.tab]
    <2>1. i.tab \in DOMAIN orders /\ i = Entry(i.tab)
        BY CurrentIs
    <2>2. CASE Retained(i.tab) # {}
        <3>1. PICK j \in Retained(i.tab) : TRUE
            BY <2>2
        <3>2. /\ j \in tabs /\ j.tab = i.tab /\ j.top = orders[i.tab]
              /\ j.browser = explorer[i.tab].browser
              /\ TabGeneration(i.tab) = j.tabGen
            BY <3>1, RetainedKeeps
        <3>3. /\ i.top = orders[i.tab] /\ i.browser = explorer[i.tab].browser
              /\ i.tabGen = TabGeneration(i.tab)
            BY <2>1 DEF Entry
        <3>4. Name(i) = Name(j)
            BY <3>2, <3>3 DEF Name
        <3> QED BY <3>2, <3>4 DEF TabsInv
    <2>3. CASE Retained(i.tab) = {}
        <3>1. TabGeneration(i.tab) > latestTab[i.tab]
            BY <2>1, <2>3, GenerationsGrow
        <3>2. i.tabGen = TabGeneration(i.tab)
            BY <2>1 DEF Entry
        <3> QED BY <3>1, <3>2
    <2> QED BY <2>2, <2>3
<1>6. \A i \in Current : Name(i).tab = i.tab /\ Name(i).gen = i.tabGen
    BY DEF Name
<1>7. ASSUME NEW n \in published'
      PROVE  n.tab \in Tabs /\ n.gen <= latestTab'[n.tab]
    <2>1. CASE n \in published
        <3>1. n.tab \in Tabs /\ n.gen \in 1..MaxGen /\ n.gen <= latestTab[n.tab]
            BY <1>3, <2>1 DEF NamesInv
        <3>2. /\ latestTab[n.tab] \in 0..MaxGen /\ latestTab'[n.tab] \in 0..MaxGen
              /\ latestTab'[n.tab] >= latestTab[n.tab]
            BY <1>2, <3>1
        <3> QED BY <3>1, <3>2
    <2>2. CASE n \notin published
        <3>1. PICK i \in Current : n = Name(i)
            BY <1>1, <2>2
        <3>2. n.tab = i.tab /\ n.gen = i.tabGen
            BY <1>6, <3>1
        <3>3. i.tab \in Tabs /\ i.tabGen \in 1..MaxGen /\ i.tabGen = latestTab'[i.tab]
            BY <1>2, <3>1
        <3> QED BY <3>2, <3>3
    <2> QED BY <2>1, <2>2
<1>8. ASSUME NEW n \in published, NEW i \in Current, Name(i) \notin published,
             n.tab = i.tab
      PROVE  n.gen # i.tabGen
    <2>1. n.tab \in Tabs /\ n.gen \in 1..MaxGen /\ n.gen <= latestTab[n.tab]
        BY <1>3 DEF NamesInv
    <2>2. i.tabGen \in 1..MaxGen /\ i.tabGen > latestTab[i.tab]
        BY <1>2, <1>5, <1>8
    <2>3. latestTab[n.tab] \in 0..MaxGen
        BY <1>2, <2>1
    <2> QED BY <1>8, <2>1, <2>2, <2>3
<1>9. ASSUME NEW m \in published', NEW n \in published',
             m.tab = n.tab, m.gen = n.gen
      PROVE  m = n
    <2>1. CASE m \in published /\ n \in published
        BY <1>9, <2>1 DEF NamesInv, GenerationsNameTabs
    <2>2. CASE m \in published /\ n \notin published
        <3>1. PICK i \in Current : n = Name(i)
            BY <1>1, <2>2
        <3>2. n.tab = i.tab /\ n.gen = i.tabGen
            BY <1>6, <3>1
        <3>3. m.gen # i.tabGen
            BY <1>8, <1>9, <2>2, <3>1, <3>2
        <3> QED BY <1>9, <3>2, <3>3
    <2>3. CASE m \notin published /\ n \in published
        <3>1. PICK i \in Current : m = Name(i)
            BY <1>1, <2>3
        <3>2. m.tab = i.tab /\ m.gen = i.tabGen
            BY <1>6, <3>1
        <3>3. n.gen # i.tabGen
            BY <1>8, <1>9, <2>3, <3>1, <3>2
        <3> QED BY <1>9, <3>2, <3>3
    <2>4. CASE m \notin published /\ n \notin published
        <3>1. PICK i \in Current : m = Name(i)
            BY <1>1, <2>4
        <3>2. PICK j \in Current : n = Name(j)
            BY <1>1, <2>4
        <3>3. i.tab = j.tab
            BY <1>6, <1>9, <3>1, <3>2
        <3> QED BY <1>4, <3>1, <3>2, <3>3
    <2> QED BY <2>1, <2>2, <2>3, <2>4
<1>10. NamesInv'
    BY <1>7, <1>9 DEF NamesInv, GenerationsNameTabs
<1>11. TabsInv'
    <2>1. \A i \in Current : i.tabGen = latestTab'[i.tab] /\ Name(i) \in published'
        BY <1>1, <1>2
    <2> QED BY <1>1, <1>4, <2>1 DEF TabsInv, Name
<1> QED BY <1>10, <1>11

-----------------------------------------------------------------------------
(* The invariant.                                                          *)

(* At first nothing has been seen.                                         *)
LEMMA IdentityStarts == Init => IdentityInvariant
<1> SUFFICES ASSUME Init PROVE IdentityInvariant
    OBVIOUS
<1> USE MaxGenAssumption
<1>1. TypeOK
    <2>1. NoSlot \in Slot
        BY DEF NoSlot, Slot
    <2>2. explorer \in Partial(Tabs, Place) /\ orders \in Partial(Tabs, TopLevels)
        BY NothingTyped DEF Init
    <2> QED BY <2>1, <2>2 DEF Init, TypeOK
<1>2. TabsInv /\ NamesInv
    BY DEF Init, TabsInv, NamesInv, GenerationsNameTabs
<1>3. RuntimeInv
    BY DEF Init, RuntimeInv, NoSlot
<1> QED BY <1>1, <1>2, <1>3 DEF IdentityInvariant

(* What the tracker does not change stays so.                              *)
LEMMA TrackerRests ==
    ASSUME IdentityInvariant, UNCHANGED tracker,
           explorer' \in Partial(Tabs, Place),
           orders' \in Partial(Tabs, TopLevels),
           pc' \in {"idle", "joining", "failed"}
    PROVE  IdentityInvariant'
<1>1. TypeOK'
    BY DEF IdentityInvariant, TypeOK, tracker
<1>2. (TabsInv /\ NamesInv)'
    BY DEF IdentityInvariant, TabsInv, NamesInv, GenerationsNameTabs, tracker,
           Name
<1>3. RuntimeInv'
    BY DEF IdentityInvariant, RuntimeInv, tracker
<1> QED BY <1>1, <1>2, <1>3 DEF IdentityInvariant

(* Every step keeps the invariant.                                         *)
LEMMA IdentityStep == IdentityInvariant /\ [Next]_vars => IdentityInvariant'
<1> SUFFICES ASSUME IdentityInvariant, [Next]_vars
             PROVE  IdentityInvariant'
    OBVIOUS
<1>1. /\ TypeOK /\ TabsInv /\ NamesInv /\ RuntimeInv
      /\ explorer \in Partial(Tabs, Place)
      /\ orders \in Partial(Tabs, TopLevels)
      /\ pc \in {"idle", "joining", "failed"}
    BY DEF IdentityInvariant, TypeOK
<1>2. CASE \E t \in Tabs :
              \/ TabCloses(t)
              \/ \E w \in TopLevels :
                    \/ TabMoves(t, w)
                    \/ \E b \in Browsers : TabOpens(t, w, b)
    <2>1. PICK t \in Tabs :
             \/ TabCloses(t)
             \/ \E w \in TopLevels :
                   \/ TabMoves(t, w)
                   \/ \E b \in Browsers : TabOpens(t, w, b)
        BY <1>2
    <2>2. explorer' \in Partial(Tabs, Place)
        BY <1>1, <2>1, ExplorerTyped
    <2>3. UNCHANGED <<pc, orders, tracker>>
        BY <2>1 DEF TabCloses, TabMoves, TabOpens
    <2> QED BY <1>1, <2>2, <2>3, TrackerRests
<1>3. CASE CaptureOrders
    <2>1. orders' \in Partial(Tabs, TopLevels)
        BY <1>1, <1>3, OrdersTyped
    <2>2. pc' = "joining" /\ UNCHANGED <<explorer, tracker>>
        BY <1>3 DEF CaptureOrders
    <2> QED BY <1>1, <2>1, <2>2, TrackerRests
<1>4. CASE CaptureFails
    <2>1. orders' \in Partial(Tabs, TopLevels)
        BY <1>4, NothingTyped DEF CaptureFails
    <2>2. pc' = "failed" /\ UNCHANGED <<explorer, tracker>>
        BY <1>4 DEF CaptureFails
    <2> QED BY <1>1, <2>1, <2>2, TrackerRests
<1>5. CASE CaptureSucceeds
    <2>1. /\ tabs' \subseteq Identity
          /\ latestTop' \in [TopLevels -> 0..MaxGen]
          /\ latestTab' \in [Tabs -> 0..MaxGen]
        BY <1>1, <1>5, CaptureTyped
    <2>2. runtime' \in [TopLevels -> Slot] /\ RuntimeInv'
        BY <1>1, <1>5, RuntimeTakes
    <2>3. published' \subseteq
             [tab : Tabs, gen : 1..MaxGen, top : TopLevels, browser : Browsers]
        <3>1. \A i \in Identity : Name(i) \in
                 [tab : Tabs, gen : 1..MaxGen, top : TopLevels, browser : Browsers]
            BY DEF Identity, Name
        <3>2. published' = published \cup {Name(i) : i \in tabs'}
            BY <1>5 DEF CaptureSucceeds
        <3> QED BY <1>1, <2>1, <3>1, <3>2 DEF TypeOK
    <2>4. /\ explorer' \in Partial(Tabs, Place)
          /\ orders' \in Partial(Tabs, TopLevels)
          /\ pc' \in {"idle", "joining", "failed"}
        BY <1>1, <1>5, NothingTyped DEF CaptureSucceeds
    <2>5. TypeOK'
        BY <2>1, <2>2, <2>3, <2>4 DEF TypeOK
    <2>6. NamesInv' /\ TabsInv'
        BY <1>1, <1>5, NamesStayUnique
    <2> QED BY <2>2, <2>5, <2>6 DEF IdentityInvariant
<1>6. CASE UNCHANGED vars
    <2>1. UNCHANGED <<explorer, pc, orders, tracker>>
        BY <1>6 DEF vars, tracker
    <2> QED BY <1>1, <2>1, TrackerRests
<1> QED BY <1>2, <1>3, <1>4, <1>5, <1>6 DEF Next, Capture

(* What a capture publishes is what the DLL takes: of a window that it     *)
(* holds, a tab with its old generation was there, and none goes back.     *)
LEMMA CaptureAcceptable ==
    ASSUME IdentityInvariant, [Next]_vars, pc = "joining"
    PROVE  \A i \in tabs' : Acceptable(i)
<1> USE MaxGenAssumption
<1>1. /\ TypeOK /\ TabsInv /\ RuntimeInv
      /\ \A i \in tabs : i \in Identity
    BY DEF IdentityInvariant, TypeOK
<1>2. ASSUME NEW i \in tabs
      PROVE  Acceptable(i)
    <2>1. i.top \in TopLevels /\ i.tab \in Tabs
        BY <1>1 DEF Identity
    <2>2. i.tabGen = latestTab[i.tab]
        BY <1>1 DEF TabsInv
    <2>3. runtime[i.top].known[i.tab] <= latestTab[i.tab]
        BY <1>1, <2>1 DEF RuntimeInv
    <2>4. i.tab \in runtime[i.top].active
        BY <1>1, <2>1 DEF RuntimeInv
    <2>5. /\ latestTab[i.tab] \in 0..MaxGen
          /\ runtime[i.top].known[i.tab] \in 0..MaxGen
        BY <1>1, <2>1 DEF TypeOK, Slot
    <2> QED BY <2>2, <2>3, <2>4, <2>5 DEF Acceptable
<1>3. CASE tabs' = tabs
    BY <1>2, <1>3
<1>4. CASE CaptureSucceeds
    <2> SUFFICES ASSUME NEW i \in tabs'
                 PROVE  Acceptable(i)
        OBVIOUS
    <2>1. i \in Current
        BY <1>4 DEF CaptureSucceeds
    <2>2. i.tab \in DOMAIN orders /\ i = Entry(i.tab)
        BY <2>1, CurrentIs
    <2>3. /\ i.top = orders[i.tab] /\ i.tabGen = TabGeneration(i.tab)
          /\ i.topGen = TopGeneration(orders[i.tab])
        BY <2>2 DEF Entry
    <2>4. /\ i.tab \in Tabs /\ i.top \in TopLevels
          /\ TabGeneration(i.tab) \in 1..MaxGen
          /\ TabGeneration(i.tab) >= latestTab[i.tab]
          /\ Retained(i.tab) = {} => TabGeneration(i.tab) > latestTab[i.tab]
        BY <1>1, <1>4, <2>2, <2>3, GenerationsGrow
    <2>5. /\ latestTab[i.tab] \in 0..MaxGen
          /\ runtime[i.top].known[i.tab] \in 0..MaxGen
          /\ runtime[i.top].known[i.tab] <= latestTab[i.tab]
        BY <1>1, <2>4 DEF TypeOK, Slot, RuntimeInv
    <2>6. CASE Retained(i.tab) = {}
        BY <2>3, <2>4, <2>5, <2>6 DEF Acceptable
    <2>7. CASE Retained(i.tab) # {}
        <3>1. PICK j \in Retained(i.tab) : TRUE
            BY <2>7
        <3>2. j \in tabs /\ j.tab = i.tab /\ j.top = i.top
            BY <1>1, <2>3, <3>1, RetainedKeeps
        <3>3. i.tab \in runtime[i.top].active
            BY <1>1, <2>4, <3>2 DEF RuntimeInv
        <3> QED BY <2>3, <2>4, <2>5, <3>3 DEF Acceptable
    <2> QED BY <2>6, <2>7
<1> QED BY <1>3, <1>4 DEF Next, Capture, CaptureOrders, CaptureFails, TabCloses,
                          TabMoves, TabOpens, tracker, vars

-----------------------------------------------------------------------------
(* The theorems.                                                           *)

(* The tracker, what it published and what the DLL holds agree in every    *)
(* reachable state.                                                        *)
THEOREM IdentityInvariantHolds == Spec => []IdentityInvariant
BY IdentityStarts, IdentityStep, PTL DEF Spec

(* Type correctness of the tracker and of the DLL's windows.               *)
THEOREM IdentityTypesHold == Spec => []TypeOK
<1>1. IdentityInvariant => TypeOK
    BY DEF IdentityInvariant
<1> QED BY <1>1, IdentityInvariantHolds, PTL

(* A handle and a generation never name two tabs, however handles,         *)
(* browsers and windows are reused and whatever a capture missed.          *)
THEOREM NamesAreUnique == Spec => []GenerationsNameTabs
<1>1. IdentityInvariant => GenerationsNameTabs
    BY DEF IdentityInvariant, NamesInv
<1> QED BY <1>1, IdentityInvariantHolds, PTL

(* ValidateGenerations of the DLL takes every tab that                     *)
(* ReconcileObserverTabSet publishes. (That the encoder refuses two tabs   *)
(* with one generation is another matter: see UpdatesEncodable.)           *)
THEOREM UpdatesAreAccepted == Spec => RuntimeAccepts
<1>1. IdentityInvariant /\ [Next]_vars =>
         [pc = "joining" => \A i \in tabs' : Acceptable(i)]_vars
    BY CaptureAcceptable
<1> QED BY <1>1, IdentityInvariantHolds, PTL DEF Spec, RuntimeAccepts

=============================================================================
