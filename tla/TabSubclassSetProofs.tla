-------------------------- MODULE TabSubclassSetProofs --------------------------
(***************************************************************************)
(* The safety properties of TabSubclassSet, for every set of tabs and any  *)
(* number of generations. The rollback is what makes them hard: that it    *)
(* ends where Apply began is said without an induction over the list of    *)
(* mutations, tab by tab. A tab is in the list not at all, once, or twice  *)
(* and then removed before it was added, so that its last mutation tells   *)
(* what it is now and what is left when that mutation is undone.           *)
(***************************************************************************)
EXTENDS TabSubclassSet, TLAPS

Mutation == [kind : {"added", "removed"}, tab : Tabs, gen : Gens]
Applying == {"reusing", "reinstalling", "accepting"}
Busy == Applying \cup {"rollback"}

(* The mutation is in the list.                                            *)
Listed(m) == \E i \in DOMAIN mutations : mutations[i] = m
WasAdded(t) == Listed(Added(t, desired[t]))
WasRemoved(t) == Listed(Removed(t, previous[t]))

(* Every mutation is in the list once, and a tab is removed before it is   *)
(* added.                                                                  *)
ListInv ==
    /\ mutations \in Seq(Mutation)
    /\ \A i \in DOMAIN mutations :
          LET m == mutations[i]
          IN  \/ /\ m = Added(m.tab, desired[m.tab])
                 /\ \/ previous[m.tab] = None
                    \/ \E j \in 1..(i - 1) :
                          mutations[j] = Removed(m.tab, previous[m.tab])
              \/ /\ m = Removed(m.tab, previous[m.tab])
                 /\ \A j \in 1..(i - 1) : mutations[j].tab # m.tab
    /\ \A i, j \in DOMAIN mutations : mutations[i] = mutations[j] => i = j
    /\ pc = "idle" => mutations = <<>>

(* What the list says of a tab that Apply, or a Rollback without an error, *)
(* has reached.                                                            *)
InstalledInv ==
    /\ pc \in Busy /\ undone => \A t \in Tabs :
          installed[t] = IF WasAdded(t) THEN desired[t]
                         ELSE IF WasRemoved(t) THEN None ELSE previous[t]
    /\ pc \in Applying => undone
    /\ pc = "reinstalling" =>
          /\ mutations # <<>>
          /\ LET m == mutations[Len(mutations)]
             IN  m.kind = "removed" /\ desired[m.tab] # None
    /\ pc = "accepting" => installed = desired

(* What is subclassed is tracked; a set that is safe tracks no more.       *)
TrackedInv ==
    /\ NoUntrackedCallback
    /\ ~unsafe =>
          /\ pc = "idle" \/ undone => subclassed = Members(installed)
          /\ pc = "idle" => \A t \in Members(installed) :
                installed[t] = authoritative[t]
          /\ pc \in Busy => \A t \in Members(previous) :
                previous[t] = authoritative[t]

(* The identities that were retired are older than what is known of their  *)
(* handle, or no longer authoritative.                                     *)
RetiredInv ==
    /\ topGeneration = 0 =>
          authoritative = Empty /\ known = Empty /\ retired = {}
    /\ \A t \in Tabs : authoritative[t] \in {None, known[t]}
    /\ \A r \in retired : r[1] \in Tabs /\ r[2] \in Gens /\ r[2] <= known[r[1]]
    /\ RetiredStaysRetired
    /\ pc \in Applying => desiredTop # 0 /\ (topGeneration # 0 =>
          \A t \in Members(desired) : known[t] # None =>
              /\ desired[t] >= known[t]
              /\ desired[t] = known[t] => authoritative[t] # None)

TabInvariant == TypeOK /\ ListInv /\ InstalledInv /\ TrackedInv /\ RetiredInv

-----------------------------------------------------------------------------
(* The list of mutations.                                                  *)

(* The members of a list are mutations.                                    *)
LEMMA ListTyped ==
    ASSUME NEW s \in Seq(Mutation)
    PROVE  \A i \in 1..Len(s) :
              s[i] \in [kind : {"added", "removed"}, tab : Tabs, gen : Gens]
<1>1. \A i \in 1..Len(s) : s[i] \in Mutation
    OBVIOUS
<1> QED BY <1>1 DEF Mutation

(* Every entry is about a tab.                                             *)
LEMMA EntriesAre ==
    ASSUME ListInv, NEW i \in DOMAIN mutations
    PROVE  /\ mutations[i] \in Mutation
           /\ DOMAIN mutations = 1..Len(mutations) /\ Len(mutations) \in Nat
           /\ i \in 1..Len(mutations)
BY DEF ListInv

(* An entry about a tab is one of the two it can be.                       *)
LEMMA EntriesOfTab ==
    ASSUME ListInv, NEW i \in DOMAIN mutations
    PROVE  \/ WasAdded(mutations[i].tab)
              /\ mutations[i] = Added(mutations[i].tab, desired[mutations[i].tab])
           \/ WasRemoved(mutations[i].tab)
              /\ mutations[i] = Removed(mutations[i].tab,
                                        previous[mutations[i].tab])
<1>1. \/ mutations[i] = Added(mutations[i].tab, desired[mutations[i].tab])
      \/ mutations[i] = Removed(mutations[i].tab, previous[mutations[i].tab])
    BY DEF ListInv
<1>2. Listed(mutations[i])
    BY DEF Listed
<1> QED BY <1>1, <1>2, Zenon DEF WasAdded, WasRemoved

(* A mutation that fits is added at the end.                               *)
LEMMA ListGrows ==
    ASSUME ListInv, NEW m \in Mutation, mutations' = Append(mutations, m),
           UNCHANGED <<desired, previous>>, pc' # "idle", ~Listed(m),
           \/ /\ m = Added(m.tab, desired[m.tab])
              /\ previous[m.tab] = None \/ WasRemoved(m.tab)
           \/ m = Removed(m.tab, previous[m.tab]) /\ ~WasAdded(m.tab)
    PROVE  /\ ListInv'
           /\ \A x : Listed(x)' <=> Listed(x) \/ x = m
           /\ mutations' # <<>> /\ mutations'[Len(mutations')] = m
<1> DEFINE n == Len(mutations)
<1>1. /\ mutations \in Seq(Mutation) /\ n \in Nat /\ DOMAIN mutations = 1..n
    BY DEF ListInv
<1>2. /\ mutations' \in Seq(Mutation) /\ Len(mutations') = n + 1
      /\ DOMAIN mutations' = 1..(n + 1) /\ mutations' # <<>>
      /\ \A i \in 1..n : mutations'[i] = mutations[i]
      /\ mutations'[n + 1] = m
    BY <1>1
<1> HIDE DEF n
<1>3. \A x : Listed(x)' <=> Listed(x) \/ x = m
    <2> TAKE x
    <2>1. ASSUME Listed(x)'
          PROVE  Listed(x) \/ x = m
        <3>1. PICK i \in 1..(n + 1) : mutations'[i] = x
            BY <1>2, <2>1 DEF Listed
        <3>2. CASE i = n + 1
            BY <1>2, <3>1, <3>2
        <3>3. CASE i # n + 1
            <4>1. i \in 1..n
                BY <1>1, <3>1, <3>3
            <4> QED BY <1>1, <1>2, <3>1, <4>1 DEF Listed
        <3> QED BY <3>2, <3>3
    <2>2. ASSUME Listed(x)
          PROVE  Listed(x)'
        <3>1. PICK i \in 1..n : mutations[i] = x
            BY <1>1, <2>2 DEF Listed
        <3>2. i \in 1..(n + 1)
            BY <1>1, <3>1
        <3> QED BY <1>2, <3>1, <3>2 DEF Listed
    <2>3. ASSUME x = m
          PROVE  Listed(x)'
        <3>1. n + 1 \in 1..(n + 1)
            BY <1>1
        <3> QED BY <1>2, <2>3, <3>1 DEF Listed
    <2> QED BY <2>1, <2>2, <2>3
<1>4. ASSUME NEW i \in DOMAIN mutations'
      PROVE  LET e == mutations'[i]
             IN  \/ /\ e = Added(e.tab, desired'[e.tab])
                    /\ \/ previous'[e.tab] = None
                       \/ \E j \in 1..(i - 1) :
                             mutations'[j] = Removed(e.tab, previous'[e.tab])
                 \/ /\ e = Removed(e.tab, previous'[e.tab])
                    /\ \A j \in 1..(i - 1) : mutations'[j].tab # e.tab
    <2>1. CASE i \in 1..n
        <3>1. mutations'[i] = mutations[i]
            BY <1>2, <2>1
        <3>2. \A j \in 1..(i - 1) : mutations'[j] = mutations[j]
            BY <1>1, <1>2, <2>1
        <3>3. LET e == mutations[i]
              IN  \/ /\ e = Added(e.tab, desired[e.tab])
                     /\ \/ previous[e.tab] = None
                        \/ \E j \in 1..(i - 1) :
                              mutations[j] = Removed(e.tab, previous[e.tab])
                  \/ /\ e = Removed(e.tab, previous[e.tab])
                     /\ \A j \in 1..(i - 1) : mutations[j].tab # e.tab
            BY <1>1, <2>1 DEF ListInv
        <3> QED BY <3>1, <3>2, <3>3
    <2>2. CASE i \notin 1..n
        <3>1. i = n + 1 /\ i - 1 = n /\ mutations'[i] = m
            BY <1>1, <1>2, <2>2
        <3>2. CASE /\ m = Added(m.tab, desired[m.tab])
                   /\ previous[m.tab] = None \/ WasRemoved(m.tab)
            <4>1. \/ previous[m.tab] = None
                  \/ \E j \in 1..n : mutations[j] = Removed(m.tab, previous[m.tab])
                BY <1>1, <3>2 DEF WasRemoved, Listed
            <4>2. \/ previous[m.tab] = None
                  \/ \E j \in 1..n : mutations'[j] = Removed(m.tab, previous[m.tab])
                BY <1>2, <4>1
            <4> QED BY <3>1, <3>2, <4>2
        <3>3. CASE m = Removed(m.tab, previous[m.tab]) /\ ~WasAdded(m.tab)
            <4>1. ASSUME NEW j \in 1..n, mutations[j].tab = m.tab
                  PROVE  FALSE
                <5>1. j \in DOMAIN mutations
                    BY <1>1
                <5>2. \/ WasAdded(m.tab)
                      \/ mutations[j] = Removed(m.tab, previous[m.tab])
                    BY <4>1, <5>1, EntriesOfTab
                <5>3. mutations[j] = m
                    BY <3>3, <5>2
                <5> QED BY <5>1, <5>3 DEF Listed
            <4>2. \A j \in 1..n : mutations'[j].tab # m.tab
                BY <1>2, <4>1
            <4> QED BY <3>1, <3>3, <4>2
        <3> QED BY <3>2, <3>3
    <2> QED BY <2>1, <2>2
<1>5. ASSUME NEW i \in DOMAIN mutations', NEW j \in DOMAIN mutations',
             mutations'[i] = mutations'[j]
      PROVE  i = j
    <2>1. \A k \in 1..n : mutations'[k] # m
        BY <1>1, <1>2 DEF Listed
    <2>2. \A k \in DOMAIN mutations' : k \in 1..n \/ k = n + 1
        BY <1>1, <1>2
    <2>3. CASE i \in 1..n /\ j \in 1..n
        BY <1>1, <1>2, <1>5, <2>3 DEF ListInv
    <2>4. CASE ~(i \in 1..n /\ j \in 1..n)
        BY <1>2, <1>5, <2>1, <2>2, <2>4
    <2> QED BY <2>3, <2>4
<1>6. ListInv'
    BY <1>2, <1>4, <1>5 DEF ListInv
<1> QED BY <1>2, <1>3, <1>6

(* The last mutation is taken away, and nothing of its tab is later.       *)
LEMMA ListShrinks ==
    ASSUME ListInv, mutations # <<>>, mutations' = Front(mutations),
           UNCHANGED <<desired, previous>>, pc' # "idle"
    PROVE  /\ ListInv'
           /\ \E m \in Mutation :
                 /\ m = Last(mutations)
                 /\ \A x : Listed(x)' <=> Listed(x) /\ x # m
                 /\ \/ /\ m = Added(m.tab, desired[m.tab])
                       /\ previous[m.tab] = None \/ WasRemoved(m.tab)'
                    \/ m = Removed(m.tab, previous[m.tab]) /\ ~WasAdded(m.tab)
<1> DEFINE n == Len(mutations)
<1>1. /\ mutations \in Seq(Mutation) /\ n \in Nat \ {0}
      /\ DOMAIN mutations = 1..n /\ Last(mutations) = mutations[n]
    BY DEF ListInv, Last
<1>2. /\ mutations' \in Seq(Mutation)
      /\ DOMAIN mutations' = 1..(n - 1)
      /\ \A i \in 1..(n - 1) : mutations'[i] = mutations[i]
    BY <1>1 DEF Front
<1> HIDE DEF n
<1>3. n \in DOMAIN mutations /\ mutations[n] \in Mutation
    BY <1>1
<1>4. \A i, j \in 1..n : mutations[i] = mutations[j] => i = j
    BY <1>1 DEF ListInv
<1>5. \A x : Listed(x)' <=> Listed(x) /\ x # Last(mutations)
    <2> TAKE x
    <2>1. ASSUME Listed(x)'
          PROVE  Listed(x) /\ x # mutations[n]
        <3>1. PICK i \in 1..(n - 1) : mutations'[i] = x
            BY <1>2, <2>1 DEF Listed
        <3>2. i \in 1..n /\ i # n /\ mutations[i] = x
            BY <1>1, <1>2, <3>1
        <3>3. x # mutations[n]
            BY <1>1, <1>3, <1>4, <3>2
        <3> QED BY <1>1, <3>2, <3>3 DEF Listed
    <2>2. ASSUME Listed(x), x # mutations[n]
          PROVE  Listed(x)'
        <3>1. PICK i \in 1..n : mutations[i] = x
            BY <1>1, <2>2 DEF Listed
        <3>2. i \in 1..(n - 1)
            BY <1>1, <2>2, <3>1
        <3> QED BY <1>2, <3>1, <3>2 DEF Listed
    <2> QED BY <1>1, <2>1, <2>2
<1>6. ASSUME NEW i \in 1..n
      PROVE  LET e == mutations[i]
             IN  \/ /\ e = Added(e.tab, desired[e.tab])
                    /\ \/ previous[e.tab] = None
                       \/ \E j \in 1..(i - 1) :
                             mutations[j] = Removed(e.tab, previous[e.tab])
                 \/ /\ e = Removed(e.tab, previous[e.tab])
                    /\ \A j \in 1..(i - 1) : mutations[j].tab # e.tab
    BY <1>1 DEF ListInv
<1>7. ASSUME NEW i \in 1..(n - 1)
      PROVE  LET e == mutations'[i]
             IN  \/ /\ e = Added(e.tab, desired'[e.tab])
                    /\ \/ previous'[e.tab] = None
                       \/ \E j \in 1..(i - 1) :
                             mutations'[j] = Removed(e.tab, previous'[e.tab])
                 \/ /\ e = Removed(e.tab, previous'[e.tab])
                    /\ \A j \in 1..(i - 1) : mutations'[j].tab # e.tab
    <2>1. i \in 1..n /\ mutations'[i] = mutations[i]
        BY <1>1, <1>2
    <2>2. \A j \in 1..(i - 1) : mutations'[j] = mutations[j]
        BY <1>1, <1>2
    <2> QED BY <1>6, <2>1, <2>2
<1>8. \A i, j \in 1..(n - 1) : mutations'[i] = mutations'[j] => i = j
    BY <1>1, <1>2, <1>4
<1>9. ListInv'
    BY <1>2, <1>7, <1>8 DEF ListInv
<1>10. ASSUME NEW m \in Mutation, m = mutations[n]
       PROVE  \/ /\ m = Added(m.tab, desired[m.tab])
                 /\ previous[m.tab] = None \/ WasRemoved(m.tab)'
              \/ m = Removed(m.tab, previous[m.tab]) /\ ~WasAdded(m.tab)
    <2>1. n \in 1..n
        BY <1>1
    <2>2. CASE /\ m = Added(m.tab, desired[m.tab])
               /\ \/ previous[m.tab] = None
                  \/ \E j \in 1..(n - 1) :
                        mutations[j] = Removed(m.tab, previous[m.tab])
        <3>1. ASSUME NEW j \in 1..(n - 1),
                     mutations[j] = Removed(m.tab, previous[m.tab])
              PROVE  WasRemoved(m.tab)'
            <4>1. j \in DOMAIN mutations'
                BY <1>2
            <4>2. mutations'[j] = Removed(m.tab, previous'[m.tab])
                BY <1>2, <3>1
            <4> QED BY <4>1, <4>2 DEF WasRemoved, Listed
        <3> QED BY <2>2, <3>1
    <2>3. CASE /\ m = Removed(m.tab, previous[m.tab])
               /\ \A j \in 1..(n - 1) : mutations[j].tab # m.tab
        <3>1. ASSUME WasAdded(m.tab)
              PROVE  FALSE
            <4>1. PICK j \in 1..n : mutations[j] = Added(m.tab, desired[m.tab])
                BY <1>1, <3>1 DEF WasAdded, Listed
            <4>2. mutations[j].tab = m.tab /\ mutations[j].kind = "added"
                BY <4>1 DEF Added
            <4>3. m.kind = "removed"
                BY <2>3 DEF Removed
            <4>4. j # n
                BY <1>10, <4>2, <4>3
            <4>5. j \in 1..(n - 1)
                BY <1>1, <4>1, <4>4
            <4> QED BY <2>3, <4>2, <4>5
        <3> QED BY <2>3, <3>1
    <2>4. \/ /\ m = Added(m.tab, desired[m.tab])
             /\ \/ previous[m.tab] = None
                \/ \E j \in 1..(n - 1) :
                      mutations[j] = Removed(m.tab, previous[m.tab])
          \/ /\ m = Removed(m.tab, previous[m.tab])
             /\ \A j \in 1..(n - 1) : mutations[j].tab # m.tab
        BY <1>6, <1>10, <2>1
    <2> QED BY <2>2, <2>3, <2>4
<1>11. PICK m \in Mutation : m = mutations[n]
    BY <1>3
<1>12. \A x : Listed(x)' <=> Listed(x) /\ x # m
    BY <1>1, <1>5, <1>11
<1>13. \/ /\ m = Added(m.tab, desired[m.tab])
          /\ previous[m.tab] = None \/ WasRemoved(m.tab)'
       \/ m = Removed(m.tab, previous[m.tab]) /\ ~WasAdded(m.tab)
    BY <1>10, <1>11
<1> QED BY <1>1, <1>9, <1>11, <1>12, <1>13

(* A list that is not touched.                                             *)
LEMMA ListRests ==
    ASSUME ListInv, UNCHANGED <<mutations, desired, previous>>, pc' # "idle"
    PROVE  ListInv' /\ \A t : /\ WasAdded(t)' <=> WasAdded(t)
                              /\ WasRemoved(t)' <=> WasRemoved(t)
BY DEF ListInv, WasAdded, WasRemoved, Listed

(* An empty list says nothing of any tab.                                  *)
LEMMA ListEmpty ==
    ASSUME mutations' = <<>>
    PROVE  ListInv' /\ \A t : ~WasAdded(t)' /\ ~WasRemoved(t)'
BY DEF ListInv, WasAdded, WasRemoved, Listed

-----------------------------------------------------------------------------
(* Apply and its rollback.                                                 *)

(* Of a tab that has nothing installed, and of one that is subclassed.     *)
LEMMA WhatInstalledSays ==
    ASSUME TabInvariant, pc \in Applying, NEW t \in Tabs
    PROVE  /\ WasAdded(t) => installed[t] = desired[t] /\ desired[t] # None
           /\ WasRemoved(t) /\ ~WasAdded(t) => installed[t] = None
           /\ ~WasRemoved(t) /\ ~WasAdded(t) => installed[t] = previous[t]
           /\ WasRemoved(t) => previous[t] # None
<1>1. installed[t] = IF WasAdded(t) THEN desired[t]
                     ELSE IF WasRemoved(t) THEN None ELSE previous[t]
    BY DEF TabInvariant, InstalledInv, Applying, Busy
<1>2. ASSUME WasAdded(t)
      PROVE  desired[t] # None
    <2>1. PICK i \in DOMAIN mutations : mutations[i] = Added(t, desired[t])
        BY <1>2 DEF WasAdded, Listed
    <2>2. mutations[i] \in Mutation
        BY <2>1, EntriesAre DEF TabInvariant
    <2>3. desired[t] \in Gens
        BY <2>1, <2>2 DEF Mutation, Added
    <2> QED BY <2>3 DEF Gens, None
<1>3. ASSUME WasRemoved(t)
      PROVE  previous[t] # None
    <2>1. PICK i \in DOMAIN mutations : mutations[i] = Removed(t, previous[t])
        BY <1>3 DEF WasRemoved, Listed
    <2>2. mutations[i] \in Mutation
        BY <2>1, EntriesAre DEF TabInvariant
    <2>3. previous[t] \in Gens
        BY <2>1, <2>2 DEF Mutation, Removed
    <2> QED BY <2>3 DEF Gens, None
<1> QED BY <1>1, <1>2, <1>3

(* What is known of generations is left alone until Apply accepts.         *)
LEMMA RetiredRests ==
    ASSUME RetiredInv, UNCHANGED <<authoritative, known, topGeneration, retired>>,
           \/ pc' \notin Applying
           \/ pc \in Applying /\ UNCHANGED <<desired, desiredTop>>
    PROVE  RetiredInv'
BY DEF RetiredInv, RetiredStaysRetired, Identities, Members

(* One RemoveWindowSubclass of Apply. The set stays exact.                 *)
LEMMA RemovalStep ==
    ASSUME TabInvariant, pc = "reusing", NEW t \in Tabs,
           previous[t] # None, installed[t] # None, installed[t] # desired[t],
           Unsubclasses(t),
           mutations' = Append(mutations, Removed(t, previous[t])),
           \/ pc' = "reinstalling" /\ desired[t] # None
           \/ pc' = "reusing",
           UNCHANGED <<live, inside, authoritative, known, topGeneration, unsafe,
                       desired, desiredTop, previous, undone, retired>>
    PROVE  TabInvariant'
<1>1. /\ TypeOK /\ ListInv /\ InstalledInv /\ TrackedInv /\ RetiredInv
    BY DEF TabInvariant
<1>2. ~WasAdded(t) /\ ~WasRemoved(t)
    BY WhatInstalledSays DEF Applying
<1> DEFINE m == Removed(t, previous[t])
<1>3. m \in Mutation /\ m.tab = t /\ m.kind = "removed" /\ m.gen = previous[t]
    BY <1>1 DEF TypeOK, TabSet, Removed, Mutation
<1>4. ~Listed(m) /\ m = Removed(m.tab, previous[m.tab]) /\ ~WasAdded(m.tab)
    BY <1>2, <1>3 DEF WasRemoved
<1>5. /\ ListInv' /\ \A x : Listed(x)' <=> Listed(x) \/ x = m
      /\ mutations' # <<>> /\ mutations'[Len(mutations')] = m
    <2> HIDE DEF m
    <2>1. mutations' = Append(mutations, m)
        BY DEF m
    <2>2. pc' # "idle"
        OBVIOUS
    <2>3. ListInv /\ UNCHANGED <<desired, previous>>
        BY <1>1
    <2>4. /\ ListInv' /\ mutations' # <<>> /\ mutations'[Len(mutations')] = m
          /\ \A x : Listed(x)' <=> Listed(x) \/ x = m
        BY <1>3, <1>4, <2>1, <2>2, <2>3, ListGrows
    <2> QED BY <2>4
<1>6. \A u \in Tabs : /\ WasAdded(u)' <=> WasAdded(u)
                      /\ WasRemoved(u)' <=> WasRemoved(u) \/ u = t
    <2> TAKE u \in Tabs
    <2>1. Added(u, desired[u]) # m
        BY <1>3 DEF Added
    <2>2. Removed(u, previous[u]) = m <=> u = t
        BY DEF Removed
    <2> HIDE DEF m
    <2>3. /\ WasAdded(u)' <=> Listed(Added(u, desired[u]))'
          /\ WasRemoved(u)' <=> Listed(Removed(u, previous[u]))'
        BY DEF WasAdded, WasRemoved, Listed
    <2> QED BY <1>5, <2>1, <2>2, <2>3 DEF WasAdded, WasRemoved
<1>7. /\ installed' = [installed EXCEPT ![t] = None]
      /\ subclassed' = subclassed \ {t} /\ t \in subclassed
    BY DEF Unsubclasses
<1>8. TypeOK'
    <2>1. \A i \in 1..Len(mutations') : mutations'[i] \in
             [kind : {"added", "removed"}, tab : Tabs, gen : Gens]
        <3>1. mutations' \in Seq(Mutation)
            BY <1>5 DEF ListInv
        <3> QED BY <3>1, ListTyped
    <2> QED BY <1>1, <1>7, <2>1 DEF TypeOK, TabSet, None
<1>9. InstalledInv'
    <2>1. undone' /\ \A u \in Tabs :
             installed'[u] = IF WasAdded(u)' THEN desired'[u]
                             ELSE IF WasRemoved(u)' THEN None ELSE previous'[u]
        <3>1. undone
            BY <1>1 DEF InstalledInv, Applying
        <3>2. \A u \in Tabs :
                 installed[u] = IF WasAdded(u) THEN desired[u]
                                ELSE IF WasRemoved(u) THEN None ELSE previous[u]
            BY <1>1, <3>1 DEF InstalledInv, Applying, Busy
        <3> QED BY <1>1, <1>2, <1>6, <1>7, <3>1, <3>2 DEF TypeOK, TabSet
    <2>2. pc' = "reinstalling" =>
             /\ mutations' # <<>>
             /\ mutations'[Len(mutations')].kind = "removed"
             /\ desired'[mutations'[Len(mutations')].tab] # None
        BY <1>3, <1>5
    <2> QED BY <2>1, <2>2 DEF InstalledInv
<1>10. TrackedInv'
    <2>1. Members(installed)' = Members(installed) \ {t}
        BY <1>1, <1>7 DEF Members, TypeOK, TabSet
    <2>2. Members(previous)' = Members(previous)
        BY DEF Members
    <2>3. undone /\ undone'
        BY <1>1 DEF InstalledInv, Applying
    <2> QED BY <1>1, <1>7, <2>1, <2>2, <2>3
            DEF TrackedInv, NoUntrackedCallback, Busy, Applying
<1>11. RetiredInv'
    BY <1>1, RetiredRests DEF Applying
<1> QED BY <1>5, <1>8, <1>9, <1>10, <1>11 DEF TabInvariant

(* One SetWindowSubclass of Apply.                                         *)
LEMMA InstallStep ==
    ASSUME TabInvariant, pc \in {"reusing", "reinstalling"}, NEW t \in Tabs,
           desired[t] # None, ~WasAdded(t),
           previous[t] = None \/ WasRemoved(t),
           Subclasses(t, desired[t]),
           mutations' = Append(mutations, Added(t, desired[t])),
           pc' = "reusing",
           UNCHANGED <<live, inside, authoritative, known, topGeneration, unsafe,
                       desired, desiredTop, previous, undone, retired>>
    PROVE  TabInvariant'
<1>1. /\ TypeOK /\ ListInv /\ InstalledInv /\ TrackedInv /\ RetiredInv
    BY DEF TabInvariant
<1> DEFINE m == Added(t, desired[t])
<1>2. desired[t] \in Gens
    BY <1>1 DEF TypeOK, TabSet
<1>3. m \in Mutation /\ m.tab = t /\ m.kind = "added" /\ m.gen = desired[t]
    BY <1>2 DEF Added, Mutation
<1>4. /\ ~Listed(m) /\ m = Added(m.tab, desired[m.tab])
      /\ previous[m.tab] = None \/ WasRemoved(m.tab)
    BY <1>3 DEF WasAdded
<1>5. /\ ListInv' /\ \A x : Listed(x)' <=> Listed(x) \/ x = m
    <2> HIDE DEF m
    <2>1. mutations' = Append(mutations, m)
        BY DEF m
    <2>2. pc' # "idle"
        OBVIOUS
    <2>3. ListInv /\ UNCHANGED <<desired, previous>>
        BY <1>1
    <2>4. /\ ListInv' /\ \A x : Listed(x)' <=> Listed(x) \/ x = m
        BY <1>3, <1>4, <2>1, <2>2, <2>3, ListGrows
    <2> QED BY <2>4
<1>6. \A u \in Tabs : /\ WasAdded(u)' <=> WasAdded(u) \/ u = t
                      /\ WasRemoved(u)' <=> WasRemoved(u)
    <2> TAKE u \in Tabs
    <2>1. Removed(u, previous[u]) # m
        BY <1>3 DEF Removed
    <2>2. Added(u, desired[u]) = m <=> u = t
        BY DEF Added
    <2> HIDE DEF m
    <2>3. /\ WasAdded(u)' <=> Listed(Added(u, desired[u]))'
          /\ WasRemoved(u)' <=> Listed(Removed(u, previous[u]))'
        BY DEF WasAdded, WasRemoved, Listed
    <2> QED BY <1>5, <2>1, <2>2, <2>3 DEF WasAdded, WasRemoved
<1>7. /\ installed' = [installed EXCEPT ![t] = desired[t]]
      /\ subclassed' = subclassed \cup {t} /\ t \in live
    BY DEF Subclasses
<1>8. TypeOK'
    <2>1. \A i \in 1..Len(mutations') : mutations'[i] \in
             [kind : {"added", "removed"}, tab : Tabs, gen : Gens]
        <3>1. mutations' \in Seq(Mutation)
            BY <1>5 DEF ListInv
        <3> QED BY <3>1, ListTyped
    <2> QED BY <1>1, <1>2, <1>7, <2>1 DEF TypeOK, TabSet
<1>9. InstalledInv'
    <2>1. undone' /\ \A u \in Tabs :
             installed'[u] = IF WasAdded(u)' THEN desired'[u]
                             ELSE IF WasRemoved(u)' THEN None ELSE previous'[u]
        <3>1. undone
            BY <1>1 DEF InstalledInv, Applying
        <3>2. \A u \in Tabs :
                 installed[u] = IF WasAdded(u) THEN desired[u]
                                ELSE IF WasRemoved(u) THEN None ELSE previous[u]
            BY <1>1, <3>1 DEF InstalledInv, Applying, Busy
        <3> QED BY <1>1, <1>6, <1>7, <3>1, <3>2 DEF TypeOK, TabSet
    <2> QED BY <2>1 DEF InstalledInv
<1>10. TrackedInv'
    <2>1. Members(installed)' = Members(installed) \cup {t}
        BY <1>1, <1>7 DEF Members, TypeOK, TabSet
    <2>2. Members(previous)' = Members(previous)
        BY DEF Members
    <2>3. undone /\ undone'
        BY <1>1 DEF InstalledInv, Applying
    <2> QED BY <1>1, <1>7, <2>1, <2>2, <2>3
            DEF TrackedInv, NoUntrackedCallback, Busy, Applying
<1>11. RetiredInv'
    BY <1>1, RetiredRests DEF Applying
<1> QED BY <1>5, <1>8, <1>9, <1>10, <1>11 DEF TabInvariant

(* A call of Apply fails: what was done so far is to be undone.            *)
LEMMA FailureStep ==
    ASSUME TabInvariant, pc \in Applying, Fails,
           UNCHANGED <<live, inside, subclassed, set, locals, retired>>
    PROVE  TabInvariant'
<1>1. /\ TypeOK /\ ListInv /\ InstalledInv /\ TrackedInv /\ RetiredInv
    BY DEF TabInvariant
<1>2. pc' = "rollback" /\ UNCHANGED <<desired, desiredTop, previous, mutations, undone>>
      /\ UNCHANGED <<installed, authoritative, known, topGeneration, unsafe>>
    BY DEF Fails, set, locals
<1>3. ListInv' /\ \A t \in Tabs : /\ WasAdded(t)' <=> WasAdded(t)
                                  /\ WasRemoved(t)' <=> WasRemoved(t)
    <2>1. ListInv /\ UNCHANGED <<mutations, desired, previous>> /\ pc' # "idle"
        BY <1>1, <1>2
    <2> QED BY <2>1, ListRests
<1>4. TypeOK'
    BY <1>1, <1>2 DEF TypeOK
<1>5. InstalledInv'
    <2>1. undone /\ \A t \in Tabs :
             installed[t] = IF WasAdded(t) THEN desired[t]
                            ELSE IF WasRemoved(t) THEN None ELSE previous[t]
        BY <1>1 DEF InstalledInv, Busy, Applying
    <2>2. \A t \in Tabs :
             installed'[t] = IF WasAdded(t)' THEN desired'[t]
                             ELSE IF WasRemoved(t)' THEN None ELSE previous'[t]
        <3> TAKE t \in Tabs
        <3>1. /\ installed'[t] = installed[t] /\ desired'[t] = desired[t]
              /\ previous'[t] = previous[t]
            BY <1>2
        <3>2. /\ WasAdded(t)' <=> WasAdded(t)
              /\ WasRemoved(t)' <=> WasRemoved(t)
            BY <1>3
        <3> QED BY <2>1, <3>1, <3>2, Zenon
    <2>3. pc' \notin Applying /\ pc' \notin {"reinstalling", "accepting"}
        BY <1>2 DEF Applying
    <2> QED BY <2>2, <2>3 DEF InstalledInv
<1>6. TrackedInv'
    <2>1. /\ Members(installed)' = Members(installed)
          /\ Members(previous)' = Members(previous)
        BY <1>2 DEF Members
    <2>2. undone /\ undone' /\ pc' # "idle" /\ pc \in Busy /\ pc \notin {"idle"}
        BY <1>1, <1>2 DEF InstalledInv, Applying, Busy
    <2> QED BY <1>1, <1>2, <2>1, <2>2 DEF TrackedInv, NoUntrackedCallback
<1>7. RetiredInv'
    BY <1>1, <1>2, RetiredRests DEF Applying
<1> QED BY <1>3, <1>4, <1>5, <1>6, <1>7 DEF TabInvariant

(* The undoing of an installation, which may not come off again.           *)
LEMMA UndoAddedStep ==
    ASSUME TabInvariant, UndoAdded
    PROVE  TabInvariant'
<1>1. /\ TypeOK /\ ListInv /\ InstalledInv /\ TrackedInv /\ RetiredInv
    BY DEF TabInvariant
<1>2. /\ pc = "rollback" /\ pc' = "rollback" /\ mutations # <<>>
      /\ mutations' = Front(mutations)
      /\ Last(mutations).kind = "added"
      /\ \/ Unsubclasses(Last(mutations).tab) /\ UNCHANGED undone
         \/ /\ installed' = [installed EXCEPT
                                ![Last(mutations).tab] = Last(mutations).gen]
            /\ undone' = FALSE
            /\ UNCHANGED subclassed
      /\ UNCHANGED <<live, inside, authoritative, known, topGeneration, unsafe,
                     desired, desiredTop, previous, retired>>
    BY DEF UndoAdded
<1>3. /\ ListInv'
      /\ \E m \in Mutation :
            /\ m = Last(mutations)
            /\ \A x : Listed(x)' <=> Listed(x) /\ x # m
            /\ \/ /\ m = Added(m.tab, desired[m.tab])
                  /\ previous[m.tab] = None \/ WasRemoved(m.tab)'
               \/ m = Removed(m.tab, previous[m.tab]) /\ ~WasAdded(m.tab)
    <2>1. pc' # "idle" /\ UNCHANGED <<desired, previous>>
        BY <1>2
    <2> QED BY <1>1, <1>2, <2>1, ListShrinks
<1>4. PICK m \in Mutation :
            /\ m = Last(mutations)
            /\ \A x : Listed(x)' <=> Listed(x) /\ x # m
            /\ \/ /\ m = Added(m.tab, desired[m.tab])
                  /\ previous[m.tab] = None \/ WasRemoved(m.tab)'
               \/ m = Removed(m.tab, previous[m.tab]) /\ ~WasAdded(m.tab)
    BY <1>3
<1>5. PICK t \in Tabs : t = m.tab
    BY DEF Mutation
<1>6. /\ m = Added(t, desired[t]) /\ m.gen = desired[t] /\ desired[t] \in Gens
      /\ previous[t] = None \/ WasRemoved(t)'
    <2>1. m # Removed(m.tab, previous[m.tab])
        BY <1>2, <1>4 DEF Removed
    <2>2. m.gen \in Gens
        BY DEF Mutation
    <2>3. m = Added(t, desired[t]) /\ (previous[t] = None \/ WasRemoved(t)')
        BY <1>4, <1>5, <2>1
    <2> QED BY <2>2, <2>3 DEF Added
<1>7. \A u \in Tabs : /\ WasAdded(u)' <=> WasAdded(u) /\ u # t
                      /\ WasRemoved(u)' <=> WasRemoved(u)
    <2> TAKE u \in Tabs
    <2>1. Removed(u, previous[u]) # m
        BY <1>6 DEF Removed, Added
    <2>2. Added(u, desired[u]) = m <=> u = t
        BY <1>6 DEF Added
    <2>3. /\ WasAdded(u)' <=> Listed(Added(u, desired[u]))'
          /\ WasRemoved(u)' <=> Listed(Removed(u, previous[u]))'
        BY <1>2 DEF WasAdded, WasRemoved, Listed
    <2> QED BY <1>2, <1>4, <2>1, <2>2, <2>3 DEF WasAdded, WasRemoved
<1>8. \/ Unsubclasses(t) /\ UNCHANGED undone
      \/ /\ installed' = [installed EXCEPT ![t] = desired[t]]
         /\ undone' = FALSE
         /\ UNCHANGED subclassed
    BY <1>2, <1>4, <1>5, <1>6
<1>9. \A i \in 1..Len(mutations') : mutations'[i] \in
         [kind : {"added", "removed"}, tab : Tabs, gen : Gens]
    <2>1. mutations' \in Seq(Mutation)
        BY <1>3 DEF ListInv
    <2> QED BY <2>1, ListTyped
<1>10. RetiredInv'
    BY <1>1, <1>2, RetiredRests DEF Applying
<1>11. CASE Unsubclasses(t) /\ UNCHANGED undone
    <2>1. /\ installed' = [installed EXCEPT ![t] = None]
          /\ subclassed' = subclassed \ {t} /\ t \in subclassed
          /\ undone' = undone
        BY <1>11 DEF Unsubclasses
    <2>2. TypeOK'
        BY <1>1, <1>2, <1>9, <2>1 DEF TypeOK, TabSet, None
    <2>3. InstalledInv'
        <3>1. ASSUME undone
              PROVE  \A u \in Tabs : installed'[u] =
                        IF WasAdded(u)' THEN desired'[u]
                        ELSE IF WasRemoved(u)' THEN None ELSE previous'[u]
            <4>1. \A u \in Tabs :
                     installed[u] = IF WasAdded(u) THEN desired[u]
                                    ELSE IF WasRemoved(u) THEN None ELSE previous[u]
                BY <1>1, <1>2, <3>1 DEF InstalledInv, Busy
            <4> TAKE u \in Tabs
            <4>2. CASE u = t
                BY <1>1, <1>2, <1>6, <1>7, <2>1, <4>2 DEF TypeOK, TabSet
            <4>3. CASE u # t
                <5>1. installed'[u] = installed[u]
                    BY <1>1, <2>1, <4>3 DEF TypeOK, TabSet
                <5> QED BY <1>2, <1>7, <4>1, <4>3, <5>1
            <4> QED BY <4>2, <4>3
        <3>2. pc' \notin Applying /\ pc' \notin {"reinstalling", "accepting"}
            BY <1>2 DEF Applying
        <3> QED BY <2>1, <3>1, <3>2 DEF InstalledInv
    <2>4. TrackedInv'
        <3>1. Members(installed)' = Members(installed) \ {t}
            BY <1>1, <2>1 DEF Members, TypeOK, TabSet
        <3>2. Members(previous)' = Members(previous)
            BY <1>2 DEF Members
        <3>3. pc \in Busy /\ pc # "idle" /\ pc' # "idle"
            BY <1>2 DEF Busy
        <3> QED BY <1>1, <1>2, <2>1, <3>1, <3>2, <3>3
                DEF TrackedInv, NoUntrackedCallback
    <2> QED BY <1>3, <1>10, <2>2, <2>3, <2>4 DEF TabInvariant
<1>12. CASE /\ installed' = [installed EXCEPT ![t] = desired[t]]
            /\ undone' = FALSE
            /\ UNCHANGED subclassed
    <2>1. TypeOK'
        BY <1>1, <1>2, <1>6, <1>9, <1>12 DEF TypeOK, TabSet
    <2>2. InstalledInv'
        BY <1>2, <1>12 DEF InstalledInv, Applying
    <2>3. TrackedInv'
        <3>1. Members(installed)' = Members(installed) \cup {t}
            <4>1. desired[t] # None
                BY <1>6 DEF Gens, None
            <4> QED BY <1>1, <1>12, <4>1 DEF Members, TypeOK, TabSet
        <3>2. Members(previous)' = Members(previous)
            BY <1>2 DEF Members
        <3>3. pc \in Busy /\ pc # "idle" /\ pc' # "idle"
            BY <1>2 DEF Busy
        <3> QED BY <1>1, <1>2, <1>12, <3>1, <3>2, <3>3
                DEF TrackedInv, NoUntrackedCallback
    <2> QED BY <1>3, <1>10, <2>1, <2>2, <2>3 DEF TabInvariant
<1> QED BY <1>8, <1>11, <1>12

(* The undoing of a removal. Nothing of the tab was listed after it.       *)
LEMMA UndoRemovedStep ==
    ASSUME TabInvariant, UndoRemoved
    PROVE  TabInvariant'
<1>1. /\ TypeOK /\ ListInv /\ InstalledInv /\ TrackedInv /\ RetiredInv
    BY DEF TabInvariant
<1>2. /\ pc = "rollback" /\ pc' = "rollback" /\ mutations # <<>>
      /\ mutations' = Front(mutations)
      /\ Last(mutations).kind = "removed"
      /\ installed' = [installed EXCEPT
                          ![Last(mutations).tab] = Last(mutations).gen]
      /\ \/ /\ Last(mutations).tab \in live
            /\ subclassed' = subclassed \cup {Last(mutations).tab}
            /\ UNCHANGED undone
         \/ UNCHANGED subclassed /\ undone' = FALSE
      /\ UNCHANGED <<live, inside, authoritative, known, topGeneration, unsafe,
                     desired, desiredTop, previous, retired>>
    BY DEF UndoRemoved
<1>3. /\ ListInv'
      /\ \E m \in Mutation :
            /\ m = Last(mutations)
            /\ \A x : Listed(x)' <=> Listed(x) /\ x # m
            /\ \/ /\ m = Added(m.tab, desired[m.tab])
                  /\ previous[m.tab] = None \/ WasRemoved(m.tab)'
               \/ m = Removed(m.tab, previous[m.tab]) /\ ~WasAdded(m.tab)
    <2>1. pc' # "idle" /\ UNCHANGED <<desired, previous>>
        BY <1>2
    <2> QED BY <1>1, <1>2, <2>1, ListShrinks
<1>4. PICK m \in Mutation :
            /\ m = Last(mutations)
            /\ \A x : Listed(x)' <=> Listed(x) /\ x # m
            /\ \/ /\ m = Added(m.tab, desired[m.tab])
                  /\ previous[m.tab] = None \/ WasRemoved(m.tab)'
               \/ m = Removed(m.tab, previous[m.tab]) /\ ~WasAdded(m.tab)
    BY <1>3
<1>5. PICK t \in Tabs : t = m.tab
    BY DEF Mutation
<1>6. /\ m = Removed(t, previous[t]) /\ m.gen = previous[t] /\ previous[t] \in Gens
      /\ ~WasAdded(t)
    <2>1. m # Added(m.tab, desired[m.tab])
        BY <1>2, <1>4 DEF Added
    <2>2. m.gen \in Gens
        BY DEF Mutation
    <2>3. m = Removed(t, previous[t]) /\ ~WasAdded(t)
        BY <1>4, <1>5, <2>1
    <2> QED BY <2>2, <2>3 DEF Removed
<1>7. \A u \in Tabs : /\ WasAdded(u)' <=> WasAdded(u)
                      /\ WasRemoved(u)' <=> WasRemoved(u) /\ u # t
    <2> TAKE u \in Tabs
    <2>1. Added(u, desired[u]) # m
        BY <1>6 DEF Removed, Added
    <2>2. Removed(u, previous[u]) = m <=> u = t
        BY <1>6 DEF Removed
    <2>3. /\ WasAdded(u)' <=> Listed(Added(u, desired[u]))'
          /\ WasRemoved(u)' <=> Listed(Removed(u, previous[u]))'
        BY <1>2 DEF WasAdded, WasRemoved, Listed
    <2> QED BY <1>2, <1>4, <2>1, <2>2, <2>3 DEF WasAdded, WasRemoved
<1>8. /\ installed' = [installed EXCEPT ![t] = previous[t]]
      /\ \/ t \in live /\ subclassed' = subclassed \cup {t} /\ UNCHANGED undone
         \/ UNCHANGED subclassed /\ undone' = FALSE
    BY <1>2, <1>4, <1>5, <1>6
<1>9. \A i \in 1..Len(mutations') : mutations'[i] \in
         [kind : {"added", "removed"}, tab : Tabs, gen : Gens]
    <2>1. mutations' \in Seq(Mutation)
        BY <1>3 DEF ListInv
    <2> QED BY <2>1, ListTyped
<1>10. RetiredInv'
    BY <1>1, <1>2, RetiredRests DEF Applying
<1>11. TypeOK'
    <2>1. undone' \in BOOLEAN
        BY <1>1, <1>8, Zenon DEF TypeOK
    <2>2. subclassed' \subseteq live'
        BY <1>1, <1>2, <1>8 DEF TypeOK
    <2> QED BY <1>1, <1>2, <1>6, <1>8, <1>9, <2>1, <2>2 DEF TypeOK, TabSet
<1>12. InstalledInv'
    <2>1. ASSUME undone'
          PROVE  \A u \in Tabs : installed'[u] =
                    IF WasAdded(u)' THEN desired'[u]
                    ELSE IF WasRemoved(u)' THEN None ELSE previous'[u]
        <3>1. undone
            BY <1>8, <2>1
        <3>2. \A u \in Tabs :
                 installed[u] = IF WasAdded(u) THEN desired[u]
                                ELSE IF WasRemoved(u) THEN None ELSE previous[u]
            BY <1>1, <1>2, <3>1 DEF InstalledInv, Busy
        <3> TAKE u \in Tabs
        <3>3. CASE u = t
            BY <1>1, <1>2, <1>6, <1>7, <1>8, <3>3 DEF TypeOK, TabSet
        <3>4. CASE u # t
            <4>1. installed'[u] = installed[u]
                BY <1>1, <1>8, <3>4 DEF TypeOK, TabSet
            <4> QED BY <1>2, <1>7, <3>2, <3>4, <4>1
        <3> QED BY <3>3, <3>4
    <2>2. pc' \notin Applying /\ pc' \notin {"reinstalling", "accepting"}
        BY <1>2 DEF Applying
    <2> QED BY <2>1, <2>2 DEF InstalledInv
<1>13. TrackedInv'
    <2>1. Members(installed)' = Members(installed) \cup {t}
        <3>1. previous[t] # None
            BY <1>6 DEF Gens, None
        <3> QED BY <1>1, <1>8, <3>1 DEF Members, TypeOK, TabSet
    <2>2. Members(previous)' = Members(previous)
        BY <1>2 DEF Members
    <2>3. pc \in Busy /\ pc # "idle" /\ pc' # "idle"
        BY <1>2 DEF Busy
    <2>4. CASE subclassed' = subclassed \cup {t} /\ UNCHANGED undone
        BY <1>1, <1>2, <2>1, <2>2, <2>3, <2>4
           DEF TrackedInv, NoUntrackedCallback
    <2>5. CASE UNCHANGED subclassed /\ undone' = FALSE
        BY <1>1, <1>2, <2>1, <2>2, <2>3, <2>5
           DEF TrackedInv, NoUntrackedCallback
    <2> QED BY <1>8, <2>4, <2>5
<1> QED BY <1>3, <1>10, <1>11, <1>12, <1>13 DEF TabInvariant

(* What Rollback leaves is what there was before, or is called unsafe.     *)
LEMMA RollbackEndsStep ==
    ASSUME TabInvariant, RollbackEnds
    PROVE  TabInvariant'
<1>1. /\ TypeOK /\ ListInv /\ InstalledInv /\ TrackedInv /\ RetiredInv
    BY DEF TabInvariant
<1>2. /\ pc = "rollback" /\ pc' = "idle" /\ mutations = <<>> /\ mutations' = <<>>
      /\ installed' = IF undone THEN previous ELSE installed
      /\ desired' = Empty /\ desiredTop' = 0 /\ previous' = Empty
      /\ UNCHANGED <<live, inside, subclassed, authoritative, known,
                     topGeneration, undone, retired>>
    BY DEF RollbackEnds
<1>3. unsafe' \in BOOLEAN /\ (~unsafe' => ~unsafe /\ undone)
    BY Zenon DEF RollbackEnds
<1>4. installed' = installed
    <2>1. ASSUME undone
          PROVE  previous = installed
        <3>1. \A t : ~WasAdded(t) /\ ~WasRemoved(t)
            BY <1>2 DEF WasAdded, WasRemoved, Listed
        <3>2. \A t \in Tabs : installed[t] = previous[t]
            BY <1>1, <1>2, <2>1, <3>1 DEF InstalledInv, Busy
        <3> QED BY <1>1, <3>2 DEF TypeOK, TabSet
    <2> QED BY <1>2, <2>1
<1>5. Empty \in TabSet /\ 0 \in 0..MaxGen
    BY MaxGenAssumption DEF Empty, TabSet
<1>6. TypeOK'
    BY <1>1, <1>2, <1>3, <1>4, <1>5 DEF TypeOK
<1>7. ListInv'
    BY <1>2, ListEmpty
<1>8. InstalledInv'
    BY <1>2 DEF InstalledInv, Busy, Applying
<1>9. TrackedInv'
    <2>1. Members(installed)' = Members(installed)
        BY <1>4 DEF Members
    <2>2. ASSUME ~unsafe'
          PROVE  /\ subclassed = Members(installed)
                 /\ \A t \in Members(installed) : installed[t] = authoritative[t]
        <3>1. ~unsafe /\ undone
            BY <1>3, <2>2
        <3>2. installed = previous
            BY <1>2, <1>4, <3>1
        <3> QED BY <1>1, <1>2, <3>1, <3>2 DEF TrackedInv, Busy
    <2> QED BY <1>1, <1>2, <1>4, <2>1, <2>2
            DEF TrackedInv, NoUntrackedCallback, Busy, Applying
<1>10. RetiredInv'
    BY <1>1, <1>2, RetiredRests DEF Applying
<1> QED BY <1>6, <1>7, <1>8, <1>9, <1>10 DEF TabInvariant

(* Apply begins with what was accepted before.                             *)
LEMMA ApplyBeginsStep ==
    ASSUME TabInvariant, ApplyBegins
    PROVE  TabInvariant'
<1>1. /\ TypeOK /\ ListInv /\ InstalledInv /\ TrackedInv /\ RetiredInv
    BY DEF TabInvariant
<1>2. PICK tabs \in TabSet, top \in Gens :
         /\ GenerationsValid(tabs, top)
         /\ desired' = tabs /\ desiredTop' = top
    BY DEF ApplyBegins
<1>3. /\ pc = "idle" /\ pc' = "reusing" /\ previous' = installed
      /\ mutations' = <<>> /\ undone' = TRUE
      /\ UNCHANGED <<live, inside, subclassed, retired>>
      /\ UNCHANGED <<installed, authoritative, known, topGeneration, unsafe>>
    BY DEF ApplyBegins, set
<1>4. TypeOK'
    BY <1>1, <1>2, <1>3 DEF TypeOK, Gens
<1>5. ListInv' /\ \A t : ~WasAdded(t)' /\ ~WasRemoved(t)'
    BY <1>3, ListEmpty
<1>6. InstalledInv'
    <2>1. \A t \in Tabs : installed'[t] =
             IF WasAdded(t)' THEN desired'[t]
             ELSE IF WasRemoved(t)' THEN None ELSE previous'[t]
        <3> TAKE t \in Tabs
        <3>1. installed'[t] = previous'[t]
            BY <1>3
        <3>2. ~WasAdded(t)' /\ ~WasRemoved(t)'
            BY <1>5
        <3> QED BY <3>1, <3>2, Zenon
    <2>2. undone' /\ pc' \notin {"reinstalling", "accepting"}
        BY <1>3
    <2> QED BY <2>1, <2>2 DEF InstalledInv
<1>7. TrackedInv'
    <2>1. /\ Members(installed)' = Members(installed)
          /\ Members(previous)' = Members(installed)
        BY <1>3 DEF Members
    <2> QED BY <1>1, <1>3, <2>1 DEF TrackedInv, NoUntrackedCallback
<1>8. RetiredInv'
    <2>1. /\ (topGeneration = 0 =>
                authoritative = Empty /\ known = Empty /\ retired = {})'
          /\ (\A t \in Tabs : authoritative[t] \in {None, known[t]})'
          /\ (\A r \in retired :
                r[1] \in Tabs /\ r[2] \in Gens /\ r[2] <= known[r[1]])'
          /\ RetiredStaysRetired'
        BY <1>1, <1>3 DEF RetiredInv, RetiredStaysRetired, Identities, Members
    <2>2. desiredTop' # 0
        BY <1>2 DEF Gens
    <2>3. topGeneration # 0 => \A t \in Members(tabs) : known[t] # None =>
              /\ tabs[t] >= known[t]
              /\ tabs[t] = known[t] => authoritative[t] # None
        BY <1>2 DEF GenerationsValid
    <2>4. Members(desired)' = Members(tabs)
        BY <1>2 DEF Members
    <2> QED BY <1>2, <1>3, <2>1, <2>2, <2>3, <2>4 DEF RetiredInv
<1> QED BY <1>4, <1>5, <1>6, <1>7, <1>8 DEF TabInvariant

(* Every call was made, and the refresh is posted or fails.                *)
LEMMA RefreshesStep ==
    ASSUME TabInvariant, Refreshes
    PROVE  TabInvariant'
<1>1. /\ TypeOK /\ ListInv /\ InstalledInv /\ TrackedInv /\ RetiredInv
    BY DEF TabInvariant
<1>2. /\ pc = "reusing" /\ Reused = {} /\ Fresh = {} /\ Obsolete = {}
      /\ UNCHANGED <<live, inside, subclassed, set, locals, retired>>
    BY DEF Refreshes
<1>3. CASE Fails
    BY <1>2, <1>3, FailureStep DEF Applying
<1>4. CASE pc' = "accepting"
    <2>1. /\ UNCHANGED <<desired, desiredTop, previous, mutations, undone>>
          /\ UNCHANGED <<installed, authoritative, known, topGeneration, unsafe>>
          /\ UNCHANGED <<live, inside, subclassed, retired>>
        BY <1>2 DEF set, locals
    <2>2. ListInv' /\ \A t \in Tabs : /\ WasAdded(t)' <=> WasAdded(t)
                                      /\ WasRemoved(t)' <=> WasRemoved(t)
        <3>1. ListInv /\ UNCHANGED <<mutations, desired, previous>> /\ pc' # "idle"
            BY <1>1, <1>4, <2>1
        <3> QED BY <3>1, ListRests
    <2>3. installed = desired
        <3>1. ASSUME NEW t \in Tabs
              PROVE  installed[t] = desired[t]
            <4>1. /\ WasAdded(t) => installed[t] = desired[t]
                  /\ WasRemoved(t) /\ ~WasAdded(t) => installed[t] = None
                  /\ ~WasRemoved(t) /\ ~WasAdded(t) => installed[t] = previous[t]
                  /\ WasRemoved(t) => previous[t] # None
                BY <1>2, WhatInstalledSays DEF Applying
            <4>2. CASE desired[t] # None
                <5>1. installed[t] # None
                    BY <1>2, <4>2 DEF Fresh, Members
                <5>2. previous[t] \in {None, desired[t]} \/ installed[t] = desired[t]
                    BY <1>2, <4>2 DEF Reused, Members
                <5> QED BY <4>1, <5>1, <5>2
            <4>3. CASE desired[t] = None
                <5>1. previous[t] = None \/ installed[t] = None
                    BY <1>2, <4>3 DEF Obsolete, Members
                <5> QED BY <4>1, <4>3, <5>1
            <4> QED BY <4>2, <4>3
        <3> QED BY <1>1, <3>1 DEF TypeOK, TabSet
    <2>4. TypeOK'
        BY <1>1, <1>4, <2>1 DEF TypeOK
    <2>5. InstalledInv'
        <3>1. undone /\ \A t \in Tabs :
                 installed[t] = IF WasAdded(t) THEN desired[t]
                                ELSE IF WasRemoved(t) THEN None ELSE previous[t]
            BY <1>1, <1>2 DEF InstalledInv, Busy, Applying
        <3>2. \A t \in Tabs :
                 installed'[t] = IF WasAdded(t)' THEN desired'[t]
                                 ELSE IF WasRemoved(t)' THEN None ELSE previous'[t]
            <4> TAKE t \in Tabs
            <4>1. /\ installed'[t] = installed[t] /\ desired'[t] = desired[t]
                  /\ previous'[t] = previous[t]
                BY <2>1
            <4>2. /\ WasAdded(t)' <=> WasAdded(t)
                  /\ WasRemoved(t)' <=> WasRemoved(t)
                BY <2>2
            <4> QED BY <3>1, <4>1, <4>2, Zenon
        <3>3. undone' /\ installed' = desired' /\ pc' # "reinstalling"
            BY <1>4, <2>1, <2>3, <3>1
        <3> QED BY <3>2, <3>3 DEF InstalledInv
    <2>6. TrackedInv'
        <3>1. /\ Members(installed)' = Members(installed)
              /\ Members(previous)' = Members(previous)
            BY <2>1 DEF Members
        <3>2. undone /\ pc \in Busy /\ pc # "idle" /\ pc' # "idle"
            BY <1>1, <1>2, <1>4 DEF InstalledInv, Applying, Busy
        <3> QED BY <1>1, <2>1, <3>1, <3>2 DEF TrackedInv, NoUntrackedCallback
    <2>7. RetiredInv'
        BY <1>1, <1>2, <2>1, RetiredRests DEF Applying
    <2> QED BY <2>2, <2>4, <2>5, <2>6, <2>7 DEF TabInvariant
<1> QED BY <1>3, <1>4 DEF Refreshes

(* The new set is accepted, and what it does not have any more is retired. *)
LEMMA AcceptsStep ==
    ASSUME TabInvariant, Accepts
    PROVE  TabInvariant'
<1> USE MaxGenAssumption
<1>1. /\ TypeOK /\ ListInv /\ InstalledInv /\ TrackedInv /\ RetiredInv
    BY DEF TabInvariant
<1>2. /\ pc = "accepting" /\ pc' = "idle"
      /\ topGeneration' = desiredTop
      /\ authoritative' = desired /\ installed' = desired
      /\ known' = [t \in Tabs |-> Larger(known[t], desired[t])]
      /\ retired' = retired \cup (Identities(authoritative) \ Identities(desired))
      /\ desired' = Empty /\ desiredTop' = 0 /\ previous' = Empty
      /\ mutations' = <<>>
      /\ UNCHANGED <<live, inside, subclassed, unsafe, undone>>
    BY DEF Accepts
<1>3. /\ installed = desired /\ undone
      /\ desiredTop # 0
      /\ topGeneration # 0 => \A t \in Members(desired) : known[t] # None =>
            /\ desired[t] >= known[t]
            /\ desired[t] = known[t] => authoritative[t] # None
    BY <1>1, <1>2 DEF InstalledInv, RetiredInv, Applying
<1>4. \A t \in Tabs : /\ known[t] \in 0..MaxGen /\ desired[t] \in 0..MaxGen
                      /\ authoritative[t] \in 0..MaxGen
    BY <1>1 DEF TypeOK, TabSet, Gens, None
<1>5. \A t \in Tabs : /\ known'[t] \in 0..MaxGen
                      /\ known'[t] >= known[t] /\ known'[t] >= desired[t]
                      /\ known'[t] \in {known[t], desired[t]}
    BY <1>2, <1>4 DEF Larger
<1>6. Empty \in TabSet
    BY DEF Empty, TabSet
<1>7. TypeOK'
    <2>1. known' \in TabSet
        <3>1. \A t \in Tabs : known'[t] \in {None} \cup Gens
            BY <1>5 DEF Gens, None
        <3> QED BY <1>2, <3>1 DEF TabSet
    <2> QED BY <1>1, <1>2, <1>6, <2>1 DEF TypeOK
<1>8. ListInv'
    BY <1>2, ListEmpty
<1>9. InstalledInv'
    BY <1>2 DEF InstalledInv, Busy, Applying
<1>10. TrackedInv'
    <2>1. Members(installed)' = Members(installed)
        BY <1>2, <1>3 DEF Members
    <2>2. pc \in Busy /\ pc' \notin Busy
        BY <1>2 DEF Busy, Applying
    <2> QED BY <1>1, <1>2, <1>3, <2>1, <2>2 DEF TrackedInv, NoUntrackedCallback
<1>11. \A t \in Tabs : desired[t] # None => desired[t] >= known[t]
    <2> SUFFICES ASSUME NEW t \in Tabs, desired[t] # None
                 PROVE  desired[t] >= known[t]
        OBVIOUS
    <2>1. CASE topGeneration = 0
        <3>1. known[t] = 0
            BY <1>1, <2>1 DEF RetiredInv, Empty, None
        <3> QED BY <1>4, <3>1
    <2>2. CASE topGeneration # 0
        <3>1. known[t] # None => desired[t] >= known[t]
            BY <1>3, <2>2 DEF Members
        <3> QED BY <1>4, <3>1 DEF None
    <2> QED BY <2>1, <2>2
<1>12. \A t \in Tabs : authoritative'[t] \in {None, known'[t]}
    BY <1>2, <1>4, <1>5, <1>11
<1>13. ASSUME NEW r \in retired'
       PROVE  r[1] \in Tabs /\ r[2] \in Gens /\ r[2] <= known'[r[1]]
    <2>1. CASE r \in retired
        <3>1. r[1] \in Tabs /\ r[2] \in Gens /\ r[2] <= known[r[1]]
            BY <1>1, <2>1 DEF RetiredInv
        <3>2. /\ known[r[1]] \in 0..MaxGen /\ known'[r[1]] \in 0..MaxGen
              /\ known'[r[1]] >= known[r[1]]
            BY <1>4, <1>5, <3>1
        <3> QED BY <3>1, <3>2 DEF Gens
    <2>2. CASE r \notin retired
        <3>1. r \in Identities(authoritative)
            BY <1>2, <2>2
        <3>2. PICK t \in Tabs : /\ authoritative[t] # None
                                /\ r = <<t, authoritative[t]>>
            BY <3>1 DEF Identities, Members
        <3>3. r[1] = t /\ r[2] = authoritative[t]
            BY <3>2
        <3>4. authoritative[t] = known[t]
            BY <1>1, <3>2 DEF RetiredInv
        <3>5. authoritative[t] \in Gens
            BY <1>1, <3>2 DEF TypeOK, TabSet
        <3>6. /\ known[t] \in 0..MaxGen /\ known'[t] \in 0..MaxGen
              /\ known'[t] >= known[t]
            BY <1>4, <1>5
        <3> QED BY <3>3, <3>4, <3>5, <3>6 DEF Gens
    <2> QED BY <2>1, <2>2
<1>14. ASSUME NEW t \in Tabs, desired[t] # None, <<t, desired[t]>> \in retired'
       PROVE  FALSE
    <2>1. <<t, desired[t]>> \in Identities(desired)
        BY <1>14 DEF Identities, Members
    <2>2. <<t, desired[t]>> \in retired
        BY <1>2, <1>14, <2>1
    <2>3. topGeneration # 0
        BY <1>1, <2>2 DEF RetiredInv
    <2> DEFINE r == <<t, desired[t]>>
    <2>4. desired[t] <= known[t] /\ desired[t] \in Gens
        <3>1. r[1] = t /\ r[2] = desired[t] /\ r \in retired
            BY <2>2
        <3> HIDE DEF r
        <3> QED BY <1>1, <3>1 DEF RetiredInv
    <2>5. desired[t] = known[t] /\ known[t] # None
        BY <1>4, <1>11, <1>14, <2>4 DEF Gens, None
    <2>6. authoritative[t] # None
        BY <1>3, <1>14, <2>3, <2>5 DEF Members
    <2>7. authoritative[t] = desired[t]
        BY <1>1, <2>5, <2>6 DEF RetiredInv
    <2>8. <<t, desired[t]>> \in Identities(authoritative)
        BY <2>6, <2>7 DEF Identities, Members
    <2> QED BY <1>1, <2>2, <2>8 DEF RetiredInv, RetiredStaysRetired
<1>15. RetiredStaysRetired'
    BY <1>2, <1>14 DEF RetiredStaysRetired, Identities, Members
<1>16. RetiredInv'
    <2>1. topGeneration' # 0 /\ pc' \notin Applying
        BY <1>2, <1>3 DEF Applying
    <2> QED BY <1>12, <1>13, <1>15, <2>1 DEF RetiredInv
<1> QED BY <1>7, <1>8, <1>9, <1>10, <1>16 DEF TabInvariant

-----------------------------------------------------------------------------
(* Explorer, and RemoveAll.                                                *)

(* A tab opens, closes or moves between two operations.                    *)
LEMMA ExplorerStep ==
    ASSUME TabInvariant, NEW t \in Tabs,
           TabOpens(t) \/ TabMoves(t) \/ TabCloses(t)
    PROVE  TabInvariant'
<1>1. /\ TypeOK /\ ListInv /\ InstalledInv /\ TrackedInv /\ RetiredInv
    BY DEF TabInvariant
<1>2. /\ pc = "idle" /\ pc' = "idle"
      /\ UNCHANGED <<authoritative, known, topGeneration, retired>>
      /\ UNCHANGED <<desired, desiredTop, previous, mutations, undone>>
    BY DEF TabOpens, TabMoves, TabCloses, set, locals
<1>3. /\ inside' \subseteq live' /\ live' \subseteq Tabs
      /\ subclassed' \subseteq subclassed /\ subclassed' \subseteq live'
      /\ installed' \in TabSet /\ Members(installed') \subseteq Members(installed)
      /\ \A u \in Members(installed') : installed'[u] = installed[u]
      /\ subclassed' \subseteq Members(installed')
      /\ subclassed = Members(installed) => subclassed' = Members(installed')
    <2>1. CASE TabOpens(t) \/ TabMoves(t)
        <3>1. installed' = installed /\ subclassed' = subclassed
            BY <2>1 DEF TabOpens, TabMoves, set
        <3>2. /\ inside' \subseteq live' /\ live' \subseteq Tabs
              /\ live \subseteq live'
            BY <1>1, <2>1 DEF TypeOK, TabOpens, TabMoves
        <3> QED BY <1>1, <3>1, <3>2 DEF TypeOK, TrackedInv, NoUntrackedCallback,
                                        Members
    <2>2. CASE TabCloses(t)
        <3>1. /\ live' = live \ {t} /\ inside' = inside \ {t}
              /\ subclassed' = subclassed \ {t}
            BY <2>2 DEF TabCloses
        <3>2. CASE t \in subclassed
            <4>1. installed' = [installed EXCEPT ![t] = None]
                BY <2>2, <3>2 DEF TabCloses
            <4>2. installed' \in TabSet
                BY <1>1, <4>1 DEF TypeOK, TabSet
            <4>3. /\ Members(installed') = Members(installed) \ {t}
                  /\ \A u \in Members(installed') : installed'[u] = installed[u]
                BY <1>1, <4>1 DEF TypeOK, TabSet, Members
            <4> QED BY <1>1, <3>1, <4>2, <4>3 DEF TypeOK, TrackedInv,
                                                  NoUntrackedCallback
        <3>3. CASE t \notin subclassed
            <4>1. installed' = installed /\ subclassed' = subclassed
                BY <2>2, <3>1, <3>3 DEF TabCloses
            <4> QED BY <1>1, <3>1, <4>1 DEF TypeOK, TrackedInv,
                                            NoUntrackedCallback, Members
        <3> QED BY <3>2, <3>3
    <2> QED BY <2>1, <2>2
<1>4. unsafe' \in BOOLEAN
    BY <1>1, Zenon DEF TypeOK, TabOpens, TabMoves, TabCloses, set
<1>5. unsafe /\ ~unsafe' => installed' = Empty
    BY DEF TabOpens, TabMoves, TabCloses, set
<1>6. TypeOK'
    BY <1>1, <1>2, <1>3, <1>4 DEF TypeOK
<1>7. ListInv'
    <2>1. mutations' = <<>>
        BY <1>1, <1>2 DEF ListInv
    <2> QED BY <2>1, ListEmpty
<1>8. InstalledInv'
    BY <1>2 DEF InstalledInv, Busy, Applying
<1>9. TrackedInv'
    <2>1. Members(installed)' = Members(installed')
        BY DEF Members
    <2>2. ASSUME ~unsafe'
          PROVE  /\ subclassed' = Members(installed')
                 /\ \A u \in Members(installed') : installed'[u] = authoritative[u]
        <3>1. CASE unsafe
            <4>1. Members(installed') = {}
                BY <1>5, <2>2, <3>1 DEF Members, Empty
            <4> QED BY <1>3, <4>1
        <3>2. CASE ~unsafe
            BY <1>1, <1>2, <1>3, <3>2 DEF TrackedInv
        <3> QED BY <3>1, <3>2
    <2>3. pc' \notin Busy
        BY <1>2 DEF Busy, Applying
    <2> QED BY <1>2, <1>3, <2>1, <2>2, <2>3 DEF TrackedInv, NoUntrackedCallback
<1>10. RetiredInv'
    BY <1>1, <1>2, RetiredRests DEF Applying
<1> QED BY <1>6, <1>7, <1>8, <1>9, <1>10 DEF TabInvariant

(* What RemoveAll cannot take off stays tracked.                           *)
LEMMA RemoveAllStep ==
    ASSUME TabInvariant, RemoveAll
    PROVE  TabInvariant'
<1> USE MaxGenAssumption
<1>1. /\ TypeOK /\ ListInv /\ InstalledInv /\ TrackedInv /\ RetiredInv
    BY DEF TabInvariant
<1>2. PICK failed \in SUBSET Members(installed) :
         /\ Members(installed) \ subclassed \subseteq failed
         /\ subclassed' = subclassed \ (Members(installed) \ failed)
         /\ \/ /\ failed = {}
               /\ installed' = Empty /\ authoritative' = Empty
               /\ known' = Empty /\ topGeneration' = 0
               /\ unsafe' = FALSE
               /\ retired' = {}
            \/ /\ installed' = [t \in Tabs |->
                      IF t \in failed THEN installed[t] ELSE None]
               /\ unsafe' = TRUE
               /\ UNCHANGED <<authoritative, known, topGeneration, retired>>
    BY DEF RemoveAll
<1>3. /\ pc = "idle" /\ pc' = "idle" /\ UNCHANGED <<live, inside>>
      /\ UNCHANGED <<desired, desiredTop, previous, mutations, undone>>
    BY DEF RemoveAll, locals
<1>4. Empty \in TabSet /\ Members(Empty) = {} /\ \A t \in Tabs : Empty[t] = None
    BY DEF Empty, TabSet, Members
<1>5. ListInv'
    <2>1. mutations' = <<>>
        BY <1>1, <1>3 DEF ListInv
    <2> QED BY <2>1, ListEmpty
<1>6. InstalledInv'
    BY <1>3 DEF InstalledInv, Busy, Applying
<1>7. pc' \notin Busy /\ pc' \notin Applying
    BY <1>3 DEF Busy, Applying
<1>8. subclassed' \subseteq subclassed /\ subclassed' \subseteq failed
    BY <1>1, <1>2 DEF TrackedInv, NoUntrackedCallback
<1>9. CASE /\ failed = {}
           /\ installed' = Empty /\ authoritative' = Empty
           /\ known' = Empty /\ topGeneration' = 0
           /\ unsafe' = FALSE
           /\ retired' = {}
    <2>1. TypeOK'
        <3>1. unsafe' \in BOOLEAN
            BY <1>9, Zenon
        <3>2. topGeneration' \in 0..MaxGen
            BY <1>9
        <3> QED BY <1>1, <1>3, <1>4, <1>8, <1>9, <3>1, <3>2 DEF TypeOK
    <2>2. TrackedInv'
        <3>1. Members(installed)' = {} /\ subclassed' = {}
            BY <1>4, <1>8, <1>9 DEF Members
        <3> QED BY <1>7, <3>1 DEF TrackedInv, NoUntrackedCallback
    <2>3. RetiredInv'
        BY <1>4, <1>7, <1>9 DEF RetiredInv, RetiredStaysRetired
    <2> QED BY <1>5, <1>6, <2>1, <2>2, <2>3 DEF TabInvariant
<1>10. CASE /\ installed' = [t \in Tabs |->
                   IF t \in failed THEN installed[t] ELSE None]
            /\ unsafe' = TRUE
            /\ UNCHANGED <<authoritative, known, topGeneration, retired>>
    <2>1. TypeOK'
        BY <1>1, <1>3, <1>8, <1>10 DEF TypeOK, TabSet
    <2>2. TrackedInv'
        <3>1. failed \subseteq Members(installed)'
            BY <1>2, <1>10 DEF Members
        <3> QED BY <1>8, <1>10, <3>1 DEF TrackedInv, NoUntrackedCallback
    <2>3. RetiredInv'
        BY <1>1, <1>7, <1>10, RetiredRests
    <2> QED BY <1>5, <1>6, <2>1, <2>2, <2>3 DEF TabInvariant
<1> QED BY <1>2, <1>9, <1>10

-----------------------------------------------------------------------------
(* The invariant.                                                          *)

(* At first nothing is subclassed.                                         *)
LEMMA TabsStart == Init => TabInvariant
<1> SUFFICES ASSUME Init PROVE TabInvariant
    OBVIOUS
<1> USE MaxGenAssumption
<1>1. Empty \in TabSet /\ Members(Empty) = {} /\ \A t \in Tabs : Empty[t] = None
    BY DEF Empty, TabSet, Members
<1>2. TypeOK
    <2>1. unsafe \in BOOLEAN /\ undone \in BOOLEAN
        BY Zenon DEF Init
    <2>2. \A i \in 1..Len(mutations) : mutations[i] \in
             [kind : {"added", "removed"}, tab : Tabs, gen : Gens]
        BY DEF Init
    <2>3. topGeneration \in 0..MaxGen /\ desiredTop \in 0..MaxGen
        BY DEF Init
    <2> QED BY <1>1, <2>1, <2>2, <2>3 DEF Init, TypeOK
<1>3. ListInv
    BY DEF Init, ListInv
<1>4. InstalledInv
    BY DEF Init, InstalledInv, Busy, Applying
<1>5. TrackedInv
    BY <1>1 DEF Init, TrackedInv, NoUntrackedCallback, Busy, Applying
<1>6. RetiredInv
    BY <1>1 DEF Init, RetiredInv, RetiredStaysRetired, Applying
<1> QED BY <1>2, <1>3, <1>4, <1>5, <1>6 DEF TabInvariant

(* Every step keeps the invariant.                                         *)
LEMMA TabsStep == TabInvariant /\ [Next]_vars => TabInvariant'
<1> SUFFICES ASSUME TabInvariant, [Next]_vars
             PROVE  TabInvariant'
    OBVIOUS
<1>1. TypeOK /\ ListInv /\ InstalledInv
    BY DEF TabInvariant
<1>2. CASE ReuseRemoves
    <2>1. PICK t \in Reused :
             \/ /\ Unsubclasses(t)
                /\ mutations' = Append(mutations, Removed(t, previous[t]))
                /\ pc' = "reinstalling"
             \/ Fails /\ UNCHANGED <<subclassed, installed, mutations>>
        BY <1>2 DEF ReuseRemoves
    <2>2. /\ pc = "reusing"
          /\ UNCHANGED <<live, inside, authoritative, known, topGeneration, unsafe,
                         desired, desiredTop, previous, undone, retired>>
        BY <1>2 DEF ReuseRemoves
    <2>3. CASE Fails /\ UNCHANGED <<subclassed, installed, mutations>>
        <3>1. UNCHANGED <<live, inside, subclassed, set, locals, retired>>
            BY <2>2, <2>3 DEF set, locals
        <3> QED BY <2>2, <2>3, <3>1, FailureStep DEF Applying
    <2>4. CASE /\ Unsubclasses(t)
               /\ mutations' = Append(mutations, Removed(t, previous[t]))
               /\ pc' = "reinstalling"
        <3>1. /\ t \in Tabs /\ desired[t] # None /\ previous[t] # None
              /\ installed[t] # desired[t]
            BY DEF Reused, Members
        <3>2. installed[t] # None
            BY <2>4 DEF Unsubclasses, TabInvariant, TrackedInv,
                        NoUntrackedCallback, Members
        <3> QED BY <2>2, <2>4, <3>1, <3>2, RemovalStep
    <2> QED BY <2>1, <2>3, <2>4
<1>3. CASE ReuseInstalls
    <2>1. PICK t : t = Last(mutations).tab
        OBVIOUS
    <2>2. /\ pc = "reinstalling"
          /\ \/ /\ Subclasses(t, desired[t])
                /\ mutations' = Append(mutations, Added(t, desired[t]))
                /\ pc' = "reusing"
             \/ Fails /\ UNCHANGED <<subclassed, installed, mutations>>
          /\ UNCHANGED <<live, inside, authoritative, known, topGeneration, unsafe,
                         desired, desiredTop, previous, undone, retired>>
        BY <1>3, <2>1 DEF ReuseInstalls
    <2>3. CASE Fails /\ UNCHANGED <<subclassed, installed, mutations>>
        <3>1. UNCHANGED <<live, inside, subclassed, set, locals, retired>>
            BY <2>2, <2>3 DEF set, locals
        <3> QED BY <2>2, <2>3, <3>1, FailureStep DEF Applying
    <2>4. CASE /\ Subclasses(t, desired[t])
               /\ mutations' = Append(mutations, Added(t, desired[t]))
               /\ pc' = "reusing"
        <3> DEFINE n == Len(mutations)
                   m == mutations[n]
        <3>1. /\ mutations # <<>> /\ m.kind = "removed"
              /\ desired[m.tab] # None /\ t = m.tab
            BY <1>1, <2>1, <2>2 DEF InstalledInv, Last
        <3>2. n \in DOMAIN mutations /\ m \in Mutation /\ n \in Nat
              /\ DOMAIN mutations = 1..n
            BY <1>1, <3>1 DEF ListInv
        <3> HIDE DEF n
        <3>3. t \in Tabs /\ desired[t] # None
            BY <3>1, <3>2 DEF Mutation
        <3>4. /\ m = Removed(t, previous[t])
              /\ \A j \in 1..(n - 1) : mutations[j].tab # t
            <4>1. \/ m = Added(m.tab, desired[m.tab])
                  \/ /\ m = Removed(m.tab, previous[m.tab])
                     /\ \A j \in 1..(n - 1) : mutations[j].tab # m.tab
                BY <1>1, <3>2 DEF ListInv
            <4>2. m # Added(m.tab, desired[m.tab])
                BY <3>1 DEF Added
            <4> QED BY <3>1, <4>1, <4>2
        <3>5. WasRemoved(t)
            BY <3>2, <3>4 DEF WasRemoved, Listed
        <3>6. ASSUME WasAdded(t)
              PROVE  FALSE
            <4>1. PICK j \in 1..n : mutations[j] = Added(t, desired[t])
                BY <3>2, <3>6 DEF WasAdded, Listed
            <4>2. mutations[j].tab = t /\ mutations[j].kind = "added"
                BY <4>1 DEF Added
            <4>3. j # n
                BY <3>1, <4>2
            <4>4. j \in 1..(n - 1)
                BY <3>2, <4>1, <4>3
            <4> QED BY <3>4, <4>2, <4>4
        <3> QED BY <2>2, <2>4, <3>3, <3>5, <3>6, InstallStep
    <2> QED BY <2>2, <2>3, <2>4
<1>4. CASE Installs
    <2>1. PICK t \in Fresh :
             \/ /\ Subclasses(t, desired[t])
                /\ mutations' = Append(mutations, Added(t, desired[t]))
                /\ UNCHANGED pc
             \/ Fails /\ UNCHANGED <<subclassed, installed, mutations>>
        BY <1>4 DEF Installs
    <2>2. /\ pc = "reusing"
          /\ UNCHANGED <<live, inside, authoritative, known, topGeneration, unsafe,
                         desired, desiredTop, previous, undone, retired>>
        BY <1>4 DEF Installs
    <2>3. CASE Fails /\ UNCHANGED <<subclassed, installed, mutations>>
        <3>1. UNCHANGED <<live, inside, subclassed, set, locals, retired>>
            BY <2>2, <2>3 DEF set, locals
        <3> QED BY <2>2, <2>3, <3>1, FailureStep DEF Applying
    <2>4. CASE /\ Subclasses(t, desired[t])
               /\ mutations' = Append(mutations, Added(t, desired[t]))
               /\ UNCHANGED pc
        <3>1. t \in Tabs /\ desired[t] # None /\ installed[t] = None
            BY DEF Fresh, Members
        <3>2. ~WasAdded(t) /\ (previous[t] = None \/ WasRemoved(t))
            BY <2>2, <3>1, WhatInstalledSays DEF Applying
        <3> QED BY <2>2, <2>4, <3>1, <3>2, InstallStep
    <2> QED BY <2>1, <2>3, <2>4
<1>5. CASE Retires
    <2>1. PICK t \in Obsolete :
             \/ /\ Unsubclasses(t)
                /\ mutations' = Append(mutations, Removed(t, previous[t]))
                /\ UNCHANGED pc
             \/ Fails /\ UNCHANGED <<subclassed, installed, mutations>>
        BY <1>5 DEF Retires
    <2>2. /\ pc = "reusing"
          /\ UNCHANGED <<live, inside, authoritative, known, topGeneration, unsafe,
                         desired, desiredTop, previous, undone, retired>>
        BY <1>5 DEF Retires
    <2>3. CASE Fails /\ UNCHANGED <<subclassed, installed, mutations>>
        <3>1. UNCHANGED <<live, inside, subclassed, set, locals, retired>>
            BY <2>2, <2>3 DEF set, locals
        <3> QED BY <2>2, <2>3, <3>1, FailureStep DEF Applying
    <2>4. CASE /\ Unsubclasses(t)
               /\ mutations' = Append(mutations, Removed(t, previous[t]))
               /\ UNCHANGED pc
        <3>1. /\ t \in Tabs /\ previous[t] # None /\ installed[t] # None
              /\ installed[t] # desired[t]
            BY DEF Obsolete, Members
        <3> QED BY <2>2, <2>4, <3>1, RemovalStep
    <2> QED BY <2>1, <2>3, <2>4
<1>6. CASE UNCHANGED vars
    <2>1. /\ UNCHANGED <<live, inside, subclassed, retired, pc>>
          /\ UNCHANGED <<desired, desiredTop, previous, mutations, undone>>
          /\ UNCHANGED <<installed, authoritative, known, topGeneration, unsafe>>
        BY <1>6 DEF vars
    <2> QED BY <2>1 DEF TabInvariant, TypeOK, ListInv, InstalledInv, TrackedInv,
                        RetiredInv, NoUntrackedCallback, RetiredStaysRetired,
                        Identities, Members, WasAdded, WasRemoved, Listed
<1> QED BY <1>2, <1>3, <1>4, <1>5, <1>6, ApplyBeginsStep, RefreshesStep,
           AcceptsStep, UndoAddedStep, UndoRemovedStep, RollbackEndsStep,
           ExplorerStep, RemoveAllStep
        DEF Next, Apply, Rollback

-----------------------------------------------------------------------------
(* The theorems.                                                           *)

(* The subclasses, what is tracked and the list of mutations agree in      *)
(* every reachable state.                                                  *)
THEOREM TabInvariantHolds == Spec => []TabInvariant
BY TabsStart, TabsStep, PTL DEF Spec

(* Type correctness of the set, its tabs and its list of mutations.        *)
THEOREM TabTypesHold == Spec => []TypeOK
<1>1. TabInvariant => TypeOK
    BY DEF TabInvariant
<1> QED BY <1>1, TabInvariantHolds, PTL

(* Whatever failed, no tab calls into a set that does not know of it.      *)
THEOREM CallbacksAreTracked == Spec => []NoUntrackedCallback
<1>1. TabInvariant => NoUntrackedCallback
    BY DEF TabInvariant, TrackedInv
<1> QED BY <1>1, TabInvariantHolds, PTL

(* Between operations a set that calls itself safe is exact: a failed      *)
(* Apply that was rolled back has changed nothing.                         *)
THEOREM SafeSetsAreExact == Spec => []SafeMeansExact
<1>1. TabInvariant => SafeMeansExact
    BY DEF TabInvariant, TrackedInv, SafeMeansExact
<1> QED BY <1>1, TabInvariantHolds, PTL

(* An identity that was taken out of the set does not come back.           *)
THEOREM RetiredIdentitiesStayOut == Spec => []RetiredStaysRetired
<1>1. TabInvariant => RetiredStaysRetired
    BY DEF TabInvariant, RetiredInv
<1> QED BY <1>1, TabInvariantHolds, PTL

=============================================================================
