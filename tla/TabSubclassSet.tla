----------------------------- MODULE TabSubclassSet -----------------------------
(***************************************************************************)
(* The window subclasses that a hooked Explorer window keeps on its tabs.  *)
(* Apply brings them to the set the Host sent, one Win32 call at a time,   *)
(* and undoes what it did when a call fails; RemoveAll takes them off      *)
(* before the window's resources are freed. The tabs are windows of        *)
(* Explorer, which destroys them and reuses their handles at will.         *)
(*                                                                         *)
(* All of it runs on the UI thread of the window. The z-order of the tabs  *)
(* is abstracted: where the code walks the tabs in order, any order will   *)
(* do.                                                                     *)
(***************************************************************************)
EXTENDS Integers, Sequences, SequencesExt

CONSTANTS
    Tabs,       \* the window handles of tabs
    MaxGen      \* bound: the generations the Host gives to tabs

ASSUME MaxGenAssumption == MaxGen \in Nat \ {0}

VARIABLES
    live,           \* the tabs that exist
    inside,         \* those that are children of the window
    subclassed,     \* the tabs whose messages go through TabSubclassProc
    installed,      \* Impl::installed: the generation of each tab, or None
    authoritative,  \* Impl::authoritative
    known,          \* Impl::known_generations
    topGeneration,  \* Impl::top_level_generation, 0 before the first Apply
    unsafe,         \* lifetime_failed and cleanup_blocked, set together
    pc,             \* what the UI thread is doing
    desired,        \* local of Apply: the tabs the Host wants
    desiredTop,     \* local of Apply: the generation of their window
    previous,       \* local of Reconcile: installed when it began
    mutations,      \* local of Reconcile: what it has done
    undone,         \* local of Rollback: every call succeeded
    retired         \* history: the identities that were authoritative once

set == <<installed, authoritative, known, topGeneration, unsafe>>
locals == <<desired, desiredTop, previous, mutations, undone>>
vars == <<live, inside, subclassed, installed, authoritative, known,
          topGeneration, unsafe, pc, desired, desiredTop, previous, mutations, undone,
          retired>>

None == 0
Gens == 1..MaxGen
TabSet == [Tabs -> {None} \cup Gens]
Empty == [t \in Tabs |-> None]
Members(s) == {t \in Tabs : s[t] # None}
Identities(s) == {<<t, s[t]>> : t \in Members(s)}

Added(t, g) == [kind |-> "added", tab |-> t, gen |-> g]
Removed(t, g) == [kind |-> "removed", tab |-> t, gen |-> g]

Init ==
    /\ live = {} /\ inside = {} /\ subclassed = {}
    /\ installed = Empty /\ authoritative = Empty /\ known = Empty
    /\ topGeneration = 0 /\ unsafe = FALSE
    /\ pc = "idle"
    /\ desired = Empty /\ desiredTop = 0 /\ previous = Empty
    /\ mutations = <<>> /\ undone = TRUE
    /\ retired = {}

-----------------------------------------------------------------------------
(* Explorer.                                                               *)

TabOpens(t) ==
    /\ pc = "idle" /\ t \notin live
    /\ live' = live \cup {t} /\ inside' = inside \cup {t}
    /\ UNCHANGED <<subclassed, set, pc, locals, retired>>

(* A tab is dragged out of the window, or back into it.                    *)
TabMoves(t) ==
    /\ pc = "idle" /\ t \in live
    /\ inside' = IF t \in inside THEN inside \ {t} ELSE inside \cup {t}
    /\ UNCHANGED <<live, subclassed, set, pc, locals, retired>>

(* WM_NCDESTROY reaches TabSubclassProc, and Notify forgets the tab.       *)
TabCloses(t) ==
    /\ pc = "idle" /\ t \in live
    /\ live' = live \ {t} /\ inside' = inside \ {t}
    /\ subclassed' = subclassed \ {t}
    /\ installed' = IF t \in subclassed THEN [installed EXCEPT ![t] = None]
                                        ELSE installed
    /\ unsafe' = (unsafe /\ ~(t \in subclassed /\ installed' = Empty))
    /\ UNCHANGED <<authoritative, known, topGeneration, pc, locals, retired>>

-----------------------------------------------------------------------------
(* Apply.                                                                  *)

(* Mutant: the check of the tabs' generations is gone.                     *)
GenerationsUnchecked(tabs, top) ==
    topGeneration # 0 => ~unsafe /\ top >= topGeneration

(* ValidateGenerations, for a set that has been applied before.            *)
GenerationsValid(tabs, top) ==
    topGeneration # 0 =>
        /\ ~unsafe
        /\ top >= topGeneration
        /\ \A t \in Members(tabs) :
              known[t] # None =>
                  /\ tabs[t] >= known[t]
                  /\ tabs[t] = known[t] => authoritative[t] # None

(* ValidateUpdate wants exactly the tabs of the window, each with a        *)
(* generation of its own.                                                  *)
ApplyBegins ==
    /\ pc = "idle" /\ inside # {}
    /\ \E tabs \in TabSet, top \in Gens :
          /\ Members(tabs) = inside
          /\ \A t, u \in inside : tabs[t] = tabs[u] => t = u
          /\ GenerationsValid(tabs, top)
          /\ desired' = tabs /\ desiredTop' = top
    /\ previous' = installed
    /\ mutations' = <<>> /\ undone' = TRUE
    /\ pc' = "reusing"
    /\ UNCHANGED <<live, inside, subclassed, set, retired>>

Fails == pc' = "rollback"

(* One SetWindowSubclass and one RemoveWindowSubclass that succeed, which  *)
(* takes a window and a subclass on it.                                    *)
Subclasses(t, g) ==
    /\ t \in live
    /\ subclassed' = subclassed \cup {t}
    /\ installed' = [installed EXCEPT ![t] = g]
Unsubclasses(t) ==
    /\ t \in subclassed
    /\ subclassed' = subclassed \ {t}
    /\ installed' = [installed EXCEPT ![t] = None]

Reused == {t \in Members(desired) :
              previous[t] \notin {None, desired[t]}
              /\ installed[t] # desired[t]}
Fresh == {t \in Members(desired) : installed[t] = None}
Obsolete == {t \in Members(previous) :
                desired[t] = None /\ installed[t] # None}

(* A reused handle loses its old generation first ...                      *)
ReuseRemoves ==
    /\ pc = "reusing"
    /\ \E t \in Reused :
          \/ /\ Unsubclasses(t)
             /\ mutations' = Append(mutations, Removed(t, previous[t]))
             /\ pc' = "reinstalling"
          \/ Fails /\ UNCHANGED <<subclassed, installed, mutations>>
    /\ UNCHANGED <<live, inside, authoritative, known, topGeneration, unsafe,
                   desired, desiredTop, previous, undone, retired>>

(* ... and gets the new one next.                                          *)
ReuseInstalls ==
    /\ pc = "reinstalling"
    /\ LET t == Last(mutations).tab
       IN  \/ /\ Subclasses(t, desired[t])
              /\ mutations' = Append(mutations, Added(t, desired[t]))
              /\ pc' = "reusing"
           \/ Fails /\ UNCHANGED <<subclassed, installed, mutations>>
    /\ UNCHANGED <<live, inside, authoritative, known, topGeneration, unsafe,
                   desired, desiredTop, previous, undone, retired>>

Installs ==
    /\ pc = "reusing" /\ Reused = {}
    /\ \E t \in Fresh :
          \/ /\ Subclasses(t, desired[t])
             /\ mutations' = Append(mutations, Added(t, desired[t]))
             /\ UNCHANGED pc
          \/ Fails /\ UNCHANGED <<subclassed, installed, mutations>>
    /\ UNCHANGED <<live, inside, authoritative, known, topGeneration, unsafe,
                   desired, desiredTop, previous, undone, retired>>

Retires ==
    /\ pc = "reusing" /\ Reused = {} /\ Fresh = {}
    /\ \E t \in Obsolete :
          \/ /\ Unsubclasses(t)
             /\ mutations' = Append(mutations, Removed(t, previous[t]))
             /\ UNCHANGED pc
          \/ Fails /\ UNCHANGED <<subclassed, installed, mutations>>
    /\ UNCHANGED <<live, inside, authoritative, known, topGeneration, unsafe,
                   desired, desiredTop, previous, undone, retired>>

(* post_refresh, unless nothing changed; when it fails all is undone.      *)
Refreshes ==
    /\ pc = "reusing" /\ Reused = {} /\ Fresh = {} /\ Obsolete = {}
    /\ \/ pc' = "accepting"
       \/ mutations # <<>> /\ Fails
    /\ UNCHANGED <<live, inside, subclassed, set, locals, retired>>

Larger(a, b) == IF a > b THEN a ELSE b

Accepts ==
    /\ pc = "accepting"
    /\ topGeneration' = desiredTop
    /\ authoritative' = desired /\ installed' = desired
    /\ known' = [t \in Tabs |-> Larger(known[t], desired[t])]
    /\ retired' = retired \cup
                  (Identities(authoritative) \ Identities(desired))
    /\ pc' = "idle"
    /\ desired' = Empty /\ desiredTop' = 0 /\ previous' = Empty
    /\ mutations' = <<>>
    /\ UNCHANGED <<live, inside, subclassed, unsafe, undone>>

-----------------------------------------------------------------------------
(* Rollback, from the last mutation to the first.                          *)

(* Mutant: a subclass that would not come off is forgotten.                *)
UndoAddedForgetting ==
    /\ pc = "rollback" /\ mutations # <<>>
    /\ LET m == Last(mutations)
       IN  /\ m.kind = "added"
           /\ installed' = [installed EXCEPT ![m.tab] = None]
           /\ \/ subclassed' = subclassed \ {m.tab} /\ UNCHANGED undone
              \/ UNCHANGED subclassed /\ undone' = FALSE
    /\ mutations' = Front(mutations)
    /\ UNCHANGED <<live, inside, authoritative, known, topGeneration, unsafe,
                   pc, desired, desiredTop, previous, retired>>

UndoAdded ==
    /\ pc = "rollback" /\ mutations # <<>>
    /\ LET m == Last(mutations)
       IN  /\ m.kind = "added"
           /\ \/ Unsubclasses(m.tab) /\ UNCHANGED undone
              \/ /\ installed' = [installed EXCEPT ![m.tab] = m.gen]
                 /\ undone' = FALSE
                 /\ UNCHANGED subclassed
    /\ mutations' = Front(mutations)
    /\ UNCHANGED <<live, inside, authoritative, known, topGeneration, unsafe,
                   pc, desired, desiredTop, previous, retired>>

(* The entry is tracked whether or not the subclass came back.             *)
UndoRemoved ==
    /\ pc = "rollback" /\ mutations # <<>>
    /\ LET m == Last(mutations)
       IN  /\ m.kind = "removed"
           /\ installed' = [installed EXCEPT ![m.tab] = m.gen]
           /\ \/ /\ m.tab \in live
                 /\ subclassed' = subclassed \cup {m.tab}
                 /\ UNCHANGED undone
              \/ UNCHANGED subclassed /\ undone' = FALSE
    /\ mutations' = Front(mutations)
    /\ UNCHANGED <<live, inside, authoritative, known, topGeneration, unsafe,
                   pc, desired, desiredTop, previous, retired>>

(* Mutant: the set passes for clean whatever the rollback could not undo.  *)
RollbackEndsForgiving ==
    /\ pc = "rollback" /\ mutations = <<>>
    /\ installed' = previous
    /\ pc' = "idle"
    /\ desired' = Empty /\ desiredTop' = 0 /\ previous' = Empty
    /\ UNCHANGED <<live, inside, subclassed, authoritative, known, topGeneration,
                   unsafe, mutations, undone, retired>>

RollbackEnds ==
    /\ pc = "rollback" /\ mutations = <<>>
    /\ installed' = IF undone THEN previous ELSE installed
    /\ unsafe' = (unsafe \/ ~undone)
    /\ pc' = "idle"
    /\ desired' = Empty /\ desiredTop' = 0 /\ previous' = Empty
    /\ UNCHANGED <<live, inside, subclassed, authoritative, known, topGeneration,
                   mutations, undone, retired>>

Rollback == UndoAdded \/ UndoRemoved \/ RollbackEnds

-----------------------------------------------------------------------------
(* RemoveAll: every tracked subclass is tried, the ones that failed stay.  *)
RemoveAll ==
    /\ pc = "idle"
    /\ \E failed \in SUBSET Members(installed) :
          /\ Members(installed) \ subclassed \subseteq failed
          /\ subclassed' = subclassed \ (Members(installed) \ failed)
          /\ IF failed = {}
             THEN /\ installed' = Empty /\ authoritative' = Empty
                  /\ known' = Empty /\ topGeneration' = 0
                  /\ unsafe' = FALSE
                  /\ retired' = {}
             ELSE /\ installed' = [t \in Tabs |->
                         IF t \in failed THEN installed[t] ELSE None]
                  /\ unsafe' = TRUE
                  /\ UNCHANGED <<authoritative, known, topGeneration, retired>>
    /\ UNCHANGED <<live, inside, pc, locals>>

Apply == ApplyBegins \/ ReuseRemoves \/ ReuseInstalls \/ Installs \/ Retires
         \/ Refreshes \/ Accepts

Next == \/ \E t \in Tabs : TabOpens(t) \/ TabMoves(t) \/ TabCloses(t)
        \/ Apply \/ Rollback \/ RemoveAll

Spec == Init /\ [][Next]_vars

-----------------------------------------------------------------------------
(* Every variable has its type.                                            *)
TypeOK ==
    /\ live \subseteq Tabs /\ inside \subseteq live
    /\ subclassed \subseteq live
    /\ installed \in TabSet /\ authoritative \in TabSet /\ known \in TabSet
    /\ topGeneration \in 0..MaxGen /\ unsafe \in BOOLEAN
    /\ pc \in {"idle", "reusing", "reinstalling", "accepting", "rollback"}
    /\ desired \in TabSet /\ desiredTop \in 0..MaxGen /\ previous \in TabSet
    /\ \A i \in 1..Len(mutations) :
          mutations[i] \in [kind : {"added", "removed"}, tab : Tabs, gen : Gens]
    /\ undone \in BOOLEAN

(* A subclass the set does not know of would outlive RemoveAll and call    *)
(* into resources that the window's cleanup has freed.                     *)
NoUntrackedCallback == subclassed \subseteq Members(installed)

(* Between operations a set that calls itself safe is exact: it tracks     *)
(* what is subclassed, each tab with the generation last accepted for it,  *)
(* so that a failed Apply has changed nothing.                             *)
SafeMeansExact ==
    (pc = "idle" /\ ~unsafe) =>
        /\ subclassed = Members(installed)
        /\ \A t \in Members(installed) : installed[t] = authoritative[t]

(* A tab identity that was taken out of the set never comes back: not with *)
(* a late update of the Host, nor by a rollback.                           *)
RetiredStaysRetired == Identities(authoritative) \cap retired = {}
=============================================================================
