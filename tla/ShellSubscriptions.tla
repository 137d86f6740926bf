--------------------------- MODULE ShellSubscriptions ---------------------------
(***************************************************************************)
(* What the observer subscribes to at the shell: the list of windows, and  *)
(* the browser of every tab. A capture of Explorer says which tabs there   *)
(* are; the subscriptions are brought to it in a transaction that is       *)
(* undone when a call fails.                                               *)
(*                                                                         *)
(* All of it runs on the coordinator's thread, and no other thread sees    *)
(* it, so that a transaction is one step whatever calls of it fail. The    *)
(* calls of COM that can fail are Advise and Unadvise.                     *)
(***************************************************************************)
EXTENDS UiaWorker

CONSTANTS
    Tabs,           \* identities of tabs: handle, window and generations
    Browser(_)      \* the canonical identity of a tab's browser

ASSUME TabsAssumption == IsFiniteSet(Tabs)

VARIABLES shell

(* connections are the browsers' connections that the resource graph       *)
(* holds, subscriptions what the reconciled state says of them.            *)
Shell == [owned : BOOLEAN,                  \* owner_thread_id is set
          lifecycle : BOOLEAN,              \* the list of windows
          connections : SUBSET Tabs,
          subscriptions : SUBSET Tabs]

ShellInit == shell = [owned |-> FALSE, lifecycle |-> FALSE,
                      connections |-> {}, subscriptions |-> {}]

Subscribed(s) == s.lifecycle \/ s.connections # {}

(* A tab that was dragged to another window is another tab with the same   *)
(* browser; one capture never has both.                                    *)
TabSets == {s \in SUBSET Tabs : \A t, u \in s : Browser(t) = Browser(u) => t = u}

-----------------------------------------------------------------------------
(* ReconcileObserverShellSubscriptions. The additions come first, then the *)
(* removals; after a failure the removed are subscribed again and the      *)
(* added unsubscribed. lost and stuck are those for which that fails too.  *)

Additions(s, tabs) == tabs \ s.subscriptions
Removed(s, tabs) == s.subscriptions \ tabs

(* What calls of subscribe and unsubscribe leave of the connections.       *)
Live(s, subscribed, unsubscribed) ==
    (s.connections \ unsubscribed) \cup subscribed

Reconciled(s, tabs) ==
    [s EXCEPT !.connections = Live(s, Additions(s, tabs), Removed(s, tabs)),
              !.subscriptions = tabs]

(* How far it may get before a call fails.                                 *)
Interrupted(s, tabs, added, removed) ==
    /\ added \subseteq Additions(s, tabs) /\ removed \subseteq Removed(s, tabs)
    /\ removed = {} \/ added = Additions(s, tabs)

(* Mutant: what was removed is not subscribed again.                       *)
RolledBackHalf(s, removed, lost, stuck) ==
    LET live == Live(s, stuck, removed)
    IN  [s EXCEPT !.connections = live,
                  !.subscriptions = IF lost \cup stuck = {} THEN @ ELSE live]

RolledBack(s, removed, lost, stuck) ==
    LET live == Live(s, (removed \ lost) \cup stuck, removed)
    IN  [s EXCEPT !.connections = live,
                  !.subscriptions = IF lost \cup stuck = {} THEN @ ELSE live]

ReconcileFails(tabs) ==
    \E added \in SUBSET Additions(shell, tabs),
       removed \in SUBSET Removed(shell, tabs) :
       \E lost \in SUBSET removed, stuck \in SUBSET added :
          /\ Interrupted(shell, tabs, added, removed)
          /\ Fault(1 + Cardinality(lost) + Cardinality(stuck))
          /\ shell' = RolledBack(shell, removed, lost, stuck)

(* ReconcileObserverCurrentTabState: the subscriptions follow a capture of *)
(* all tabs, which may fail or not add up.                                 *)
Refreshed == \E tabs \in TabSets : NoFault /\ shell' = Reconciled(shell, tabs)
CaptureFails == NoFault /\ UNCHANGED shell
RefreshFails == CaptureFails \/ \E tabs \in TabSets : ReconcileFails(tabs)

-----------------------------------------------------------------------------
(* CleanupObserverShellSubscriptions: last first, going on after failures. *)
(* It does nothing at all when two connections are to the same browser.    *)

Ambiguous(s) == s.connections \notin TabSets

Cleaned(s, stuck, lifecycle) ==
    [s EXCEPT !.connections = stuck, !.lifecycle = lifecycle]

(* CleanupObserverShellStaResources lets go of the graph when nothing is   *)
(* left, and refuses to clean up a graph that nobody owns.                 *)
Released(s) == IF Subscribed(s) THEN s ELSE [s EXCEPT !.owned = FALSE]

(* What the cleanup of s may come to: what is left, how many calls failed, *)
(* and its status, which is "transport" when one of them failed so.        *)
Refusal(s) == [left |-> s, failed |-> 0, status |-> "contract"]

CleanupOutcomes(s) ==
    IF ~s.owned \/ Ambiguous(s) THEN {Refusal(s)}
    ELSE {[left |-> Released(Cleaned(s, stuck, lifecycle)),
           failed |-> Cardinality(stuck) + (IF lifecycle THEN 1 ELSE 0),
           status |-> IF stuck = {} /\ ~lifecycle THEN "ok" ELSE origin] :
             stuck \in SUBSET s.connections,
             lifecycle \in {FALSE, s.lifecycle},
             origin \in Unclean}
=============================================================================
