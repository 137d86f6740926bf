-------------------------- MODULE ObserverRuntimeProofs --------------------------
(***************************************************************************)
(* The safety properties of ObserverRuntime, for any number of callbacks   *)
(* and of failing calls, every finite set of windows and of tabs, and any  *)
(* choice of browsers.                                                     *)
(***************************************************************************)
EXTENDS ObserverRuntime, FiniteSetTheorems, SequenceTheorems,
        WellFoundedInduction, TLAPS

(* Types.                                                                  *)
TypeOK ==
    /\ queue \in Queue /\ faults \in Nat
    /\ worker \in Worker /\ shell \in Shell /\ reducer \in Reducer
    /\ loop \in Loop /\ runtime \in Runtime
    /\ events \in Seq(Sequences) /\ ignored \subseteq Sequences

(* The startup, and the time after one that failed: nothing is admitted,   *)
(* because the queue has not been told to run.                             *)
Startups == {"create", "shell", "verify", "tabs", "seed", "worker",
             "starting", "submit", "adding", "unwind", "begin"}
BeforeWorker == {"create", "shell", "verify", "tabs", "seed", "worker"}
Down == ~runtime.uiaStarted /\ ~At("done")

StartInv ==
    /\ loop.pc \in Startups \/ Down =>
          /\ queue.slots = <<>> /\ loop.backlog = <<>> /\ loop.pending = 0
          /\ queue.phase # "Running"
    /\ loop.pc \in Startups => ~loop.stopping /\ runtime.awaiting = 0
    /\ Down /\ loop.pc \notin Startups \ {"begin"} => Emergency(queue)
    /\ loop.pc \in BeforeWorker => worker.phase = "Created" /\ ~runtime.uiaStarted
    /\ At("starting") => /\ ~runtime.uiaStarted
                         /\ worker.phase \in {"Starting", "Running", "Joined"}
    /\ loop.pc \in {"submit", "adding"} => runtime.uiaStarted
    /\ ~runtime.uiaStarted /\ ~At("starting") =>
          worker.phase \in {"Created", "Joined"}
    /\ runtime.uiaStarted => worker.phase \notin {"Created", "Starting"}
    /\ At("done") => ~runtime.uiaStarted

(* The shell. What is committed is what is connected.                      *)
ShellInv ==
    runtime.uiaStarted \/ loop.pc \in {"seed", "worker", "starting"} =>
        shell.subscriptions = shell.connections

(* The worker has one command at most, in one of four places.              *)
Quiet(w) == /\ w.commands = <<>> /\ w.working = NoResponse
            /\ w.responses = <<>> /\ w.terminal = NoResponse
Single(w) ==
    /\ Len(w.commands) <= 1 /\ Len(w.responses) <= 1
    /\ w.commands # <<>> => w.working = NoResponse /\ ~Answers(w)
    /\ w.working # NoResponse => ~Answers(w)
    /\ w.responses # <<>> => w.terminal = NoResponse
WorkerInv(w) ==
    /\ Single(w)
    /\ w.next # 0 /\ \A i \in DOMAIN w.commands : w.commands[i].id # 0
    /\ w.working # NoResponse => w.working.id # 0
    /\ Answers(w) /\ ~w.signaled => w.phase \in {"Stopping", "Joined"}
    /\ w.phase \in {"Created", "Starting"} => Quiet(w) /\ w.handlers = {}
    /\ w.phase = "Joined" => w.commands = <<>> /\ w.working = NoResponse
    /\ w.phase = "Joined" /\ w.cleanup = "ok" => w.handlers = {}

AwaitInv ==
    /\ worker.phase = "Running" /\ runtime.awaiting = 0
       /\ loop.pc \notin {"adding", "unwind"} => Quiet(worker)
    /\ loop.pending # 0 =>
          /\ runtime.awaiting # 0 /\ OnTheWay(runtime.awaiting)
          /\ reducer.remap = loop.pending

CleanInv ==
    /\ ~runtime.uiaStarted =>
          worker.handlers = {} \/ runtime.cleanupFailed \/ runtime.unreported
    /\ runtime.cleanupComplete =>
          /\ loop.pc \notin Startups \ {"begin"} /\ ~runtime.uiaStarted
          /\ worker.handlers = {} /\ ~Subscribed(shell)
    /\ runtime.unreported => loop.failed
    /\ loop.pc \in Startups \ {"begin"} => ~runtime.cleanupFailed /\ ~runtime.unreported
    /\ NothingLeftUnsaid

-----------------------------------------------------------------------------
(* The way of the events: the queue, the backlog, the event that waits and *)
(* the records, for a queue q, the locals l, the records e and the ignored *)
(* events g.                                                               *)

Sent(l, e) ==
    ToSet(e) \cup {event.sequence : event \in ToSet(l.backlog)}
             \cup ({l.pending} \ {0})

SlotsInv(q) ==
    /\ \A i, j \in DOMAIN q.slots : i < j => q.slots[i].sequence < q.slots[j].sequence
    /\ \A i \in DOMAIN q.slots :
          /\ q.slots[i].sequence < q.next
          /\ q.slots[i].state = "Failure" => ~BeforeCutoff(q, q.slots[i].sequence)
    /\ q.inFlight = Cardinality(PendingSequences(q))

SentInv(q, l, e) ==
    /\ \A n \in Sent(l, e) :
          /\ n < q.next /\ BeforeCutoff(q, n)
          /\ \A i \in DOMAIN q.slots : n < q.slots[i].sequence
    /\ l.fatal # 0 =>
          /\ Emergency(q) /\ q.cutoff <= l.fatal /\ l.fatal < q.next
          /\ \A i \in DOMAIN q.slots : l.fatal < q.slots[i].sequence

OrderInv(l, e) ==
    /\ \A i, j \in DOMAIN e : i < j => e[i] < e[j]
    /\ \A i, j \in DOMAIN l.backlog :
          i < j => l.backlog[i].sequence < l.backlog[j].sequence
    /\ \A i \in DOMAIN e, j \in DOMAIN l.backlog : e[i] < l.backlog[j].sequence
    /\ l.pending # 0 =>
          /\ \A i \in DOMAIN e : e[i] < l.pending
          /\ \A j \in DOMAIN l.backlog : l.pending < l.backlog[j].sequence

CoverInv(q, l, e, g) ==
    \A n \in Sequences : n < q.next /\ BeforeCutoff(q, n) =>
        \/ n \in g \/ n \in Sent(l, e)
        \/ \E i \in DOMAIN q.slots :
              q.slots[i].sequence = n /\ q.slots[i].state # "Failure"

LineInv(q, l, e, g) ==
    SlotsInv(q) /\ SentInv(q, l, e) /\ OrderInv(l, e) /\ CoverInv(q, l, e, g)

(* The shutdown.                                                           *)
StopInv ==
    /\ loop.stopping => queue.phase = "Stopping"
    /\ At("stop") => ~loop.stopping
    /\ loop.pc \in {"cleanup", "done"} => loop.stopping /\ (Settled \/ loop.timedOut)
    /\ loop.timedOut => loop.failed
    /\ loop.stopping /\ Emergency(queue) /\ ~loop.failed =>
          At("drain") \/ queue.slots # <<>>

SleepInv == loop.pc \in {"process", "check", "wait"} =>
    \/ queue.wake \/ queue.posted \/ queue.deaf
    \/ Ready(queue) = <<>> /\ (Emergency(queue) => loop.failed)

ObserverInvariant ==
    /\ TypeOK /\ StartInv /\ ShellInv /\ WorkerInv(worker) /\ AwaitInv /\ CleanInv
    /\ LineInv(queue, loop, events, ignored) /\ StopInv /\ SleepInv

-----------------------------------------------------------------------------
(* Sequences and the queue's slots.                                        *)

(* A set of natural numbers has a least one.                               *)
LEMMA LeastOf ==
    ASSUME NEW S, S \subseteq Nat, S # {}
    PROVE  Min(S) \in S /\ \A t \in S : Min(S) <= t
<1>1. PICK s \in S : \A t \in S : ~(<<t, s>> \in OpToRel(<, Nat))
    BY NatLessThanWellFounded, WFMin, Zenon
<1>2. \A t \in S : ~(t < s)
    BY <1>1 DEF OpToRel
<1>3. s \in S
    BY <1>1
<1>4. \A t \in S : s <= t
    BY <1>2, <1>3
<1>5. \E x \in S : \A y \in S : x =< y
    BY <1>3, <1>4
<1> QED BY <1>5 DEF Min

(* What the queue is ready to give away are the slots in front of the      *)
(* first that is pending.                                                  *)
LEMMA ReadyIs ==
    ASSUME NEW q \in Queue
    PROVE  /\ Ready(q) \in Seq(Slot)
           /\ Len(Ready(q)) \in 0..Len(q.slots)
           /\ \A i \in 1..Len(Ready(q)) :
                 Ready(q)[i] = q.slots[i] /\ q.slots[i].state # "Pending"
           /\ Len(Ready(q)) < Len(q.slots) =>
                 q.slots[Len(Ready(q)) + 1].state = "Pending"
<1> DEFINE I == {i \in 1..Len(q.slots) : q.slots[i].state = "Pending"}
           first == SelectInSeq(q.slots, LAMBDA slot : slot.state = "Pending")
<1>1. q.slots \in Seq(Slot)
    BY DEF Queue
<1>2. first = IF I # {} THEN Min(I) ELSE 0
    BY DEF SelectInSeq
<1>3. Len(q.slots) \in Nat
    BY <1>1
<1>4. CASE I = {}
    <2>1. Ready(q) = q.slots
        BY <1>2, <1>4 DEF Ready
    <2> QED BY <1>1, <1>3, <1>4, <2>1
<1>5. CASE I # {}
    <2>1. PICK m \in I : m = Min(I) /\ \A t \in I : m <= t
        <3>1. I \subseteq Nat
            OBVIOUS
        <3> HIDE DEF I
        <3> QED BY <1>5, <3>1, LeastOf
    <2>2. m \in 1..Len(q.slots) /\ q.slots[m].state = "Pending"
        OBVIOUS
    <2>3. Ready(q) = SubSeq(q.slots, 1, m - 1)
        <3>1. first = m /\ m # 0
            BY <1>2, <1>5, <2>1, <2>2
        <3> QED BY <3>1 DEF Ready
    <2>4. \A i \in 1..(m - 1) : q.slots[i].state # "Pending"
        BY <1>3, <2>1, <2>2
    <2>5. \A i \in 1..(m - 1) : q.slots[i] \in Slot
        BY <1>1, <1>3, <2>2, ElementOfSeq
    <2>6. /\ SubSeq(q.slots, 1, m - 1) \in Seq(Slot)
          /\ Len(SubSeq(q.slots, 1, m - 1)) = m - 1
          /\ \A i \in 1..(m - 1) : SubSeq(q.slots, 1, m - 1)[i] = q.slots[i]
        BY <1>1, <1>3, <2>2, <2>5, SubSeqProperties
    <2> QED BY <1>3, <2>2, <2>3, <2>4, <2>6
<1> QED BY <1>4, <1>5

(* A drained queue has lost those and is ready to give away nothing.       *)
LEMMA AfterDrainIs ==
    ASSUME NEW q \in Queue
    PROVE  /\ AfterDrain(q).phase = q.phase /\ AfterDrain(q).next = q.next
           /\ AfterDrain(q).inFlight = q.inFlight
           /\ AfterDrain(q).cutoff = q.cutoff
           /\ AfterDrain(q) \in Queue
           /\ Len(AfterDrain(q).slots) = Len(q.slots) - Len(Ready(q))
           /\ \A i \in 1..(Len(q.slots) - Len(Ready(q))) :
                 AfterDrain(q).slots[i] = q.slots[Len(Ready(q)) + i]
           /\ Ready(AfterDrain(q)) = <<>>
<1> DEFINE k == Len(Ready(q))
           rest == SubSeq(q.slots, k + 1, Len(q.slots))
<1>1. q.slots \in Seq(Slot) /\ Len(q.slots) \in Nat /\ k \in 0..Len(q.slots)
    BY ReadyIs DEF Queue
<1>2. \A i \in (k + 1)..Len(q.slots) : q.slots[i] \in Slot
    BY <1>1, ElementOfSeq
<1>3. /\ rest \in Seq(Slot) /\ Len(rest) = Len(q.slots) - k
      /\ \A i \in 1..(Len(q.slots) - k) : rest[i] = q.slots[k + i]
    <2>1. k + 1 \in Int /\ Len(q.slots) \in Int
        BY <1>1
    <2>2. /\ rest \in Seq(Slot)
          /\ Len(rest) = IF k + 1 <= Len(q.slots) THEN Len(q.slots) - (k + 1) + 1 ELSE 0
          /\ \A i \in 1..(Len(q.slots) - (k + 1) + 1) :
                rest[i] = q.slots[k + 1 + i - 1]
        BY <1>2, <2>1, SubSeqProperties
    <2>3. \A i \in Int : k + 1 + i - 1 = k + i
        BY <1>1
    <2> HIDE DEF rest
    <2> QED BY <1>1, <2>2, <2>3
<1>4. AfterDrain(q) = [q EXCEPT !.slots = rest]
    BY DEF AfterDrain
<1>5. AfterDrain(q) \in Queue /\ AfterDrain(q).slots = rest
    BY <1>3, <1>4 DEF Queue
<1>7. /\ AfterDrain(q).phase = q.phase /\ AfterDrain(q).next = q.next
      /\ AfterDrain(q).inFlight = q.inFlight
      /\ AfterDrain(q).cutoff = q.cutoff
    <2> HIDE DEF rest
    <2> QED BY <1>4 DEF Queue
<1>6. Ready(AfterDrain(q)) = <<>>
    <2> DEFINE r == AfterDrain(q)
    <2>1. /\ Ready(r) \in Seq(Slot) /\ Len(Ready(r)) \in 0..Len(rest)
          /\ \A i \in 1..Len(Ready(r)) : rest[i].state # "Pending"
        BY <1>5, ReadyIs
    <2>2. k < Len(q.slots) => rest[1].state = "Pending"
        BY <1>1, <1>3, ReadyIs
    <2> HIDE DEF r, k, rest
    <2>3. Len(Ready(r)) = 0
        BY <1>1, <1>3, <2>1, <2>2
    <2>4. Ready(r) = <<>>
        BY <2>1, <2>3
    <2> QED BY <2>4 DEF r
<1> QED BY <1>3, <1>5, <1>6, <1>7

(* The loop of Drain. Taken is what it has collected after n slots, when f *)
(* says what it had after fewer.                                           *)
Taken(q, f, n) ==
    IF n = 0 THEN <<>>
    ELSE IF IsEvent(q, Ready(q)[n])
         THEN Append(f[n - 1], [sequence |-> Ready(q)[n].sequence,
                                kind |-> Ready(q)[n].state])
         ELSE f[n - 1]

(* The loop ends: there is what it collects after every number of slots.   *)
LEMMA CandidateExists ==
    ASSUME NEW q, NEW N \in Nat
    PROVE  \E f : f = [n \in 0..N |-> Taken(q, f, n)]
<1> DEFINE Reached(m) == \E f : f = [n \in 0..m |-> Taken(q, f, n)]
           Missed == {m \in Nat : ~Reached(m)}
<1> SUFFICES Missed = {}
    OBVIOUS
<1> SUFFICES ASSUME Missed # {}
             PROVE  FALSE
    OBVIOUS
<1>1. PICK m \in Missed : \A k \in Missed : m <= k
    <2>1. Missed \subseteq Nat
        OBVIOUS
    <2> HIDE DEF Missed
    <2> QED BY <2>1, LeastOf
<1>2. m \in Nat /\ ~Reached(m)
    OBVIOUS
<1>3. CASE m = 0
    <2> DEFINE f == [n \in 0..0 |-> <<>>]
    <2>1. f = [n \in 0..0 |-> Taken(q, f, n)]
        BY DEF Taken
    <2> QED BY <1>2, <1>3, <2>1
<1>4. CASE m # 0
    <2>1. m - 1 \in Nat /\ m - 1 \notin Missed
        <3>1. m - 1 \in Nat /\ ~(m <= m - 1)
            BY <1>2, <1>4
        <3> HIDE DEF Missed
        <3> QED BY <1>1, <3>1
    <2>2. PICK f : f = [n \in 0..(m - 1) |-> Taken(q, f, n)]
        BY <2>1
    <2> DEFINE g == [n \in 0..m |-> IF n = m THEN Taken(q, f, m) ELSE f[n]]
    <2>3. ASSUME NEW n \in 0..m
          PROVE  g[n] = Taken(q, g, n)
        <3>1. CASE n = 0
            BY <1>2, <1>4, <2>2, <3>1 DEF Taken
        <3>2. CASE n # 0
            <4>1. n - 1 \in 0..(m - 1) /\ g[n - 1] = f[n - 1]
                BY <1>2, <1>4, <3>2
            <4> HIDE DEF g
            <4>2. Taken(q, g, n) = Taken(q, f, n)
                BY <4>1 DEF Taken
            <4> USE DEF g
            <4>3. CASE n = m
                BY <4>2, <4>3
            <4>4. CASE n # m
                <5>1. n \in 0..(m - 1)
                    BY <1>2, <4>4
                <5> QED BY <2>2, <4>2, <4>4, <5>1
            <4> QED BY <4>3, <4>4
        <3> QED BY <3>1, <3>2
    <2>4. g = [n \in 0..m |-> g[n]]
        OBVIOUS
    <2> HIDE DEF g
    <2>5. g = [n \in 0..m |-> Taken(q, g, n)]
        BY <2>3, <2>4
    <2> QED BY <1>2, <2>5
<1> QED BY <1>3, <1>4

(* The coordinator is given the events of those slots that come before the *)
(* cutoff, in the order of the slots.                                      *)
Events(q, d, n) ==
    /\ d \in Seq(Envelope)
    /\ \A i, j \in DOMAIN d : i < j => d[i].sequence < d[j].sequence
    /\ \A i \in DOMAIN d : \E k \in 1..n :
          IsEvent(q, q.slots[k]) /\ d[i].sequence = q.slots[k].sequence
    /\ \A k \in 1..n : IsEvent(q, q.slots[k]) =>
          \E i \in DOMAIN d : d[i].sequence = q.slots[k].sequence

(* A drain takes the events of the ready slots, in order, and no other.    *)
LEMMA DrainedIs ==
    ASSUME NEW q \in Queue,
           \A i, j \in DOMAIN q.slots :
               i < j => q.slots[i].sequence < q.slots[j].sequence
    PROVE  Events(q, Drained(q), Len(Ready(q)))
<1> DEFINE N == Len(Ready(q))
<1>1. /\ N \in Nat /\ N <= Len(q.slots) /\ q.slots \in Seq(Slot)
      /\ \A i \in 1..N : Ready(q)[i] = q.slots[i]
      /\ DOMAIN q.slots = 1..Len(q.slots) /\ Len(q.slots) \in Nat
    BY ReadyIs DEF Queue
<1>2. PICK f : f = [n \in 0..N |-> Taken(q, f, n)] /\ Drained(q) = f[N]
    <2> DEFINE c == CHOOSE f : f = [n \in 0..N |-> Taken(q, f, n)]
    <2>1. Drained(q) = c[N]
        BY DEF Drained, Taken
    <2>2. c = [n \in 0..N |-> Taken(q, c, n)]
        BY <1>1, CandidateExists
    <2> QED BY <2>1, <2>2
<1>3. \A n \in 0..N : f[n] = Taken(q, f, n)
    BY <1>2
<1> DEFINE Wrong == {n \in 0..N : ~Events(q, f[n], n)}
<1>4. Wrong = {}
    <2> SUFFICES ASSUME Wrong # {}
                 PROVE  FALSE
        OBVIOUS
    <2>1. PICK n \in Wrong : \A k \in Wrong : n <= k
        <3>1. Wrong \subseteq Nat
            BY <1>1
        <3> HIDE DEF Wrong
        <3> QED BY <3>1, LeastOf
    <2>2. n \in 0..N /\ ~Events(q, f[n], n)
        OBVIOUS
    <2>3. n # 0
        <3>1. 0 \in 0..N /\ Taken(q, f, 0) = <<>>
            BY <1>1 DEF Taken
        <3>2. f[0] = <<>>
            BY <1>3, <3>1
        <3>3. Events(q, f[0], 0)
            BY <3>2 DEF Events
        <3> QED BY <2>2, <3>3
    <2>4. n - 1 \in 0..N /\ Events(q, f[n - 1], n - 1)
        <3>1. n - 1 \in 0..N /\ ~(n <= n - 1)
            BY <1>1, <2>2, <2>3
        <3>2. n - 1 \notin Wrong
            <4> HIDE DEF Wrong
            <4> QED BY <2>1, <3>1
        <3> QED BY <3>1, <3>2
    <2> DEFINE slot == q.slots[n]
               old == f[n - 1]
    <2>5. slot \in Slot /\ n \in 1..N /\ Ready(q)[n] = slot
        BY <1>1, <2>2, <2>3, ElementOfSeq
    <2>6. CASE ~IsEvent(q, slot)
        <3>1. f[n] = old
            BY <1>3, <2>2, <2>3, <2>5, <2>6 DEF Taken
        <3>2. /\ \A k \in 1..(n - 1) : k \in 1..n
              /\ \A k \in 1..n : k = n \/ k \in 1..(n - 1)
            BY <2>5
        <3>3. Events(q, old, n)
            <4>1. Events(q, old, n - 1)
                BY <2>4
            <4> HIDE DEF old
            <4>2. \A i \in DOMAIN old : \E k \in 1..n :
                      IsEvent(q, q.slots[k]) /\ old[i].sequence = q.slots[k].sequence
                BY <4>1, <3>2 DEF Events
            <4>3. \A k \in 1..n : IsEvent(q, q.slots[k]) =>
                      \E i \in DOMAIN old : old[i].sequence = q.slots[k].sequence
                BY <4>1, <2>6, <3>2 DEF Events
            <4> QED BY <4>1, <4>2, <4>3 DEF Events
        <3> QED BY <2>2, <3>1, <3>3
    <2>7. CASE IsEvent(q, slot)
        <3> DEFINE e == [sequence |-> slot.sequence, kind |-> slot.state]
                   new == Append(old, e)
        <3>1. f[n] = new
            BY <1>3, <2>2, <2>3, <2>5, <2>7 DEF Taken
        <3>2. e \in Envelope
            BY <2>5, <2>7 DEF IsEvent, Slot, Envelope
        <3>3. old \in Seq(Envelope)
            BY <2>4 DEF Events
        <3> DEFINE m == Len(old)
        <3>4. /\ m \in Nat /\ DOMAIN old = 1..m
              /\ new \in Seq(Envelope) /\ DOMAIN new = 1..(m + 1)
              /\ \A i \in 1..m : new[i] = old[i]
              /\ new[m + 1] = e
            <4> HIDE DEF old, e
            <4> QED BY <3>2, <3>3
        <3>5. e.sequence = slot.sequence
            OBVIOUS
        <3>6. /\ \A i, j \in 1..m : i < j => old[i].sequence < old[j].sequence
              /\ \A i \in 1..m : \E k \in 1..(n - 1) :
                    IsEvent(q, q.slots[k]) /\ old[i].sequence = q.slots[k].sequence
              /\ \A k \in 1..(n - 1) : IsEvent(q, q.slots[k]) =>
                    \E i \in 1..m : old[i].sequence = q.slots[k].sequence
            BY <2>4, <3>4 DEF Events
        <3>7. \A k \in 1..(n - 1) : q.slots[k].sequence < slot.sequence
            <4>1. \A k \in 1..(n - 1) : k \in DOMAIN q.slots /\ n \in DOMAIN q.slots /\ k < n
                BY <1>1, <2>5
            <4> QED BY <4>1
        <3> HIDE DEF new, old, e, m, slot
        <3>8. 1..n = (1..(n - 1)) \cup {n} /\ n \in Nat /\ m + 1 \in 1..(m + 1)
              /\ 1..(m + 1) = (1..m) \cup {m + 1}
            BY <2>5, <3>4
        <3>9. \A i \in 1..m : old[i].sequence < slot.sequence
            BY <3>6, <3>7
        <3>10. \A i, j \in 1..(m + 1) : i < j => new[i].sequence < new[j].sequence
            <4> SUFFICES ASSUME NEW i \in 1..(m + 1), NEW j \in 1..(m + 1), i < j
                         PROVE  new[i].sequence < new[j].sequence
                OBVIOUS
            <4>1. i \in 1..m
                BY <3>4
            <4>2. CASE j \in 1..m
                BY <3>4, <3>6, <4>1, <4>2
            <4>3. CASE j = m + 1
                BY <3>4, <3>5, <3>9, <4>1, <4>3
            <4> QED BY <3>8, <4>2, <4>3
        <3>11. \A i \in 1..(m + 1) : \E k \in 1..n :
                    IsEvent(q, q.slots[k]) /\ new[i].sequence = q.slots[k].sequence
            <4> SUFFICES ASSUME NEW i \in 1..(m + 1)
                         PROVE  \E k \in 1..n : IsEvent(q, q.slots[k])
                                    /\ new[i].sequence = q.slots[k].sequence
                OBVIOUS
            <4>1. CASE i \in 1..m
                <5>1. PICK k \in 1..(n - 1) :
                          IsEvent(q, q.slots[k]) /\ old[i].sequence = q.slots[k].sequence
                    BY <3>6, <4>1
                <5> QED BY <3>4, <3>8, <4>1, <5>1
            <4>2. CASE i = m + 1
                BY <2>5, <2>7, <3>4, <3>5, <4>2 DEF slot
            <4> QED BY <3>8, <4>1, <4>2
        <3>12. \A k \in 1..n : IsEvent(q, q.slots[k]) =>
                    \E i \in 1..(m + 1) : new[i].sequence = q.slots[k].sequence
            <4> SUFFICES ASSUME NEW k \in 1..n, IsEvent(q, q.slots[k])
                         PROVE  \E i \in 1..(m + 1) :
                                    new[i].sequence = q.slots[k].sequence
                OBVIOUS
            <4>1. CASE k \in 1..(n - 1)
                <5>1. PICK i \in 1..m : old[i].sequence = q.slots[k].sequence
                    BY <3>6, <4>1
                <5> QED BY <3>4, <3>8, <5>1
            <4>2. CASE k = n
                BY <3>4, <3>5, <3>8, <4>2 DEF slot
            <4> QED BY <3>8, <4>1, <4>2
        <3>13. Events(q, new, n)
            BY <3>4, <3>10, <3>11, <3>12 DEF Events
        <3> QED BY <2>2, <3>1, <3>13
    <2> QED BY <2>6, <2>7
<1>5. N \in 0..N
    BY <1>1
<1>6. Events(q, f[N], N)
    BY <1>4, <1>5
<1> QED BY <1>2, <1>6

-----------------------------------------------------------------------------
(* The methods of the queue and the way of the events.                     *)

(* Where an event is that has left the queue and counts.                   *)
LEMMA SentIs ==
    ASSUME NEW l \in Loop, NEW e \in Seq(Sequences), NEW n
    PROVE  n \in Sent(l, e) <=>
              \/ \E i \in DOMAIN e : e[i] = n
              \/ \E i \in DOMAIN l.backlog : l.backlog[i].sequence = n
              \/ l.pending # 0 /\ l.pending = n
BY DEF Sent, ToSet

(* They are sequences.                                                     *)
LEMMA SentTyped ==
    ASSUME NEW l \in Loop, NEW e \in Seq(Sequences)
    PROVE  /\ Sent(l, e) \subseteq Sequences
           /\ \A x \in Sent(l, e) : x \in Int
<1>1. \A i \in DOMAIN e : e[i] \in Sequences
    BY ElementOfSeq
<1>2. l.backlog \in Seq(Envelope) /\ l.pending \in 0..MaxCallbacks
    BY DEF Loop
<1>3. \A i \in DOMAIN l.backlog : l.backlog[i] \in Envelope
    BY <1>2, ElementOfSeq
<1>4. \A i \in DOMAIN l.backlog : l.backlog[i].sequence \in Sequences
    BY <1>3 DEF Envelope, Sequences
<1>5. l.pending # 0 => l.pending \in Sequences
    BY <1>2, BoundsAssumption DEF Sequences
<1>6. Sent(l, e) \subseteq Sequences
    BY <1>1, <1>4, <1>5, SentIs
<1> QED BY <1>6, BoundsAssumption DEF Sequences

(* The queue r is q with, at most, a cutoff of n where there was none or a *)
(* later one.                                                              *)
Lowers(q, r, n) ==
    /\ r \in Queue
    /\ r.slots = q.slots /\ r.next = q.next /\ r.inFlight = q.inFlight
    /\ r.cutoff \in {q.cutoff, n}
    /\ q.cutoff # 0 => r.cutoff # 0 /\ r.cutoff <= q.cutoff
    /\ q.phase = "Stopping" => r.phase = "Stopping"
    /\ r.phase = "Running" => q.phase = "Running"

Heard(q) == q.wake \/ q.posted \/ q.deaf

(* An emergency lowers the cutoff.                                         *)
LEMMA EmergencyLowers ==
    ASSUME NEW q \in Queue, NEW n \in 1..(MaxCallbacks + 1)
    PROVE  LET r == RecordEmergency(q, n)
           IN  /\ Lowers(q, r, n)
               /\ r.cutoff # 0 /\ r.cutoff <= n
               /\ r.wake = q.wake /\ r.posted = q.posted /\ r.deaf = q.deaf
               /\ r.phase # "Running"
<1> DEFINE c == IF q.cutoff = 0 \/ n < q.cutoff THEN n ELSE q.cutoff
           p == IF q.phase \in {"Starting", "Running"} THEN "Failed" ELSE q.phase
<1>1. RecordEmergency(q, n) = [q EXCEPT !.cutoff = c, !.phase = p]
    BY DEF RecordEmergency, Queue
<1>2. /\ q.cutoff \in 0..(MaxCallbacks + 1)
      /\ q.phase \in {"Starting", "Running", "Stopping", "Failed"}
    BY DEF Queue
<1>3. c \in 1..(MaxCallbacks + 1) /\ c \in {q.cutoff, n} /\ c <= n
      /\ (q.cutoff # 0 => c <= q.cutoff)
    BY <1>2, BoundsAssumption
<1>4. /\ p \in {"Stopping", "Failed"}
      /\ q.phase = "Stopping" => p = "Stopping"
    BY <1>2
<1> HIDE DEF c, p
<1>5. c \in 0..(MaxCallbacks + 1) /\ c # 0
    BY <1>3, BoundsAssumption
<1>6. [q EXCEPT !.cutoff = c, !.phase = p] \in Queue
    BY <1>4, <1>5 DEF Queue
<1> QED BY <1>1, <1>3, <1>4, <1>5, <1>6 DEF Lowers, Queue

(* A signal lowers the cutoff when it fails, and then the coordinator has  *)
(* been told in another way or cannot be told.                             *)
LEMMA WakeLowers ==
    ASSUME NEW q \in Queue, NEW n \in 1..(MaxCallbacks + 1),
           NEW signal \in Signals
    PROVE  /\ Lowers(q, SignalWake(q, n, signal), n)
           /\ Heard(SignalWake(q, n, signal))
<1> DEFINE r == RecordEmergency(q, n)
<1>1. Lowers(q, r, n) /\ r \in Queue
    BY EmergencyLowers DEF Lowers
<1>2. CASE signal = "set"
    <2>1. SignalWake(q, n, signal) = [q EXCEPT !.wake = TRUE]
        BY <1>2 DEF SignalWake
    <2>2. q.cutoff \in Int
        BY BoundsAssumption DEF Queue
    <2>3. [q EXCEPT !.wake = TRUE] \in Queue
        BY DEF Queue
    <2> DEFINE s == [q EXCEPT !.wake = TRUE]
    <2>4. /\ s.slots = q.slots /\ s.next = q.next /\ s.inFlight = q.inFlight
          /\ s.cutoff = q.cutoff /\ s.phase = q.phase /\ s.wake = TRUE
        BY DEF Queue
    <2> HIDE DEF s, r
    <2>5. Lowers(q, s, n)
        BY <2>2, <2>3, <2>4 DEF Lowers, s
    <2> QED BY <2>1, <2>4, <2>5 DEF Heard, s
<1>3. CASE signal = "posted"
    <2>1. SignalWake(q, n, signal) = [r EXCEPT !.posted = TRUE]
        BY <1>3 DEF SignalWake
    <2> HIDE DEF r
    <2> QED BY <1>1, <2>1 DEF Lowers, Heard, Queue
<1>4. CASE signal = "lost"
    <2>1. SignalWake(q, n, signal) = [r EXCEPT !.deaf = TRUE]
        BY <1>4 DEF SignalWake
    <2> HIDE DEF r
    <2> QED BY <1>1, <2>1 DEF Lowers, Heard, Queue
<1> QED BY <1>2, <1>3, <1>4 DEF Signals

(* One after the other.                                                    *)
LEMMA LowersTwice ==
    ASSUME NEW q \in Queue, NEW r, NEW s, NEW n,
           Lowers(q, r, n), Lowers(r, s, n)
    PROVE  Lowers(q, s, n)
<1>1. q.cutoff \in Int /\ r.cutoff \in Int /\ s.cutoff \in Int
    BY BoundsAssumption DEF Queue, Lowers
<1> QED BY <1>1 DEF Lowers

(* A cutoff behind all events that have left the queue disturbs nothing.   *)
LEMMA LineLowers ==
    ASSUME NEW q \in Queue, NEW l \in Loop, NEW e \in Seq(Sequences), NEW g,
           NEW r, NEW n \in 1..(MaxCallbacks + 1),
           LineInv(q, l, e, g), Lowers(q, r, n),
           r.cutoff = q.cutoff \/ \A x \in Sent(l, e) : x < n
    PROVE  LineInv(r, l, e, g)
<1>1. q.cutoff \in Nat /\ r.cutoff \in Nat
    BY BoundsAssumption DEF Queue, Lowers
<1>2. \A x \in Int : BeforeCutoff(r, x) => BeforeCutoff(q, x)
    BY <1>1 DEF BeforeCutoff, Emergency, Lowers
<1>3. \A x \in Sent(l, e) : BeforeCutoff(q, x) => BeforeCutoff(r, x)
    BY <1>1 DEF BeforeCutoff, Emergency, Lowers
<1>4. \A i \in DOMAIN q.slots : q.slots[i].sequence \in Int
    <2>1. q.slots \in Seq(Slot)
        BY DEF Queue
    <2>2. \A i \in DOMAIN q.slots : q.slots[i] \in Slot
        BY <2>1, ElementOfSeq
    <2> QED BY <2>2 DEF Slot
<1>5. r.slots = q.slots /\ r.next = q.next /\ r.inFlight = q.inFlight
    BY DEF Lowers
<1>6. SlotsInv(r)
    BY <1>2, <1>4, <1>5 DEF LineInv, SlotsInv, PendingSequences
<1>7. SentInv(r, l, e)
    <2>1. \A x \in Sent(l, e) :
             /\ x < r.next /\ BeforeCutoff(r, x)
             /\ \A i \in DOMAIN r.slots : x < r.slots[i].sequence
        BY <1>3, <1>5 DEF LineInv, SentInv
    <2>2. l.fatal # 0 =>
             /\ Emergency(r) /\ r.cutoff <= l.fatal /\ l.fatal < r.next
             /\ \A i \in DOMAIN r.slots : l.fatal < r.slots[i].sequence
        <3>1. l.fatal \in Int
            BY DEF Loop
        <3> QED BY <1>1, <1>5, <3>1 DEF LineInv, SentInv, Emergency, Lowers
    <2> QED BY <2>1, <2>2 DEF SentInv
<1>8. CoverInv(r, l, e, g)
    <2>1. \A x \in Sequences : x \in Int
        BY BoundsAssumption DEF Sequences
    <2> QED BY <1>2, <1>5, <2>1 DEF LineInv, CoverInv
<1> QED BY <1>6, <1>7, <1>8 DEF LineInv

(* The slots of a queue.                                                   *)
LEMMA SlotsAre ==
    ASSUME NEW q \in Queue
    PROVE  /\ q.slots \in Seq(Slot) /\ Len(q.slots) \in Nat
           /\ DOMAIN q.slots = 1..Len(q.slots)
           /\ \A i \in DOMAIN q.slots :
                 /\ q.slots[i] \in Slot
                 /\ q.slots[i].sequence \in 1..MaxCallbacks
                 /\ q.slots[i].sequence \in Int
                 /\ q.slots[i].state \in SlotStates
           /\ q.next \in 1..(MaxCallbacks + 1) /\ q.next \in Int
           /\ q.cutoff \in 0..(MaxCallbacks + 1) /\ q.cutoff \in Nat
           /\ q.inFlight \in 0..MaxCallbacks /\ q.inFlight \in Int
<1>1. q.slots \in Seq(Slot)
    BY DEF Queue
<1>2. \A i \in DOMAIN q.slots : q.slots[i] \in Slot
    BY <1>1, ElementOfSeq
<1>3. \A i \in DOMAIN q.slots : /\ q.slots[i].sequence \in 1..MaxCallbacks
                                /\ q.slots[i].sequence \in Int
                                /\ q.slots[i].state \in SlotStates
    BY <1>2, BoundsAssumption DEF Slot
<1> QED BY <1>1, <1>2, <1>3, BoundsAssumption DEF Queue

(* The slots that are pending are finitely many.                           *)
LEMMA PendingIs ==
    ASSUME NEW q \in Queue
    PROVE  /\ IsFiniteSet(PendingSequences(q))
           /\ PendingSequences(q) \subseteq 1..MaxCallbacks
           /\ Cardinality(PendingSequences(q)) \in 0..MaxCallbacks
<1>1. PendingSequences(q) \subseteq 1..MaxCallbacks
    BY SlotsAre DEF PendingSequences
<1>2. IsFiniteSet(1..MaxCallbacks) /\ Cardinality(1..MaxCallbacks) = MaxCallbacks
    BY BoundsAssumption, FS_Interval
<1>3. /\ IsFiniteSet(PendingSequences(q))
      /\ Cardinality(PendingSequences(q)) <= MaxCallbacks
    BY <1>1, <1>2, FS_Subset
<1>4. Cardinality(PendingSequences(q)) \in Nat
    BY <1>3, FS_CardinalityType
<1> QED BY <1>1, <1>3, <1>4, BoundsAssumption

(* A callback that is admitted gets the last slot.                         *)
LEMMA LineReserve ==
    ASSUME NEW q \in Queue, NEW l \in Loop, NEW e \in Seq(Sequences), NEW g,
           LineInv(q, l, e, g), q.next <= MaxCallbacks
    PROVE  /\ Reserve(q) \in Queue /\ LineInv(Reserve(q), l, e, g)
           /\ q.next \in PendingSequences(Reserve(q))
           /\ Reserve(q).slots # <<>> /\ Reserve(q).phase = q.phase
           /\ Reserve(q).cutoff = q.cutoff
           /\ Reserve(q).next = q.next + 1
           /\ Heard(q) => Heard(Reserve(q))
           /\ Ready(q) = <<>> => Ready(Reserve(q)) = <<>>
<1> DEFINE r == Reserve(q)
           new == [sequence |-> q.next, state |-> "Pending"]
           N == Len(q.slots)
<1>1. r = [q EXCEPT !.slots = Append(q.slots, new), !.next = q.next + 1,
                    !.inFlight = q.inFlight + 1]
    BY DEF Reserve
<1>2. /\ N \in Nat /\ DOMAIN q.slots = 1..N /\ q.slots \in Seq(Slot)
      /\ \A i \in 1..N : /\ q.slots[i].sequence \in Int
                         /\ q.slots[i].sequence < q.next
      /\ q.next \in 1..MaxCallbacks /\ q.next \in Int
      /\ q.next + 1 \in 1..(MaxCallbacks + 1) /\ q.next < q.next + 1
    BY SlotsAre, BoundsAssumption DEF LineInv, SlotsInv
<1>3. new \in Slot /\ new.sequence = q.next /\ new.state = "Pending"
    BY <1>2 DEF Slot, SlotStates
<1> HIDE DEF new
<1>4. /\ r.slots = Append(q.slots, new) /\ r.next = q.next + 1
      /\ r.inFlight = q.inFlight + 1 /\ r.cutoff = q.cutoff /\ r.phase = q.phase
      /\ r.wake = q.wake /\ r.posted = q.posted /\ r.deaf = q.deaf
    BY <1>1 DEF Queue
<1>5. /\ r.slots \in Seq(Slot) /\ Len(r.slots) = N + 1
      /\ DOMAIN r.slots = 1..(N + 1)
      /\ \A i \in 1..N : r.slots[i] = q.slots[i]
      /\ r.slots[N + 1] = new
    BY <1>2, <1>3, <1>4
<1>6. /\ \A i \in 1..(N + 1) : i \in 1..N \/ i = N + 1
      /\ \A i \in 1..N : i \in 1..(N + 1)
      /\ N + 1 \in 1..(N + 1)
    BY <1>2
<1>7. PendingSequences(r) = PendingSequences(q) \cup {q.next}
    <2>1. ASSUME NEW x \in PendingSequences(r)
          PROVE  x \in PendingSequences(q) \cup {q.next}
        <3>1. PICK i \in 1..(N + 1) : r.slots[i].state = "Pending" /\ x = r.slots[i].sequence
            BY <1>5 DEF PendingSequences
        <3> QED BY <1>2, <1>3, <1>5, <1>6, <3>1 DEF PendingSequences
    <2>2. ASSUME NEW x \in PendingSequences(q)
          PROVE  x \in PendingSequences(r)
        <3>1. PICK i \in 1..N : q.slots[i].state = "Pending" /\ x = q.slots[i].sequence
            BY <1>2 DEF PendingSequences
        <3>2. i \in DOMAIN r.slots /\ r.slots[i].state = "Pending" /\ x = r.slots[i].sequence
            BY <1>5, <1>6, <3>1
        <3> QED BY <3>2 DEF PendingSequences
    <2>3. q.next \in PendingSequences(r)
        BY <1>3, <1>5, <1>6 DEF PendingSequences
    <2> QED BY <2>1, <2>2, <2>3
<1>8. r.inFlight = Cardinality(PendingSequences(r)) /\ r.inFlight \in 0..MaxCallbacks
    <2>1. q.next \notin PendingSequences(q)
        BY <1>2 DEF PendingSequences
    <2>2. Cardinality(PendingSequences(r)) = Cardinality(PendingSequences(q)) + 1
        BY <1>7, <2>1, PendingIs, FS_AddElement
    <2>3. r.inFlight = Cardinality(PendingSequences(r))
        BY <1>4, <2>2 DEF LineInv, SlotsInv
    <2>4. PendingSequences(r) \subseteq 1..MaxCallbacks
        BY <1>2, <1>7, PendingIs
    <2>5. /\ IsFiniteSet(1..MaxCallbacks)
          /\ Cardinality(1..MaxCallbacks) = MaxCallbacks
        BY BoundsAssumption, FS_Interval
    <2>6. /\ Cardinality(PendingSequences(r)) <= MaxCallbacks
          /\ IsFiniteSet(PendingSequences(r))
        BY <2>4, <2>5, FS_Subset
    <2>7. Cardinality(PendingSequences(r)) \in Nat
        BY <2>6, FS_CardinalityType
    <2> QED BY <2>3, <2>6, <2>7, BoundsAssumption
<1>9. r \in Queue
    BY <1>1, <1>2, <1>4, <1>5, <1>8 DEF Queue
<1> HIDE DEF r
<1>10. SlotsInv(r)
    <2>1. ASSUME NEW i \in 1..(N + 1), NEW j \in 1..(N + 1), i < j
          PROVE  r.slots[i].sequence < r.slots[j].sequence
        <3>1. i \in 1..N
            BY <1>2, <2>1
        <3>2. CASE j \in 1..N
            BY <1>2, <1>5, <2>1, <3>1, <3>2 DEF LineInv, SlotsInv
        <3>3. CASE j = N + 1
            BY <1>2, <1>3, <1>5, <3>1, <3>3
        <3> QED BY <1>6, <3>2, <3>3
    <2>2. ASSUME NEW i \in 1..(N + 1)
          PROVE  /\ r.slots[i].sequence < r.next
                 /\ r.slots[i].state = "Failure"
                        => ~BeforeCutoff(r, r.slots[i].sequence)
        <3>1. CASE i \in 1..N
            <4>1. r.slots[i].sequence < r.next
                BY <1>2, <1>4, <1>5, <3>1
            <4>2. r.slots[i].state = "Failure"
                        => ~BeforeCutoff(r, r.slots[i].sequence)
                BY <1>2, <1>4, <1>5, <3>1
                   DEF LineInv, SlotsInv, BeforeCutoff, Emergency
            <4> QED BY <4>1, <4>2
        <3>2. CASE i = N + 1
            BY <1>2, <1>3, <1>4, <1>5, <3>2
        <3> QED BY <1>6, <3>1, <3>2
    <2> QED BY <1>5, <1>8, <2>1, <2>2 DEF SlotsInv
<1>11. SentInv(r, l, e)
    <2>1. l.fatal \in Int
        BY BoundsAssumption DEF Loop
    <2>2. \A x \in Sent(l, e) : x \in Int
        BY SentTyped
    <2>3. ASSUME NEW x \in Int, x < q.next,
                 \A i \in 1..N : x < q.slots[i].sequence
          PROVE  x < r.next /\ \A i \in DOMAIN r.slots : x < r.slots[i].sequence
        BY <1>2, <1>3, <1>4, <1>5, <1>6, <2>3
    <2>4. \A x \in Sent(l, e) :
             /\ x < r.next /\ BeforeCutoff(r, x)
             /\ \A i \in DOMAIN r.slots : x < r.slots[i].sequence
        <3> SUFFICES ASSUME NEW x \in Sent(l, e)
                     PROVE  /\ x < r.next /\ BeforeCutoff(r, x)
                            /\ \A i \in DOMAIN r.slots : x < r.slots[i].sequence
            OBVIOUS
        <3>1. /\ x \in Int /\ x < q.next /\ BeforeCutoff(q, x)
              /\ \A i \in 1..N : x < q.slots[i].sequence
            BY <1>2, <2>2 DEF LineInv, SentInv
        <3>2. BeforeCutoff(r, x)
            BY <1>4, <3>1 DEF BeforeCutoff, Emergency
        <3> QED BY <2>3, <3>1, <3>2
    <2>5. l.fatal # 0 =>
             /\ Emergency(r) /\ r.cutoff <= l.fatal /\ l.fatal < r.next
             /\ \A i \in DOMAIN r.slots : l.fatal < r.slots[i].sequence
        BY <1>2, <1>4, <2>1, <2>3 DEF LineInv, SentInv, Emergency
    <2> QED BY <2>4, <2>5 DEF SentInv
<1>12. CoverInv(r, l, e, g)
    <2> SUFFICES ASSUME NEW x \in Sequences, x < r.next, BeforeCutoff(r, x)
                 PROVE  \/ x \in g \/ x \in Sent(l, e)
                        \/ \E i \in DOMAIN r.slots :
                              r.slots[i].sequence = x /\ r.slots[i].state # "Failure"
        BY DEF CoverInv
    <2>1. x \in Int /\ BeforeCutoff(q, x)
        BY <1>4, BoundsAssumption DEF Sequences, BeforeCutoff, Emergency
    <2>2. CASE x < q.next
        <3>1. CASE x \in g \/ x \in Sent(l, e)
            BY <3>1
        <3>2. CASE \E i \in 1..N : q.slots[i].sequence = x /\ q.slots[i].state # "Failure"
            BY <1>5, <1>6, <3>2
        <3> QED BY <1>2, <2>1, <2>2, <3>1, <3>2 DEF LineInv, CoverInv
    <2>3. CASE x = q.next
        BY <1>3, <1>5, <1>6, <2>3
    <2> QED BY <1>2, <1>4, <2>1, <2>2, <2>3
<1>13. LineInv(r, l, e, g)
    BY <1>10, <1>11, <1>12 DEF LineInv
<1>14. ASSUME Ready(q) = <<>>
       PROVE  Ready(r) = <<>>
    <2>1. /\ Ready(r) \in Seq(Slot) /\ Len(Ready(r)) \in Nat
          /\ \A i \in 1..Len(Ready(r)) : r.slots[i].state # "Pending"
        BY <1>5, <1>9, ReadyIs
    <2>2. 0 < N => q.slots[1].state = "Pending"
        BY <1>2, <1>14, ReadyIs
    <2>3. r.slots[1].state = "Pending"
        BY <1>2, <1>3, <1>5, <2>2
    <2>4. Len(Ready(r)) = 0
        BY <2>1, <2>3
    <2> QED BY <2>1, <2>4
<1> QED
    BY <1>4, <1>5, <1>7, <1>9, <1>13, <1>14, <1>2 DEF r, Heard

(* A slot that is filled stays where it is.                                *)
LEMMA LineFill ==
    ASSUME NEW q \in Queue, NEW l \in Loop, NEW e \in Seq(Sequences), NEW g,
           LineInv(q, l, e, g), NEW n \in PendingSequences(q),
           NEW state \in SlotStates \ {"Pending"},
           state = "Failure" => ~BeforeCutoff(q, n)
    PROVE  /\ Fill(q, n, state) \in Queue /\ LineInv(Fill(q, n, state), l, e, g)
           /\ Fill(q, n, state).slots # <<>>
           /\ Fill(q, n, state).phase = q.phase
           /\ Fill(q, n, state).cutoff = q.cutoff
           /\ Fill(q, n, state).next = q.next
<1> DEFINE r == Fill(q, n, state)
           N == Len(q.slots)
<1>1. r = [q EXCEPT !.slots = [i \in DOMAIN q.slots |->
                                 IF q.slots[i].sequence = n
                                 THEN [q.slots[i] EXCEPT !.state = state]
                                 ELSE q.slots[i]],
                    !.inFlight = q.inFlight - 1]
    BY DEF Fill
<1>2. /\ N \in Nat /\ DOMAIN q.slots = 1..N /\ q.slots \in Seq(Slot)
      /\ \A i \in 1..N : q.slots[i] \in Slot /\ q.slots[i].sequence \in Int
      /\ q.next \in Int
    BY SlotsAre
<1>3. /\ r.next = q.next /\ r.inFlight = q.inFlight - 1 /\ r.cutoff = q.cutoff
      /\ r.phase = q.phase
    BY <1>1 DEF Queue
<1>4. /\ DOMAIN r.slots = 1..N
      /\ \A i \in 1..N :
            /\ r.slots[i] \in Slot
            /\ r.slots[i].sequence = q.slots[i].sequence
            /\ r.slots[i].state = IF q.slots[i].sequence = n THEN state
                                                             ELSE q.slots[i].state
    <2> DEFINE s == [i \in DOMAIN q.slots |->
                        IF q.slots[i].sequence = n
                        THEN [q.slots[i] EXCEPT !.state = state] ELSE q.slots[i]]
    <2>1. r.slots = s
        BY <1>1 DEF Queue
    <2>2. ASSUME NEW i \in 1..N
          PROVE  /\ s[i] \in Slot
                 /\ s[i].sequence = q.slots[i].sequence
                 /\ s[i].state = IF q.slots[i].sequence = n THEN state
                                                            ELSE q.slots[i].state
        <3>1. q.slots[i] \in Slot
            BY <1>2
        <3>2. CASE q.slots[i].sequence = n
            <4>1. s[i] = [q.slots[i] EXCEPT !.state = state]
                BY <1>2, <3>2
            <4> HIDE DEF s
            <4> QED BY <3>1, <3>2, <4>1 DEF Slot
        <3>3. CASE q.slots[i].sequence # n
            <4>1. s[i] = q.slots[i]
                BY <1>2, <3>3
            <4> HIDE DEF s
            <4> QED BY <3>1, <3>3, <4>1
        <3> QED BY <3>2, <3>3
    <2>3. DOMAIN s = 1..N
        BY <1>2
    <2> HIDE DEF s
    <2> QED BY <2>1, <2>2, <2>3
<1>5. r.slots \in Seq(Slot) /\ Len(r.slots) = N
    <2>1. r.slots = [i \in 1..N |-> r.slots[i]]
        BY <1>1, <1>2 DEF Queue
    <2> HIDE DEF r
    <2>2. r.slots \in [1..N -> Slot]
        BY <1>4, <2>1
    <2> QED BY <1>2, <2>2
<1>6. PendingSequences(r) = PendingSequences(q) \ {n}
    <2>1. \A x : x \in PendingSequences(r) <=>
              \E i \in 1..N : r.slots[i].state = "Pending" /\ x = r.slots[i].sequence
        BY <1>4 DEF PendingSequences
    <2>2. \A x : x \in PendingSequences(q) <=>
              \E i \in 1..N : q.slots[i].state = "Pending" /\ x = q.slots[i].sequence
        BY <1>2 DEF PendingSequences
    <2> HIDE DEF r
    <2> QED BY <1>4, <2>1, <2>2
<1>7. r.inFlight = Cardinality(PendingSequences(r)) /\ r.inFlight \in 0..MaxCallbacks
    <2>1. /\ Cardinality(PendingSequences(r)) = Cardinality(PendingSequences(q)) - 1
          /\ IsFiniteSet(PendingSequences(r))
        BY <1>6, PendingIs, FS_RemoveElement
    <2>2. q.inFlight = Cardinality(PendingSequences(q))
        BY DEF LineInv, SlotsInv
    <2>3. Cardinality(PendingSequences(r)) \in Nat
        BY <2>1, FS_CardinalityType
    <2>4. Cardinality(PendingSequences(q)) \in 0..MaxCallbacks
        BY PendingIs
    <2> HIDE DEF r
    <2> QED BY <1>3, <2>1, <2>2, <2>3, <2>4, BoundsAssumption
<1>8. r \in Queue
    BY <1>1, <1>5, <1>7, <1>3 DEF Queue
<1>9. N # 0
    BY <1>2 DEF PendingSequences
<1> HIDE DEF r
<1>10. SlotsInv(r)
    BY <1>2, <1>3, <1>4, <1>7 DEF LineInv, SlotsInv, BeforeCutoff, Emergency
<1>11. SentInv(r, l, e)
    BY <1>2, <1>3, <1>4 DEF LineInv, SentInv, BeforeCutoff, Emergency
<1>12. CoverInv(r, l, e, g)
    <2> SUFFICES ASSUME NEW x \in Sequences, x < r.next, BeforeCutoff(r, x)
                 PROVE  \/ x \in g \/ x \in Sent(l, e)
                        \/ \E i \in DOMAIN r.slots :
                              r.slots[i].sequence = x /\ r.slots[i].state # "Failure"
        BY DEF CoverInv
    <2>1. x < q.next /\ BeforeCutoff(q, x)
        BY <1>3 DEF BeforeCutoff, Emergency
    <2>2. CASE x \in g \/ x \in Sent(l, e)
        BY <2>2
    <2>3. ASSUME NEW i \in 1..N, q.slots[i].sequence = x, q.slots[i].state # "Failure"
          PROVE  r.slots[i].sequence = x /\ r.slots[i].state # "Failure"
        BY <1>4, <2>1, <2>3
    <2> QED BY <1>2, <1>4, <2>1, <2>2, <2>3 DEF LineInv, CoverInv
<1> QED
    BY <1>3, <1>5, <1>8, <1>9, <1>10, <1>11, <1>12 DEF r, LineInv

(* A callback that ends fills its slot and wakes the coordinator.          *)
LEMMA LineCompleted ==
    ASSUME NEW q \in Queue, NEW l \in Loop, NEW e \in Seq(Sequences), NEW g,
           LineInv(q, l, e, g), NEW n \in PendingSequences(q),
           NEW state \in SlotStates \ {"Pending"}, NEW signal \in Signals
    PROVE  LET r == Completed(q, n, state, signal)
           IN  /\ r \in Queue /\ LineInv(r, l, e, g) /\ Heard(r)
               /\ r.slots # <<>> /\ (q.phase = "Stopping" => r.phase = "Stopping")
               /\ r.cutoff = 0 => q.cutoff = 0
<1> DEFINE r == Completed(q, n, state, signal)
<1>1. n \in 1..MaxCallbacks /\ n \in 1..(MaxCallbacks + 1) /\ n \in Int
    BY PendingIs, BoundsAssumption
<1>2. PICK i \in DOMAIN q.slots : q.slots[i].sequence = n
    BY DEF PendingSequences
<1>3. n < q.next /\ \A x \in Sent(l, e) : x < n
    BY <1>2 DEF LineInv, SlotsInv, SentInv
<1>4. CASE state # "Failure"
    <2> DEFINE f == Fill(q, n, state)
               c == CutoffOrNext(q)
    <2>1. r = SignalWake(f, c, signal)
        <3>1. CASE state = "Ignored"
            BY <3>1 DEF Completed, CompleteIgnored
        <3>2. CASE state # "Ignored"
            BY <1>4, <3>2 DEF Completed, Complete
        <3> QED BY <3>1, <3>2
    <2>2. /\ f \in Queue /\ LineInv(f, l, e, g) /\ f.slots # <<>>
          /\ f.phase = q.phase /\ f.cutoff = q.cutoff /\ f.next = q.next
        BY <1>4, LineFill
    <2> HIDE DEF f
    <2>3. c \in 1..(MaxCallbacks + 1) /\ (c = f.cutoff \/ c = f.next)
        <3>1. /\ q.cutoff \in 0..(MaxCallbacks + 1)
              /\ q.next \in 1..(MaxCallbacks + 1)
            BY SlotsAre
        <3> QED BY <2>2, <3>1, BoundsAssumption DEF CutoffOrNext
    <2> HIDE DEF c
    <2>4. Lowers(f, r, c) /\ Heard(r)
        BY <2>1, <2>2, <2>3, WakeLowers
    <2>5. r.cutoff = f.cutoff \/ \A x \in Sent(l, e) : x < c
        BY <2>2, <2>3, <2>4 DEF Lowers, LineInv, SentInv
    <2> HIDE DEF r
    <2>6. LineInv(r, l, e, g)
        BY <2>2, <2>3, <2>4, <2>5, LineLowers
    <2> QED BY <2>2, <2>4, <2>6 DEF Lowers, r
<1>5. CASE state = "Failure"
    <2> DEFINE k == RecordEmergency(q, n)
               f == Fill(k, n, "Failure")
    <2>1. /\ Lowers(q, k, n) /\ k.cutoff # 0 /\ k.cutoff <= n /\ k \in Queue
          /\ k.slots = q.slots /\ k.cutoff \in Int
        <3>1. /\ Lowers(q, k, n) /\ k.cutoff # 0 /\ k.cutoff <= n
              /\ k \in Queue /\ k.slots = q.slots
            BY <1>1, EmergencyLowers DEF Lowers
        <3> HIDE DEF k
        <3>2. k.cutoff \in Int
            BY <3>1, SlotsAre
        <3> QED BY <3>1, <3>2
    <2>2. f = RecordEmergency(Fill(q, n, "Failure"), n)
        <3> DEFINE c == IF q.cutoff = 0 \/ n < q.cutoff THEN n ELSE q.cutoff
                   p == IF q.phase \in {"Starting", "Running"} THEN "Failed"
                                                             ELSE q.phase
                   slots == [j \in DOMAIN q.slots |->
                                IF q.slots[j].sequence = n
                                THEN [q.slots[j] EXCEPT !.state = "Failure"]
                                ELSE q.slots[j]]
                   m == q.inFlight - 1
                   h == [q EXCEPT !.slots = slots, !.inFlight = m]
        <3>1. k = [q EXCEPT !.cutoff = c, !.phase = p]
            BY DEF RecordEmergency, Queue
        <3>2. k.slots = q.slots /\ k.inFlight = q.inFlight
            BY <2>1 DEF Lowers
        <3>3. f = [k EXCEPT !.slots = slots, !.inFlight = m]
            BY <3>2 DEF Fill
        <3>4. Fill(q, n, "Failure") = h
            BY DEF Fill
        <3> HIDE DEF slots, m
        <3>5. h.cutoff = q.cutoff /\ h.phase = q.phase
            BY DEF Queue
        <3>6. RecordEmergency(h, n) = [h EXCEPT !.cutoff = c, !.phase = p]
            BY <3>5 DEF RecordEmergency
        <3> HIDE DEF c, p, k, f
        <3>7. f = [h EXCEPT !.cutoff = c, !.phase = p]
            BY <3>1, <3>3 DEF Queue
        <3> QED BY <3>4, <3>6, <3>7 DEF f
    <2>3. r = SignalWake(f, n, signal)
        BY <1>5, <2>2 DEF Completed, CompleteFailure
    <2> HIDE DEF k
    <2>4. LineInv(k, l, e, g)
        BY <1>1, <1>3, <2>1, LineLowers
    <2>5. n \in PendingSequences(k) /\ ~BeforeCutoff(k, n)
        BY <1>1, <2>1 DEF PendingSequences, BeforeCutoff, Emergency
    <2>6. /\ f \in Queue /\ LineInv(f, l, e, g) /\ f.slots # <<>>
          /\ f.phase = k.phase /\ f.cutoff = k.cutoff
        BY <1>5, <2>1, <2>4, <2>5, LineFill
    <2> HIDE DEF f
    <2>7. Lowers(f, r, n) /\ Heard(r)
        BY <1>1, <2>3, <2>6, WakeLowers
    <2> HIDE DEF r
    <2>8. LineInv(r, l, e, g)
        BY <1>1, <1>3, <2>6, <2>7, LineLowers
    <2>9. f.phase = "Stopping" => r.phase = "Stopping"
        BY <2>7 DEF Lowers
    <2>10. q.phase = "Stopping" => f.phase = "Stopping"
        BY <2>1, <2>6 DEF Lowers
    <2>11. r.cutoff # 0 /\ r \in Queue /\ r.slots = f.slots
        BY <2>1, <2>6, <2>7 DEF Lowers
    <2> QED BY <2>6, <2>7, <2>8, <2>9, <2>10, <2>11 DEF r
<1> QED BY <1>4, <1>5

(* Two sequences, one behind the other.                                    *)
LEMMA ConcatIs ==
    ASSUME NEW s \in Seq(Envelope), NEW t \in Seq(Envelope)
    PROVE  /\ s \o t \in Seq(Envelope)
           /\ Len(s) \in Nat /\ Len(t) \in Nat
           /\ DOMAIN (s \o t) = 1..(Len(s) + Len(t))
           /\ \A i \in 1..Len(s) : (s \o t)[i] = s[i]
           /\ \A i \in 1..Len(t) : (s \o t)[Len(s) + i] = t[i]
OBVIOUS

(* The locals k are l, with the first m of the events d behind the backlog. *)
Took(l, k, d, m) ==
    k.backlog = l.backlog \o SubSeq(d, 1, m) /\ k.pending = l.pending

(* The backlog after a drain: the old one, then the events of the drain.   *)
LEMMA TookIs ==
    ASSUME NEW l \in Loop, NEW k \in Loop, NEW d \in Seq(Envelope),
           NEW m \in 0..Len(d), Took(l, k, d, m)
    PROVE  LET B == Len(l.backlog)
           IN  /\ B \in Nat /\ m \in Nat /\ m <= Len(d)
               /\ k.backlog \in Seq(Envelope)
               /\ DOMAIN l.backlog = 1..B /\ DOMAIN k.backlog = 1..(B + m)
               /\ \A i \in 1..B : /\ k.backlog[i] = l.backlog[i]
                                  /\ l.backlog[i].sequence \in Int
               /\ \A i \in 1..m : k.backlog[B + i] = d[i]
               /\ \A i \in 1..(B + m) : \/ i \in 1..B
                                        \/ i - B \in 1..m /\ i = B + (i - B)
               /\ \A i \in 1..(B + m) :
                     i - B \in 1..m => k.backlog[i] = d[i - B]
<1> DEFINE B == Len(l.backlog)
           b == SubSeq(d, 1, m)
<1>1. l.backlog \in Seq(Envelope) /\ B \in Nat /\ DOMAIN l.backlog = 1..B
    BY DEF Loop
<1>2. \A i \in 1..B : l.backlog[i].sequence \in Int
    <2>1. \A i \in 1..B : l.backlog[i] \in Envelope
        BY <1>1, ElementOfSeq
    <2> QED BY <2>1, BoundsAssumption DEF Envelope
<1>3. m \in Nat /\ m <= Len(d) /\ Len(d) \in Nat
    OBVIOUS
<1>4. b \in Seq(Envelope) /\ Len(b) = m /\ \A i \in 1..m : b[i] = d[i]
    <2>1. \A i \in 1..m : d[i] \in Envelope
        BY <1>3, ElementOfSeq
    <2> QED BY <1>3, <2>1, SubSeqProperties
<1>5. k.backlog = l.backlog \o b
    BY DEF Took
<1> HIDE DEF b
<1>6. /\ k.backlog \in Seq(Envelope) /\ DOMAIN k.backlog = 1..(B + m)
      /\ \A i \in 1..B : k.backlog[i] = l.backlog[i]
      /\ \A i \in 1..m : k.backlog[B + i] = d[i]
    <2> DEFINE c == l.backlog \o b
    <2>0. l.backlog \in Seq(Envelope) /\ b \in Seq(Envelope)
        BY <1>1, <1>4
    <2>1. /\ c \in Seq(Envelope)
          /\ DOMAIN c = 1..(B + Len(b))
          /\ \A i \in 1..B : c[i] = l.backlog[i]
          /\ \A i \in 1..Len(b) : c[B + i] = b[i]
        BY <2>0, ConcatIs
    <2>2. k.backlog = c
        BY <1>5
    <2> HIDE DEF c
    <2> QED BY <1>4, <2>1, <2>2
<1>7. \A i \in 1..(B + m) : i \in 1..B \/ (i - B \in 1..m /\ i = B + (i - B))
    BY <1>1, <1>3
<1>8. \A i \in 1..(B + m) : i - B \in 1..m => k.backlog[i] = d[i - B]
    <2> HIDE DEF B
    <2>1. \A i \in 1..(B + m) : i = B + (i - B)
        BY <1>1, <1>3
    <2> QED BY <1>6, <2>1
<1> QED BY <1>1, <1>2, <1>3, <1>6, <1>7, <1>8

(* The coordinator takes the first m of the events that are drained, which *)
(* are those before the cutoff that the queue then has.                    *)
LEMMA LineTakes ==
    ASSUME NEW q \in Queue, NEW l \in Loop, NEW e \in Seq(Sequences), NEW g,
           LineInv(q, l, e, g),
           NEW r, NEW n, Lowers(AfterDrain(q), r, n),
           NEW m \in 0..Len(Drained(q)),
           \A x \in Sent(l, e) : BeforeCutoff(r, x),
           \A i \in DOMAIN Drained(q) :
               BeforeCutoff(r, Drained(q)[i].sequence) <=> i <= m,
           NEW k \in Loop,
           Took(l, k, Drained(q), m),
           k.fatal # 0 =>
               /\ Emergency(r) /\ r.cutoff <= k.fatal /\ k.fatal < r.next
               /\ \A i \in DOMAIN r.slots : k.fatal < r.slots[i].sequence
    PROVE  LineInv(r, k, e, g \cup DrainedIgnored(q))
<1> DEFINE N == Len(q.slots)
           R == Len(Ready(q))
           d == Drained(q)
           D == Len(d)
           B == Len(l.backlog)
<1>1. /\ N \in Nat /\ DOMAIN q.slots = 1..N
      /\ \A i \in 1..N : /\ q.slots[i].sequence \in Int
                         /\ q.slots[i].state \in SlotStates
                         /\ q.slots[i].sequence < q.next
      /\ \A i, j \in 1..N : i < j => q.slots[i].sequence < q.slots[j].sequence
      /\ q.next \in Int /\ q.cutoff \in Nat
    BY SlotsAre DEF LineInv, SlotsInv
<1>2. /\ R \in 0..N /\ R \in Nat
      /\ \A i \in 1..R : Ready(q)[i] = q.slots[i] /\ q.slots[i].state # "Pending"
      /\ DOMAIN Ready(q) = 1..R
    BY ReadyIs, <1>1
<1>3. Events(q, d, R)
    BY DrainedIs, <1>1
<1>19. /\ m \in 0..D /\ Took(l, k, d, m)
       /\ \A i \in DOMAIN d : BeforeCutoff(r, d[i].sequence) <=> i <= m
    OBVIOUS
<1> HIDE DEF d
<1>4. /\ d \in Seq(Envelope) /\ D \in Nat /\ DOMAIN d = 1..D
      /\ \A i \in 1..D : d[i] \in Envelope /\ d[i].sequence \in Int
    <2>1. d \in Seq(Envelope)
        BY <1>3 DEF Events
    <2>2. \A i \in 1..Len(d) : d[i] \in Envelope
        BY <2>1, ElementOfSeq
    <2> QED BY <2>1, <2>2, BoundsAssumption DEF Envelope
<1>5. /\ DOMAIN l.backlog = 1..B /\ B \in Nat /\ m \in Nat
      /\ DOMAIN k.backlog = 1..(B + m)
      /\ \A i \in 1..B : k.backlog[i] = l.backlog[i]
      /\ \A i \in 1..m : k.backlog[B + i] = d[i]
      /\ m <= D
    <2>1. d \in Seq(Envelope) /\ m \in 0..Len(d) /\ Took(l, k, d, m)
        BY <1>4, <1>19
    <2> HIDE DEF D
    <2> QED BY <2>1, TookIs DEF D
<1>6. /\ \A i \in 1..B : l.backlog[i].sequence \in Int
      /\ k.pending = l.pending
    BY <1>4, <1>19, TookIs DEF Took
<1>7. \A i \in 1..(B + m) : i \in 1..B \/ (i - B \in 1..m /\ i = B + (i - B))
    BY <1>4, <1>19, TookIs
<1>20. \A i \in 1..(B + m) : i - B \in 1..m => k.backlog[i] = d[i - B]
    <2>1. d \in Seq(Envelope) /\ m \in 0..Len(d) /\ Took(l, k, d, m)
        BY <1>4, <1>19
    <2> QED BY <2>1, TookIs
<1>8. /\ r \in Queue /\ r.next = q.next /\ r.inFlight = q.inFlight
      /\ DOMAIN r.slots = 1..(N - R)
      /\ \A i \in 1..(N - R) : r.slots[i] = q.slots[R + i] /\ R + i \in 1..N
      /\ \A i \in 1..N : i \in 1..R \/ (i - R \in 1..(N - R) /\ R + (i - R) = i)
    <2> DEFINE a == AfterDrain(q)
    <2>1. /\ a.next = q.next /\ a.inFlight = q.inFlight /\ a \in Queue
          /\ Len(a.slots) = N - R
          /\ \A i \in 1..(N - R) : a.slots[i] = q.slots[R + i]
        BY AfterDrainIs
    <2>4. \A i \in 1..(N - R) : R + i \in 1..N
        BY <1>1, <1>2
    <2>5. \A i \in 1..N : i \in 1..R \/ (i - R \in 1..(N - R) /\ R + (i - R) = i)
        BY <1>1, <1>2
    <2>6. DOMAIN a.slots = 1..(N - R)
        <3>1. a.slots \in Seq(Slot)
            BY <2>1 DEF Queue
        <3> HIDE DEF a
        <3> QED BY <2>1, <3>1
    <2> HIDE DEF a, N, R
    <2>3. r \in Queue /\ r.next = a.next /\ r.inFlight = a.inFlight /\ r.slots = a.slots
        BY DEF Lowers, a
    <2> QED BY <2>1, <2>3, <2>4, <2>5, <2>6
<1>9. \A x \in Int : BeforeCutoff(r, x) => BeforeCutoff(q, x)
    <2>1. AfterDrain(q).cutoff = q.cutoff
        BY AfterDrainIs
    <2>2. r.cutoff \in Nat
        BY <1>8, SlotsAre
    <2> QED BY <1>1, <2>1, <2>2 DEF BeforeCutoff, Emergency, Lowers
<1>10. \A i \in 1..D : \E j \in 1..R :
           IsEvent(q, q.slots[j]) /\ d[i].sequence = q.slots[j].sequence
    BY <1>3, <1>4 DEF Events
<1>11. \A i, j \in 1..D : i < j => d[i].sequence < d[j].sequence
    BY <1>3, <1>4 DEF Events
<1>12. \A i \in 1..m : i \in 1..D /\ BeforeCutoff(r, d[i].sequence)
    <2>1. \A i \in 1..m : i \in 1..D /\ i <= m
        BY <1>4, <1>5
    <2> QED BY <1>4, <1>19, <2>1
<1>13. SlotsInv(r)
    <2>1. PendingSequences(r) = PendingSequences(q)
        <3>1. \A x : x \in PendingSequences(r) <=> \E i \in 1..(N - R) :
                  r.slots[i].state = "Pending" /\ x = r.slots[i].sequence
            BY <1>8 DEF PendingSequences
        <3>2. \A x : x \in PendingSequences(q) <=> \E i \in 1..N :
                  q.slots[i].state = "Pending" /\ x = q.slots[i].sequence
            BY <1>1 DEF PendingSequences
        <3>3. ASSUME NEW x \in PendingSequences(q)
              PROVE  x \in PendingSequences(r)
            <4>1. PICK i \in 1..N : q.slots[i].state = "Pending" /\ x = q.slots[i].sequence
                BY <3>2
            <4>2. i - R \in 1..(N - R) /\ r.slots[i - R] = q.slots[i]
                BY <1>2, <1>8, <4>1
            <4> QED BY <3>1, <4>1, <4>2
        <3>4. ASSUME NEW x \in PendingSequences(r)
              PROVE  x \in PendingSequences(q)
            <4>1. PICK i \in 1..(N - R) : r.slots[i].state = "Pending" /\ x = r.slots[i].sequence
                BY <3>1, <3>4
            <4>2. R + i \in 1..N /\ r.slots[i] = q.slots[R + i]
                BY <1>8, <4>1
            <4> QED BY <3>2, <4>1, <4>2
        <3> QED BY <3>3, <3>4
    <2>2. ASSUME NEW i \in 1..(N - R), NEW j \in 1..(N - R), i < j
          PROVE  r.slots[i].sequence < r.slots[j].sequence
        <3>1. R + i < R + j
            BY <1>2, <2>2
        <3> QED BY <1>1, <1>8, <3>1
    <2>3. ASSUME NEW i \in 1..(N - R)
          PROVE  /\ r.slots[i].sequence < r.next
                 /\ r.slots[i].state = "Failure"
                        => ~BeforeCutoff(r, r.slots[i].sequence)
        <3>1. r.slots[i] = q.slots[R + i] /\ R + i \in 1..N
            BY <1>8
        <3>2. q.slots[R + i].state = "Failure"
                 => ~BeforeCutoff(q, q.slots[R + i].sequence)
            BY <1>1, <3>1 DEF LineInv, SlotsInv
        <3> QED BY <1>1, <1>8, <1>9, <3>1, <3>2
    <2>4. r.inFlight = Cardinality(PendingSequences(r))
        BY <1>8, <2>1 DEF LineInv, SlotsInv
    <2> QED BY <1>8, <2>2, <2>3, <2>4 DEF SlotsInv
<1>14. \A x : x \in Sent(k, e) <=> x \in Sent(l, e) \/ \E i \in 1..m : d[i].sequence = x
    <2> SUFFICES ASSUME NEW x
                 PROVE  x \in Sent(k, e) <=>
                            x \in Sent(l, e) \/ \E i \in 1..m : d[i].sequence = x
        OBVIOUS
    <2>1. (\E i \in DOMAIN k.backlog : k.backlog[i].sequence = x) <=>
             \/ \E i \in DOMAIN l.backlog : l.backlog[i].sequence = x
             \/ \E i \in 1..m : d[i].sequence = x
        <3>1. ASSUME NEW i \in 1..B PROVE i \in 1..(B + m)
            BY <1>5
        <3>2. ASSUME NEW i \in 1..m PROVE B + i \in 1..(B + m)
            BY <1>5
        <3>3. ASSUME NEW i \in 1..(B + m), k.backlog[i].sequence = x
              PROVE  \/ \E j \in 1..B : l.backlog[j].sequence = x
                     \/ \E j \in 1..m : d[j].sequence = x
            <4>1. CASE i \in 1..B
                BY <1>5, <1>6, <3>3, <4>1
            <4>2. CASE i - B \in 1..m /\ i = B + (i - B)
                <5>1. k.backlog[i] = d[i - B]
                    BY <1>5, <1>6, <4>2
                <5> QED BY <3>3, <4>2, <5>1
            <4> QED BY <1>7, <4>1, <4>2
        <3>4. ASSUME NEW i \in 1..B, l.backlog[i].sequence = x
              PROVE  \E j \in 1..(B + m) : k.backlog[j].sequence = x
            BY <1>5, <1>6, <3>1, <3>4
        <3>5. ASSUME NEW i \in 1..m, d[i].sequence = x
              PROVE  \E j \in 1..(B + m) : k.backlog[j].sequence = x
            BY <1>5, <1>6, <3>2, <3>5
        <3>6. DOMAIN k.backlog = 1..(B + m) /\ DOMAIN l.backlog = 1..B
            BY <1>5
        <3> QED BY <3>3, <3>4, <3>5, <3>6
    <2>2. x \in Sent(k, e) <=>
              \/ \E i \in DOMAIN e : e[i] = x
              \/ \E i \in DOMAIN k.backlog : k.backlog[i].sequence = x
              \/ k.pending # 0 /\ k.pending = x
        BY SentIs
    <2>3. x \in Sent(l, e) <=>
              \/ \E i \in DOMAIN e : e[i] = x
              \/ \E i \in DOMAIN l.backlog : l.backlog[i].sequence = x
              \/ l.pending # 0 /\ l.pending = x
        BY SentIs
    <2>4. k.pending = l.pending
        BY <1>5, <1>6
    <2> DEFINE inEvents == \E i \in DOMAIN e : e[i] = x
               inBacklog == \E i \in DOMAIN l.backlog : l.backlog[i].sequence = x
               inNew == \E i \in DOMAIN k.backlog : k.backlog[i].sequence = x
               inDrained == \E i \in 1..m : d[i].sequence = x
    <2>5. inNew <=> inBacklog \/ inDrained
        BY <2>1
    <2>6. x \in Sent(k, e) <=> inEvents \/ inNew \/ (k.pending # 0 /\ k.pending = x)
        BY <2>2
    <2>7. x \in Sent(l, e) <=> inEvents \/ inBacklog \/ (l.pending # 0 /\ l.pending = x)
        BY <2>3
    <2> HIDE DEF inEvents, inBacklog, inNew, inDrained
    <2>8. x \in Sent(k, e) <=> x \in Sent(l, e) \/ inDrained
        BY <2>4, <2>5, <2>6, <2>7
    <2> QED BY <2>8 DEF inDrained
<1>15. SentInv(r, k, e)
    <2>1. ASSUME NEW x \in Sent(l, e)
          PROVE  /\ x < r.next /\ BeforeCutoff(r, x)
                 /\ \A i \in DOMAIN r.slots : x < r.slots[i].sequence
        BY <1>1, <1>8 DEF LineInv, SentInv
    <2>2. ASSUME NEW i \in 1..m
          PROVE  /\ d[i].sequence < r.next /\ BeforeCutoff(r, d[i].sequence)
                 /\ \A j \in DOMAIN r.slots : d[i].sequence < r.slots[j].sequence
        <3>1. PICK j \in 1..R : d[i].sequence = q.slots[j].sequence
            BY <1>10, <1>12
        <3>2. j \in 1..N /\ \A h \in 1..(N - R) : j < R + h
            BY <1>1, <1>2
        <3> QED BY <1>1, <1>8, <1>12, <3>1, <3>2
    <2> QED BY <1>14, <2>1, <2>2 DEF SentInv
<1>16. \A i \in 1..m : \A x \in Sent(l, e) : x < d[i].sequence
    <2> SUFFICES ASSUME NEW i \in 1..m, NEW x \in Sent(l, e)
                 PROVE  x < d[i].sequence
        OBVIOUS
    <2>1. PICK j \in 1..R : d[i].sequence = q.slots[j].sequence
        BY <1>10, <1>12
    <2>2. j \in DOMAIN q.slots
        BY <1>1, <1>2
    <2> QED BY <2>1, <2>2 DEF LineInv, SentInv
<1>17. OrderInv(k, e)
    <2>1. /\ \A i \in DOMAIN e : e[i] \in Sent(l, e)
          /\ \A i \in 1..B : l.backlog[i].sequence \in Sent(l, e)
          /\ l.pending # 0 => l.pending \in Sent(l, e)
        BY <1>5, SentIs
    <2>2. \A i, j \in DOMAIN e : i < j => e[i] < e[j]
        BY DEF LineInv, OrderInv
    <2>3. ASSUME NEW i \in 1..(B + m), NEW j \in 1..(B + m), i < j
          PROVE  k.backlog[i].sequence < k.backlog[j].sequence
        <3>1. CASE i \in 1..B /\ j \in 1..B
            BY <1>5, <2>3, <3>1 DEF LineInv, OrderInv
        <3>2. CASE i \in 1..B /\ j - B \in 1..m
            <4>1. k.backlog[j] = d[j - B] /\ k.backlog[i] = l.backlog[i]
                BY <1>5, <1>6, <1>20, <3>2
            <4> QED BY <1>16, <2>1, <3>2, <4>1
        <3>3. CASE i - B \in 1..m /\ j - B \in 1..m
            <4>1. k.backlog[j] = d[j - B] /\ k.backlog[i] = d[i - B]
                BY <1>20, <3>3
            <4>2. i - B < j - B
                BY <1>5, <2>3
            <4> QED BY <1>11, <1>12, <3>3, <4>1, <4>2
        <3>4. ~(i - B \in 1..m /\ j \in 1..B)
            BY <1>5, <2>3
        <3> QED BY <1>7, <3>1, <3>2, <3>3, <3>4
    <2>4. ASSUME NEW x \in Sent(l, e), \A j \in 1..B : x < l.backlog[j].sequence
          PROVE  \A j \in 1..(B + m) : x < k.backlog[j].sequence
        <3> SUFFICES ASSUME NEW j \in 1..(B + m)
                     PROVE  x < k.backlog[j].sequence
            OBVIOUS
        <3>1. CASE j \in 1..B
            BY <1>5, <1>6, <2>4, <3>1
        <3>2. CASE j - B \in 1..m /\ j = B + (j - B)
            <4>1. k.backlog[j] = d[j - B]
                BY <1>5, <1>6, <3>2
            <4> QED BY <1>16, <3>2, <4>1
        <3> QED BY <1>7, <3>1, <3>2
    <2>5. \A i \in DOMAIN e, j \in 1..(B + m) : e[i] < k.backlog[j].sequence
        BY <1>5, <2>1, <2>4 DEF LineInv, OrderInv
    <2>6. k.pending # 0 =>
             /\ \A i \in DOMAIN e : e[i] < k.pending
             /\ \A j \in 1..(B + m) : k.pending < k.backlog[j].sequence
        <3> SUFFICES ASSUME k.pending # 0
                     PROVE  /\ \A i \in DOMAIN e : e[i] < l.pending
                            /\ \A j \in 1..(B + m) : l.pending < k.backlog[j].sequence
            BY <1>6
        <3>1. /\ l.pending # 0 /\ l.pending \in Sent(l, e)
              /\ \A i \in DOMAIN e : e[i] < l.pending
              /\ \A j \in 1..B : l.pending < l.backlog[j].sequence
            BY <1>5, <1>6, <2>1 DEF LineInv, OrderInv
        <3>2. \A j \in 1..(B + m) : l.pending < k.backlog[j].sequence
            BY <2>4, <3>1
        <3> QED BY <3>1, <3>2
    <2> QED BY <1>5, <1>6, <2>2, <2>3, <2>5, <2>6 DEF OrderInv
<1>18. CoverInv(r, k, e, g \cup DrainedIgnored(q))
    <2> SUFFICES ASSUME NEW x \in Sequences, x < r.next, BeforeCutoff(r, x)
                 PROVE  \/ x \in g \cup DrainedIgnored(q) \/ x \in Sent(k, e)
                        \/ \E i \in DOMAIN r.slots :
                              r.slots[i].sequence = x /\ r.slots[i].state # "Failure"
        BY DEF CoverInv
    <2>1. x \in Int /\ x < q.next /\ BeforeCutoff(q, x)
        BY <1>8, <1>9, BoundsAssumption DEF Sequences
    <2>2. CASE x \in g \/ x \in Sent(l, e)
        BY <1>14, <2>2
    <2>3. ASSUME NEW i \in 1..N, q.slots[i].sequence = x, q.slots[i].state # "Failure"
          PROVE  \/ x \in DrainedIgnored(q) \/ x \in Sent(k, e)
                 \/ \E j \in DOMAIN r.slots :
                       r.slots[j].sequence = x /\ r.slots[j].state # "Failure"
        <3>1. CASE i - R \in 1..(N - R) /\ R + (i - R) = i
            BY <1>8, <2>3, <3>1
        <3>2. CASE i \in 1..R /\ q.slots[i].state = "Ignored"
            <4>1. Ready(q)[i] = q.slots[i] /\ i \in DOMAIN Ready(q)
                BY <1>2, <3>2
            <4>2. q.slots[i] \in ToSet(Ready(q))
                BY <4>1 DEF ToSet
            <4> QED BY <2>1, <2>3, <3>2, <4>2 DEF DrainedIgnored
        <3>3. CASE i \in 1..R /\ q.slots[i].state \in Kinds
            <4>1. IsEvent(q, q.slots[i])
                BY <2>1, <2>3, <3>3 DEF IsEvent
            <4>2. PICK j \in 1..D : d[j].sequence = x
                <5>1. \A h \in 1..R : IsEvent(q, q.slots[h]) =>
                          \E j \in 1..D : d[j].sequence = q.slots[h].sequence
                    BY <1>3, <1>4 DEF Events
                <5> QED BY <2>3, <3>3, <4>1, <5>1
            <4>3. j <= m
                BY <1>4, <1>19, <4>2
            <4>4. j \in 1..m
                BY <1>5, <1>6, <4>2, <4>3
            <4> QED BY <1>14, <4>2, <4>4
        <3>4. q.slots[i].state \in SlotStates /\ (i \in 1..R => q.slots[i].state # "Pending")
            BY <1>1, <1>2
        <3> QED BY <1>8, <2>3, <3>1, <3>2, <3>3, <3>4 DEF SlotStates
    <2> QED BY <1>1, <2>1, <2>2, <2>3 DEF LineInv, CoverInv
<1> QED BY <1>13, <1>15, <1>17, <1>18 DEF LineInv

(* The locals k have the events that l has.                                *)
SameLine(l, k) ==
    k.backlog = l.backlog /\ k.pending = l.pending /\ k.fatal = l.fatal

(* A failure of the coordinator that no event is to blame for counts from  *)
(* the next event on, and a queue that is told to stop keeps its events.   *)
LEMMA LineKeeps ==
    ASSUME NEW q \in Queue, NEW l \in Loop, NEW e \in Seq(Sequences), NEW g,
           NEW r, NEW k \in Loop,
           LineInv(q, l, e, g), Lowers(q, r, q.next), SameLine(l, k)
    PROVE  LineInv(r, k, e, g)
<1>1. q.next \in 1..(MaxCallbacks + 1)
    BY SlotsAre
<1>2. \A x \in Sent(l, e) : x < q.next
    BY DEF LineInv, SentInv
<1>3. LineInv(r, l, e, g)
    BY <1>1, <1>2, LineLowers
<1>4. Sent(k, e) = Sent(l, e)
    BY DEF Sent, SameLine
<1>5. SlotsInv(r)
    BY <1>3 DEF LineInv
<1>6. SentInv(r, k, e)
    BY <1>3, <1>4 DEF LineInv, SentInv, SameLine
<1>7. OrderInv(k, e)
    BY <1>3 DEF LineInv, OrderInv, SameLine
<1>8. CoverInv(r, k, e, g)
    BY <1>3, <1>4 DEF LineInv, CoverInv
<1> QED BY <1>5, <1>6, <1>7, <1>8 DEF LineInv

(* What the coordinator does to the queue when it fails or stops. It takes *)
(* no slots and tells nobody.                                              *)
Told(q, r) == r.wake = q.wake /\ r.posted = q.posted /\ r.deaf = q.deaf

(* RecordCoordinatorFailure sets a cutoff, and the observer is told.       *)
LEMMA QueueFails ==
    ASSUME NEW q \in Queue
    PROVE  /\ RecordCoordinatorFailure(q) \in Queue
           /\ Lowers(q, RecordCoordinatorFailure(q), q.next)
           /\ RecordCoordinatorFailure(q).cutoff # 0
           /\ RecordCoordinatorFailure(q).phase # "Running"
           /\ Told(q, RecordCoordinatorFailure(q))
<1>1. q.next \in 1..(MaxCallbacks + 1)
    BY SlotsAre
<1> QED BY <1>1, EmergencyLowers DEF RecordCoordinatorFailure, Told, Lowers

(* EnsureStopping closes the queue and leaves the cutoff alone.            *)
LEMMA QueueStops ==
    ASSUME NEW q \in Queue
    PROVE  /\ EnsureStopping(q) \in Queue
           /\ EnsureStopping(q).phase = "Stopping"
           /\ EnsureStopping(q).cutoff = q.cutoff
           /\ EnsureStopping(q).next = q.next
           /\ Lowers(q, EnsureStopping(q), q.next)
           /\ Told(q, EnsureStopping(q))
<1> DEFINE r == EnsureStopping(q)
<1>1. /\ r.slots = q.slots /\ r.next = q.next /\ r.inFlight = q.inFlight
      /\ r.cutoff = q.cutoff /\ r.phase = "Stopping"
      /\ r.wake = q.wake /\ r.posted = q.posted /\ r.deaf = q.deaf
    BY DEF EnsureStopping, Queue
<1>2. r \in Queue
    BY DEF EnsureStopping, Queue
<1>3. q.cutoff \in Nat
    BY SlotsAre
<1> HIDE DEF r
<1> QED BY <1>1, <1>2, <1>3 DEF Lowers, Told, r

(* Both at once, as every failure of the loop calls them.                  *)
LEMMA QueueStopsAndFails ==
    ASSUME NEW q \in Queue
    PROVE  LET r == RecordCoordinatorFailure(EnsureStopping(q))
           IN  /\ r \in Queue /\ Lowers(q, r, q.next) /\ r.cutoff # 0
               /\ r.phase = "Stopping" /\ Told(q, r)
<1> DEFINE s == EnsureStopping(q)
           r == RecordCoordinatorFailure(s)
<1>1. /\ s \in Queue /\ Lowers(q, s, q.next) /\ s.next = q.next
      /\ s.phase = "Stopping" /\ Told(q, s)
    BY QueueStops
<1> HIDE DEF s
<1>2. r \in Queue /\ Lowers(s, r, s.next) /\ r.cutoff # 0 /\ Told(s, r)
    BY <1>1, QueueFails
<1> HIDE DEF r
<1>3. Lowers(q, r, q.next)
    BY <1>1, <1>2, LowersTwice
<1> QED BY <1>1, <1>2, <1>3 DEF Lowers, Told, r, s

(* An event that fails sets the cutoff, and what comes behind it is        *)
(* dropped.                                                                *)
LEMMA LineFails ==
    ASSUME NEW q \in Queue, NEW l \in Loop, NEW e \in Seq(Sequences), NEW g,
           LineInv(q, l, e, g), NEW n \in Sent(l, e),
           \A i \in DOMAIN e : e[i] < n,
           \A j \in DOMAIN l.backlog : n <= l.backlog[j].sequence,
           l.pending # 0 => n <= l.pending,
           NEW k \in Loop,
           k.backlog = <<>>, k.pending = 0, k.fatal = n
    PROVE  /\ Lowers(q, RecordEventFailure(q, n), n)
           /\ RecordEventFailure(q, n).cutoff # 0
           /\ RecordEventFailure(q, n).phase # "Running"
           /\ Told(q, RecordEventFailure(q, n))
           /\ LineInv(RecordEventFailure(q, n), k, e, g)
<1> DEFINE r == RecordEventFailure(q, n)
<1>1. /\ n \in Int /\ n \in 1..MaxCallbacks /\ n \in 1..(MaxCallbacks + 1)
      /\ n < q.next /\ BeforeCutoff(q, n)
      /\ \A i \in DOMAIN q.slots : n < q.slots[i].sequence
    BY SentTyped, BoundsAssumption DEF LineInv, SentInv, Sequences
<1>2. r = RecordEmergency(q, n)
    BY <1>1 DEF RecordEventFailure
<1> HIDE DEF r
<1>3. /\ Lowers(q, r, n) /\ r.cutoff # 0 /\ r.cutoff <= n /\ Told(q, r)
      /\ r.phase # "Running"
    BY <1>1, <1>2, EmergencyLowers DEF Told
<1>4. q.cutoff \in Nat /\ r \in Queue /\ r.next = q.next /\ r.slots = q.slots
    BY <1>3, SlotsAre DEF Lowers
<1>5. r.cutoff = n
    BY <1>1, <1>3, <1>4 DEF Lowers, BeforeCutoff, Emergency
<1>6. \A x : x \in Sent(k, e) <=> \E i \in DOMAIN e : e[i] = x
    <2>1. DOMAIN k.backlog = {}
        OBVIOUS
    <2> QED BY <2>1, SentIs
<1>7. \A x \in Sent(k, e) : x \in Sent(l, e) /\ x < n
    BY <1>6, SentIs
<1>8. \A x \in Int : BeforeCutoff(r, x) <=> x < n
    BY <1>1, <1>5 DEF BeforeCutoff, Emergency
<1>9. \A x \in Int : BeforeCutoff(r, x) => BeforeCutoff(q, x)
    BY <1>1, <1>4, <1>8 DEF BeforeCutoff, Emergency
<1>10. SlotsInv(r)
    <2>1. \A x \in {n} : x < q.next
        BY <1>1
    <2>2. LineInv(r, l, e, g) \/ SlotsInv(r)
        <3>1. \A i \in DOMAIN q.slots : q.slots[i].sequence \in Int
            BY SlotsAre
        <3>2. r.inFlight = q.inFlight
            BY <1>3 DEF Lowers
        <3> QED BY <1>4, <1>9, <3>1, <3>2 DEF LineInv, SlotsInv, PendingSequences
    <2> QED BY <2>2 DEF LineInv
<1>11. SentInv(r, k, e)
    <2>1. ASSUME NEW x \in Sent(k, e)
          PROVE  /\ x < r.next /\ BeforeCutoff(r, x)
                 /\ \A i \in DOMAIN r.slots : x < r.slots[i].sequence
        <3>1. x \in Sent(l, e) /\ x < n /\ x \in Int
            BY <1>7, SentTyped
        <3> QED BY <1>4, <1>8, <3>1 DEF LineInv, SentInv
    <2>2. /\ Emergency(r) /\ r.cutoff <= n /\ n < r.next
          /\ \A i \in DOMAIN r.slots : n < r.slots[i].sequence
        BY <1>1, <1>3, <1>4 DEF Emergency
    <2> QED BY <2>1, <2>2 DEF SentInv
<1>12. OrderInv(k, e)
    <2>1. DOMAIN k.backlog = {}
        OBVIOUS
    <2> QED BY <2>1 DEF LineInv, OrderInv
<1>13. CoverInv(r, k, e, g)
    <2> SUFFICES ASSUME NEW x \in Sequences, x < r.next, BeforeCutoff(r, x)
                 PROVE  x \in g \/ x \in Sent(k, e)
        BY DEF CoverInv
    <2>1. x \in Int /\ x < n /\ x < q.next /\ BeforeCutoff(q, x)
        BY <1>4, <1>8, <1>9, BoundsAssumption DEF Sequences
    <2>2. ASSUME NEW i \in DOMAIN q.slots, q.slots[i].sequence = x
          PROVE  FALSE
        BY <1>1, <2>1, <2>2
    <2>3. CASE x \in Sent(l, e)
        <3>1. \A j \in DOMAIN l.backlog : l.backlog[j].sequence # x
            BY <1>1, <2>1
        <3>2. l.pending # 0 => l.pending # x
            BY <1>1, <2>1
        <3> QED BY <1>6, <2>3, <3>1, <3>2, SentIs
    <2> QED BY <2>1, <2>2, <2>3 DEF LineInv, CoverInv
<1> QED BY <1>3, <1>10, <1>11, <1>12, <1>13 DEF r, LineInv

(* The first event of the backlog.                                         *)
LEMMA TailIs ==
    ASSUME NEW s \in Seq(Envelope), s # <<>>
    PROVE  /\ Len(s) \in Nat /\ Len(s) >= 1 /\ DOMAIN s = 1..Len(s)
           /\ Head(s) = s[1] /\ s[1] \in Envelope
           /\ Tail(s) \in Seq(Envelope) /\ DOMAIN Tail(s) = 1..(Len(s) - 1)
           /\ \A i \in 1..(Len(s) - 1) : Tail(s)[i] = s[i + 1]
OBVIOUS

(* The head of a backlog is an envelope that has been sent on.             *)
LEMMA HeadIs ==
    ASSUME NEW l \in Loop, NEW e \in Seq(Sequences), l.backlog # <<>>
    PROVE  /\ Head(l.backlog) \in Envelope
           /\ Head(l.backlog).sequence \in Sequences
           /\ Head(l.backlog).sequence \in Int
           /\ Head(l.backlog).sequence # 0
           /\ Head(l.backlog).sequence \in Sent(l, e)
           /\ Tail(l.backlog) \in Seq(Envelope)
<1>1. l.backlog \in Seq(Envelope)
    BY DEF Loop
<1>2. Head(l.backlog) = l.backlog[1] /\ l.backlog[1] \in Envelope /\ 1 \in DOMAIN l.backlog
      /\ Tail(l.backlog) \in Seq(Envelope)
    BY <1>1, TailIs
<1>3. l.backlog[1].sequence \in Sent(l, e)
    BY <1>2, SentIs
<1> QED BY <1>2, <1>3, BoundsAssumption DEF Envelope, Sequences

(* The events behind the first one are later.                              *)
LEMMA HeadIsFirst ==
    ASSUME NEW l \in Loop, NEW e \in Seq(Sequences), OrderInv(l, e),
           l.backlog # <<>>, l.pending = 0
    PROVE  LET n == Head(l.backlog).sequence
           IN  /\ \A i \in DOMAIN e : e[i] < n
               /\ \A j \in DOMAIN l.backlog : n <= l.backlog[j].sequence
               /\ \A j \in DOMAIN Tail(l.backlog) : n < Tail(l.backlog)[j].sequence
               /\ \A i, j \in DOMAIN Tail(l.backlog) : i < j =>
                     Tail(l.backlog)[i].sequence < Tail(l.backlog)[j].sequence
               /\ \A x : (\E i \in DOMAIN l.backlog : l.backlog[i].sequence = x) <=>
                           \/ x = n
                           \/ \E i \in DOMAIN Tail(l.backlog) :
                                 Tail(l.backlog)[i].sequence = x
<1> DEFINE s == l.backlog
           t == Tail(l.backlog)
           N == Len(s)
<1>1. s \in Seq(Envelope)
    BY DEF Loop
<1>2. /\ N \in Nat /\ N >= 1 /\ DOMAIN s = 1..N /\ Head(s) = s[1] /\ s[1] \in Envelope
      /\ DOMAIN t = 1..(N - 1) /\ \A i \in 1..(N - 1) : t[i] = s[i + 1]
    BY <1>1, TailIs
<1>3. /\ \A i, j \in 1..N : i < j => s[i].sequence < s[j].sequence
      /\ \A i \in DOMAIN e, j \in 1..N : e[i] < s[j].sequence
    BY <1>2 DEF OrderInv
<1>4. s[1].sequence \in Int
    BY <1>2, BoundsAssumption DEF Envelope
<1>5. Head(l.backlog) = s[1]
    BY <1>2
<1> HIDE DEF s, t, N
<1>6. \A j \in 1..N : j = 1 \/ (j - 1 \in 1..(N - 1) /\ (j - 1) + 1 = j /\ 1 < j)
    BY <1>2
<1>7. \A j \in 1..(N - 1) : j + 1 \in 1..N /\ 1 < j + 1
    BY <1>2
<1>8. 1 \in 1..N
    BY <1>2
<1>9. \A i \in DOMAIN e : e[i] < s[1].sequence
    BY <1>3, <1>8
<1>10. \A j \in 1..N : s[1].sequence <= s[j].sequence
    <2> SUFFICES ASSUME NEW j \in 1..N
                 PROVE  s[1].sequence <= s[j].sequence
        OBVIOUS
    <2>1. CASE j = 1
        BY <1>4, <2>1
    <2>2. CASE j # 1
        <3>1. s[1].sequence < s[j].sequence
            BY <1>3, <1>6, <1>8, <2>2
        <3>2. \A i \in 1..N : s[i] \in Envelope
            BY <1>1, <1>2, ElementOfSeq
        <3>3. s[j].sequence \in Int
            BY <3>2, BoundsAssumption DEF Envelope
        <3> QED BY <1>4, <3>1, <3>3
    <2> QED BY <2>1, <2>2
<1>11. \A j \in 1..(N - 1) : s[1].sequence < t[j].sequence
    BY <1>2, <1>3, <1>7, <1>8
<1>12. \A i, j \in 1..(N - 1) : i < j => t[i].sequence < t[j].sequence
    BY <1>2, <1>3, <1>7
<1>13. \A x : (\E i \in 1..N : s[i].sequence = x) <=>
                  x = s[1].sequence \/ \E i \in 1..(N - 1) : t[i].sequence = x
    <2> SUFFICES ASSUME NEW x
                 PROVE  (\E i \in 1..N : s[i].sequence = x) <=>
                            x = s[1].sequence \/ \E i \in 1..(N - 1) : t[i].sequence = x
        OBVIOUS
    <2>1. ASSUME NEW i \in 1..N, s[i].sequence = x
          PROVE  x = s[1].sequence \/ \E j \in 1..(N - 1) : t[j].sequence = x
        BY <1>2, <1>6, <2>1
    <2>2. ASSUME NEW i \in 1..(N - 1), t[i].sequence = x
          PROVE  \E j \in 1..N : s[j].sequence = x
        BY <1>2, <1>7, <2>2
    <2> QED BY <1>8, <2>1, <2>2
<1> QED BY <1>2, <1>5, <1>9, <1>10, <1>11, <1>12, <1>13 DEF s, t

(* The first event waits for the worker: it counts as before.              *)
LEMMA LineWaits ==
    ASSUME NEW q \in Queue, NEW l \in Loop, NEW e \in Seq(Sequences), NEW g,
           LineInv(q, l, e, g), l.backlog # <<>>, l.pending = 0,
           NEW k \in Loop, k.fatal = l.fatal,
           k.backlog = Tail(l.backlog), k.pending = Head(l.backlog).sequence
    PROVE  LineInv(q, k, e, g)
<1> DEFINE n == Head(l.backlog).sequence
           t == Tail(l.backlog)
<1>1. /\ \A i \in DOMAIN e : e[i] < n
      /\ \A j \in DOMAIN t : n < t[j].sequence
      /\ \A i, j \in DOMAIN t : i < j => t[i].sequence < t[j].sequence
      /\ \A x : (\E i \in DOMAIN l.backlog : l.backlog[i].sequence = x) <=>
                  x = n \/ \E i \in DOMAIN t : t[i].sequence = x
    BY HeadIsFirst DEF LineInv
<1>2. n # 0
    BY HeadIs
<1>3. k.backlog = t /\ k.pending = n /\ k.fatal = l.fatal
    OBVIOUS
<1> HIDE DEF n, t
<1>4. Sent(k, e) = Sent(l, e)
    <2>1. \A x : x \in Sent(k, e) <=>
              \/ \E i \in DOMAIN e : e[i] = x
              \/ \E i \in DOMAIN t : t[i].sequence = x
              \/ n = x
        BY <1>2, <1>3, SentIs
    <2>2. \A x : x \in Sent(l, e) <=>
              \/ \E i \in DOMAIN e : e[i] = x
              \/ \E i \in DOMAIN l.backlog : l.backlog[i].sequence = x
        BY SentIs
    <2>3. \A x : x \in Sent(k, e) <=> x \in Sent(l, e)
        BY <1>1, <2>1, <2>2
    <2> QED BY <2>3
<1>5. SentInv(q, k, e)
    BY <1>3, <1>4 DEF LineInv, SentInv
<1>6. OrderInv(k, e)
    <2>1. \A i \in DOMAIN e : \A j \in DOMAIN t : e[i] < t[j].sequence
        <3> SUFFICES ASSUME NEW i \in DOMAIN e, NEW j \in DOMAIN t
                     PROVE  e[i] < t[j].sequence
            OBVIOUS
        <3>1. PICK h \in DOMAIN l.backlog : l.backlog[h].sequence = t[j].sequence
            BY <1>1
        <3> QED BY <3>1 DEF LineInv, OrderInv
    <2>2. \A i, j \in DOMAIN e : i < j => e[i] < e[j]
        BY DEF LineInv, OrderInv
    <2> QED BY <1>1, <1>3, <2>1, <2>2 DEF OrderInv
<1>7. CoverInv(q, k, e, g)
    BY <1>4 DEF LineInv, CoverInv
<1> QED BY <1>5, <1>6, <1>7 DEF LineInv

(* What waits is recorded behind all that was.                             *)
LEMMA LineRecords ==
    ASSUME NEW q \in Queue, NEW l \in Loop, NEW e \in Seq(Sequences), NEW g,
           LineInv(q, l, e, g), l.pending # 0,
           NEW k \in Loop, k.fatal = l.fatal,
           k.backlog = l.backlog, k.pending = 0
    PROVE  /\ Append(e, l.pending) \in Seq(Sequences)
           /\ LineInv(q, k, Append(e, l.pending), g)
<1> DEFINE n == l.pending
           f == Append(e, n)
           N == Len(e)
<1>1. n \in Sequences /\ n # 0
    BY BoundsAssumption DEF Loop, Sequences
<1> HIDE DEF n
<1>2. /\ f \in Seq(Sequences) /\ N \in Nat /\ DOMAIN e = 1..N
      /\ DOMAIN f = 1..(N + 1) /\ f[N + 1] = n
      /\ \A i \in 1..N : f[i] = e[i]
    BY <1>1
<1>3. /\ \A i \in 1..(N + 1) : i \in 1..N \/ i = N + 1
      /\ \A i \in 1..N : i \in 1..(N + 1)
      /\ N + 1 \in 1..(N + 1)
    BY <1>2
<1>4. k.backlog = l.backlog /\ k.pending = 0 /\ k.fatal = l.fatal
    OBVIOUS
<1> HIDE DEF f
<1>5. \A x : (\E i \in DOMAIN f : f[i] = x) <=> (\E i \in DOMAIN e : e[i] = x) \/ x = n
    BY <1>2, <1>3
<1>6. Sent(k, f) = Sent(l, e)
    <2>1. \A x : x \in Sent(k, f) <=>
              \/ \E i \in DOMAIN f : f[i] = x
              \/ \E i \in DOMAIN l.backlog : l.backlog[i].sequence = x
        BY <1>2, <1>4, SentIs
    <2>2. \A x : x \in Sent(l, e) <=>
              \/ \E i \in DOMAIN e : e[i] = x
              \/ \E i \in DOMAIN l.backlog : l.backlog[i].sequence = x
              \/ n = x
        BY <1>1, SentIs DEF n
    <2>3. \A x : x \in Sent(k, f) <=> x \in Sent(l, e)
        BY <1>5, <2>1, <2>2
    <2> QED BY <2>3
<1>7. SentInv(q, k, f)
    BY <1>4, <1>6 DEF LineInv, SentInv
<1>8. OrderInv(k, f)
    <2>1. /\ \A i, j \in 1..N : i < j => e[i] < e[j]
          /\ \A i \in 1..N : e[i] < n
          /\ \A i \in 1..N, j \in DOMAIN l.backlog : e[i] < l.backlog[j].sequence
          /\ \A j \in DOMAIN l.backlog : n < l.backlog[j].sequence
          /\ \A i, j \in DOMAIN l.backlog :
                i < j => l.backlog[i].sequence < l.backlog[j].sequence
        BY <1>2 DEF LineInv, OrderInv, n
    <2>2. \A i, j \in 1..(N + 1) : i < j => f[i] < f[j]
        <3> SUFFICES ASSUME NEW i \in 1..(N + 1), NEW j \in 1..(N + 1), i < j
                     PROVE  f[i] < f[j]
            OBVIOUS
        <3>1. i \in 1..N
            BY <1>2
        <3> QED BY <1>2, <1>3, <2>1, <3>1
    <2>3. \A i \in 1..(N + 1), j \in DOMAIN l.backlog : f[i] < l.backlog[j].sequence
        BY <1>2, <1>3, <2>1
    <2> QED BY <1>2, <1>4, <2>1, <2>2, <2>3 DEF OrderInv
<1>9. CoverInv(q, k, f, g)
    BY <1>6 DEF LineInv, CoverInv
<1> QED BY <1>2, <1>7, <1>8, <1>9 DEF LineInv, f, n

(* The first event is ignored.                                             *)
LEMMA LineIgnores ==
    ASSUME NEW q \in Queue, NEW l \in Loop, NEW e \in Seq(Sequences), NEW g,
           LineInv(q, l, e, g), l.backlog # <<>>, l.pending = 0,
           NEW k \in Loop, k.fatal = l.fatal,
           k.backlog = Tail(l.backlog), k.pending = 0
    PROVE  LineInv(q, k, e, g \cup {Head(l.backlog).sequence})
<1> DEFINE n == Head(l.backlog).sequence
           t == Tail(l.backlog)
<1>1. /\ \A i, j \in DOMAIN t : i < j => t[i].sequence < t[j].sequence
      /\ \A x : (\E i \in DOMAIN l.backlog : l.backlog[i].sequence = x) <=>
                  x = n \/ \E i \in DOMAIN t : t[i].sequence = x
    BY HeadIsFirst DEF LineInv
<1>2. k.backlog = t /\ k.pending = 0 /\ k.fatal = l.fatal
    OBVIOUS
<1> HIDE DEF n, t
<1>3. \A x : x \in Sent(k, e) <=>
          \/ \E i \in DOMAIN e : e[i] = x
          \/ \E i \in DOMAIN t : t[i].sequence = x
    BY <1>2, SentIs
<1>4. \A x : x \in Sent(l, e) <=>
          \/ \E i \in DOMAIN e : e[i] = x
          \/ \E i \in DOMAIN l.backlog : l.backlog[i].sequence = x
    BY SentIs
<1>5. /\ \A x \in Sent(k, e) : x \in Sent(l, e)
      /\ \A x \in Sent(l, e) : x \in Sent(k, e) \/ x = n
    BY <1>1, <1>3, <1>4
<1>6. SentInv(q, k, e)
    BY <1>2, <1>5 DEF LineInv, SentInv
<1>7. OrderInv(k, e)
    <2>1. \A i \in DOMAIN e : \A j \in DOMAIN t : e[i] < t[j].sequence
        <3> SUFFICES ASSUME NEW i \in DOMAIN e, NEW j \in DOMAIN t
                     PROVE  e[i] < t[j].sequence
            OBVIOUS
        <3>1. PICK h \in DOMAIN l.backlog : l.backlog[h].sequence = t[j].sequence
            BY <1>1
        <3> QED BY <3>1 DEF LineInv, OrderInv
    <2>2. \A i, j \in DOMAIN e : i < j => e[i] < e[j]
        BY DEF LineInv, OrderInv
    <2> QED BY <1>1, <1>2, <2>1, <2>2 DEF OrderInv
<1>8. CoverInv(q, k, e, g \cup {n})
    BY <1>5 DEF LineInv, CoverInv
<1> QED BY <1>6, <1>7, <1>8 DEF LineInv, n

(* What is drained comes ahead of what is left.                            *)
LEMMA DrainedAre ==
    ASSUME NEW q \in Queue, SlotsInv(q)
    PROVE  LET d == Drained(q)
               a == AfterDrain(q)
           IN  /\ d \in Seq(Envelope) /\ Len(d) \in Nat /\ DOMAIN d = 1..Len(d)
               /\ \A i \in 1..Len(d) :
                     /\ d[i].sequence \in 1..MaxCallbacks /\ d[i].sequence \in Int
                     /\ d[i].sequence < q.next
                     /\ BeforeCutoff(q, d[i].sequence)
                     /\ \E j \in DOMAIN q.slots : d[i].sequence = q.slots[j].sequence
                     /\ \A j \in DOMAIN a.slots : d[i].sequence < a.slots[j].sequence
               /\ \A i, j \in 1..Len(d) : i < j => d[i].sequence < d[j].sequence
               /\ \A j \in DOMAIN a.slots : \E h \in DOMAIN q.slots :
                     a.slots[j] = q.slots[h]
<1> DEFINE d == Drained(q)
           a == AfterDrain(q)
           N == Len(q.slots)
           R == Len(Ready(q))
           D == Len(d)
<1>1. /\ N \in Nat /\ DOMAIN q.slots = 1..N
      /\ \A i \in 1..N : q.slots[i].sequence < q.next
      /\ \A i, j \in 1..N : i < j => q.slots[i].sequence < q.slots[j].sequence
    BY SlotsAre DEF SlotsInv
<1>2. R \in 0..N
    BY ReadyIs
<1>3. Events(q, d, R)
    BY DrainedIs, <1>1
<1>4. a \in Queue /\ Len(a.slots) = N - R
      /\ \A i \in 1..(N - R) : a.slots[i] = q.slots[R + i]
    BY AfterDrainIs
<1> HIDE DEF d, a
<1>5. DOMAIN a.slots = 1..(N - R)
    BY <1>4, SlotsAre
<1>6. /\ d \in Seq(Envelope) /\ D \in Nat /\ DOMAIN d = 1..D
      /\ \A i \in 1..D : d[i] \in Envelope
    <2>1. d \in Seq(Envelope)
        BY <1>3 DEF Events
    <2> QED BY <2>1, ElementOfSeq
<1>7. \A i \in 1..D : d[i].sequence \in 1..MaxCallbacks /\ d[i].sequence \in Int
    BY <1>6, BoundsAssumption DEF Envelope
<1>8. \A i, j \in 1..D : i < j => d[i].sequence < d[j].sequence
    BY <1>3, <1>6 DEF Events
<1>9. \A j \in 1..(N - R) : R + j \in 1..N /\ \A h \in 1..R : h < R + j
    BY <1>1, <1>2
<1>10. \A h \in 1..R : h \in 1..N
    BY <1>1, <1>2
<1> HIDE DEF N, R, D
<1>11. ASSUME NEW i \in 1..D
       PROVE  /\ d[i].sequence < q.next
              /\ BeforeCutoff(q, d[i].sequence)
              /\ \E j \in 1..N : d[i].sequence = q.slots[j].sequence
              /\ \A j \in 1..(N - R) : d[i].sequence < a.slots[j].sequence
    <2>1. PICK h \in 1..R : /\ IsEvent(q, q.slots[h])
                            /\ d[i].sequence = q.slots[h].sequence
        BY <1>3, <1>6 DEF Events
    <2>2. \A j \in 1..(N - R) : q.slots[h].sequence < q.slots[R + j].sequence
        BY <1>1, <1>9, <1>10
    <2> QED BY <1>1, <1>4, <1>10, <2>1, <2>2 DEF IsEvent
<1>12. \A j \in 1..(N - R) : \E h \in 1..N : a.slots[j] = q.slots[h]
    BY <1>4, <1>9
<1>13. \A i \in 1..D :
          /\ d[i].sequence \in 1..MaxCallbacks /\ d[i].sequence \in Int
          /\ d[i].sequence < q.next
          /\ BeforeCutoff(q, d[i].sequence)
          /\ \E j \in DOMAIN q.slots : d[i].sequence = q.slots[j].sequence
          /\ \A j \in DOMAIN a.slots : d[i].sequence < a.slots[j].sequence
    BY <1>1, <1>5, <1>7, <1>11
<1> QED BY <1>1, <1>5, <1>6, <1>8, <1>12, <1>13 DEF D, d, a

(* All of the events are taken. After one that failed there are none left  *)
(* that would count.                                                       *)
LEMMA LineDrains ==
    ASSUME NEW q \in Queue, NEW l \in Loop, NEW e \in Seq(Sequences), NEW g,
           LineInv(q, l, e, g),
           NEW k \in Loop, k.pending = l.pending, k.fatal = l.fatal,
           k.backlog = IF l.fatal # 0 THEN l.backlog ELSE l.backlog \o Drained(q)
    PROVE  LineInv(AfterDrain(q), k, e, g \cup DrainedIgnored(q))
<1> DEFINE d == Drained(q)
           a == AfterDrain(q)
<1>1. /\ d \in Seq(Envelope) /\ Len(d) \in Nat /\ DOMAIN d = 1..Len(d)
      /\ \A i \in 1..Len(d) :
            /\ d[i].sequence \in Int /\ BeforeCutoff(q, d[i].sequence)
            /\ \E j \in DOMAIN q.slots : d[i].sequence = q.slots[j].sequence
      /\ \A j \in DOMAIN a.slots : \E h \in DOMAIN q.slots : a.slots[j] = q.slots[h]
    BY DrainedAre DEF LineInv
<1>2. /\ a.cutoff = q.cutoff /\ a.next = q.next /\ a \in Queue
      /\ q.cutoff \in Nat /\ l.fatal \in Int /\ q.next \in Int
    BY AfterDrainIs, SlotsAre DEF Loop
<1>3. l.backlog \in Seq(Envelope)
    BY DEF Loop
<1>4. Lowers(a, a, q.next)
    BY <1>2 DEF Lowers
<1> HIDE DEF d, a
<1>5. \A x : BeforeCutoff(a, x) <=> BeforeCutoff(q, x)
    BY <1>2 DEF BeforeCutoff, Emergency
<1>6. \A x \in Sent(l, e) : BeforeCutoff(a, x)
    BY <1>5 DEF LineInv, SentInv
<1>7. k.fatal # 0 =>
          /\ Emergency(a) /\ a.cutoff <= k.fatal /\ k.fatal < a.next
          /\ \A i \in DOMAIN a.slots : k.fatal < a.slots[i].sequence
    BY <1>1, <1>2 DEF LineInv, SentInv, Emergency
<1>8. ASSUME NEW m \in 0..Len(d),
             k.backlog = l.backlog \o SubSeq(d, 1, m),
             \A i \in DOMAIN d : BeforeCutoff(a, d[i].sequence) <=> i <= m
      PROVE  LineInv(a, k, e, g \cup DrainedIgnored(q))
    <2>1. Took(l, k, Drained(q), m)
        BY <1>8 DEF Took, d
    <2> QED BY <1>4, <1>6, <1>7, <1>8, <2>1, LineTakes DEF d, a
<1>9. CASE l.fatal # 0
    <2>1. \A i \in 1..Len(d) : FALSE
        BY <1>1, <1>2, <1>9 DEF LineInv, SentInv, BeforeCutoff, Emergency
    <2>2. Len(d) = 0
        BY <1>1, <2>1
    <2>3. SubSeq(d, 1, 0) = <<>>
        BY <1>1
    <2>4. l.backlog \o <<>> = l.backlog
        BY <1>3
    <2>5. k.backlog = l.backlog \o SubSeq(d, 1, 0)
        <3>1. k.backlog = l.backlog
            BY <1>9
        <3> QED BY <2>3, <2>4, <3>1, Zenon
    <2>6. 0 \in 0..Len(d) /\ DOMAIN d = {}
        BY <1>1, <2>2
    <2> QED BY <1>8, <2>5, <2>6, Zenon DEF a
<1>10. CASE l.fatal = 0
    <2>1. SubSeq(d, 1, Len(d)) = d
        BY <1>1
    <2>2. k.backlog = l.backlog \o SubSeq(d, 1, Len(d))
        <3>1. k.backlog = l.backlog \o d
            BY <1>10 DEF d
        <3> QED BY <2>1, <3>1, Zenon
    <2>3. Len(d) \in 0..Len(d)
        BY <1>1
    <2>4. \A i \in DOMAIN d : BeforeCutoff(a, d[i].sequence) <=> i <= Len(d)
        BY <1>1, <1>5
    <2> QED BY <1>8, <2>2, <2>3, <2>4, Zenon DEF a
<1> QED BY <1>9, <1>10 DEF a

(* The c-th fails: those ahead of it are taken.                            *)
LEMMA LineDrainsSome ==
    ASSUME NEW q \in Queue, NEW l \in Loop, NEW e \in Seq(Sequences), NEW g,
           LineInv(q, l, e, g), NEW c \in DOMAIN Drained(q), NEW n,
           n = Drained(q)[c].sequence,
           NEW k \in Loop, k.pending = l.pending, k.fatal = n,
           k.backlog = l.backlog \o SubSeq(Drained(q), 1, c - 1)
    PROVE  /\ Lowers(AfterDrain(q), RecordEventFailure(AfterDrain(q), n), n)
           /\ RecordEventFailure(AfterDrain(q), n).cutoff # 0
           /\ RecordEventFailure(AfterDrain(q), n).phase # "Running"
           /\ Told(AfterDrain(q), RecordEventFailure(AfterDrain(q), n))
           /\ n \in Sequences
           /\ LineInv(RecordEventFailure(AfterDrain(q), n), k, e,
                      g \cup DrainedIgnored(q))
<1> DEFINE d == Drained(q)
           a == AfterDrain(q)
           r == RecordEventFailure(a, n)
<1>1. /\ d \in Seq(Envelope) /\ Len(d) \in Nat /\ DOMAIN d = 1..Len(d)
      /\ \A i \in 1..Len(d) :
            /\ d[i].sequence \in 1..MaxCallbacks
            /\ d[i].sequence \in Int /\ BeforeCutoff(q, d[i].sequence)
            /\ d[i].sequence < q.next
            /\ \E j \in DOMAIN q.slots : d[i].sequence = q.slots[j].sequence
            /\ \A j \in DOMAIN a.slots : d[i].sequence < a.slots[j].sequence
      /\ \A i, j \in 1..Len(d) : i < j => d[i].sequence < d[j].sequence
    BY DrainedAre DEF LineInv
<1>2. /\ a.cutoff = q.cutoff /\ a.next = q.next /\ a \in Queue
      /\ q.cutoff \in Nat /\ q.next \in Int
    BY AfterDrainIs, SlotsAre
<1>3. c \in 1..Len(d) /\ n = d[c].sequence /\ k.backlog = l.backlog \o SubSeq(d, 1, c - 1)
    <2>1. c \in DOMAIN d
        OBVIOUS
    <2>2. c \in 1..Len(d)
        BY <1>1, <2>1, Zenon
    <2> QED BY <2>2, Zenon
<1> HIDE DEF d, a
<1>4. /\ n \in 1..MaxCallbacks /\ n \in 1..(MaxCallbacks + 1) /\ n \in Int
      /\ n < a.next /\ BeforeCutoff(q, n)
      /\ \A j \in DOMAIN a.slots : n < a.slots[j].sequence
      /\ \E j \in DOMAIN q.slots : n = q.slots[j].sequence
    <2> DEFINE x == d[c].sequence
    <2>1. /\ x \in 1..MaxCallbacks /\ x \in Int /\ BeforeCutoff(q, x) /\ x < q.next
          /\ \E j \in DOMAIN q.slots : x = q.slots[j].sequence
          /\ \A j \in DOMAIN a.slots : x < a.slots[j].sequence
        BY <1>1, <1>3, Zenon
    <2>2. n = x
        BY <1>3, Zenon
    <2> HIDE DEF x
    <2>3. x \in 1..(MaxCallbacks + 1) /\ x < a.next
        BY <1>2, <2>1, BoundsAssumption
    <2> QED BY <2>1, <2>2, <2>3, Zenon
<1>5. r = RecordEmergency(a, n)
    BY <1>4 DEF RecordEventFailure
<1> HIDE DEF r
<1>6. /\ Lowers(a, r, n) /\ r.cutoff # 0 /\ r.cutoff <= n /\ Told(a, r)
      /\ r.phase # "Running"
    BY <1>2, <1>4, <1>5, EmergencyLowers DEF Told
<1>7. r.cutoff = n /\ r \in Queue /\ r.next = a.next /\ r.slots = a.slots
    <2>1. r \in Queue /\ r.next = a.next /\ r.slots = a.slots
          /\ r.cutoff \in {a.cutoff, n}
        BY <1>6 DEF Lowers
    <2> QED BY <1>2, <1>4, <1>6, <2>1 DEF BeforeCutoff, Emergency
<1>8. \A x \in Int : BeforeCutoff(r, x) <=> x < n
    BY <1>4, <1>6, <1>7 DEF BeforeCutoff, Emergency
<1>9. \A x \in Sent(l, e) : BeforeCutoff(r, x)
    <2>1. \A x \in Sent(l, e) : x \in Int /\ x < n
        BY <1>4, SentTyped DEF LineInv, SentInv
    <2> QED BY <1>8, <2>1
<1>10. \A i \in DOMAIN d : BeforeCutoff(r, d[i].sequence) <=> i <= c - 1
    <2> SUFFICES ASSUME NEW i \in 1..Len(d)
                 PROVE  d[i].sequence < n <=> i <= c - 1
        BY <1>1, <1>8
    <2>1. i < c => d[i].sequence < n
        BY <1>1, <1>3
    <2>2. c < i => n < d[i].sequence
        BY <1>1, <1>3
    <2>3. i = c => n = d[i].sequence
        BY <1>3
    <2>4. i < c \/ c < i \/ i = c
        BY <1>1, <1>3
    <2> QED BY <1>1, <1>3, <1>4, <2>1, <2>2, <2>3, <2>4
<1>11. k.fatal # 0 =>
          /\ Emergency(r) /\ r.cutoff <= k.fatal /\ k.fatal < r.next
          /\ \A i \in DOMAIN r.slots : k.fatal < r.slots[i].sequence
    BY <1>4, <1>6, <1>7 DEF Emergency
<1>12. c - 1 \in 0..Len(d)
    BY <1>1, <1>3
<1>13. Took(l, k, d, c - 1)
    BY <1>3 DEF Took
<1>14. LineInv(r, k, e, g \cup DrainedIgnored(q))
    BY <1>6, <1>9, <1>10, <1>11, <1>12, <1>13, LineTakes DEF d, a
<1> QED BY <1>4, <1>6, <1>14 DEF r, a, Sequences

-----------------------------------------------------------------------------
(* The callbacks.                                                          *)

(* How often a signal fails.                                               *)
LEMMA FailingIs ==
    ASSUME NEW signal \in Signals
    PROVE  Failing(signal) \in Nat
BY DEF Signals, Failing

(* A fault is counted.                                                     *)
LEMMA FaultIs ==
    ASSUME faults \in Nat, NEW n \in Nat, Fault(n)
    PROVE  faults' \in Nat
BY DEF Fault

(* A callback that gets no slot fails the observation from the next event  *)
(* on.                                                                     *)
LEMMA RefusalIs ==
    ASSUME NEW q \in Queue, NEW signal \in Signals
    PROVE  LET r == SignalWake(RecordEmergency(q, q.next), q.next, signal)
           IN  /\ r \in Queue /\ Lowers(q, r, q.next) /\ Heard(r)
               /\ r.cutoff # 0 /\ r.phase # "Running"
<1> DEFINE s == RecordEmergency(q, q.next)
           r == SignalWake(s, q.next, signal)
<1>1. q.next \in 1..(MaxCallbacks + 1)
    BY SlotsAre
<1>2. Lowers(q, s, q.next) /\ s \in Queue /\ s.cutoff # 0 /\ s.phase # "Running"
    BY <1>1, EmergencyLowers DEF Lowers
<1> HIDE DEF s
<1>3. Lowers(s, r, q.next) /\ Heard(r)
    BY <1>1, <1>2, WakeLowers
<1> HIDE DEF r
<1>4. Lowers(q, r, q.next)
    BY <1>2, <1>3, LowersTwice
<1>5. r \in Queue /\ r.cutoff # 0 /\ r.phase # "Running"
    BY <1>2, <1>3 DEF Lowers
<1> QED BY <1>3, <1>4, <1>5 DEF r, s

(* What a callback may do to the queue q. While the queue stops, one that  *)
(* is still under way has its slot.                                        *)
Called(q, r) ==
    /\ r \in Queue
    /\ q.phase = "Stopping" => r.phase = "Stopping" /\ q.slots # <<>> /\ r.slots # <<>>
    /\ q.slots = <<>> /\ q.phase # "Running" => r.slots = <<>> /\ r.phase # "Running"
    /\ Emergency(q) => Emergency(r)
    /\ \/ Heard(r)
       \/ /\ Heard(q) => Heard(r)
          /\ r.cutoff = q.cutoff /\ (Ready(q) = <<>> => Ready(r) = <<>>)

(* A handler that ends publishes its slot and keeps the line.              *)
LEMMA HandlerEndsIs ==
    ASSUME queue \in Queue, loop \in Loop, events \in Seq(Sequences),
           faults \in Nat, LineInv(queue, loop, events, ignored),
           NEW outcomes, outcomes \subseteq SlotStates \ {"Pending"},
           HandlerEnds(outcomes)
    PROVE  /\ Called(queue, queue') /\ faults' \in Nat
           /\ LineInv(queue', loop, events, ignored)
<1>1. PICK n \in PendingSequences(queue), signal \in Signals, state \in outcomes :
          /\ Fault(Failing(signal))
          /\ queue' = Completed(queue, n, state, signal)
    BY DEF HandlerEnds
<1>2. faults' \in Nat
    BY <1>1, FailingIs, FaultIs
<1> DEFINE r == Completed(queue, n, state, signal)
<1>3. /\ r \in Queue /\ LineInv(r, loop, events, ignored) /\ Heard(r)
      /\ r.slots # <<>> /\ (queue.phase = "Stopping" => r.phase = "Stopping")
      /\ r.cutoff = 0 => queue.cutoff = 0
    BY LineCompleted
<1>4. queue.slots # <<>>
    BY DEF PendingSequences
<1>5. queue' = r
    BY <1>1
<1> HIDE DEF r
<1>6. Called(queue, r)
    BY <1>3, <1>4 DEF Called, Emergency
<1> QED BY <1>2, <1>3, <1>5, <1>6

(* A callback that is refused keeps the line.                              *)
LEMMA AdmitRefusesIs ==
    ASSUME queue \in Queue, loop \in Loop, events \in Seq(Sequences),
           faults \in Nat, LineInv(queue, loop, events, ignored),
           AdmitRefuses
    PROVE  /\ Called(queue, queue') /\ faults' \in Nat
           /\ LineInv(queue', loop, events, ignored)
<1>1. PICK signal \in Signals :
          /\ queue.phase # "Stopping"
          /\ Fault(1 + Failing(signal)) \/ Fault(Failing(signal))
          /\ queue' = SignalWake(RecordEmergency(queue, queue.next), queue.next, signal)
    BY DEF AdmitRefuses, ReserveFails, AdmitEarly
<1>2. faults' \in Nat
    <2>1. Failing(signal) \in Nat /\ 1 + Failing(signal) \in Nat
        BY FailingIs
    <2> QED BY <1>1, <2>1, FaultIs
<1> DEFINE r == SignalWake(RecordEmergency(queue, queue.next), queue.next, signal)
<1>3. /\ r \in Queue /\ Lowers(queue, r, queue.next) /\ Heard(r)
      /\ r.cutoff # 0 /\ r.phase # "Running"
    BY RefusalIs
<1>4. queue' = r
    BY <1>1
<1> HIDE DEF r
<1>5. LineInv(r, loop, events, ignored)
    <2>1. SameLine(loop, loop)
        BY DEF SameLine
    <2> QED BY <1>3, <2>1, LineKeeps
<1>6. Called(queue, r)
    BY <1>1, <1>3 DEF Called, Emergency, Lowers
<1> QED BY <1>2, <1>4, <1>5, <1>6

(* A callback that is admitted takes the next sequence number.             *)
LEMMA AdmitTakesSlotIs ==
    ASSUME queue \in Queue, loop \in Loop, events \in Seq(Sequences),
           faults \in Nat, LineInv(queue, loop, events, ignored),
           AdmitTakesSlot
    PROVE  /\ Called(queue, queue') /\ faults' \in Nat
           /\ LineInv(queue', loop, events, ignored)
<1>1. /\ queue.phase = "Running" /\ queue.next <= MaxCallbacks
      /\ queue' = Reserve(queue) /\ faults' = faults
    BY DEF AdmitTakesSlot, NoFault
<1> DEFINE r == Reserve(queue)
<1>2. /\ r \in Queue /\ LineInv(r, loop, events, ignored)
      /\ r.cutoff = queue.cutoff
      /\ Heard(queue) => Heard(r)
      /\ Ready(queue) = <<>> => Ready(r) = <<>>
    BY <1>1, LineReserve
<1> HIDE DEF r
<1>3. Called(queue, r)
    BY <1>1, <1>2 DEF Called, Emergency
<1> QED BY <1>1, <1>2, <1>3 DEF r

(* A sink, which takes and completes its slot at once, keeps the line.     *)
LEMMA SinkInvokeIs ==
    ASSUME queue \in Queue, loop \in Loop, events \in Seq(Sequences),
           faults \in Nat, LineInv(queue, loop, events, ignored),
           SinkInvoke
    PROVE  /\ Called(queue, queue') /\ faults' \in Nat
           /\ LineInv(queue', loop, events, ignored)
<1>1. CASE AdmitRefuses
    BY <1>1, AdmitRefusesIs
<1>2. CASE ~AdmitRefuses
    <2>1. PICK signal \in Signals, state \in SinkOutcomes :
             /\ queue.phase = "Running" /\ queue.next <= MaxCallbacks
             /\ Fault(Failing(signal))
             /\ queue' = Completed(Reserve(queue), queue.next, state, signal)
        BY <1>2 DEF SinkInvoke
    <2>2. faults' \in Nat
        BY <2>1, FailingIs, FaultIs
    <2> DEFINE s == Reserve(queue)
               n == queue.next
               r == Completed(s, n, state, signal)
    <2>3. /\ s \in Queue /\ LineInv(s, loop, events, ignored)
          /\ n \in PendingSequences(s)
          /\ s.cutoff = queue.cutoff
        BY <2>1, LineReserve
    <2>4. state \in SlotStates \ {"Pending"}
        BY DEF SinkOutcomes, SlotStates, Kinds
    <2> HIDE DEF s, n
    <2>5. /\ r \in Queue /\ LineInv(r, loop, events, ignored) /\ Heard(r)
          /\ r.cutoff = 0 => s.cutoff = 0
        BY <2>3, <2>4, LineCompleted
    <2>6. queue' = r
        BY <2>1 DEF s, n
    <2> HIDE DEF r
    <2>7. Called(queue, r)
        BY <2>1, <2>3, <2>5 DEF Called, Emergency
    <2> QED BY <2>2, <2>5, <2>6, <2>7
<1> QED BY <1>1, <1>2

(* Whatever a callback does, the queue has been called and the line holds. *)
LEMMA CallbackIs ==
    ASSUME queue \in Queue, loop \in Loop, events \in Seq(Sequences),
           faults \in Nat, LineInv(queue, loop, events, ignored),
           Callback
    PROVE  /\ Called(queue, queue') /\ faults' \in Nat
           /\ LineInv(queue', loop, events, ignored)
<1>1. CASE SinkInvoke
    BY <1>1, SinkInvokeIs
<1>2. CASE HandlerBegins
    BY <1>2, AdmitRefusesIs, AdmitTakesSlotIs DEF HandlerBegins
<1>3. CASE HandleAutomationEvent
    <2>1. SelectionOutcomes \subseteq SlotStates \ {"Pending"}
        BY DEF SelectionOutcomes, SlotStates, Kinds
    <2> QED BY <1>3, <2>1, HandlerEndsIs DEF HandleAutomationEvent
<1>4. CASE HandleStructureChangedEvent
    <2>1. StructureOutcomes \subseteq SlotStates \ {"Pending"}
        BY DEF StructureOutcomes, SlotStates, Kinds
    <2> QED BY <1>4, <2>1, HandlerEndsIs DEF HandleStructureChangedEvent
<1> QED BY <1>1, <1>2, <1>3, <1>4 DEF Callback

(* A callback preserves the invariant.                                     *)
LEMMA CallbackKeeps ==
    ASSUME ObserverInvariant, Callback
    PROVE  ObserverInvariant'
<1>1. TypeOK /\ LineInv(queue, loop, events, ignored)
    BY DEF ObserverInvariant
<1>2. /\ worker' = worker /\ shell' = shell /\ loop' = loop
      /\ runtime' = runtime /\ reducer' = reducer
      /\ events' = events /\ ignored' = ignored
    BY DEF Callback, log
<1>3. /\ Called(queue, queue') /\ faults' \in Nat
      /\ LineInv(queue', loop, events, ignored)
    BY <1>1, CallbackIs DEF TypeOK
<1>4. TypeOK'
    BY <1>1, <1>2, <1>3 DEF TypeOK, Called
<1>5. StartInv'
    BY <1>2, <1>3 DEF ObserverInvariant, StartInv, Down, At, Called
<1>6. ShellInv'
    BY <1>2 DEF ObserverInvariant, ShellInv
<1>7. WorkerInv(worker)'
    BY <1>2 DEF ObserverInvariant
<1>8. AwaitInv'
    BY <1>2 DEF ObserverInvariant, AwaitInv, Quiet, OnTheWay
<1>9. CleanInv'
    BY <1>2 DEF ObserverInvariant, CleanInv, NothingLeftUnsaid, At, Subscribed
<1>10. StopInv'
    <2>1. Settled /\ loop.stopping => FALSE
        BY <1>3 DEF ObserverInvariant, StopInv, Settled, IsQuiescent, Called
    <2> QED BY <1>2, <1>3, <2>1 DEF ObserverInvariant, StopInv, At, Called
<1>11. SleepInv'
    BY <1>2, <1>3 DEF ObserverInvariant, SleepInv, Called, Heard, Emergency
<1>12. LineInv(queue, loop, events, ignored)'
    BY <1>2, <1>3
<1> QED BY <1>4, <1>5, <1>6, <1>7, <1>8, <1>9, <1>10, <1>11, <1>12
        DEF ObserverInvariant

-----------------------------------------------------------------------------
(* The worker.                                                             *)

(* What the coordinator does to it.                                        *)
LEMMA StartIs ==
    ASSUME NEW w \in Worker, WorkerInv(w), w.phase = "Created"
    PROVE  /\ Start(w) \in Worker /\ WorkerInv(Start(w))
           /\ Start(w).phase = "Starting" /\ Quiet(Start(w))
           /\ Start(w).handlers = w.handlers
<1> DEFINE s == Start(w)
<1>1. /\ s.phase = "Starting" /\ s.next = w.next /\ s.commands = w.commands
      /\ s.working = w.working /\ s.responses = w.responses
      /\ s.terminal = w.terminal /\ s.signaled = w.signaled
      /\ s.handlers = w.handlers /\ s.cleanup = w.cleanup
    BY DEF Start, Worker
<1>2. s \in Worker
    BY DEF Start, Worker
<1> HIDE DEF s
<1>3. Quiet(w) /\ w.handlers = {}
    BY DEF WorkerInv
<1>4. Quiet(s)
    BY <1>1, <1>3 DEF Quiet
<1>5. WorkerInv(s)
    BY <1>1, <1>3, <1>4 DEF WorkerInv, Quiet, Single, Answers
<1> QED BY <1>1, <1>2, <1>4, <1>5 DEF s

(* A submitted command is the only one of the worker.                      *)
LEMMA SubmitIs ==
    ASSUME NEW w \in Worker, WorkerInv(w), MaySubmit(w), Quiet(w),
           NEW kind \in Commands, NEW target \in Targets
    PROVE  LET s == Submit(w, kind, target)
           IN  /\ s \in Worker /\ WorkerInv(s)
               /\ s.phase = "Running" /\ s.handlers = w.handlers
               /\ \E i \in DOMAIN s.commands : s.commands[i].id = w.next
               /\ w.next \in Nat /\ w.next # 0
<1> DEFINE c == [id |-> w.next, kind |-> kind, target |-> target]
           s == Submit(w, kind, target)
<1>1. w.next \in Nat /\ w.next # 0 /\ w.phase = "Running"
    BY DEF WorkerInv, MaySubmit, Worker
<1>2. c \in Command /\ c.id = w.next
    BY <1>1 DEF Command
<1>3. w.commands = <<>>
    BY DEF Quiet
<1> HIDE DEF c
<1>4. /\ s.commands = Append(<<>>, c) /\ s.phase = w.phase /\ s.next = w.next + 1
      /\ s.working = w.working /\ s.responses = w.responses
      /\ s.terminal = w.terminal /\ s.signaled = w.signaled
      /\ s.handlers = w.handlers /\ s.cleanup = w.cleanup
    BY <1>3 DEF Submit, Worker, c
<1>5. /\ Append(<<>>, c) \in Seq(Command) /\ Len(Append(<<>>, c)) = 1
      /\ DOMAIN Append(<<>>, c) = {1} /\ Append(<<>>, c)[1] = c
    BY <1>2
<1>6. s \in Worker
    <2>1. s = [w EXCEPT !.commands = Append(<<>>, c), !.next = w.next + 1]
        BY <1>3 DEF Submit, Worker, c
    <2>2. w.next + 1 \in Nat
        BY <1>1
    <2> DEFINE d == Append(<<>>, c)
    <2> HIDE DEF s, d
    <2> QED BY <1>5, <2>1, <2>2 DEF Worker, d
<1> HIDE DEF s
<1>7. Single(s)
    <2>1. s.responses = <<>> /\ s.terminal = NoResponse /\ s.working = NoResponse
        BY <1>4 DEF Quiet
    <2> QED BY <1>4, <1>5, <2>1 DEF Single, Answers
<1>8. ~Answers(s)
    BY <1>4 DEF Answers, Quiet
<1>9. WorkerInv(s)
    BY <1>1, <1>2, <1>4, <1>5, <1>7, <1>8 DEF WorkerInv, Quiet
<1> QED BY <1>1, <1>2, <1>4, <1>5, <1>6, <1>9 DEF s

(* An answer that is taken leaves the worker quiet.                        *)
LEMMA ConsumeIs ==
    ASSUME NEW w \in Worker, WorkerInv(w), Answers(w)
    PROVE  /\ Consume(w) \in Worker /\ WorkerInv(Consume(w)) /\ Quiet(Consume(w))
           /\ Consume(w).phase = w.phase /\ Consume(w).handlers = w.handlers
<1> DEFINE left == IF w.responses # <<>>
                   THEN [w EXCEPT !.responses = Tail(@)]
                   ELSE [w EXCEPT !.terminal = NoResponse]
           c == Consume(w)
<1>1. w.commands = <<>> /\ w.working = NoResponse
    BY DEF WorkerInv, Single
<1>2. /\ left \in Worker /\ left.responses = <<>> /\ left.terminal = NoResponse
      /\ left.commands = <<>> /\ left.working = NoResponse
      /\ left.phase = w.phase /\ left.next = w.next
      /\ left.handlers = w.handlers /\ left.cleanup = w.cleanup
    <2>1. CASE w.responses # <<>>
        <3>1. /\ w.responses \in Seq(Response) /\ Len(w.responses) <= 1
              /\ w.terminal = NoResponse
            BY <2>1 DEF Worker, WorkerInv, Single
        <3>2. Tail(w.responses) = <<>> /\ Tail(w.responses) \in Seq(Response)
            BY <2>1, <3>1
        <3>3. left = [w EXCEPT !.responses = Tail(w.responses)]
            BY <2>1
        <3> HIDE DEF left
        <3> QED BY <1>1, <3>1, <3>2, <3>3 DEF Worker
    <2>2. CASE w.responses = <<>>
        <3>1. left = [w EXCEPT !.terminal = NoResponse]
            BY <2>2
        <3>2. NoResponse \in Response
            BY DEF NoResponse, Response
        <3> HIDE DEF left
        <3> QED BY <1>1, <2>2, <3>1, <3>2 DEF Worker
    <2> QED BY <2>1, <2>2
<1>3. c = [left EXCEPT !.signaled = ~LastAnswer(w)]
    BY DEF Consume
<1> HIDE DEF left, c
<1>4. (~LastAnswer(w)) \in BOOLEAN
    BY DEF LastAnswer
<1>5. /\ c \in Worker /\ c.responses = <<>> /\ c.terminal = NoResponse
      /\ c.commands = <<>> /\ c.working = NoResponse
      /\ c.phase = w.phase /\ c.next = w.next
      /\ c.handlers = w.handlers /\ c.cleanup = w.cleanup
    BY <1>2, <1>3, <1>4 DEF Worker
<1>6. Quiet(c)
    BY <1>5 DEF Quiet
<1>7. WorkerInv(c)
    BY <1>5, <1>6 DEF WorkerInv, Quiet, Single, Answers
<1> QED BY <1>5, <1>6, <1>7 DEF c

(* The stop of the worker changes its phase only.                          *)
LEMMA BeginStoppingIs ==
    ASSUME NEW w \in Worker, WorkerInv(w)
    PROVE  LET s == BeginStopping(w)
           IN  /\ s \in Worker /\ WorkerInv(s) /\ s.handlers = w.handlers
               /\ s.phase = IF w.phase \in {"Starting", "Running"} THEN "Stopping"
                                                                   ELSE w.phase
               /\ s.commands = w.commands /\ s.working = w.working
               /\ s.responses = w.responses /\ s.terminal = w.terminal
               /\ s.cleanup = w.cleanup
<1> DEFINE s == BeginStopping(w)
<1>1. CASE w.phase \in {"Starting", "Running"}
    <2>1. /\ s \in Worker /\ s.phase = "Stopping" /\ s.next = w.next
          /\ s.commands = w.commands
          /\ s.working = w.working /\ s.responses = w.responses
          /\ s.terminal = w.terminal /\ s.signaled = w.signaled
          /\ s.handlers = w.handlers /\ s.cleanup = w.cleanup
        BY <1>1 DEF BeginStopping, Worker
    <2> HIDE DEF s
    <2>2. WorkerInv(s)
        BY <1>1, <2>1 DEF WorkerInv, Quiet, Single, Answers
    <2> QED BY <1>1, <2>1, <2>2 DEF s
<1>2. CASE w.phase \notin {"Starting", "Running"}
    BY <1>2 DEF BeginStopping
<1> QED BY <1>1, <1>2

(* What its own thread does to it. The answer to a command stays on its    *)
(* way.                                                                    *)
Places(w, id) ==
    \/ \E i \in DOMAIN w.commands : w.commands[i].id = id
    \/ w.working.id = id \/ w.terminal.id = id
    \/ \E i \in DOMAIN w.responses : w.responses[i].id = id

Worked(w, v) ==
    /\ v \in Worker /\ WorkerInv(v)
    /\ w.phase \notin {"Created", "Joined"} /\ v.phase \notin {"Created", "Starting"}
    /\ v.phase = "Running" => w.phase \in {"Starting", "Running"}
    /\ w.phase = "Starting" => /\ v.handlers = {} /\ Quiet(v)
                               /\ v.phase \in {"Running", "Joined"}
    /\ w.phase = "Running" => ~Quiet(w)
    /\ \A id \in Nat : id # 0 /\ Places(w, id) => Places(v, id)

(* How many of a worker's handlers may be stuck.                           *)
LEMMA HandlersCount ==
    ASSUME NEW left, left \subseteq Handlers
    PROVE  Cardinality(left) \in Nat
<1>1. IsFiniteSet(HandlerKinds)
    <2>1. IsFiniteSet({"selection"})
        BY FS_Singleton
    <2>2. IsFiniteSet({"selection"} \cup {"structure"})
        BY <2>1, FS_AddElement
    <2>3. HandlerKinds = {"selection"} \cup {"structure"}
        BY DEF HandlerKinds
    <2> QED BY <2>2, <2>3
<1>2. IsFiniteSet(Handlers)
    BY <1>1, TargetsAssumption, FS_Product DEF Handlers
<1> QED BY <1>2, FS_Subset, FS_CardinalityType

(* A merged status is good only if both statuses are.                      *)
LEMMA MergedIs ==
    ASSUME NEW first \in {"ok", "contract", "transport"},
           NEW second \in {"ok", "contract", "transport"}
    PROVE  /\ Merged(first, second) \in {"ok", "contract", "transport"}
           /\ Merged(first, second) = "ok" => first = "ok" /\ second = "ok"
BY DEF Merged

(* The start of the worker thread.                                         *)
LEMMA InitializeIs ==
    ASSUME worker \in Worker, WorkerInv(worker), faults \in Nat, Initialize
    PROVE  Worked(worker, worker') /\ faults' \in Nat
<1>1. worker.phase = "Starting" /\ Quiet(worker) /\ worker.handlers = {}
    BY DEF Initialize, WorkerInv
<1>2. faults' \in Nat
    BY DEF Initialize, NoFault, Fault
<1>3. /\ worker' \in Worker /\ worker'.phase \in {"Running", "Joined"}
      /\ worker'.next = worker.next
      /\ worker'.commands = worker.commands /\ worker'.working = worker.working
      /\ worker'.responses = worker.responses
      /\ worker'.terminal = worker.terminal
      /\ worker'.signaled = worker.signaled
      /\ worker'.handlers = worker.handlers
    <2>1. CASE worker' = [worker EXCEPT !.phase = "Running"]
        BY <2>1 DEF Worker
    <2>2. CASE worker' = [worker EXCEPT !.phase = "Joined", !.cleanup = "ok"]
        BY <2>2 DEF Worker
    <2> QED BY <2>1, <2>2 DEF Initialize
<1>4. Quiet(worker')
    BY <1>1, <1>3 DEF Quiet
<1>5. WorkerInv(worker')
    BY <1>1, <1>3, <1>4 DEF WorkerInv, Quiet, Single, Answers
<1>6. \A id : Places(worker, id) => Places(worker', id)
    BY <1>3 DEF Places
<1> QED BY <1>1, <1>2, <1>3, <1>4, <1>5, <1>6 DEF Worked

(* A command that is worked on becomes a response.                         *)
LEMMA AnswerIs ==
    ASSUME NEW w \in Worker, WorkerInv(w), w.phase \in {"Running", "Stopping"},
           w.working = NoResponse, w.commands # <<>>,
           NEW ok \in BOOLEAN,
           NEW v \in Worker,
           v.commands = Answer(w, Head(w.commands), ok).commands,
           v.working = Answer(w, Head(w.commands), ok).working,
           v.phase = w.phase, v.next = w.next, v.responses = w.responses,
           v.terminal = w.terminal, v.signaled = w.signaled,
           v.cleanup = w.cleanup
    PROVE  Worked(w, v)
<1> DEFINE c == Head(w.commands)
<1>1. /\ w.commands \in Seq(Command) /\ Len(w.commands) <= 1
      /\ ~Answers(w)
    BY DEF Worker, WorkerInv, Single
<1>2. /\ c = w.commands[1] /\ DOMAIN w.commands = {1} /\ Tail(w.commands) = <<>>
    BY <1>1
<1>3. c.id # 0
    BY <1>2 DEF WorkerInv
<1> HIDE DEF c
<1>4. /\ Answer(w, c, ok).commands = Tail(w.commands)
      /\ Answer(w, c, ok).working = [id |-> c.id, ok |-> ok]
    BY DEF Answer, Worker
<1>5. v.commands = <<>> /\ v.working = [id |-> c.id, ok |-> ok] /\ v.working.id = c.id
    <2>1. /\ v.commands = Answer(w, c, ok).commands
          /\ v.working = Answer(w, c, ok).working
        BY DEF c
    <2>2. v.commands = <<>> /\ v.working = [id |-> c.id, ok |-> ok]
        BY <1>2, <1>4, <2>1, Zenon
    <2>3. [id |-> c.id, ok |-> ok].id = c.id
        OBVIOUS
    <2> QED BY <2>2, <2>3, Zenon
<1>6. v.working # NoResponse
    BY <1>3, <1>5 DEF NoResponse
<1>7. ~Answers(v) /\ w.responses = <<>> /\ w.terminal = NoResponse
    <2>1. v.responses = w.responses /\ v.terminal = w.terminal
        OBVIOUS
    <2>2. w.responses = <<>> /\ w.terminal = NoResponse
        BY <1>1 DEF Answers
    <2> QED BY <2>1, <2>2, Zenon DEF Answers
<1>8. Single(v)
    BY <1>5, <1>7 DEF Single, WorkerInv
<1>9. WorkerInv(v)
    BY <1>3, <1>5, <1>6, <1>7, <1>8 DEF WorkerInv
<1>10. \A id : id # 0 /\ Places(w, id) => Places(v, id)
    BY <1>2, <1>5 DEF Places, NoResponse
<1>11. ~Quiet(w)
    BY DEF Quiet
<1> QED BY <1>9, <1>10, <1>11 DEF Worked

(* The worker takes its command.                                           *)
LEMMA ProcessIs ==
    ASSUME worker \in Worker, WorkerInv(worker), faults \in Nat, Process
    PROVE  Worked(worker, worker') /\ faults' \in Nat
<1> DEFINE c == Head(worker.commands)
<1>1. /\ worker.phase \in {"Running", "Stopping"}
      /\ worker.working = NoResponse /\ worker.commands # <<>>
      /\ AddTarget(c) \/ Reenumerate(c)
    BY DEF Process
<1>2. c \in Command /\ Tail(worker.commands) \in Seq(Command)
    <2>1. worker.commands \in Seq(Command)
        BY DEF Worker
    <2> QED BY <1>1, <2>1
<1> HIDE DEF c
<1>3. c.id \in Nat /\ c.target \in Targets
    BY <1>2 DEF Command
<1>4. ASSUME NEW ok \in BOOLEAN
      PROVE  LET v == Answer(worker, c, ok)
             IN  /\ v \in Worker
                 /\ v.phase = worker.phase /\ v.next = worker.next
                 /\ v.responses = worker.responses /\ v.terminal = worker.terminal
                 /\ v.signaled = worker.signaled /\ v.cleanup = worker.cleanup
                 /\ v.handlers = worker.handlers /\ v.rollback = worker.rollback
    <2>1. [id |-> c.id, ok |-> ok] \in Response
        BY <1>3 DEF Response
    <2> DEFINE t == Tail(worker.commands)
               r == [id |-> c.id, ok |-> ok]
    <2> HIDE DEF t, r
    <2>2. Answer(worker, c, ok) = [worker EXCEPT !.commands = t, !.working = r]
        BY DEF Answer, t, r
    <2>3. t \in Seq(Command) /\ r \in Response
        BY <1>2, <2>1 DEF t, r
    <2> QED BY <2>2, <2>3 DEF Worker
<1>5. ASSUME NEW ok \in BOOLEAN, NEW handlers, handlers \subseteq Handlers,
             NEW rollback \in {"ok", "contract", "transport"},
             worker' = [Answer(worker, c, ok) EXCEPT !.handlers = handlers,
                                                     !.rollback = rollback]
      PROVE  Worked(worker, worker')
    <2> DEFINE v == Answer(worker, c, ok)
    <2>1. /\ v \in Worker
          /\ v.phase = worker.phase /\ v.next = worker.next
          /\ v.responses = worker.responses /\ v.terminal = worker.terminal
          /\ v.signaled = worker.signaled /\ v.cleanup = worker.cleanup
        BY <1>4
    <2>2. worker' = [v EXCEPT !.handlers = handlers, !.rollback = rollback]
        BY <1>5
    <2> HIDE DEF v
    <2>3. /\ worker' \in Worker
          /\ worker'.commands = v.commands /\ worker'.working = v.working
          /\ worker'.phase = v.phase /\ worker'.next = v.next
          /\ worker'.responses = v.responses /\ worker'.terminal = v.terminal
          /\ worker'.signaled = v.signaled /\ worker'.cleanup = v.cleanup
        BY <1>5, <2>1, <2>2 DEF Worker
    <2> QED BY <1>1, <2>1, <2>3, AnswerIs DEF v, c
<1>6. worker.handlers \subseteq Handlers
      /\ worker.rollback \in {"ok", "contract", "transport"}
    BY DEF Worker
<1>7. ASSUME NEW ok \in BOOLEAN, worker' = Answer(worker, c, ok)
      PROVE  Worked(worker, worker')
    <2> DEFINE v == Answer(worker, c, ok)
    <2>1. /\ v \in Worker
          /\ v.handlers = worker.handlers /\ v.rollback = worker.rollback
        BY <1>4
    <2>2. worker' = v
        BY <1>7
    <2> HIDE DEF v
    <2>3. v = [v EXCEPT !.handlers = worker.handlers, !.rollback = worker.rollback]
        BY <2>1 DEF Worker
    <2> QED BY <1>5, <1>6, <2>2, <2>3 DEF v
<1>8. CASE AddTarget(c)
    <2>1. CASE NoFault /\ worker' = [Answer(worker, c, TRUE) EXCEPT
                              !.handlers = @ \cup ({c.target} \X HandlerKinds)]
        <3> DEFINE v == Answer(worker, c, TRUE)
                   h == worker.handlers \cup ({c.target} \X HandlerKinds)
        <3>1. h \subseteq Handlers
            BY <1>3, <1>6 DEF Handlers
        <3>2. v \in Worker /\ v.handlers = worker.handlers /\ v.rollback = worker.rollback
            BY <1>4
        <3>3. worker' = [v EXCEPT !.handlers = h]
            BY <2>1, <3>2
        <3> HIDE DEF v, h
        <3>4. worker' = [v EXCEPT !.handlers = h, !.rollback = worker.rollback]
            BY <3>2, <3>3 DEF Worker
        <3>5. Worked(worker, worker')
            BY <1>5, <1>6, <3>1, <3>4 DEF v
        <3> QED BY <2>1, <3>5 DEF NoFault
    <2>2. ASSUME NEW added \in {{}, {<<c.target, "selection">>},
                                {c.target} \X HandlerKinds},
                 NEW removal \in Removals(added),
                 Fault(1 + Cardinality(removal.left)),
                 worker' = [Answer(worker, c, FALSE) EXCEPT
                               !.handlers = @ \cup removal.left,
                               !.rollback = Merged(@, removal.status)]
          PROVE  Worked(worker, worker') /\ faults' \in Nat
        <3>1. removal.left \subseteq added
              /\ removal.status \in {"ok", "contract", "transport"}
            BY DEF Removals, Unclean
        <3>2. added \subseteq Handlers
            BY <1>3 DEF Handlers, HandlerKinds
        <3> DEFINE v == Answer(worker, c, FALSE)
                   h == worker.handlers \cup removal.left
                   b == Merged(worker.rollback, removal.status)
        <3>3. h \subseteq Handlers /\ b \in {"ok", "contract", "transport"}
            BY <1>6, <3>1, <3>2, MergedIs
        <3>4. v \in Worker /\ v.handlers = worker.handlers /\ v.rollback = worker.rollback
            BY <1>4
        <3>5. worker' = [v EXCEPT !.handlers = h, !.rollback = b]
            BY <2>2, <3>4
        <3>6. Cardinality(removal.left) \in Nat
            BY <3>1, <3>2, HandlersCount
        <3>7. faults' \in Nat
            <4>1. 1 + Cardinality(removal.left) \in Nat
                BY <3>6
            <4> QED BY <2>2, <4>1, FaultIs
        <3> HIDE DEF v, h, b
        <3>8. Worked(worker, worker')
            BY <1>5, <3>3, <3>5 DEF v
        <3> QED BY <3>7, <3>8
    <2> QED BY <1>8, <2>1, <2>2 DEF AddTarget
<1>9. CASE Reenumerate(c)
    <2>1. faults' \in Nat
        <3>1. NoFault \/ Fault(1)
            BY <1>9, Zenon DEF Reenumerate
        <3> QED BY <3>1 DEF NoFault, Fault
    <2>2. PICK ok \in BOOLEAN : worker' = Answer(worker, c, ok)
        BY <1>9 DEF Reenumerate
    <2> QED BY <1>7, <2>1, <2>2
<1> QED BY <1>1, <1>8, <1>9

(* The worker answers its command.                                         *)
LEMMA RespondIs ==
    ASSUME worker \in Worker, WorkerInv(worker), faults \in Nat, Respond
    PROVE  Worked(worker, worker') /\ faults' \in Nat
<1> DEFINE r == worker.working
           failed == [r EXCEPT !.ok = FALSE]
<1>1. /\ r \in Response /\ r # NoResponse /\ r.id # 0
      /\ worker.commands = <<>> /\ ~Answers(worker)
      /\ worker.phase \in {"Running", "Stopping"}
    <2>1. r \in Response /\ r # NoResponse /\ r.id # 0
        BY DEF Respond, WorkerInv, Worker
    <2>2. worker.commands = <<>> /\ ~Answers(worker)
        BY <2>1 DEF WorkerInv, Single
    <2>3. worker.phase \in {"Running", "Stopping"}
        BY <2>1 DEF WorkerInv, Quiet, Worker
    <2> QED BY <2>1, <2>2, <2>3
<1>2. failed \in Response /\ failed.id = r.id /\ failed # NoResponse
    <2>1. failed \in Response /\ failed.id = r.id
        BY <1>1 DEF Response
    <2> HIDE DEF failed, r
    <2> QED BY <1>1, <2>1 DEF NoResponse
<1>3. worker.responses = <<>> /\ worker.terminal = NoResponse
    BY <1>1 DEF Answers
<1>4. \A s \in Response : /\ Append(<<>>, s) \in Seq(Response)
                          /\ Len(Append(<<>>, s)) = 1 /\ Append(<<>>, s) # <<>>
                          /\ DOMAIN Append(<<>>, s) = {1} /\ Append(<<>>, s)[1] = s
    OBVIOUS
<1>5. NoResponse \in Response /\ NoResponse.id = 0
    BY DEF NoResponse, Response
<1> HIDE DEF r, failed
<1>6. ASSUME NEW s \in {r, failed},
             worker'.commands = <<>>, worker'.working = NoResponse,
             \/ worker'.responses = Append(<<>>, s) /\ worker'.terminal = NoResponse
             \/ worker'.responses = <<>> /\ worker'.terminal = s,
             worker'.phase \in {"Running", "Stopping"},
             worker'.phase = "Running" => worker'.signaled /\ worker.phase = "Running",
             worker'.next = worker.next, worker'.handlers = worker.handlers,
             worker' \in Worker
      PROVE  Worked(worker, worker')
    <2>1. s.id = r.id /\ s # NoResponse /\ s \in Response
        BY <1>1, <1>2, <1>6
    <2>2. Single(worker')
        <3> DEFINE t == Append(<<>>, s)
        <3>1. /\ Len(t) = 1 /\ t # <<>>
              /\ \/ worker'.responses = t /\ worker'.terminal = NoResponse
                 \/ worker'.responses = <<>> /\ worker'.terminal = s
            <4>1. Len(t) = 1 /\ t # <<>>
                BY <1>4, <2>1
            <4>2. \/ worker'.responses = t /\ worker'.terminal = NoResponse
                  \/ worker'.responses = <<>> /\ worker'.terminal = s
                BY <1>6, Zenon
            <4> QED BY <4>1, <4>2
        <3>2. worker'.commands = <<>> /\ worker'.working = NoResponse
            BY <1>6
        <3>3. Len(<<>>) = 0
            OBVIOUS
        <3> HIDE DEF t
        <3>4. Len(worker'.responses) <= 1 /\ Len(worker'.commands) <= 1
            <4>1. Len(worker'.commands) = 0
                BY <3>2, <3>3, Zenon
            <4>2. Len(worker'.responses) = 0 \/ Len(worker'.responses) = 1
                <5>1. CASE worker'.responses = t
                    BY <3>1, <5>1, Zenon
                <5>2. CASE worker'.responses = <<>>
                    BY <3>3, <5>2, Zenon
                <5> QED BY <3>1, <5>1, <5>2, Zenon
            <4>3. \A n : n = 0 \/ n = 1 => n <= 1
                OBVIOUS
            <4> QED BY <4>1, <4>2, <4>3, Zenon
        <3>5. worker'.responses # <<>> => worker'.terminal = NoResponse
            BY <3>1, Zenon
        <3>6. worker'.commands # <<>> => worker'.working = NoResponse /\ ~Answers(worker')
            BY <3>2, Zenon
        <3>7. worker'.working # NoResponse => ~Answers(worker')
            BY <3>2, Zenon
        <3> QED BY <3>4, <3>5, <3>6, <3>7, Zenon DEF Single
    <2>3. WorkerInv(worker')
        <3>1. DOMAIN worker'.commands = {}
            BY <1>6
        <3> QED BY <1>6, <2>2, <3>1 DEF WorkerInv
    <2>4. Places(worker', r.id)
        BY <1>4, <1>6, <2>1 DEF Places
    <2>5. \A id : id # 0 /\ Places(worker, id) => id = r.id
        BY <1>1, <1>3, <1>5 DEF Places, r
    <2>6. ~Quiet(worker)
        BY <1>1 DEF Quiet, r
    <2> QED BY <1>1, <1>6, <2>3, <2>4, <2>5, <2>6 DEF Worked
<1>7. CASE /\ NoFault
           /\ worker' = [worker EXCEPT !.working = NoResponse,
                            !.responses = Append(<<>>, r), !.signaled = TRUE]
    <2> DEFINE a == Append(<<>>, r)
    <2>1. a \in Seq(Response)
        BY <1>1, <1>4
    <2>2. worker' = [worker EXCEPT !.working = NoResponse, !.responses = a,
                                   !.signaled = TRUE]
        BY <1>7
    <2> HIDE DEF a
    <2>3. /\ worker' \in Worker
          /\ worker'.commands = worker.commands /\ worker'.working = NoResponse
          /\ worker'.responses = a /\ worker'.terminal = worker.terminal
          /\ worker'.phase = worker.phase /\ worker'.next = worker.next
          /\ worker'.handlers = worker.handlers
          /\ worker'.signaled = TRUE
        BY <1>5, <2>1, <2>2 DEF Worker
    <2>4. worker'.signaled
        BY <2>3, Zenon
    <2>5. Worked(worker, worker')
        BY <1>1, <1>3, <1>6, <2>3, <2>4 DEF a
    <2> QED BY <1>7, <2>5 DEF NoFault
<1>8. ASSUME NEW set \in BOOLEAN,
             Fault(IF set THEN 1 ELSE 2),
             worker' = [worker EXCEPT !.working = NoResponse, !.terminal = failed,
                           !.phase = "Stopping", !.signaled = @ \/ set]
      PROVE  Worked(worker, worker') /\ faults' \in Nat
    <2>1. (worker.signaled \/ set) \in BOOLEAN
        OBVIOUS
    <2> DEFINE b == worker.signaled \/ set
    <2>2. worker' = [worker EXCEPT !.working = NoResponse, !.terminal = failed,
                                   !.phase = "Stopping", !.signaled = b]
        BY <1>8
    <2>3. b \in BOOLEAN
        BY <2>1
    <2> HIDE DEF b
    <2>4. /\ worker' \in Worker
          /\ worker'.commands = worker.commands /\ worker'.working = NoResponse
          /\ worker'.responses = worker.responses /\ worker'.terminal = failed
          /\ worker'.phase = "Stopping" /\ worker'.next = worker.next
          /\ worker'.handlers = worker.handlers
        BY <1>2, <1>5, <2>2, <2>3 DEF Worker
    <2>5. Worked(worker, worker')
        BY <1>1, <1>3, <1>6, <2>4
    <2>6. faults' \in Nat
        BY <1>8 DEF Fault
    <2> QED BY <2>5, <2>6
<1>9. CASE /\ Fault(1)
           /\ worker' = [worker EXCEPT !.working = NoResponse,
                            !.responses = Append(<<>>, failed), !.phase = "Stopping"]
    <2> DEFINE a == Append(<<>>, failed)
    <2>1. a \in Seq(Response)
        BY <1>2, <1>4
    <2>2. worker' = [worker EXCEPT !.working = NoResponse, !.responses = a,
                                   !.phase = "Stopping"]
        BY <1>9
    <2> HIDE DEF a
    <2>3. /\ worker' \in Worker
          /\ worker'.commands = worker.commands /\ worker'.working = NoResponse
          /\ worker'.responses = a /\ worker'.terminal = worker.terminal
          /\ worker'.phase = "Stopping" /\ worker'.next = worker.next
          /\ worker'.handlers = worker.handlers
        BY <1>5, <2>1, <2>2 DEF Worker
    <2>4. Worked(worker, worker')
        BY <1>1, <1>3, <1>6, <2>3 DEF a
    <2>5. faults' \in Nat
        BY <1>9 DEF Fault
    <2> QED BY <2>4, <2>5
<1> QED BY <1>3, <1>7, <1>8, <1>9 DEF Respond, r, failed

(* The worker thread ends, with its handlers removed or not.               *)
LEMMA FinishIs ==
    ASSUME worker \in Worker, WorkerInv(worker), faults \in Nat, Finish
    PROVE  Worked(worker, worker') /\ faults' \in Nat
<1>1. PICK removal \in Removals(worker.handlers) :
          /\ Fault(Cardinality(removal.left))
          /\ worker' = [worker EXCEPT
                !.phase = "Joined", !.handlers = removal.left,
                !.cleanup = Merged(worker.rollback, removal.status)]
    BY DEF Finish, CleanupResources
<1>2. /\ worker.phase = "Stopping" /\ worker.working = NoResponse
      /\ worker.commands = <<>>
    BY DEF Finish
<1>3. /\ removal.left \subseteq worker.handlers
      /\ removal.status \in {"ok", "contract", "transport"}
      /\ removal.status = "ok" => removal.left = {}
    BY DEF Removals, Unclean
<1>4. worker.handlers \subseteq Handlers
      /\ worker.rollback \in {"ok", "contract", "transport"}
    BY DEF Worker
<1> DEFINE h == removal.left
           c == Merged(worker.rollback, removal.status)
<1>5. /\ h \subseteq Handlers /\ c \in {"ok", "contract", "transport"}
      /\ c = "ok" => h = {}
    BY <1>3, <1>4, MergedIs
<1>6. faults' \in Nat
    BY <1>1, <1>5, HandlersCount, FaultIs
<1>7. worker' = [worker EXCEPT !.phase = "Joined", !.handlers = h, !.cleanup = c]
    BY <1>1
<1> HIDE DEF h, c
<1>8. /\ worker' \in Worker
      /\ worker'.commands = worker.commands /\ worker'.working = worker.working
      /\ worker'.responses = worker.responses /\ worker'.terminal = worker.terminal
      /\ worker'.phase = "Joined" /\ worker'.next = worker.next
      /\ worker'.handlers = h /\ worker'.cleanup = c
    BY <1>5, <1>7 DEF Worker
<1>9. WorkerInv(worker')
    BY <1>2, <1>5, <1>8 DEF WorkerInv, Single, Answers
<1>10. \A id : Places(worker, id) => Places(worker', id)
    BY <1>8 DEF Places
<1> QED BY <1>2, <1>6, <1>8, <1>9, <1>10 DEF Worked

(* A step of the worker keeps the invariant.                               *)
LEMMA WorkerKeeps ==
    ASSUME ObserverInvariant, WorkerStep
    PROVE  ObserverInvariant'
<1>1. TypeOK /\ WorkerInv(worker) /\ StartInv /\ AwaitInv /\ CleanInv
    BY DEF ObserverInvariant
<1>2. /\ queue' = queue /\ shell' = shell /\ loop' = loop
      /\ runtime' = runtime /\ reducer' = reducer
      /\ events' = events /\ ignored' = ignored
    BY DEF WorkerStep, log
<1>3. Worked(worker, worker') /\ faults' \in Nat
    BY <1>1, InitializeIs, ProcessIs, RespondIs, FinishIs
       DEF WorkerStep, WorkerThread, TypeOK
<1>4. runtime.uiaStarted \/ (At("starting") /\ worker.phase = "Starting")
    <2>1. CASE At("starting")
        <3>1. worker.phase = "Running" => Quiet(worker)
            BY <1>1, <2>1 DEF AwaitInv, StartInv, Startups, At
        <3> QED BY <1>1, <1>3, <2>1, <3>1 DEF StartInv, Worked
    <2>2. CASE ~At("starting")
        BY <1>1, <1>3, <2>2 DEF StartInv, Worked
    <2> QED BY <2>1, <2>2
<1>5. TypeOK'
    BY <1>1, <1>2, <1>3 DEF TypeOK, Worked
<1>6. StartInv'
    <2>1. ~(loop.pc \in BeforeWorker)
        BY <1>1, <1>3 DEF StartInv, Worked
    <2>2. worker'.phase \notin {"Created", "Starting"}
        BY <1>3 DEF Worked
    <2>3. At("starting") => worker'.phase \in {"Running", "Joined"}
        BY <1>1, <1>3, <1>4 DEF StartInv, Worked
    <2>4. ~runtime.uiaStarted => At("starting")
        BY <1>4
    <2> QED BY <1>1, <1>2, <2>1, <2>2, <2>3, <2>4 DEF StartInv, Down, At
<1>7. ShellInv'
    BY <1>2 DEF ObserverInvariant, ShellInv
<1>8. WorkerInv(worker)'
    BY <1>3 DEF Worked
<1>9. AwaitInv'
    <2>1. ASSUME worker'.phase = "Running", runtime.awaiting = 0,
                 loop.pc \notin {"adding", "unwind"}
          PROVE  Quiet(worker')
        BY <1>1, <1>3, <2>1 DEF Worked, AwaitInv
    <2>2. loop.pending # 0 => Places(worker', runtime.awaiting)
        BY <1>1, <1>3 DEF Worked, AwaitInv, OnTheWay, Places, TypeOK, Runtime
    <2>3. Quiet(worker)' <=> Quiet(worker')
        BY DEF Quiet
    <2>4. loop.pending # 0 => runtime.awaiting # 0 /\ reducer.remap = loop.pending
        BY <1>1 DEF AwaitInv
    <2>5. OnTheWay(runtime.awaiting)' <=> Places(worker', runtime.awaiting)
        BY <1>2 DEF OnTheWay, Places
    <2> QED BY <1>2, <2>1, <2>2, <2>3, <2>4, <2>5 DEF AwaitInv
<1>10. CleanInv'
    <2>1. ~runtime.uiaStarted => worker'.handlers = {}
        BY <1>3, <1>4 DEF Worked
    <2>2. ~runtime.cleanupComplete
        BY <1>1, <1>4 DEF CleanInv, Startups, At
    <2>3. ~At("done")
        BY <1>1, <1>4 DEF StartInv, At
    <2>4. /\ runtime.unreported => loop.failed
          /\ loop.pc \in Startups \ {"begin"} =>
                ~runtime.cleanupFailed /\ ~runtime.unreported
        BY <1>1 DEF CleanInv
    <2> QED BY <1>2, <2>1, <2>2, <2>3, <2>4 DEF CleanInv, NothingLeftUnsaid, At
<1>11. StopInv'
    BY <1>2 DEF ObserverInvariant, StopInv, At, Settled, IsQuiescent, Emergency
<1>12. SleepInv'
    BY <1>2 DEF ObserverInvariant, SleepInv, Emergency
<1>13. LineInv(queue, loop, events, ignored)'
    BY <1>2 DEF ObserverInvariant
<1> QED BY <1>5, <1>6, <1>7, <1>8, <1>9, <1>10, <1>11, <1>12, <1>13
        DEF ObserverInvariant

-----------------------------------------------------------------------------
(* The shell.                                                              *)

(* How many tabs a rollback or a cleanup may lose.                         *)
LEMMA TabsCount ==
    ASSUME NEW stuck, stuck \subseteq Tabs
    PROVE  IsFiniteSet(stuck) /\ Cardinality(stuck) \in Nat
BY TabsAssumption, FS_Subset, FS_CardinalityType

(* What a cleanup that is not refused comes to.                            *)
LEMMA OutcomesAre ==
    ASSUME NEW s \in Shell, NEW outcome \in CleanupOutcomes(s), outcome # Refusal(s)
    PROVE  \E stuck \in SUBSET s.connections, lifecycle \in {FALSE, s.lifecycle},
              origin \in Unclean :
             outcome = [left |-> Released(Cleaned(s, stuck, lifecycle)),
                        failed |-> Cardinality(stuck) + (IF lifecycle THEN 1 ELSE 0),
                        status |-> IF stuck = {} /\ ~lifecycle THEN "ok" ELSE origin]
<1> DEFINE Outcome(stuck, lifecycle, origin) ==
               [left |-> Released(Cleaned(s, stuck, lifecycle)),
                failed |-> Cardinality(stuck) + (IF lifecycle THEN 1 ELSE 0),
                status |-> IF stuck = {} /\ ~lifecycle THEN "ok" ELSE origin]
           L == {FALSE, s.lifecycle}
           C == SUBSET s.connections
           refused == ~s.owned \/ Ambiguous(s)
           All == {Outcome(stuck, lifecycle, origin) :
                      stuck \in C, lifecycle \in L, origin \in Unclean}
<1>1. CleanupOutcomes(s) = IF refused THEN {Refusal(s)} ELSE All
    BY DEF CleanupOutcomes
<1> HIDE DEF L, C, refused
<1> SUFFICES \E stuck \in C, lifecycle \in L, origin \in Unclean :
                 outcome = Outcome(stuck, lifecycle, origin)
    BY DEF L, C
<1> HIDE DEF Outcome
<1>2. outcome \in All
    BY <1>1
<1> QED BY <1>2

(* A cleanup that reports success has unsubscribed everything.             *)
LEMMA CleanupIs ==
    ASSUME NEW s \in Shell, NEW outcome \in CleanupOutcomes(s)
    PROVE  /\ outcome.left \in Shell /\ outcome.failed \in Nat
           /\ outcome.status \in {"ok", "contract", "transport"}
           /\ outcome.status = "ok" => ~Subscribed(outcome.left)
<1>1. CASE outcome = Refusal(s)
    BY <1>1 DEF Refusal
<1>2. CASE outcome # Refusal(s)
    <2>1. PICK stuck \in SUBSET s.connections, lifecycle \in {FALSE, s.lifecycle},
               origin \in Unclean :
             outcome = [left |-> Released(Cleaned(s, stuck, lifecycle)),
                        failed |-> Cardinality(stuck) + (IF lifecycle THEN 1 ELSE 0),
                        status |-> IF stuck = {} /\ ~lifecycle THEN "ok" ELSE origin]
        BY <1>2, OutcomesAre
    <2> DEFINE c == Cleaned(s, stuck, lifecycle)
               f == Cardinality(stuck) + (IF lifecycle THEN 1 ELSE 0)
               status == IF stuck = {} /\ ~lifecycle THEN "ok" ELSE origin
    <2>2. stuck \subseteq Tabs /\ lifecycle \in BOOLEAN
        BY DEF Shell
    <2>3. c \in Shell /\ c.connections = stuck /\ c.lifecycle = lifecycle
        BY <2>2 DEF Cleaned, Shell
    <2>4. f \in Nat
        <3>1. Cardinality(stuck) \in Nat
            BY <2>2, TabsCount
        <3> QED BY <3>1
    <2>5. status \in {"ok", "contract", "transport"}
          /\ (status = "ok" => stuck = {} /\ ~lifecycle)
        BY DEF Unclean
    <2> HIDE DEF c, f, status
    <2>6. Released(c) \in Shell
        BY <2>3 DEF Released, Shell
    <2>7. (stuck = {} /\ ~lifecycle) => ~Subscribed(Released(c))
        <3> SUFFICES ASSUME stuck = {}, ~lifecycle
                     PROVE  ~Subscribed(Released(c))
            OBVIOUS
        <3>1. ~Subscribed(c)
            BY <2>3, Zenon DEF Subscribed
        <3>2. Released(c) = [c EXCEPT !.owned = FALSE]
            BY <3>1 DEF Released
        <3>3. Released(c).lifecycle = c.lifecycle /\ Released(c).connections = c.connections
            BY <2>3, <3>2 DEF Shell
        <3> QED BY <3>1, <3>3, Zenon DEF Subscribed
    <2>8. outcome.left = Released(c) /\ outcome.failed = f /\ outcome.status = status
        BY <2>1 DEF c, f, status
    <2> QED BY <2>4, <2>5, <2>6, <2>7, <2>8
<1> QED BY <1>1, <1>2

-----------------------------------------------------------------------------
(* The coordinator's locals.                                               *)

Locals(l, k) ==
    /\ SameLine(l, k) /\ k.stopping = l.stopping /\ k.timedOut = l.timedOut
    /\ k.looked = l.looked

Positions == Startups \cup {"drain", "process", "resume", "check", "wait", "pump",
                            "respond", "stop", "cleanup", "done"}

(* A step that only moves on changes the position alone.                   *)
LEMMA GotoIs ==
    ASSUME loop \in Loop, NEW pc \in Positions, Goto(pc)
    PROVE  /\ loop' \in Loop /\ loop'.pc = pc /\ Locals(loop, loop')
           /\ loop'.failed = loop.failed
<1>1. loop' = [loop EXCEPT !.pc = pc]
    BY DEF Goto
<1>2. loop' \in Loop
    BY <1>1 DEF Loop, Positions, Startups
<1> QED BY <1>1, <1>2 DEF Locals, SameLine, Loop

(* A step that fails and moves on changes the position and the mark alone. *)
LEMMA FailAtIs ==
    ASSUME loop \in Loop, NEW pc \in Positions, FailAt(pc)
    PROVE  /\ loop' \in Loop /\ loop'.pc = pc /\ Locals(loop, loop')
           /\ loop'.failed
<1>1. loop' = [loop EXCEPT !.pc = pc, !.failed = TRUE]
    BY DEF FailAt
<1>2. loop' \in Loop
    BY <1>1 DEF Loop, Positions, Startups
<1>3. loop'.failed = TRUE
    BY <1>1 DEF Loop
<1>4. loop'.pc = pc /\ Locals(loop, loop')
    BY <1>1 DEF Locals, SameLine, Loop
<1> QED BY <1>2, <1>3, <1>4, Zenon

-----------------------------------------------------------------------------
(* The startup.                                                            *)

(* No step of the startup takes events, and none lets them in before the   *)
(* queue is told to run.                                                   *)
StartupStep ==
    /\ loop' \in Loop /\ Locals(loop, loop') /\ (loop.failed => loop'.failed)
    /\ loop'.pc \in Startups \cup {"drain", "stop"}
    /\ Lowers(queue, queue', queue.next)
    /\ faults' \in Nat /\ worker' \in Worker /\ shell' \in Shell
    /\ reducer' \in Reducer /\ runtime' \in Runtime
    /\ events' = events /\ ignored' = ignored

(* A step of the startup keeps the types, the line and the stillness.      *)
LEMMA StartupStepIs ==
    ASSUME ObserverInvariant, loop.pc \in Startups, StartupStep
    PROVE  /\ TypeOK' /\ LineInv(queue, loop, events, ignored)'
           /\ StopInv' /\ SleepInv'
           /\ queue'.slots = <<>> /\ loop'.backlog = <<>> /\ loop'.pending = 0
           /\ queue'.phase # "Running" /\ ~loop'.stopping
           /\ Emergency(queue) => Emergency(queue')
<1>1. TypeOK /\ StartInv /\ LineInv(queue, loop, events, ignored) /\ StopInv
    BY DEF ObserverInvariant
<1>2. queue' \in Queue
    BY DEF StartupStep, Lowers
<1>3. TypeOK'
    BY <1>1, <1>2 DEF TypeOK, StartupStep
<1>4. LineInv(queue', loop', events, ignored)
    BY <1>1, LineKeeps DEF TypeOK, StartupStep, Locals
<1>5. LineInv(queue, loop, events, ignored)'
    BY <1>4 DEF StartupStep
<1>6. /\ queue'.slots = <<>> /\ loop'.backlog = <<>> /\ loop'.pending = 0
      /\ queue'.phase # "Running"
    BY <1>1 DEF StartInv, StartupStep, Locals, SameLine, Lowers
<1>7. ~loop'.stopping
    BY <1>1, Zenon DEF StartInv, StartupStep, Locals
<1>8. StopInv'
    <2>1. loop'.timedOut => loop'.failed
        BY <1>1, Zenon DEF StopInv, StartupStep, Locals
    <2>2. loop'.pc \notin {"cleanup", "done"}
        BY DEF StartupStep, Startups
    <2> QED BY <1>7, <2>1, <2>2 DEF StopInv
<1>9. SleepInv'
    BY DEF SleepInv, StartupStep, Startups
<1>10. Emergency(queue) => Emergency(queue')
    BY DEF Emergency, StartupStep, Lowers
<1> QED BY <1>3, <1>5, <1>6, <1>7, <1>8, <1>9, <1>10

(* Until the worker is started.                                            *)
LEMMA BeforeKeeps ==
    ASSUME ObserverInvariant, loop.pc \in BeforeWorker, StartupStep,
           worker' = worker,
           ~runtime'.uiaStarted, runtime'.awaiting = runtime.awaiting,
           runtime'.cleanupComplete <=> runtime.cleanupComplete,
           runtime'.unreported <=> runtime.unreported,
           runtime'.cleanupFailed => runtime.cleanupFailed \/ loop'.pc = "begin",
           loop'.pc \in BeforeWorker \cup {"unwind", "begin"},
           loop'.pc = "begin" => Emergency(queue'),
           loop'.pc \in {"seed", "worker"} => shell'.subscriptions = shell'.connections
    PROVE  ObserverInvariant'
<1>1. StartInv /\ WorkerInv(worker) /\ CleanInv
    BY DEF ObserverInvariant
<1>2. /\ TypeOK' /\ LineInv(queue, loop, events, ignored)'
      /\ StopInv' /\ SleepInv'
      /\ queue'.slots = <<>> /\ loop'.backlog = <<>> /\ loop'.pending = 0
      /\ queue'.phase # "Running" /\ ~loop'.stopping
    BY StartupStepIs DEF BeforeWorker, Startups
<1>3. worker'.phase = "Created" /\ worker'.handlers = {}
    BY <1>1 DEF StartInv, WorkerInv
<1>4. StartInv'
    <2>1. runtime'.awaiting = 0
        BY <1>1 DEF StartInv, BeforeWorker, Startups
    <2> QED BY <1>2, <1>3, <2>1 DEF StartInv, Down, At, BeforeWorker, Startups
<1>5. ShellInv'
    BY DEF ShellInv, BeforeWorker
<1>6. WorkerInv(worker)'
    BY <1>1
<1>7. AwaitInv'
    BY <1>2, <1>3 DEF AwaitInv
<1>8. CleanInv'
    <2>1. ~runtime.cleanupComplete /\ ~runtime.unreported /\ ~runtime.cleanupFailed
        BY <1>1 DEF CleanInv, BeforeWorker, Startups
    <2>2. loop'.pc # "done"
        BY DEF BeforeWorker
    <2> QED BY <1>3, <2>1, <2>2 DEF CleanInv, NothingLeftUnsaid, At
<1> QED BY <1>2, <1>4, <1>5, <1>6, <1>7, <1>8 DEF ObserverInvariant

(* From then on.                                                           *)
LEMMA AfterKeeps ==
    ASSUME ObserverInvariant, loop.pc \in {"starting", "submit", "adding", "unwind"},
           StartupStep, WorkerInv(worker'), shell' = shell,
           runtime'.awaiting = runtime.awaiting,
           runtime'.cleanupComplete <=> runtime.cleanupComplete,
           runtime'.unreported <=> runtime.unreported,
           runtime'.cleanupFailed <=> runtime.cleanupFailed,
           loop'.pc \in {"submit", "adding", "unwind", "begin"},
           loop'.pc # "unwind" => runtime'.uiaStarted,
           runtime'.uiaStarted =>
               /\ runtime.uiaStarted \/ At("starting")
               /\ worker'.phase \notin {"Created", "Starting"},
           ~runtime'.uiaStarted =>
               worker'.phase \in {"Created", "Joined"} /\ worker'.handlers = {},
           worker'.phase = "Running" /\ loop'.pc \in {"submit", "begin"} => Quiet(worker')
    PROVE  ObserverInvariant'
<1>1. StartInv /\ ShellInv /\ CleanInv
    BY DEF ObserverInvariant
<1>2. /\ TypeOK' /\ LineInv(queue, loop, events, ignored)'
      /\ StopInv' /\ SleepInv'
      /\ queue'.slots = <<>> /\ loop'.backlog = <<>> /\ loop'.pending = 0
      /\ queue'.phase # "Running" /\ ~loop'.stopping
    BY StartupStepIs DEF Startups
<1>3. StartInv'
    <2>1. runtime'.awaiting = 0
        BY <1>1 DEF StartInv, Startups
    <2> QED BY <1>2, <2>1 DEF StartInv, Down, At, BeforeWorker, Startups
<1>4. ShellInv'
    BY <1>1 DEF ShellInv, At
<1>5. WorkerInv(worker)'
    OBVIOUS
<1>6. AwaitInv'
    <2>1. Quiet(worker)' <=> Quiet(worker')
        BY DEF Quiet
    <2> QED BY <1>2, <2>1 DEF AwaitInv
<1>7. CleanInv'
    <2>1. ~runtime.cleanupComplete /\ ~runtime.unreported /\ ~runtime.cleanupFailed
        BY <1>1 DEF CleanInv, Startups
    <2> QED BY <2>1 DEF CleanInv, NothingLeftUnsaid, At
<1> QED BY <1>2, <1>3, <1>4, <1>5, <1>6, <1>7 DEF ObserverInvariant

(* A startup that fails tells the queue to stop.                           *)
LEMMA FailStartupIs ==
    ASSUME TypeOK, FailStartup
    PROVE  /\ loop' \in Loop /\ loop'.pc = "unwind" /\ Locals(loop, loop')
           /\ loop'.failed = loop.failed
           /\ Lowers(queue, queue', queue.next)
           /\ runtime' \in Runtime
           /\ runtime'.uiaStarted = runtime.uiaStarted
           /\ runtime'.awaiting = runtime.awaiting
           /\ runtime'.cleanupComplete = runtime.cleanupComplete
           /\ runtime'.cleanupFailed = runtime.cleanupFailed
           /\ runtime'.unreported = runtime.unreported
<1>1. /\ loop' \in Loop /\ loop'.pc = "unwind" /\ Locals(loop, loop')
      /\ loop'.failed = loop.failed
    BY GotoIs DEF TypeOK, FailStartup, Positions, Startups
<1>2. Lowers(queue, queue', queue.next)
    BY QueueStops DEF TypeOK, FailStartup
<1>3. PICK origin \in Unclean : runtime' = [runtime EXCEPT !.origin = origin]
    BY DEF FailStartup
<1>4. runtime' \in Runtime
    BY <1>3 DEF TypeOK, Runtime
<1> QED BY <1>1, <1>2, <1>3, <1>4 DEF TypeOK, Runtime

(* The queue that is left alone.                                           *)
LEMMA QueueStays ==
    ASSUME NEW q \in Queue
    PROVE  Lowers(q, q, q.next)
BY DEF Lowers, Queue

(* The creation of the shell windows preserves the invariant.              *)
LEMMA CreateShellKeeps ==
    ASSUME ObserverInvariant, CreateShell
    PROVE  ObserverInvariant'
<1>1. /\ TypeOK /\ StartInv /\ At("create")
      /\ worker' = worker /\ runtime' = runtime /\ reducer' = reducer
      /\ events' = events /\ ignored' = ignored
    BY DEF ObserverInvariant, CreateShell, log
<1>2. loop.pc \in BeforeWorker /\ ~runtime.uiaStarted
    BY <1>1 DEF At, BeforeWorker, StartInv
<1>3. CASE Goto("shell") /\ queue' = queue /\ NoFault
           /\ shell' = [shell EXCEPT !.owned = TRUE]
    <2>1. /\ loop' \in Loop /\ loop'.pc = "shell" /\ Locals(loop, loop')
          /\ loop'.failed = loop.failed
        BY <1>1, <1>3, GotoIs DEF TypeOK, Positions, Startups
    <2>2. shell' \in Shell
        BY <1>1, <1>3 DEF TypeOK, Shell
    <2>3. StartupStep
        BY <1>1, <1>3, <2>1, <2>2, QueueStays DEF TypeOK, StartupStep, Startups, NoFault
    <2> QED BY <1>1, <1>2, <2>1, <2>3, BeforeKeeps DEF BeforeWorker
<1>4. CASE Fault(1) /\ queue' = RecordCoordinatorFailure(queue)
           /\ FailAt("begin") /\ shell' = shell
    <2>1. /\ loop' \in Loop /\ loop'.pc = "begin" /\ Locals(loop, loop')
          /\ loop'.failed
        BY <1>1, <1>4, FailAtIs DEF TypeOK, Positions, Startups
    <2>2. faults' \in Nat
        BY <1>1, <1>4, FaultIs DEF TypeOK
    <2>3. Lowers(queue, queue', queue.next) /\ Emergency(queue')
        BY <1>1, <1>4, QueueFails DEF TypeOK, Emergency
    <2>4. StartupStep
        BY <1>1, <1>4, <2>1, <2>2, <2>3 DEF TypeOK, StartupStep, Startups
    <2> QED BY <1>1, <1>2, <2>1, <2>3, <2>4, BeforeKeeps DEF BeforeWorker
<1> QED BY <1>3, <1>4 DEF CreateShell

(* The rollback of the shell's startup.                                    *)
LEMMA UndoShellKeeps ==
    ASSUME ObserverInvariant, loop.pc \in BeforeWorker,
           NEW s \in Shell, NEW n \in Nat, UndoShell(s, n),
           worker' = worker, reducer' = reducer,
           events' = events, ignored' = ignored
    PROVE  ObserverInvariant'
<1>1. PICK outcome \in CleanupOutcomes(s) :
          /\ Fault(n + outcome.failed)
          /\ shell' = outcome.left
          /\ runtime' = [runtime EXCEPT !.cleanupFailed = outcome.status # "ok"]
          /\ queue' = RecordCoordinatorFailure(EnsureStopping(queue))
          /\ FailAt("begin")
    BY DEF UndoShell
<1>2. TypeOK /\ StartInv
    BY DEF ObserverInvariant
<1>3. shell' \in Shell /\ n + outcome.failed \in Nat
    BY <1>1, CleanupIs
<1>4. faults' \in Nat
    BY <1>1, <1>2, <1>3, FaultIs DEF TypeOK
<1>5. /\ runtime' \in Runtime
      /\ runtime'.uiaStarted = runtime.uiaStarted
      /\ runtime'.awaiting = runtime.awaiting
      /\ runtime'.cleanupComplete = runtime.cleanupComplete
      /\ runtime'.unreported = runtime.unreported
    <2> DEFINE b == outcome.status # "ok"
    <2>1. b \in BOOLEAN /\ runtime' = [runtime EXCEPT !.cleanupFailed = b]
        BY <1>1
    <2> HIDE DEF b
    <2> QED BY <1>2, <2>1 DEF TypeOK, Runtime
<1>6. Lowers(queue, queue', queue.next) /\ Emergency(queue')
    BY <1>1, <1>2, QueueStopsAndFails DEF TypeOK, Emergency
<1>7. /\ loop' \in Loop /\ loop'.pc = "begin" /\ Locals(loop, loop')
      /\ loop'.failed
    BY <1>1, <1>2, FailAtIs DEF TypeOK, Positions, Startups
<1>8. StartupStep
    BY <1>2, <1>3, <1>4, <1>5, <1>6, <1>7 DEF TypeOK, StartupStep, Startups
<1>9. ~runtime'.uiaStarted
    BY <1>2, <1>5 DEF StartInv
<1> QED BY <1>5, <1>6, <1>7, <1>8, <1>9, BeforeKeeps DEF BeforeWorker

(* The start of the subscriptions preserves the invariant.                 *)
LEMMA StartShellKeeps ==
    ASSUME ObserverInvariant, StartShell
    PROVE  ObserverInvariant'
<1>1. /\ TypeOK /\ StartInv /\ At("shell")
      /\ worker' = worker /\ reducer' = reducer
      /\ events' = events /\ ignored' = ignored
    BY DEF ObserverInvariant, StartShell, log
<1>2. loop.pc \in BeforeWorker /\ ~runtime.uiaStarted
    BY <1>1 DEF At, BeforeWorker, StartInv
<1>3. /\ Advised(FALSE, {}) \in Shell
      /\ \A tabs \in TabSets : Advised(TRUE, tabs) \in Shell
    BY <1>1 DEF TypeOK, Shell, Advised, TabSets
<1>4. CASE \E tabs \in TabSets :
              /\ NoFault
              /\ shell' = Advised(TRUE, tabs)
              /\ Goto("verify")
              /\ UNCHANGED <<queue, runtime>>
    <2>1. /\ loop' \in Loop /\ loop'.pc = "verify" /\ Locals(loop, loop')
          /\ loop'.failed = loop.failed
        BY <1>1, <1>4, GotoIs DEF TypeOK, Positions, Startups
    <2>2. shell' \in Shell /\ queue' = queue /\ runtime' = runtime /\ faults' = faults
        BY <1>3, <1>4 DEF NoFault
    <2>3. StartupStep
        BY <1>1, <2>1, <2>2, QueueStays DEF TypeOK, StartupStep, Startups
    <2> QED BY <1>1, <1>2, <2>1, <2>2, <2>3, BeforeKeeps DEF BeforeWorker
<1>5. CASE UndoShell(Advised(FALSE, {}), 1)
    BY <1>1, <1>2, <1>3, <1>5, UndoShellKeeps
<1>6. CASE \E tabs \in TabSets : UndoShell(Advised(TRUE, tabs), 1)
    BY <1>1, <1>2, <1>3, <1>6, UndoShellKeeps
<1> QED BY <1>4, <1>5, <1>6 DEF StartShell

(* The verification of the subscriptions preserves the invariant.          *)
LEMMA VerifyShellKeeps ==
    ASSUME ObserverInvariant, VerifyShell
    PROVE  ObserverInvariant'
<1>1. /\ TypeOK /\ StartInv /\ At("verify")
      /\ worker' = worker /\ reducer' = reducer
      /\ events' = events /\ ignored' = ignored
    BY DEF ObserverInvariant, VerifyShell, log
<1>2. loop.pc \in BeforeWorker /\ ~runtime.uiaStarted
    BY <1>1 DEF At, BeforeWorker, StartInv
<1>3. CASE NoFault /\ Goto("tabs") /\ UNCHANGED <<queue, shell, runtime>>
    <2>1. /\ loop' \in Loop /\ loop'.pc = "tabs" /\ Locals(loop, loop')
          /\ loop'.failed = loop.failed
        BY <1>1, <1>3, GotoIs DEF TypeOK, Positions, Startups
    <2>2. queue' = queue /\ shell' = shell /\ runtime' = runtime /\ faults' = faults
        BY <1>3 DEF NoFault
    <2>3. StartupStep
        BY <1>1, <2>1, <2>2, QueueStays DEF TypeOK, StartupStep, Startups
    <2> QED BY <1>1, <1>2, <2>1, <2>2, <2>3, BeforeKeeps DEF BeforeWorker
<1>4. CASE UndoShell(shell, 0)
    BY <1>1, <1>2, <1>4, UndoShellKeeps DEF TypeOK
<1> QED BY <1>3, <1>4 DEF VerifyShell

(* The initialisation of the tabs preserves the invariant.                 *)
LEMMA InitializeTabsKeeps ==
    ASSUME ObserverInvariant, InitializeTabs
    PROVE  ObserverInvariant'
<1>1. /\ TypeOK /\ StartInv /\ At("tabs") /\ faults' = faults
      /\ worker' = worker /\ reducer' = reducer
      /\ events' = events /\ ignored' = ignored
    BY DEF ObserverInvariant, InitializeTabs, log, NoFault
<1>2. loop.pc \in BeforeWorker /\ ~runtime.uiaStarted /\ ~runtime.cleanupFailed
    BY <1>1 DEF At, BeforeWorker, StartInv, ObserverInvariant, CleanInv, Startups
<1>3. CASE /\ shell' = [shell EXCEPT !.subscriptions = shell.connections]
           /\ Goto("seed")
           /\ UNCHANGED <<queue, runtime>>
    <2>1. /\ loop' \in Loop /\ loop'.pc = "seed" /\ Locals(loop, loop')
          /\ loop'.failed = loop.failed
        BY <1>1, <1>3, GotoIs DEF TypeOK, Positions, Startups
    <2>2. shell' \in Shell /\ shell'.subscriptions = shell'.connections
        BY <1>1, <1>3 DEF TypeOK, Shell
    <2>3. StartupStep
        BY <1>1, <1>3, <2>1, <2>2, QueueStays DEF TypeOK, StartupStep, Startups
    <2> QED BY <1>1, <1>2, <1>3, <2>1, <2>2, <2>3, BeforeKeeps DEF BeforeWorker
<1>4. CASE FailStartup /\ shell' = shell
    <2>1. StartupStep
        BY <1>1, <1>4, FailStartupIs DEF TypeOK, StartupStep, Startups
    <2> QED BY <1>1, <1>2, <1>4, <2>1, FailStartupIs, BeforeKeeps DEF BeforeWorker
<1> QED BY <1>3, <1>4 DEF InitializeTabs

(* The seeding of the baseline preserves the invariant.                    *)
LEMMA SeedBaselineKeeps ==
    ASSUME ObserverInvariant, SeedBaseline
    PROVE  ObserverInvariant'
<1>1. /\ TypeOK /\ StartInv /\ ShellInv /\ At("seed") /\ faults' = faults
      /\ worker' = worker /\ shell' = shell
      /\ events' = events /\ ignored' = ignored
    BY DEF ObserverInvariant, SeedBaseline, log, NoFault
<1>2. /\ loop.pc \in BeforeWorker /\ ~runtime.uiaStarted /\ ~runtime.cleanupFailed
      /\ shell.subscriptions = shell.connections
    BY <1>1 DEF At, BeforeWorker, StartInv, ObserverInvariant, CleanInv, Startups,
                ShellInv
<1>3. CASE \E window \in Unseeded(reducer) :
              /\ reducer' = SeedWindow(reducer, window)
              /\ UNCHANGED <<queue, loop, runtime>>
    <2>1. reducer' \in Reducer
        BY <1>1, <1>3 DEF TypeOK, Reducer, SeedWindow, Unseeded
    <2>2. /\ loop' = loop /\ queue' = queue /\ runtime' = runtime
          /\ loop.pc = "seed"
        BY <1>1, <1>3 DEF At
    <2>3. StartupStep
        BY <1>1, <2>1, <2>2, QueueStays DEF TypeOK, StartupStep, Startups, Locals, SameLine
    <2> QED BY <1>1, <1>2, <2>2, <2>3, BeforeKeeps DEF BeforeWorker
<1>4. CASE FailStartup /\ reducer' = reducer
    <2>1. StartupStep
        BY <1>1, <1>4, FailStartupIs DEF TypeOK, StartupStep, Startups
    <2> QED BY <1>1, <1>2, <1>4, <2>1, FailStartupIs, BeforeKeeps DEF BeforeWorker
<1>5. CASE Goto("worker") /\ UNCHANGED <<queue, runtime, reducer>>
    <2>1. /\ loop' \in Loop /\ loop'.pc = "worker" /\ Locals(loop, loop')
          /\ loop'.failed = loop.failed
        BY <1>1, <1>5, GotoIs DEF TypeOK, Positions, Startups
    <2>2. queue' = queue /\ runtime' = runtime /\ reducer' = reducer
        BY <1>5
    <2>3. StartupStep
        BY <1>1, <2>1, <2>2, QueueStays DEF TypeOK, StartupStep, Startups
    <2> QED BY <1>1, <1>2, <2>1, <2>2, <2>3, BeforeKeeps DEF BeforeWorker
<1> QED BY <1>3, <1>4, <1>5 DEF SeedBaseline

(* The start of the worker preserves the invariant.                        *)
LEMMA StartWorkerKeeps ==
    ASSUME ObserverInvariant, StartWorker
    PROVE  ObserverInvariant'
<1>1. /\ TypeOK /\ StartInv /\ ShellInv /\ CleanInv /\ WorkerInv(worker)
      /\ At("worker") /\ shell' = shell /\ reducer' = reducer
      /\ events' = events /\ ignored' = ignored
    BY DEF ObserverInvariant, StartWorker, log
<1>2. /\ loop.pc \in BeforeWorker /\ loop.pc \in Startups
      /\ ~runtime.uiaStarted /\ worker.phase = "Created"
      /\ ~runtime.cleanupFailed /\ ~runtime.unreported /\ ~runtime.cleanupComplete
      /\ shell.subscriptions = shell.connections /\ runtime.awaiting = 0
    BY <1>1 DEF At, BeforeWorker, StartInv, CleanInv, Startups, ShellInv
<1>3. CASE NoFault /\ worker' = Start(worker) /\ Goto("starting")
           /\ UNCHANGED <<queue, runtime>>
    <2>1. /\ loop' \in Loop /\ loop'.pc = "starting" /\ Locals(loop, loop')
          /\ loop'.failed = loop.failed
        BY <1>1, <1>3, GotoIs DEF TypeOK, Positions, Startups
    <2>2. /\ worker' \in Worker /\ WorkerInv(worker')
          /\ worker'.phase = "Starting" /\ Quiet(worker')
          /\ worker'.handlers = {}
        BY <1>1, <1>2, <1>3, StartIs DEF TypeOK, WorkerInv
    <2>3. queue' = queue /\ runtime' = runtime /\ faults' = faults
        BY <1>3 DEF NoFault
    <2>4. StartupStep
        BY <1>1, <2>1, <2>2, <2>3, QueueStays DEF TypeOK, StartupStep, Startups
    <2>5. /\ TypeOK' /\ LineInv(queue, loop, events, ignored)'
          /\ StopInv' /\ SleepInv'
          /\ queue'.slots = <<>> /\ loop'.backlog = <<>> /\ loop'.pending = 0
          /\ queue'.phase # "Running" /\ ~loop'.stopping
        BY <1>2, <2>4, StartupStepIs
    <2>6. StartInv'
        BY <1>2, <2>1, <2>2, <2>3, <2>5 DEF StartInv, Down, At, BeforeWorker, Startups
    <2>7. ShellInv'
        BY <1>1, <1>2 DEF ShellInv
    <2>8. AwaitInv'
        BY <2>2, <2>5 DEF AwaitInv
    <2>9. CleanInv'
        BY <1>2, <2>1, <2>2, <2>3 DEF CleanInv, NothingLeftUnsaid, At
    <2> QED BY <2>2, <2>5, <2>6, <2>7, <2>8, <2>9 DEF ObserverInvariant
<1>4. CASE Fault(1) /\ FailStartup /\ worker' = worker
    <2>1. faults' \in Nat
        BY <1>1, <1>4, FaultIs DEF TypeOK
    <2>2. StartupStep
        BY <1>1, <1>4, <2>1, FailStartupIs DEF TypeOK, StartupStep, Startups
    <2> QED BY <1>1, <1>2, <1>4, <2>2, FailStartupIs, BeforeKeeps DEF BeforeWorker, TypeOK
<1> QED BY <1>3, <1>4 DEF StartWorker

(* The wait for the start of the worker preserves the invariant.           *)
LEMMA WorkerStartedKeeps ==
    ASSUME ObserverInvariant, WorkerStarted
    PROVE  ObserverInvariant'
<1>1. /\ TypeOK /\ StartInv /\ CleanInv /\ AwaitInv /\ WorkerInv(worker)
      /\ At("starting") /\ shell' = shell /\ reducer' = reducer
      /\ worker' = worker /\ faults' = faults
      /\ events' = events /\ ignored' = ignored
    BY DEF ObserverInvariant, WorkerStarted, log, NoFault
<1>2. /\ loop.pc \in {"starting", "submit", "adding", "unwind"}
      /\ ~runtime.uiaStarted /\ worker.phase \in {"Running", "Joined"}
      /\ worker.handlers = {}
    BY <1>1 DEF At, StartInv, CleanInv, Startups, WorkerStarted, StartupComplete
<1>3. worker.phase = "Running" => Quiet(worker)
    BY <1>1, <1>2 DEF At, StartInv, AwaitInv, Startups
<1>4. CASE /\ worker.phase = "Running"
           /\ runtime' = [runtime EXCEPT !.uiaStarted = TRUE]
           /\ Goto("submit") /\ queue' = queue
    <2>1. /\ loop' \in Loop /\ loop'.pc = "submit" /\ Locals(loop, loop')
          /\ loop'.failed = loop.failed
        BY <1>1, <1>4, GotoIs DEF TypeOK, Positions, Startups
    <2>2. /\ runtime' \in Runtime
          /\ runtime'.awaiting = runtime.awaiting
          /\ runtime'.cleanupComplete = runtime.cleanupComplete
          /\ runtime'.cleanupFailed = runtime.cleanupFailed
          /\ runtime'.unreported = runtime.unreported
        BY <1>1, <1>4 DEF TypeOK, Runtime
    <2>3. runtime'.uiaStarted
        <3>1. runtime'.uiaStarted = TRUE
            BY <1>1, <1>4 DEF TypeOK, Runtime
        <3> QED BY <3>1, Zenon
    <2>4. StartupStep
        BY <1>1, <1>4, <2>1, <2>2, QueueStays DEF TypeOK, StartupStep, Startups
    <2> QED BY <1>1, <1>2, <1>3, <1>4, <2>1, <2>2, <2>3, <2>4, AfterKeeps
<1>5. CASE worker.phase # "Running" /\ FailStartup
    <2>1. StartupStep
        BY <1>1, <1>5, FailStartupIs DEF TypeOK, StartupStep, Startups
    <2> QED BY <1>1, <1>2, <1>5, <2>1, FailStartupIs, AfterKeeps
<1> QED BY <1>4, <1>5 DEF WorkerStarted

(* The startup fails while the worker is there.                            *)
LEMMA FailStartupKeeps ==
    ASSUME ObserverInvariant, loop.pc \in {"submit", "adding"}, FailStartup,
           worker' \in Worker, WorkerInv(worker'), worker'.phase = worker.phase,
           faults' \in Nat, shell' = shell, reducer' = reducer,
           events' = events, ignored' = ignored
    PROVE  ObserverInvariant'
<1>1. TypeOK /\ StartInv
    BY DEF ObserverInvariant
<1>2. runtime.uiaStarted /\ worker.phase \notin {"Created", "Starting"}
    BY <1>1 DEF StartInv
<1>3. StartupStep
    BY <1>1, FailStartupIs DEF TypeOK, StartupStep, Startups
<1> QED BY <1>1, <1>2, <1>3, FailStartupIs, AfterKeeps

(* The registration of a window of the startup preserves the invariant.    *)
LEMMA SubmitTargetKeeps ==
    ASSUME ObserverInvariant, SubmitTarget
    PROVE  ObserverInvariant'
<1>1. /\ TypeOK /\ StartInv /\ AwaitInv /\ WorkerInv(worker)
      /\ At("submit") /\ shell' = shell /\ reducer' = reducer
      /\ faults' = faults /\ events' = events /\ ignored' = ignored
    BY DEF ObserverInvariant, SubmitTarget, log, NoFault
<1>2. /\ loop.pc \in {"submit", "adding"} /\ runtime.uiaStarted
      /\ loop.pc \in {"starting", "submit", "adding", "unwind"}
      /\ worker.phase \notin {"Created", "Starting"}
      /\ worker.phase = "Running" => Quiet(worker)
    BY <1>1 DEF At, StartInv, AwaitInv, Startups
<1>3. ASSUME NEW target \in Targets, MaySubmit(worker),
             worker' = Submit(worker, "AddTarget", target),
             runtime' = [runtime EXCEPT !.added = @ \cup {target}],
             Goto("adding"), queue' = queue
      PROVE  ObserverInvariant'
    <2>1. /\ loop' \in Loop /\ loop'.pc = "adding" /\ Locals(loop, loop')
          /\ loop'.failed = loop.failed
        BY <1>1, <1>3, GotoIs DEF TypeOK, Positions, Startups
    <2>2. /\ runtime' \in Runtime
          /\ runtime'.uiaStarted = runtime.uiaStarted
          /\ runtime'.awaiting = runtime.awaiting
          /\ runtime'.cleanupComplete = runtime.cleanupComplete
          /\ runtime'.cleanupFailed = runtime.cleanupFailed
          /\ runtime'.unreported = runtime.unreported
        BY <1>1, <1>3 DEF TypeOK, Runtime
    <2>3. worker' \in Worker /\ WorkerInv(worker') /\ worker'.phase = "Running"
        BY <1>1, <1>2, <1>3, SubmitIs DEF TypeOK, MaySubmit, Commands
    <2>4. StartupStep
        BY <1>1, <1>3, <2>1, <2>2, <2>3, QueueStays DEF TypeOK, StartupStep, Startups
    <2> QED BY <1>1, <1>2, <1>3, <2>1, <2>2, <2>3, <2>4, AfterKeeps
<1>4. CASE FailStartup /\ worker' = worker
    BY <1>1, <1>2, <1>4, FailStartupKeeps DEF TypeOK
<1>5. CASE worker' = worker /\ Goto("begin") /\ UNCHANGED <<queue, runtime>>
    <2>1. /\ loop' \in Loop /\ loop'.pc = "begin" /\ Locals(loop, loop')
          /\ loop'.failed = loop.failed
        BY <1>1, <1>5, GotoIs DEF TypeOK, Positions, Startups
    <2>2. queue' = queue /\ runtime' = runtime /\ worker' = worker
        BY <1>5
    <2>3. StartupStep
        BY <1>1, <2>1, <2>2, QueueStays DEF TypeOK, StartupStep, Startups
    <2> QED BY <1>1, <1>2, <2>1, <2>2, <2>3, AfterKeeps
<1>6. CASE Targets \ runtime.added # {} /\ MaySubmit(worker)
    <2> DEFINE target == CHOOSE t \in Targets \ runtime.added : TRUE
    <2>1. target \in Targets
        BY <1>6
    <2>2. /\ worker' = Submit(worker, "AddTarget", target)
          /\ runtime' = [runtime EXCEPT !.added = @ \cup {target}]
          /\ Goto("adding") /\ queue' = queue
        BY <1>6 DEF SubmitTarget
    <2> HIDE DEF target
    <2> QED BY <1>3, <1>6, <2>1, <2>2
<1>7. CASE Targets \ runtime.added # {} /\ ~MaySubmit(worker)
    BY <1>4, <1>7 DEF SubmitTarget
<1>8. CASE Targets \ runtime.added = {}
    BY <1>4, <1>5, <1>8 DEF SubmitTarget
<1> QED BY <1>6, <1>7, <1>8

(* The answer to a registration preserves the invariant.                   *)
LEMMA TargetAddedKeeps ==
    ASSUME ObserverInvariant, TargetAdded
    PROVE  ObserverInvariant'
<1>1. /\ TypeOK /\ StartInv /\ WorkerInv(worker)
      /\ At("adding") /\ shell' = shell /\ reducer' = reducer
      /\ events' = events /\ ignored' = ignored
    BY DEF ObserverInvariant, TargetAdded, log
<1>2. /\ loop.pc \in {"submit", "adding"} /\ runtime.uiaStarted
      /\ loop.pc \in {"starting", "submit", "adding", "unwind"}
      /\ worker.phase \notin {"Created", "Starting"}
    BY <1>1 DEF At, StartInv
<1>3. NoFault \/ Fault(1)
    BY DEF TargetAdded
<1>4. faults' \in Nat
    BY <1>1, <1>3, FaultIs DEF TypeOK, NoFault
<1>5. ASSUME Answers(worker), worker' = Consume(worker)
      PROVE  /\ worker' \in Worker /\ WorkerInv(worker') /\ Quiet(worker')
             /\ worker'.phase = worker.phase
    BY <1>1, <1>5, ConsumeIs DEF TypeOK
<1>6. CASE FailStartup /\ worker' = worker
    BY <1>1, <1>2, <1>4, <1>6, FailStartupKeeps DEF TypeOK
<1>7. CASE Answers(worker) /\ worker' = Consume(worker) /\ FailStartup
    BY <1>1, <1>2, <1>4, <1>5, <1>7, FailStartupKeeps
<1>8. CASE Answers(worker) /\ worker' = Consume(worker) /\ Goto("submit")
           /\ UNCHANGED <<queue, runtime>>
    <2>1. /\ loop' \in Loop /\ loop'.pc = "submit" /\ Locals(loop, loop')
          /\ loop'.failed = loop.failed
        BY <1>1, <1>8, GotoIs DEF TypeOK, Positions, Startups
    <2>2. queue' = queue /\ runtime' = runtime
        BY <1>8
    <2>3. StartupStep
        BY <1>1, <1>4, <1>5, <1>8, <2>1, <2>2, QueueStays DEF TypeOK, StartupStep, Startups
    <2> QED BY <1>1, <1>2, <1>5, <1>8, <2>1, <2>2, <2>3, AfterKeeps
<1>9. \/ FailStartup /\ worker' = worker
      \/ Answers(worker) /\ worker' = Consume(worker) /\ FailStartup
      \/ Answers(worker) /\ worker' = Consume(worker) /\ Goto("submit")
         /\ UNCHANGED <<queue, runtime>>
    BY Zenon DEF TargetAdded, MayConsume
<1> QED BY <1>6, <1>7, <1>8, <1>9

(* A registration without an answer preserves the invariant.               *)
LEMMA TargetTimeoutKeeps ==
    ASSUME ObserverInvariant, TargetTimeout
    PROVE  ObserverInvariant'
<1>1. TypeOK /\ WorkerInv(worker)
    BY DEF ObserverInvariant
<1>2. /\ loop.pc \in {"submit", "adding"} /\ FailStartup
      /\ worker' = worker /\ faults' = faults /\ shell' = shell
      /\ reducer' = reducer /\ events' = events /\ ignored' = ignored
    BY DEF TargetTimeout, At, NoFault, log
<1> QED BY <1>1, <1>2, FailStartupKeeps DEF TypeOK

(* The stop of a worker during the startup preserves the invariant.        *)
LEMMA StopWorkerKeeps ==
    ASSUME ObserverInvariant, StopWorker
    PROVE  ObserverInvariant'
<1>1. /\ TypeOK /\ StartInv /\ WorkerInv(worker)
      /\ At("unwind") /\ runtime.uiaStarted /\ worker' = BeginStopping(worker)
      /\ queue' = queue /\ faults' = faults /\ shell' = shell /\ loop' = loop
      /\ runtime' = runtime /\ reducer' = reducer
      /\ events' = events /\ ignored' = ignored
    BY DEF ObserverInvariant, StopWorker, log
<1>2. loop.pc = "unwind"
    BY <1>1 DEF At
<1>3. /\ worker' \in Worker /\ WorkerInv(worker')
      /\ worker'.phase \notin {"Created", "Starting"}
    BY <1>1, BeginStoppingIs DEF TypeOK, StartInv
<1>4. StartupStep
    BY <1>1, <1>2, <1>3, QueueStays DEF TypeOK, StartupStep, Startups, Locals, SameLine
<1> QED BY <1>1, <1>2, <1>3, <1>4, AfterKeeps

(* The failure of a rollback is told, or the startup's own failure is not  *)
(* coherent with it.                                                       *)
LEMMA UnwindStartupKeeps ==
    ASSUME ObserverInvariant, UnwindStartup
    PROVE  ObserverInvariant'
<1>1. /\ TypeOK /\ StartInv /\ CleanInv /\ WorkerInv(worker)
      /\ At("unwind") /\ Joined /\ FailAt("begin")
      /\ queue' = RecordCoordinatorFailure(queue)
      /\ worker' = worker /\ reducer' = reducer
      /\ events' = events /\ ignored' = ignored
    BY DEF ObserverInvariant, UnwindStartup, log
<1>2. PICK outcome \in CleanupOutcomes(shell) :
          LET rollback == Merged(WorkerStatus, outcome.status)
              coherent == Coherent(runtime.origin, rollback)
          IN  /\ Fault(outcome.failed)
              /\ shell' = outcome.left
              /\ runtime' = [runtime EXCEPT
                    !.uiaStarted = FALSE,
                    !.cleanupComplete = rollback = "ok",
                    !.cleanupFailed = coherent /\ rollback # "ok",
                    !.unreported = ~coherent]
    BY DEF UnwindStartup
<1> DEFINE rollback == Merged(WorkerStatus, outcome.status)
           coherent == Coherent(runtime.origin, rollback)
           complete == rollback = "ok"
           failed == coherent /\ rollback # "ok"
           unreported == ~coherent
<1>3. /\ loop.pc = "unwind" /\ loop.pc \in Startups
      /\ ~runtime.cleanupFailed /\ ~runtime.unreported
      /\ runtime.awaiting = 0
    BY <1>1 DEF At, Startups, CleanInv, StartInv
<1>4. /\ worker.phase \in {"Created", "Joined"}
      /\ WorkerStatus \in {"ok", "contract", "transport"}
      /\ WorkerStatus = "ok" => worker.handlers = {}
    <2>1. CASE runtime.uiaStarted
        BY <1>1, <2>1 DEF Joined, WorkerStatus, WorkerInv, TypeOK, Worker
    <2>2. CASE ~runtime.uiaStarted
        <3>1. worker.handlers = {} /\ worker.phase \in {"Created", "Joined"}
            BY <1>1, <1>3, <2>2 DEF CleanInv, StartInv, At
        <3> QED BY <2>2, <3>1 DEF WorkerStatus
    <2> QED BY <2>1, <2>2
<1>5. /\ outcome.left \in Shell /\ outcome.failed \in Nat
      /\ outcome.status \in {"ok", "contract", "transport"}
      /\ outcome.status = "ok" => ~Subscribed(outcome.left)
    BY <1>1, CleanupIs DEF TypeOK
<1>6. rollback = "ok" => worker.handlers = {} /\ ~Subscribed(outcome.left)
    BY <1>4, <1>5, MergedIs
<1>7. /\ runtime' = [runtime EXCEPT !.uiaStarted = FALSE, !.cleanupComplete = complete,
                         !.cleanupFailed = failed, !.unreported = unreported]
      /\ shell' = outcome.left /\ Fault(outcome.failed)
    BY <1>2
<1>8. complete \in BOOLEAN /\ failed \in BOOLEAN /\ unreported \in BOOLEAN
    OBVIOUS
<1>9. /\ complete => worker.handlers = {} /\ ~Subscribed(outcome.left)
      /\ complete \/ failed \/ unreported
    BY <1>6
<1> HIDE DEF complete, failed, unreported, rollback, coherent
<1>10. /\ runtime' \in Runtime /\ runtime'.awaiting = runtime.awaiting
       /\ runtime'.cleanupComplete = complete /\ runtime'.cleanupFailed = failed
       /\ runtime'.unreported = unreported
    BY <1>1, <1>7, <1>8 DEF TypeOK, Runtime
<1>11. ~runtime'.uiaStarted
    <2>1. runtime'.uiaStarted = FALSE
        BY <1>1, <1>7 DEF TypeOK, Runtime
    <2> QED BY <2>1, Zenon
<1>12. /\ loop' \in Loop /\ loop'.pc = "begin" /\ Locals(loop, loop')
       /\ loop'.failed
    BY <1>1, FailAtIs DEF TypeOK, Positions, Startups
<1>13. Lowers(queue, queue', queue.next) /\ Emergency(queue')
    BY <1>1, QueueFails DEF TypeOK, Emergency
<1>14. faults' \in Nat
    BY <1>1, <1>5, <1>7, FaultIs DEF TypeOK
<1>15. StartupStep
    BY <1>1, <1>5, <1>7, <1>10, <1>12, <1>13, <1>14 DEF TypeOK, StartupStep, Startups
<1>16. /\ TypeOK' /\ LineInv(queue, loop, events, ignored)'
       /\ StopInv' /\ SleepInv'
       /\ queue'.slots = <<>> /\ loop'.backlog = <<>> /\ loop'.pending = 0
       /\ queue'.phase # "Running" /\ ~loop'.stopping
    BY <1>3, <1>15, StartupStepIs
<1>17. StartInv'
    BY <1>1, <1>3, <1>4, <1>10, <1>11, <1>12, <1>13, <1>16
       DEF StartInv, Down, At, BeforeWorker, Startups
<1>18. ShellInv'
    BY <1>11, <1>12 DEF ShellInv
<1>19. AwaitInv'
    BY <1>1, <1>4, <1>16 DEF AwaitInv
<1>20. CleanInv'
    <2>1. /\ runtime'.cleanupComplete => worker'.handlers = {} /\ ~Subscribed(shell')
          /\ worker'.handlers = {} \/ runtime'.cleanupFailed \/ runtime'.unreported
        BY <1>1, <1>7, <1>9, <1>10, Zenon
    <2>2. Subscribed(shell)' <=> Subscribed(shell')
        BY DEF Subscribed
    <2> QED BY <1>11, <1>12, <2>1, <2>2 DEF CleanInv, NothingLeftUnsaid, At
<1> QED BY <1>1, <1>16, <1>17, <1>18, <1>19, <1>20 DEF ObserverInvariant

(* The end of the startup, good or bad, preserves the invariant.           *)
LEMMA BeginObservationKeeps ==
    ASSUME ObserverInvariant, BeginObservation
    PROVE  ObserverInvariant'
<1>1. /\ TypeOK /\ StartInv /\ ShellInv /\ AwaitInv /\ CleanInv /\ WorkerInv(worker)
      /\ LineInv(queue, loop, events, ignored) /\ StopInv
      /\ At("begin") /\ worker' = worker /\ reducer' = reducer
      /\ faults' = faults /\ shell' = shell /\ runtime' = runtime
      /\ events' = events /\ ignored' = ignored
    BY DEF ObserverInvariant, BeginObservation, log, NoFault
<1>2. /\ loop.pc = "begin" /\ loop.pc \in Startups
      /\ ~loop.stopping /\ runtime.awaiting = 0
      /\ queue.slots = <<>> /\ loop.backlog = <<>> /\ loop.pending = 0
      /\ queue.phase # "Running"
      /\ ~runtime.uiaStarted => Emergency(queue)
    BY <1>1 DEF At, Startups, StartInv, Down
<1>3. /\ worker.phase = "Running" => Quiet(worker)
      /\ ~runtime.uiaStarted => worker.phase \in {"Created", "Joined"}
      /\ runtime.uiaStarted => worker.phase \notin {"Created", "Starting"}
      /\ runtime.uiaStarted => shell.subscriptions = shell.connections
    BY <1>1, <1>2 DEF At, AwaitInv, StartInv, ShellInv
<1>4. /\ runtime.uiaStarted => ~runtime.cleanupComplete
      /\ ~runtime.uiaStarted =>
            worker.handlers = {} \/ runtime.cleanupFailed \/ runtime.unreported
      /\ runtime.cleanupComplete => worker.handlers = {} /\ ~Subscribed(shell)
      /\ runtime.unreported => loop.failed
    BY <1>1 DEF CleanInv
<1>5. Quiet(worker)' <=> Quiet(worker)
    BY <1>1 DEF Quiet
<1>6. CASE Emergency(queue) /\ FailAt("stop") /\ queue' = queue
    <2>1. /\ loop' \in Loop /\ loop'.pc = "stop" /\ Locals(loop, loop')
          /\ loop'.failed
        BY <1>1, <1>6, FailAtIs DEF TypeOK, Positions, Startups
    <2>2. StartupStep
        BY <1>1, <1>6, <2>1, QueueStays DEF TypeOK, StartupStep, Startups
    <2>3. /\ TypeOK' /\ LineInv(queue, loop, events, ignored)'
          /\ StopInv' /\ SleepInv'
          /\ queue'.slots = <<>> /\ loop'.backlog = <<>> /\ loop'.pending = 0
          /\ queue'.phase # "Running" /\ ~loop'.stopping
          /\ Emergency(queue')
        BY <1>2, <1>6, <2>2, StartupStepIs
    <2>4. StartInv'
        BY <1>1, <1>3, <2>1, <2>3 DEF StartInv, Down, At, BeforeWorker, Startups
    <2>5. ShellInv'
        BY <1>1, <1>3, <2>1 DEF ShellInv
    <2>6. AwaitInv'
        BY <1>1, <1>3, <1>5, <2>3 DEF AwaitInv
    <2>7. CleanInv'
        <3>1. Subscribed(shell)' <=> Subscribed(shell)
            BY <1>1 DEF Subscribed
        <3> QED BY <1>1, <1>4, <2>1, <3>1 DEF CleanInv, NothingLeftUnsaid, At, Startups
    <2> QED BY <1>1, <2>3, <2>4, <2>5, <2>6, <2>7 DEF ObserverInvariant
<1>7. CASE ~Emergency(queue) /\ Goto("drain") /\ queue' = BeginRunning(queue)
    <2>1. /\ loop' \in Loop /\ loop'.pc = "drain" /\ Locals(loop, loop')
          /\ loop'.failed = loop.failed
        BY <1>1, <1>7, GotoIs DEF TypeOK, Positions, Startups
    <2>2. /\ queue' \in Queue
          /\ queue'.slots = queue.slots /\ queue'.next = queue.next
          /\ queue'.cutoff = queue.cutoff /\ queue'.inFlight = queue.inFlight
        BY <1>1, <1>7 DEF BeginRunning, TypeOK, Queue
    <2>3. runtime.uiaStarted
        BY <1>2, <1>7
    <2>4. TypeOK'
        BY <1>1, <2>1, <2>2 DEF TypeOK
    <2>5. LineInv(queue, loop, events, ignored)'
        <3>1. LineInv(queue, loop', events, ignored)
            BY <1>1, <2>1, QueueStays, LineKeeps DEF TypeOK, Locals
        <3>2. /\ \A n : BeforeCutoff(queue', n) <=> BeforeCutoff(queue, n)
              /\ Emergency(queue') <=> Emergency(queue)
              /\ PendingSequences(queue') = PendingSequences(queue)
            BY <2>2 DEF BeforeCutoff, Emergency, PendingSequences
        <3>3. SlotsInv(queue')
            BY <2>2, <3>1, <3>2 DEF LineInv, SlotsInv
        <3>4. SentInv(queue', loop', events)
            BY <2>2, <3>1, <3>2 DEF LineInv, SentInv
        <3>5. CoverInv(queue', loop', events, ignored)
            BY <2>2, <3>1, <3>2 DEF LineInv, CoverInv
        <3>6. LineInv(queue', loop', events, ignored)
            BY <3>1, <3>3, <3>4, <3>5 DEF LineInv
        <3> QED BY <1>1, <3>6
    <2>6. StartInv'
        BY <1>1, <1>3, <2>1, <2>3 DEF StartInv, Down, At, BeforeWorker, Startups
    <2>7. ShellInv'
        BY <1>1, <1>3, <2>3 DEF ShellInv
    <2>8. AwaitInv'
        BY <1>1, <1>2, <1>3, <1>5, <2>1 DEF AwaitInv, Locals, SameLine
    <2>9. CleanInv'
        BY <1>1, <1>4, <2>1, <2>3 DEF CleanInv, NothingLeftUnsaid, At, Startups
    <2>10. StopInv'
        <3>1. ~loop'.stopping /\ (loop'.timedOut => loop'.failed)
            BY <1>1, <1>2, <2>1, Zenon DEF Locals, StopInv
        <3> QED BY <2>1, <3>1 DEF StopInv, At
    <2>11. SleepInv'
        BY <2>1 DEF SleepInv
    <2> QED BY <1>1, <2>4, <2>5, <2>6, <2>7, <2>8, <2>9, <2>10, <2>11
            DEF ObserverInvariant
<1> QED BY <1>6, <1>7 DEF BeginObservation

-----------------------------------------------------------------------------
(* The loop.                                                               *)

Looping == {"drain", "process", "resume", "check", "wait", "pump", "respond"}

(* The types of what a step of the loop leaves.                            *)
Typed ==
    /\ loop' \in Loop /\ queue' \in Queue /\ faults' \in Nat
    /\ worker' \in Worker /\ shell' \in Shell /\ reducer' \in Reducer
    /\ runtime' \in Runtime
    /\ events' \in Seq(Sequences) /\ ignored' \subseteq Sequences

(* What all steps of the loop do to its locals, the queue, the worker, the *)
(* runtime and the shell.                                                  *)
LocalsGo ==
    /\ loop'.pc \in Looping \cup {"stop", "cleanup"}
    /\ loop'.stopping <=> loop.stopping
    /\ loop.failed => loop'.failed
    /\ loop'.timedOut => loop'.failed
    /\ loop'.pc = "stop" => ~loop'.stopping
    /\ loop'.pc = "cleanup" =>
          loop'.stopping /\ (loop'.timedOut \/ Settled')
    /\ queue.slots = <<>> /\ loop.backlog = <<>> /\ loop.pending = 0 =>
          loop'.backlog = <<>> /\ loop'.pending = 0

QueueGoes ==
    /\ Emergency(queue) => Emergency(queue')
    /\ queue.phase = "Stopping" => queue'.phase = "Stopping"
    /\ queue'.phase = "Running" => queue.phase = "Running"
    /\ queue.slots = <<>> => queue'.slots = <<>>
    /\ Emergency(queue') /\ ~loop'.failed =>
          /\ loop.pc # "drain" /\ Emergency(queue) /\ queue'.slots = queue.slots

WorkerGoes ==
    /\ WorkerInv(worker')
    /\ worker'.phase = worker.phase /\ worker'.handlers = worker.handlers

RuntimeGoes ==
    /\ runtime'.uiaStarted <=> runtime.uiaStarted
    /\ runtime'.cleanupComplete <=> runtime.cleanupComplete
    /\ runtime'.cleanupFailed <=> runtime.cleanupFailed
    /\ runtime'.unreported <=> runtime.unreported

ShellGoes ==
    \/ shell' = shell
    \/ runtime.uiaStarted /\ shell'.subscriptions = shell'.connections

(* What is left to show of a step of the loop.                             *)
LEMMA LoopKeeps ==
    ASSUME ObserverInvariant, loop.pc \in Looping,
           Typed, LocalsGo, QueueGoes, WorkerGoes, RuntimeGoes, ShellGoes,
           LineInv(queue', loop', events', ignored'), AwaitInv', SleepInv'
    PROVE  ObserverInvariant'
<1>1. TypeOK /\ StartInv /\ ShellInv /\ CleanInv /\ StopInv
    BY DEF ObserverInvariant
<1>2. TypeOK'
    BY DEF Typed, TypeOK
<1>3. loop.pc \notin Startups /\ loop'.pc \notin Startups /\ loop'.pc # "done"
      /\ loop.pc # "done"
    BY DEF Looping, LocalsGo, Startups
<1>4. StartInv'
    <2>1. ~runtime.uiaStarted =>
              /\ queue.slots = <<>> /\ loop.backlog = <<>> /\ loop.pending = 0
              /\ queue.phase # "Running" /\ Emergency(queue)
              /\ worker.phase \in {"Created", "Joined"}
        BY <1>1, <1>3 DEF StartInv, Down, At, Startups
    <2>2. ~runtime'.uiaStarted =>
              /\ queue'.slots = <<>> /\ loop'.backlog = <<>> /\ loop'.pending = 0
              /\ queue'.phase # "Running" /\ Emergency(queue')
              /\ worker'.phase \in {"Created", "Joined"}
        BY <2>1 DEF LocalsGo, QueueGoes, WorkerGoes, RuntimeGoes
    <2>3. runtime'.uiaStarted => worker'.phase \notin {"Created", "Starting"}
        BY <1>1 DEF StartInv, RuntimeGoes, WorkerGoes
    <2> QED BY <1>3, <2>2, <2>3 DEF StartInv, Down, At, BeforeWorker, Startups
<1>5. ShellInv'
    <2>1. runtime'.uiaStarted => shell'.subscriptions = shell'.connections
        BY <1>1 DEF ShellInv, ShellGoes, RuntimeGoes
    <2> QED BY <1>3, <2>1 DEF ShellInv, Startups
<1>6. CleanInv'
    <2>1. shell' = shell \/ ~runtime.cleanupComplete
        BY <1>1 DEF CleanInv, ShellGoes
    <2>2. runtime.cleanupComplete => ~Subscribed(shell')
        BY <1>1, <2>1 DEF CleanInv, Subscribed
    <2>3. Subscribed(shell)' <=> Subscribed(shell')
        BY DEF Subscribed
    <2> QED BY <1>1, <1>3, <2>2, <2>3
            DEF CleanInv, NothingLeftUnsaid, At, RuntimeGoes, WorkerGoes, LocalsGo
<1>7. StopInv'
    <2>1. loop.stopping /\ Emergency(queue) /\ ~loop.failed =>
              loop.pc = "drain" \/ queue.slots # <<>>
        BY <1>1 DEF StopInv, At
    <2>2. loop'.stopping => queue'.phase = "Stopping"
        BY <1>1 DEF StopInv, LocalsGo, QueueGoes
    <2> QED BY <1>3, <2>1, <2>2 DEF StopInv, At, LocalsGo, QueueGoes
<1>8. WorkerInv(worker)'
    BY DEF WorkerGoes
<1> QED BY <1>2, <1>4, <1>5, <1>6, <1>7, <1>8 DEF ObserverInvariant

(* What waits is the same, or nothing does any more.                       *)
LEMMA AwaitKeeps ==
    ASSUME AwaitInv, loop.pc \notin {"adding", "unwind"},
           worker' = worker, runtime'.awaiting = runtime.awaiting,
           \/ loop'.pending = 0
           \/ loop'.pending = loop.pending /\ reducer' = reducer
    PROVE  AwaitInv'
<1>1. Quiet(worker)' <=> Quiet(worker)
    BY DEF Quiet
<1>2. OnTheWay(runtime.awaiting)' <=> OnTheWay(runtime.awaiting)
    BY DEF OnTheWay
<1> QED BY <1>1, <1>2 DEF AwaitInv

(* The coordinator has the same reason to sleep, or it has failed itself.  *)
LEMMA SleepKeeps ==
    ASSUME SleepInv, loop.pc \in {"process", "check", "wait"},
           queue'.slots = queue.slots, Told(queue, queue'),
           Emergency(queue') => Emergency(queue) \/ loop'.failed,
           loop.failed => loop'.failed
    PROVE  SleepInv'
<1>1. Ready(queue') = Ready(queue)
    BY DEF Ready
<1> QED BY <1>1 DEF SleepInv, Told

(* What is drained as ignored are sequences, and from no slots come no     *)
(* events.                                                                 *)
LEMMA DrainedIgnoredIs ==
    ASSUME NEW q \in Queue
    PROVE  DrainedIgnored(q) \subseteq Sequences
<1>1. Ready(q) \in Seq(Slot)
    BY ReadyIs
<1>2. \A slot \in ToSet(Ready(q)) : slot \in Slot
    BY <1>1 DEF ToSet
<1>3. \A slot \in Slot : slot.sequence \in Sequences
    BY DEF Slot, Sequences
<1> QED BY <1>2, <1>3 DEF DrainedIgnored

(* A drain of no slots gives no events.                                    *)
LEMMA NothingDrained ==
    ASSUME NEW q \in Queue, SlotsInv(q), q.slots = <<>>
    PROVE  Drained(q) = <<>> /\ AfterDrain(q).slots = <<>>
<1>1. /\ Drained(q) \in Seq(Envelope) /\ Len(Drained(q)) \in Nat
      /\ \A i \in 1..Len(Drained(q)) :
            \E j \in DOMAIN q.slots : Drained(q)[i].sequence = q.slots[j].sequence
    BY DrainedAre
<1>2. Len(Drained(q)) = 0
    BY <1>1
<1>3. AfterDrain(q) \in Queue /\ Len(AfterDrain(q).slots) = Len(q.slots) - Len(Ready(q))
      /\ Len(Ready(q)) \in 0..Len(q.slots)
    BY AfterDrainIs, ReadyIs
<1>4. AfterDrain(q).slots \in Seq(Slot) /\ Len(AfterDrain(q).slots) = 0
    BY <1>3 DEF Queue
<1> QED BY <1>1, <1>2, <1>4

(* A drain preserves the invariant.                                        *)
LEMMA DrainCallbacksKeeps ==
    ASSUME ObserverInvariant, DrainCallbacks
    PROVE  ObserverInvariant'
<1>1. /\ TypeOK /\ AwaitInv /\ WorkerInv(worker) /\ StopInv
      /\ LineInv(queue, loop, events, ignored) /\ SlotsInv(queue)
      /\ At("drain") /\ worker' = worker /\ shell' = shell /\ runtime' = runtime
      /\ reducer' = reducer /\ events' = events
      /\ ignored' = ignored \cup DrainedIgnored(queue)
    BY DEF ObserverInvariant, DrainCallbacks, LineInv
<1>2. loop.pc = "drain" /\ loop.pc \in Looping /\ loop.pc \notin {"adding", "unwind"}
    BY <1>1 DEF At, Looping
<1> DEFINE drained == Drained(queue)
           after == AfterDrain(queue)
           failed == loop.failed \/ Emergency(queue)
           l == [loop EXCEPT !.pc = "process", !.failed = failed]
<1>3. /\ drained \in Seq(Envelope) /\ Len(drained) \in Nat
      /\ DOMAIN drained = 1..Len(drained)
      /\ \A i \in 1..Len(drained) : drained[i].sequence \in Sequences
    BY <1>1, DrainedAre DEF TypeOK, Sequences
<1>4. /\ after \in Queue /\ after.phase = queue.phase /\ after.cutoff = queue.cutoff
      /\ Ready(after) = <<>>
    BY <1>1, AfterDrainIs DEF TypeOK
<1>5. queue.slots = <<>> => drained = <<>> /\ after.slots = <<>>
    BY <1>1, NothingDrained DEF TypeOK
<1>6. ignored' \subseteq Sequences
    BY <1>1, DrainedIgnoredIs DEF TypeOK
<1>7. failed \in BOOLEAN
    BY <1>1 DEF TypeOK, Loop, Emergency
<1>8. \/ /\ NoFault /\ queue' = after
         /\ loop' = IF loop.fatal # 0 THEN l
                    ELSE [l EXCEPT !.backlog = @ \o drained]
      \/ \E k \in DOMAIN drained :
            /\ loop.fatal = 0
            /\ Fault(1)
            /\ queue' = RecordEventFailure(after, drained[k].sequence)
            /\ loop' = [l EXCEPT !.backlog = @ \o SubSeq(drained, 1, k - 1),
                                 !.fatal = drained[k].sequence, !.failed = TRUE]
    BY DEF DrainCallbacks
<1>9. ASSUME queue' = after, NoFault, NEW b \in Seq(Envelope),
             loop' = [loop EXCEPT !.pc = "process", !.failed = failed, !.backlog = b],
             b = IF loop.fatal # 0 THEN loop.backlog ELSE loop.backlog \o drained
      PROVE  ObserverInvariant'
    <2>1. queue.slots = <<>> /\ loop.backlog = <<>> => b = <<>>
        BY <1>5, <1>9
    <2> HIDE DEF failed, drained, after
    <2>2. /\ loop' \in Loop /\ loop'.pc = "process" /\ loop'.backlog = b
          /\ loop'.pending = loop.pending /\ loop'.fatal = loop.fatal
          /\ loop'.stopping = loop.stopping /\ loop'.timedOut = loop.timedOut
          /\ loop'.failed = failed
        BY <1>1, <1>7, <1>9 DEF TypeOK, Loop
    <2>3. /\ loop'.failed <=> (loop.failed \/ Emergency(queue))
          /\ loop'.timedOut => loop'.failed
        BY <1>1, <2>2, Zenon DEF failed, StopInv
    <2>4. LineInv(after, loop', events, ignored \cup DrainedIgnored(queue))
        BY <1>1, <1>9, <2>2, LineDrains DEF TypeOK, drained, after
    <2>5. Typed
        BY <1>1, <1>4, <1>6, <1>9, <2>2 DEF Typed, TypeOK, NoFault
    <2>6. LocalsGo
        BY <2>1, <2>2, <2>3 DEF LocalsGo, Looping
    <2>7. QueueGoes
        BY <1>4, <1>5, <1>9, <2>3 DEF QueueGoes, Emergency
    <2>8. WorkerGoes /\ RuntimeGoes /\ ShellGoes
        BY <1>1 DEF WorkerGoes, RuntimeGoes, ShellGoes
    <2>9. AwaitInv'
        BY <1>1, <1>2, <2>2, AwaitKeeps
    <2>10. SleepInv'
        BY <1>4, <1>9, <2>3 DEF SleepInv, Emergency
    <2>11. LineInv(queue', loop', events', ignored')
        BY <1>1, <1>9, <2>4
    <2> QED BY <1>2, <2>5, <2>6, <2>7, <2>8, <2>9, <2>10, <2>11, LoopKeeps
<1>10. ASSUME NEW k \in DOMAIN drained, Fault(1),
              queue' = RecordEventFailure(after, drained[k].sequence),
              NEW b \in Seq(Envelope), b = loop.backlog \o SubSeq(drained, 1, k - 1),
              loop' = [loop EXCEPT !.pc = "process", !.failed = TRUE, !.backlog = b,
                                   !.fatal = drained[k].sequence]
       PROVE  ObserverInvariant'
    <2>1. queue.slots # <<>>
        BY <1>5, <1>10
    <2> DEFINE n == drained[k].sequence
    <2>2. n \in Sequences /\ n \in 0..MaxCallbacks
        BY <1>3, <1>10 DEF Sequences
    <2> HIDE DEF failed, n, after, drained
    <2>3. /\ loop' \in Loop /\ loop'.pc = "process" /\ loop'.backlog = b
          /\ loop'.pending = loop.pending /\ loop'.fatal = n
          /\ loop'.stopping = loop.stopping
        BY <1>1, <1>10, <2>2 DEF TypeOK, Loop, n
    <2>4. loop'.failed
        <3>1. loop'.failed = TRUE
            BY <1>1, <1>10 DEF TypeOK, Loop
        <3> QED BY <3>1, Zenon
    <2> DEFINE r == RecordEventFailure(after, n)
    <2>5. /\ Lowers(after, r, n) /\ Told(after, r) /\ r.cutoff # 0
          /\ r.phase # "Running"
          /\ LineInv(r, loop', events, ignored \cup DrainedIgnored(queue))
        BY <1>1, <1>10, <2>3, LineDrainsSome DEF TypeOK, n, drained, after
    <2>6. queue' = r
        BY <1>10 DEF n
    <2> HIDE DEF r
    <2>7. Typed
        BY <1>1, <1>6, <1>10, <2>3, <2>5, <2>6, FaultIs DEF Typed, TypeOK, Lowers
    <2>8. LocalsGo
        BY <2>1, <2>3, <2>4 DEF LocalsGo, Looping
    <2>9. QueueGoes
        BY <1>4, <2>1, <2>4, <2>5, <2>6 DEF QueueGoes, Emergency, Lowers
    <2>10. WorkerGoes /\ RuntimeGoes /\ ShellGoes
        BY <1>1 DEF WorkerGoes, RuntimeGoes, ShellGoes
    <2>11. AwaitInv'
        BY <1>1, <1>2, <2>3, AwaitKeeps
    <2>12. SleepInv'
        <3>1. Ready(r) = Ready(after)
            BY <2>5 DEF Lowers, Ready
        <3> QED BY <1>4, <2>4, <2>6, <3>1 DEF SleepInv
    <2>13. LineInv(queue', loop', events', ignored')
        BY <1>1, <2>5, <2>6
    <2> QED BY <1>2, <2>7, <2>8, <2>9, <2>10, <2>11, <2>12, <2>13, LoopKeeps
<1>11. CASE /\ NoFault /\ queue' = after
            /\ loop' = IF loop.fatal # 0 THEN l
                       ELSE [l EXCEPT !.backlog = @ \o drained]
    <2> DEFINE b == IF loop.fatal # 0 THEN loop.backlog ELSE loop.backlog \o drained
    <2>1. b \in Seq(Envelope)
        BY <1>1, <1>3, ConcatIs DEF TypeOK, Loop
    <2>2. loop' = [loop EXCEPT !.pc = "process", !.failed = failed, !.backlog = b]
        BY <1>1, <1>11 DEF TypeOK, Loop
    <2> HIDE DEF b, failed, drained, after, l
    <2>3. b = IF loop.fatal # 0 THEN loop.backlog ELSE loop.backlog \o drained
        BY DEF b
    <2> QED BY <1>9, <1>11, <2>1, <2>2, <2>3
<1>12. ASSUME NEW k \in DOMAIN drained, Fault(1),
              queue' = RecordEventFailure(after, drained[k].sequence),
              loop' = [l EXCEPT !.backlog = @ \o SubSeq(drained, 1, k - 1),
                                !.fatal = drained[k].sequence, !.failed = TRUE]
       PROVE  ObserverInvariant'
    <2> DEFINE b == loop.backlog \o SubSeq(drained, 1, k - 1)
    <2>1. SubSeq(drained, 1, k - 1) \in Seq(Envelope)
        BY <1>3, <1>12
    <2>2. b \in Seq(Envelope)
        BY <1>1, <2>1, ConcatIs DEF TypeOK, Loop
    <2>3. loop' = [loop EXCEPT !.pc = "process", !.failed = TRUE, !.backlog = b,
                                   !.fatal = drained[k].sequence]
        BY <1>1, <1>12 DEF TypeOK, Loop
    <2> HIDE DEF b, failed, drained, after, l
    <2>4. b = loop.backlog \o SubSeq(drained, 1, k - 1)
        BY DEF b
    <2> QED BY <1>10, <1>12, <2>2, <2>3, <2>4
<1> HIDE DEF drained, after, l, failed
<1> QED BY <1>8, <1>11, <1>12

(* A step of the coordinator that only moves it, and may fail it.          *)
LEMMA MoveKeeps ==
    ASSUME ObserverInvariant, loop.pc \in Looping,
           loop' \in Loop, SameLine(loop, loop'), LocalsGo,
           Lowers(queue, queue', queue.next), faults' \in Nat,
           Emergency(queue') /\ ~loop'.failed => loop.pc # "drain" /\ Emergency(queue),
           worker' = worker, shell' = shell, runtime' = runtime,
           reducer' = reducer, events' = events, ignored' = ignored,
           SleepInv'
    PROVE  ObserverInvariant'
<1>1. /\ TypeOK /\ AwaitInv /\ WorkerInv(worker)
      /\ LineInv(queue, loop, events, ignored)
    BY DEF ObserverInvariant
<1>2. Typed
    BY <1>1 DEF Typed, TypeOK, Lowers
<1>3. QueueGoes
    BY DEF QueueGoes, Lowers, Emergency
<1>4. WorkerGoes /\ RuntimeGoes /\ ShellGoes
    BY <1>1 DEF WorkerGoes, RuntimeGoes, ShellGoes
<1>5. LineInv(queue', loop', events', ignored')
    BY <1>1, LineKeeps DEF TypeOK
<1>6. AwaitInv'
    BY <1>1, AwaitKeeps DEF Looping, SameLine
<1> QED BY <1>2, <1>3, <1>4, <1>5, <1>6, LoopKeeps

(* It fails, wherever it goes on.                                          *)
LEMMA FailsKeeps ==
    ASSUME ObserverInvariant, loop.pc \in Looping,
           NEW pc \in Looping \cup {"stop"}, pc \notin {"process", "wait"},
           pc = "stop" => ~loop.stopping, FailAt(pc),
           Lowers(queue, queue', queue.next), faults' \in Nat,
           worker' = worker, shell' = shell, runtime' = runtime,
           reducer' = reducer, events' = events, ignored' = ignored,
           pc = "check" => Heard(queue')
    PROVE  ObserverInvariant'
<1>1. TypeOK
    BY DEF ObserverInvariant
<1>2. /\ loop' \in Loop /\ loop'.pc = pc /\ Locals(loop, loop') /\ loop'.failed
    BY <1>1, FailAtIs DEF TypeOK, Positions, Startups, Looping
<1>3. loop'.stopping <=> loop.stopping
    BY <1>2, Zenon DEF Locals
<1>4. SameLine(loop, loop')
    BY <1>2 DEF Locals
<1>5. LocalsGo
    BY <1>2, <1>3, <1>4 DEF LocalsGo, SameLine, Looping
<1>6. SleepInv'
    BY <1>2 DEF SleepInv, Heard
<1> QED BY <1>2, <1>4, <1>5, <1>6, MoveKeeps

(* It goes on with what it has.                                            *)
LEMMA GoesOnKeeps ==
    ASSUME ObserverInvariant, loop.pc \in Looping \ {"drain"},
           NEW pc \in Looping \cup {"stop"},
           pc = "stop" => ~loop.stopping, Goto(pc),
           pc \in {"process", "check", "wait"} => loop.pc \in {"process", "check", "wait"},
           queue'.slots = queue.slots, queue'.cutoff = queue.cutoff,
           Lowers(queue, queue', queue.next), faults' = faults,
           worker' = worker, shell' = shell, runtime' = runtime,
           reducer' = reducer, events' = events, ignored' = ignored,
           pc \in {"process", "check", "wait"} => queue' = queue
    PROVE  ObserverInvariant'
<1>1. TypeOK /\ StopInv /\ SleepInv
    BY DEF ObserverInvariant
<1>2. /\ loop' \in Loop /\ loop'.pc = pc /\ Locals(loop, loop')
      /\ loop'.failed = loop.failed
    BY <1>1, GotoIs DEF TypeOK, Positions, Startups, Looping
<1>3. /\ loop'.stopping <=> loop.stopping
      /\ loop'.failed <=> loop.failed
      /\ loop'.timedOut => loop'.failed
    BY <1>1, <1>2, Zenon DEF Locals, StopInv
<1>4. SameLine(loop, loop')
    BY <1>2 DEF Locals
<1>5. LocalsGo
    BY <1>2, <1>3, <1>4 DEF LocalsGo, SameLine, Looping
<1>6. SleepInv'
    <2>1. CASE pc \in {"process", "check", "wait"}
        BY <1>1, <1>3, <2>1, SleepKeeps DEF Told
    <2>2. CASE pc \notin {"process", "check", "wait"}
        BY <1>2, <2>2 DEF SleepInv
    <2> QED BY <2>1, <2>2
<1>7. faults' \in Nat
    BY <1>1 DEF TypeOK
<1>8. Emergency(queue') /\ ~loop'.failed => loop.pc # "drain" /\ Emergency(queue)
    BY DEF Emergency
<1> QED BY <1>2, <1>4, <1>5, <1>6, <1>7, <1>8, MoveKeeps

(* A drain that fails preserves the invariant.                             *)
LEMMA DrainingFailsKeeps ==
    ASSUME ObserverInvariant, DrainingFails
    PROVE  ObserverInvariant'
<1>1. /\ TypeOK /\ LineInv(queue, loop, events, ignored)
      /\ At("drain") /\ worker' = worker /\ shell' = shell /\ runtime' = runtime
      /\ reducer' = reducer /\ events' = events /\ ignored' = ignored
      /\ FailAt("check")
    BY DEF ObserverInvariant, DrainingFails, log
<1>2. loop.pc \in Looping
    BY <1>1 DEF At, Looping
<1>3. PICK signal \in Signals :
          /\ Fault((IF Unsound(queue) = {} THEN 1 ELSE 0) + Failing(signal))
          /\ queue' = DrainFails(queue, signal)
    BY DEF DrainingFails
<1>4. faults' \in Nat
    <2> DEFINE n == (IF Unsound(queue) = {} THEN 1 ELSE 0) + Failing(signal)
    <2>1. n \in Nat
        BY FailingIs
    <2> QED BY <1>1, <1>3, <2>1, FaultIs DEF TypeOK
<1>5. Unsound(queue) = {}
    <2>1. /\ Ready(queue) \in Seq(Slot) /\ Len(Ready(queue)) \in 0..Len(queue.slots)
          /\ \A i \in 1..Len(Ready(queue)) : Ready(queue)[i] = queue.slots[i]
        BY <1>1, ReadyIs DEF TypeOK
    <2>2. DOMAIN queue.slots = 1..Len(queue.slots) /\ Len(queue.slots) \in Nat
        BY <1>1, SlotsAre DEF TypeOK
    <2>3. \A slot \in ToSet(Ready(queue)) : \E i \in DOMAIN queue.slots :
              slot = queue.slots[i]
        BY <2>1, <2>2 DEF ToSet
    <2>4. \A i \in DOMAIN queue.slots : queue.slots[i].state = "Failure" =>
              ~BeforeCutoff(queue, queue.slots[i].sequence)
        BY <1>1 DEF LineInv, SlotsInv
    <2> QED BY <2>3, <2>4 DEF Unsound
<1>6. queue' = SignalWake(RecordEmergency(queue, queue.next), queue.next, signal)
    BY <1>3, <1>5 DEF DrainFails
<1>7. Lowers(queue, queue', queue.next) /\ Heard(queue')
    BY <1>1, <1>6, RefusalIs DEF TypeOK
<1> QED BY <1>1, <1>2, <1>4, <1>7, FailsKeeps DEF Looping

(* The end of the backlog preserves the invariant.                         *)
LEMMA BacklogDoneKeeps ==
    ASSUME ObserverInvariant, BacklogDone
    PROVE  ObserverInvariant'
<1>1. /\ TypeOK /\ loop.pc \in {"process", "resume"}
      /\ Goto(IF At("process") THEN "check" ELSE "drain")
      /\ queue' = queue /\ faults' = faults
      /\ worker' = worker /\ shell' = shell /\ runtime' = runtime
      /\ reducer' = reducer /\ events' = events /\ ignored' = ignored
    BY DEF ObserverInvariant, BacklogDone, log
<1> DEFINE pc == IF At("process") THEN "check" ELSE "drain"
<1>2. pc \in Looping /\ pc # "stop" /\ (pc = "check" => loop.pc = "process")
      /\ (pc # "check" => pc = "drain")
    BY DEF Looping, At
<1>3. Goto(pc)
    BY <1>1
<1> HIDE DEF pc
<1> QED BY <1>1, <1>2, <1>3, QueueStays, GoesOnKeeps DEF Looping, TypeOK

(* The check of the stop conditions preserves the invariant.               *)
LEMMA CheckKeeps ==
    ASSUME ObserverInvariant, Check
    PROVE  ObserverInvariant'
<1>1. /\ TypeOK /\ StopInv /\ SleepInv /\ At("check")
      /\ queue' = queue /\ faults' = faults
      /\ worker' = worker /\ shell' = shell /\ runtime' = runtime
      /\ reducer' = reducer /\ events' = events /\ ignored' = ignored
    BY DEF ObserverInvariant, Check, log
<1>2. loop.pc = "check" /\ loop.pc \in Looping
    BY <1>1 DEF At, Looping
<1>3. CASE ~loop.stopping
    <2> DEFINE pc == IF loop.failed THEN "stop" ELSE "wait"
    <2>1. Goto(pc)
        BY <1>3 DEF Check, Goto
    <2>2. pc \in Looping \cup {"stop"}
        BY DEF Looping
    <2> HIDE DEF pc
    <2> QED BY <1>1, <1>2, <1>3, <2>1, <2>2, QueueStays, GoesOnKeeps DEF TypeOK, Looping
<1>4. CASE loop.stopping
    <2> DEFINE pc == CASE Settled \/ loop.timedOut -> "cleanup"
                       [] ~loop.looked -> "drain"
                       [] OTHER -> "wait"
    <2>1. loop' = [loop EXCEPT !.looked = TRUE, !.pc = pc]
        BY <1>4 DEF Check
    <2>2. pc \in {"cleanup", "drain", "wait"} /\ (pc = "cleanup" => Settled \/ loop.timedOut)
        BY DEF Settled
    <2> HIDE DEF pc
    <2>3. /\ loop' \in Loop /\ loop'.pc = pc /\ SameLine(loop, loop')
          /\ loop'.stopping = loop.stopping /\ loop'.timedOut = loop.timedOut
          /\ loop'.failed = loop.failed
        BY <1>1, <2>1, <2>2 DEF TypeOK, Loop, SameLine
    <2>4. /\ loop'.stopping <=> loop.stopping
          /\ loop'.failed <=> loop.failed
          /\ loop'.timedOut <=> loop.timedOut
          /\ loop'.timedOut => loop'.failed
        BY <1>1, <2>3, Zenon DEF StopInv
    <2>5. Settled => Settled'
        BY <1>1, <2>3 DEF Settled, IsQuiescent, SameLine
    <2>6. LocalsGo
        BY <1>4, <2>2, <2>3, <2>4, <2>5 DEF LocalsGo, SameLine, Looping
    <2>7. SleepInv'
        BY <1>1, <1>2, <2>4, SleepKeeps DEF Told
    <2>8. faults' \in Nat /\ Lowers(queue, queue', queue.next)
        BY <1>1, QueueStays DEF TypeOK
    <2> QED BY <1>1, <1>2, <2>3, <2>4, <2>6, <2>7, <2>8, MoveKeeps DEF Emergency
<1> QED BY <1>3, <1>4

(* What the coordinator has heard it does not hear again; else the queue   *)
(* stays as it is.                                                         *)
LEMMA QueueHears ==
    ASSUME NEW q \in Queue, NEW r,
           r = [q EXCEPT !.wake = FALSE] \/ r = [q EXCEPT !.posted = FALSE]
    PROVE  Lowers(q, r, q.next) /\ r.slots = q.slots /\ r.cutoff = q.cutoff
<1>1. /\ r \in Queue
      /\ r.slots = q.slots /\ r.next = q.next /\ r.inFlight = q.inFlight
      /\ r.cutoff = q.cutoff /\ r.phase = q.phase
    <2>1. CASE r = [q EXCEPT !.wake = FALSE]
        BY <2>1 DEF Queue
    <2>2. CASE r = [q EXCEPT !.posted = FALSE]
        BY <2>2 DEF Queue
    <2> QED BY <2>1, <2>2
<1>2. q.cutoff <= q.cutoff
    BY SlotsAre
<1> QED BY <1>1, <1>2 DEF Lowers

(* A wait that ends at the deadline preserves the invariant.               *)
LEMMA WaitDeadlineKeeps ==
    ASSUME ObserverInvariant, WaitDeadline
    PROVE  ObserverInvariant'
<1>1. /\ TypeOK /\ At("wait") /\ faults' = faults
      /\ worker' = worker /\ shell' = shell /\ runtime' = runtime
      /\ reducer' = reducer /\ events' = events /\ ignored' = ignored
    BY DEF ObserverInvariant, WaitDeadline, log, NoFault
<1>2. loop.pc = "wait" /\ loop.pc \in Looping
    BY <1>1 DEF At, Looping
<1>3. CASE ~loop.stopping
    BY <1>1, <1>2, <1>3, QueueStays, GoesOnKeeps DEF TypeOK, Looping, WaitDeadline
<1>4. CASE loop.stopping
    <2>1. /\ queue' = RecordCoordinatorFailure(queue)
          /\ loop' = [loop EXCEPT !.pc = "cleanup", !.failed = TRUE, !.timedOut = TRUE]
        BY <1>4 DEF WaitDeadline
    <2>2. Lowers(queue, queue', queue.next)
        BY <1>1, <2>1, QueueFails DEF TypeOK
    <2>3. /\ loop' \in Loop /\ loop'.pc = "cleanup" /\ SameLine(loop, loop')
          /\ loop'.stopping = loop.stopping
        BY <1>1, <2>1 DEF TypeOK, Loop, SameLine
    <2>4. loop'.failed = TRUE /\ loop'.timedOut = TRUE
        BY <1>1, <2>1 DEF TypeOK, Loop
    <2>5. /\ loop'.failed /\ loop'.timedOut
          /\ loop'.stopping
        BY <1>4, <2>3, <2>4, Zenon
    <2>6. LocalsGo
        BY <1>4, <2>3, <2>5 DEF LocalsGo, SameLine
    <2>7. SleepInv'
        BY <2>3 DEF SleepInv
    <2> QED BY <1>1, <1>2, <2>2, <2>3, <2>5, <2>6, <2>7, MoveKeeps DEF TypeOK
<1> QED BY <1>3, <1>4

(* The other ends of the wait preserve the invariant.                      *)
LEMMA WaitsKeep ==
    ASSUME ObserverInvariant,
           WaitWake \/ WaitResponse \/ WaitMessage \/ WaitFails
    PROVE  ObserverInvariant'
<1>1. /\ TypeOK /\ loop.pc = "wait" /\ loop.pc \in Looping
      /\ worker' = worker /\ shell' = shell /\ runtime' = runtime
      /\ reducer' = reducer /\ events' = events /\ ignored' = ignored
    BY DEF ObserverInvariant, WaitWake, WaitResponse, WaitMessage, WaitFails, log,
           At, Looping
<1>2. CASE WaitWake
    <2>1. /\ queue' = [queue EXCEPT !.wake = FALSE] /\ Goto("drain") /\ faults' = faults
        BY <1>2 DEF WaitWake, NoFault
    <2>2. /\ Lowers(queue, queue', queue.next)
          /\ queue'.slots = queue.slots /\ queue'.cutoff = queue.cutoff
        BY <1>1, <2>1, QueueHears DEF TypeOK
    <2> QED BY <1>1, <2>1, <2>2, GoesOnKeeps DEF Looping
<1>3. CASE WaitResponse
    <2>1. Goto("respond") /\ queue' = queue /\ faults' = faults
        BY <1>3 DEF WaitResponse
    <2> QED BY <1>1, <2>1, QueueStays, GoesOnKeeps DEF TypeOK, Looping
<1>4. CASE WaitMessage
    <2>1. Goto("pump") /\ queue' = queue /\ faults' = faults
        BY <1>4 DEF WaitMessage
    <2> QED BY <1>1, <2>1, QueueStays, GoesOnKeeps DEF TypeOK, Looping
<1>5. CASE WaitFails
    <2> DEFINE pc == IF loop.stopping THEN "drain" ELSE "stop"
    <2>1. Fault(1) /\ queue' = RecordCoordinatorFailure(queue) /\ FailAt(pc)
        BY <1>5 DEF WaitFails
    <2>2. faults' \in Nat
        BY <1>1, <2>1, FaultIs DEF TypeOK
    <2>3. Lowers(queue, queue', queue.next)
        BY <1>1, <2>1, QueueFails DEF TypeOK
    <2>4. pc \in {"drain", "stop"} /\ (pc = "stop" => ~loop.stopping)
        OBVIOUS
    <2> HIDE DEF pc
    <2> QED BY <1>1, <2>1, <2>2, <2>3, <2>4, FailsKeeps DEF Looping
<1> QED BY <1>2, <1>3, <1>4, <1>5

(* The message pump preserves the invariant.                               *)
LEMMA PumpMessagesKeeps ==
    ASSUME ObserverInvariant, PumpMessages
    PROVE  ObserverInvariant'
<1>1. /\ TypeOK /\ loop.pc = "pump" /\ loop.pc \in Looping
      /\ worker' = worker /\ shell' = shell /\ runtime' = runtime
      /\ reducer' = reducer /\ events' = events /\ ignored' = ignored
    BY DEF ObserverInvariant, PumpMessages, log, At, Looping
<1>2. CASE NoFault /\ queue' = [queue EXCEPT !.posted = FALSE] /\ Goto("drain")
    <2>1. /\ Lowers(queue, queue', queue.next)
          /\ queue'.slots = queue.slots /\ queue'.cutoff = queue.cutoff
        BY <1>1, <1>2, QueueHears DEF TypeOK
    <2> QED BY <1>1, <1>2, <2>1, GoesOnKeeps DEF Looping, NoFault
<1>3. CASE Fault(1) /\ queue' = RecordCoordinatorFailure(queue) /\ FailAt("drain")
    <2>1. faults' \in Nat
        BY <1>1, <1>3, FaultIs DEF TypeOK
    <2>2. Lowers(queue, queue', queue.next)
        BY <1>1, <1>3, QueueFails DEF TypeOK
    <2> QED BY <1>1, <1>3, <2>1, <2>2, FailsKeeps DEF Looping
<1> QED BY <1>2, <1>3 DEF PumpMessages

(* The subscriptions that are committed are the connections there are,     *)
(* after a refresh and after one that failed; and one whose rollback did   *)
(* not fail has changed nothing.                                           *)
LEMMA RefreshedIs ==
    ASSUME TypeOK, shell.subscriptions = shell.connections, Refreshed
    PROVE  /\ shell' \in Shell /\ shell'.subscriptions = shell'.connections
           /\ faults' = faults
<1>1. PICK tabs \in TabSets : faults' = faults /\ shell' = Reconciled(shell, tabs)
    BY DEF Refreshed, NoFault
<1> DEFINE live == Live(shell, Additions(shell, tabs), Removed(shell, tabs))
<1>2. tabs \subseteq Tabs /\ shell.connections \subseteq Tabs
    BY DEF TabSets, TypeOK, Shell
<1>3. live = tabs
    BY DEF Live, Additions, Removed
<1>4. shell' = [shell EXCEPT !.connections = tabs, !.subscriptions = tabs]
    BY <1>1, <1>3 DEF Reconciled
<1> QED BY <1>1, <1>2, <1>4 DEF TypeOK, Shell

(* After a failed reconciliation what is committed is what is connected.   *)
LEMMA ReconcileFailsIs ==
    ASSUME TypeOK, shell.subscriptions = shell.connections,
           NEW tabs \in TabSets, ReconcileFails(tabs)
    PROVE  /\ shell' \in Shell /\ shell'.subscriptions = shell'.connections
           /\ faults' \in Nat
           /\ faults' = faults + 1 => shell' = shell
<1>0. PICK added \in SUBSET Additions(shell, tabs),
           removed \in SUBSET Removed(shell, tabs) :
          \E lost \in SUBSET removed, stuck \in SUBSET added :
             /\ Fault(1 + Cardinality(lost) + Cardinality(stuck))
             /\ shell' = RolledBack(shell, removed, lost, stuck)
    BY Zenon DEF ReconcileFails
<1>1. PICK lost \in SUBSET removed, stuck \in SUBSET added :
          /\ Fault(1 + Cardinality(lost) + Cardinality(stuck))
          /\ shell' = RolledBack(shell, removed, lost, stuck)
    BY <1>0, Zenon
<1> DEFINE live == Live(shell, (removed \ lost) \cup stuck, removed)
<1>2. tabs \subseteq Tabs /\ shell.connections \subseteq Tabs
    BY DEF TabSets, TypeOK, Shell
<1>3. /\ removed \subseteq shell.connections
      /\ lost \subseteq Tabs /\ stuck \subseteq Tabs /\ live \subseteq Tabs
    BY <1>2 DEF Additions, Removed, Live
<1>4. /\ IsFiniteSet(lost) /\ Cardinality(lost) \in Nat
      /\ IsFiniteSet(stuck) /\ Cardinality(stuck) \in Nat
    BY <1>3, TabsCount
<1>5. lost \cup stuck = {} => live = shell.connections
    BY <1>3 DEF Live
<1>6. shell' = [shell EXCEPT !.connections = live,
                    !.subscriptions = IF lost \cup stuck = {} THEN @ ELSE live]
    BY <1>1 DEF RolledBack
<1> HIDE DEF live
<1>7. shell' = [shell EXCEPT !.connections = live, !.subscriptions = live]
    BY <1>5, <1>6 DEF TypeOK, Shell
<1>8. shell' \in Shell /\ shell'.subscriptions = shell'.connections
    BY <1>3, <1>7 DEF TypeOK, Shell
<1>9. /\ faults' = faults + (1 + Cardinality(lost) + Cardinality(stuck))
      /\ faults \in Nat
    BY <1>1 DEF Fault, TypeOK
<1>10. ASSUME faults' = faults + 1
       PROVE  shell' = shell
    <2>1. Cardinality(lost) = 0 /\ Cardinality(stuck) = 0
        BY <1>4, <1>9, <1>10
    <2>2. lost = {} /\ stuck = {}
        BY <1>4, <2>1, FS_EmptySet
    <2>3. live = shell.connections
        BY <1>5, <2>2
    <2> QED BY <1>7, <2>3 DEF TypeOK, Shell
<1>11. faults' \in Nat
    BY <1>4, <1>9
<1> QED BY <1>8, <1>10, <1>11

(* So is it after a failed refresh.                                        *)
LEMMA RefreshFailsIs ==
    ASSUME TypeOK, shell.subscriptions = shell.connections, RefreshFails
    PROVE  /\ shell' \in Shell /\ shell'.subscriptions = shell'.connections
           /\ faults' \in Nat
           /\ faults' = faults + 1 => shell' = shell
<1>1. CASE CaptureFails
    BY <1>1 DEF CaptureFails, NoFault, TypeOK
<1>2. CASE \E tabs \in TabSets : ReconcileFails(tabs)
    BY <1>2, ReconcileFailsIs
<1> QED BY <1>1, <1>2 DEF RefreshFails

(* Only a runtime that was started has events to process.                  *)
LEMMA StartedIs ==
    ASSUME ObserverInvariant, loop.pc \in Looping,
           loop.backlog # <<>> \/ loop.pending # 0
    PROVE  runtime.uiaStarted /\ shell.subscriptions = shell.connections
<1>1. StartInv /\ ShellInv
    BY DEF ObserverInvariant
<1>2. runtime.uiaStarted
    BY <1>1 DEF StartInv, Down, At, Looping
<1> QED BY <1>1, <1>2 DEF ShellInv

(* An event that fails takes those behind it along.                        *)
LEMMA FailEventKeeps ==
    ASSUME ObserverInvariant, loop.pc \in Looping,
           NEW n \in Sent(loop, events),
           \A i \in DOMAIN events : events[i] < n,
           \A j \in DOMAIN loop.backlog : n <= loop.backlog[j].sequence,
           loop.pending # 0 => n <= loop.pending,
           NEW pc \in {"process", "resume", "drain"},
           pc = "process" => loop.pc = "process",
           FailEvent(n, pc),
           worker' \in Worker, WorkerGoes, runtime' \in Runtime, RuntimeGoes,
           shell' \in Shell, ShellGoes, reducer' \in Reducer, faults' \in Nat,
           worker'.phase = "Running" /\ runtime'.awaiting = 0 => Quiet(worker')
    PROVE  ObserverInvariant'
<1>1. /\ TypeOK /\ SleepInv
      /\ LineInv(queue, loop, events, ignored)
    BY DEF ObserverInvariant
<1>2. /\ queue' = RecordEventFailure(queue, n)
      /\ loop' = [loop EXCEPT !.pc = pc, !.failed = TRUE, !.pending = 0,
                              !.fatal = n, !.backlog = <<>>]
      /\ events' = events /\ ignored' = ignored
    BY DEF FailEvent, log
<1>3. n \in Sequences
    BY <1>1, SentTyped DEF TypeOK
<1>4. /\ loop' \in Loop /\ loop'.pc = pc /\ loop'.pending = 0 /\ loop'.fatal = n
      /\ loop'.backlog = <<>> /\ loop'.stopping = loop.stopping
    <2>1. n \in 0..MaxCallbacks /\ 0 \in 0..MaxCallbacks /\ <<>> \in Seq(Envelope)
        BY <1>3, BoundsAssumption DEF Sequences
    <2>2. loop \in Loop
        BY <1>1 DEF TypeOK
    <2> QED BY <1>2, <2>1, <2>2 DEF Loop
<1>5. loop'.failed
    <2>1. loop'.failed = TRUE
        BY <1>1, <1>2 DEF TypeOK, Loop
    <2> QED BY <2>1, Zenon
<1>6. loop'.stopping <=> loop.stopping
    BY <1>4, Zenon
<1> DEFINE r == RecordEventFailure(queue, n)
<1>7. /\ Lowers(queue, r, n) /\ Told(queue, r) /\ r.phase # "Running"
      /\ r.cutoff # 0 /\ LineInv(r, loop', events, ignored)
    BY <1>1, <1>4, LineFails DEF TypeOK
<1>8. queue' = r
    BY <1>2
<1> HIDE DEF r
<1>9. Typed
    BY <1>1, <1>2, <1>4, <1>7, <1>8 DEF Typed, TypeOK, Lowers
<1>10. LocalsGo
    BY <1>4, <1>5, <1>6 DEF LocalsGo, Looping
<1>11. QueueGoes
    BY <1>5, <1>7, <1>8 DEF QueueGoes, Lowers, Emergency
<1>12. AwaitInv'
    <2>1. Quiet(worker)' <=> Quiet(worker')
        BY DEF Quiet
    <2> QED BY <1>4, <2>1 DEF AwaitInv
<1>13. SleepInv'
    <2>1. CASE pc = "process"
        BY <1>1, <1>5, <1>7, <1>8, <2>1, SleepKeeps DEF Lowers
    <2>2. CASE pc # "process"
        BY <1>4, <2>2 DEF SleepInv
    <2> QED BY <2>1, <2>2
<1>14. LineInv(queue', loop', events', ignored')
    BY <1>2, <1>7, <1>8
<1> QED BY <1>9, <1>10, <1>11, <1>12, <1>13, <1>14, LoopKeeps

(* One that does not has left the backlog, and waits or does not.          *)
LEMMA RestKeeps ==
    ASSUME ObserverInvariant, loop.pc \in {"process", "resume"},
           NEW n \in 0..MaxCallbacks,
           loop.backlog # <<>>,
           loop' = [loop EXCEPT !.backlog = Tail(loop.backlog), !.pending = n],
           queue' = queue, faults' = faults,
           worker' \in Worker, WorkerGoes, runtime' \in Runtime, RuntimeGoes,
           shell' \in Shell, ShellGoes, reducer' \in Reducer,
           events' \in Seq(Sequences), ignored' \subseteq Sequences,
           LineInv(queue, loop', events', ignored'), AwaitInv'
    PROVE  ObserverInvariant'
<1>1. TypeOK /\ SleepInv /\ StopInv
    BY DEF ObserverInvariant
<1>2. Tail(loop.backlog) \in Seq(Envelope)
    BY <1>1, HeadIs DEF TypeOK
<1>3. /\ loop' \in Loop /\ loop'.pc = loop.pc /\ loop'.failed = loop.failed
      /\ loop'.stopping = loop.stopping /\ loop'.timedOut = loop.timedOut
    BY <1>1, <1>2 DEF TypeOK, Loop
<1>4. /\ loop'.stopping <=> loop.stopping
      /\ loop'.failed <=> loop.failed
      /\ loop'.timedOut => loop'.failed
    BY <1>1, <1>3, Zenon DEF StopInv
<1>5. Typed
    BY <1>1, <1>3 DEF Typed, TypeOK
<1>6. LocalsGo
    BY <1>3, <1>4 DEF LocalsGo, Looping
<1>7. QueueGoes
    BY <1>4 DEF QueueGoes
<1>8. SleepInv'
    <2>1. CASE loop.pc = "process"
        BY <1>1, <1>4, <2>1, SleepKeeps DEF Told
    <2>2. CASE loop.pc # "process"
        BY <1>3, <2>2 DEF SleepInv
    <2> QED BY <2>1, <2>2
<1> QED BY <1>5, <1>6, <1>7, <1>8, LoopKeeps DEF Looping

(* What the event was refreshed for.                                       *)
LEMMA ShellRefreshed ==
    ASSUME TypeOK, shell.subscriptions = shell.connections, runtime.uiaStarted,
           CaptureFails \/ Refreshed
    PROVE  shell' \in Shell /\ ShellGoes /\ faults' = faults
<1>1. CASE Refreshed
    BY <1>1, RefreshedIs DEF ShellGoes
<1>2. CASE CaptureFails
    BY <1>2 DEF CaptureFails, NoFault, ShellGoes, TypeOK
<1> QED BY <1>1, <1>2

(* An event of no interest preserves the invariant.                        *)
LEMMA IgnoreEventKeeps ==
    ASSUME ObserverInvariant, loop.pc \in {"process", "resume"}, MayProcess,
           IgnoreEvent(Head(loop.backlog))
    PROVE  ObserverInvariant'
<1> DEFINE n == Head(loop.backlog).sequence
<1>1. /\ TypeOK /\ AwaitInv /\ WorkerInv(worker)
      /\ LineInv(queue, loop, events, ignored)
      /\ loop.pending = 0 /\ loop.backlog # <<>>
    BY DEF ObserverInvariant, MayProcess
<1>2. /\ CaptureFails \/ Refreshed
      /\ ignored' = ignored \cup {n} /\ events' = events
      /\ loop' = [loop EXCEPT !.backlog = Tail(@)]
      /\ queue' = queue /\ worker' = worker /\ runtime' = runtime
      /\ reducer' = reducer
    BY DEF IgnoreEvent, Ignore, Rest
<1>3. runtime.uiaStarted /\ shell.subscriptions = shell.connections
    BY <1>1, StartedIs DEF Looping
<1>4. shell' \in Shell /\ ShellGoes /\ faults' = faults
    BY <1>1, <1>2, <1>3, ShellRefreshed
<1>5. n \in Sequences
    BY <1>1, HeadIs DEF TypeOK
<1> HIDE DEF n
<1>6. loop' = [loop EXCEPT !.backlog = Tail(loop.backlog), !.pending = 0]
    BY <1>1, <1>2 DEF TypeOK, Loop
<1>7. /\ loop' \in Loop /\ loop'.fatal = loop.fatal
      /\ loop'.backlog = Tail(loop.backlog) /\ loop'.pending = 0
    <2>1. Tail(loop.backlog) \in Seq(Envelope)
        BY <1>1, HeadIs DEF TypeOK
    <2> QED BY <1>1, <1>2, <2>1 DEF TypeOK, Loop
<1>8. LineInv(queue, loop', events', ignored')
    <2>1. LineInv(queue, loop', events, ignored \cup {n})
        BY <1>1, <1>7, LineIgnores DEF TypeOK, n
    <2> QED BY <1>2, <2>1
<1>9. AwaitInv'
    BY <1>1, <1>2, <1>7, AwaitKeeps
<1>10. WorkerGoes /\ RuntimeGoes
    BY <1>1, <1>2 DEF WorkerGoes, RuntimeGoes
<1>11. /\ worker' \in Worker /\ runtime' \in Runtime /\ reducer' \in Reducer
       /\ events' \in Seq(Sequences) /\ ignored' \subseteq Sequences
    BY <1>1, <1>2, <1>5 DEF TypeOK
<1>12. 0 \in 0..MaxCallbacks
    BY BoundsAssumption
<1> QED BY <1>1, <1>2, <1>4, <1>6, <1>8, <1>9, <1>10, <1>11, <1>12, RestKeeps

(* An event that is recorded at once waits for nothing in between.         *)
LEMMA LineRecordsFirst ==
    ASSUME TypeOK, LineInv(queue, loop, events, ignored),
           loop.backlog # <<>>, loop.pending = 0,
           NEW k \in Loop, k.fatal = loop.fatal,
           k.backlog = Tail(loop.backlog), k.pending = 0
    PROVE  /\ Append(events, Head(loop.backlog).sequence) \in Seq(Sequences)
           /\ LineInv(queue, k, Append(events, Head(loop.backlog).sequence), ignored)
<1> DEFINE n == Head(loop.backlog).sequence
           between == [loop EXCEPT !.backlog = Tail(loop.backlog), !.pending = n]
<1>1. /\ n \in 0..MaxCallbacks /\ n # 0 /\ Tail(loop.backlog) \in Seq(Envelope)
    BY HeadIs DEF TypeOK, Sequences
<1>2. loop \in Loop /\ queue \in Queue /\ events \in Seq(Sequences)
    BY DEF TypeOK
<1> HIDE DEF n
<1>3. /\ between \in Loop /\ between.fatal = loop.fatal
      /\ between.backlog = Tail(loop.backlog) /\ between.pending = n
    BY <1>1, <1>2 DEF Loop
<1> HIDE DEF between
<1>4. LineInv(queue, between, events, ignored)
    BY <1>2, <1>3, LineWaits DEF n
<1>5. /\ Append(events, between.pending) \in Seq(Sequences)
      /\ LineInv(queue, k, Append(events, between.pending), ignored)
    BY <1>1, <1>2, <1>3, <1>4, LineRecords
<1> QED BY <1>3, <1>5 DEF n

(* An event that is recorded at once preserves the invariant.              *)
LEMMA RecordsKeep ==
    ASSUME ObserverInvariant, loop.pc \in {"process", "resume"}, MayProcess,
           RecordLifecycle(Head(loop.backlog)) \/ RecordRemap(Head(loop.backlog))
    PROVE  ObserverInvariant'
<1> DEFINE n == Head(loop.backlog).sequence
<1>1. /\ TypeOK /\ AwaitInv /\ WorkerInv(worker)
      /\ LineInv(queue, loop, events, ignored)
      /\ loop.pending = 0 /\ loop.backlog # <<>>
    BY DEF ObserverInvariant, MayProcess
<1>2. /\ Refreshed
      /\ events' = Append(events, n) /\ ignored' = ignored
      /\ loop' = [loop EXCEPT !.backlog = Tail(@)]
      /\ queue' = queue /\ worker' = worker /\ runtime' = runtime
    BY DEF RecordLifecycle, RecordRemap, Record, Rest
<1>3. reducer' = reducer \/ reducer' = CompleteRemap(BeginRemap(reducer, n))
    BY DEF RecordLifecycle, RecordRemap
<1>4. runtime.uiaStarted /\ shell.subscriptions = shell.connections
    BY <1>1, StartedIs DEF Looping
<1>5. shell' \in Shell /\ ShellGoes /\ faults' = faults
    BY <1>1, <1>2, <1>4, ShellRefreshed
<1>6. 0 \in 0..MaxCallbacks
    BY BoundsAssumption
<1> HIDE DEF n
<1>7. reducer' \in Reducer
    BY <1>1, <1>3, <1>6 DEF TypeOK, Reducer, CompleteRemap, BeginRemap
<1>8. loop' = [loop EXCEPT !.backlog = Tail(loop.backlog), !.pending = 0]
    BY <1>1, <1>2 DEF TypeOK, Loop
<1>9. /\ loop' \in Loop /\ loop'.fatal = loop.fatal
      /\ loop'.backlog = Tail(loop.backlog) /\ loop'.pending = 0
    <2>1. Tail(loop.backlog) \in Seq(Envelope)
        BY <1>1, HeadIs DEF TypeOK
    <2> QED BY <1>1, <1>2, <2>1 DEF TypeOK, Loop
<1>10. /\ events' \in Seq(Sequences)
       /\ LineInv(queue, loop', events', ignored')
    <2>1. /\ Append(events, n) \in Seq(Sequences)
          /\ LineInv(queue, loop', Append(events, n), ignored)
        BY <1>1, <1>9, LineRecordsFirst DEF n
    <2> QED BY <1>2, <2>1
<1>11. AwaitInv'
    BY <1>1, <1>2, <1>9, AwaitKeeps
<1>12. WorkerGoes /\ RuntimeGoes
    BY <1>1, <1>2 DEF WorkerGoes, RuntimeGoes
<1>13. worker' \in Worker /\ runtime' \in Runtime /\ ignored' \subseteq Sequences
    BY <1>1, <1>2 DEF TypeOK
<1> QED BY <1>1, <1>2, <1>5, <1>6, <1>7, <1>8, <1>10, <1>11, <1>12, <1>13, RestKeeps

(* An event that asks the worker preserves the invariant.                  *)
LEMMA AskWorkerKeeps ==
    ASSUME ObserverInvariant, loop.pc \in {"process", "resume"}, MayProcess,
           AskWorker(Head(loop.backlog))
    PROVE  ObserverInvariant'
<1> DEFINE n == Head(loop.backlog).sequence
<1>1. /\ TypeOK /\ AwaitInv /\ WorkerInv(worker)
      /\ LineInv(queue, loop, events, ignored)
      /\ loop.pending = 0 /\ loop.backlog # <<>>
    BY DEF ObserverInvariant, MayProcess
<1>2. /\ Refreshed /\ MaySubmit(worker) /\ runtime.awaiting = 0
      /\ reducer' = BeginRemap(reducer, n)
      /\ runtime' = [runtime EXCEPT !.awaiting = worker.next]
      /\ loop' = [[loop EXCEPT !.backlog = Tail(@)] EXCEPT !.pending = n]
      /\ queue' = queue /\ events' = events /\ ignored' = ignored
    BY DEF AskWorker, Rest, log
<1>3. PICK target \in runtime.added : worker' = Submit(worker, "Reenumerate", target)
    BY DEF AskWorker
<1>4. runtime.uiaStarted /\ shell.subscriptions = shell.connections
    BY <1>1, StartedIs DEF Looping
<1>5. shell' \in Shell /\ ShellGoes /\ faults' = faults
    BY <1>1, <1>2, <1>4, ShellRefreshed
<1>6. Quiet(worker)
    BY <1>1, <1>2 DEF AwaitInv, MaySubmit
<1>7. target \in Targets
    BY <1>1 DEF TypeOK, Runtime
<1>8. /\ worker' \in Worker /\ WorkerInv(worker') /\ worker'.phase = worker.phase
      /\ worker'.handlers = worker.handlers
      /\ \E i \in DOMAIN worker'.commands : worker'.commands[i].id = worker.next
      /\ worker.next \in Nat /\ worker.next # 0
    BY <1>1, <1>2, <1>3, <1>6, <1>7, SubmitIs DEF TypeOK, Commands, MaySubmit
<1>9. n \in 0..MaxCallbacks /\ n # 0
    BY <1>1, HeadIs DEF TypeOK, Sequences
<1> HIDE DEF n
<1>10. /\ reducer' \in Reducer /\ reducer'.remap = n
    BY <1>1, <1>2, <1>9 DEF TypeOK, Reducer, BeginRemap
<1>11. /\ runtime' \in Runtime /\ runtime'.awaiting = worker.next
       /\ runtime'.uiaStarted = runtime.uiaStarted
       /\ runtime'.cleanupComplete = runtime.cleanupComplete
       /\ runtime'.cleanupFailed = runtime.cleanupFailed
       /\ runtime'.unreported = runtime.unreported
    BY <1>1, <1>2, <1>8 DEF TypeOK, Runtime
<1>12. loop' = [loop EXCEPT !.backlog = Tail(loop.backlog), !.pending = n]
    BY <1>1, <1>2 DEF TypeOK, Loop
<1>13. /\ loop' \in Loop /\ loop'.fatal = loop.fatal
       /\ loop'.backlog = Tail(loop.backlog) /\ loop'.pending = n
    <2>1. Tail(loop.backlog) \in Seq(Envelope)
        BY <1>1, HeadIs DEF TypeOK
    <2> QED BY <1>1, <1>9, <1>12, <2>1 DEF TypeOK, Loop
<1>14. LineInv(queue, loop', events', ignored')
    <2>1. LineInv(queue, loop', events, ignored)
        BY <1>1, <1>13, LineWaits DEF TypeOK, n
    <2> QED BY <1>2, <2>1
<1>15. AwaitInv'
    <2>1. runtime'.awaiting # 0
        BY <1>8, <1>11
    <2>2. OnTheWay(runtime.awaiting)'
        BY <1>8, <1>11 DEF OnTheWay
    <2> QED BY <1>10, <1>13, <2>1, <2>2 DEF AwaitInv
<1>16. WorkerGoes /\ RuntimeGoes
    BY <1>8, <1>11 DEF WorkerGoes, RuntimeGoes
<1>17. events' \in Seq(Sequences) /\ ignored' \subseteq Sequences
    BY <1>1, <1>2 DEF TypeOK
<1> QED BY <1>1, <1>2, <1>5, <1>8, <1>9, <1>10, <1>11, <1>12, <1>14, <1>15,
           <1>16, <1>17, RestKeeps

(* An event that fails preserves the invariant.                            *)
LEMMA EventFailsKeeps ==
    ASSUME ObserverInvariant, loop.pc \in {"process", "resume"}, MayProcess,
           EventFails(Head(loop.backlog))
    PROVE  ObserverInvariant'
<1> DEFINE n == Head(loop.backlog).sequence
<1>1. /\ TypeOK /\ AwaitInv /\ WorkerInv(worker)
      /\ LineInv(queue, loop, events, ignored)
      /\ loop.pending = 0 /\ loop.backlog # <<>>
    BY DEF ObserverInvariant, MayProcess
<1>2. /\ FailEvent(n, loop.pc) /\ worker' = worker /\ runtime' = runtime
      /\ \/ RefreshFails /\ reducer' = reducer
         \/ /\ Refreshed
            /\ reducer' = BeginRemap(reducer, n) \/ reducer' = reducer
    BY DEF EventFails
<1>3. runtime.uiaStarted /\ shell.subscriptions = shell.connections
    BY <1>1, StartedIs DEF Looping
<1>4. shell' \in Shell /\ ShellGoes /\ faults' \in Nat
    <2>1. CASE RefreshFails
        BY <1>1, <1>3, <2>1, RefreshFailsIs DEF ShellGoes
    <2>2. CASE Refreshed
        BY <1>1, <1>3, <2>2, RefreshedIs DEF ShellGoes, TypeOK
    <2> QED BY <1>2, <2>1, <2>2
<1>5. n \in Sent(loop, events) /\ n \in 0..MaxCallbacks
    BY <1>1, HeadIs DEF TypeOK, Sequences
<1>6. /\ \A i \in DOMAIN events : events[i] < n
      /\ \A j \in DOMAIN loop.backlog : n <= loop.backlog[j].sequence
    BY <1>1, HeadIsFirst DEF LineInv, TypeOK
<1> HIDE DEF n
<1>7. reducer' \in Reducer
    BY <1>1, <1>2, <1>5 DEF TypeOK, Reducer, BeginRemap
<1>8. WorkerGoes /\ RuntimeGoes
    BY <1>1, <1>2 DEF WorkerGoes, RuntimeGoes
<1>9. worker'.phase = "Running" /\ runtime'.awaiting = 0 => Quiet(worker')
    BY <1>1, <1>2 DEF AwaitInv
<1> QED BY <1>1, <1>2, <1>4, <1>5, <1>6, <1>7, <1>8, <1>9, FailEventKeeps
        DEF Looping, TypeOK

(* Whatever the next event of the backlog is, the invariant is preserved.  *)
LEMMA ProcessBacklogKeeps ==
    ASSUME ObserverInvariant, ProcessBacklog
    PROVE  ObserverInvariant'
<1>1. loop.pc \in {"process", "resume"} /\ MayProcess
    BY DEF ProcessBacklog
<1>2. \/ IgnoreEvent(Head(loop.backlog)) \/ RecordLifecycle(Head(loop.backlog))
      \/ RecordRemap(Head(loop.backlog)) \/ AskWorker(Head(loop.backlog))
      \/ EventFails(Head(loop.backlog))
    BY DEF ProcessBacklog
<1> QED BY <1>1, <1>2, IgnoreEventKeeps, RecordsKeep, AskWorkerKeeps, EventFailsKeeps

(* An answer that completes an event preserves the invariant.              *)
LEMMA ResponseRecordedKeeps ==
    ASSUME ObserverInvariant, ResponseRecorded
    PROVE  ObserverInvariant'
<1>1. /\ TypeOK /\ AwaitInv /\ WorkerInv(worker) /\ StopInv
      /\ LineInv(queue, loop, events, ignored)
      /\ loop.pc = "respond" /\ loop.pending # 0 /\ loop.pc \in Looping
    BY DEF ObserverInvariant, ResponseRecorded, At, Looping
<1>2. /\ Answers(worker) /\ worker' = Consume(worker)
      /\ runtime' = [runtime EXCEPT !.awaiting = 0]
      /\ Refreshed
      /\ reducer' = CompleteRemap(reducer)
      /\ events' = Append(events, loop.pending) /\ ignored' = ignored
      /\ loop' = [loop EXCEPT !.pc = "resume", !.pending = 0]
      /\ queue' = queue
    BY DEF ResponseRecorded, MayConsume, Record
<1>3. runtime.uiaStarted /\ shell.subscriptions = shell.connections
    BY <1>1, StartedIs
<1>4. shell' \in Shell /\ ShellGoes /\ faults' = faults
    BY <1>1, <1>2, <1>3, ShellRefreshed
<1>5. /\ worker' \in Worker /\ WorkerInv(worker') /\ Quiet(worker')
      /\ worker'.phase = worker.phase /\ worker'.handlers = worker.handlers
    BY <1>1, <1>2, ConsumeIs DEF TypeOK
<1>6. 0 \in 0..MaxCallbacks
    BY BoundsAssumption
<1>7. reducer' \in Reducer
    BY <1>1, <1>2, <1>6 DEF TypeOK, Reducer, CompleteRemap
<1>8. /\ runtime' \in Runtime
      /\ runtime'.uiaStarted = runtime.uiaStarted
      /\ runtime'.cleanupComplete = runtime.cleanupComplete
      /\ runtime'.cleanupFailed = runtime.cleanupFailed
      /\ runtime'.unreported = runtime.unreported
    BY <1>1, <1>2 DEF TypeOK, Runtime
<1>9. /\ loop' \in Loop /\ loop'.pc = "resume" /\ loop'.pending = 0
      /\ loop'.backlog = loop.backlog /\ loop'.fatal = loop.fatal
      /\ loop'.failed = loop.failed /\ loop'.stopping = loop.stopping
      /\ loop'.timedOut = loop.timedOut
    BY <1>1, <1>2, <1>6 DEF TypeOK, Loop
<1>10. /\ loop'.stopping <=> loop.stopping
       /\ loop'.failed <=> loop.failed
       /\ loop'.timedOut => loop'.failed
    BY <1>1, <1>9, Zenon DEF StopInv
<1>11. /\ events' \in Seq(Sequences)
       /\ LineInv(queue', loop', events', ignored')
    <2>1. /\ Append(events, loop.pending) \in Seq(Sequences)
          /\ LineInv(queue, loop', Append(events, loop.pending), ignored)
        BY <1>1, <1>9, LineRecords DEF TypeOK
    <2> QED BY <1>2, <2>1
<1>12. Typed
    BY <1>1, <1>2, <1>4, <1>5, <1>7, <1>8, <1>9, <1>11 DEF Typed, TypeOK
<1>13. LocalsGo
    BY <1>1, <1>9, <1>10 DEF LocalsGo, Looping
<1>14. QueueGoes
    BY <1>1, <1>2, <1>10 DEF QueueGoes
<1>15. WorkerGoes /\ RuntimeGoes
    BY <1>5, <1>8 DEF WorkerGoes, RuntimeGoes
<1>16. AwaitInv'
    <2>1. Quiet(worker)'
        BY <1>5 DEF Quiet
    <2> QED BY <1>9, <2>1 DEF AwaitInv
<1>17. SleepInv'
    BY <1>9 DEF SleepInv
<1> QED BY <1>1, <1>4, <1>11, <1>12, <1>13, <1>14, <1>15, <1>16, <1>17, LoopKeeps

(* An answer that fails preserves the invariant.                           *)
LEMMA ResponseFailsKeeps ==
    ASSUME ObserverInvariant, ResponseFails
    PROVE  ObserverInvariant'
<1>1. /\ TypeOK /\ AwaitInv /\ WorkerInv(worker)
      /\ LineInv(queue, loop, events, ignored)
      /\ loop.pc = "respond" /\ loop.pending # 0 /\ loop.pc \in Looping
      /\ FailEvent(loop.pending, "drain") /\ reducer' = reducer
    BY DEF ObserverInvariant, ResponseFails, At, Looping
<1>2. runtime.uiaStarted /\ shell.subscriptions = shell.connections
    BY <1>1, StartedIs
<1>3. \/ /\ Answers(worker) /\ worker' = Consume(worker)
         /\ runtime' = [runtime EXCEPT !.awaiting = 0]
         /\ RefreshFails \/ Refreshed \/ (NoFault /\ shell' = shell)
      \/ /\ worker' = worker /\ runtime' = runtime /\ shell' = shell
         /\ (Fault(1) \/ NoFault)
    <2>1. CASE MayConsume(worker, runtime.awaiting)
        <3>1. CASE LastAnswer(worker) /\ Fault(1) /\ UNCHANGED <<worker, runtime, shell>>
            BY <3>1
        <3>2. CASE /\ worker' = Consume(worker)
                   /\ runtime' = [runtime EXCEPT !.awaiting = 0]
                   /\ IF NextAnswer(worker).ok THEN RefreshFails \/ Refreshed
                                               ELSE NoFault /\ UNCHANGED shell
            <4>1. RefreshFails \/ Refreshed \/ (NoFault /\ shell' = shell)
                BY <3>2, Zenon
            <4>2. Answers(worker)
                BY <2>1 DEF MayConsume
            <4> QED BY <3>2, <4>1, <4>2
        <3> QED BY <2>1, <3>1, <3>2 DEF ResponseFails
    <2>2. CASE ~MayConsume(worker, runtime.awaiting)
        BY <2>2 DEF ResponseFails
    <2> QED BY <2>1, <2>2
<1>4. shell' \in Shell /\ ShellGoes /\ faults' \in Nat
    <2>1. CASE RefreshFails
        BY <1>1, <1>2, <2>1, RefreshFailsIs DEF ShellGoes
    <2>2. CASE Refreshed
        BY <1>1, <1>2, <2>2, RefreshedIs DEF ShellGoes, TypeOK
    <2>3. CASE shell' = shell /\ (Fault(1) \/ NoFault)
        BY <1>1, <2>3, FaultIs DEF ShellGoes, TypeOK, NoFault
    <2> QED BY <1>3, <2>1, <2>2, <2>3
<1>5. /\ worker' \in Worker /\ WorkerInv(worker')
      /\ worker'.phase = worker.phase /\ worker'.handlers = worker.handlers
      /\ worker' = worker \/ Quiet(worker')
    BY <1>1, <1>3, ConsumeIs DEF TypeOK
<1>6. /\ runtime' \in Runtime
      /\ runtime'.uiaStarted = runtime.uiaStarted
      /\ runtime'.cleanupComplete = runtime.cleanupComplete
      /\ runtime'.cleanupFailed = runtime.cleanupFailed
      /\ runtime'.unreported = runtime.unreported
    <2>1. runtime' = runtime \/ runtime' = [runtime EXCEPT !.awaiting = 0]
        BY <1>3
    <2> QED BY <1>1, <2>1 DEF TypeOK, Runtime
<1>7. worker'.phase = "Running" /\ runtime'.awaiting = 0 => Quiet(worker')
    <2>1. runtime.awaiting # 0
        BY <1>1 DEF AwaitInv
    <2>2. Quiet(worker') \/ runtime' = runtime
        BY <1>1, <1>3, ConsumeIs DEF TypeOK
    <2> QED BY <2>1, <2>2
<1>8. /\ loop.pending \in Sent(loop, events)
      /\ \A i \in DOMAIN events : events[i] < loop.pending
      /\ \A j \in DOMAIN loop.backlog : loop.pending < loop.backlog[j].sequence
    BY <1>1 DEF LineInv, OrderInv, Sent
<1>9. /\ loop.pending \in Int
      /\ \A j \in DOMAIN loop.backlog : loop.backlog[j].sequence \in Int
    <2>1. loop.backlog \in Seq(Envelope) /\ loop.pending \in Int
        BY <1>1 DEF TypeOK, Loop
    <2>2. \A j \in DOMAIN loop.backlog : loop.backlog[j] \in Envelope
        BY <2>1
    <2> QED BY <2>1, <2>2 DEF Envelope
<1>10. \A j \in DOMAIN loop.backlog : loop.pending <= loop.backlog[j].sequence
    BY <1>8, <1>9
<1>11. loop.pending <= loop.pending
    BY <1>9
<1>12. WorkerGoes /\ RuntimeGoes
    BY <1>5, <1>6 DEF WorkerGoes, RuntimeGoes
<1>13. reducer' \in Reducer
    BY <1>1 DEF TypeOK
<1> QED BY <1>1, <1>4, <1>5, <1>6, <1>7, <1>8, <1>10, <1>11, <1>12, <1>13,
           FailEventKeeps

(* A signal without an answer preserves the invariant.                     *)
LEMMA ResponseSpuriousKeeps ==
    ASSUME ObserverInvariant, ResponseSpurious
    PROVE  ObserverInvariant'
<1> DEFINE pc == IF loop.stopping THEN "drain" ELSE "stop"
<1>1. /\ TypeOK /\ AwaitInv /\ WorkerInv(worker) /\ StopInv
      /\ LineInv(queue, loop, events, ignored)
      /\ loop.pc = "respond" /\ loop.pending = 0 /\ loop.pc \in Looping
      /\ queue' = RecordCoordinatorFailure(queue) /\ FailAt(pc)
      /\ shell' = shell /\ runtime' = runtime /\ reducer' = reducer
      /\ events' = events /\ ignored' = ignored
    BY DEF ObserverInvariant, ResponseSpurious, At, Looping, log
<1>2. /\ worker' = worker \/ (Answers(worker) /\ worker' = Consume(worker))
      /\ Fault(1) \/ NoFault
    <2>1. MayConsume(worker, 0) => Answers(worker)
        BY DEF MayConsume
    <2> QED BY <2>1 DEF ResponseSpurious
<1>3. /\ worker' \in Worker /\ WorkerInv(worker')
      /\ worker'.phase = worker.phase /\ worker'.handlers = worker.handlers
      /\ worker' = worker \/ Quiet(worker')
    BY <1>1, <1>2, ConsumeIs DEF TypeOK
<1>4. faults' \in Nat
    BY <1>1, <1>2, FaultIs DEF TypeOK, NoFault
<1>5. /\ Lowers(queue, queue', queue.next) /\ Told(queue, queue')
    BY <1>1, QueueFails DEF TypeOK
<1>6. pc \in {"drain", "stop"} /\ (pc = "stop" => ~loop.stopping)
    OBVIOUS
<1> HIDE DEF pc
<1>7. /\ loop' \in Loop /\ loop'.pc = pc /\ Locals(loop, loop') /\ loop'.failed
    BY <1>1, <1>6, FailAtIs DEF TypeOK, Positions, Startups
<1>8. loop'.stopping <=> loop.stopping
    BY <1>7, Zenon DEF Locals
<1>9. SameLine(loop, loop')
    BY <1>7 DEF Locals
<1>10. LocalsGo
    BY <1>1, <1>6, <1>7, <1>8, <1>9 DEF LocalsGo, SameLine, Looping
<1>11. Typed
    BY <1>1, <1>3, <1>4, <1>5, <1>7 DEF Typed, TypeOK, Lowers
<1>12. QueueGoes
    BY <1>5, <1>7 DEF QueueGoes, Lowers, Emergency
<1>13. WorkerGoes /\ RuntimeGoes /\ ShellGoes
    BY <1>1, <1>3 DEF WorkerGoes, RuntimeGoes, ShellGoes
<1>14. LineInv(queue', loop', events', ignored')
    BY <1>1, <1>5, <1>7, <1>9, LineKeeps DEF TypeOK
<1>15. AwaitInv'
    <2>1. worker'.phase = "Running" /\ runtime.awaiting = 0 => Quiet(worker')
        BY <1>1, <1>3 DEF AwaitInv
    <2>2. Quiet(worker)' <=> Quiet(worker')
        BY DEF Quiet
    <2> QED BY <1>1, <1>9, <2>1, <2>2 DEF AwaitInv, SameLine
<1>16. SleepInv'
    BY <1>6, <1>7 DEF SleepInv
<1> QED BY <1>1, <1>10, <1>11, <1>12, <1>13, <1>14, <1>15, <1>16, LoopKeeps

-----------------------------------------------------------------------------
(* The end.                                                                *)

(* A worker that is told to stop still has its command under way.          *)
LEMMA BeginStopKeeps ==
    ASSUME ObserverInvariant, BeginStop
    PROVE  ObserverInvariant'
<1>1. /\ TypeOK /\ StartInv /\ ShellInv /\ AwaitInv /\ CleanInv /\ WorkerInv(worker)
      /\ StopInv /\ LineInv(queue, loop, events, ignored)
      /\ loop.pc = "stop" /\ faults' = faults
      /\ shell' = shell /\ runtime' = runtime /\ reducer' = reducer
      /\ events' = events /\ ignored' = ignored
      /\ worker' = IF runtime.uiaStarted THEN BeginStopping(worker) ELSE worker
    BY DEF ObserverInvariant, BeginStop, At, log, NoFault
<1> DEFINE refused == runtime.uiaStarted /\ ~MayBeginStopping(worker)
<1>2. PICK late \in BOOLEAN :
          /\ loop' = [loop EXCEPT !.pc = "drain", !.stopping = TRUE,
                         !.failed = @ \/ refused \/ late, !.timedOut = late]
          /\ queue' = IF refused \/ late
                      THEN RecordCoordinatorFailure(EnsureStopping(queue))
                      ELSE EnsureStopping(queue)
    BY DEF BeginStop
<1> DEFINE failed == loop.failed \/ refused \/ late
<1>3. failed \in BOOLEAN /\ (loop.failed => failed) /\ (late => failed)
    BY <1>1 DEF TypeOK, Loop
<1>4. loop' = [loop EXCEPT !.pc = "drain", !.stopping = TRUE, !.failed = failed,
                           !.timedOut = late]
    BY <1>1, <1>2 DEF TypeOK, Loop
<1> HIDE DEF failed, refused
<1>5. /\ loop' \in Loop /\ loop'.pc = "drain" /\ SameLine(loop, loop')
      /\ loop'.failed = failed /\ loop'.timedOut = late /\ loop'.stopping = TRUE
    BY <1>1, <1>3, <1>4 DEF TypeOK, Loop, SameLine
<1>6. /\ loop.failed => loop'.failed
      /\ loop'.timedOut => loop'.failed
    BY <1>3, <1>5, Zenon
<1>7. /\ Lowers(queue, queue', queue.next) /\ queue'.phase = "Stopping"
    <2>1. \/ queue' = RecordCoordinatorFailure(EnsureStopping(queue))
          \/ queue' = EnsureStopping(queue)
        BY <1>2
    <2> QED BY <1>1, <2>1, QueueStops, QueueStopsAndFails DEF TypeOK
<1>8. /\ worker' \in Worker /\ WorkerInv(worker') /\ worker'.handlers = worker.handlers
      /\ worker'.commands = worker.commands /\ worker'.working = worker.working
      /\ worker'.responses = worker.responses /\ worker'.terminal = worker.terminal
      /\ runtime.uiaStarted => worker'.phase \notin {"Created", "Starting", "Running"}
      /\ ~runtime.uiaStarted => worker'.phase \in {"Created", "Joined"}
    <2>1. CASE runtime.uiaStarted
        <3>1. worker' = BeginStopping(worker) /\ worker.phase # "Created"
            BY <1>1, <2>1 DEF StartInv
        <3> QED BY <1>1, <2>1, <3>1, BeginStoppingIs DEF TypeOK
    <2>2. CASE ~runtime.uiaStarted
        <3>1. worker' = worker /\ worker.phase \in {"Created", "Joined"}
            BY <1>1, <2>2 DEF StartInv, At
        <3> QED BY <1>1, <2>2, <3>1 DEF TypeOK
    <2> QED BY <2>1, <2>2
<1>9. TypeOK'
    BY <1>1, <1>5, <1>7, <1>8 DEF TypeOK, Lowers
<1>10. LineInv(queue, loop, events, ignored)'
    <2>1. LineInv(queue', loop', events, ignored)
        BY <1>1, <1>5, <1>7, LineKeeps DEF TypeOK
    <2> QED BY <1>1, <2>1
<1>11. StartInv'
    <2>1. ~runtime.uiaStarted =>
              /\ queue.slots = <<>> /\ loop.backlog = <<>> /\ loop.pending = 0
              /\ Emergency(queue)
        BY <1>1 DEF StartInv, Down, At, Startups
    <2>2. ~runtime.uiaStarted =>
              /\ queue'.slots = <<>> /\ loop'.backlog = <<>> /\ loop'.pending = 0
              /\ Emergency(queue')
        BY <1>5, <1>7, <2>1 DEF SameLine, Lowers, Emergency
    <2> QED BY <1>1, <1>5, <1>7, <1>8, <2>2 DEF StartInv, Down, At, Startups, BeforeWorker
<1>12. ShellInv'
    BY <1>1, <1>5 DEF ShellInv
<1>13. AwaitInv'
    <2>1. worker'.phase # "Running"
        BY <1>8
    <2>2. OnTheWay(runtime.awaiting) => OnTheWay(runtime.awaiting)'
        BY <1>1, <1>8 DEF OnTheWay
    <2> QED BY <1>1, <1>5, <2>1, <2>2 DEF AwaitInv, SameLine
<1>14. CleanInv'
    BY <1>1, <1>5, <1>6, <1>8 DEF CleanInv, NothingLeftUnsaid, At, Startups, Subscribed
<1>15. StopInv'
    BY <1>5, <1>6, <1>7 DEF StopInv, At
<1>16. SleepInv'
    BY <1>5 DEF SleepInv
<1>17. WorkerInv(worker)'
    BY <1>8
<1> QED BY <1>9, <1>10, <1>11, <1>12, <1>13, <1>14, <1>15, <1>16, <1>17
        DEF ObserverInvariant

(* The cleanup of the observer preserves the invariant.                    *)
LEMMA CleanupKeeps ==
    ASSUME ObserverInvariant, Cleanup
    PROVE  ObserverInvariant'
<1>1. /\ TypeOK /\ StartInv /\ AwaitInv /\ CleanInv /\ WorkerInv(worker)
      /\ StopInv /\ LineInv(queue, loop, events, ignored)
      /\ loop.pc = "cleanup" /\ Joined /\ Goto("done")
      /\ queue' = queue /\ worker' = worker /\ reducer' = reducer
      /\ events' = events /\ ignored' = ignored
    BY DEF ObserverInvariant, Cleanup, At, log
<1>2. /\ loop' \in Loop /\ loop'.pc = "done" /\ Locals(loop, loop')
      /\ loop'.failed = loop.failed
    BY <1>1, GotoIs DEF TypeOK, Positions, Startups
<1>3. SameLine(loop, loop')
    BY <1>2 DEF Locals
<1>4. /\ loop'.stopping <=> loop.stopping
      /\ loop'.timedOut <=> loop.timedOut
      /\ loop'.failed <=> loop.failed
    BY <1>2, Zenon DEF Locals
<1>5. worker.phase \in {"Created", "Joined"}
    BY <1>1 DEF StartInv, At, Joined
<1>6. /\ WorkerStatus \in {"ok", "contract", "transport"}
      /\ WorkerStatus = "ok" =>
            worker.handlers = {} \/ runtime.cleanupFailed \/ runtime.unreported
    <2>1. CASE runtime.uiaStarted
        BY <1>1, <2>1 DEF Joined, WorkerStatus, WorkerInv, TypeOK, Worker
    <2>2. CASE ~runtime.uiaStarted
        <3>1. worker.handlers = {} \/ runtime.cleanupFailed \/ runtime.unreported
            BY <1>1, <2>2 DEF CleanInv
        <3> QED BY <2>2, <3>1 DEF WorkerStatus
    <2> QED BY <2>1, <2>2
<1>7. /\ shell' \in Shell /\ runtime' \in Runtime /\ faults' \in Nat
      /\ runtime'.awaiting = runtime.awaiting /\ ~runtime'.uiaStarted
      /\ runtime'.cleanupComplete <=> runtime.cleanupComplete
      /\ runtime'.unreported <=> runtime.unreported
      /\ runtime.cleanupFailed => runtime'.cleanupFailed
      /\ runtime.cleanupComplete => shell' = shell
      /\ ~runtime'.cleanupFailed /\ ~runtime'.unreported =>
            worker.handlers = {} /\ ~Subscribed(shell')
    <2>1. CASE runtime.cleanupComplete
        <3>1. faults' = faults /\ shell' = shell /\ runtime' = runtime
            BY <1>1, <2>1 DEF Cleanup, NoFault
        <3>2. ~runtime.uiaStarted /\ worker.handlers = {} /\ ~Subscribed(shell)
            BY <1>1, <2>1 DEF CleanInv
        <3> QED BY <1>1, <3>1, <3>2 DEF TypeOK
    <2>2. CASE ~runtime.cleanupComplete
        <3>1. PICK outcome \in CleanupOutcomes(shell) :
                 /\ Fault(outcome.failed)
                 /\ shell' = outcome.left
                 /\ runtime' = [runtime EXCEPT
                       !.uiaStarted = FALSE,
                       !.cleanupFailed =
                          @ \/ Merged(WorkerStatus, outcome.status) # "ok"]
            BY <2>2 DEF Cleanup
        <3> DEFINE failed == runtime.cleanupFailed
                             \/ Merged(WorkerStatus, outcome.status) # "ok"
        <3>2. runtime' = [runtime EXCEPT !.uiaStarted = FALSE, !.cleanupFailed = failed]
            BY <1>1, <3>1 DEF TypeOK, Runtime
        <3>3. failed \in BOOLEAN /\ (runtime.cleanupFailed => failed)
            BY <1>1 DEF TypeOK, Runtime
        <3>4. /\ outcome.left \in Shell /\ outcome.failed \in Nat
              /\ outcome.status \in {"ok", "contract", "transport"}
              /\ outcome.status = "ok" => ~Subscribed(outcome.left)
            BY <1>1, CleanupIs DEF TypeOK
        <3>5. ~failed /\ ~runtime.unreported =>
                  worker.handlers = {} /\ ~Subscribed(outcome.left)
            BY <1>6, <3>4, MergedIs
        <3> HIDE DEF failed
        <3>6. /\ runtime' \in Runtime /\ runtime'.awaiting = runtime.awaiting
              /\ runtime'.cleanupComplete = runtime.cleanupComplete
              /\ runtime'.unreported = runtime.unreported
              /\ runtime'.cleanupFailed = failed /\ runtime'.uiaStarted = FALSE
            BY <1>1, <3>2, <3>3 DEF TypeOK, Runtime
        <3>7. faults' \in Nat
            BY <1>1, <3>1, <3>4, FaultIs DEF TypeOK
        <3>8. /\ ~runtime'.uiaStarted
              /\ runtime'.cleanupComplete <=> runtime.cleanupComplete
              /\ runtime'.unreported <=> runtime.unreported
              /\ runtime'.cleanupFailed <=> failed
            BY <3>6, Zenon
        <3>9. shell' = outcome.left
            BY <3>1
        <3> QED BY <2>2, <3>3, <3>4, <3>5, <3>6, <3>7, <3>8, <3>9
    <2> QED BY <2>1, <2>2
<1>8. TypeOK'
    BY <1>1, <1>2, <1>7 DEF TypeOK
<1>9. StartInv'
    BY <1>1, <1>2, <1>5, <1>7 DEF StartInv, Down, At, Startups, BeforeWorker
<1>10. ShellInv'
    BY <1>2, <1>7 DEF ShellInv
<1>11. AwaitInv'
    <2>1. OnTheWay(runtime.awaiting)' <=> OnTheWay(runtime.awaiting)
        BY <1>1, <1>7 DEF OnTheWay
    <2> QED BY <1>1, <1>3, <1>5, <1>7, <2>1 DEF AwaitInv, SameLine
<1>12. CleanInv'
    <2>1. Subscribed(shell)' <=> Subscribed(shell')
        BY DEF Subscribed
    <2>2. runtime.cleanupComplete => ~Subscribed(shell')
        BY <1>1, <1>7 DEF CleanInv
    <2> QED BY <1>1, <1>2, <1>4, <1>7, <2>1, <2>2
            DEF CleanInv, NothingLeftUnsaid, At, Startups
<1>13. StopInv'
    <2>1. Settled => Settled'
        BY <1>1, <1>3 DEF Settled, IsQuiescent, SameLine
    <2> QED BY <1>1, <1>2, <1>4, <2>1 DEF StopInv, At, Emergency
<1>14. SleepInv'
    BY <1>2 DEF SleepInv
<1>15. LineInv(queue, loop, events, ignored)'
    <2>1. LineInv(queue, loop', events, ignored)
        BY <1>1, <1>2, <1>3, QueueStays, LineKeeps DEF TypeOK
    <2> QED BY <1>1, <2>1
<1> QED BY <1>1, <1>8, <1>9, <1>10, <1>11, <1>12, <1>13, <1>14, <1>15
        DEF ObserverInvariant

-----------------------------------------------------------------------------
(* The theorems.                                                           *)

LEMMA InitInvariant ==
    Init => ObserverInvariant
<1> SUFFICES ASSUME Init
             PROVE  ObserverInvariant
    OBVIOUS
<1>1. /\ queue = [phase |-> "Starting", slots |-> <<>>, next |-> 1,
                  inFlight |-> 0, cutoff |-> 0, wake |-> FALSE, posted |-> FALSE,
                  deaf |-> FALSE]
      /\ faults = 0
      /\ worker = [phase |-> "Created", next |-> 1, commands |-> <<>>,
                   working |-> NoResponse, responses |-> <<>>,
                   terminal |-> NoResponse, signaled |-> FALSE, handlers |-> {},
                   rollback |-> "ok", cleanup |-> "contract"]
      /\ shell = [owned |-> FALSE, lifecycle |-> FALSE,
                  connections |-> {}, subscriptions |-> {}]
      /\ reducer = [windows |-> {}, remap |-> 0]
      /\ loop = [pc |-> "create", stopping |-> FALSE, looked |-> FALSE,
                 failed |-> FALSE, backlog |-> <<>>, pending |-> 0, fatal |-> 0,
                 timedOut |-> FALSE]
      /\ runtime = [uiaStarted |-> FALSE, added |-> {}, awaiting |-> 0,
                    origin |-> "contract", cleanupComplete |-> FALSE,
                    cleanupFailed |-> FALSE, unreported |-> FALSE]
      /\ events = <<>> /\ ignored = {}
    BY DEF Init, QueueInit, WorkerInit, ShellInit, ReducerInit
<1>2. 0 \in 0..MaxCallbacks /\ 0 \in 0..MaxCallbacks + 1 /\ 1 \in 1..MaxCallbacks + 1
    BY BoundsAssumption
<1>3. TypeOK
    <2>1. queue \in Queue
        BY <1>1, <1>2 DEF Queue
    <2>2. worker \in Worker
        BY <1>1 DEF Worker, Response, NoResponse
    <2>3. shell \in Shell /\ reducer \in Reducer
        BY <1>1, <1>2 DEF Shell, Reducer
    <2>4. loop \in Loop
        BY <1>1, <1>2 DEF Loop
    <2>5. runtime \in Runtime
        BY <1>1 DEF Runtime, Unclean
    <2> QED BY <1>1, <2>1, <2>2, <2>3, <2>4, <2>5 DEF TypeOK
<1>4. StartInv
    BY <1>1 DEF StartInv, Down, At, Startups, BeforeWorker
<1>5. ShellInv
    BY <1>1 DEF ShellInv
<1>6. WorkerInv(worker)
    BY <1>1 DEF WorkerInv, Single, Quiet, Answers
<1>7. AwaitInv
    BY <1>1 DEF AwaitInv
<1>8. CleanInv
    BY <1>1 DEF CleanInv, NothingLeftUnsaid, At
<1>9. StopInv /\ SleepInv
    BY <1>1 DEF StopInv, SleepInv, At
<1>10. LineInv(queue, loop, events, ignored)
    <2>1. Sent(loop, events) = {}
        BY <1>1 DEF Sent, ToSet
    <2>2. PendingSequences(queue) = {}
        BY <1>1 DEF PendingSequences
    <2>3. SlotsInv(queue)
        <3>1. Cardinality({}) = 0
            BY FS_EmptySet
        <3>2. DOMAIN queue.slots = {} /\ queue.inFlight = 0
            BY <1>1
        <3> QED BY <2>2, <3>1, <3>2 DEF SlotsInv
    <2>4. SentInv(queue, loop, events)
        BY <1>1, <2>1 DEF SentInv
    <2>5. OrderInv(loop, events)
        BY <1>1 DEF OrderInv
    <2>6. CoverInv(queue, loop, events, ignored)
        BY <1>1 DEF CoverInv, Sequences
    <2> QED BY <2>3, <2>4, <2>5, <2>6 DEF LineInv
<1> QED BY <1>3, <1>4, <1>5, <1>6, <1>7, <1>8, <1>9, <1>10 DEF ObserverInvariant

(* Every step of the startup preserves the invariant.                      *)
LEMMA StartupKeeps ==
    ASSUME ObserverInvariant, Startup
    PROVE  ObserverInvariant'
BY CreateShellKeeps, StartShellKeeps, VerifyShellKeeps, InitializeTabsKeeps,
   SeedBaselineKeeps, StartWorkerKeeps, WorkerStartedKeeps, SubmitTargetKeeps,
   TargetAddedKeeps, TargetTimeoutKeeps, StopWorkerKeeps, UnwindStartupKeeps,
   BeginObservationKeeps DEF Startup

(* Every step of the loop and of the end preserves the invariant.          *)
LEMMA CoordinatorKeeps ==
    ASSUME ObserverInvariant, Coordinator
    PROVE  ObserverInvariant'
BY StartupKeeps, DrainCallbacksKeeps, DrainingFailsKeeps, ProcessBacklogKeeps,
   BacklogDoneKeeps, CheckKeeps, WaitDeadlineKeeps, WaitsKeep, PumpMessagesKeeps,
   ResponseRecordedKeeps, ResponseFailsKeeps, ResponseSpuriousKeeps,
   BeginStopKeeps, CleanupKeeps
   DEF Coordinator, Waits, HandleResponse

(* So does a step that changes nothing.                                    *)
LEMMA StutteringKeeps ==
    ASSUME ObserverInvariant, UNCHANGED vars
    PROVE  ObserverInvariant'
<1>1. /\ queue' = queue /\ faults' = faults /\ worker' = worker /\ shell' = shell
      /\ reducer' = reducer /\ loop' = loop /\ runtime' = runtime
      /\ events' = events /\ ignored' = ignored
    BY DEF vars, log
<1>2. TypeOK'
    BY <1>1 DEF ObserverInvariant, TypeOK
<1>3. StartInv'
    BY <1>1 DEF ObserverInvariant, StartInv, Down, At, Emergency
<1>4. ShellInv'
    BY <1>1 DEF ObserverInvariant, ShellInv
<1>5. WorkerInv(worker)'
    BY <1>1 DEF ObserverInvariant
<1>6. AwaitInv'
    BY <1>1 DEF ObserverInvariant, AwaitInv, Quiet, OnTheWay
<1>7. CleanInv'
    BY <1>1 DEF ObserverInvariant, CleanInv, NothingLeftUnsaid, At, Subscribed
<1>8. StopInv'
    BY <1>1 DEF ObserverInvariant, StopInv, At, Settled, IsQuiescent, Emergency
<1>9. SleepInv'
    BY <1>1 DEF ObserverInvariant, SleepInv, Emergency
<1>10. LineInv(queue, loop, events, ignored)'
    BY <1>1 DEF ObserverInvariant
<1> QED BY <1>2, <1>3, <1>4, <1>5, <1>6, <1>7, <1>8, <1>9, <1>10
        DEF ObserverInvariant

(* The inductive invariant: what there is of subscriptions, handlers,      *)
(* commands and answers and where every event is, at each place where      *)
(* RunObserverCoordinator can be.                                          *)
THEOREM ObserverInvariantHolds == Spec => []ObserverInvariant
<1>1. Init => ObserverInvariant
    BY InitInvariant
<1>2. ObserverInvariant /\ [Next]_vars => ObserverInvariant'
    BY CoordinatorKeeps, WorkerKeeps, CallbackKeeps, StutteringKeeps DEF Next
<1> QED BY <1>1, <1>2, PTL DEF Spec

(* Types: no slot, command or response is ever malformed.                  *)
THEOREM ObserverTypesHold == Spec => []TypeOK
<1>1. ObserverInvariant => TypeOK
    BY DEF ObserverInvariant
<1> QED BY <1>1, ObserverInvariantHolds, PTL

(* ObserverSnapshot's events are in the order in which the callbacks began *)
(* and all ahead of the first failure.                                     *)
THEOREM EventsInOrder == Spec => []RecordedInOrder
<1>1. ObserverInvariant => RecordedInOrder
    <2> SUFFICES ASSUME ObserverInvariant
                 PROVE  RecordedInOrder
        OBVIOUS
    <2>1. /\ TypeOK /\ OrderInv(loop, events) /\ SentInv(queue, loop, events)
        BY DEF ObserverInvariant, LineInv
    <2>2. \A i, j \in DOMAIN events : i < j => events[i] < events[j]
        BY <2>1 DEF OrderInv
    <2>3. ToSet(events) \subseteq Sent(loop, events)
        BY DEF Sent
    <2>4. Sent(loop, events) \subseteq Sequences
        BY <2>1, SentTyped DEF TypeOK
    <2>5. \A n \in Sent(loop, events) : n < queue.next /\ BeforeCutoff(queue, n)
        BY <2>1 DEF SentInv
    <2> QED BY <2>2, <2>3, <2>4, <2>5 DEF RecordedInOrder, Before
<1> QED BY <1>1, ObserverInvariantHolds, PTL

(* Drain, the backlog and the event that waits lose no event that counts,  *)
(* and what the gate may pass has seen every callback.                     *)
THEOREM NothingIsSkipped == Spec => []NothingSkipped
<1>1. ObserverInvariant => NothingSkipped
    <2> SUFFICES ASSUME ObserverInvariant
                 PROVE  NothingSkipped
        OBVIOUS
    <2>1. /\ TypeOK /\ StopInv /\ CleanInv
          /\ SlotsInv(queue) /\ CoverInv(queue, loop, events, ignored)
        BY DEF ObserverInvariant, LineInv
    <2>2. ASSUME NEW n \in Before
          PROVE  \/ n \in Handled \/ \E i \in DOMAIN loop.backlog :
                                         loop.backlog[i].sequence = n
                 \/ loop.pending # 0 /\ loop.pending = n
                 \/ \E i \in DOMAIN queue.slots :
                       queue.slots[i].sequence = n /\ queue.slots[i].state # "Failure"
        <3>1. \/ n \in ignored \/ n \in Sent(loop, events)
              \/ \E i \in DOMAIN queue.slots :
                    queue.slots[i].sequence = n /\ queue.slots[i].state # "Failure"
            BY <2>1 DEF Before, CoverInv
        <3>2. n \in Sent(loop, events) =>
                  \/ \E i \in DOMAIN events : events[i] = n
                  \/ \E i \in DOMAIN loop.backlog : loop.backlog[i].sequence = n
                  \/ loop.pending # 0 /\ loop.pending = n
            BY <2>1, SentIs DEF TypeOK
        <3>3. (\E i \in DOMAIN events : events[i] = n) => n \in Handled
            BY DEF Handled, ToSet
        <3>4. n \in ignored => n \in Handled
            BY DEF Handled
        <3> QED BY <3>1, <3>2, <3>3, <3>4
    <2>3. Before \subseteq Handled \cup Waiting
        BY <2>2 DEF Waiting, ToSet
    <2>4. ASSUME At("done"), ~loop.timedOut
          PROVE  /\ Before \subseteq Handled
                 /\ queue.inFlight = 0 /\ queue.slots = <<>> /\ loop.stopping
        <3>1. Settled /\ loop.stopping
            BY <2>1, <2>4 DEF StopInv, At
        <3> QED BY <2>2, <3>1 DEF Settled, IsQuiescent
    <2>5. ASSUME At("done"), GateMayPass
          PROVE  /\ {n \in Sequences : n < queue.next} \subseteq Handled
                 /\ queue.inFlight = 0 /\ worker.handlers = {} /\ ~Subscribed(shell)
        <3>1. ~loop.failed /\ ~runtime.cleanupFailed
            BY <2>5 DEF GateMayPass
        <3>2. ~loop.timedOut /\ ~runtime.unreported
            BY <2>1, <3>1 DEF StopInv, CleanInv
        <3>3. worker.handlers = {} /\ ~Subscribed(shell)
            BY <2>1, <2>5, <3>1, <3>2 DEF CleanInv, NothingLeftUnsaid
        <3>4. ~Emergency(queue)
            BY <2>1, <2>4, <2>5, <3>1, <3>2 DEF StopInv, At
        <3>5. {n \in Sequences : n < queue.next} \subseteq Before
            BY <3>4 DEF Before, BeforeCutoff
        <3> QED BY <2>4, <2>5, <3>2, <3>3, <3>5
    <2> QED BY <2>3, <2>4, <2>5 DEF NothingSkipped
<1> QED BY <1>1, ObserverInvariantHolds, PTL

(* SignalWake and RecordCoordinatorFailure leave WaitForObserverActivity   *)
(* no work that it does not hear of.                                       *)
THEOREM NeverSleeps == Spec => []NeverSleepsOnWork
<1>1. ObserverInvariant => NeverSleepsOnWork
    BY DEF ObserverInvariant, SleepInv, NeverSleepsOnWork, At
<1> QED BY <1>1, ObserverInvariantHolds, PTL

(* The event that waits for the worker is answered, also by a worker that  *)
(* stops.                                                                  *)
THEOREM AnswersCome == Spec => []AnswerOnTheWay
<1>1. ObserverInvariant => AnswerOnTheWay
    BY DEF ObserverInvariant, AwaitInv, WorkerInv, AnswerOnTheWay
<1> QED BY <1>1, ObserverInvariantHolds, PTL

(* CleanupObserverShellStaResources and the join of the worker leave       *)
(* nothing behind of which the snapshot says nothing.                      *)
THEOREM CleanupIsTruthful == Spec => []NothingLeftUnsaid
<1>1. ObserverInvariant => NothingLeftUnsaid
    BY DEF ObserverInvariant, CleanInv
<1> QED BY <1>1, ObserverInvariantHolds, PTL

(* An event whose refresh fails leaves the shell as it was when nothing    *)
(* else fails.                                                             *)
LEMMA EventsAreAtomic ==
    ASSUME ObserverInvariant, ProcessBacklog \/ HandleResponse,
           loop'.fatal # loop.fatal, faults' = faults + 1
    PROVE  shell' = shell
<1>1. TypeOK /\ faults' # faults
    BY DEF ObserverInvariant, TypeOK
<1>2. CASE ProcessBacklog
    <2>1. /\ loop.pc \in Looping /\ loop.backlog # <<>>
          /\ \/ IgnoreEvent(Head(loop.backlog)) \/ RecordLifecycle(Head(loop.backlog))
             \/ RecordRemap(Head(loop.backlog)) \/ AskWorker(Head(loop.backlog))
             \/ EventFails(Head(loop.backlog))
        BY <1>2 DEF ProcessBacklog, MayProcess, Looping
    <2>2. shell.subscriptions = shell.connections
        BY <2>1, StartedIs
    <2>3. ~Refreshed /\ ~CaptureFails
        BY <1>1 DEF Refreshed, CaptureFails, NoFault
    <2>4. RefreshFails
        BY <2>1, <2>3 DEF IgnoreEvent, RecordLifecycle, RecordRemap, AskWorker, EventFails
    <2> QED BY <1>1, <2>2, <2>4, RefreshFailsIs
<1>3. CASE HandleResponse
    <2>1. ~Refreshed /\ ~NoFault
        BY <1>1 DEF Refreshed, NoFault
    <2>2. CASE ResponseFails
        <3>1. loop.pc \in Looping /\ loop.pending # 0
            BY <2>2 DEF ResponseFails, At, Looping
        <3>2. shell.subscriptions = shell.connections
            BY <3>1, StartedIs
        <3>3. RefreshFails \/ shell' = shell
            BY <2>1, <2>2 DEF ResponseFails
        <3> QED BY <1>1, <3>2, <3>3, RefreshFailsIs
    <2>3. CASE ResponseRecorded
        BY <2>1, <2>3 DEF ResponseRecorded
    <2>4. CASE ResponseSpurious
        BY <2>4 DEF ResponseSpurious
    <2> QED BY <1>3, <2>2, <2>3, <2>4 DEF HandleResponse
<1> QED BY <1>2, <1>3

(* Every other step leaves the shell alone, or runs when there is no       *)
(* worker.                                                                 *)
LEMMA RestIsAtomic ==
    ASSUME ObserverInvariant, Next, runtime.uiaStarted, runtime'.uiaStarted,
           ~ProcessBacklog, ~HandleResponse
    PROVE  shell' = shell
<1>1. StartInv /\ TypeOK
    BY DEF ObserverInvariant
<1>2. loop.pc \notin BeforeWorker
    BY <1>1 DEF StartInv
<1>3. CASE Startup
    <2>1. ~UnwindStartup
        <3> SUFFICES ASSUME UnwindStartup
                     PROVE  FALSE
            OBVIOUS
        <3>1. PICK outcome \in CleanupOutcomes(shell) :
                  LET rollback == Merged(WorkerStatus, outcome.status)
                      coherent == Coherent(runtime.origin, rollback)
                  IN  runtime' = [runtime EXCEPT
                            !.uiaStarted = FALSE,
                            !.cleanupComplete = rollback = "ok",
                            !.cleanupFailed = coherent /\ rollback # "ok",
                            !.unreported = ~coherent]
            BY DEF UnwindStartup
        <3>2. runtime'.uiaStarted = FALSE
            BY <1>1, <3>1 DEF TypeOK, Runtime
        <3> QED BY <3>2, Zenon
    <2>2. \/ WorkerStarted \/ SubmitTarget \/ TargetAdded \/ TargetTimeout
          \/ StopWorker \/ BeginObservation
        BY <1>2, <1>3, <2>1 DEF Startup, BeforeWorker, At, CreateShell, StartShell,
           VerifyShell, InitializeTabs, SeedBaseline, StartWorker
    <2> QED BY <2>2 DEF WorkerStarted, SubmitTarget, TargetAdded, TargetTimeout,
           StopWorker, BeginObservation
<1>4. CASE Cleanup
    <2>1. CASE runtime.cleanupComplete
        BY <1>4, <2>1 DEF Cleanup
    <2>2. CASE ~runtime.cleanupComplete
        <3>1. PICK a : runtime' = [runtime EXCEPT !.uiaStarted = FALSE,
                                                  !.cleanupFailed = a]
            BY <1>1, <1>4, <2>2 DEF Cleanup, TypeOK, Runtime
        <3>2. runtime'.uiaStarted = FALSE
            BY <1>1, <3>1 DEF TypeOK, Runtime
        <3> QED BY <3>2, Zenon
    <2> QED BY <2>1, <2>2
<1>5. CASE DrainCallbacks \/ DrainingFails \/ BacklogDone \/ Check \/ Waits
           \/ PumpMessages \/ BeginStop
    BY <1>5 DEF DrainCallbacks, DrainingFails, BacklogDone, Check, Waits,
       WaitDeadline, WaitWake, WaitResponse, WaitMessage, WaitFails, PumpMessages,
       BeginStop
<1>6. CASE WorkerStep \/ Callback
    BY <1>6 DEF WorkerStep, Callback
<1> QED BY <1>3, <1>4, <1>5, <1>6 DEF Next, Coordinator

(* ReconcileObserverShellSubscriptions commits all of its calls or none,   *)
(* or what it could not undo.                                              *)
THEOREM RefreshIsAtomic == Spec => AllOrNothing
<1> DEFINE Atomic ==
        runtime.uiaStarted /\ runtime'.uiaStarted =>
            /\ shell'.subscriptions = shell'.connections
            /\ loop'.fatal # loop.fatal /\ faults' = faults + 1 => shell' = shell
<1>1. ASSUME ObserverInvariant, ObserverInvariant', Next
      PROVE  Atomic
    <2> SUFFICES ASSUME runtime.uiaStarted, runtime'.uiaStarted
                 PROVE  /\ shell'.subscriptions = shell'.connections
                        /\ loop'.fatal # loop.fatal /\ faults' = faults + 1 =>
                              shell' = shell
        OBVIOUS
    <2>1. shell'.subscriptions = shell'.connections
        BY <1>1 DEF ObserverInvariant, ShellInv
    <2>2. CASE ProcessBacklog \/ HandleResponse
        BY <1>1, <2>1, <2>2, EventsAreAtomic
    <2>3. CASE ~ProcessBacklog /\ ~HandleResponse
        BY <1>1, <2>1, <2>3, RestIsAtomic
    <2> QED BY <2>2, <2>3
<1>2. ObserverInvariant /\ ObserverInvariant' /\ [Next]_vars => [Atomic]_vars
    BY <1>1
<1> QED BY <1>2, ObserverInvariantHolds, PTL DEF Spec, AllOrNothing

=============================================================================
