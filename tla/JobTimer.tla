------------------------------ MODULE JobTimer ------------------------------
(***************************************************************************)
(* JobTimer: jobs reserved for later (JobQueue::DoTimer), and the worker   *)
(* threads that hand the due ones to their queues on every round of        *)
(* DoWorkerJob.                                                            *)
(*                                                                         *)
(* Distribute passes one thread at a time.  It takes the due items under   *)
(* the lock and pushes them after it has released it; a Push may execute   *)
(* the queue on the spot, for as long as its jobs run, and those jobs may  *)
(* reserve again.  The clock moves between any two steps.                  *)
(***************************************************************************)
EXTENDS Integers, Sequences, FiniteSets

CONSTANTS Threads,   \* the worker threads
          Items,     \* bound: the jobs that are reserved, once each
          Delays,    \* the tickAfter of a reservation
          MaxTick,   \* bound: the clock stops here
          Owners,    \* the JobQueue objects
          None       \* no item

ASSUME JobTimerAssumption ==
  /\ IsFiniteSet(Items) /\ None \notin Items
  /\ Delays \subseteq Nat /\ MaxTick \in Nat

VARIABLES
  clock,         \* GetTickCount64()
  items,         \* _items: the reserved items in the heap
  executeTick,   \* executeTick[i] of each item reserved so far
  ownerOf,       \* the queue each item belongs to
  distributing,  \* _distributing
  alive,         \* the queues that still exist (JobData holds a weak_ptr)
  pc,            \* pc[t]: where t is in Reserve or Distribute
  inJob,         \* inJob[t]: t executes a queue from inside a Push
  reserving,     \* reserving[t]: the item of t's Reserve
  now,           \* now[t]: Distribute's argument, 0 once it is used
  due,           \* due[t]: Distribute's local vector `items'
  earlier,       \* history: the items whose Reserve had returned when the
                 \* item's own Reserve began
  pushed,        \* the items pushed to their queues, in order
  dropped        \* items given up: their queue is gone, or Clear

vars == <<clock, items, executeTick, ownerOf, distributing, alive, pc, inJob,
          reserving, now, due, earlier, pushed, dropped>>

reserveVars == <<executeTick, ownerOf, earlier, reserving>>

\* _items is ordered by executeTick; equal ticks leave in any order.
SortedByTick(s) ==
  \A a, b \in DOMAIN s : a < b => executeTick[s[a]] <= executeTick[s[b]]

Orders(S) ==
  {s \in [1..Cardinality(S) -> S] : {s[a] : a \in DOMAIN s} = S}

Reserved == DOMAIN executeTick

Init ==
  /\ clock = 0
  /\ items = {}
  /\ executeTick = [i \in {} |-> 0]
  /\ ownerOf \in [Items -> Owners]
  /\ distributing = FALSE
  /\ alive = Owners
  /\ pc = [t \in Threads |-> "idle"]
  /\ inJob = [t \in Threads |-> FALSE]
  /\ reserving = [t \in Threads |-> None]
  /\ now = [t \in Threads |-> 0]
  /\ due = [t \in Threads |-> <<>>]
  /\ earlier = [i \in {} |-> {}]
  /\ pushed = <<>>
  /\ dropped = {}

-----------------------------------------------------------------------------
Goto(t, label) == pc' = [pc EXCEPT ![t] = label]

Tick ==
  /\ clock < MaxTick
  /\ clock' = clock + 1
  /\ UNCHANGED <<items, reserveVars, distributing, alive, pc, inJob, now, due,
                 pushed, dropped>>

\* The last reference to a queue goes: a job given as a callback does not
\* hold one.
QueueDies(o) ==
  /\ alive' = alive \ {o}
  /\ UNCHANGED <<clock, items, reserveVars, distributing, pc, inJob, now, due, pushed,
                 dropped>>

\* A handler or a job calls DoTimer; the tick is taken before the lock.
ReserveStart(t, i, d) ==
  /\ pc[t] = "idle" \/ inJob[t]
  /\ reserving[t] = None
  /\ i \in Items \ Reserved
  /\ ownerOf[i] \in alive
  /\ executeTick' = [j \in Reserved \cup {i} |->
                       IF j = i THEN clock + d ELSE executeTick[j]]
  /\ earlier' = [j \in Reserved \cup {i} |->
                   IF j = i THEN Reserved \ {reserving[u] : u \in Threads}
                            ELSE earlier[j]]
  /\ reserving' = [reserving EXCEPT ![t] = i]
  /\ UNCHANGED <<clock, items, ownerOf, distributing, alive, pc, inJob, now, due,
                 pushed, dropped>>

ReservePush(t) ==
  /\ reserving[t] # None
  /\ items' = items \cup {reserving[t]}
  /\ reserving' = [reserving EXCEPT ![t] = None]
  /\ UNCHANGED <<clock, executeTick, ownerOf, earlier, distributing, alive, pc, inJob,
                 now, due, pushed, dropped>>

-----------------------------------------------------------------------------
\* DistributeReservedJobs reads the clock once.
DistributeStart(t) ==
  /\ pc[t] = "idle" /\ reserving[t] = None
  /\ now' = [now EXCEPT ![t] = clock]
  /\ Goto(t, "exchange")
  /\ UNCHANGED <<clock, items, reserveVars, distributing, alive, inJob, due, pushed,
                 dropped>>

\* A seeded bug: every thread passes.
DistributeExchangeMutantAll(t) ==
  /\ pc[t] = "exchange"
  /\ distributing' = TRUE
  /\ Goto(t, "take")
  /\ UNCHANGED <<clock, items, reserveVars, alive, inJob, now, due, pushed, dropped>>

DistributeExchange(t) ==
  /\ pc[t] = "exchange"
  /\ distributing' = TRUE
  /\ IF distributing
       THEN Goto(t, "idle") /\ now' = [now EXCEPT ![t] = 0]
       ELSE Goto(t, "take") /\ UNCHANGED now
  /\ UNCHANGED <<clock, items, reserveVars, alive, inJob, due, pushed, dropped>>

\* A seeded bug: the items stay in the heap.
DistributeTakeMutantTop(t) ==
  /\ pc[t] = "take"
  /\ LET expired == {i \in items : executeTick[i] <= now[t]} IN
       /\ items' = items
       /\ \E s \in Orders(expired) :
            SortedByTick(s) /\ due' = [due EXCEPT ![t] = s]
  /\ Goto(t, "push")
  /\ now' = [now EXCEPT ![t] = 0]
  /\ UNCHANGED <<clock, reserveVars, distributing, alive, inJob, pushed, dropped>>

\* Under the lock: the items whose tick has come, in the heap's order.
DistributeTake(t) ==
  /\ pc[t] = "take"
  /\ LET expired == {i \in items : executeTick[i] <= now[t]} IN
       /\ items' = items \ expired
       /\ \E s \in Orders(expired) :
            SortedByTick(s) /\ due' = [due EXCEPT ![t] = s]
  /\ Goto(t, "push")
  /\ now' = [now EXCEPT ![t] = 0]
  /\ UNCHANGED <<clock, reserveVars, distributing, alive, inJob, pushed, dropped>>

\* owner->Push(job), if the owner still lives; Push may execute the queue.
DistributePush(t) ==
  /\ pc[t] = "push" /\ ~inJob[t]
  /\ due[t] # <<>>
  /\ due' = [due EXCEPT ![t] = Tail(@)]
  /\ IF ownerOf[Head(due[t])] \in alive
       THEN /\ pushed' = Append(pushed, Head(due[t]))
            /\ \E inline \in BOOLEAN : inJob' = [inJob EXCEPT ![t] = inline]
            /\ UNCHANGED dropped
       ELSE /\ dropped' = dropped \cup {Head(due[t])}
            /\ UNCHANGED <<pushed, inJob>>
  /\ UNCHANGED <<clock, items, reserveVars, distributing, alive, pc, now>>

\* Execute returns to Push, and Push to Distribute.
ExecuteReturns(t) ==
  /\ inJob[t] /\ reserving[t] = None
  /\ inJob' = [inJob EXCEPT ![t] = FALSE]
  /\ UNCHANGED <<clock, items, reserveVars, distributing, alive, pc, now, due, pushed,
                 dropped>>

\* A seeded bug: the flag is not cleared.
DistributeEndMutantHeld(t) ==
  /\ pc[t] = "push" /\ ~inJob[t]
  /\ due[t] = <<>>
  /\ Goto(t, "idle")
  /\ UNCHANGED <<clock, items, reserveVars, distributing, alive, inJob, now, due, pushed,
                 dropped>>

DistributeEnd(t) ==
  /\ pc[t] = "push" /\ ~inJob[t]
  /\ due[t] = <<>>
  /\ distributing' = FALSE
  /\ Goto(t, "idle")
  /\ UNCHANGED <<clock, items, reserveVars, alive, inJob, now, due, pushed, dropped>>

\* The reserved items are given up.
Clear ==
  /\ items # {}
  /\ dropped' = dropped \cup items
  /\ items' = {}
  /\ UNCHANGED <<clock, reserveVars, distributing, alive, pc, inJob, now, due, pushed>>

Step(t) ==
  \/ ReservePush(t) \/ DistributeStart(t) \/ DistributeExchange(t)
  \/ DistributeTake(t) \/ DistributePush(t) \/ ExecuteReturns(t) \/ DistributeEnd(t)

Next ==
  \/ Tick
  \/ Clear
  \/ \E o \in alive : QueueDies(o)
  \/ \E t \in Threads : Step(t) \/ \E i \in Items, d \in Delays : ReserveStart(t, i, d)

Spec == Init /\ [][Next]_vars

\* The workers go round DoWorkerJob for ever, jobs return, time passes.
Fairness == WF_vars(Tick) /\ \A t \in Threads : WF_vars(Step(t))

FairSpec == Spec /\ Fairness

-----------------------------------------------------------------------------
(***************************************************************************)
(* Properties                                                              *)
(***************************************************************************)

\* Every variable keeps its type.
TypeOK ==
  /\ clock \in 0..MaxTick
  /\ items \subseteq Reserved /\ Reserved \subseteq Items
  /\ executeTick \in [Reserved -> Nat] /\ earlier \in [Reserved -> SUBSET Items]
  /\ ownerOf \in [Items -> Owners]
  /\ distributing \in BOOLEAN /\ alive \subseteq Owners
  /\ pc \in [Threads -> {"idle", "exchange", "take", "push"}]
  /\ inJob \in [Threads -> BOOLEAN]
  /\ reserving \in [Threads -> Items \cup {None}]
  /\ now \in [Threads -> 0..MaxTick]
  /\ due \in [Threads -> Seq(Items)]
  /\ pushed \in Seq(Items) /\ dropped \subseteq Items

Distributors == {t \in Threads : pc[t] \in {"take", "push"}}

\* One thread distributes at a time, also while it executes a queue, and the
\* flag is never left set.
OneDistributor ==
  Cardinality(Distributors) <= 1 /\ (distributing <=> Distributors # {})

\* A reserved job is in one place: in Reserve, in the heap, with the
\* distributor, pushed or given up.  It is pushed once at most.
InOnePlace ==
  /\ TypeOK
  /\ LET starting == {reserving[t] : t \in Threads} \ {None}
         taken == UNION {{due[t][a] : a \in DOMAIN due[t]} : t \in Threads}
         done == {pushed[a] : a \in DOMAIN pushed}
     IN  /\ starting \cup items \cup taken \cup done \cup dropped = Reserved
         /\ Cardinality(starting) + Cardinality(items) + Cardinality(taken)
              + Len(pushed) + Cardinality(dropped) = Cardinality(Reserved)

\* No job reaches its queue before its time, however stale a thread's clock,
\* and a job reserved first and due first is pushed first.
OnTimeAndInOrder ==
  \A b \in DOMAIN pushed :
    /\ executeTick[pushed[b]] <= clock
    /\ \A i \in earlier[pushed[b]] : executeTick[i] < executeTick[pushed[b]] =>
         \/ i \in dropped
         \/ \E a \in 1..(b - 1) : pushed[a] = i

\* Every reserved job is pushed in the end, unless its queue is gone or the
\* timer cleared.
EventuallyPushed ==
  \A i \in Items :
    (i \in Reserved /\ executeTick[i] <= MaxTick)
      ~> (i \in dropped \/ \E a \in DOMAIN pushed : pushed[a] = i)
=============================================================================
