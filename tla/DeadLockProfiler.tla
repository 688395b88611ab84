-------------------------- MODULE DeadLockProfiler --------------------------
(***************************************************************************)
(* DeadLockProfiler (debug builds): every WriteLock first reports the      *)
(* lock's name, the type of the object that owns it.  Each new pair "taken *)
(* while the other was the innermost held" is an edge, and a new edge      *)
(* starts a depth-first search that crashes the process on a cycle.        *)
(*                                                                         *)
(* The locks themselves are held exclusively and may be taken again by     *)
(* their owner (module RWLock has them in detail).  Module CycleSearch has *)
(* the search.                                                             *)
(***************************************************************************)
EXTENDS Integers, SequencesExt

CONSTANTS Lockers,      \* the threads
          Locks, Names,
          Name,         \* Name[l]: typeid(this).name() of the object that has l
          MaxNest,      \* bound: the guards a thread nests
          NoLock,
          Search(_, _)  \* CheckCycle on the edges of a graph and the number of its
                        \* ids: what it prints before the CRASH, <<>> if it returns

ASSUME ProfilerAssumption ==
  /\ Name \in [Locks -> Names]
  /\ MaxNest \in Nat
  /\ NoLock \notin Locks

VARIABLES
  nameToId,  \* a sequence without repetitions: the id of a name is its place
  history,   \* _lockHistory, as a set of pairs of ids
  stack,     \* stack[t]: LLockStack
  wants,     \* wants[t]: the lock t waits for
  holds,     \* holds[t]: the locks of t's guards, the innermost last
  report,    \* the edges printed by Dfs
  crash      \* the CRASH that ended the process, "" while it runs

profilerVars == <<nameToId, history, stack, wants, holds, report, crash>>

ProfilerInit ==
  /\ nameToId = <<>> /\ history = {} /\ report = <<>> /\ crash = ""
  /\ stack = [t \in Lockers |-> <<>>]
  /\ wants = [t \in Lockers |-> NoLock]
  /\ holds = [t \in Lockers |-> <<>>]

-----------------------------------------------------------------------------
Register(n) == IF n \in Range(nameToId) THEN nameToId ELSE Append(nameToId, n)

IdOf(ids, n) == CHOOSE i \in DOMAIN ids : ids[i] = n

\* A seeded bug: the edge starts at the outermost lock.
EdgesMutantOuter(t, id) ==
  IF stack[t] = <<>> \/ Head(stack[t]) = id THEN {} ELSE {<<Head(stack[t]), id>>}

\* The edge a push adds: from the innermost lock held, unless it has the name.
Edges(t, id) ==
  IF stack[t] = <<>> \/ Last(stack[t]) = id THEN {} ELSE {<<Last(stack[t]), id>>}

\* A seeded bug: the search runs before the edge is inserted.
FoundMutantEarly(new, ids) == IF new = {} THEN <<>> ELSE Search(history, Len(ids))

\* What the search finds that a new edge starts.
Found(new, ids) == IF new = {} THEN <<>> ELSE Search(history \cup new, Len(ids))

\* PushLock, under the profiler's own mutex, at the top of Lock::WriteLock.
PushLock(t, l) ==
  LET ids == Register(Name[l])
      id  == IdOf(ids, Name[l])
      new == Edges(t, id) \ history
      cyc == Found(new, ids)
  IN /\ crash = "" /\ wants[t] = NoLock /\ Len(holds[t]) < MaxNest
     /\ nameToId' = ids /\ history' = history \cup new
     /\ report' = cyc
     /\ IF cyc # <<>>
          THEN crash' = "DEADLOCK_DETECTED" /\ UNCHANGED <<stack, wants>>
          ELSE /\ stack' = [stack EXCEPT ![t] = Append(@, id)]
               /\ wants' = [wants EXCEPT ![t] = l]
               /\ UNCHANGED crash
     /\ UNCHANGED holds

Free(t, l) == \A u \in Lockers \ {t} : l \notin Range(holds[u])

\* The rest of WriteLock: the owner takes it again, another waits until it is free.
Acquire(t) ==
  /\ crash = "" /\ wants[t] # NoLock /\ Free(t, wants[t])
  /\ holds' = [holds EXCEPT ![t] = Append(@, wants[t])]
  /\ wants' = [wants EXCEPT ![t] = NoLock]
  /\ UNCHANGED <<nameToId, history, stack, report, crash>>

\* The innermost guard is destroyed: PopLock, then the lock is given up.
Unlock(t) ==
  /\ crash = "" /\ wants[t] = NoLock /\ holds[t] # <<>>
  /\ crash' = IF stack[t] = <<>> THEN "MULTIPLE_UNLOCK"
              ELSE IF Last(stack[t]) # IdOf(nameToId, Name[Last(holds[t])])
                THEN "INVALID_UNLOCK" ELSE ""
  /\ IF crash' # "" THEN UNCHANGED <<stack, holds>>
     ELSE stack' = [stack EXCEPT ![t] = Front(@)] /\ holds' = [holds EXCEPT ![t] = Front(@)]
  /\ UNCHANGED <<nameToId, history, wants, report>>

ProfilerNext == \E t \in Lockers : (\E l \in Locks : PushLock(t, l)) \/ Acquire(t) \/ Unlock(t)

ProfilerSpec == ProfilerInit /\ [][ProfilerNext]_profilerVars

-----------------------------------------------------------------------------
(* Properties. *)

\* The reference: the ids can be ranked so that every edge goes down.
Acyclic(g, n) ==
  \E rank \in [1..n -> 1..n] : \A e \in g : rank[e[2]] < rank[e[1]]

\* A cycle of g, read backwards from the edge printed first to where it leads.
IsCycle(g, edges) ==
  /\ Range(edges) \subseteq g
  /\ \A i \in 2..Len(edges) - 1 : edges[i][1] = edges[i + 1][2]
  /\ edges[1][1] = edges[2][2] /\ Last(edges)[1] = edges[1][2]

\* The search stops at a cycle, if there is one, and what it prints is one.  No
\* edge leads from an id to itself.
SearchIsRight(n) ==
  \A g \in SUBSET {e \in (1..n) \X (1..n) : e[1] # e[2]} :
    LET found == Search(g, n) IN
    /\ found = <<>> <=> Acyclic(g, n)
    /\ found # <<>> => IsCycle(g, found)

\* Every state has the shape above.
ProfilerTypeOK ==
  /\ nameToId \in Seq(Names) /\ IsInjective(nameToId)
  /\ history \subseteq (DOMAIN nameToId) \X (DOMAIN nameToId)
  /\ stack \in [Lockers -> Seq(DOMAIN nameToId)] /\ holds \in [Lockers -> Seq(Locks)]
  /\ wants \in [Lockers -> Locks \cup {NoLock}]
  /\ crash \in {"", "DEADLOCK_DETECTED", "MULTIPLE_UNLOCK", "INVALID_UNLOCK"}

\* The search that starts at an edge's first appearance stops the process
\* exactly when the order graph has a cycle: none is missed because of the
\* order in which edges came, and none is invented where paths only meet.
\* PopLock's two assertions never do.  What is printed before the crash is a
\* cycle of recorded edges.
CrashIffCycle ==
  /\ ProfilerTypeOK
  /\ crash = "" <=> Acyclic(history, Len(nameToId))
  /\ crash # "" => IsCycle(history, report)

\* t waits for a lock that u holds.
WaitsFor(t, u) == wants[t] # NoLock /\ t # u /\ wants[t] \in Range(holds[u])

\* In a debug build the process stops before any set of threads is deadlocked, each
\* waiting for another of them, unless two of them wait for two locks of one class:
\* those have one name and are not told apart.  Only the innermost lock held gets an
\* edge; the order with the outer ones is in the graph by transitivity.
NoCircularWait ==
  \A D \in SUBSET Lockers :
    D # {} /\ (\A t \in D : \E u \in D : WaitsFor(t, u)) =>
      \E t, u \in D : wants[t] # wants[u] /\ Name[wants[t]] = Name[wants[u]]
=============================================================================
