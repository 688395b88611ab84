------------------------------- MODULE Memory -------------------------------
(***************************************************************************)
(* Memory and MemoryPool, the allocator behind xnew and ObjectPool when    *)
(* _STOMP is not defined: requests of up to MAX_ALLOC_SIZE bytes are       *)
(* served by the pool of the next size class, a lock-free list of blocks,  *)
(* and larger ones by malloc.  A header in front of the data remembers the *)
(* size; 0 marks a block that is in a pool.                                *)
(*                                                                         *)
(* Threads allocate and release concurrently; one step is one Interlocked  *)
(* operation, one atomic counter, or the plain code between them.          *)
(***************************************************************************)
EXTENDS Integers, Sequences, FiniteSetsExt

CONSTANTS Threads,
          Blocks,     \* bound: the addresses malloc can return
          Bands,      \* the constructor's loops: <<[step, last], ...>>, three of them
          MaxAlloc,   \* MAX_ALLOC_SIZE
          Header,     \* sizeof(MemoryHeader)
          Requests,   \* the sizes asked for
          MaxOwned,   \* bound: blocks owned or on their way
          None

ASSUME MemoryAssumption ==
  /\ Bands \in [1..3 -> [step : Nat \ {0}, last : Nat]]
  /\ MaxAlloc \in Nat /\ Header \in Nat \ {0}
  /\ Requests \subseteq Nat /\ MaxOwned \in Nat
  /\ None \notin Blocks \cup Nat

VARIABLES
  free,        \* free[p]: the list of pool p, the top first
  use,         \* use[p]: _useCount
  reserve,     \* reserve[p]: _reserveCount
  room,        \* room[b]: the bytes malloc reserved at b, 0 if it is not allocated
  allocSize,   \* allocSize[b]: the header's field
  given,       \* given[b]: the bytes its owner asked for, None when nobody owns b
  pc, pool, block, asked   \* the locals of Allocate and Release

vars == <<free, use, reserve, room, allocSize, given, pc, pool, block, asked>>

-----------------------------------------------------------------------------
\* What a loop `for (; size <= last; size += step)' adds to the pools, from
\* where the loop before it left `size'.
Loop(acc, band) ==
  LET count == IF acc.size > band.last THEN 0 ELSE (band.last - acc.size) \div band.step + 1
  IN [size |-> acc.size + count * band.step,
      pools |-> acc.pools \cup {acc.size + i * band.step : i \in 0..count - 1}]

\* The size classes the constructor's three loops make; `size' starts at the first
\* step.
PoolsOf(bands) ==
  LET first  == Loop([size |-> bands[1].step, pools |-> {}], bands[1])
      second == Loop(first, bands[2])
  IN Loop(second, bands[3]).pools

Pools == PoolsOf(Bands)

\* _poolTable: the smallest class that is large enough.  Entries above the
\* largest class are never written: None stands for whatever they hold.
PoolTable == [n \in 0..MaxAlloc |->
  IF \E p \in Pools : n <= p THEN Min({p \in Pools : n <= p}) ELSE None]

Init ==
  /\ free = [p \in Pools |-> <<>>]
  /\ use = [p \in Pools |-> 0] /\ reserve = [p \in Pools |-> 0]
  /\ room = [b \in Blocks |-> 0] /\ allocSize = [b \in Blocks |-> 0]
  /\ given = [b \in Blocks |-> None]
  /\ pc = [t \in Threads |-> "idle"]
  /\ pool = [t \in Threads |-> None] /\ block = [t \in Threads |-> None]
  /\ asked = [t \in Threads |-> 0]

-----------------------------------------------------------------------------
Goto(t, label) == pc' = [pc EXCEPT ![t] = label]

Busy == {b \in Blocks : given[b] # None} \cup {t \in Threads : asked[t] # 0 \/ block[t] # None}

Malloc(t, bytes) == \E b \in Blocks :
  /\ room[b] = 0
  /\ room' = [room EXCEPT ![b] = bytes]
  /\ block' = [block EXCEPT ![t] = b]

\* A seeded bug: the class is looked up before the header is added.
AllocateMutantHeader(t, n) ==
  /\ pc[t] = "idle" /\ Cardinality(Busy) < MaxOwned
  /\ asked' = [asked EXCEPT ![t] = n]
  /\ IF n + Header > MaxAlloc
       THEN Malloc(t, n + Header) /\ Goto(t, "attach") /\ UNCHANGED pool
       ELSE /\ pool' = [pool EXCEPT ![t] = PoolTable[n]]
            /\ Goto(t, "pop") /\ UNCHANGED <<room, block>>
  /\ UNCHANGED <<free, use, reserve, allocSize, given>>

\* Allocate(n): by malloc or from a pool.  A table entry that was never written
\* is a wild pointer, and what a thread does that follows it is not modelled:
\* it stays where it is.
Allocate(t, n) ==
  /\ pc[t] = "idle" /\ Cardinality(Busy) < MaxOwned
  /\ asked' = [asked EXCEPT ![t] = n]
  /\ IF n + Header > MaxAlloc
       THEN Malloc(t, n + Header) /\ Goto(t, "attach") /\ UNCHANGED pool
       ELSE /\ pool' = [pool EXCEPT ![t] = PoolTable[n + Header]]
            /\ Goto(t, IF PoolTable[n + Header] = None THEN "wild" ELSE "pop")
            /\ UNCHANGED <<room, block>>
  /\ UNCHANGED <<free, use, reserve, allocSize, given>>

\* MemoryPool::Pop: InterlockedPopEntrySList, or malloc if the list is empty.
Pop(t) ==
  /\ pc[t] = "pop"
  /\ LET p == pool[t] IN
       IF free[p] = <<>>
         THEN Malloc(t, p) /\ Goto(t, "use") /\ UNCHANGED free
         ELSE /\ block' = [block EXCEPT ![t] = Head(free[p])]
              /\ free' = [free EXCEPT ![p] = Tail(@)]
              /\ Goto(t, "check") /\ UNCHANGED room
  /\ UNCHANGED <<use, reserve, allocSize, given, pool, asked>>

\* ASSERT_CRASH(memory->allocSize == 0), and _reserveCount.fetch_sub(1).
PopCheck(t) ==
  /\ pc[t] = "check"
  /\ IF allocSize[block[t]] = 0
       THEN Goto(t, "use") /\ reserve' = [reserve EXCEPT ![pool[t]] = @ - 1]
       ELSE Goto(t, "assert") /\ UNCHANGED reserve
  /\ UNCHANGED <<free, use, room, allocSize, given, pool, block, asked>>

PopUse(t) ==
  /\ pc[t] = "use"
  /\ use' = [use EXCEPT ![pool[t]] = @ + 1]
  /\ Goto(t, "attach")
  /\ UNCHANGED <<free, reserve, room, allocSize, given, pool, block, asked>>

\* AttachHeader: the block is its caller's.
Attach(t) ==
  /\ pc[t] = "attach"
  /\ allocSize' = [allocSize EXCEPT ![block[t]] = asked[t] + Header]
  /\ given' = [given EXCEPT ![block[t]] = asked[t]]
  /\ Goto(t, "idle")
  /\ block' = [block EXCEPT ![t] = None] /\ pool' = [pool EXCEPT ![t] = None]
  /\ asked' = [asked EXCEPT ![t] = 0]
  /\ UNCHANGED <<free, use, reserve, room>>

-----------------------------------------------------------------------------
\* Release(b), by the owner or whoever it was handed to: to free, or to the
\* pool that the size in the header names.
Release(t, b) ==
  /\ pc[t] = "idle" /\ given[b] # None
  /\ given' = [given EXCEPT ![b] = None]
  /\ IF allocSize[b] > MaxAlloc
       THEN room' = [room EXCEPT ![b] = 0] /\ UNCHANGED <<pc, pool, block>>
       ELSE /\ Goto(t, IF allocSize[b] = 0 THEN "assert"
                       ELSE IF PoolTable[allocSize[b]] = None THEN "wild" ELSE "clear")
            /\ pool' = [pool EXCEPT ![t] = PoolTable[allocSize[b]]]
            /\ block' = [block EXCEPT ![t] = b] /\ UNCHANGED room
  /\ UNCHANGED <<free, use, reserve, allocSize, asked>>

\* A seeded bug: the mark is set after the block is in the list.
PushClearMutantLate(t) ==
  /\ pc[t] = "clear"
  /\ Goto(t, "push")
  /\ UNCHANGED <<free, use, reserve, room, allocSize, given, pool, block, asked>>

\* MemoryPool::Push: the mark, InterlockedPushEntrySList, and the two counters.
PushClear(t) ==
  /\ pc[t] = "clear"
  /\ allocSize' = [allocSize EXCEPT ![block[t]] = 0]
  /\ Goto(t, "push")
  /\ UNCHANGED <<free, use, reserve, room, given, pool, block, asked>>

PushEntry(t) ==
  /\ pc[t] = "push"
  /\ free' = [free EXCEPT ![pool[t]] = <<block[t]>> \o @]
  /\ block' = [block EXCEPT ![t] = None]
  /\ Goto(t, "unuse")
  /\ UNCHANGED <<use, reserve, room, allocSize, given, pool, asked>>

PushUse(t) ==
  /\ pc[t] = "unuse"
  /\ use' = [use EXCEPT ![pool[t]] = @ - 1]
  /\ Goto(t, "reserve")
  /\ UNCHANGED <<free, reserve, room, allocSize, given, pool, block, asked>>

PushReserve(t) ==
  /\ pc[t] = "reserve"
  /\ reserve' = [reserve EXCEPT ![pool[t]] = @ + 1]
  /\ pool' = [pool EXCEPT ![t] = None]
  /\ Goto(t, "idle")
  /\ UNCHANGED <<free, use, room, allocSize, given, block, asked>>

\* A thread that followed an unwritten entry.
Wild(t) == pc[t] = "wild" /\ UNCHANGED vars

Step(t) ==
  \/ \E n \in Requests : Allocate(t, n)
  \/ Pop(t) \/ PopCheck(t) \/ PopUse(t) \/ Attach(t)
  \/ \E b \in Blocks : Release(t, b)
  \/ PushClear(t) \/ PushEntry(t) \/ PushUse(t) \/ PushReserve(t)
  \/ Wild(t)

Next == \E t \in Threads : Step(t)

Spec == Init /\ [][Next]_vars

-----------------------------------------------------------------------------
Labels == {"idle", "pop", "check", "use", "attach", "clear", "push", "unuse", "reserve",
           "wild"}

\* Every state has the shape above, with no thread at "assert".
TypeOK ==
  /\ free \in [Pools -> Seq(Blocks)]
  /\ use \in [Pools -> Int] /\ reserve \in [Pools -> Int]
  /\ room \in [Blocks -> Nat] /\ allocSize \in [Blocks -> Nat]
  /\ given \in [Blocks -> Requests \cup {None}]
  /\ pc \in [Threads -> Labels]
  /\ pool \in [Threads -> Pools \cup {None}]
  /\ block \in [Threads -> Blocks \cup {None}]
  /\ asked \in [Threads -> Nat]

\* The request and its header fit the memory behind the block, and as long as
\* the block is owned its header leads back to the pool it came from.
BlockFits ==
  \A b \in Blocks : given[b] # None =>
    /\ room[b] >= given[b] + Header
    /\ room[b] <= MaxAlloc => PoolTable[allocSize[b]] = room[b]

Places(b) ==
  {<<"owner", b>> : x \in {x \in {b} : given[x] # None}}
    \cup {<<"thread", t>> : t \in {t \in Threads : block[t] = b}}
    \cup UNION {{<<"list", p, i>> : i \in {i \in DOMAIN free[p] : free[p][i] = b}} : p \in Pools}

\* A block is in one place: its owner's, a thread's on the way, or one list
\* once; and a block that malloc gave is never lost.  A block of a list is marked
\* free whenever another thread can find it there (TypeOK has no failed
\* assertion).  An entry of the table that was never written is followed by
\* Allocate only, for a size above the last class: never by Release.
BlockInOnePlace ==
  /\ TypeOK
  /\ \A b \in Blocks : Cardinality(Places(b)) = IF room[b] = 0 THEN 0 ELSE 1
  /\ \A t \in Threads : pc[t] = "wild" =>
       asked[t] \in Requests /\ \A p \in Pools : p < asked[t] + Header
=============================================================================
