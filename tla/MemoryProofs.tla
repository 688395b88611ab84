---------------------------- MODULE MemoryProofs ----------------------------
(***************************************************************************)
(* Theorems about the two allocators: Memory, for any number of threads    *)
(* and blocks and any sizes the constructor's loops may have, and          *)
(* StompAllocator, for every size and address.                             *)
(*                                                                         *)
(* The argument for Memory: how far a thread is in Allocate or Release     *)
(* says what it knows of its block.  A block is made with the room of the  *)
(* class its request is looked up under, and keeps it until it is freed;   *)
(* the header repeats that size, so that the look-up on the way back finds *)
(* the same class.  A block passes from its owner to a thread, to a list   *)
(* and back in single steps, each of which takes it from where it was; it  *)
(* is marked free before it is in a list and until it has left it.         *)
(***************************************************************************)
EXTENDS Memory, FiniteSetTheorems, WellFoundedInduction, TLAPS

Stomp == INSTANCE StompAllocator

\* The bytes that malloc reserves for a block of n bytes.
RoomFor(n) == IF n + Header > MaxAlloc THEN n + Header ELSE PoolTable[n + Header]

\* Where a block of class p may be looked up or taken from.
WithPool == {"pop", "check", "use", "clear", "push", "unuse", "reserve"}

HasBlock == {"check", "use", "attach", "clear", "push"}

\* What a thread knows, by how far it is.
ThreadKnows(t) ==
  /\ block[t] # None <=> pc[t] \in HasBlock
  /\ pc[t] \in WithPool => pool[t] \in Pools
  /\ pc[t] \in {"pop", "check", "use", "attach", "wild"} => asked[t] \in Requests
  /\ pc[t] \in {"pop", "check"} => pool[t] = RoomFor(asked[t])
  /\ pc[t] \in {"pop", "check"} => asked[t] + Header <= MaxAlloc
  /\ pc[t] \in {"check", "push"} => allocSize[block[t]] = 0
  /\ pc[t] \in {"use", "attach"} => room[block[t]] = RoomFor(asked[t])
  /\ pc[t] \in {"check", "clear", "push"} => room[block[t]] = pool[t]
  /\ pc[t] = "wild" => asked[t] + Header <= MaxAlloc /\ PoolTable[asked[t] + Header] = None

OwnerKnows(b) ==
  given[b] # None => allocSize[b] = given[b] + Header /\ room[b] = RoomFor(given[b])

\* A list holds free blocks of its class.
ListKnows(p) ==
  \A i \in DOMAIN free[p] : room[free[p][i]] = p /\ allocSize[free[p][i]] = 0

\* Nobody has a block that somebody else has.
Separate ==
  /\ \A t, u \in Threads : block[t] = block[u] => t = u \/ block[t] = None
  /\ \A t \in Threads : block[t] # None => given[block[t]] = None
  /\ \A p \in Pools : \A i \in DOMAIN free[p] :
       /\ given[free[p][i]] = None
       /\ \A t \in Threads : block[t] # free[p][i]
       /\ \A j \in DOMAIN free[p] : free[p][i] = free[p][j] => i = j

\* Memory that malloc gave is somewhere.
Kept ==
  \A b \in Blocks : room[b] # 0 =>
    \/ given[b] # None
    \/ \E t \in Threads : block[t] = b
    \/ \E p \in Pools : \E i \in DOMAIN free[p] : free[p][i] = b

MInv ==
  /\ TypeOK
  /\ \A t \in Threads : ThreadKnows(t)
  /\ \A b \in Blocks : OwnerKnows(b)
  /\ \A p \in Pools : ListKnows(p)
  /\ Separate
  /\ Kept

-----------------------------------------------------------------------------
(* The classes and the table. *)

Sizes == [size : Nat \ {0}, pools : SUBSET (Nat \ {0})]

LEMMA LoopFact ==
  ASSUME NEW acc \in Sizes, NEW band \in [step : Nat \ {0}, last : Nat]
  PROVE  Loop(acc, band) \in Sizes
<1>. DEFINE n == IF acc.size > band.last THEN 0 ELSE (band.last - acc.size) \div band.step + 1
<1>0. acc.size \in Nat \ {0} /\ acc.pools \in SUBSET (Nat \ {0})
  BY DEF Sizes
<1>1. n \in Nat
  <2>1. ASSUME NEW a \in Nat, NEW b \in Nat \ {0} PROVE a \div b \in Nat
    OBVIOUS
  <2>2. CASE acc.size > band.last
    BY <2>2
  <2>3. CASE ~(acc.size > band.last)
    <3>1. band.last - acc.size \in Nat /\ band.step \in Nat \ {0}
      BY <1>0, <2>3
    <3>2. (band.last - acc.size) \div band.step \in Nat
      BY <2>1, <3>1
    <3>. QED
      BY <2>3, <3>2
  <2>. QED
    BY <2>2, <2>3
<1>. HIDE DEF n
<1>2. \A i \in Nat : acc.size + i * band.step \in Nat \ {0}
  <2>1. ASSUME NEW a \in Nat, NEW b \in Nat PROVE a * b \in Nat
    OBVIOUS
  <2>. QED
    BY <1>0, <2>1
<1>3. Loop(acc, band)
        = [size |-> acc.size + n * band.step,
           pools |-> acc.pools \cup {acc.size + i * band.step : i \in 0..n - 1}]
  BY DEF Loop, n
<1>. QED
  BY <1>0, <1>1, <1>2, <1>3 DEF Sizes

\* Every class is for some bytes.
LEMMA PoolsFact == Pools \in SUBSET (Nat \ {0})
<1>. DEFINE first  == Loop([size |-> Bands[1].step, pools |-> {}], Bands[1])
            second == Loop(first, Bands[2])
<1>1. /\ Bands[1] \in [step : Nat \ {0}, last : Nat]
      /\ Bands[2] \in [step : Nat \ {0}, last : Nat]
      /\ Bands[3] \in [step : Nat \ {0}, last : Nat]
  BY MemoryAssumption DEF MemoryAssumption
<1>2. [size |-> Bands[1].step, pools |-> {}] \in Sizes
  BY <1>1 DEF Sizes
<1>3. first \in Sizes
  BY <1>1, <1>2, LoopFact
<1>. HIDE DEF first
<1>4. second \in Sizes
  BY <1>1, <1>3, LoopFact
<1>. HIDE DEF second
<1>5. Loop(second, Bands[3]) \in Sizes
  BY <1>1, <1>4, LoopFact
<1>. QED
  BY <1>5 DEF Pools, PoolsOf, first, second, Sizes

\* The first of some classes.
LEMMA MinFact ==
  ASSUME NEW S \in SUBSET Nat, S # {}
  PROVE  Min(S) \in S
<1>. DEFINE R == {pair \in Nat \X Nat : pair[1] < pair[2]}
<1>1. IsWellFoundedOn(R, Nat)
  BY NatLessThanWellFounded DEF OpToRel
<1>. HIDE DEF R
<1>2. \E n \in S : \A m \in S : <<m, n>> \notin R
  BY <1>1, WFMin
<1>3. \E n \in S : \A m \in S : ~(m < n)
  BY <1>2 DEF R
<1>4. \E n \in S : \A m \in S : n <= m
  BY <1>3
<1>. QED
  BY <1>4 DEF Min

\* An entry that was written is a class large enough.
LEMMA TableFact ==
  ASSUME NEW n \in 0..MaxAlloc
  PROVE  /\ PoolTable[n] \in Pools \cup {None}
         /\ PoolTable[n] # None => n <= PoolTable[n] /\ PoolTable[n] \in Pools
         /\ PoolTable[n] = None => \A p \in Pools : ~(n <= p)
<1>. DEFINE S == {p \in Pools : n <= p}
<1>1. PoolTable[n] = IF \E p \in Pools : n <= p THEN Min(S) ELSE None
  BY DEF PoolTable
<1>2. S \in SUBSET Nat
  BY PoolsFact
<1>3. CASE \E p \in Pools : n <= p
  <2>1. Min(S) \in S
    BY <1>2, <1>3, MinFact
  <2>2. None \notin Nat /\ Min(S) \in Nat
    BY <1>2, <2>1, MemoryAssumption DEF MemoryAssumption
  <2>. QED
    BY <1>1, <1>3, <2>1, <2>2
<1>4. CASE ~(\E p \in Pools : n <= p)
  BY <1>1, <1>4
<1>. QED
  BY <1>3, <1>4

\* What RoomFor gives is enough for the request and its header.
LEMMA RoomFact ==
  ASSUME NEW n \in Requests
  PROVE  /\ n \in Nat /\ n # None /\ n + Header \in Nat \ {0}
         /\ RoomFor(n) # None => RoomFor(n) \in Nat \ {0} /\ n + Header <= RoomFor(n)
         /\ n + Header > MaxAlloc => RoomFor(n) = n + Header /\ RoomFor(n) # None
         /\ n + Header <= MaxAlloc =>
              /\ n + Header \in 0..MaxAlloc
              /\ RoomFor(n) = PoolTable[n + Header] /\ RoomFor(n) \in Pools \cup {None}
<1>. USE MemoryAssumption DEF MemoryAssumption
<1>1. n \in Nat /\ n # None /\ n + Header \in Nat \ {0} /\ MaxAlloc \in Nat
  OBVIOUS
<1>2. CASE n + Header > MaxAlloc
  BY <1>1, <1>2 DEF RoomFor
<1>3. CASE ~(n + Header > MaxAlloc)
  <2>1. n + Header \in 0..MaxAlloc
    BY <1>1, <1>3
  <2>2. RoomFor(n) = PoolTable[n + Header]
    BY <1>3 DEF RoomFor
  <2>. QED
    BY <1>1, <1>3, <2>1, <2>2, TableFact, PoolsFact
<1>. QED
  BY <1>2, <1>3

-----------------------------------------------------------------------------
(* What a step does not disturb. *)

\* The other threads know what they knew, if what changes is not their block.
LEMMA OthersKnow ==
  ASSUME MInv, NEW t \in Threads, NEW b,
         \A u \in Threads \ {t} : block[u] # b \/ block[u] = None,
         \A u \in Threads \ {t} :
           pc'[u] = pc[u] /\ pool'[u] = pool[u] /\ block'[u] = block[u] /\ asked'[u] = asked[u],
         \A c \in Blocks \ {b} : room'[c] = room[c] /\ allocSize'[c] = allocSize[c]
  PROVE  \A u \in Threads \ {t} : ThreadKnows(u)'
<1>. SUFFICES ASSUME NEW u \in Threads \ {t} PROVE ThreadKnows(u)'
  OBVIOUS
<1>1. ThreadKnows(u) /\ block[u] \in Blocks \cup {None} /\ pc[u] \in Labels
  BY DEF MInv, TypeOK
<1>2. block[u] # None =>
        room'[block[u]] = room[block[u]] /\ allocSize'[block[u]] = allocSize[block[u]]
  BY <1>1
<1>3. CASE pc[u] \in HasBlock
  BY <1>1, <1>2, <1>3 DEF ThreadKnows
<1>4. CASE pc[u] \notin HasBlock
  BY <1>1, <1>4 DEF ThreadKnows, HasBlock
<1>. QED
  BY <1>3, <1>4

LEMMA OwnersKnow ==
  ASSUME MInv, NEW b,
         \A c \in Blocks \ {b} :
           given'[c] = given[c] /\ room'[c] = room[c] /\ allocSize'[c] = allocSize[c]
  PROVE  \A c \in Blocks \ {b} : OwnerKnows(c)'
BY DEF MInv, OwnerKnows, RoomFor

\* Threads keep their blocks and lists theirs, what is owned is not with them.
LEMMA PlacesStand ==
  ASSUME MInv, UNCHANGED <<free, block, allocSize>>,
         \A p \in Pools : \A i \in DOMAIN free[p] :
           room'[free[p][i]] = room[free[p][i]] /\ given'[free[p][i]] = given[free[p][i]],
         \A t \in Threads : block[t] # None => given'[block[t]] = given[block[t]]
  PROVE  Separate' /\ \A p \in Pools : ListKnows(p)'
<1>1. Separate'
  BY DEF MInv, Separate
<1>2. \A p \in Pools : ListKnows(p)'
  BY DEF MInv, ListKnows
<1>. QED
  BY <1>1, <1>2

-----------------------------------------------------------------------------
(* Allocate. *)

LEMMA MallocFact ==
  ASSUME MInv, NEW t \in Threads, NEW bytes \in Nat \ {0}, Malloc(t, bytes)
  PROVE  \E b \in Blocks :
           /\ room[b] = 0 /\ given[b] = None /\ b # None
           /\ \A u \in Threads : block[u] # b
           /\ \A p \in Pools : \A i \in DOMAIN free[p] : free[p][i] # b
           /\ room' = [room EXCEPT ![b] = bytes] /\ block' = [block EXCEPT ![t] = b]
<1>1. PICK b \in Blocks : /\ room[b] = 0
                          /\ room' = [room EXCEPT ![b] = bytes]
                          /\ block' = [block EXCEPT ![t] = b]
  BY DEF Malloc
<1>2. b # None
  BY MemoryAssumption DEF MemoryAssumption
<1>3. given[b] = None
  <2>1. given[b] # None => room[b] = RoomFor(given[b]) /\ given[b] \in Requests
    BY DEF MInv, OwnerKnows, TypeOK
  <2>2. 0 # None
    BY MemoryAssumption DEF MemoryAssumption
  <2>. QED
    BY <1>1, <2>1, <2>2, RoomFact
<1>4. \A p \in Pools : \A i \in DOMAIN free[p] : free[p][i] # b
  <2>. SUFFICES ASSUME NEW p \in Pools, NEW i \in DOMAIN free[p], free[p][i] = b PROVE FALSE
    OBVIOUS
  <2>1. room[b] = p
    BY DEF MInv, ListKnows
  <2>. QED
    BY <1>1, <2>1, PoolsFact
<1>5. ASSUME NEW u \in Threads PROVE block[u] # b
  <2>. SUFFICES ASSUME block[u] = b PROVE FALSE
    OBVIOUS
  <2>1. pc[u] \in HasBlock /\ ThreadKnows(u)
    BY <1>2 DEF MInv, ThreadKnows
  <2>2. CASE pc[u] \in {"check", "clear", "push"}
    <3>1. room[b] = pool[u] /\ pool[u] \in Pools
      BY <2>1, <2>2 DEF ThreadKnows, WithPool
    <3>. QED
      BY <1>1, <3>1, PoolsFact
  <2>3. CASE pc[u] \in {"use", "attach"}
    <3>1. room[b] = RoomFor(asked[u]) /\ asked[u] \in Requests
      BY <2>1, <2>3 DEF ThreadKnows
    <3>2. 0 # None
      BY MemoryAssumption DEF MemoryAssumption
    <3>. QED
      BY <1>1, <3>1, <3>2, RoomFact
  <2>. QED
    BY <2>1, <2>2, <2>3 DEF HasBlock
<1>. QED
  BY <1>1, <1>2, <1>3, <1>4, <1>5

\* A thread that has just got a block from malloc goes on with it.
LEMMA MallocStep ==
  ASSUME MInv, NEW t \in Threads, NEW n \in Requests, block[t] = None,
         Malloc(t, RoomFor(n)), RoomFor(n) # None,
         UNCHANGED <<free, use, reserve, allocSize, given>>,
         \A u \in Threads \ {t} : pc'[u] = pc[u] /\ pool'[u] = pool[u] /\ asked'[u] = asked[u],
         pc'[t] \in {"use", "attach"}, asked'[t] = n, pc'[t] = "use" => pool'[t] \in Pools,
         TypeOK'
  PROVE  MInv'
<1>1. RoomFor(n) \in Nat \ {0}
  BY RoomFact
<1>2. PICK b \in Blocks :
        /\ room[b] = 0 /\ given[b] = None /\ b # None
        /\ \A u \in Threads : block[u] # b
        /\ \A p \in Pools : \A i \in DOMAIN free[p] : free[p][i] # b
        /\ room' = [room EXCEPT ![b] = RoomFor(n)] /\ block' = [block EXCEPT ![t] = b]
  BY <1>1, MallocFact
<1>3. /\ room'[b] = RoomFor(n) /\ \A c \in Blocks \ {b} : room'[c] = room[c]
      /\ block'[t] = b /\ \A u \in Threads \ {t} : block'[u] = block[u]
  BY <1>2 DEF MInv, TypeOK
<1>4. ThreadKnows(t)'
  BY <1>2, <1>3 DEF ThreadKnows, HasBlock, WithPool, RoomFor, PoolTable
<1>5. \A u \in Threads \ {t} : ThreadKnows(u)'
  BY <1>2, <1>3, OthersKnow
<1>6. \A c \in Blocks : OwnerKnows(c)'
  <2>1. \A c \in Blocks \ {b} : OwnerKnows(c)'
    BY <1>3, OwnersKnow
  <2>. QED
    BY <1>2, <2>1 DEF OwnerKnows
<1>7. \A p \in Pools : ListKnows(p)'
  <2>1. \A p \in Pools : \A i \in DOMAIN free[p] : free[p][i] \in Blocks
    BY DEF MInv, TypeOK
  <2>. QED
    BY <1>2, <1>3, <2>1 DEF MInv, ListKnows
<1>8. Separate'
  <2>1. \A v, u \in Threads : block'[v] = block'[u] => v = u \/ block'[v] = None
    BY <1>2, <1>3 DEF MInv, Separate
  <2>2. \A u \in Threads : block'[u] # None => given[block'[u]] = None
    BY <1>2, <1>3 DEF MInv, Separate
  <2>3. \A p \in Pools : \A i \in DOMAIN free[p] : \A u \in Threads : block'[u] # free[p][i]
    BY <1>2, <1>3 DEF MInv, Separate
  <2>. QED
    BY <2>1, <2>2, <2>3 DEF MInv, Separate
<1>9. Kept'
  <2>. SUFFICES ASSUME NEW c \in Blocks, room'[c] # 0
                PROVE  \/ given[c] # None
                       \/ \E u \in Threads : block'[u] = c
                       \/ \E p \in Pools : \E i \in DOMAIN free[p] : free[p][i] = c
    BY DEF Kept
  <2>1. CASE c = b
    BY <1>3, <2>1
  <2>2. CASE c # b
    <3>1. room[c] # 0
      BY <1>3, <2>2
    <3>2. ASSUME NEW u \in Threads, block[u] = c PROVE \E v \in Threads : block'[v] = c
      <4>1. u # t
        BY <3>2, MemoryAssumption DEF MemoryAssumption
      <4>. QED
        BY <1>3, <3>2, <4>1
    <3>. QED
      BY <3>1, <3>2 DEF MInv, Kept
  <2>. QED
    BY <2>1, <2>2
<1>. QED
  BY <1>4, <1>5, <1>6, <1>7, <1>8, <1>9 DEF MInv

LEMMA AllocateStep ==
  ASSUME MInv, NEW t \in Threads, NEW n \in Requests, Allocate(t, n)
  PROVE  MInv'
<1>0. /\ pc[t] = "idle" /\ block[t] = None /\ n \in Nat /\ n + Header \in Nat
      /\ UNCHANGED <<free, use, reserve, allocSize, given>> /\ asked' = [asked EXCEPT ![t] = n]
  BY RoomFact DEF Allocate, MInv, ThreadKnows, HasBlock
<1>1. CASE n + Header > MaxAlloc
  <2>1. Malloc(t, RoomFor(n)) /\ pc' = [pc EXCEPT ![t] = "attach"] /\ pool' = pool
    BY <1>0, <1>1, RoomFact DEF Allocate, Goto
  <2>2. RoomFor(n) # None /\ RoomFor(n) \in Nat \ {0}
    BY <1>1, RoomFact
  <2>3. TypeOK'
    <3>1. PICK b \in Blocks : /\ room' = [room EXCEPT ![b] = RoomFor(n)]
                              /\ block' = [block EXCEPT ![t] = b]
      BY <2>1 DEF Malloc
    <3>. QED
      BY <1>0, <2>1, <2>2, <3>1 DEF MInv, TypeOK, Labels
  <2>4. /\ \A u \in Threads \ {t} : pc'[u] = pc[u] /\ pool'[u] = pool[u] /\ asked'[u] = asked[u]
        /\ pc'[t] = "attach" /\ asked'[t] = n
    BY <1>0, <2>1 DEF MInv, TypeOK
  <2>. QED
    BY <1>0, <2>1, <2>2, <2>3, <2>4, MallocStep
<1>2. CASE ~(n + Header > MaxAlloc)
  <2>. DEFINE entry == PoolTable[n + Header]
  <2>1. /\ pool' = [pool EXCEPT ![t] = entry] /\ UNCHANGED <<room, block>>
        /\ pc' = [pc EXCEPT ![t] = IF entry = None THEN "wild" ELSE "pop"]
    BY <1>2 DEF Allocate, Goto
  <2>2. n + Header <= MaxAlloc /\ entry = RoomFor(n) /\ entry \in Pools \cup {None}
    BY <1>0, <1>2, RoomFact, MemoryAssumption DEF MemoryAssumption
  <2>. HIDE DEF entry
  <2>3. TypeOK'
    BY <1>0, <2>1, <2>2 DEF MInv, TypeOK, Labels
  <2>4. /\ \A u \in Threads \ {t} :
             pc'[u] = pc[u] /\ pool'[u] = pool[u] /\ block'[u] = block[u] /\ asked'[u] = asked[u]
        /\ pc'[t] = (IF entry = None THEN "wild" ELSE "pop") /\ asked'[t] = n /\ pool'[t] = entry
        /\ block'[t] = None
    BY <1>0, <2>1 DEF MInv, TypeOK
  <2>5. ThreadKnows(t)'
    <3>1. CASE entry = None
      BY <2>2, <2>4, <3>1 DEF ThreadKnows, HasBlock, WithPool, entry
    <3>2. CASE entry # None
      BY <2>2, <2>4, <3>2 DEF ThreadKnows, HasBlock, WithPool, RoomFor, PoolTable
    <3>. QED
      BY <3>1, <3>2
  <2>6. \A u \in Threads \ {t} : ThreadKnows(u)'
    BY <1>0, <2>1, <2>4, OthersKnow
  <2>7. \A c \in Blocks : OwnerKnows(c)'
    BY <1>0, <2>1 DEF MInv, OwnerKnows, RoomFor
  <2>8. Separate' /\ \A p \in Pools : ListKnows(p)'
    BY <1>0, <2>1, PlacesStand
  <2>9. Kept'
    BY <1>0, <2>1 DEF MInv, Kept
  <2>. QED
    BY <2>3, <2>4, <2>5, <2>6, <2>7, <2>8, <2>9 DEF MInv
<1>. QED
  BY <1>1, <1>2

\* The head of a list, and what is left of it.
LEMMA HeadTailFact ==
  ASSUME MInv, NEW p \in Pools, free[p] # <<>>
  PROVE  /\ Head(free[p]) = free[p][1] /\ 1 \in DOMAIN free[p] /\ Head(free[p]) \in Blocks
         /\ Tail(free[p]) \in Seq(Blocks)
         /\ \A i \in DOMAIN Tail(free[p]) :
              /\ Tail(free[p])[i] = free[p][i + 1] /\ i + 1 \in DOMAIN free[p] /\ i \in Nat
              /\ Tail(free[p])[i] # Head(free[p])
         /\ \A i \in DOMAIN free[p] : i # 1 =>
              i - 1 \in DOMAIN Tail(free[p]) /\ Tail(free[p])[i - 1] = free[p][i]
<1>1. free[p] \in Seq(Blocks)
  BY DEF MInv, TypeOK
<1>2. /\ Head(free[p]) = free[p][1] /\ 1 \in DOMAIN free[p] /\ Head(free[p]) \in Blocks
      /\ Tail(free[p]) \in Seq(Blocks)
      /\ DOMAIN free[p] = 1..Len(free[p]) /\ Len(free[p]) \in Nat
      /\ DOMAIN Tail(free[p]) = 1..(Len(free[p]) - 1)
  BY <1>1
<1>3. ASSUME NEW i \in DOMAIN Tail(free[p])
      PROVE  /\ Tail(free[p])[i] = free[p][i + 1] /\ i + 1 \in DOMAIN free[p] /\ i \in Nat
             /\ Tail(free[p])[i] # Head(free[p])
  <2>1. Tail(free[p])[i] = free[p][i + 1] /\ i + 1 \in DOMAIN free[p] /\ i \in Nat /\ i + 1 # 1
    BY <1>1, <1>2
  <2>. QED
    BY <1>2, <2>1 DEF MInv, Separate
<1>4. ASSUME NEW i \in DOMAIN free[p], i # 1
      PROVE  i - 1 \in DOMAIN Tail(free[p]) /\ Tail(free[p])[i - 1] = free[p][i]
  BY <1>1, <1>2, <1>4
<1>. QED
  BY <1>2, <1>3, <1>4

LEMMA PopStep ==
  ASSUME MInv, NEW t \in Threads, Pop(t)
  PROVE  MInv'
<1>. DEFINE p == pool[t]
            n == asked[t]
<1>0. /\ pc[t] = "pop" /\ block[t] = None /\ p \in Pools /\ n \in Requests /\ p = RoomFor(n)
      /\ UNCHANGED <<use, reserve, allocSize, given, pool, asked>> /\ p # None
      /\ n + Header <= MaxAlloc
  <2>1. None \notin Pools
    BY PoolsFact, MemoryAssumption DEF MemoryAssumption
  <2>. QED
    BY <2>1 DEF Pop, MInv, ThreadKnows, HasBlock, WithPool
<1>1. CASE free[p] = <<>>
  <2>1. Malloc(t, RoomFor(n)) /\ pc' = [pc EXCEPT ![t] = "use"] /\ free' = free
    BY <1>0, <1>1 DEF Pop, Goto
  <2>2. TypeOK'
    <3>1. PICK b \in Blocks : /\ room' = [room EXCEPT ![b] = RoomFor(n)]
                              /\ block' = [block EXCEPT ![t] = b]
      BY <2>1 DEF Malloc
    <3>. QED
      BY <1>0, <2>1, <3>1, PoolsFact DEF MInv, TypeOK, Labels
  <2>3. /\ \A u \in Threads \ {t} : pc'[u] = pc[u] /\ pool'[u] = pool[u] /\ asked'[u] = asked[u]
        /\ pc'[t] = "use" /\ asked'[t] = n /\ pool'[t] \in Pools
    BY <1>0, <2>1 DEF MInv, TypeOK
  <2>. QED
    BY <1>0, <2>1, <2>2, <2>3, MallocStep
<1>2. CASE free[p] # <<>>
  <2>. DEFINE b == Head(free[p])
  <2>1. /\ block' = [block EXCEPT ![t] = b] /\ free' = [free EXCEPT ![p] = Tail(@)]
        /\ pc' = [pc EXCEPT ![t] = "check"] /\ room' = room
    BY <1>2 DEF Pop, Goto
  <2>2. /\ b = free[p][1] /\ 1 \in DOMAIN free[p] /\ b \in Blocks /\ Tail(free[p]) \in Seq(Blocks)
        /\ \A i \in DOMAIN Tail(free[p]) :
             /\ Tail(free[p])[i] = free[p][i + 1] /\ i + 1 \in DOMAIN free[p] /\ i \in Nat
             /\ Tail(free[p])[i] # b
        /\ \A i \in DOMAIN free[p] : i # 1 =>
              i - 1 \in DOMAIN Tail(free[p]) /\ Tail(free[p])[i - 1] = free[p][i]
    BY <1>0, <1>2, HeadTailFact
  <2>3. /\ b # None /\ given[b] = None /\ room[b] = p /\ allocSize[b] = 0
        /\ \A u \in Threads : block[u] # b
    <3>1. given[b] = None /\ \A u \in Threads : block[u] # b
      BY <1>0, <2>2 DEF MInv, Separate
    <3>2. ListKnows(p)
      BY <1>0 DEF MInv
    <3>. QED
      BY <2>2, <3>1, <3>2, MemoryAssumption DEF MemoryAssumption, ListKnows
  <2>. HIDE DEF b
  <2>4. /\ block'[t] = b /\ pc'[t] = "check" /\ free'[p] = Tail(free[p])
        /\ \A u \in Threads \ {t} : pc'[u] = pc[u] /\ block'[u] = block[u]
        /\ \A q \in Pools \ {p} : free'[q] = free[q]
    BY <1>0, <2>1 DEF MInv, TypeOK
  <2>5. TypeOK'
    BY <1>0, <2>1, <2>2 DEF MInv, TypeOK, Labels
  <2>6. ThreadKnows(t)'
    BY <1>0, <2>1, <2>3, <2>4 DEF ThreadKnows, HasBlock, WithPool, RoomFor, PoolTable
  <2>7. \A u \in Threads \ {t} : ThreadKnows(u)'
    BY <1>0, <2>1, <2>3, <2>4, OthersKnow
  <2>8. \A c \in Blocks : OwnerKnows(c)'
    BY <1>0, <2>1 DEF MInv, OwnerKnows, RoomFor
  <2>9. ASSUME NEW q \in Pools, NEW i \in DOMAIN free'[q]
        PROVE  /\ free'[q][i] # b
               /\ \E j \in DOMAIN free[q] : free'[q][i] = free[q][j] /\ j = IF q = p THEN i + 1 ELSE i
    <3>1. CASE q = p
      <4>1. i \in DOMAIN Tail(free[p]) /\ free'[q][i] = Tail(free[p])[i]
        BY <2>4, <3>1
      <4>2. free'[q][i] = free[q][i + 1] /\ i + 1 \in DOMAIN free[q] /\ free'[q][i] # b
        BY <2>2, <3>1, <4>1
      <4>. QED
        BY <3>1, <4>2
    <3>2. CASE q # p
      <4>1. i \in DOMAIN free[q] /\ free'[q][i] = free[q][i]
        BY <2>4, <3>2
      <4>2. room[free[q][i]] = q
        BY <4>1 DEF MInv, ListKnows
      <4>. QED
        BY <2>3, <3>2, <4>1, <4>2
    <3>. QED
      BY <3>1, <3>2
  <2>10. \A q \in Pools : ListKnows(q)'
    <3>. SUFFICES ASSUME NEW q \in Pools, NEW i \in DOMAIN free'[q]
                  PROVE  room[free'[q][i]] = q /\ allocSize[free'[q][i]] = 0
      BY <1>0, <2>1 DEF ListKnows
    <3>. QED
      BY <2>9 DEF MInv, ListKnows
  <2>11. Separate'
    <3>1. \A v, u \in Threads : block'[v] = block'[u] => v = u \/ block'[v] = None
      BY <2>3, <2>4 DEF MInv, Separate
    <3>2. \A u \in Threads : block'[u] # None => given'[block'[u]] = None
      BY <1>0, <2>3, <2>4 DEF MInv, Separate
    <3>3. ASSUME NEW q \in Pools, NEW i \in DOMAIN free'[q]
          PROVE  given'[free'[q][i]] = None /\ \A u \in Threads : block'[u] # free'[q][i]
      BY <1>0, <2>4, <2>9 DEF MInv, Separate
    <3>4. ASSUME NEW q \in Pools, NEW i \in DOMAIN free'[q], NEW j \in DOMAIN free'[q],
                 free'[q][i] = free'[q][j]
          PROVE  i = j
      <4>1. CASE q = p
        <5>1. i + 1 = j + 1
          BY <2>9, <3>4, <4>1 DEF MInv, Separate
        <5>2. i \in Nat /\ j \in Nat
          <6>1. i \in DOMAIN Tail(free[p]) /\ j \in DOMAIN Tail(free[p])
            BY <2>4, <3>4, <4>1
          <6>. QED
            BY <2>2, <6>1
        <5>. QED
          BY <5>1, <5>2
      <4>2. CASE q # p
        BY <2>9, <3>4, <4>2 DEF MInv, Separate
      <4>. QED
        BY <4>1, <4>2
    <3>. QED
      BY <3>1, <3>2, <3>3, <3>4 DEF Separate
  <2>12. Kept'
    <3>. SUFFICES ASSUME NEW c \in Blocks, room[c] # 0, c # b
                  PROVE  \/ given[c] # None
                         \/ \E u \in Threads : block'[u] = c
                         \/ \E q \in Pools : \E i \in DOMAIN free'[q] : free'[q][i] = c
      BY <1>0, <2>1, <2>4 DEF Kept
    <3>1. ASSUME NEW u \in Threads, block[u] = c PROVE block'[u] = c
      BY <1>0, <2>4, <3>1, MemoryAssumption DEF MemoryAssumption
    <3>2. ASSUME NEW q \in Pools, NEW i \in DOMAIN free[q], free[q][i] = c
          PROVE  \E j \in DOMAIN free'[q] : free'[q][j] = c
      <4>1. CASE q = p
        <5>1. i # 1
          BY <2>2, <3>2, <4>1
        <5>2. i - 1 \in DOMAIN Tail(free[p]) /\ Tail(free[p])[i - 1] = c
          BY <2>2, <3>2, <4>1, <5>1
        <5>. QED
          BY <2>4, <4>1, <5>2
      <4>2. CASE q # p
        BY <2>4, <3>2, <4>2
      <4>. QED
        BY <4>1, <4>2
    <3>. QED
      BY <3>1, <3>2 DEF MInv, Kept
  <2>. QED
    BY <2>5, <2>6, <2>7, <2>8, <2>10, <2>11, <2>12 DEF MInv
<1>. QED
  BY <1>1, <1>2

\* Steps that move no block and change no header.
LEMMA CounterStep ==
  ASSUME MInv, NEW t \in Threads, UNCHANGED <<free, room, allocSize, given, block, asked>>,
         \A u \in Threads \ {t} : pc'[u] = pc[u] /\ pool'[u] = pool[u],
         TypeOK', ThreadKnows(t)'
  PROVE  MInv'
<1>1. \A u \in Threads \ {t} : ThreadKnows(u)'
  BY OthersKnow
<1>2. \A c \in Blocks : OwnerKnows(c)'
  BY DEF MInv, OwnerKnows, RoomFor
<1>3. Separate' /\ \A p \in Pools : ListKnows(p)'
  BY PlacesStand
<1>4. Kept'
  BY DEF MInv, Kept
<1>. QED
  BY <1>1, <1>2, <1>3, <1>4 DEF MInv

LEMMA PopRestStep ==
  ASSUME MInv, NEW t \in Threads, PopCheck(t) \/ PopUse(t)
  PROVE  MInv'
<1>1. CASE PopCheck(t)
  <2>1. /\ pc[t] = "check" /\ ThreadKnows(t) /\ allocSize[block[t]] = 0 /\ pool[t] \in Pools
        /\ UNCHANGED <<free, use, room, allocSize, given, pool, block, asked>>
    BY <1>1 DEF PopCheck, MInv, ThreadKnows, WithPool
  <2>2. pc' = [pc EXCEPT ![t] = "use"] /\ reserve' = [reserve EXCEPT ![pool[t]] = @ - 1]
    BY <1>1, <2>1 DEF PopCheck, Goto
  <2>3. TypeOK'
    BY <2>1, <2>2 DEF MInv, TypeOK, Labels
  <2>4. pc'[t] = "use" /\ \A u \in Threads \ {t} : pc'[u] = pc[u]
    BY <2>2 DEF MInv, TypeOK
  <2>5. ThreadKnows(t)'
    BY <2>1, <2>4 DEF ThreadKnows, HasBlock, WithPool, RoomFor
  <2>. QED
    BY <2>1, <2>3, <2>4, <2>5, CounterStep
<1>2. CASE PopUse(t)
  <2>1. /\ pc[t] = "use" /\ ThreadKnows(t) /\ pool[t] \in Pools
        /\ UNCHANGED <<free, reserve, room, allocSize, given, pool, block, asked>>
        /\ pc' = [pc EXCEPT ![t] = "attach"] /\ use' = [use EXCEPT ![pool[t]] = @ + 1]
    BY <1>2 DEF PopUse, Goto, MInv, ThreadKnows, WithPool
  <2>2. TypeOK'
    BY <2>1 DEF MInv, TypeOK, Labels
  <2>3. pc'[t] = "attach" /\ \A u \in Threads \ {t} : pc'[u] = pc[u]
    BY <2>1 DEF MInv, TypeOK
  <2>4. ThreadKnows(t)'
    BY <2>1, <2>3 DEF ThreadKnows, HasBlock, WithPool, RoomFor
  <2>. QED
    BY <2>1, <2>2, <2>3, <2>4, CounterStep
<1>. QED
  BY <1>1, <1>2

LEMMA AttachStep ==
  ASSUME MInv, NEW t \in Threads, Attach(t)
  PROVE  MInv'
<1>0. PICK b \in Blocks, n \in Requests : b = block[t] /\ n = asked[t]
  BY DEF Attach, MInv, TypeOK, ThreadKnows, HasBlock
<1>1. /\ pc[t] = "attach" /\ b \in Blocks /\ b # None /\ n \in Requests /\ room[b] = RoomFor(n)
      /\ pool[t] \in Pools \cup {None}
      /\ UNCHANGED <<free, use, reserve, room>>
      /\ allocSize' = [allocSize EXCEPT ![b] = n + Header] /\ given' = [given EXCEPT ![b] = n]
      /\ pc' = [pc EXCEPT ![t] = "idle"] /\ block' = [block EXCEPT ![t] = None]
      /\ pool' = [pool EXCEPT ![t] = None] /\ asked' = [asked EXCEPT ![t] = 0]
  BY <1>0 DEF Attach, Goto, MInv, TypeOK, ThreadKnows, HasBlock
<1>2. /\ n \in Nat /\ n # None /\ n + Header \in Nat
  BY <1>1, RoomFact
<1>3. /\ \A u \in Threads \ {t} : block[u] # b
      /\ \A p \in Pools : \A i \in DOMAIN free[p] : free[p][i] # b
  BY <1>0, <1>1 DEF MInv, Separate
<1>4. /\ block'[t] = None /\ pc'[t] = "idle" /\ pool'[t] = None /\ asked'[t] = 0
      /\ \A u \in Threads \ {t} :
           pc'[u] = pc[u] /\ pool'[u] = pool[u] /\ block'[u] = block[u] /\ asked'[u] = asked[u]
      /\ allocSize'[b] = n + Header /\ given'[b] = n
      /\ \A c \in Blocks \ {b} : allocSize'[c] = allocSize[c] /\ given'[c] = given[c]
  BY <1>1 DEF MInv, TypeOK
<1>5. TypeOK'
  BY <1>1, <1>2 DEF MInv, TypeOK, Labels
<1>6. ThreadKnows(t)'
  BY <1>4 DEF ThreadKnows, HasBlock, WithPool
<1>7. \A u \in Threads \ {t} : ThreadKnows(u)'
  BY <1>1, <1>3, <1>4, OthersKnow
<1>8. \A c \in Blocks : OwnerKnows(c)'
  <2>1. \A c \in Blocks \ {b} : OwnerKnows(c)'
    BY <1>1, <1>4, OwnersKnow
  <2>2. OwnerKnows(b)'
    BY <1>1, <1>4 DEF OwnerKnows, RoomFor, PoolTable
  <2>. QED
    BY <2>1, <2>2
<1>9. \A p \in Pools : ListKnows(p)'
  <2>1. \A p \in Pools : \A i \in DOMAIN free[p] : free[p][i] \in Blocks
    BY DEF MInv, TypeOK
  <2>. QED
    BY <1>1, <1>3, <1>4, <2>1 DEF MInv, ListKnows
<1>10. Separate'
  <2>1. \A v, u \in Threads : block'[v] = block'[u] => v = u \/ block'[v] = None
    BY <1>4 DEF MInv, Separate
  <2>2. \A u \in Threads : block'[u] # None => given'[block'[u]] = None
    <3>. SUFFICES ASSUME NEW u \in Threads \ {t}, block[u] # None
                  PROVE  given'[block[u]] = None
      BY <1>4
    <3>1. block[u] \in Blocks \ {b} /\ given[block[u]] = None
      BY <1>3 DEF MInv, TypeOK, Separate
    <3>. QED
      BY <1>4, <3>1
  <2>3. ASSUME NEW p \in Pools, NEW i \in DOMAIN free[p]
        PROVE  given'[free[p][i]] = None /\ \A u \in Threads : block'[u] # free[p][i]
    <3>1. free[p][i] \in Blocks \ {b} /\ given[free[p][i]] = None
      BY <1>3 DEF MInv, TypeOK, Separate
    <3>2. free[p][i] # None
      BY <3>1, MemoryAssumption DEF MemoryAssumption
    <3>3. \A u \in Threads : block[u] # free[p][i]
      BY DEF MInv, Separate
    <3>. QED
      BY <1>4, <3>1, <3>2, <3>3
  <2>. QED
    BY <1>1, <2>1, <2>2, <2>3 DEF MInv, Separate
<1>11. Kept'
  <2>. SUFFICES ASSUME NEW c \in Blocks, room[c] # 0, c # b
                PROVE  \/ given'[c] # None
                       \/ \E u \in Threads : block'[u] = c
                       \/ \E p \in Pools : \E i \in DOMAIN free[p] : free[p][i] = c
    BY <1>1, <1>2, <1>4 DEF Kept
  <2>1. \A u \in Threads : block[u] = c => u # t
    BY <1>0
  <2>. QED
    BY <1>4, <2>1 DEF MInv, Kept
<1>. QED
  BY <1>5, <1>6, <1>7, <1>8, <1>9, <1>10, <1>11 DEF MInv

-----------------------------------------------------------------------------
(* Release. *)

LEMMA ReleaseStep ==
  ASSUME MInv, NEW t \in Threads, NEW b \in Blocks, Release(t, b)
  PROVE  MInv'
<1>. DEFINE n == given[b]
<1>1. /\ pc[t] = "idle" /\ n # None /\ n \in Requests /\ given' = [given EXCEPT ![b] = None]
      /\ UNCHANGED <<free, use, reserve, allocSize, asked>> /\ block[t] = None
      /\ allocSize[b] = n + Header /\ room[b] = RoomFor(n) /\ room[b] \in Nat
      /\ asked[t] \in Nat
  BY DEF Release, MInv, TypeOK, OwnerKnows, ThreadKnows, HasBlock
<1>2. /\ b # None /\ \A u \in Threads : block[u] # b
      /\ \A p \in Pools : \A i \in DOMAIN free[p] : free[p][i] # b
  BY <1>1, MemoryAssumption DEF MInv, Separate, MemoryAssumption
<1>3. /\ given'[b] = None /\ \A c \in Blocks \ {b} : given'[c] = given[c]
      /\ \A p \in Pools : \A i \in DOMAIN free[p] : free[p][i] \in Blocks \ {b}
      /\ \A u \in Threads : block[u] # None => block[u] \in Blocks \ {b}
  BY <1>1, <1>2 DEF MInv, TypeOK
<1>4. CASE allocSize[b] > MaxAlloc
  <2>1. room' = [room EXCEPT ![b] = 0] /\ UNCHANGED <<pc, pool, block>>
    BY <1>4 DEF Release
  <2>2. room'[b] = 0 /\ \A c \in Blocks \ {b} : room'[c] = room[c]
    BY <2>1 DEF MInv, TypeOK
  <2>3. TypeOK'
    BY <1>1, <2>1 DEF MInv, TypeOK
  <2>4. ThreadKnows(t)'
    BY <1>1, <2>1 DEF MInv, ThreadKnows, HasBlock, WithPool
  <2>5. \A u \in Threads \ {t} : ThreadKnows(u)'
    BY <1>1, <1>2, <2>1, <2>2, OthersKnow
  <2>6. \A c \in Blocks : OwnerKnows(c)'
    <3>1. \A c \in Blocks \ {b} : OwnerKnows(c)'
      BY <1>1, <1>3, <2>2, OwnersKnow
    <3>. QED
      BY <1>3, <3>1 DEF OwnerKnows
  <2>7. Separate' /\ \A p \in Pools : ListKnows(p)'
    BY <1>1, <1>3, <2>1, <2>2, PlacesStand
  <2>8. Kept'
    BY <1>1, <1>3, <2>1, <2>2 DEF MInv, Kept
  <2>. QED
    BY <2>3, <2>4, <2>5, <2>6, <2>7, <2>8 DEF MInv
<1>5. CASE ~(allocSize[b] > MaxAlloc)
  <2>. DEFINE p == PoolTable[allocSize[b]]
  <2>1. /\ p = room[b] /\ p \in Pools /\ allocSize[b] > 0
    <3>1. n + Header \in Nat \ {0} /\ n + Header <= MaxAlloc
      <4>1. n + Header \in Nat \ {0}
        BY <1>1, RoomFact
      <4>. QED
        BY <1>1, <1>5, <4>1, MemoryAssumption DEF MemoryAssumption
    <3>2. RoomFor(n) = PoolTable[n + Header] /\ RoomFor(n) \in Pools \cup {None}
      BY <1>1, <3>1, RoomFact
    <3>3. RoomFor(n) # None
      BY <1>1, MemoryAssumption DEF MemoryAssumption
    <3>. QED
      BY <1>1, <3>1, <3>2, <3>3
  <2>a. p # None /\ allocSize[b] # 0
    <3>1. \A q \in Pools : q # None
      BY PoolsFact, MemoryAssumption DEF MemoryAssumption
    <3>2. n + Header \in Nat \ {0}
      BY <1>1, RoomFact
    <3>. QED
      BY <1>1, <2>1, <3>1, <3>2
  <2>2. /\ pc' = [pc EXCEPT ![t] = "clear"] /\ pool' = [pool EXCEPT ![t] = p]
        /\ block' = [block EXCEPT ![t] = b] /\ room' = room
    BY <1>5, <2>a DEF Release, Goto
  <2>. HIDE DEF p
  <2>3. /\ pc'[t] = "clear" /\ pool'[t] = p /\ block'[t] = b
        /\ \A u \in Threads \ {t} : pc'[u] = pc[u] /\ pool'[u] = pool[u] /\ block'[u] = block[u]
    BY <2>2 DEF MInv, TypeOK
  <2>4. TypeOK'
    BY <1>1, <2>1, <2>2 DEF MInv, TypeOK, Labels
  <2>5. ThreadKnows(t)'
    BY <1>1, <1>2, <2>1, <2>2, <2>3 DEF ThreadKnows, HasBlock, WithPool
  <2>6. \A u \in Threads \ {t} : ThreadKnows(u)'
    BY <1>1, <1>2, <2>2, <2>3, OthersKnow
  <2>7. \A c \in Blocks : OwnerKnows(c)'
    <3>1. \A c \in Blocks \ {b} : OwnerKnows(c)'
      BY <1>1, <1>3, <2>2, OwnersKnow
    <3>. QED
      BY <1>3, <3>1 DEF OwnerKnows
  <2>8. \A q \in Pools : ListKnows(q)'
    BY <1>1, <2>2 DEF MInv, ListKnows
  <2>9. Separate'
    <3>1. \A v, u \in Threads : block'[v] = block'[u] => v = u \/ block'[v] = None
      BY <1>2, <2>3 DEF MInv, Separate
    <3>2. \A u \in Threads : block'[u] # None => given'[block'[u]] = None
      BY <1>3, <2>3 DEF MInv, Separate
    <3>3. ASSUME NEW q \in Pools, NEW i \in DOMAIN free[q]
          PROVE  given'[free[q][i]] = None /\ \A u \in Threads : block'[u] # free[q][i]
      BY <1>3, <2>3 DEF MInv, Separate
    <3>. QED
      BY <1>1, <3>1, <3>2, <3>3 DEF MInv, Separate
  <2>10. Kept'
    <3>. SUFFICES ASSUME NEW c \in Blocks, room[c] # 0, c # b
                  PROVE  \/ given'[c] # None
                         \/ \E u \in Threads : block'[u] = c
                         \/ \E q \in Pools : \E i \in DOMAIN free[q] : free[q][i] = c
      BY <1>1, <2>2, <2>3 DEF Kept
    <3>1. \A u \in Threads : block[u] = c => block'[u] = c
      BY <1>1, <2>3, MemoryAssumption DEF MemoryAssumption
    <3>. QED
      BY <1>3, <3>1 DEF MInv, Kept
  <2>. QED
    BY <2>4, <2>5, <2>6, <2>7, <2>8, <2>9, <2>10 DEF MInv
<1>. QED
  BY <1>4, <1>5

LEMMA PushClearStep ==
  ASSUME MInv, NEW t \in Threads, PushClear(t)
  PROVE  MInv'
<1>0. PICK b \in Blocks : b = block[t]
  BY DEF PushClear, MInv, TypeOK, ThreadKnows, HasBlock
<1>1. /\ pc[t] = "clear" /\ b # None /\ pool[t] \in Pools /\ room[b] = pool[t]
      /\ UNCHANGED <<free, use, reserve, room, given, pool, block, asked>>
      /\ allocSize' = [allocSize EXCEPT ![b] = 0] /\ pc' = [pc EXCEPT ![t] = "push"]
      /\ ThreadKnows(t)
  BY <1>0 DEF PushClear, Goto, MInv, TypeOK, ThreadKnows, HasBlock, WithPool
<1>2. /\ \A u \in Threads \ {t} : block[u] # b
      /\ given[b] = None
  BY <1>0, <1>1 DEF MInv, Separate
<1>3. /\ pc'[t] = "push" /\ \A u \in Threads \ {t} : pc'[u] = pc[u]
      /\ allocSize'[b] = 0 /\ \A c \in Blocks \ {b} : allocSize'[c] = allocSize[c]
  BY <1>1 DEF MInv, TypeOK
<1>4. TypeOK'
  BY <1>1 DEF MInv, TypeOK, Labels
<1>5. ThreadKnows(t)'
  BY <1>0, <1>1, <1>3 DEF ThreadKnows, HasBlock, WithPool
<1>6. \A u \in Threads \ {t} : ThreadKnows(u)'
  BY <1>1, <1>2, <1>3, OthersKnow
<1>7. \A c \in Blocks : OwnerKnows(c)'
  <2>1. \A c \in Blocks \ {b} : OwnerKnows(c)'
    BY <1>1, <1>3, OwnersKnow
  <2>. QED
    BY <1>1, <1>2, <2>1 DEF OwnerKnows
<1>8. \A p \in Pools : ListKnows(p)'
  <2>1. \A p \in Pools : \A i \in DOMAIN free[p] : free[p][i] \in Blocks
    BY DEF MInv, TypeOK
  <2>. QED
    BY <1>1, <1>3, <2>1 DEF MInv, ListKnows
<1>9. Separate' /\ Kept'
  BY <1>1 DEF MInv, Separate, Kept
<1>. QED
  BY <1>4, <1>5, <1>6, <1>7, <1>8, <1>9 DEF MInv

\* A list with one more block in front.
LEMMA ConsFact ==
  ASSUME NEW list \in Seq(Blocks), NEW b \in Blocks
  PROVE  LET new == <<b>> \o list IN
           /\ new \in Seq(Blocks) /\ 1 \in DOMAIN new /\ new[1] = b
           /\ \A i \in DOMAIN list : i + 1 \in DOMAIN new /\ new[i + 1] = list[i]
           /\ \A i \in DOMAIN new :
                i = 1 \/ (i - 1 \in DOMAIN list /\ new[i] = list[i - 1] /\ i \in Nat)
<1>. DEFINE new == <<b>> \o list
<1>1. /\ new \in Seq(Blocks) /\ Len(new) = Len(list) + 1 /\ DOMAIN new = 1..(Len(list) + 1)
      /\ DOMAIN list = 1..Len(list) /\ Len(list) \in Nat
  OBVIOUS
<1>2. new[1] = b /\ \A i \in 2..(Len(list) + 1) : new[i] = list[i - 1]
  OBVIOUS
<1>. HIDE DEF new
<1>3. ASSUME NEW i \in DOMAIN list PROVE i + 1 \in DOMAIN new /\ new[i + 1] = list[i]
  <2>1. i + 1 \in 2..(Len(list) + 1) /\ (i + 1) - 1 = i
    BY <1>1
  <2>. QED
    BY <1>1, <1>2, <2>1
<1>4. \A i \in DOMAIN new :
        i = 1 \/ (i - 1 \in DOMAIN list /\ new[i] = list[i - 1] /\ i \in Nat)
  BY <1>1, <1>2
<1>5. 1 \in DOMAIN new
  BY <1>1
<1>. QED
  BY <1>1, <1>2, <1>3, <1>4, <1>5 DEF new

LEMMA PushEntryStep ==
  ASSUME MInv, NEW t \in Threads, PushEntry(t)
  PROVE  MInv'
<1>0. PICK b \in Blocks, p \in Pools : b = block[t] /\ p = pool[t]
  BY DEF PushEntry, MInv, TypeOK, ThreadKnows, HasBlock, WithPool
<1>. DEFINE new == <<b>> \o free[p]
<1>1. /\ pc[t] = "push" /\ b # None /\ room[b] = p /\ allocSize[b] = 0
      /\ UNCHANGED <<use, reserve, room, allocSize, given, pool, asked>>
      /\ free' = [free EXCEPT ![p] = new] /\ block' = [block EXCEPT ![t] = None]
      /\ pc' = [pc EXCEPT ![t] = "unuse"]
  BY <1>0 DEF PushEntry, Goto, MInv, TypeOK, ThreadKnows, HasBlock, WithPool
<1>2. /\ \A u \in Threads \ {t} : block[u] # b
      /\ given[b] = None /\ \A q \in Pools : \A i \in DOMAIN free[q] : free[q][i] # b
  BY <1>0, <1>1 DEF MInv, Separate
<1>3. /\ new \in Seq(Blocks) /\ 1 \in DOMAIN new /\ new[1] = b
      /\ \A i \in DOMAIN free[p] : i + 1 \in DOMAIN new /\ new[i + 1] = free[p][i]
      /\ \A i \in DOMAIN new :
           i = 1 \/ (i - 1 \in DOMAIN free[p] /\ new[i] = free[p][i - 1] /\ i \in Nat)
  BY ConsFact DEF MInv, TypeOK
<1>. HIDE DEF new
<1>4. /\ pc'[t] = "unuse" /\ block'[t] = None /\ free'[p] = new
      /\ \A u \in Threads \ {t} : pc'[u] = pc[u] /\ block'[u] = block[u]
      /\ \A q \in Pools \ {p} : free'[q] = free[q]
  BY <1>1 DEF MInv, TypeOK
<1>5. TypeOK'
  BY <1>1, <1>3 DEF MInv, TypeOK, Labels
<1>6. ThreadKnows(t)'
  BY <1>0, <1>1, <1>4 DEF ThreadKnows, HasBlock, WithPool
<1>7. \A u \in Threads \ {t} : ThreadKnows(u)'
  BY <1>1, <1>4, OthersKnow
<1>8. \A c \in Blocks : OwnerKnows(c)'
  BY <1>1 DEF MInv, OwnerKnows, RoomFor
<1>9. ASSUME NEW q \in Pools, NEW i \in DOMAIN free'[q]
      PROVE  \/ q = p /\ i = 1 /\ free'[q][i] = b
             \/ /\ q = p /\ i - 1 \in DOMAIN free[q] /\ free'[q][i] = free[q][i - 1]
                /\ i \in Nat /\ free'[q][i] # b
             \/ q # p /\ i \in DOMAIN free[q] /\ free'[q][i] = free[q][i] /\ free'[q][i] # b
  <2>1. CASE q = p
    BY <1>2, <1>3, <1>4, <2>1
  <2>2. CASE q # p
    BY <1>2, <1>4, <2>2
  <2>. QED
    BY <2>1, <2>2
<1>10. \A q \in Pools : ListKnows(q)'
  <2>. SUFFICES ASSUME NEW q \in Pools, NEW i \in DOMAIN free'[q]
                PROVE  room[free'[q][i]] = q /\ allocSize[free'[q][i]] = 0
    BY <1>1 DEF ListKnows
  <2>1. ListKnows(q)
    BY DEF MInv
  <2>. QED
    BY <1>1, <1>9, <2>1 DEF ListKnows
<1>11. Separate'
  <2>1. \A v, u \in Threads : block'[v] = block'[u] => v = u \/ block'[v] = None
    BY <1>4 DEF MInv, Separate
  <2>2. \A u \in Threads : block'[u] # None => given'[block'[u]] = None
    BY <1>1, <1>4 DEF MInv, Separate
  <2>3. ASSUME NEW q \in Pools, NEW i \in DOMAIN free'[q]
        PROVE  given'[free'[q][i]] = None /\ \A u \in Threads : block'[u] # free'[q][i]
    <3>1. CASE free'[q][i] = b
      BY <1>1, <1>2, <1>4, <3>1
    <3>2. CASE free'[q][i] # b
      <4>1. PICK j \in DOMAIN free[q] : free'[q][i] = free[q][j]
        BY <1>9, <3>2
      <4>2. /\ given[free[q][j]] = None /\ \A u \in Threads : block[u] # free[q][j]
            /\ free[q][j] \in Blocks
        BY DEF MInv, TypeOK, Separate
      <4>. QED
        BY <1>1, <1>4, <4>1, <4>2, MemoryAssumption DEF MemoryAssumption
    <3>. QED
      BY <3>1, <3>2
  <2>4. ASSUME NEW q \in Pools, NEW i \in DOMAIN free'[q], NEW j \in DOMAIN free'[q],
               free'[q][i] = free'[q][j]
        PROVE  i = j
    <3>1. \A k, l \in DOMAIN free[q] : free[q][k] = free[q][l] => k = l
      BY DEF MInv, Separate
    <3>2. CASE q # p
      BY <1>9, <2>4, <3>1, <3>2
    <3>3. CASE q = p
      <4>1. CASE free'[q][i] = b
        BY <1>9, <2>4, <3>3, <4>1
      <4>2. CASE free'[q][i] # b
        <5>1. /\ i - 1 \in DOMAIN free[q] /\ free'[q][i] = free[q][i - 1] /\ i \in Nat
              /\ j - 1 \in DOMAIN free[q] /\ free'[q][j] = free[q][j - 1] /\ j \in Nat
          BY <1>9, <2>4, <3>3, <4>2
        <5>2. i - 1 = j - 1
          BY <2>4, <3>1, <5>1
        <5>. QED
          BY <5>1, <5>2
      <4>. QED
        BY <4>1, <4>2
    <3>. QED
      BY <3>2, <3>3
  <2>. QED
    BY <2>1, <2>2, <2>3, <2>4 DEF Separate
<1>12. Kept'
  <2>. SUFFICES ASSUME NEW c \in Blocks, room[c] # 0
                PROVE  \/ given[c] # None
                       \/ \E u \in Threads : block'[u] = c
                       \/ \E q \in Pools : \E i \in DOMAIN free'[q] : free'[q][i] = c
    BY <1>1 DEF Kept
  <2>1. CASE c = b
    BY <1>3, <1>4, <2>1
  <2>2. CASE c # b
    <3>1. \A u \in Threads : block[u] = c => block'[u] = c
      BY <1>0, <1>4, <2>2
    <3>2. ASSUME NEW q \in Pools, NEW i \in DOMAIN free[q], free[q][i] = c
          PROVE  \E j \in DOMAIN free'[q] : free'[q][j] = c
      <4>1. CASE q = p
        BY <1>3, <1>4, <3>2, <4>1
      <4>2. CASE q # p
        BY <1>4, <3>2, <4>2
      <4>. QED
        BY <4>1, <4>2
    <3>. QED
      BY <3>1, <3>2 DEF MInv, Kept
  <2>. QED
    BY <2>1, <2>2
<1>. QED
  BY <1>5, <1>6, <1>7, <1>8, <1>10, <1>11, <1>12 DEF MInv

LEMMA PushRestStep ==
  ASSUME MInv, NEW t \in Threads, PushUse(t) \/ PushReserve(t)
  PROVE  MInv'
<1>1. CASE PushUse(t)
  <2>1. /\ pc[t] = "unuse" /\ ThreadKnows(t) /\ pool[t] \in Pools
        /\ UNCHANGED <<free, reserve, room, allocSize, given, pool, block, asked>>
        /\ pc' = [pc EXCEPT ![t] = "reserve"] /\ use' = [use EXCEPT ![pool[t]] = @ - 1]
    BY <1>1 DEF PushUse, Goto, MInv, ThreadKnows, WithPool
  <2>2. TypeOK'
    BY <2>1 DEF MInv, TypeOK, Labels
  <2>3. pc'[t] = "reserve" /\ \A u \in Threads \ {t} : pc'[u] = pc[u]
    BY <2>1 DEF MInv, TypeOK
  <2>4. ThreadKnows(t)'
    BY <2>1, <2>3 DEF ThreadKnows, HasBlock, WithPool
  <2>. QED
    BY <2>1, <2>2, <2>3, <2>4, CounterStep
<1>2. CASE PushReserve(t)
  <2>1. /\ pc[t] = "reserve" /\ ThreadKnows(t) /\ pool[t] \in Pools
        /\ UNCHANGED <<free, use, room, allocSize, given, block, asked>>
        /\ pc' = [pc EXCEPT ![t] = "idle"] /\ reserve' = [reserve EXCEPT ![pool[t]] = @ + 1]
        /\ pool' = [pool EXCEPT ![t] = None]
    BY <1>2 DEF PushReserve, Goto, MInv, ThreadKnows, WithPool
  <2>2. TypeOK'
    BY <2>1 DEF MInv, TypeOK, Labels
  <2>3. pc'[t] = "idle" /\ \A u \in Threads \ {t} : pc'[u] = pc[u] /\ pool'[u] = pool[u]
    BY <2>1 DEF MInv, TypeOK
  <2>4. ThreadKnows(t)'
    BY <2>1, <2>3 DEF ThreadKnows, HasBlock, WithPool
  <2>. QED
    BY <2>1, <2>2, <2>3, <2>4, CounterStep
<1>. QED
  BY <1>1, <1>2

-----------------------------------------------------------------------------
LEMMA SpecMInv == Spec => []MInv
<1>1. Init => MInv
  <2>. SUFFICES ASSUME Init PROVE MInv
    OBVIOUS
  <2>1. \A p \in Pools : DOMAIN free[p] = {}
    <3>1. \A p \in Pools : free[p] = <<>>
      BY DEF Init
    <3>. QED
      BY <3>1
  <2>2. TypeOK
    BY DEF Init, TypeOK, Labels
  <2>3. \A t \in Threads : ThreadKnows(t)
    BY DEF Init, ThreadKnows, HasBlock, WithPool
  <2>4. /\ \A b \in Blocks : OwnerKnows(b)
        /\ \A p \in Pools : ListKnows(p)
    BY <2>1 DEF Init, OwnerKnows, ListKnows
  <2>5. Separate /\ Kept
    BY <2>1 DEF Init, Separate, Kept
  <2>. QED
    BY <2>2, <2>3, <2>4, <2>5 DEF MInv
<1>2. MInv /\ [Next]_vars => MInv'
  <2>. SUFFICES ASSUME MInv, [Next]_vars PROVE MInv'
    OBVIOUS
  <2>1. CASE UNCHANGED vars
    <3>1. UNCHANGED <<free, use, reserve, room, allocSize, given, pc, pool, block, asked>>
      BY <2>1 DEF vars
    <3>2. TypeOK'
      BY <3>1 DEF MInv, TypeOK
    <3>3. \A t \in Threads : ThreadKnows(t)'
      BY <3>1 DEF MInv, ThreadKnows
    <3>4. \A b \in Blocks : OwnerKnows(b)'
      BY <3>1 DEF MInv, OwnerKnows
    <3>5. \A p \in Pools : ListKnows(p)'
      BY <3>1 DEF MInv, ListKnows
    <3>6. Separate'
      BY <3>1 DEF MInv, Separate
    <3>7. Kept'
      BY <3>1 DEF MInv, Kept
    <3>. QED
      BY <3>2, <3>3, <3>4, <3>5, <3>6, <3>7 DEF MInv
  <2>2. ASSUME NEW t \in Threads, Wild(t) PROVE UNCHANGED vars
    BY <2>2 DEF Wild
  <2>3. CASE \E t \in Threads : Step(t) /\ ~Wild(t)
    BY <2>3, AllocateStep, PopStep, PopRestStep, AttachStep, ReleaseStep, PushClearStep,
       PushEntryStep, PushRestStep DEF Step
  <2>. QED
    BY <2>1, <2>2, <2>3 DEF Next
<1>. QED
  BY <1>1, <1>2, PTL DEF Spec

\* A block is large enough for what its owner asked for and for the header, and
\* the header names the class the block came from, as Release needs it
\* (Memory.cpp:75 and :100), for any classes and any sizes.
THEOREM BlocksFit == Spec => []BlockFits
<1>1. MInv => BlockFits
  <2>. SUFFICES ASSUME MInv, NEW b \in Blocks, given[b] # None
                PROVE  /\ room[b] >= given[b] + Header
                       /\ room[b] <= MaxAlloc => PoolTable[allocSize[b]] = room[b]
    BY DEF BlockFits
  <2>1. PICK n \in Requests : n = given[b]
    BY DEF MInv, TypeOK
  <2>2. allocSize[b] = n + Header /\ room[b] = RoomFor(n) /\ room[b] \in Nat
    BY <2>1 DEF MInv, TypeOK, OwnerKnows
  <2>3. RoomFor(n) # None /\ n + Header \in Nat
    BY <2>2, RoomFact, MemoryAssumption DEF MemoryAssumption
  <2>4. n + Header <= RoomFor(n)
    BY <2>3, RoomFact
  <2>5. room[b] <= MaxAlloc => n + Header <= MaxAlloc
    BY <2>2, <2>3, <2>4, MemoryAssumption DEF MemoryAssumption
  <2>6. n + Header <= MaxAlloc => RoomFor(n) = PoolTable[n + Header]
    BY RoomFact
  <2>. QED
    BY <2>1, <2>2, <2>3, <2>4, <2>5, <2>6
<1>. QED
  BY <1>1, SpecMInv, PTL

\* No thread fails an assertion; a block that malloc gave is its owner's, a
\* thread's on the way, or in one list once (MemoryPool.cpp:19 to :47); and an
\* entry of the table that was never written is followed by Allocate alone, for a
\* size above every class, as MCMemory's CodeTable says there are some.
THEOREM BlocksInOnePlace == Spec => []BlockInOnePlace
<1>1. MInv => BlockInOnePlace
  <2>. SUFFICES ASSUME MInv PROVE BlockInOnePlace
    OBVIOUS
  <2>1. ASSUME NEW t \in Threads, pc[t] = "wild"
        PROVE  asked[t] \in Requests /\ \A p \in Pools : p < asked[t] + Header
    <3>1. PICK n \in Requests :
            n = asked[t] /\ n + Header <= MaxAlloc /\ PoolTable[n + Header] = None
      BY <2>1 DEF MInv, ThreadKnows
    <3>2. n + Header \in 0..MaxAlloc
      BY <3>1, RoomFact
    <3>3. \A p \in Pools : ~(n + Header <= p)
      BY <3>1, <3>2, TableFact
    <3>. QED
      BY <3>1, <3>2, <3>3, PoolsFact
  <2>2. TypeOK
    BY DEF MInv
  <2>3. ASSUME NEW b \in Blocks
        PROVE  Cardinality(Places(b)) = IF room[b] = 0 THEN 0 ELSE 1
    <3>. DEFINE owners == {<<"owner", b>> : x \in {x \in {b} : given[x] # None}}
                threads == {<<"thread", t>> : t \in {t \in Threads : block[t] = b}}
                lists == UNION {{<<"list", p, i>> : i \in {i \in DOMAIN free[p] : free[p][i] = b}}
                                  : p \in Pools}
    <3>1. Places(b) = owners \cup threads \cup lists
      BY DEF Places
    <3>2. b # None /\ None # 0
      BY MemoryAssumption DEF MemoryAssumption
    <3>3. /\ given[b] = None => owners = {}
          /\ given[b] # None => owners = {<<"owner", b>>}
      OBVIOUS
    <3>4. (\A t \in Threads : block[t] # b) => threads = {}
      OBVIOUS
    <3>5. (\A p \in Pools : \A i \in DOMAIN free[p] : free[p][i] # b) => lists = {}
      OBVIOUS
    <3>6. CASE given[b] # None
      <4>1. /\ \A t \in Threads : block[t] # b
            /\ \A p \in Pools : \A i \in DOMAIN free[p] : free[p][i] # b
        BY <3>2, <3>6 DEF MInv, Separate
      <4>2. Places(b) = {<<"owner", b>>}
        BY <3>1, <3>3, <3>4, <3>5, <3>6, <4>1
      <4>3. room[b] # 0
        <5>1. room[b] = RoomFor(given[b]) /\ given[b] \in Requests
          BY <3>6 DEF MInv, TypeOK, OwnerKnows
        <5>. QED
          BY <3>2, <5>1, RoomFact
      <4>. QED
        BY <4>2, <4>3, FS_Singleton
    <3>7. ASSUME NEW t \in Threads, block[t] = b
          PROVE  Cardinality(Places(b)) = IF room[b] = 0 THEN 0 ELSE 1
      <4>1. /\ given[b] = None /\ \A u \in Threads : block[u] = b => u = t
            /\ \A p \in Pools : \A i \in DOMAIN free[p] : free[p][i] # b
        BY <3>2, <3>7 DEF MInv, Separate
      <4>2. threads = {<<"thread", t>>}
        BY <3>7, <4>1
      <4>3. Places(b) = {<<"thread", t>>}
        BY <3>1, <3>3, <3>5, <4>1, <4>2
      <4>4. room[b] # 0
        <5>1. pc[t] \in HasBlock /\ ThreadKnows(t)
          BY <3>2, <3>7 DEF MInv, ThreadKnows
        <5>2. CASE pc[t] \in {"check", "clear", "push"}
          BY <3>7, <5>1, <5>2, PoolsFact DEF ThreadKnows, WithPool
        <5>3. CASE pc[t] \in {"use", "attach"}
          <6>1. room[b] = RoomFor(asked[t]) /\ asked[t] \in Requests
            BY <3>7, <5>1, <5>3 DEF ThreadKnows
          <6>. QED
            BY <3>2, <6>1, RoomFact
        <5>. QED
          BY <5>1, <5>2, <5>3 DEF HasBlock
      <4>. QED
        BY <4>3, <4>4, FS_Singleton
    <3>8. ASSUME NEW p \in Pools, NEW i \in DOMAIN free[p], free[p][i] = b
          PROVE  Cardinality(Places(b)) = IF room[b] = 0 THEN 0 ELSE 1
      <4>1. given[b] = None /\ \A t \in Threads : block[t] # b
        BY <3>8 DEF MInv, Separate
      <4>2. ASSUME NEW q \in Pools, NEW j \in DOMAIN free[q], free[q][j] = b
            PROVE  q = p /\ j = i
        <5>1. room[b] = q /\ room[b] = p
          BY <3>8, <4>2 DEF MInv, ListKnows
        <5>. QED
          BY <3>8, <4>2, <5>1 DEF MInv, Separate
      <4>3. lists = {<<"list", p, i>>}
        BY <3>8, <4>2
      <4>4. Places(b) = {<<"list", p, i>>}
        BY <3>1, <3>3, <3>4, <4>1, <4>3
      <4>5. room[b] # 0
        BY <3>8, PoolsFact DEF MInv, ListKnows
      <4>. QED
        BY <4>4, <4>5, FS_Singleton
    <3>9. CASE /\ given[b] = None /\ \A t \in Threads : block[t] # b
               /\ \A p \in Pools : \A i \in DOMAIN free[p] : free[p][i] # b
      <4>1. Places(b) = {}
        BY <3>1, <3>3, <3>4, <3>5, <3>9
      <4>2. room[b] = 0
        BY <3>9 DEF MInv, Kept
      <4>. QED
        BY <4>1, <4>2, FS_EmptySet
    <3>. QED
      BY <3>6, <3>7, <3>8, <3>9
  <2>. QED
    BY <2>1, <2>2, <2>3 DEF BlockInOnePlace
<1>. QED
  BY <1>1, SpecMInv, PTL

-----------------------------------------------------------------------------
(* StompAllocator. *)

\* The block's pages are those of its bytes: it begins in the first of them.
LEMMA BeginsInFirstPage ==
  ASSUME NEW size \in Stomp!BlockSizes
  PROVE  /\ Stomp!PageCount(size) \in Nat
         /\ size <= Stomp!PageCount(size) * Stomp!PAGE_SIZE
         /\ Stomp!PageCount(size) * Stomp!PAGE_SIZE < size + Stomp!PAGE_SIZE
  BY DEF Stomp!BlockSizes, Stomp!PageCount, Stomp!PAGE_SIZE

\* Whatever the size, Release frees what Alloc got from VirtualAlloc, although it
\* knows the block's address only, and not its size.
THEOREM ReleaseFindsBase ==
  ASSUME NEW size \in Stomp!BlockSizes, NEW baseAddress \in Stomp!BaseAddresses
  PROVE  Stomp!Release(Stomp!Alloc(baseAddress, size)) = baseAddress
<1> DEFINE offset == Stomp!PageCount(size) * Stomp!PAGE_SIZE - size
<1>1. offset \in Nat /\ offset < Stomp!PAGE_SIZE
  <2>1. Stomp!PageCount(size) * Stomp!PAGE_SIZE \in Int
    BY BeginsInFirstPage DEF Stomp!PAGE_SIZE
  <2>2. /\ size <= Stomp!PageCount(size) * Stomp!PAGE_SIZE
        /\ Stomp!PageCount(size) * Stomp!PAGE_SIZE < size + Stomp!PAGE_SIZE
    BY BeginsInFirstPage
  <2> HIDE DEF offset
  <2>. QED
    BY <2>1, <2>2 DEF Stomp!BlockSizes, Stomp!PAGE_SIZE, offset
<1>2. Stomp!Alloc(baseAddress, size) = baseAddress + offset
  BY BeginsInFirstPage DEF Stomp!Alloc, Stomp!BlockSizes, Stomp!BaseAddresses, Stomp!PAGE_SIZE
<1> HIDE DEF offset
<1>3. (baseAddress + offset) % Stomp!PAGE_SIZE = offset
  BY <1>1 DEF Stomp!BaseAddresses, Stomp!PAGE_SIZE
<1>4. baseAddress \in Nat
  BY DEF Stomp!BaseAddresses
<1>. QED
  BY <1>1, <1>2, <1>3, <1>4 DEF Stomp!Release

\* The byte after the block is the first of another page, and the block is within
\* its pages: a write past its end cannot reach a neighbour.
THEOREM EndsWithItsPages ==
  ASSUME NEW size \in Stomp!BlockSizes, NEW baseAddress \in Stomp!BaseAddresses
  PROVE  /\ baseAddress <= Stomp!Alloc(baseAddress, size)
         /\ Stomp!Alloc(baseAddress, size) + size = baseAddress + Stomp!PageCount(size) * Stomp!PAGE_SIZE
         /\ (Stomp!Alloc(baseAddress, size) + size) % Stomp!PAGE_SIZE = 0
<1>1. Stomp!Alloc(baseAddress, size) + size = baseAddress + Stomp!PageCount(size) * Stomp!PAGE_SIZE
  BY BeginsInFirstPage DEF Stomp!Alloc, Stomp!BlockSizes, Stomp!BaseAddresses, Stomp!PAGE_SIZE
<1>2. (baseAddress + Stomp!PageCount(size) * Stomp!PAGE_SIZE) % Stomp!PAGE_SIZE = 0
  BY BeginsInFirstPage DEF Stomp!BaseAddresses, Stomp!PAGE_SIZE
<1>3. baseAddress <= Stomp!Alloc(baseAddress, size)
  BY BeginsInFirstPage DEF Stomp!Alloc, Stomp!BlockSizes, Stomp!BaseAddresses, Stomp!PAGE_SIZE
<1>. QED
  BY <1>1, <1>2, <1>3
=============================================================================
