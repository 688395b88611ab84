---------------------------- MODULE RWLockProofs ----------------------------
(***************************************************************************)
(* Theorems about RWLock for every set of threads and every nesting depth, *)
(* and at the end about DeadLockProfiler, which its WriteLock calls.       *)
(*                                                                         *)
(* The argument: the word describes the guards (WordMatchesGuards), so an  *)
(* exchange from the empty word finds no guard at all and an exchange of   *)
(* the read count finds no write guard.  An owner's first guard is then a  *)
(* write guard, which orders what the unlocks may meet.                    *)
(***************************************************************************)
EXTENDS RWLock, DeadLockProfiler, FiniteSetTheorems, SequenceTheorems,
        WellFoundedInduction, TLAPS

\* What is known of a thread between two steps of a call of Lock.
PcInv ==
  \A t \in Threads :
    /\ Len(guards[t]) <= MaxDepth
    /\ pc[t] \in {"write", "read", "readcas"} =>
         owner # t /\ Len(guards[t]) < MaxDepth
    /\ pc[t] = "count" => owner = t
    /\ pc[t] = "free" =>
         /\ owner = t /\ readers = 0
         /\ WriteDepth(t) = {Len(guards[t])}

\* The counter lags the guards inside WriteLock and WriteUnlock.
WriteCountInv ==
  /\ owner = None => writeCount = 0
  /\ owner # None =>
       writeCount = Cardinality(WriteDepth(owner))
                    - (IF pc[owner] \in {"count", "free"} THEN 1 ELSE 0)

\* An owner acquired the lock with no guard of its own.
OwnerFirst ==
  \A t \in Threads : owner = t => guards[t] # <<>> /\ guards[t][1] = "W"

IInv ==
  /\ TypeOK
  /\ PcInv
  /\ WordMatchesGuards /\ IsFiniteSet(Shares)
  /\ Exclusion
  /\ OwnerFirst
  /\ WriteCountInv
  /\ GuardsUnlockInOrder

-----------------------------------------------------------------------------
(***************************************************************************)
(* Guards and the sets counted over them                                   *)
(***************************************************************************)

LEMMA EnterSeq ==
  ASSUME NEW g \in Seq({"W", "R"}), NEW mode \in {"W", "R"}
  PROVE  LET r == Append(g, mode) IN
         /\ r \in Seq({"W", "R"}) /\ r # <<>>
         /\ Len(r) = Len(g) + 1 /\ Len(g) \in Nat
         /\ DOMAIN g = 1..Len(g) /\ DOMAIN r = 1..(Len(g) + 1)
         /\ r[Len(g) + 1] = mode
         /\ \A k \in 1..Len(g) : r[k] = g[k]
         /\ g = <<>> => r[1] = mode
         /\ g # <<>> => Len(g) >= 1
<1>. DEFINE r == Append(g, mode)
<1>1. /\ r \in Seq({"W", "R"}) /\ r # <<>>
      /\ Len(r) = Len(g) + 1 /\ Len(g) \in Nat
      /\ DOMAIN g = 1..Len(g) /\ DOMAIN r = 1..(Len(g) + 1)
      /\ r[Len(g) + 1] = mode
      /\ \A k \in 1..Len(g) : r[k] = g[k]
  OBVIOUS
<1>2. g # <<>> => Len(g) >= 1
  OBVIOUS
<1>3. g = <<>> => r[1] = mode
  BY <1>1
<1>. QED
  BY <1>1, <1>2, <1>3

LEMMA LeaveSeq ==
  ASSUME NEW g \in Seq({"W", "R"}), g # <<>>
  PROVE  LET r == SubSeq(g, 1, Len(g) - 1) IN
         /\ r \in Seq({"W", "R"})
         /\ Len(r) = Len(g) - 1 /\ Len(g) \in Nat /\ Len(g) >= 1
         /\ DOMAIN g = 1..Len(g) /\ DOMAIN r = 1..(Len(g) - 1)
         /\ \A k \in 1..(Len(g) - 1) : r[k] = g[k]
         /\ r # <<>> => Len(g) > 1
<1>. DEFINE r == SubSeq(g, 1, Len(g) - 1)
<1>1. Len(g) \in Nat /\ Len(g) >= 1 /\ DOMAIN g = 1..Len(g)
  OBVIOUS
<1>2. \A i \in 1..(Len(g) - 1) : g[i] \in {"W", "R"}
  BY <1>1
<1>3. /\ r \in Seq({"W", "R"})
      /\ Len(r) = IF 1 <= Len(g) - 1 THEN Len(g) - 1 - 1 + 1 ELSE 0
      /\ \A i \in 1..(Len(g) - 1 - 1 + 1) : r[i] = g[1 + i - 1]
  BY <1>1, <1>2, SubSeqProperties
<1>4. Len(r) = Len(g) - 1 /\ \A k \in 1..(Len(g) - 1) : r[k] = g[k]
  BY <1>1, <1>3
<1>. QED
  BY <1>1, <1>3, <1>4

\* A thread's write guards are finitely many.
LEMMA WriteDepthFinite ==
  ASSUME TypeOK, NEW t \in Threads
  PROVE  /\ IsFiniteSet(WriteDepth(t))
         /\ Cardinality(WriteDepth(t)) \in Nat
         /\ Cardinality(WriteDepth(t)) = 0 <=> ~Holds(t, "W")
<1>1. Len(guards[t]) \in Nat /\ DOMAIN guards[t] = 1..Len(guards[t])
  BY DEF TypeOK
<1>2. IsFiniteSet(1..Len(guards[t]))
  BY <1>1, FS_Interval
<1>3. IsFiniteSet(WriteDepth(t))
  BY <1>1, <1>2, FS_Subset DEF WriteDepth
<1>4. WriteDepth(t) = {} <=> ~Holds(t, "W")
  BY DEF WriteDepth, Holds
<1>. QED
  BY <1>3, <1>4, FS_CardinalityType, FS_EmptySet

\* A read guard is counted.
LEMMA ReadersCount ==
  ASSUME TypeOK, PcInv, WordMatchesGuards, IsFiniteSet(Shares)
  PROVE  /\ \A t \in Threads : Holds(t, "R") => readers # 0
         /\ readers # 0 => \E t \in Threads : Holds(t, "R")
<1>1. Cardinality(Shares) = 0 <=> Shares = {}
  BY FS_EmptySet
<1>2. ASSUME NEW t \in Threads, Holds(t, "R") PROVE Shares # {}
  <2>1. PICK k \in DOMAIN guards[t] : guards[t][k] = "R"
    BY <1>2 DEF Holds
  <2>2. k \in 1..MaxDepth
    BY RWLockAssumption DEF PcInv, TypeOK, RWLockAssumption
  <2>3. <<t, k>> \in Shares
    BY <2>1, <2>2 DEF Shares
  <2>. QED
    BY <2>3
<1>3. ASSUME Shares # {} PROVE \E t \in Threads : Holds(t, "R")
  BY <1>3 DEF Shares, Holds
<1>. QED
  BY <1>1, <1>2, <1>3 DEF WordMatchesGuards

\* The effect of a guard's construction ...
LEMMA EnterEffect ==
  ASSUME TypeOK, PcInv, NEW t \in Threads, NEW mode \in {"W", "R"}, Enter(t, mode),
         Len(guards[t]) < MaxDepth
  PROVE  /\ guards' \in [Threads -> Seq({"W", "R"})]
         /\ \A u \in Threads : u # t => guards'[u] = guards[u]
         /\ guards'[t] # <<>>
         /\ Len(guards'[t]) = Len(guards[t]) + 1 /\ Len(guards'[t]) <= MaxDepth
         /\ guards[t] # <<>> => guards'[t][1] = guards[t][1]
         /\ guards[t] = <<>> => guards'[t][1] = mode
         /\ WriteDepth(t)' = IF mode = "W" THEN WriteDepth(t) \cup {Len(guards[t]) + 1}
                                           ELSE WriteDepth(t)
         /\ Len(guards[t]) + 1 \notin WriteDepth(t)
         /\ Shares' = IF mode = "R" THEN Shares \cup {<<t, Len(guards[t]) + 1>>}
                                    ELSE Shares
         /\ <<t, Len(guards[t]) + 1>> \notin Shares
         /\ \A m \in {"W", "R"} : Holds(t, m)' <=> m = mode \/ Holds(t, m)
<1>. DEFINE g == guards[t]
            r == Append(g, mode)
<1>1. guards' = [guards EXCEPT ![t] = r] /\ guards \in [Threads -> Seq({"W", "R"})]
  BY DEF Enter, TypeOK
<1>2. guards'[t] = r /\ g \in Seq({"W", "R"})
  BY <1>1
<1>3. /\ r \in Seq({"W", "R"}) /\ r # <<>>
      /\ Len(r) = Len(g) + 1 /\ Len(g) \in Nat
      /\ DOMAIN g = 1..Len(g) /\ DOMAIN r = 1..(Len(g) + 1)
      /\ r[Len(g) + 1] = mode
      /\ \A k \in 1..Len(g) : r[k] = g[k]
      /\ g = <<>> => r[1] = mode
      /\ g # <<>> => Len(g) >= 1
  BY <1>2, EnterSeq
<1>4. \A u \in Threads : u # t => guards'[u] = guards[u]
  BY <1>1
<1>5. guards' \in [Threads -> Seq({"W", "R"})]
  BY <1>1, <1>3
<1>6. Len(guards[t]) + 1 \in 1..MaxDepth
  BY <1>3, RWLockAssumption DEF RWLockAssumption
<1>7. /\ guards[t] # <<>> => guards'[t][1] = guards[t][1]
      /\ guards[t] = <<>> => guards'[t][1] = mode
  BY <1>2, <1>3
<1>8. WriteDepth(t)' = {k \in DOMAIN r : r[k] = "W"}
  BY <1>2 DEF WriteDepth
<1>9. WriteDepth(t)' = IF mode = "W" THEN WriteDepth(t) \cup {Len(g) + 1}
                                     ELSE WriteDepth(t)
  BY <1>3, <1>8 DEF WriteDepth
<1>10. Len(g) + 1 \notin WriteDepth(t) /\ <<t, Len(g) + 1>> \notin Shares
  BY <1>3 DEF WriteDepth, Shares
<1>11. \A u \in Threads, k \in 1..MaxDepth :
         <<u, k>> \in Shares' <=>
           <<u, k>> \in Shares \/ (mode = "R" /\ u = t /\ k = Len(g) + 1)
  <2>. SUFFICES ASSUME NEW u \in Threads, NEW k \in 1..MaxDepth
                PROVE  <<u, k>> \in Shares' <=>
                         <<u, k>> \in Shares \/ (mode = "R" /\ u = t /\ k = Len(g) + 1)
    OBVIOUS
  <2>1. CASE u # t
    BY <1>4, <2>1 DEF Shares
  <2>2. CASE u = t
    BY <1>2, <1>3, <2>2, SMTT(30) DEF Shares
  <2>. QED
    BY <2>1, <2>2
<1>12. Shares' = IF mode = "R" THEN Shares \cup {<<t, Len(g) + 1>>} ELSE Shares
  <2>1. /\ Shares \subseteq Threads \X (1..MaxDepth)
        /\ Shares' \subseteq Threads \X (1..MaxDepth)
    BY DEF Shares
  <2>2. CASE mode = "R"
    BY <1>6, <1>11, <2>1, <2>2
  <2>3. CASE mode = "W"
    BY <1>11, <2>1, <2>3
  <2>. QED
    BY <2>2, <2>3
<1>13. ASSUME NEW m \in {"W", "R"}
       PROVE  Holds(t, m)' <=> m = mode \/ Holds(t, m)
  <2>1. Holds(t, m)' <=> \E k \in DOMAIN r : r[k] = m
    BY <1>2 DEF Holds
  <2>. QED
    BY <1>3, <2>1 DEF Holds
<1>. QED
  BY <1>2, <1>3, <1>4, <1>5, <1>6, <1>7, <1>9, <1>10, <1>12, <1>13

\* ... and of its destruction.
LEMMA LeaveEffect ==
  ASSUME TypeOK, PcInv, NEW t \in Threads, Leave(t), guards[t] # <<>>
  PROVE  /\ guards' \in [Threads -> Seq({"W", "R"})]
         /\ \A u \in Threads : u # t => guards'[u] = guards[u]
         /\ Len(guards'[t]) = Len(guards[t]) - 1 /\ Len(guards'[t]) < MaxDepth
         /\ guards'[t] # <<>> => guards'[t][1] = guards[t][1]
         /\ WriteDepth(t)' = WriteDepth(t) \ {Len(guards[t])}
         /\ Shares' = Shares \ {<<t, Len(guards[t])>>}
         /\ Top(t) = "W" => Len(guards[t]) \in WriteDepth(t)
                            /\ <<t, Len(guards[t])>> \notin Shares
         /\ Top(t) = "R" => Len(guards[t]) \notin WriteDepth(t)
                            /\ <<t, Len(guards[t])>> \in Shares
         /\ Top(t) \in {"W", "R"}
<1>. DEFINE g == guards[t]
            r == SubSeq(g, 1, Len(g) - 1)
<1>1. guards' = [guards EXCEPT ![t] = r] /\ guards \in [Threads -> Seq({"W", "R"})]
  BY DEF Leave, TypeOK
<1>2. guards'[t] = r /\ g \in Seq({"W", "R"})
  BY <1>1
<1>3. /\ r \in Seq({"W", "R"})
      /\ Len(r) = Len(g) - 1 /\ Len(g) \in Nat /\ Len(g) >= 1
      /\ DOMAIN g = 1..Len(g) /\ DOMAIN r = 1..(Len(g) - 1)
      /\ \A k \in 1..(Len(g) - 1) : r[k] = g[k]
      /\ r # <<>> => Len(g) > 1
  BY <1>2, LeaveSeq
<1>4. \A u \in Threads : u # t => guards'[u] = guards[u]
  BY <1>1
<1>5. guards' \in [Threads -> Seq({"W", "R"})]
  BY <1>1, <1>3
<1>6. Len(g) \in 1..MaxDepth /\ Len(g) - 1 < MaxDepth
  BY <1>3, RWLockAssumption DEF PcInv, RWLockAssumption
<1>7. guards'[t] # <<>> => guards'[t][1] = guards[t][1]
  BY <1>2, <1>3
<1>8. WriteDepth(t)' = {k \in DOMAIN r : r[k] = "W"}
  BY <1>2 DEF WriteDepth
<1>9. WriteDepth(t)' = WriteDepth(t) \ {Len(g)}
  BY <1>3, <1>8 DEF WriteDepth
<1>10. \A u \in Threads, k \in 1..MaxDepth :
         <<u, k>> \in Shares' <=> <<u, k>> \in Shares /\ ~(u = t /\ k = Len(g))
  <2>. SUFFICES ASSUME NEW u \in Threads, NEW k \in 1..MaxDepth
                PROVE  <<u, k>> \in Shares' <=>
                         <<u, k>> \in Shares /\ ~(u = t /\ k = Len(g))
    OBVIOUS
  <2>1. CASE u # t
    BY <1>4, <2>1 DEF Shares
  <2>2. CASE u = t
    BY <1>2, <1>3, <2>2 DEF Shares
  <2>. QED
    BY <2>1, <2>2
<1>11. Shares' = Shares \ {<<t, Len(g)>>}
  <2>1. /\ Shares \subseteq Threads \X (1..MaxDepth)
        /\ Shares' \subseteq Threads \X (1..MaxDepth)
    BY DEF Shares
  <2>. QED
    BY <1>10, <2>1
<1>12. Top(t) \in {"W", "R"}
  BY <1>2, <1>3 DEF Top
<1>13. Top(t) = "W" => Len(g) \in WriteDepth(t) /\ <<t, Len(g)>> \notin Shares
  BY <1>3 DEF Top, WriteDepth, Shares
<1>14. Top(t) = "R" => Len(g) \notin WriteDepth(t) /\ <<t, Len(g)>> \in Shares
  BY <1>3, <1>6 DEF Top, WriteDepth, Shares
<1>. QED
  BY <1>2, <1>3, <1>4, <1>5, <1>6, <1>7, <1>9, <1>11, <1>12, <1>13, <1>14

-----------------------------------------------------------------------------
(***************************************************************************)
(* The steps                                                               *)
(***************************************************************************)

LEMMA InitIInv == Init => IInv
<1>. SUFFICES ASSUME Init PROVE IInv
  OBVIOUS
<1>. USE RWLockAssumption DEF RWLockAssumption, Init
<1>1. TypeOK
  BY DEF TypeOK
<1>2. Shares = {} /\ \A t \in Threads : WriteDepth(t) = {} /\ ~Holds(t, "W")
  BY DEF Shares, WriteDepth, Holds
<1>3. PcInv
  BY DEF PcInv
<1>4. WordMatchesGuards /\ IsFiniteSet(Shares)
  BY <1>2, FS_EmptySet DEF WordMatchesGuards
<1>5. Exclusion /\ OwnerFirst /\ WriteCountInv /\ GuardsUnlockInOrder
  BY <1>2 DEF Exclusion, OwnerFirst, WriteCountInv, GuardsUnlockInOrder
<1>. QED
  BY <1>1, <1>3, <1>4, <1>5 DEF IInv

\* The owner nests a write guard.
LEMMA WriteLockOwnedStep ==
  ASSUME IInv, NEW t \in Threads, WriteLockOwned(t)
  PROVE  IInv'
<1>. USE DEF IInv
<1>a. /\ crashed = None /\ pc[t] = "run" /\ Len(guards[t]) < MaxDepth /\ owner = t
      /\ Enter(t, "W") /\ writeCount' = writeCount + 1
      /\ UNCHANGED <<owner, readers, pc, expected, crashed>>
  BY DEF WriteLockOwned, MayLock
<1>b. /\ guards' \in [Threads -> Seq({"W", "R"})]
      /\ \A u \in Threads : u # t => guards'[u] = guards[u]
      /\ guards'[t] # <<>> /\ Len(guards'[t]) <= MaxDepth
      /\ guards[t] # <<>> => guards'[t][1] = guards[t][1]
      /\ WriteDepth(t)' = WriteDepth(t) \cup {Len(guards[t]) + 1}
      /\ Len(guards[t]) + 1 \notin WriteDepth(t)
      /\ Shares' = Shares
      /\ Holds(t, "W")'
  BY <1>a, EnterEffect
<1>1. TypeOK'
  BY <1>a, <1>b DEF TypeOK
<1>2. PcInv'
  BY <1>a, <1>b DEF PcInv, WriteDepth
<1>3. WordMatchesGuards' /\ IsFiniteSet(Shares)'
  BY <1>a, <1>b DEF WordMatchesGuards, Holds
<1>4. Exclusion' /\ OwnerFirst'
  <2>1. \A u \in Threads : u # t => guards'[u] = <<>>
    BY <1>a, <1>b DEF Exclusion, WordMatchesGuards
  <2>2. \A u \in Threads : Holds(u, "W")' => u = t
    BY <1>3, <1>a DEF WordMatchesGuards
  <2>. QED
    BY <1>a, <1>b, <2>1, <2>2 DEF Exclusion, OwnerFirst
<1>5. WriteCountInv'
  <2>1. Cardinality(WriteDepth(t)') = Cardinality(WriteDepth(t)) + 1
    BY <1>b, WriteDepthFinite, FS_AddElement
  <2>. QED
    BY <1>a, <2>1, WriteDepthFinite, RWLockAssumption DEF WriteCountInv, RWLockAssumption
<1>6. GuardsUnlockInOrder'
  BY <1>a, RWLockAssumption DEF GuardsUnlockInOrder, RWLockAssumption
<1>. QED
  BY <1>1, <1>2, <1>3, <1>4, <1>5, <1>6

\* An exchange of the empty word: nobody has a guard.
LEMMA EmptyWord ==
  ASSUME IInv, owner = None, readers = 0
  PROVE  \A u \in Threads : guards[u] = <<>>
<1>. SUFFICES ASSUME NEW u \in Threads, guards[u] # <<>> PROVE FALSE
  OBVIOUS
<1>1. 1 \in DOMAIN guards[u] /\ guards[u][1] \in {"W", "R"}
  BY DEF IInv, TypeOK
<1>2. ~Holds(u, "W")
  BY RWLockAssumption DEF IInv, WordMatchesGuards, RWLockAssumption
<1>3. ~Holds(u, "R")
  BY ReadersCount DEF IInv
<1>. QED
  BY <1>1, <1>2, <1>3 DEF Holds

LEMMA WriteAcquireStep ==
  ASSUME IInv, NEW t \in Threads, WriteAcquire(t)
  PROVE  IInv'
<1>. USE DEF IInv
<1>a. /\ crashed = None /\ pc[t] = "write" /\ owner = None /\ readers = 0
      /\ owner' = t /\ Enter(t, "W") /\ pc' = [pc EXCEPT ![t] = "count"]
      /\ UNCHANGED <<readers, writeCount, expected, crashed>>
      /\ Len(guards[t]) < MaxDepth
  BY DEF WriteAcquire, Goto, PcInv
<1>b. \A u \in Threads : guards[u] = <<>>
  BY <1>a, EmptyWord
<1>c. /\ guards' \in [Threads -> Seq({"W", "R"})]
      /\ \A u \in Threads : u # t => guards'[u] = guards[u]
      /\ guards'[t] # <<>> /\ Len(guards'[t]) <= MaxDepth
      /\ guards'[t][1] = "W"
      /\ WriteDepth(t)' = WriteDepth(t) \cup {Len(guards[t]) + 1}
      /\ Len(guards[t]) + 1 \notin WriteDepth(t)
      /\ Shares' = Shares
      /\ Holds(t, "W")'
  BY <1>a, <1>b, EnterEffect
<1>d. pc' \in [Threads -> {"run", "write", "count", "free", "read", "readcas"}]
      /\ pc'[t] = "count" /\ \A u \in Threads : u # t => pc'[u] = pc[u]
  BY <1>a DEF TypeOK
<1>1. TypeOK'
  BY <1>a, <1>c, <1>d DEF TypeOK
<1>2. PcInv'
  BY <1>a, <1>c, <1>d, RWLockAssumption DEF PcInv, RWLockAssumption
<1>3. WordMatchesGuards' /\ IsFiniteSet(Shares)'
  <2>1. \A u \in Threads : u # t => ~Holds(u, "W")'
    BY <1>b, <1>c DEF Holds
  <2>. QED
    BY <1>a, <1>c, <2>1 DEF WordMatchesGuards
<1>4. Exclusion' /\ OwnerFirst'
  <2>1. \A u \in Threads : u # t => guards'[u] = <<>>
    BY <1>b, <1>c
  <2>2. \A u \in Threads : u # t => ~Holds(u, "W")'
    BY <2>1 DEF Holds
  <2>3. Exclusion'
    BY <2>1, <2>2 DEF Exclusion
  <2>4. OwnerFirst'
    BY <1>a, <1>c DEF OwnerFirst
  <2>. QED
    BY <2>3, <2>4
<1>5. WriteCountInv'
  <2>1. Cardinality(WriteDepth(t)) = 0
    BY <1>b, WriteDepthFinite DEF Holds
  <2>2. Cardinality(WriteDepth(t)') = Cardinality(WriteDepth(t)) + 1
    BY <1>c, WriteDepthFinite, FS_AddElement
  <2>. QED
    BY <1>a, <1>d, <2>1, <2>2, RWLockAssumption DEF WriteCountInv, RWLockAssumption
<1>6. GuardsUnlockInOrder'
  BY <1>a, RWLockAssumption DEF GuardsUnlockInOrder, RWLockAssumption
<1>. QED
  BY <1>1, <1>2, <1>3, <1>4, <1>5, <1>6

\* A read guard, by the owner or by an exchange of a word with no owner.
LEMMA ReadEnterStep ==
  ASSUME IInv, NEW t \in Threads, ReadLockOwned(t) \/ ReadExchange(t)
  PROVE  IInv'
<1>. USE DEF IInv
<1>a. /\ crashed = None /\ Len(guards[t]) < MaxDepth
      /\ owner = t \/ owner = None
      /\ pc[t] \in {"run", "readcas"}
      /\ readers' = readers + 1 /\ Enter(t, "R")
      /\ pc' = [pc EXCEPT ![t] = "run"]
      /\ UNCHANGED <<owner, writeCount, expected, crashed>>
  <2>1. CASE ReadLockOwned(t)
    BY <2>1 DEF ReadLockOwned, MayLock, TypeOK
  <2>2. CASE ReadExchange(t)
    BY <2>2 DEF ReadExchange, Goto, PcInv
  <2>. QED
    BY <2>1, <2>2
<1>b. /\ guards' \in [Threads -> Seq({"W", "R"})]
      /\ \A u \in Threads : u # t => guards'[u] = guards[u]
      /\ guards'[t] # <<>> /\ Len(guards'[t]) <= MaxDepth
      /\ guards[t] # <<>> => guards'[t][1] = guards[t][1]
      /\ WriteDepth(t)' = WriteDepth(t)
      /\ Shares' = Shares \cup {<<t, Len(guards[t]) + 1>>}
      /\ <<t, Len(guards[t]) + 1>> \notin Shares
      /\ Holds(t, "W")' <=> Holds(t, "W")
  BY <1>a, EnterEffect
<1>d. pc' \in [Threads -> {"run", "write", "count", "free", "read", "readcas"}]
      /\ pc'[t] = "run" /\ \A u \in Threads : u # t => pc'[u] = pc[u]
  BY <1>a DEF TypeOK
<1>1. TypeOK'
  BY <1>a, <1>b, <1>d DEF TypeOK
<1>2. PcInv'
  BY <1>a, <1>b, <1>d, RWLockAssumption DEF PcInv, RWLockAssumption, WriteDepth
<1>3. WordMatchesGuards' /\ IsFiniteSet(Shares)'
  <2>1. IsFiniteSet(Shares') /\ Cardinality(Shares') = Cardinality(Shares) + 1
    BY <1>b, FS_AddElement
  <2>2. \A u \in Threads : Holds(u, "W")' <=> Holds(u, "W")
    BY <1>b DEF Holds
  <2>. QED
    BY <1>a, <2>1, <2>2 DEF WordMatchesGuards
<1>4. \A u \in Threads : Holds(u, "W") <=> Holds(u, "W")'
  BY <1>b DEF Holds
<1>5. Exclusion'
  <2>. SUFFICES ASSUME NEW u \in Threads, NEW v \in Threads, u # v, Holds(u, "W")
                PROVE  guards'[v] = <<>>
    BY <1>4 DEF Exclusion
  <2>1. owner = u /\ guards[v] = <<>>
    BY DEF WordMatchesGuards, Exclusion
  <2>2. u = t
    BY <1>a, <2>1, RWLockAssumption DEF RWLockAssumption
  <2>. QED
    BY <1>b, <2>1, <2>2
<1>5a. OwnerFirst'
  BY <1>a, <1>b DEF OwnerFirst
<1>6. WriteCountInv'
  <2>1. owner # None => owner = t
    BY <1>a
  <2>2. owner = t => pc[t] \notin {"count", "free"} /\ pc'[t] \notin {"count", "free"}
    BY <1>a, <1>d
  <2>. QED
    BY <1>a, <1>b, <2>1, <2>2 DEF WriteCountInv
<1>7. GuardsUnlockInOrder'
  BY <1>a, RWLockAssumption DEF GuardsUnlockInOrder, RWLockAssumption
<1>. QED
  BY <1>1, <1>2, <1>3, <1>5, <1>5a, <1>6, <1>7

\* The innermost write guard goes; the last one leaves the word to WriteStore.
LEMMA WriteUnlockStep ==
  ASSUME IInv, NEW t \in Threads, WriteUnlock(t)
  PROVE  IInv'
<1>. USE DEF IInv
<1>a. /\ crashed = None /\ pc[t] = "run" /\ guards[t] # <<>> /\ Top(t) = "W"
      /\ readers = 0 /\ writeCount' = writeCount - 1
      /\ UNCHANGED <<owner, readers, expected, crashed>>
  BY DEF WriteUnlock, MayUnlock
<1>b. Len(guards[t]) \in DOMAIN guards[t]
  BY <1>a DEF TypeOK
<1>c. owner = t
  BY <1>a, <1>b DEF Top, Holds, WordMatchesGuards
<1>d. Len(guards[t]) \in WriteDepth(t)
  BY <1>a, <1>b DEF Top, WriteDepth
<1>e. writeCount = Cardinality(WriteDepth(t))
  BY <1>a, <1>c, WriteDepthFinite, RWLockAssumption DEF WriteCountInv, RWLockAssumption
<1>f. GuardsUnlockInOrder'
  BY <1>a, RWLockAssumption DEF GuardsUnlockInOrder, RWLockAssumption
<1>1. CASE writeCount' = 0
  <2>1. pc' = [pc EXCEPT ![t] = "free"] /\ guards' = guards
    BY <1>1 DEF WriteUnlock, Goto
  <2>2. WriteDepth(t) = {Len(guards[t])}
    <3>1. Cardinality(WriteDepth(t)) = 1
      BY <1>1, <1>a, <1>e, WriteDepthFinite
    <3>. QED
      BY <1>d, <3>1, WriteDepthFinite, FS_Singleton
  <2>3. TypeOK'
    BY <1>a, <2>1 DEF TypeOK
  <2>4. PcInv'
    BY <1>a, <1>c, <2>1, <2>2 DEF PcInv, TypeOK, WriteDepth
  <2>5. (WordMatchesGuards /\ IsFiniteSet(Shares) /\ Exclusion /\ OwnerFirst)'
    BY <1>a, <2>1 DEF WordMatchesGuards, Shares, Exclusion, OwnerFirst, Holds
  <2>6. WriteCountInv'
    <3>1. pc'[t] = "free" /\ WriteDepth(t)' = WriteDepth(t)
      BY <2>1 DEF TypeOK, WriteDepth
    <3>. QED
      BY <1>a, <1>c, <1>e, <3>1, WriteDepthFinite, RWLockAssumption
         DEF WriteCountInv, RWLockAssumption
  <2>. QED
    BY <1>f, <2>3, <2>4, <2>5, <2>6
<1>2. CASE writeCount' # 0
  <2>1. Leave(t) /\ pc' = pc
    BY <1>2 DEF WriteUnlock
  <2>2. /\ guards' \in [Threads -> Seq({"W", "R"})]
        /\ \A u \in Threads : u # t => guards'[u] = guards[u]
        /\ Len(guards'[t]) < MaxDepth
        /\ guards'[t] # <<>> => guards'[t][1] = guards[t][1]
        /\ WriteDepth(t)' = WriteDepth(t) \ {Len(guards[t])}
        /\ Shares' = Shares \ {<<t, Len(guards[t])>>}
        /\ <<t, Len(guards[t])>> \notin Shares
    BY <1>a, <2>1, LeaveEffect
  <2>3. Cardinality(WriteDepth(t)') = Cardinality(WriteDepth(t)) - 1
        /\ IsFiniteSet(WriteDepth(t)')
    <3>1. IsFiniteSet(WriteDepth(t)) /\ Len(guards[t]) \in WriteDepth(t)
      BY <1>d, WriteDepthFinite
    <3>2. Cardinality(WriteDepth(t) \ {Len(guards[t])}) = Cardinality(WriteDepth(t)) - 1
          /\ IsFiniteSet(WriteDepth(t) \ {Len(guards[t])})
      BY <3>1, FS_RemoveElement
    <3>. QED
      BY <2>2, <3>2
  <2>4. Holds(t, "W")'
    <3>1. Cardinality(WriteDepth(t)') # 0
      BY <1>2, <1>a, <1>e, <2>3
    <3>2. WriteDepth(t)' # {}
      BY <3>1, FS_EmptySet
    <3>. QED
      BY <3>2 DEF WriteDepth, Holds
  <2>5. guards'[t] # <<>>
    BY <2>4 DEF Holds
  <2>6. TypeOK'
    BY <1>a, <2>1, <2>2 DEF TypeOK
  <2>7. PcInv'
    BY <1>a, <1>c, <2>1, <2>2, RWLockAssumption DEF PcInv, WriteDepth, RWLockAssumption
  <2>8. WordMatchesGuards' /\ IsFiniteSet(Shares)'
    <3>1. Shares' = Shares
      BY <2>2
    <3>. QED
      BY <1>a, <1>c, <2>2, <2>4, <3>1 DEF WordMatchesGuards, Holds
  <2>9. Exclusion' /\ OwnerFirst'
    <3>1. \A u \in Threads : u # t => guards'[u] = <<>>
      BY <1>c, <2>2 DEF Exclusion, WordMatchesGuards
    <3>2. \A u \in Threads : Holds(u, "W")' => u = t
      BY <2>8, <1>a, <1>c DEF WordMatchesGuards
    <3>. QED
      BY <1>a, <1>c, <2>2, <2>5, <3>1, <3>2 DEF Exclusion, OwnerFirst
  <2>10. WriteCountInv'
    BY <1>a, <1>c, <1>e, <2>1, <2>3, WriteDepthFinite, RWLockAssumption
       DEF WriteCountInv, RWLockAssumption
  <2>. QED
    BY <1>f, <2>6, <2>7, <2>8, <2>9, <2>10
<1>. QED
  BY <1>1, <1>2

\* The last write guard goes and the word is emptied.
LEMMA WriteStoreStep ==
  ASSUME IInv, NEW t \in Threads, WriteStore(t)
  PROVE  IInv'
<1>. USE DEF IInv
<1>a. /\ crashed = None /\ pc[t] = "free" /\ owner' = None /\ readers' = 0
      /\ Leave(t) /\ pc' = [pc EXCEPT ![t] = "run"]
      /\ UNCHANGED <<writeCount, expected, crashed>>
  BY DEF WriteStore, Goto
<1>b. owner = t /\ readers = 0 /\ WriteDepth(t) = {Len(guards[t])}
  BY <1>a DEF PcInv
<1>c. guards[t] # <<>> /\ Top(t) = "W"
  <2>1. Len(guards[t]) \in WriteDepth(t)
    BY <1>b
  <2>2. Len(guards[t]) \in DOMAIN guards[t] /\ guards[t][Len(guards[t])] = "W"
    BY <2>1 DEF WriteDepth
  <2>3. guards[t] \in Seq({"W", "R"})
    BY DEF TypeOK
  <2>. QED
    BY <2>2, <2>3 DEF Top
<1>d. /\ guards' \in [Threads -> Seq({"W", "R"})]
      /\ \A u \in Threads : u # t => guards'[u] = guards[u]
      /\ Len(guards'[t]) < MaxDepth
      /\ WriteDepth(t)' = WriteDepth(t) \ {Len(guards[t])}
      /\ Shares' = Shares \ {<<t, Len(guards[t])>>}
      /\ <<t, Len(guards[t])>> \notin Shares
  BY <1>a, <1>c, LeaveEffect
<1>e. pc' \in [Threads -> {"run", "write", "count", "free", "read", "readcas"}]
      /\ pc'[t] = "run" /\ \A u \in Threads : u # t => pc'[u] = pc[u]
  BY <1>a DEF TypeOK
<1>f. \A u \in Threads : ~Holds(u, "W")'
  <2>1. ~Holds(t, "W")'
    BY <1>b, <1>d DEF Holds, WriteDepth
  <2>2. \A u \in Threads : u # t => ~Holds(u, "W")'
    BY <1>b, <1>d DEF Holds, WordMatchesGuards
  <2>. QED
    BY <2>1, <2>2
<1>1. TypeOK'
  BY <1>a, <1>d, <1>e DEF TypeOK
<1>2. PcInv'
  BY <1>a, <1>b, <1>d, <1>e, RWLockAssumption DEF PcInv, WriteDepth, RWLockAssumption
<1>3. WordMatchesGuards' /\ IsFiniteSet(Shares)'
  BY <1>a, <1>b, <1>d, <1>f, RWLockAssumption DEF WordMatchesGuards, RWLockAssumption
<1>4. Exclusion' /\ OwnerFirst'
  BY <1>a, <1>f, RWLockAssumption DEF Exclusion, OwnerFirst, RWLockAssumption
<1>5. WriteCountInv'
  <2>1. Cardinality(WriteDepth(t)) = 1
    BY <1>b, FS_Singleton
  <2>. QED
    BY <1>a, <1>b, <2>1, RWLockAssumption DEF WriteCountInv, RWLockAssumption
<1>6. GuardsUnlockInOrder'
  BY <1>a, RWLockAssumption DEF GuardsUnlockInOrder, RWLockAssumption
<1>. QED
  BY <1>1, <1>2, <1>3, <1>4, <1>5, <1>6

\* A read guard was counted, so ReadUnlock never finds the count at 0.
LEMMA ReadUnlockStep ==
  ASSUME IInv, NEW t \in Threads, ReadUnlock(t)
  PROVE  IInv'
<1>. USE DEF IInv
<1>a. /\ crashed = None /\ pc[t] = "run" /\ guards[t] # <<>> /\ Top(t) = "R"
      /\ UNCHANGED <<owner, writeCount, pc, expected>>
  BY DEF ReadUnlock, MayUnlock
<1>b. Len(guards[t]) \in DOMAIN guards[t] /\ Holds(t, "R")
  BY <1>a DEF TypeOK, Top, Holds
<1>c. readers # 0
  BY <1>b, ReadersCount
<1>d. readers' = readers - 1 /\ Leave(t) /\ crashed' = crashed
  BY <1>c DEF ReadUnlock
<1>e. /\ guards' \in [Threads -> Seq({"W", "R"})]
      /\ \A u \in Threads : u # t => guards'[u] = guards[u]
      /\ Len(guards'[t]) = Len(guards[t]) - 1 /\ Len(guards'[t]) < MaxDepth
      /\ guards'[t] # <<>> => guards'[t][1] = guards[t][1]
      /\ WriteDepth(t)' = WriteDepth(t)
      /\ Shares' = Shares \ {<<t, Len(guards[t])>>}
      /\ <<t, Len(guards[t])>> \in Shares
  BY <1>a, <1>d, LeaveEffect
<1>f. \A u \in Threads : Holds(u, "W")' <=> Holds(u, "W")
  BY <1>e DEF Holds, WriteDepth
<1>1. IsFiniteSet(Shares') /\ Cardinality(Shares') = Cardinality(Shares) - 1
  BY <1>e, FS_RemoveElement
<1>2. TypeOK'
  BY <1>a, <1>c, <1>d, <1>e DEF TypeOK
<1>3. PcInv'
  <2>1. \A u \in Threads : pc[u] # "free" \/ u # t
    BY <1>a
  <2>2. \A u \in Threads : pc[u] # "free"
    BY <1>c DEF PcInv
  <2>. QED
    BY <1>a, <1>e, <2>2, RWLockAssumption, SMTT(30) DEF PcInv, RWLockAssumption
<1>4. WordMatchesGuards' /\ IsFiniteSet(Shares)'
  BY <1>1, <1>a, <1>d, <1>f DEF WordMatchesGuards
<1>5. Exclusion'
  <2>. SUFFICES ASSUME NEW u \in Threads, NEW v \in Threads, u # v, Holds(u, "W")
                PROVE  guards'[v] = <<>>
    BY <1>f DEF Exclusion
  <2>1. guards[v] = <<>>
    BY DEF Exclusion
  <2>. QED
    BY <1>a, <1>e, <2>1
<1>6. OwnerFirst'
  <2>1. owner = t => guards'[t] # <<>>
    BY <1>a, <1>e, <1>f DEF WordMatchesGuards, Holds
  <2>. QED
    BY <1>a, <1>e, <2>1 DEF OwnerFirst
<1>7. WriteCountInv'
  <2>1. \A u \in Threads : WriteDepth(u)' = WriteDepth(u)
    BY <1>e, SMTT(30) DEF WriteDepth
  <2>. QED
    BY <1>a, <2>1 DEF WriteCountInv, TypeOK
<1>8. GuardsUnlockInOrder'
  BY <1>a, <1>d, RWLockAssumption DEF GuardsUnlockInOrder, RWLockAssumption
<1>. QED
  BY <1>2, <1>3, <1>4, <1>5, <1>6, <1>7, <1>8

\* _writeCount catches up with the guards.
LEMMA WriteCountUpStep ==
  ASSUME IInv, NEW t \in Threads, WriteCountUp(t)
  PROVE  IInv'
<1>. USE DEF IInv
<1>a. /\ crashed = None /\ pc[t] = "count" /\ owner = t
      /\ writeCount' = writeCount + 1 /\ pc' = [pc EXCEPT ![t] = "run"]
      /\ UNCHANGED <<owner, readers, expected, guards, crashed>>
  BY DEF WriteCountUp, Goto, PcInv
<1>1. TypeOK'
  BY <1>a DEF TypeOK
<1>2. PcInv'
  BY <1>a DEF PcInv, TypeOK, WriteDepth
<1>3. (WordMatchesGuards /\ IsFiniteSet(Shares) /\ Exclusion /\ OwnerFirst)'
  BY <1>a DEF WordMatchesGuards, Shares, Exclusion, OwnerFirst, Holds
<1>4. WriteCountInv'
  <2>1. pc'[t] = "run" /\ WriteDepth(t)' = WriteDepth(t)
    BY <1>a DEF TypeOK, WriteDepth
  <2>. QED
    BY <1>a, <2>1, WriteDepthFinite, RWLockAssumption DEF WriteCountInv, RWLockAssumption
<1>5. GuardsUnlockInOrder'
  BY <1>a, RWLockAssumption DEF GuardsUnlockInOrder, RWLockAssumption
<1>. QED
  BY <1>1, <1>2, <1>3, <1>4, <1>5

\* A spin begins, reads the count or fails.
LEMMA SpinStep ==
  ASSUME IInv, NEW t \in Threads,
         WriteLockSpin(t) \/ ReadLockSpin(t) \/ ReadLoad(t) \/ ReadRetry(t)
  PROVE  IInv'
<1>. USE DEF IInv
<1>a. /\ crashed = None /\ pc[t] \in {"run", "read", "readcas"}
      /\ owner # t /\ Len(guards[t]) < MaxDepth
      /\ UNCHANGED <<owner, readers, writeCount, guards, crashed>>
      /\ \E l \in {"write", "read", "readcas"} : pc' = [pc EXCEPT ![t] = l]
      /\ expected' = expected \/ expected' = [expected EXCEPT ![t] = readers]
  BY DEF WriteLockSpin, ReadLockSpin, ReadLoad, ReadRetry, MayLock, Goto, PcInv
<1>b. /\ pc' \in [Threads -> {"run", "write", "count", "free", "read", "readcas"}]
      /\ pc'[t] \in {"write", "read", "readcas"}
      /\ \A u \in Threads : u # t => pc'[u] = pc[u]
  BY <1>a DEF TypeOK
<1>1. TypeOK'
  BY <1>a, <1>b DEF TypeOK
<1>2. PcInv'
  BY <1>a, <1>b DEF PcInv, WriteDepth
<1>3. (WordMatchesGuards /\ IsFiniteSet(Shares) /\ Exclusion /\ OwnerFirst)'
  BY <1>a DEF WordMatchesGuards, Shares, Exclusion, OwnerFirst, Holds
<1>4. WriteCountInv'
  BY <1>a, <1>b DEF WriteCountInv, WriteDepth, TypeOK
<1>5. GuardsUnlockInOrder'
  BY <1>a DEF GuardsUnlockInOrder
<1>. QED
  BY <1>1, <1>2, <1>3, <1>4, <1>5

\* A CRASH leaves everything as it was.
LEMMA CrashStep ==
  ASSUME IInv, NEW t \in Threads,
         WriteTimeout(t) \/ ReadTimeout(t) \/ WriteUnlockInvalid(t)
  PROVE  IInv'
<1>. USE DEF IInv
<1>a. UNCHANGED <<owner, readers, writeCount, pc, expected, guards>>
      /\ crashed' \in {"LOCK_TIMEOUT", "INVALID_UNLOCK_ORDER"}
  BY DEF WriteTimeout, ReadTimeout, WriteUnlockInvalid
<1>1. TypeOK'
  BY <1>a DEF TypeOK
<1>2. (PcInv /\ WordMatchesGuards /\ IsFiniteSet(Shares) /\ Exclusion
       /\ OwnerFirst /\ WriteCountInv)'
  BY <1>a DEF PcInv, WordMatchesGuards, Shares, Exclusion, OwnerFirst, Holds,
             WriteCountInv, WriteDepth
<1>3. ASSUME WriteUnlockInvalid(t)
      PROVE  \E i, j, k \in DOMAIN guards[t] :
               i < j /\ j < k /\ guards[t][i] = "W" /\ guards[t][j] = "R"
                     /\ guards[t][k] = "W"
  <2>1. Top(t) = "W" /\ guards[t] # <<>> /\ readers # 0
    BY <1>3 DEF WriteUnlockInvalid, MayUnlock
  <2>2. /\ Len(guards[t]) \in DOMAIN guards[t] /\ 1 \in DOMAIN guards[t]
        /\ DOMAIN guards[t] = 1..Len(guards[t]) /\ Len(guards[t]) \in Nat
    BY <2>1 DEF TypeOK
  <2>3. Holds(t, "W") /\ owner = t
    BY <2>1, <2>2 DEF Top, Holds, WordMatchesGuards
  <2>4. PICK u \in Threads : Holds(u, "R")
    BY <2>1, ReadersCount
  <2>5. u = t
    BY <2>3, <2>4 DEF Exclusion, Holds
  <2>6. PICK j \in DOMAIN guards[t] : guards[t][j] = "R"
    BY <2>4, <2>5 DEF Holds
  <2>7. guards[t][1] = "W" /\ guards[t][Len(guards[t])] = "W"
    BY <2>1, <2>3 DEF OwnerFirst, Top
  <2>8. 1 < j /\ j < Len(guards[t])
    BY <2>2, <2>6, <2>7
  <2>. QED
    BY <2>2, <2>6, <2>7, <2>8
<1>4. GuardsUnlockInOrder'
  <2>1. CASE WriteUnlockInvalid(t)
    BY <1>3, <1>a, <2>1 DEF GuardsUnlockInOrder
  <2>2. CASE WriteTimeout(t) \/ ReadTimeout(t)
    BY <2>2 DEF GuardsUnlockInOrder, WriteTimeout, ReadTimeout
  <2>. QED
    BY <2>1, <2>2
<1>. QED
  BY <1>1, <1>2, <1>4

-----------------------------------------------------------------------------
(***************************************************************************)
(* The theorems                                                            *)
(***************************************************************************)

LEMMA IInvStep == IInv /\ [Next]_vars => IInv'
<1>. SUFFICES ASSUME IInv, [Next]_vars PROVE IInv'
  OBVIOUS
<1>1. ASSUME NEW t \in Threads, Lock(t) PROVE IInv'
  <2>1. CASE WriteLockOwned(t)
    BY <2>1, WriteLockOwnedStep
  <2>2. CASE ReadLockOwned(t)
    BY <2>2, ReadEnterStep
  <2>3. CASE WriteLockSpin(t) \/ ReadLockSpin(t)
    BY <2>3, SpinStep
  <2>. QED
    BY <1>1, <2>1, <2>2, <2>3 DEF Lock
<1>2. ASSUME NEW t \in Threads, Progress(t) PROVE IInv'
  <2>1. CASE WriteAcquire(t)
    BY <2>1, WriteAcquireStep
  <2>2. CASE WriteCountUp(t)
    BY <2>2, WriteCountUpStep
  <2>3. CASE WriteUnlock(t)
    BY <2>3, WriteUnlockStep
  <2>4. CASE WriteUnlockInvalid(t)
    BY <2>4, CrashStep
  <2>5. CASE WriteStore(t)
    BY <2>5, WriteStoreStep
  <2>6. CASE ReadLoad(t) \/ ReadRetry(t)
    BY <2>6, SpinStep
  <2>7. CASE ReadExchange(t)
    BY <2>7, ReadEnterStep
  <2>8. CASE ReadUnlock(t)
    BY <2>8, ReadUnlockStep
  <2>. QED
    BY <1>2, <2>1, <2>2, <2>3, <2>4, <2>5, <2>6, <2>7, <2>8 DEF Progress
<1>3. ASSUME NEW t \in Threads, Timeout(t) PROVE IInv'
  BY <1>3, CrashStep DEF Timeout
<1>4. CASE UNCHANGED vars
  <2>1. UNCHANGED <<owner, readers, writeCount, pc, expected, guards, crashed>>
    BY <1>4 DEF vars
  <2>2. /\ \A t \in Threads : WriteDepth(t)' = WriteDepth(t)
        /\ \A t \in Threads, mode \in {"W", "R"} : Holds(t, mode)' <=> Holds(t, mode)
        /\ Shares' = Shares
    BY <2>1 DEF WriteDepth, Holds, Shares
  <2>3. (TypeOK /\ PcInv)'
    BY <2>1, <2>2 DEF IInv, TypeOK, PcInv
  <2>4. (WordMatchesGuards /\ IsFiniteSet(Shares))'
    BY <2>1, <2>2 DEF IInv, WordMatchesGuards
  <2>5. (Exclusion /\ OwnerFirst)'
    BY <2>1, <2>2 DEF IInv, Exclusion, OwnerFirst
  <2>6. WriteCountInv'
    BY <2>1, <2>2 DEF IInv, WriteCountInv, TypeOK
  <2>7. GuardsUnlockInOrder'
    BY <2>1 DEF IInv, GuardsUnlockInOrder
  <2>. QED
    BY <2>3, <2>4, <2>5, <2>6, <2>7 DEF IInv
<1>. QED
  BY <1>1, <1>2, <1>3, <1>4 DEF Next, Dead

LEMMA Invariant == Spec => []IInv
BY InitIInv, IInvStep, PTL DEF Spec

\* A write guard excludes every other thread's guards.
THEOREM MutualExclusion == Spec => []Exclusion
<1>1. IInv => Exclusion
  BY DEF IInv
<1>. QED
  BY <1>1, Invariant, PTL

\* The lock word always describes the guards that are live.
THEOREM WordIsExact == Spec => []WordMatchesGuards
<1>1. IInv => WordMatchesGuards
  BY DEF IInv
<1>. QED
  BY <1>1, Invariant, PTL

\* _writeCount never loses an update: it is the depth of the owner.
THEOREM WriteCountIsExact == Spec => []WriteCountExact
<1>1. IInv => WriteCountExact
  <2>. SUFFICES ASSUME IInv PROVE WriteCountExact
    OBVIOUS
  <2>1. ASSUME owner # None, pc[owner] \notin {"count", "free"}
        PROVE  writeCount = Cardinality(WriteDepth(owner))
    BY <2>1, WriteDepthFinite DEF IInv, TypeOK, WriteCountInv
  <2>. QED
    BY <2>1 DEF IInv, WriteCountInv, WriteCountExact
<1>. QED
  BY <1>1, Invariant, PTL

\* Guards meet MULTIPLE_UNLOCK never, INVALID_UNLOCK_ORDER only when nested.
THEOREM UnlockOrder == Spec => []GuardsUnlockInOrder
<1>1. IInv => GuardsUnlockInOrder
  BY DEF IInv
<1>. QED
  BY <1>1, Invariant, PTL

\* The word and the counter implement recursive reader-writer guards.
THEOREM Refinement == Spec => ImplementsReaderWriter
<1>. USE DEF ReaderWriterLock!AcquireWrite, ReaderWriterLock!AcquireRead,
             ReaderWriterLock!Release, ReaderWriterLock!Holds
<1>1. Init => ReaderWriterLock!Init
  BY DEF Init, ReaderWriterLock!Init
<1>2. IInv /\ [Next]_vars => [ReaderWriterLock!Next]_guards
  <2>. SUFFICES ASSUME IInv, [Next]_vars
                PROVE  ReaderWriterLock!Next \/ UNCHANGED guards
    OBVIOUS
  <2>. USE DEF IInv
  <2>1. ASSUME NEW t \in Threads, Enter(t, "W"),
               owner = t \/ \A u \in Threads : guards[u] = <<>>
        PROVE  ReaderWriterLock!AcquireWrite(t)
    BY <2>1 DEF Enter, WordMatchesGuards, Exclusion, Holds
  <2>2. ASSUME NEW t \in Threads, Enter(t, "R"), owner = t \/ owner = None
        PROVE  ReaderWriterLock!AcquireRead(t)
    BY <2>2, RWLockAssumption DEF Enter, WordMatchesGuards, Holds, RWLockAssumption
  <2>3. ASSUME NEW t \in Threads, Leave(t), guards[t] # <<>>
        PROVE  ReaderWriterLock!Release(t)
    BY <2>3 DEF Leave
  <2>4. ASSUME NEW t \in Threads, Lock(t)
        PROVE  ReaderWriterLock!Next \/ UNCHANGED guards
    BY <2>1, <2>2, <2>4 DEF Lock, WriteLockOwned, WriteLockSpin, ReadLockOwned,
                            ReadLockSpin, MayLock, ReaderWriterLock!Next
  <2>5. ASSUME NEW t \in Threads, Progress(t)
        PROVE  ReaderWriterLock!Next \/ UNCHANGED guards
    <3>1. CASE WriteAcquire(t)
      BY <3>1, <2>1, EmptyWord DEF WriteAcquire, ReaderWriterLock!Next
    <3>2. CASE WriteUnlock(t)
      BY <3>2, <2>3 DEF WriteUnlock, MayUnlock, ReaderWriterLock!Next
    <3>3. CASE WriteStore(t)
      <4>1. guards[t] # <<>>
        <5>1. Len(guards[t]) \in WriteDepth(t)
          BY <3>3 DEF WriteStore, PcInv
        <5>2. guards[t] \in Seq({"W", "R"}) /\ Len(guards[t]) \in DOMAIN guards[t]
          BY <5>1 DEF WriteDepth, TypeOK
        <5>. QED
          BY <5>2
      <4>. QED
        BY <3>3, <4>1, <2>3 DEF WriteStore, ReaderWriterLock!Next
    <3>4. CASE ReadExchange(t)
      BY <3>4, <2>2 DEF ReadExchange, ReaderWriterLock!Next
    <3>5. CASE ReadUnlock(t)
      BY <3>5, <2>3 DEF ReadUnlock, MayUnlock, ReaderWriterLock!Next
    <3>6. CASE WriteCountUp(t) \/ WriteUnlockInvalid(t) \/ ReadLoad(t) \/ ReadRetry(t)
      BY <3>6 DEF WriteCountUp, WriteUnlockInvalid, ReadLoad, ReadRetry
    <3>. QED
      BY <2>5, <3>1, <3>2, <3>3, <3>4, <3>5, <3>6 DEF Progress
  <2>6. ASSUME NEW t \in Threads, Timeout(t) PROVE UNCHANGED guards
    BY <2>6 DEF Timeout, WriteTimeout, ReadTimeout
  <2>. QED
    BY <2>4, <2>5, <2>6 DEF Next, Dead, vars
<1>. QED
  BY <1>1, <1>2, Invariant, PTL
     DEF Spec, ImplementsReaderWriter, ReaderWriterLock!Spec

-----------------------------------------------------------------------------
(***************************************************************************)
(* DeadLockProfiler, for any number of threads, locks, names and ids, and  *)
(* for every search that finds exactly the graphs with a cycle.            *)
(*                                                                         *)
(* The argument: a thread's stack of ids mirrors its guards and the lock   *)
(* it waits for, and neighbours on it are equal or have an edge.  While    *)
(* the process runs the ids can be ranked along the edges, so that ranks   *)
(* go down along every stack.  A thread of a deadlocked set with the       *)
(* lowest wanted rank then waits for one whose wanted id is the same.      *)
(***************************************************************************)

\* A thread's last id is the lock's it waits for, the others are its guards'.
Mirrors ==
  \A t \in Lockers :
    /\ Len(stack[t]) = Len(holds[t]) + (IF wants[t] = NoLock THEN 0 ELSE 1)
    /\ \A i \in 1..Len(holds[t]) : nameToId[stack[t][i]] = Name[holds[t][i]]
    /\ wants[t] # NoLock => nameToId[stack[t][Len(stack[t])]] = Name[wants[t]]

\* A lock is held by one thread.
Exclusive ==
  \A t, u \in Lockers : \A i \in 1..Len(holds[t]) : \A j \in 1..Len(holds[u]) :
    holds[t][i] = holds[u][j] => t = u

\* Neighbours on a stack are equal or have an edge.
Chained ==
  \A t \in Lockers : \A i \in 1..(Len(stack[t]) - 1) :
    stack[t][i] = stack[t][i + 1] \/ <<stack[t][i], stack[t][i + 1]>> \in history

\* The same with ranks: this remains when the last edge closes a cycle.
Descends(rank) ==
  \A t \in Lockers : \A i \in 1..(Len(stack[t]) - 1) :
    stack[t][i] = stack[t][i + 1] \/ rank[stack[t][i + 1]] < rank[stack[t][i]]

Ranked == \E rank \in [Nat -> Nat] : Descends(rank)

OrderInv ==
  /\ ProfilerTypeOK /\ Mirrors /\ Exclusive /\ Chained /\ Ranked
  /\ \A e \in history : e[1] # e[2]
  /\ CrashIffCycle

-----------------------------------------------------------------------------
\* A rank for a smaller number of ids is one for a larger.
LEMMA AcyclicGrows ==
  ASSUME NEW n \in Nat, NEW m \in Nat, n <= m,
         NEW g \in SUBSET ((1..n) \X (1..n)), Acyclic(g, n)
  PROVE  Acyclic(g, m)
<1>1. PICK rank \in [1..n -> 1..n] : \A e \in g : rank[e[2]] < rank[e[1]]
  BY DEF Acyclic
<1>. DEFINE more == [i \in 1..m |-> IF i <= n THEN rank[i] ELSE i]
<1>2. more \in [1..m -> 1..m]
  BY <1>1
<1>3. \A e \in g : e[1] \in 1..n /\ e[2] \in 1..n
  OBVIOUS
<1>4. \A e \in g : more[e[2]] = rank[e[2]] /\ more[e[1]] = rank[e[1]]
  BY <1>3
<1>5. \A e \in g : more[e[2]] < more[e[1]]
  BY <1>1, <1>4
<1>. QED
  BY <1>2, <1>5 DEF Acyclic

LEMMA LeastNatural ==
  ASSUME NEW S \in SUBSET Nat, S # {}
  PROVE  \E n \in S : \A m \in S : n <= m
<1>. DEFINE R == {pair \in Nat \X Nat : pair[1] < pair[2]}
<1>1. IsWellFoundedOn(R, Nat)
  BY NatLessThanWellFounded DEF OpToRel
<1>. HIDE DEF R
<1>2. \E n \in S : \A m \in S : <<m, n>> \notin R
  BY <1>1, WFMin
<1>3. \E n \in S : \A m \in S : ~(m < n)
  BY <1>2 DEF R
<1>. QED
  BY <1>3

\* Along a stack that descends, an id is below all that came before, or the same.
LEMMA DescendsFar ==
  ASSUME NEW n \in Nat, NEW s \in [1..n -> Nat], NEW rank \in [Nat -> Nat],
         \A k \in 1..(n - 1) : s[k] = s[k + 1] \/ rank[s[k + 1]] < rank[s[k]],
         NEW i \in 1..n, NEW j \in 1..n, i <= j
  PROVE  s[i] = s[j] \/ rank[s[j]] < rank[s[i]]
<1>. DEFINE Below(k) == s[i] = s[k] \/ rank[s[k]] < rank[s[i]]
            Bad == {k \in i..n : ~Below(k)}
<1>1. \A k \in 1..n : s[k] \in Nat /\ rank[s[k]] \in Nat
  OBVIOUS
<1>2. i \in Nat /\ i >= 1 /\ i..n \subseteq 1..n /\ i..n \subseteq Nat
  OBVIOUS
<1>3. Below(i)
  OBVIOUS
<1>4. ASSUME NEW k \in i..n, k # i, Below(k - 1) PROVE Below(k)
  <2>1. k - 1 \in 1..(n - 1) /\ (k - 1) + 1 = k /\ k \in 1..n /\ k - 1 \in 1..n
    BY <1>1, <1>2, <1>4
  <2>2. s[k - 1] = s[k] \/ rank[s[k]] < rank[s[k - 1]]
    BY <2>1
  <2>3. rank[s[i]] \in Nat /\ rank[s[k]] \in Nat /\ rank[s[k - 1]] \in Nat
    BY <2>1, <1>1
  <2>4. s[i] = s[k - 1] \/ rank[s[k - 1]] < rank[s[i]]
    BY <1>4
  <2>5. s[i] = s[k] \/ rank[s[k]] < rank[s[i]]
    <3>. HIDE DEF Below
    <3>1. CASE s[k - 1] = s[k]
      BY <3>1, <2>4
    <3>2. CASE rank[s[k]] < rank[s[k - 1]]
      <4>. DEFINE ri == rank[s[i]]
                  rk == rank[s[k]]
                  rb == rank[s[k - 1]]
      <4>1. ri \in Nat /\ rk \in Nat /\ rb \in Nat /\ rk < rb
        BY <2>3, <3>2
      <4>2. ri = rb \/ rb < ri
        BY <2>4
      <4>. HIDE DEF ri, rk, rb
      <4>3. rk < ri
        BY <4>1, <4>2
      <4>. QED
        BY <4>3 DEF ri, rk
    <3>. QED
      BY <2>2, <3>1, <3>2
  <2>. QED
    BY <2>5
<1>. HIDE DEF Below
<1>5. Bad = {}
  <2>. SUFFICES ASSUME Bad # {} PROVE FALSE
    OBVIOUS
  <2>1. Bad \in SUBSET Nat
    BY <1>2
  <2>2. PICK k \in Bad : \A l \in Bad : k <= l
    <3>. HIDE DEF Bad
    <3>. QED
      BY <2>1, LeastNatural
  <2>3. k \in i..n /\ k # i /\ ~Below(k)
    BY <2>2, <1>3
  <2>4. k - 1 \in i..n /\ k - 1 < k
    BY <2>3, <1>1, <1>2
  <2>5. k - 1 \notin Bad
    BY <2>2, <2>4, <1>2
  <2>. QED
    BY <2>3, <2>4, <2>5, <1>4
<1>6. j \in i..n
  BY <1>1
<1>. QED
  BY <1>5, <1>6 DEF Below

\* The order of the ids rules out a deadlock of locks of different classes.
LEMMA RankedHasNoCircle ==
  ASSUME OrderInv
  PROVE  NoCircularWait
<1>. SUFFICES ASSUME NEW D \in SUBSET Lockers, D # {},
                     \A t \in D : \E u \in D : WaitsFor(t, u)
              PROVE  \E t, u \in D : wants[t] # wants[u] /\ Name[wants[t]] = Name[wants[u]]
  BY DEF NoCircularWait
<1>a. /\ stack \in [Lockers -> Seq(DOMAIN nameToId)] /\ holds \in [Lockers -> Seq(Locks)]
      /\ nameToId \in Seq(Names) /\ IsInjective(nameToId)
  BY DEF OrderInv, ProfilerTypeOK
<1>b. DOMAIN nameToId = 1..Len(nameToId) /\ Len(nameToId) \in Nat
  BY <1>a
<1>c. \A t \in Lockers : /\ Len(holds[t]) \in Nat /\ DOMAIN holds[t] = 1..Len(holds[t])
                         /\ stack[t] \in Seq(1..Len(nameToId)) /\ Len(stack[t]) \in Nat
  BY <1>a, <1>b
<1>1. PICK rank \in [Nat -> Nat] : Descends(rank)
  BY DEF OrderInv, Ranked
<1>. DEFINE wanted(t) == stack[t][Len(stack[t])]
<1>2. ASSUME NEW t \in D
      PROVE  /\ Len(stack[t]) = Len(holds[t]) + 1 /\ Len(stack[t]) \in 1..Len(stack[t])
             /\ wanted(t) \in DOMAIN nameToId /\ wanted(t) \in Nat
             /\ nameToId[wanted(t)] = Name[wants[t]]
             /\ stack[t] \in Seq(Nat) /\ Len(holds[t]) \in Nat
  <2>1. wants[t] # NoLock
    BY <1>2 DEF WaitsFor
  <2>2. /\ Len(stack[t]) = Len(holds[t]) + 1
        /\ nameToId[wanted(t)] = Name[wants[t]]
    BY <2>1, <1>2 DEF OrderInv, Mirrors
  <2>3. 1..Len(nameToId) \subseteq Nat
    BY <1>b
  <2>4. stack[t] \in Seq(1..Len(nameToId)) /\ Len(holds[t]) \in Nat /\ Len(stack[t]) \in Nat
    BY <1>c, <1>2
  <2>5. stack[t] \in Seq(Nat)
    BY <2>3, <2>4, SeqMonotonic
  <2>6. Len(stack[t]) \in 1..Len(stack[t])
    BY <2>2, <2>4
  <2>7. wanted(t) \in 1..Len(nameToId)
    BY <2>4, <2>6, ElementOfSeq
  <2>. QED
    BY <2>2, <2>3, <2>4, <2>5, <2>6, <2>7, <1>b
\* A wait goes down, or from an id to itself.
<1>3. ASSUME NEW t \in D, NEW u \in D, WaitsFor(t, u)
      PROVE  wanted(t) = wanted(u) \/ rank[wanted(u)] < rank[wanted(t)]
  <2>1. PICK j \in 1..Len(holds[u]) : holds[u][j] = wants[t]
    BY <1>3, <1>c DEF WaitsFor, Range
  <2>2. nameToId[stack[u][j]] = Name[wants[t]]
    <3>1. \A i \in 1..Len(holds[u]) : nameToId[stack[u][i]] = Name[holds[u][i]]
      BY DEF OrderInv, Mirrors
    <3>. QED
      BY <2>1, <3>1
  <2>2a. Len(stack[u]) = Len(holds[u]) + 1 /\ Len(holds[u]) \in Nat
    BY <1>2
  <2>2b. j \in 1..Len(stack[u]) /\ j <= Len(stack[u])
    BY <2>2a
  <2>3. stack[u][j] \in DOMAIN nameToId
    BY <2>2b, <1>b, <1>c, ElementOfSeq
  <2>4. stack[u][j] = wanted(t)
    <3>1. \A i, k \in DOMAIN nameToId : nameToId[i] = nameToId[k] => i = k
      BY <1>a DEF IsInjective
    <3>2. wanted(t) \in DOMAIN nameToId /\ nameToId[wanted(t)] = Name[wants[t]]
      BY <1>2
    <3>. QED
      BY <2>2, <2>3, <3>1, <3>2
  <2>5. \A i \in 1..(Len(stack[u]) - 1) :
          stack[u][i] = stack[u][i + 1] \/ rank[stack[u][i + 1]] < rank[stack[u][i]]
    BY <1>1 DEF Descends
  <2>6. stack[u][j] = wanted(u) \/ rank[wanted(u)] < rank[stack[u][j]]
    <3>1. Len(stack[u]) \in Nat /\ stack[u] \in [1..Len(stack[u]) -> Nat]
      BY <1>2, LenProperties
    <3>2. Len(stack[u]) \in 1..Len(stack[u])
      BY <1>2
    <3>. HIDE DEF wanted
    <3>3. LET n == Len(stack[u]) IN
          stack[u][j] = stack[u][n] \/ rank[stack[u][n]] < rank[stack[u][j]]
      BY <2>2b, <2>5, <3>1, <3>2, DescendsFar
    <3>. QED
      BY <3>3 DEF wanted
  <2>. QED
    BY <2>4, <2>6
<1>. HIDE DEF wanted
<1>4. PICK t \in D : \A u \in D : rank[wanted(t)] <= rank[wanted(u)]
  <2>. DEFINE Ranks == {rank[wanted(t)] : t \in D}
  <2>1. Ranks \in SUBSET Nat /\ Ranks # {}
    <3>1. \A t \in D : rank[wanted(t)] \in Nat
      BY <1>2
    <3>. QED
      BY <3>1
  <2>2. PICK r \in Ranks : \A q \in Ranks : r <= q
    <3>. HIDE DEF Ranks
    <3>. QED
      BY <2>1, LeastNatural
  <2>. QED
    BY <2>2
<1>5. PICK u \in D : WaitsFor(t, u)
  OBVIOUS
<1>6. wanted(t) = wanted(u)
  <2>1. rank[wanted(t)] \in Nat /\ rank[wanted(u)] \in Nat /\ rank[wanted(t)] <= rank[wanted(u)]
    BY <1>2, <1>4
  <2>. QED
    BY <2>1, <1>3, <1>5
<1>7. Name[wants[t]] = Name[wants[u]]
  BY <1>2, <1>6
\* u does not wait for a lock that it holds and somebody else too.
<1>8. wants[t] # wants[u]
  <2>. SUFFICES ASSUME wants[t] = wants[u] PROVE FALSE
    OBVIOUS
  <2>1. PICK v \in D : WaitsFor(u, v)
    OBVIOUS
  <2>2. PICK i \in 1..Len(holds[u]) : holds[u][i] = wants[u]
    BY <1>5, <1>c DEF WaitsFor, Range
  <2>3. PICK j \in 1..Len(holds[v]) : holds[v][j] = wants[u]
    BY <2>1, <1>c DEF WaitsFor, Range
  <2>. QED
    <3>1. u # v
      BY <2>1 DEF WaitsFor
    <3>2. holds[u][i] = holds[v][j] => u = v
      BY DEF OrderInv, Exclusive
    <3>. QED
      BY <2>2, <2>3, <3>1, <3>2
<1>. QED
  BY <1>7, <1>8

-----------------------------------------------------------------------------
LEMMA FrontFacts ==
  ASSUME NEW S, NEW q \in Seq(S), q # <<>>
  PROVE  /\ Front(q) \in Seq(S) /\ Len(Front(q)) = Len(q) - 1
         /\ Len(q) \in Nat /\ Len(q) >= 1
         /\ \A i \in 1..(Len(q) - 1) : Front(q)[i] = q[i]
<1>1. Len(q) \in Nat /\ Len(q) >= 1
  BY EmptySeq, LenProperties
<1>2. \A i \in 1..(Len(q) - 1) : q[i] \in S /\ 1 + i - 1 = i
  BY <1>1, ElementOfSeq
<1>3. /\ Front(q) \in Seq(S)
      /\ Len(Front(q)) = IF 1 <= Len(q) - 1 THEN (Len(q) - 1) - 1 + 1 ELSE 0
      /\ \A i \in 1..((Len(q) - 1) - 1 + 1) : Front(q)[i] = q[1 + i - 1]
  BY <1>1, <1>2, SubSeqProperties DEF Front
<1>. DEFINE n == Len(q)
            front == Front(q)
            size == Len(front)
<1>4. /\ n \in Nat /\ n >= 1 /\ size = IF 1 <= n - 1 THEN (n - 1) - 1 + 1 ELSE 0
      /\ \A i \in 1..((n - 1) - 1 + 1) : front[i] = q[1 + i - 1]
      /\ \A i \in 1..(n - 1) : 1 + i - 1 = i
  BY <1>1, <1>2, <1>3
<1>. HIDE DEF n, front, size
<1>5. size = n - 1
  BY <1>4
<1>6. \A i \in 1..(n - 1) : front[i] = q[i]
  <2>1. (n - 1) - 1 + 1 = n - 1
    BY <1>4
  <2>. QED
    BY <1>4, <2>1
<1>. QED
  BY <1>1, <1>3, <1>5, <1>6 DEF n, front, size

\* What the types say of one thread.
LEMMA OneLocker ==
  ASSUME OrderInv, NEW t \in Lockers
  PROVE  /\ stack[t] \in Seq(1..Len(nameToId)) /\ holds[t] \in Seq(Locks)
         /\ Len(stack[t]) \in Nat /\ Len(holds[t]) \in Nat
         /\ DOMAIN holds[t] = 1..Len(holds[t])
         /\ \A i \in 1..Len(stack[t]) : stack[t][i] \in 1..Len(nameToId)
         /\ stack[t] # <<>> => Len(stack[t]) \in 1..Len(stack[t])
<1>1. DOMAIN nameToId = 1..Len(nameToId)
  BY LenProperties DEF OrderInv, ProfilerTypeOK
<1>2. stack[t] \in Seq(1..Len(nameToId)) /\ holds[t] \in Seq(Locks)
  BY <1>1 DEF OrderInv, ProfilerTypeOK
<1>. QED
  BY <1>2, ElementOfSeq, LenProperties, EmptySeq

\* Registering a name keeps the ids and gives the name one.
LEMMA RegisterKeeps ==
  ASSUME ProfilerTypeOK, NEW n \in Names, NEW ids, ids = Register(n)
  PROVE  /\ ids \in Seq(Names) /\ IsInjective(ids)
         /\ Len(nameToId) \in Nat /\ Len(ids) \in Nat /\ Len(nameToId) <= Len(ids)
         /\ DOMAIN ids = 1..Len(ids) /\ DOMAIN nameToId = 1..Len(nameToId)
         /\ \A i \in 1..Len(nameToId) : ids[i] = nameToId[i]
         /\ IdOf(ids, n) \in 1..Len(ids) /\ ids[IdOf(ids, n)] = n
<1>1. /\ nameToId \in Seq(Names) /\ Len(nameToId) \in Nat
      /\ DOMAIN nameToId = 1..Len(nameToId)
      /\ \A i, j \in 1..Len(nameToId) : nameToId[i] = nameToId[j] => i = j
  <2>1. nameToId \in Seq(Names) /\ \A i, j \in DOMAIN nameToId : nameToId[i] = nameToId[j] => i = j
    BY DEF ProfilerTypeOK, IsInjective
  <2>. QED
    BY <2>1, LenProperties
<1>2. CASE n \in Range(nameToId)
  <2>1. ids = nameToId /\ \E i \in 1..Len(nameToId) : nameToId[i] = n
    BY <1>1, <1>2 DEF Register, Range
  <2>. QED
    BY <1>1, <2>1 DEF IdOf, IsInjective
<1>3. CASE n \notin Range(nameToId)
  <2>. DEFINE m == Len(nameToId)
  <2>1. /\ ids = Append(nameToId, n) /\ ids \in Seq(Names) /\ Len(ids) = m + 1
        /\ ids[m + 1] = n /\ \A i \in 1..m : ids[i] = nameToId[i]
        /\ DOMAIN ids = 1..(m + 1)
    BY <1>1, <1>3, AppendProperties, LenProperties DEF Register
  <2>2. \A i \in 1..m : nameToId[i] # n
    BY <1>1, <1>3 DEF Range
  <2>. HIDE DEF m
  <2>3. m \in Nat
    BY <1>1 DEF m
  <2>4. \A i \in 1..(m + 1) : i = m + 1 \/ i \in 1..m
    BY <2>3
  <2>5. \A i, j \in 1..(m + 1) : ids[i] = ids[j] => i = j
    BY <1>1, <2>1, <2>2, <2>4 DEF m
  <2>6. IdOf(ids, n) \in 1..(m + 1) /\ ids[IdOf(ids, n)] = n
    <3>1. m + 1 \in DOMAIN ids
      BY <2>1, <2>3
    <3>. QED
      BY <2>1, <3>1 DEF IdOf
  <2>. QED
    BY <1>1, <2>1, <2>3, <2>5, <2>6 DEF IsInjective, m
<1>. QED
  BY <1>2, <1>3

LEMMA InitOrderInv == ProfilerInit => OrderInv
<1>. SUFFICES ASSUME ProfilerInit PROVE OrderInv
  OBVIOUS
<1>a. /\ nameToId = <<>> /\ history = {} /\ crash = "" /\ Len(<<>>) = 0
      /\ \A t \in Lockers : stack[t] = <<>> /\ holds[t] = <<>> /\ wants[t] = NoLock
  BY EmptySeq DEF ProfilerInit
<1>b. \A t \in Lockers : /\ 1..Len(stack[t]) = {} /\ 1..Len(holds[t]) = {}
                         /\ 1..(Len(stack[t]) - 1) = {}
                         /\ Len(stack[t]) = 0 /\ Len(holds[t]) = 0
  <2>1. 1..0 = {} /\ 1..(0 - 1) = {}
    OBVIOUS
  <2>. QED
    BY <1>a, <2>1
<1>1. ProfilerTypeOK
  <2>1. IsInjective(<<>>)
    BY DEF IsInjective
  <2>2. /\ stack \in [Lockers -> Seq(DOMAIN nameToId)] /\ holds \in [Lockers -> Seq(Locks)]
        /\ wants \in [Lockers -> Locks \cup {NoLock}]
    BY EmptySeq DEF ProfilerInit
  <2>. QED
    BY <1>a, <2>1, <2>2, EmptySeq DEF ProfilerTypeOK
<1>2. Mirrors /\ Exclusive /\ Chained
  <2>1. Mirrors
    <3>1. \A t \in Lockers : /\ Len(stack[t]) = Len(holds[t]) + 0 /\ wants[t] = NoLock
                             /\ 1..Len(holds[t]) = {}
      <4>1. 0 = 0 + 0
        OBVIOUS
      <4>. QED
        BY <4>1, <1>a, <1>b, Zenon
    <3>. QED
      BY <3>1 DEF Mirrors
  <2>2. Exclusive
    BY <1>b DEF Exclusive
  <2>3. Chained
    BY <1>b DEF Chained
  <2>. QED
    BY <2>1, <2>2, <2>3
<1>3. Ranked
  <2>. DEFINE flat == [i \in Nat |-> 0]
  <2>1. flat \in [Nat -> Nat]
    OBVIOUS
  <2>. HIDE DEF flat
  <2>2. Descends(flat)
    BY <1>b DEF Descends
  <2>. QED
    BY <2>1, <2>2 DEF Ranked
<1>4. Acyclic(history, Len(nameToId))
  <2>1. [i \in 1..0 |-> i] \in [1..0 -> 1..0]
    OBVIOUS
  <2>. QED
    BY <2>1 DEF Acyclic, ProfilerInit
<1>. QED
  BY <1>1, <1>2, <1>3, <1>4 DEF OrderInv, CrashIffCycle, ProfilerInit

\* While there is no cycle, the ranks go down along the stacks too.
LEMMA RanksFromEdges ==
  ASSUME NEW n \in Nat, NEW g \in SUBSET ((1..n) \X (1..n)), Acyclic(g, n)
  PROVE  \E rank \in [Nat -> Nat] : \A e \in g : rank[e[2]] < rank[e[1]]
<1>1. PICK rank \in [1..n -> 1..n] : \A e \in g : rank[e[2]] < rank[e[1]]
  BY DEF Acyclic
<1>. DEFINE more == [i \in Nat |-> IF i \in 1..n THEN rank[i] ELSE 0]
<1>2. more \in [Nat -> Nat]
  BY <1>1
<1>3. \A e \in g : e[1] \in 1..n /\ e[2] \in 1..n
  OBVIOUS
<1>4. \A e \in g : more[e[2]] = rank[e[2]] /\ more[e[1]] = rank[e[1]]
  BY <1>3
<1>5. \A e \in g : more[e[2]] < more[e[1]]
  BY <1>1, <1>4
<1>. QED
  BY <1>2, <1>5

\* PushLock.
LEMMA PushLockStep ==
  ASSUME \A n \in Nat : SearchIsRight(n),
         OrderInv, NEW t \in Lockers, NEW l \in Locks, PushLock(t, l)
  PROVE  OrderInv'
<1>. DEFINE id == IdOf(nameToId', Name[l])
            new == Edges(t, id) \ history
            n == Len(nameToId)
            m == Len(nameToId')
<1>1. /\ crash = "" /\ wants[t] = NoLock /\ holds' = holds
      /\ nameToId' = Register(Name[l]) /\ history' = history \cup new
      /\ report' = IF new = {} THEN <<>> ELSE Search(history', m)
      /\ IF report' # <<>>
           THEN crash' = "DEADLOCK_DETECTED" /\ UNCHANGED <<stack, wants>>
           ELSE /\ stack' = [stack EXCEPT ![t] = Append(@, id)]
                /\ wants' = [wants EXCEPT ![t] = l]
                /\ UNCHANGED crash
  BY DEF PushLock, Found
<1>2. /\ nameToId' \in Seq(Names) /\ IsInjective(nameToId')
      /\ n \in Nat /\ m \in Nat /\ n <= m /\ 1..n \subseteq 1..m
      /\ DOMAIN nameToId' = 1..m /\ DOMAIN nameToId = 1..n
      /\ \A i \in 1..n : nameToId'[i] = nameToId[i]
      /\ id \in 1..m /\ nameToId'[id] = Name[l]
  <2>1. ProfilerTypeOK /\ Name[l] \in Names
    BY ProfilerAssumption DEF OrderInv, ProfilerAssumption
  <2>2. /\ nameToId' \in Seq(Names) /\ IsInjective(nameToId')
        /\ n \in Nat /\ m \in Nat /\ n <= m
        /\ DOMAIN nameToId' = 1..m /\ DOMAIN nameToId = 1..n
        /\ \A i \in 1..n : nameToId'[i] = nameToId[i]
        /\ id \in 1..m /\ nameToId'[id] = Name[l]
    <3>1. nameToId' = Register(Name[l])
      BY <1>1
    <3>. QED
      BY <2>1, <3>1, RegisterKeeps, Zenon
  <2>3. 1..n \subseteq 1..m
    BY <2>2
  <2>. QED
    BY <2>2, <2>3
<1>3. /\ ProfilerTypeOK /\ history \subseteq (1..n) \X (1..n)
      /\ stack \in [Lockers -> Seq(1..n)] /\ holds \in [Lockers -> Seq(Locks)]
      /\ wants \in [Lockers -> Locks \cup {NoLock}]
      /\ l # NoLock /\ Acyclic(history, n)
  BY <1>1, <1>2, ProfilerAssumption
     DEF OrderInv, ProfilerTypeOK, ProfilerAssumption, CrashIffCycle
<1>. HIDE DEF new, id, n, m
<1>4. \A u \in Lockers : /\ Len(stack[u]) \in Nat /\ Len(holds[u]) \in Nat
                         /\ \A i \in 1..Len(stack[u]) : stack[u][i] \in 1..n
                         /\ stack[u] # <<>> => Len(stack[u]) \in 1..Len(stack[u])
                         /\ stack[u] = <<>> => Len(stack[u]) = 0
  BY OneLocker, EmptySeq DEF n
<1>5. /\ new = {} \/ new = {<<stack[t][Len(stack[t])], id>>}
      /\ new # {} => stack[t] # <<>> /\ stack[t][Len(stack[t])] # id
      /\ stack[t] # <<>> => \/ stack[t][Len(stack[t])] = id
                            \/ <<stack[t][Len(stack[t])], id>> \in history'
  BY <1>1 DEF new, Edges, Last
<1>6. /\ history \subseteq history' /\ history' \subseteq (1..m) \X (1..m)
      /\ \A e \in history' : e[1] # e[2]
  <2>1. \A e \in history : e[1] # e[2]
    BY DEF OrderInv
  <2>2. history \subseteq (1..m) \X (1..m)
    BY <1>2, <1>3
  <2>3. new # {} => stack[t][Len(stack[t])] \in 1..m
    BY <1>2, <1>4, <1>5
  <2>4. CASE new = {}
    BY <1>1, <2>1, <2>2, <2>4
  <2>5. CASE new # {}
    <3>1. new \subseteq (1..m) \X (1..m) /\ \A e \in new : e[1] # e[2]
      BY <1>2, <1>5, <2>3, <2>5
    <3>. QED
      BY <1>1, <2>1, <2>2, <3>1
  <2>. QED
    BY <2>4, <2>5
<1>7. report' = <<>> <=> Acyclic(history', m)
  <2>1. CASE new = {}
    <3>1. report' = <<>> /\ history' = history /\ history \in SUBSET ((1..n) \X (1..n))
      BY <2>1, <1>1, <1>3
    <3>2. Acyclic(history, m)
      BY <3>1, <1>2, <1>3, AcyclicGrows
    <3>. QED
      BY <3>1, <3>2
  <2>2. CASE new # {}
    <3>1. history' \in SUBSET {e \in (1..m) \X (1..m) : e[1] # e[2]}
      BY <1>6
    <3>. QED
      BY <2>2, <3>1, <1>1, <1>2 DEF SearchIsRight
  <2>. QED
    BY <2>1, <2>2
<1>8. report' # <<>> => IsCycle(history', report')
  <2>1. history' \in SUBSET {e \in (1..m) \X (1..m) : e[1] # e[2]}
    BY <1>6
  <2>. QED
    BY <2>1, <1>1, <1>2 DEF SearchIsRight
<1>9. CASE report' # <<>>
  <2>1. UNCHANGED <<stack, wants, holds>> /\ crash' = "DEADLOCK_DETECTED"
    BY <1>1, <1>9
  <2>2. ProfilerTypeOK'
    <3>1. stack' \in [Lockers -> Seq(1..m)]
      BY <2>1, <1>2, <1>3, SeqMonotonic
    <3>. QED
      BY <2>1, <3>1, <1>2, <1>3, <1>6 DEF ProfilerTypeOK
  <2>3. Mirrors'
    <3>. SUFFICES ASSUME NEW u \in Lockers
                  PROVE  /\ Len(stack[u]) = Len(holds[u]) + (IF wants[u] = NoLock THEN 0 ELSE 1)
                         /\ \A i \in 1..Len(holds[u]) : nameToId'[stack[u][i]] = Name[holds[u][i]]
                         /\ wants[u] # NoLock =>
                              nameToId'[stack[u][Len(stack[u])]] = Name[wants[u]]
      BY <2>1 DEF Mirrors
    <3>1. /\ Len(stack[u]) = Len(holds[u]) + (IF wants[u] = NoLock THEN 0 ELSE 1)
          /\ \A i \in 1..Len(holds[u]) : nameToId[stack[u][i]] = Name[holds[u][i]]
          /\ wants[u] # NoLock => nameToId[stack[u][Len(stack[u])]] = Name[wants[u]]
      BY DEF OrderInv, Mirrors
    <3>2. \A i \in 1..Len(stack[u]) : nameToId'[stack[u][i]] = nameToId[stack[u][i]]
      BY <1>2, <1>4
    <3>3. \A i \in 1..Len(holds[u]) : i \in 1..Len(stack[u])
      <4>1. Len(holds[u]) \in Nat /\ Len(stack[u]) \in Nat
        BY <1>4
      <4>2. Len(stack[u]) = Len(holds[u]) + 0 \/ Len(stack[u]) = Len(holds[u]) + 1
        BY <3>1
      <4>. QED
        BY <4>1, <4>2
    <3>4. wants[u] # NoLock => Len(stack[u]) \in 1..Len(stack[u])
      BY <3>1, <1>4
    <3>. QED
      BY <3>1, <3>2, <3>3, <3>4
  <2>4. Exclusive' /\ Ranked'
    BY <2>1 DEF OrderInv, Exclusive, Ranked, Descends
  <2>5. Chained'
    BY <2>1, <1>6 DEF OrderInv, Chained
  <2>6. CrashIffCycle'
    BY <2>1, <2>2, <1>7, <1>8, <1>9 DEF CrashIffCycle, m
  <2>. QED
    BY <2>2, <2>3, <2>4, <2>5, <2>6, <1>6 DEF OrderInv
<1>10. CASE report' = <<>>
  <2>1. /\ stack' = [stack EXCEPT ![t] = Append(stack[t], id)]
        /\ wants' = [wants EXCEPT ![t] = l] /\ crash' = ""
    BY <1>1, <1>10
  <2>2. /\ Len(stack'[t]) = Len(stack[t]) + 1 /\ stack'[t][Len(stack[t]) + 1] = id
        /\ \A i \in 1..Len(stack[t]) : stack'[t][i] = stack[t][i]
        /\ stack'[t] \in Seq(1..m)
    <3>1. stack[t] \in Seq(1..m) /\ stack'[t] = Append(stack[t], id)
      BY <2>1, <1>2, <1>3, SeqMonotonic
    <3>. QED
      BY <3>1, <1>2, AppendProperties
  <2>3. \A u \in Lockers : u # t => stack'[u] = stack[u] /\ wants'[u] = wants[u]
    BY <2>1, <1>3
  <2>4. ProfilerTypeOK'
    <3>1. stack' \in [Lockers -> Seq(1..m)]
      BY <2>1, <2>2, <1>2, <1>3, SeqMonotonic
    <3>2. wants' \in [Lockers -> Locks \cup {NoLock}]
      BY <2>1, <1>3
    <3>. QED
      BY <2>1, <3>1, <3>2, <1>1, <1>2, <1>3, <1>6 DEF ProfilerTypeOK
  <2>5. Mirrors'
    <3>. SUFFICES ASSUME NEW u \in Lockers
                  PROVE  /\ Len(stack'[u]) = Len(holds[u]) + (IF wants'[u] = NoLock THEN 0 ELSE 1)
                         /\ \A i \in 1..Len(holds[u]) : nameToId'[stack'[u][i]] = Name[holds[u][i]]
                         /\ wants'[u] # NoLock =>
                              nameToId'[stack'[u][Len(stack'[u])]] = Name[wants'[u]]
      BY <1>1 DEF Mirrors
    <3>1. /\ Len(stack[u]) = Len(holds[u]) + (IF wants[u] = NoLock THEN 0 ELSE 1)
          /\ \A i \in 1..Len(holds[u]) : nameToId[stack[u][i]] = Name[holds[u][i]]
          /\ wants[u] # NoLock => nameToId[stack[u][Len(stack[u])]] = Name[wants[u]]
      BY DEF OrderInv, Mirrors
    <3>2. \A i \in 1..Len(stack[u]) : nameToId'[stack[u][i]] = nameToId[stack[u][i]]
      BY <1>2, <1>4
    <3>3. \A i \in 1..Len(holds[u]) : i \in 1..Len(stack[u])
      <4>1. Len(holds[u]) \in Nat /\ Len(stack[u]) \in Nat
        BY <1>4
      <4>2. Len(stack[u]) = Len(holds[u]) + 0 \/ Len(stack[u]) = Len(holds[u]) + 1
        BY <3>1
      <4>. QED
        BY <4>1, <4>2
    <3>4. wants[u] # NoLock => Len(stack[u]) \in 1..Len(stack[u])
      BY <3>1, <1>4
    <3>5. CASE u # t
      BY <3>1, <3>2, <3>3, <3>4, <3>5, <2>3
    <3>6. CASE u = t
      <4>1. wants[t] = NoLock /\ wants'[t] = l /\ l # NoLock
        BY <2>1, <1>1, <1>3
      <4>2. Len(stack'[t]) = Len(holds[t]) + 1
        BY <4>1, <3>1, <3>6, <2>2, <1>4
      <4>3. nameToId'[stack'[t][Len(stack'[t])]] = Name[l]
        BY <2>2, <1>2
      <4>4. \A i \in 1..Len(holds[t]) : nameToId'[stack'[t][i]] = Name[holds[t][i]]
        BY <3>1, <3>2, <3>3, <3>6, <2>2
      <4>. QED
        BY <4>1, <4>2, <4>3, <4>4, <3>6
    <3>. QED
      BY <3>5, <3>6
  <2>6. Exclusive'
    BY <1>1 DEF OrderInv, Exclusive
  <2>7. Chained'
    <3>. SUFFICES ASSUME NEW u \in Lockers, NEW i \in 1..(Len(stack'[u]) - 1)
                  PROVE  \/ stack'[u][i] = stack'[u][i + 1]
                         \/ <<stack'[u][i], stack'[u][i + 1]>> \in history'
      BY DEF Chained
    <3>1. \A v \in Lockers : \A k \in 1..(Len(stack[v]) - 1) :
            stack[v][k] = stack[v][k + 1] \/ <<stack[v][k], stack[v][k + 1]>> \in history'
      BY <1>6 DEF OrderInv, Chained
    <3>2. CASE u # t
      BY <3>1, <3>2, <2>3
    <3>3. CASE u = t /\ i # Len(stack[t])
      <4>1. i \in 1..(Len(stack[t]) - 1) /\ i \in 1..Len(stack[t]) /\ i + 1 \in 1..Len(stack[t])
        BY <3>3, <2>2, <1>4
      <4>. QED
        BY <4>1, <3>1, <3>3, <2>2
    <3>4. CASE u = t /\ i = Len(stack[t])
      <4>1. stack[t] # <<>> /\ i \in 1..Len(stack[t])
        BY <3>4, <2>2, <1>4
      <4>. QED
        BY <4>1, <3>4, <2>2, <1>5
    <3>. QED
      BY <3>2, <3>3, <3>4
  <2>8. Ranked'
    <3>1. Acyclic(history', m)
      BY <1>7, <1>10
    <3>2. PICK rank \in [Nat -> Nat] : \A e \in history' : rank[e[2]] < rank[e[1]]
      BY <3>1, <1>2, <1>6, RanksFromEdges
    <3>3. \A a, b : <<a, b>> \in history' => rank[b] < rank[a]
      BY <3>2
    <3>4. Descends(rank)'
      BY <2>7, <3>3 DEF Chained, Descends
    <3>. QED
      BY <3>4 DEF Ranked
  <2>9. CrashIffCycle'
    BY <2>1, <2>4, <1>7, <1>10 DEF CrashIffCycle, m
  <2>. QED
    BY <2>4, <2>5, <2>6, <2>7, <2>8, <2>9, <1>6 DEF OrderInv
<1>. QED
  BY <1>9, <1>10

\* Acquire: the wish becomes the innermost guard.
LEMMA AcquireStep ==
  ASSUME OrderInv, NEW t \in Lockers, Acquire(t)
  PROVE  OrderInv'
<1>. DEFINE w == wants[t]
            n == Len(holds[t])
<1>1. /\ crash = "" /\ w # NoLock /\ w \in Locks /\ Free(t, w)
      /\ holds' = [holds EXCEPT ![t] = Append(holds[t], w)]
      /\ wants' = [wants EXCEPT ![t] = NoLock]
      /\ UNCHANGED <<nameToId, history, stack, report, crash>>
  BY DEF Acquire, OrderInv, ProfilerTypeOK
<1>2. holds \in [Lockers -> Seq(Locks)] /\ wants \in [Lockers -> Locks \cup {NoLock}]
  BY DEF OrderInv, ProfilerTypeOK
<1>3. /\ n \in Nat /\ holds'[t] \in Seq(Locks) /\ Len(holds'[t]) = n + 1
      /\ holds'[t][n + 1] = w /\ \A i \in 1..n : holds'[t][i] = holds[t][i]
  <2>1. holds[t] \in Seq(Locks) /\ holds'[t] = Append(holds[t], w) /\ w \in Locks
    BY <1>1, <1>2
  <2>. QED
    BY <2>1, AppendProperties, LenProperties
<1>4. \A u \in Lockers : u # t => holds'[u] = holds[u] /\ wants'[u] = wants[u]
  BY <1>1, <1>2
<1>5. wants'[t] = NoLock
  BY <1>1, <1>2
<1>6. \A u \in Lockers : Len(holds[u]) \in Nat /\ DOMAIN holds[u] = 1..Len(holds[u])
  BY OneLocker
<1>. HIDE DEF w, n
<1>7. ProfilerTypeOK'
  <2>1. holds' \in [Lockers -> Seq(Locks)]
    BY <1>1, <1>2, <1>3
  <2>2. wants' \in [Lockers -> Locks \cup {NoLock}]
    BY <1>1, <1>2
  <2>. QED
    BY <1>1, <2>1, <2>2 DEF OrderInv, ProfilerTypeOK
<1>8. Mirrors'
  <2>. SUFFICES ASSUME NEW u \in Lockers
                PROVE  /\ Len(stack[u]) = Len(holds'[u]) + (IF wants'[u] = NoLock THEN 0 ELSE 1)
                       /\ \A i \in 1..Len(holds'[u]) : nameToId[stack[u][i]] = Name[holds'[u][i]]
                       /\ wants'[u] # NoLock =>
                            nameToId[stack[u][Len(stack[u])]] = Name[wants'[u]]
    BY <1>1 DEF Mirrors
  <2>1. /\ Len(stack[u]) = Len(holds[u]) + (IF wants[u] = NoLock THEN 0 ELSE 1)
        /\ \A i \in 1..Len(holds[u]) : nameToId[stack[u][i]] = Name[holds[u][i]]
        /\ wants[u] # NoLock => nameToId[stack[u][Len(stack[u])]] = Name[wants[u]]
    BY DEF OrderInv, Mirrors
  <2>2. CASE u # t
    BY <2>1, <2>2, <1>4
  <2>3. CASE u = t
    <3>1. Len(stack[t]) = n + 1 /\ nameToId[stack[t][n + 1]] = Name[w]
      BY <2>1, <2>3, <1>1 DEF w, n
    <3>2. Len(stack[t]) = Len(holds'[t]) + 0
      BY <3>1, <1>3
    <3>3. \A i \in 1..(n + 1) : i \in 1..n \/ i = n + 1
      BY <1>3
    <3>4. \A i \in 1..n : nameToId[stack[t][i]] = Name[holds'[t][i]]
      BY <2>1, <2>3, <1>3 DEF n
    <3>5. \A i \in 1..Len(holds'[t]) : nameToId[stack[t][i]] = Name[holds'[t][i]]
      BY <3>1, <3>3, <3>4, <1>3
    <3>. QED
      BY <3>2, <3>5, <2>3, <1>5
  <2>. QED
    BY <2>2, <2>3
<1>9. Exclusive'
  <2>. SUFFICES ASSUME NEW u \in Lockers, NEW v \in Lockers,
                       NEW i \in 1..Len(holds'[u]), NEW j \in 1..Len(holds'[v]),
                       holds'[u][i] = holds'[v][j], u # v
                PROVE  FALSE
    BY DEF Exclusive
  <2>1. \A a \in Lockers : \A k \in 1..Len(holds[a]) : holds[a][k] = w => a = t
    <3>1. \A a \in Lockers \ {t} : w \notin Range(holds[a])
      BY <1>1 DEF Free
    <3>. QED
      BY <3>1, <1>6 DEF Range
  <2>2. \A a \in Lockers : \A k \in 1..Len(holds'[a]) :
          \/ k \in 1..Len(holds[a]) /\ holds'[a][k] = holds[a][k]
          \/ a = t /\ holds'[a][k] = w
    <3>. SUFFICES ASSUME NEW a \in Lockers, NEW k \in 1..Len(holds'[a])
                  PROVE  \/ k \in 1..Len(holds[a]) /\ holds'[a][k] = holds[a][k]
                         \/ a = t /\ holds'[a][k] = w
      OBVIOUS
    <3>1. CASE a # t
      BY <3>1, <1>4
    <3>2. CASE a = t
      <4>1. k \in 1..n \/ k = n + 1
        BY <3>2, <1>3
      <4>. QED
        BY <4>1, <3>2, <1>3 DEF n
    <3>. QED
      BY <3>1, <3>2
  <2>3. \A a, b \in Lockers : \A k \in 1..Len(holds[a]) : \A h \in 1..Len(holds[b]) :
          holds[a][k] = holds[b][h] => a = b
    BY DEF OrderInv, Exclusive
  <2>. QED
    BY <2>1, <2>2, <2>3
<1>10. Chained' /\ Ranked' /\ CrashIffCycle' /\ \A e \in history' : e[1] # e[2]
  BY <1>1, <1>7 DEF OrderInv, Chained, Ranked, Descends, CrashIffCycle
<1>. QED
  BY <1>7, <1>8, <1>9, <1>10 DEF OrderInv

\* Unlock: the innermost guard's id is the last one, so PopLock finds it there.
LEMMA UnlockStep ==
  ASSUME OrderInv, NEW t \in Lockers, Unlock(t)
  PROVE  OrderInv'
<1>. DEFINE n == Len(holds[t])
<1>1. /\ crash = "" /\ wants[t] = NoLock /\ holds[t] # <<>>
      /\ UNCHANGED <<nameToId, history, wants, report>>
  BY DEF Unlock
<1>2. /\ holds \in [Lockers -> Seq(Locks)] /\ stack \in [Lockers -> Seq(DOMAIN nameToId)]
      /\ nameToId \in Seq(Names) /\ IsInjective(nameToId)
      /\ DOMAIN nameToId = 1..Len(nameToId)
  BY LenProperties DEF OrderInv, ProfilerTypeOK
<1>3. /\ n \in Nat /\ n >= 1 /\ Front(holds[t]) \in Seq(Locks)
      /\ Len(Front(holds[t])) = n - 1
      /\ \A i \in 1..(n - 1) : Front(holds[t])[i] = holds[t][i]
  <2>1. holds[t] \in Seq(Locks)
    BY <1>2
  <2>. QED
    BY <2>1, <1>1, FrontFacts
<1>4. /\ Len(stack[t]) = n + 0
      /\ \A i \in 1..n : nameToId[stack[t][i]] = Name[holds[t][i]]
  BY <1>1 DEF OrderInv, Mirrors
<1>5. stack[t] \in Seq(DOMAIN nameToId) /\ Len(stack[t]) = n /\ stack[t] # <<>>
  BY <1>2, <1>3, <1>4, EmptySeq
<1>6. /\ Front(stack[t]) \in Seq(DOMAIN nameToId) /\ Len(Front(stack[t])) = n - 1
      /\ \A i \in 1..(n - 1) : Front(stack[t])[i] = stack[t][i]
  BY <1>5, FrontFacts
<1>7. Last(stack[t]) = IdOf(nameToId, Name[Last(holds[t])])
  <2>1. /\ stack[t][n] \in DOMAIN nameToId /\ nameToId[stack[t][n]] = Name[holds[t][n]]
        /\ Last(stack[t]) = stack[t][n] /\ Last(holds[t]) = holds[t][n]
    BY <1>3, <1>4, <1>5, ElementOfSeq DEF Last
  <2>2. \A i, j \in DOMAIN nameToId : nameToId[i] = nameToId[j] => i = j
    BY <1>2 DEF IsInjective
  <2>. QED
    BY <2>1, <2>2 DEF IdOf
<1>8. /\ crash' = "" /\ stack' = [stack EXCEPT ![t] = Front(stack[t])]
      /\ holds' = [holds EXCEPT ![t] = Front(holds[t])]
  BY <1>5, <1>7 DEF Unlock
<1>9. /\ stack'[t] = Front(stack[t]) /\ holds'[t] = Front(holds[t])
      /\ \A u \in Lockers : u # t => stack'[u] = stack[u] /\ holds'[u] = holds[u]
  BY <1>2, <1>8
<1>10. \A u \in Lockers : Len(stack[u]) \in Nat /\ Len(holds[u]) \in Nat
  BY OneLocker
<1>. HIDE DEF n
\* What is left of a thread is the beginning of what it had.
<1>11. \A u \in Lockers :
         /\ Len(holds'[u]) \in Nat /\ Len(stack'[u]) \in Nat
         /\ Len(holds'[u]) <= Len(holds[u]) /\ Len(stack'[u]) <= Len(stack[u])
         /\ \A i \in 1..Len(holds'[u]) : holds'[u][i] = holds[u][i]
         /\ \A i \in 1..Len(stack'[u]) : stack'[u][i] = stack[u][i]
  <2>. SUFFICES ASSUME NEW u \in Lockers
                PROVE  /\ Len(holds'[u]) \in Nat /\ Len(stack'[u]) \in Nat
                       /\ Len(holds'[u]) <= Len(holds[u]) /\ Len(stack'[u]) <= Len(stack[u])
                       /\ \A i \in 1..Len(holds'[u]) : holds'[u][i] = holds[u][i]
                       /\ \A i \in 1..Len(stack'[u]) : stack'[u][i] = stack[u][i]
    OBVIOUS
  <2>1. CASE u # t
    BY <2>1, <1>9, <1>10
  <2>2. CASE u = t
    <3>1. n - 1 \in Nat /\ n - 1 <= n /\ Len(holds[t]) = n
      BY <1>3 DEF n
    <3>. QED
      BY <3>1, <2>2, <1>3, <1>5, <1>6, <1>9
  <2>. QED
    BY <2>1, <2>2
<1>12. \A u \in Lockers :
         /\ 1..Len(holds'[u]) \subseteq 1..Len(holds[u])
         /\ \A i \in 1..(Len(stack'[u]) - 1) : /\ i \in 1..(Len(stack[u]) - 1)
                                              /\ i \in 1..Len(stack'[u])
                                              /\ i + 1 \in 1..Len(stack'[u])
  BY <1>10, <1>11
<1>13. ProfilerTypeOK'
  <2>1. holds' \in [Lockers -> Seq(Locks)]
    BY <1>2, <1>3, <1>8
  <2>2. stack' \in [Lockers -> Seq(DOMAIN nameToId)]
    BY <1>2, <1>6, <1>8
  <2>. QED
    BY <1>1, <1>8, <2>1, <2>2 DEF OrderInv, ProfilerTypeOK
<1>14. Mirrors'
  <2>. SUFFICES ASSUME NEW u \in Lockers
                PROVE  /\ Len(stack'[u]) = Len(holds'[u]) + (IF wants[u] = NoLock THEN 0 ELSE 1)
                       /\ \A i \in 1..Len(holds'[u]) : nameToId[stack'[u][i]] = Name[holds'[u][i]]
                       /\ wants[u] # NoLock =>
                            nameToId[stack'[u][Len(stack'[u])]] = Name[wants[u]]
    BY <1>1 DEF Mirrors
  <2>1. /\ Len(stack[u]) = Len(holds[u]) + (IF wants[u] = NoLock THEN 0 ELSE 1)
        /\ \A i \in 1..Len(holds[u]) : nameToId[stack[u][i]] = Name[holds[u][i]]
        /\ wants[u] # NoLock => nameToId[stack[u][Len(stack[u])]] = Name[wants[u]]
    BY DEF OrderInv, Mirrors
  <2>2. CASE u # t
    BY <2>1, <2>2, <1>9
  <2>3. CASE u = t
    <3>1. Len(holds'[t]) = n - 1 /\ Len(stack'[t]) = n - 1 /\ n - 1 = (n - 1) + 0
      BY <1>3, <1>6, <1>9
    <3>2. \A i \in 1..Len(holds'[t]) : /\ i \in 1..Len(holds[t])
                                      /\ stack'[t][i] = stack[t][i]
                                      /\ holds'[t][i] = holds[t][i]
      BY <3>1, <1>11, <1>12
    <3>. QED
      BY <3>1, <3>2, <2>1, <2>3, <1>1
  <2>. QED
    BY <2>2, <2>3
<1>15. Exclusive'
  <2>1. \A a, b \in Lockers : \A k \in 1..Len(holds[a]) : \A h \in 1..Len(holds[b]) :
          holds[a][k] = holds[b][h] => a = b
    BY DEF OrderInv, Exclusive
  <2>. QED
    BY <2>1, <1>11, <1>12 DEF Exclusive
<1>16. Chained'
  <2>1. \A u \in Lockers : \A i \in 1..(Len(stack[u]) - 1) :
          stack[u][i] = stack[u][i + 1] \/ <<stack[u][i], stack[u][i + 1]>> \in history
    BY DEF OrderInv, Chained
  <2>. QED
    BY <2>1, <1>1, <1>11, <1>12 DEF Chained
<1>17. Ranked'
  <2>1. PICK rank \in [Nat -> Nat] : Descends(rank)
    BY DEF OrderInv, Ranked
  <2>2. Descends(rank)'
    BY <2>1, <1>11, <1>12 DEF Descends
  <2>. QED
    BY <2>2 DEF Ranked
<1>18. CrashIffCycle' /\ \A e \in history' : e[1] # e[2]
  BY <1>1, <1>8, <1>13 DEF OrderInv, CrashIffCycle
<1>. QED
  BY <1>13, <1>14, <1>15, <1>16, <1>17, <1>18 DEF OrderInv

LEMMA OrderInvariant ==
  ASSUME \A n \in Nat : SearchIsRight(n)
  PROVE  ProfilerSpec => []OrderInv
<1>1. OrderInv /\ [ProfilerNext]_profilerVars => OrderInv'
  <2>. SUFFICES ASSUME OrderInv, [ProfilerNext]_profilerVars PROVE OrderInv'
    OBVIOUS
  <2>1. CASE UNCHANGED profilerVars
    BY <2>1 DEF profilerVars, OrderInv, ProfilerTypeOK, Mirrors, Exclusive, Chained, Ranked,
                Descends, CrashIffCycle
  <2>2. ASSUME NEW t \in Lockers, NEW l \in Locks, PushLock(t, l) PROVE OrderInv'
    BY <2>2, PushLockStep
  <2>3. ASSUME NEW t \in Lockers, Acquire(t) PROVE OrderInv'
    BY <2>3, AcquireStep
  <2>4. ASSUME NEW t \in Lockers, Unlock(t) PROVE OrderInv'
    BY <2>4, UnlockStep
  <2>. QED
    BY <2>1, <2>2, <2>3, <2>4 DEF ProfilerNext
<1>. QED
  BY <1>1, InitOrderInv, PTL DEF ProfilerSpec

\* For any number of threads, locks and classes: if the search finds exactly the
\* graphs with a cycle, WriteLock's PushLock stops the process at the first edge
\* that closes one and never before, and PopLock's assertions never stop it.
THEOREM CrashAtFirstCycle ==
  ASSUME \A n \in Nat : SearchIsRight(n)
  PROVE  ProfilerSpec => []CrashIffCycle
<1>1. OrderInv => CrashIffCycle
  BY DEF OrderInv
<1>. QED
  BY <1>1, OrderInvariant, PTL

\* Under the same hypothesis no set of threads is ever deadlocked over locks of
\* different classes: the edge that closes the cycle is seen before the wait begins.
THEOREM NoUnseenDeadlock ==
  ASSUME \A n \in Nat : SearchIsRight(n)
  PROVE  ProfilerSpec => []NoCircularWait
<1>. QED
  BY OrderInvariant, RankedHasNoCircle, PTL
=============================================================================
