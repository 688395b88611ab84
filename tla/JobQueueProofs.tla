--------------------------- MODULE JobQueueProofs ---------------------------
(***************************************************************************)
(* Theorems about JobQueue for every finite set of threads and all sets of *)
(* queues and jobs.                                                        *)
(*                                                                         *)
(* The argument: a queue's token (OneOwner) passes from the push that      *)
(* finds the count 0, to the executor or the global queue, and is given up *)
(* by the fetch_sub that reaches 0.  That this fetch_sub leaves no job     *)
(* behind needs CountCovers, and that the count is 0 exactly when nobody   *)
(* holds the token needs OwnedIffCounted; the three hold only together.    *)
(* That a queue has one executor then makes JobQueue a SerialExecutor.     *)
(***************************************************************************)
EXTENDS JobQueue, FiniteSetTheorems, SequenceTheorems, TLAPS

\* A push goes on after the insertion only when it was the first.
PlacedIsFirst == \A t \in Threads : Placed(t) => pushing[t].first

IInv ==
  /\ TypeOK
  /\ OneOwner
  /\ OwnedIffCounted
  /\ CountCovers
  /\ PlacedIsFirst

-----------------------------------------------------------------------------
\* The set of pushers that have counted and not placed is finite.
LEMMA UnplacedFinite ==
  ASSUME NEW q
  PROVE  IsFiniteSet(Unplaced(q)) /\ Cardinality(Unplaced(q)) \in Nat
<1>1. Unplaced(q) \subseteq Threads
  BY DEF Unplaced
<1>2. IsFiniteSet(Unplaced(q))
  BY <1>1, ConstantsAssumption, FS_Subset DEF ConstantsAssumption
<1>. QED
  BY <1>2, FS_CardinalityType

\* A thread's push is none or a call.
LEMMA PushingType ==
  ASSUME TypeOK, NEW t \in Threads
  PROVE  /\ pushing[t] = NoPush \/ pushing[t] \in PushCall
         /\ Counted(t) \/ Placed(t) <=> pushing[t] # NoPush
         /\ pushing[t] # NoPush => /\ pushing[t].queue \in Queues
                                   /\ pushing[t].job \in Jobs
                                   /\ pushing[t].first \in BOOLEAN
                                   /\ pushing[t].stage \in {"counted", "placed"}
BY DEF TypeOK, PushCall, NoPush, Counted, Placed

\* Init establishes the invariant.
LEMMA InitIInv == Init => IInv
<1>. SUFFICES ASSUME Init PROVE IInv
  OBVIOUS
<1>. USE DEF Init, NoPush
<1>1. TypeOK
  BY ConstantsAssumption DEF TypeOK, ConstantsAssumption
<1>2. OneOwner
  BY ConstantsAssumption DEF ConstantsAssumption, OneOwner, Executes, FirstPush, InGlobal
<1>3. OwnedIffCounted
  BY ConstantsAssumption DEF ConstantsAssumption, OwnedIffCounted, Owned, Executes, FirstPush, InGlobal
<1>4. CountCovers
  <2>. SUFFICES ASSUME NEW q \in Queues
                PROVE  /\ jobCount[q] >= Len(jobs[q]) + Cardinality(Unplaced(q))
                       /\ \A t \in Threads : ~Executes(t, q)
    BY DEF CountCovers
  <2>1. Unplaced(q) = {}
    BY DEF Unplaced, Counted
  <2>2. Cardinality(Unplaced(q)) = 0
    BY <2>1, FS_EmptySet
  <2>3. jobCount[q] = 0 /\ Len(jobs[q]) = 0
    OBVIOUS
  <2>4. \A t \in Threads : ~Executes(t, q)
    BY ConstantsAssumption DEF ConstantsAssumption, Executes
  <2>. QED
    BY <2>2, <2>3, <2>4
<1>5. PlacedIsFirst
  BY DEF PlacedIsFirst, Placed
<1>. QED
  BY <1>1, <1>2, <1>3, <1>4, <1>5 DEF IInv

-----------------------------------------------------------------------------
(***************************************************************************)
(* Type correctness                                                        *)
(***************************************************************************)

LEMMA TypeStep == TypeOK /\ [Next]_vars => TypeOK'
<1>. SUFFICES ASSUME TypeOK, [Next]_vars PROVE TypeOK'
  OBVIOUS
<1>. USE DEF TypeOK, executeVars
<1>. USE ConstantsAssumption DEF ConstantsAssumption
<1>1. ASSUME NEW t \in Threads, NEW q \in Queues, NEW j \in Jobs,
             NEW pushOnly \in BOOLEAN, PushCount(t, q, j, pushOnly)
      PROVE  TypeOK'
  BY <1>1 DEF PushCount, PushCall
<1>2. ASSUME NEW t \in Threads, PushItem(t) PROVE TypeOK'
  <2>1. pushing[t] \in PushCall
    BY <1>2 DEF PushItem, Counted, NoPush
  <2>2. pushing[t].queue \in Queues /\ pushing[t].job \in Jobs
    BY <2>1 DEF PushCall
  <2>3. [pushing[t] EXCEPT !.stage = "placed"] \in PushCall
    BY <2>1 DEF PushCall
  <2>4. jobs' \in [Queues -> Seq(Jobs)]
    BY <1>2, <2>2 DEF PushItem
  <2>5. pushing' \in [Threads -> PushCall \cup {NoPush}]
    BY <1>2, <2>3 DEF PushItem
  <2>. QED
    BY <1>2, <2>4, <2>5 DEF PushItem
<1>3. ASSUME NEW t \in Threads, PushExecute(t) PROVE TypeOK'
  <2>1. pushing[t].queue \in Queues
    BY <1>3 DEF PushExecute, Placed, NoPush, PushCall
  <2>. QED
    BY <1>3, <2>1 DEF PushExecute
<1>4. ASSUME NEW t \in Threads, PushGlobal(t) PROVE TypeOK'
  <2>1. pushing[t].queue \in Queues
    BY <1>4 DEF PushGlobal, Placed, NoPush, PushCall
  <2>. QED
    BY <1>4, <2>1 DEF PushGlobal
<1>5. ASSUME NEW t \in Threads, DoGlobalQueueWork(t) PROVE TypeOK'
  <2>1. Head(globalQueue) \in Queues /\ Tail(globalQueue) \in Seq(Queues)
    BY <1>5 DEF DoGlobalQueueWork
  <2>. QED
    BY <1>5, <2>1 DEF DoGlobalQueueWork
<1>6. ASSUME NEW t \in Threads, ExecutePopAll(t) PROVE TypeOK'
  <2>1. current[t] \in Queues
    BY <1>6 DEF ExecutePopAll
  <2>. QED
    BY <1>6, <2>1 DEF ExecutePopAll
<1>7. ASSUME NEW t \in Threads, JobStart(t) PROVE TypeOK'
  BY <1>7 DEF JobStart
<1>8. ASSUME NEW t \in Threads, JobReturn(t) PROVE TypeOK'
  BY <1>8 DEF JobReturn
<1>9. ASSUME NEW t \in Threads, ExecuteSub(t) PROVE TypeOK'
  <2>1. current[t] \in Queues
    BY <1>9 DEF ExecuteSub
  <2>2. jobCount[current[t]] - Len(batch[t]) \in Int
    BY <2>1
  <2>3. jobCount' \in [Queues -> Int]
    BY <1>9, <2>2 DEF ExecuteSub
  <2>4. /\ batch' = [batch EXCEPT ![t] = <<>>]
        /\ next' = [next EXCEPT ![t] = 1]
        /\ UNCHANGED <<jobs, globalQueue, pushing, made>>
    BY <1>9 DEF ExecuteSub
  <2>5. CASE jobCount[current[t]] = Len(batch[t])
    <3>1. /\ current' = [current EXCEPT ![t] = None]
          /\ pc' = [pc EXCEPT ![t] = "idle"]
      BY <1>9, <2>5 DEF ExecuteSub
    <3>. QED
      BY <2>3, <2>4, <3>1
  <2>6. CASE jobCount[current[t]] # Len(batch[t])
    <3>1. current' = current /\ pc' = [pc EXCEPT ![t] = "tick"] /\ pc[t] = "loop"
      BY <1>9, <2>6 DEF ExecuteSub
    <3>. QED
      BY <2>3, <2>4, <3>1
  <2>. QED
    BY <2>5, <2>6
<1>10. ASSUME NEW t \in Threads, ExecuteAgain(t) PROVE TypeOK'
  BY <1>10 DEF ExecuteAgain
<1>11. ASSUME NEW t \in Threads, ExecuteHandOver(t) PROVE TypeOK'
  <2>1. current[t] \in Queues
    BY <1>11 DEF ExecuteHandOver
  <2>. QED
    BY <1>11, <2>1 DEF ExecuteHandOver
<1>12. ASSUME NEW q \in Queues, ClearJobs(q) PROVE TypeOK'
  BY <1>12 DEF ClearJobs
<1>13. CASE UNCHANGED vars
  BY <1>13 DEF vars
<1>14. ASSUME NEW t \in Threads, ThreadStep(t) \/ IdlePoll(t) PROVE TypeOK'
  BY <1>14, <1>2, <1>3, <1>4, <1>5, <1>6, <1>7, <1>8, <1>9, <1>10, <1>11, <1>13
     DEF ThreadStep, IdlePoll
<1>. QED
  BY <1>1, <1>12, <1>13, <1>14 DEF Next

\* Every variable keeps its type in every behaviour.
THEOREM TypeCorrect == Spec => []TypeOK
<1>1. Init => TypeOK
  BY InitIInv DEF IInv
<1>. QED
  BY <1>1, TypeStep, PTL DEF Spec

-----------------------------------------------------------------------------
(***************************************************************************)
(* Ownership and the count                                                 *)
(***************************************************************************)

\* A step that moves no token and changes no count keeps ownership as it is.
LEMMA OwnershipFrame ==
  ASSUME OneOwner, OwnedIffCounted,
         UNCHANGED <<current, globalQueue, jobCount>>,
         \A u \in Threads, p \in Queues : FirstPush(u, p)' <=> FirstPush(u, p)
  PROVE  OneOwner' /\ OwnedIffCounted'
<1>1. \A u \in Threads, p \in Queues : Executes(u, p)' <=> Executes(u, p)
  BY DEF Executes
<1>2. \A p \in Queues : InGlobal(p)' <=> InGlobal(p)
  BY DEF InGlobal
<1>3. OneOwner'
  BY <1>1, <1>2 DEF OneOwner
<1>4. OwnedIffCounted'
  BY <1>1, <1>2 DEF OwnedIffCounted, Owned
<1>. QED
  BY <1>3, <1>4

\* A step that changes neither the pushes in progress nor the queues, counts
\* and batches keeps the count's cover.
LEMMA CountFrame ==
  ASSUME CountCovers, UNCHANGED <<jobs, jobCount, current, batch, pushing>>
  PROVE  CountCovers'
BY DEF CountCovers, Executes, Unplaced, Counted

\* The count is never negative, and is above what an executor has taken.
LEMMA CountBounds ==
  ASSUME TypeOK, CountCovers, NEW q \in Queues
  PROVE  /\ jobCount[q] \in Nat
         /\ \A t \in Threads : Executes(t, q) => jobCount[q] >= Len(batch[t])
<1>1. Cardinality(Unplaced(q)) \in Nat
  BY UnplacedFinite
<1>2. Len(jobs[q]) \in Nat /\ jobCount[q] \in Int
  BY DEF TypeOK
<1>3. \A t \in Threads : Len(batch[t]) \in Nat
  BY DEF TypeOK
<1>. QED
  BY <1>1, <1>2, <1>3 DEF CountCovers

LEMMA PushCountStep ==
  ASSUME IInv, NEW t \in Threads, NEW q \in Queues, NEW j \in Jobs,
         NEW pushOnly \in BOOLEAN, PushCount(t, q, j, pushOnly)
  PROVE  OneOwner' /\ OwnedIffCounted' /\ CountCovers' /\ PlacedIsFirst'
<1>. USE DEF IInv
<1>a. UNCHANGED <<jobs, globalQueue, current, pc, batch, next>>
  BY DEF PushCount, executeVars
<1>b. /\ jobCount' = [jobCount EXCEPT ![q] = @ + 1]
      /\ pushing[t] = NoPush
      /\ pushing' = [pushing EXCEPT ![t] =
           [stage |-> "counted", queue |-> q, job |-> j,
            first |-> jobCount[q] = 0, pushOnly |-> pushOnly]]
  BY DEF PushCount
<1>c. pushing \in [Threads -> PushCall \cup {NoPush}] /\ jobCount \in [Queues -> Int]
  BY DEF TypeOK
<1>d. jobCount[q] \in Nat
  BY CountBounds
<1>1. \A u \in Threads, p \in Queues :
        /\ Executes(u, p)' <=> Executes(u, p)
        /\ FirstPush(u, p)' <=> FirstPush(u, p) \/ (u = t /\ p = q /\ jobCount[q] = 0)
        /\ InGlobal(p)' <=> InGlobal(p)
  BY <1>a, <1>b, <1>c DEF Executes, FirstPush, InGlobal, NoPush
<1>2. jobCount[q] = 0 => ~Owned(q)
  BY DEF OwnedIffCounted
<1>3. OneOwner'
  BY <1>1, <1>2, <1>a DEF OneOwner, Owned
<1>4. OwnedIffCounted'
  <2>. SUFFICES ASSUME NEW p \in Queues PROVE Owned(p)' <=> jobCount'[p] # 0
    BY DEF OwnedIffCounted
  <2>1. CASE p = q
    <3>1. jobCount'[p] # 0
      BY <1>b, <1>c, <1>d, <2>1
    <3>2. Owned(p)'
      BY <1>1, <2>1 DEF Owned, OwnedIffCounted
    <3>. QED
      BY <3>1, <3>2
  <2>2. CASE p # q
    <3>1. jobCount'[p] = jobCount[p]
      BY <1>b, <1>c, <2>2
    <3>2. Owned(p)' <=> Owned(p)
      BY <1>1, <2>2 DEF Owned
    <3>. QED
      BY <3>1, <3>2 DEF OwnedIffCounted
  <2>. QED
    BY <2>1, <2>2
<1>5. CountCovers'
  <2>1. Unplaced(q)' = Unplaced(q) \cup {t} /\ t \notin Unplaced(q)
    BY <1>b, <1>c DEF Unplaced, Counted, NoPush
  <2>2. Cardinality(Unplaced(q))' = Cardinality(Unplaced(q)) + 1
    BY <2>1, UnplacedFinite, FS_AddElement
  <2>3. \A p \in Queues : p # q => Unplaced(p)' = Unplaced(p)
    BY <1>b, <1>c DEF Unplaced, Counted, NoPush
  <2>. SUFFICES ASSUME NEW p \in Queues
                PROVE  /\ jobCount'[p] >= Len(jobs[p]) + Cardinality(Unplaced(p))'
                       /\ \A u \in Threads : Executes(u, p) =>
                            jobCount'[p] >= Len(jobs[p]) + Cardinality(Unplaced(p))'
                                            + Len(batch[u])
    BY <1>1, <1>a DEF CountCovers
  <2>4. /\ Len(jobs[p]) \in Nat /\ jobCount[p] \in Int
        /\ \A u \in Threads : Len(batch[u]) \in Nat
    BY DEF TypeOK
  <2>5. Cardinality(Unplaced(p)) \in Nat
    BY UnplacedFinite
  <2>6. CASE p = q
    BY <1>b, <1>c, <2>2, <2>4, <2>5, <2>6 DEF CountCovers
  <2>7. CASE p # q
    BY <1>b, <1>c, <2>3, <2>4, <2>5, <2>7 DEF CountCovers
  <2>. QED
    BY <2>6, <2>7
<1>6. PlacedIsFirst'
  BY <1>b, <1>c DEF PlacedIsFirst, Placed
<1>. QED
  BY <1>3, <1>4, <1>5, <1>6

LEMMA PushItemStep ==
  ASSUME IInv, NEW t \in Threads, PushItem(t)
  PROVE  OneOwner' /\ OwnedIffCounted' /\ CountCovers' /\ PlacedIsFirst'
<1>. USE DEF IInv
<1>q. PICK q \in Queues : q = pushing[t].queue
  BY PushingType DEF PushItem
<1>a. UNCHANGED <<jobCount, globalQueue, current, pc, batch, next>>
  BY DEF PushItem, executeVars
<1>b. /\ Counted(t)
      /\ jobs' = [jobs EXCEPT ![q] = Append(@, pushing[t].job)]
      /\ pushing' = [pushing EXCEPT ![t] =
           IF pushing[t].first THEN [pushing[t] EXCEPT !.stage = "placed"]
                               ELSE NoPush]
  BY <1>q DEF PushItem
<1>c. pushing \in [Threads -> PushCall \cup {NoPush}] /\ jobs \in [Queues -> Seq(Jobs)]
  BY DEF TypeOK
<1>d. q \in Queues /\ pushing[t].job \in Jobs /\ pushing[t] \in PushCall
  BY <1>b, <1>c, PushingType
<1>e. LET r == [pushing[t] EXCEPT !.stage = "placed"]
      IN  r.queue = q /\ r.first = pushing[t].first /\ r.stage = "placed" /\ r # NoPush
  BY <1>d, <1>q DEF PushCall, NoPush
<1>1. \A u \in Threads, p \in Queues : FirstPush(u, p)' <=> FirstPush(u, p)
  <2>. SUFFICES ASSUME NEW u \in Threads, NEW p \in Queues
                PROVE  FirstPush(u, p)' <=> FirstPush(u, p)
    OBVIOUS
  <2>1. CASE u # t
    BY <1>b, <1>c, <2>1 DEF FirstPush
  <2>2. CASE u = t /\ pushing[t].first
    BY <1>b, <1>c, <1>d, <1>e, <2>2 DEF FirstPush, NoPush, PushCall
  <2>3. CASE u = t /\ ~pushing[t].first
    BY <1>b, <1>c, <2>3 DEF FirstPush
  <2>. QED
    BY <2>1, <2>2, <2>3
<1>2. OneOwner' /\ OwnedIffCounted'
  BY <1>1, <1>a, OwnershipFrame
<1>3. \A u \in Threads : u # t => pushing'[u] = pushing[u]
  BY <1>b, <1>c
<1>4. ~Counted(t)' /\ (Placed(t)' => pushing'[t].first)
  BY <1>b, <1>c, <1>e DEF Counted, Placed, NoPush
<1>5. CountCovers'
  <2>1. Unplaced(q)' = Unplaced(q) \ {t} /\ t \in Unplaced(q)
    BY <1>3, <1>4, <1>b, <1>q DEF Unplaced, Counted
  <2>2. Cardinality(Unplaced(q)') = Cardinality(Unplaced(q)) - 1
    BY <2>1, UnplacedFinite, FS_RemoveElement
  <2>3. \A p \in Queues : p # q => Unplaced(p)' = Unplaced(p)
    BY <1>3, <1>4, <1>q DEF Unplaced, Counted
  <2>4. Len(jobs'[q]) = Len(jobs[q]) + 1
    BY <1>b, <1>c, <1>d
  <2>. SUFFICES ASSUME NEW p \in Queues
                PROVE  /\ jobCount[p] >= Len(jobs'[p]) + Cardinality(Unplaced(p)')
                       /\ \A u \in Threads : Executes(u, p) =>
                            jobCount[p] >= Len(jobs'[p]) + Cardinality(Unplaced(p)')
                                            + Len(batch[u])
    BY <1>a DEF CountCovers, Executes
  <2>5. /\ Len(jobs[p]) \in Nat /\ jobCount[p] \in Int
        /\ \A u \in Threads : Len(batch[u]) \in Nat
    BY DEF TypeOK
  <2>6. Cardinality(Unplaced(p)) \in Nat
    BY UnplacedFinite
  <2>7. CASE p = q
    <3>1. /\ jobCount[p] >= Len(jobs[p]) + Cardinality(Unplaced(p))
          /\ \A u \in Threads : Executes(u, p) =>
               jobCount[p] >= Len(jobs[p]) + Cardinality(Unplaced(p)) + Len(batch[u])
      BY DEF CountCovers
    <3>2. Cardinality(Unplaced(p)') = Cardinality(Unplaced(p)) - 1
      BY <2>2, <2>7
    <3>3. Len(jobs'[p]) = Len(jobs[p]) + 1
      BY <2>4, <2>7
    <3>. QED
      BY <3>1, <3>2, <3>3, <2>5, <2>6
  <2>8. CASE p # q
    <3>1. jobs'[p] = jobs[p]
      BY <1>b, <1>c, <2>8
    <3>. QED
      BY <3>1, <2>3, <2>8 DEF CountCovers
  <2>. QED
    BY <2>7, <2>8
<1>6. PlacedIsFirst'
  BY <1>3, <1>4 DEF PlacedIsFirst, Placed
<1>. QED
  BY <1>2, <1>5, <1>6

\* The first pusher becomes the executor: it held the token already.
LEMMA PushExecuteStep ==
  ASSUME IInv, NEW t \in Threads, PushExecute(t)
  PROVE  OneOwner' /\ OwnedIffCounted' /\ CountCovers' /\ PlacedIsFirst'
<1>. USE DEF IInv
<1>. DEFINE q == pushing[t].queue
<1>a. UNCHANGED <<jobs, jobCount, globalQueue, batch>>
  BY DEF PushExecute
<1>b. /\ Placed(t) /\ current[t] = None
      /\ current' = [current EXCEPT ![t] = q]
      /\ pushing' = [pushing EXCEPT ![t] = NoPush]
  BY DEF PushExecute
<1>c. /\ pushing \in [Threads -> PushCall \cup {NoPush}]
      /\ current \in [Threads -> Queues \cup {None}]
  BY DEF TypeOK
<1>d. q \in Queues /\ pushing[t] # NoPush
  BY <1>b, PushingType
<1>e. FirstPush(t, q)
  BY <1>b, <1>d DEF FirstPush, PlacedIsFirst
<1>f. \A p \in Queues : ~Executes(t, p)
  BY <1>b, ConstantsAssumption DEF ConstantsAssumption, Executes
<1>1. \A u \in Threads, p \in Queues :
        /\ Executes(u, p)' <=> IF u = t THEN p = q ELSE Executes(u, p)
        /\ FirstPush(u, p)' <=> u # t /\ FirstPush(u, p)
        /\ InGlobal(p)' <=> InGlobal(p)
  BY <1>a, <1>b, <1>c, <1>d DEF Executes, FirstPush, InGlobal
<1>2. \A p \in Queues : FirstPush(t, p) => p = q
  BY DEF FirstPush
<1>3. OneOwner'
  BY <1>1, <1>2, <1>a, <1>d, <1>e, <1>f DEF OneOwner
<1>4. OwnedIffCounted'
  BY <1>1, <1>2, <1>a, <1>d, <1>e, <1>f DEF OwnedIffCounted, Owned
<1>5. CountCovers'
  <2>1. \A p \in Queues : Unplaced(p)' = Unplaced(p)
    BY <1>b, <1>c DEF Unplaced, Counted, Placed, NoPush
  <2>2. Len(batch[t]) = 0
    BY <1>b DEF TypeOK
  <2>3. \A p \in Queues : /\ Len(jobs[p]) \in Nat /\ jobCount[p] \in Int
                           /\ Cardinality(Unplaced(p)) \in Nat
    BY UnplacedFinite DEF TypeOK
  <2>. QED
    BY <1>1, <1>a, <2>1, <2>2, <2>3 DEF CountCovers
<1>6. PlacedIsFirst'
  BY <1>b, <1>c DEF PlacedIsFirst, Placed, NoPush
<1>. QED
  BY <1>3, <1>4, <1>5, <1>6

\* What is in a sequence after Append and Tail.
LEMMA AppendMembers ==
  ASSUME NEW S, NEW s \in Seq(S), NEW e \in S
  PROVE  LET r == Append(s, e) IN
         /\ \A x : (\E i \in DOMAIN r : r[i] = x) <=> x = e \/ (\E i \in DOMAIN s : s[i] = x)
         /\ (/\ \A i, k \in DOMAIN s : s[i] = s[k] => i = k
             /\ \A i \in DOMAIN s : s[i] # e)
            => \A i, k \in DOMAIN r : r[i] = r[k] => i = k
<1>. DEFINE r == Append(s, e)
<1>1. /\ DOMAIN s = 1..Len(s) /\ DOMAIN r = 1..(Len(s) + 1) /\ Len(s) \in Nat
      /\ \A i \in DOMAIN s : r[i] = s[i]
      /\ r[Len(s) + 1] = e
  OBVIOUS
<1>. QED
  BY <1>1

LEMMA TailMembers ==
  ASSUME NEW S, NEW s \in Seq(S), s # <<>>,
         \A i, k \in DOMAIN s : s[i] = s[k] => i = k
  PROVE  LET r == Tail(s) IN
         /\ \A x : (\E i \in DOMAIN r : r[i] = x) <=> x # Head(s) /\ (\E i \in DOMAIN s : s[i] = x)
         /\ \A i, k \in DOMAIN r : r[i] = r[k] => i = k
         /\ \E i \in DOMAIN s : s[i] = Head(s)
<1>. DEFINE r == Tail(s)
<1>1. /\ DOMAIN s = 1..Len(s) /\ DOMAIN r = 1..(Len(s) - 1)
      /\ Len(s) \in Nat /\ Len(s) > 0
      /\ \A i \in DOMAIN r : r[i] = s[i + 1]
      /\ Head(s) = s[1]
  OBVIOUS
<1>2. \A i \in DOMAIN s : i # 1 => i - 1 \in DOMAIN r /\ r[i - 1] = s[i]
  BY <1>1
<1>3. \A i \in DOMAIN r : i + 1 \in DOMAIN s /\ r[i] = s[i + 1] /\ i + 1 # 1
  BY <1>1
<1>4. 1 \in DOMAIN s
  BY <1>1
<1>5. \A x : (\E i \in DOMAIN r : r[i] = x) <=> x # Head(s) /\ (\E i \in DOMAIN s : s[i] = x)
  <2>. SUFFICES ASSUME NEW x
                PROVE  (\E i \in DOMAIN r : r[i] = x) <=>
                         x # Head(s) /\ (\E i \in DOMAIN s : s[i] = x)
    OBVIOUS
  <2>1. ASSUME NEW i \in DOMAIN r, r[i] = x
        PROVE  x # Head(s) /\ (\E k \in DOMAIN s : s[k] = x)
    BY <1>1, <1>3, <1>4, <2>1
  <2>2. ASSUME NEW i \in DOMAIN s, s[i] = x, x # Head(s)
        PROVE  \E k \in DOMAIN r : r[k] = x
    BY <1>1, <1>2, <2>2
  <2>. QED
    BY <2>1, <2>2
<1>6. ASSUME NEW i \in DOMAIN r, NEW k \in DOMAIN r, r[i] = r[k]
      PROVE  i = k
  <2>1. i + 1 = k + 1
    BY <1>3, <1>6
  <2>. QED
    BY <2>1, <1>1
<1>. QED
  BY <1>1, <1>4, <1>5, <1>6

\* The first pusher gives the token to the global queue.
LEMMA PushGlobalStep ==
  ASSUME IInv, NEW t \in Threads, PushGlobal(t)
  PROVE  OneOwner' /\ OwnedIffCounted' /\ CountCovers' /\ PlacedIsFirst'
<1>. USE DEF IInv
<1>q. PICK q \in Queues : q = pushing[t].queue
  BY PushingType DEF PushGlobal
<1>a. UNCHANGED <<jobs, jobCount, current, batch>>
  BY DEF PushGlobal, executeVars
<1>b. /\ Placed(t)
      /\ globalQueue' = Append(globalQueue, q)
      /\ pushing' = [pushing EXCEPT ![t] = NoPush]
  BY <1>q DEF PushGlobal
<1>c. /\ pushing \in [Threads -> PushCall \cup {NoPush}]
      /\ globalQueue \in Seq(Queues)
  BY DEF TypeOK
<1>d. pushing[t] # NoPush
  BY <1>b, PushingType
<1>e. FirstPush(t, q) /\ ~InGlobal(q)
  BY <1>b, <1>d, <1>q DEF FirstPush, PlacedIsFirst, OneOwner
<1>1. \A u \in Threads, p \in Queues :
        /\ Executes(u, p)' <=> Executes(u, p)
        /\ FirstPush(u, p)' <=> u # t /\ FirstPush(u, p)
  BY <1>a, <1>b, <1>c DEF Executes, FirstPush
<1>2. \A p : InGlobal(p)' <=> p = q \/ InGlobal(p)
  BY <1>b, <1>c, AppendMembers DEF InGlobal
<1>3. \A i, k \in DOMAIN globalQueue' : globalQueue'[i] = globalQueue'[k] => i = k
  BY <1>b, <1>c, <1>e, AppendMembers DEF InGlobal, OneOwner
<1>4. \A p \in Queues : FirstPush(t, p) => p = q
  BY <1>q DEF FirstPush
<1>5. OneOwner'
  BY <1>1, <1>2, <1>3, <1>e DEF OneOwner
<1>6. OwnedIffCounted'
  BY <1>1, <1>2, <1>4, <1>a, <1>e DEF OwnedIffCounted, Owned
<1>7. CountCovers'
  <2>1. \A p \in Queues : Unplaced(p)' = Unplaced(p)
    BY <1>b, <1>c DEF Unplaced, Counted, Placed, NoPush
  <2>. QED
    BY <1>1, <1>a, <2>1 DEF CountCovers
<1>8. PlacedIsFirst'
  BY <1>b, <1>c DEF PlacedIsFirst, Placed, NoPush
<1>. QED
  BY <1>5, <1>6, <1>7, <1>8

\* A worker takes the token from the global queue.
LEMMA DoGlobalQueueWorkStep ==
  ASSUME IInv, NEW t \in Threads, DoGlobalQueueWork(t)
  PROVE  OneOwner' /\ OwnedIffCounted' /\ CountCovers' /\ PlacedIsFirst'
<1>. USE DEF IInv
<1>q. PICK q \in Queues : q = Head(globalQueue)
  BY DEF DoGlobalQueueWork, TypeOK
<1>a. UNCHANGED <<jobs, jobCount, batch, pushing>>
  BY DEF DoGlobalQueueWork
<1>b. /\ pc[t] = "idle" /\ globalQueue # <<>>
      /\ globalQueue' = Tail(globalQueue)
      /\ current' = [current EXCEPT ![t] = q]
  BY <1>q DEF DoGlobalQueueWork
<1>c. /\ current \in [Threads -> Queues \cup {None}]
      /\ globalQueue \in Seq(Queues)
  BY DEF TypeOK
<1>d. current[t] = None /\ \A p \in Queues : ~Executes(t, p)
  BY <1>b, ConstantsAssumption DEF ConstantsAssumption, Executes, TypeOK
<1>1. \A u \in Threads, p \in Queues :
        /\ Executes(u, p)' <=> IF u = t THEN p = q ELSE Executes(u, p)
        /\ FirstPush(u, p)' <=> FirstPush(u, p)
  BY <1>a, <1>b, <1>c DEF Executes, FirstPush
<1>2. /\ \A p : InGlobal(p)' <=> p # q /\ InGlobal(p)
      /\ InGlobal(q)
      /\ \A i, k \in DOMAIN globalQueue' : globalQueue'[i] = globalQueue'[k] => i = k
  <2>. DEFINE r == Tail(globalQueue)
  <2>1. \A i, k \in DOMAIN globalQueue : globalQueue[i] = globalQueue[k] => i = k
    BY DEF OneOwner
  <2>2. /\ \A x : (\E i \in DOMAIN r : r[i] = x) <=>
               x # Head(globalQueue) /\ (\E i \in DOMAIN globalQueue : globalQueue[i] = x)
        /\ \A i, k \in DOMAIN r : r[i] = r[k] => i = k
        /\ \E i \in DOMAIN globalQueue : globalQueue[i] = Head(globalQueue)
    BY <1>b, <1>c, <2>1, TailMembers
  <2>. QED
    BY <1>b, <1>q, <2>2 DEF InGlobal
<1>3. OneOwner'
  BY <1>1, <1>2, <1>d DEF OneOwner
<1>4. OwnedIffCounted'
  BY <1>1, <1>2, <1>a, <1>d DEF OwnedIffCounted, Owned
<1>5. CountCovers'
  <2>1. \A p \in Queues : Unplaced(p)' = Unplaced(p)
    BY <1>a DEF Unplaced, Counted
  <2>2. Len(batch[t]) = 0
    BY <1>b DEF TypeOK
  <2>3. \A p \in Queues : /\ Len(jobs[p]) \in Nat /\ jobCount[p] \in Int
                           /\ Cardinality(Unplaced(p)) \in Nat
    BY UnplacedFinite DEF TypeOK
  <2>. QED
    BY <1>1, <1>a, <2>1, <2>2, <2>3 DEF CountCovers
<1>6. PlacedIsFirst'
  BY <1>a DEF PlacedIsFirst, Placed
<1>. QED
  BY <1>3, <1>4, <1>5, <1>6

\* The executor takes the jobs: they stay covered, as its batch.
LEMMA ExecutePopAllStep ==
  ASSUME IInv, NEW t \in Threads, ExecutePopAll(t)
  PROVE  OneOwner' /\ OwnedIffCounted' /\ CountCovers' /\ PlacedIsFirst'
<1>. USE DEF IInv
<1>q. PICK q \in Queues : q = current[t]
  BY DEF ExecutePopAll, TypeOK
<1>a. UNCHANGED <<jobCount, globalQueue, current, pushing>>
  BY DEF ExecutePopAll
<1>b. /\ pc[t] = "popall"
      /\ batch' = [batch EXCEPT ![t] = jobs[q]]
      /\ jobs' = [jobs EXCEPT ![q] = <<>>]
  BY <1>q DEF ExecutePopAll
<1>1. OneOwner' /\ OwnedIffCounted'
  BY <1>a, OwnershipFrame DEF FirstPush
<1>2. CountCovers'
  <2>. SUFFICES ASSUME NEW p \in Queues
                PROVE  /\ jobCount[p] >= Len(jobs'[p]) + Cardinality(Unplaced(p))
                       /\ \A u \in Threads : Executes(u, p) =>
                            jobCount[p] >= Len(jobs'[p]) + Cardinality(Unplaced(p))
                                           + Len(batch'[u])
    BY <1>a DEF CountCovers, Executes, Unplaced, Counted
  <2>1. /\ Len(jobs[p]) \in Nat /\ jobCount[p] \in Int
        /\ \A u \in Threads : Len(batch[u]) \in Nat
    BY DEF TypeOK
  <2>2. Cardinality(Unplaced(p)) \in Nat
    BY UnplacedFinite
  <2>3. CASE p = q
    <3>1. Len(jobs'[p]) = 0 /\ Len(batch'[t]) = Len(jobs[p])
      BY <1>b, <2>3 DEF TypeOK
    <3>2. \A u \in Threads : Executes(u, p) => u = t
      BY <1>q, <2>3 DEF OneOwner, Executes
    <3>. QED
      BY <2>1, <2>2, <3>1, <3>2 DEF CountCovers
  <2>4. CASE p # q
    <3>1. jobs'[p] = jobs[p]
      BY <1>b, <2>4 DEF TypeOK
    <3>2. \A u \in Threads : Executes(u, p) => batch'[u] = batch[u]
      BY <1>b, <1>q, <2>4 DEF Executes, TypeOK
    <3>. QED
      BY <3>1, <3>2 DEF CountCovers
  <2>. QED
    BY <2>3, <2>4
<1>3. PlacedIsFirst'
  BY <1>a DEF PlacedIsFirst, Placed
<1>. QED
  BY <1>1, <1>2, <1>3

\* The executor subtracts its batch; at 0 it gives the token up.
LEMMA ExecuteSubStep ==
  ASSUME IInv, NEW t \in Threads, ExecuteSub(t)
  PROVE  OneOwner' /\ OwnedIffCounted' /\ CountCovers' /\ PlacedIsFirst'
<1>. USE DEF IInv
<1>q. PICK q \in Queues : q = current[t]
  BY DEF ExecuteSub, TypeOK
<1>a. UNCHANGED <<jobs, globalQueue, pushing>>
  BY DEF ExecuteSub
<1>b. /\ jobCount' = [jobCount EXCEPT ![q] = @ - Len(batch[t])]
      /\ batch' = [batch EXCEPT ![t] = <<>>]
      /\ current' = IF jobCount[q] = Len(batch[t])
                      THEN [current EXCEPT ![t] = None] ELSE current
  <2>1. CASE jobCount[q] = Len(batch[t])
    BY <1>q, <2>1 DEF ExecuteSub
  <2>2. CASE jobCount[q] # Len(batch[t])
    BY <1>q, <2>2 DEF ExecuteSub
  <2>. QED
    BY <2>1, <2>2
<1>c. /\ jobCount \in [Queues -> Int] /\ batch \in [Threads -> Seq(Jobs)]
      /\ current \in [Threads -> Queues \cup {None}]
      /\ \A u \in Threads : Len(batch[u]) \in Nat
  BY DEF TypeOK
<1>d. Executes(t, q) /\ \A u \in Threads : Executes(u, q) => u = t
  BY <1>q DEF Executes, OneOwner
<1>e. /\ jobCount'[q] = jobCount[q] - Len(batch[t])
      /\ \A p \in Queues : p # q => jobCount'[p] = jobCount[p]
  BY <1>b, <1>c
<1>1. \A u \in Threads, p \in Queues :
        /\ Executes(u, p)' <=>
             Executes(u, p) /\ ~(u = t /\ jobCount[q] = Len(batch[t]))
        /\ FirstPush(u, p)' <=> FirstPush(u, p)
        /\ InGlobal(p)' <=> InGlobal(p)
  BY <1>a, <1>b, <1>c, ConstantsAssumption
     DEF ConstantsAssumption, Executes, FirstPush, InGlobal
<1>2. OneOwner'
  BY <1>1, <1>a DEF OneOwner
<1>3. OwnedIffCounted'
  <2>. SUFFICES ASSUME NEW p \in Queues PROVE Owned(p)' <=> jobCount'[p] # 0
    BY DEF OwnedIffCounted
  <2>1. CASE p # q
    <3>1. Owned(p)' <=> Owned(p)
      BY <1>1, <1>q, <2>1 DEF Owned, Executes
    <3>. QED
      BY <3>1, <1>e, <2>1 DEF OwnedIffCounted
  <2>2. CASE p = q /\ jobCount[q] = Len(batch[t])
    <3>1. jobCount'[q] = 0
      BY <1>c, <1>e, <2>2
    <3>2. ~Owned(q)'
      BY <1>1, <1>d, <2>2 DEF Owned, OneOwner
    <3>. QED
      BY <3>1, <3>2, <2>2
  <2>3. CASE p = q /\ jobCount[q] # Len(batch[t])
    <3>1. jobCount'[q] # 0
      BY <1>c, <1>e, <2>3
    <3>2. Owned(q)'
      BY <1>1, <1>d, <2>3 DEF Owned
    <3>. QED
      BY <3>1, <3>2, <2>3
  <2>. QED
    BY <2>1, <2>2, <2>3
<1>4. CountCovers'
  <2>. SUFFICES ASSUME NEW p \in Queues
                PROVE  /\ jobCount'[p] >= Len(jobs[p]) + Cardinality(Unplaced(p))
                       /\ \A u \in Threads : Executes(u, p) =>
                            jobCount'[p] >= Len(jobs[p]) + Cardinality(Unplaced(p))
                                            + Len(batch'[u])
    BY <1>1, <1>a DEF CountCovers, Unplaced, Counted
  <2>1. /\ Len(jobs[p]) \in Nat /\ jobCount[p] \in Int
        /\ Cardinality(Unplaced(p)) \in Nat
    BY UnplacedFinite DEF TypeOK
  <2>2. CASE p = q
    <3>1. jobCount[p] >= Len(jobs[p]) + Cardinality(Unplaced(p)) + Len(batch[t])
      BY <1>d, <2>2 DEF CountCovers
    <3>2. Len(batch'[t]) = 0
      BY <1>b, <1>c
    <3>. QED
      BY <1>c, <1>d, <1>e, <2>1, <2>2, <3>1, <3>2
  <2>3. CASE p # q
    <3>1. \A u \in Threads : Executes(u, p) => batch'[u] = batch[u]
      BY <1>b, <1>c, <1>q, <2>3 DEF Executes
    <3>. QED
      BY <1>e, <2>3, <3>1 DEF CountCovers
  <2>. QED
    BY <2>2, <2>3
<1>5. PlacedIsFirst'
  BY <1>a DEF PlacedIsFirst, Placed
<1>. QED
  BY <1>2, <1>3, <1>4, <1>5

\* The executor gives the token to the global queue.
LEMMA ExecuteHandOverStep ==
  ASSUME IInv, NEW t \in Threads, ExecuteHandOver(t)
  PROVE  OneOwner' /\ OwnedIffCounted' /\ CountCovers' /\ PlacedIsFirst'
<1>. USE DEF IInv
<1>q. PICK q \in Queues : q = current[t]
  BY DEF ExecuteHandOver, TypeOK
<1>a. UNCHANGED <<jobs, jobCount, batch, pushing>>
  BY DEF ExecuteHandOver
<1>b. /\ globalQueue' = Append(globalQueue, q)
      /\ current' = [current EXCEPT ![t] = None]
  BY <1>q DEF ExecuteHandOver
<1>c. /\ current \in [Threads -> Queues \cup {None}]
      /\ globalQueue \in Seq(Queues)
  BY DEF TypeOK
<1>d. Executes(t, q) /\ ~InGlobal(q)
  BY <1>q DEF Executes, OneOwner
<1>1. \A u \in Threads, p \in Queues :
        /\ Executes(u, p)' <=> u # t /\ Executes(u, p)
        /\ FirstPush(u, p)' <=> FirstPush(u, p)
  BY <1>a, <1>b, <1>c, ConstantsAssumption
     DEF ConstantsAssumption, Executes, FirstPush
<1>2. /\ \A p : InGlobal(p)' <=> p = q \/ InGlobal(p)
      /\ \A i, k \in DOMAIN globalQueue' : globalQueue'[i] = globalQueue'[k] => i = k
  BY <1>b, <1>c, <1>d, AppendMembers DEF InGlobal, OneOwner
<1>3. \A p \in Queues : Executes(t, p) => p = q
  BY <1>q DEF Executes
<1>4. OneOwner'
  BY <1>1, <1>2, <1>d DEF OneOwner
<1>5. OwnedIffCounted'
  BY <1>1, <1>2, <1>3, <1>a, <1>d DEF OwnedIffCounted, Owned
<1>6. CountCovers'
  BY <1>1, <1>a DEF CountCovers, Unplaced, Counted
<1>7. PlacedIsFirst'
  BY <1>a DEF PlacedIsFirst, Placed
<1>. QED
  BY <1>4, <1>5, <1>6, <1>7

\* ClearJobs only makes _jobs shorter than the count.
LEMMA ClearJobsStep ==
  ASSUME IInv, NEW q \in Queues, ClearJobs(q)
  PROVE  OneOwner' /\ OwnedIffCounted' /\ CountCovers' /\ PlacedIsFirst'
<1>. USE DEF IInv
<1>a. UNCHANGED <<jobCount, globalQueue, current, pc, batch, next, pushing>>
  BY DEF ClearJobs, executeVars
<1>1. OneOwner' /\ OwnedIffCounted'
  BY <1>a, OwnershipFrame DEF FirstPush
<1>2. CountCovers'
  <2>. SUFFICES ASSUME NEW p \in Queues
                PROVE  /\ jobCount[p] >= Len(jobs'[p]) + Cardinality(Unplaced(p))
                       /\ \A u \in Threads : Executes(u, p) =>
                            jobCount[p] >= Len(jobs'[p]) + Cardinality(Unplaced(p))
                                           + Len(batch[u])
    BY <1>a DEF CountCovers, Executes, Unplaced, Counted
  <2>1. /\ Len(jobs[p]) \in Nat /\ jobCount[p] \in Int
        /\ Cardinality(Unplaced(p)) \in Nat
        /\ \A u \in Threads : Len(batch[u]) \in Nat
    BY UnplacedFinite DEF TypeOK
  <2>2. Len(jobs'[p]) = 0 \/ Len(jobs'[p]) = Len(jobs[p])
    BY DEF ClearJobs, TypeOK
  <2>. QED
    BY <2>1, <2>2, SMTT(30) DEF CountCovers
<1>3. PlacedIsFirst'
  BY <1>a DEF PlacedIsFirst, Placed
<1>. QED
  BY <1>1, <1>2, <1>3

\* A step that touches only pc and next moves nothing.
LEMMA LocalStep ==
  ASSUME IInv, UNCHANGED <<jobs, jobCount, globalQueue, current, batch, pushing>>
  PROVE  OneOwner' /\ OwnedIffCounted' /\ CountCovers' /\ PlacedIsFirst'
<1>. USE DEF IInv
<1>1. OneOwner' /\ OwnedIffCounted'
  BY OwnershipFrame DEF FirstPush
<1>2. CountCovers'
  BY CountFrame
<1>3. PlacedIsFirst'
  BY DEF PlacedIsFirst, Placed
<1>. QED
  BY <1>1, <1>2, <1>3

-----------------------------------------------------------------------------
(***************************************************************************)
(* The theorems                                                            *)
(***************************************************************************)

LEMMA IInvStep == IInv /\ [Next]_vars => IInv'
<1>. SUFFICES ASSUME IInv, [Next]_vars PROVE IInv'
  OBVIOUS
<1>0. TypeOK'
  BY TypeStep DEF IInv
<1>. DEFINE Rest == OneOwner' /\ OwnedIffCounted' /\ CountCovers' /\ PlacedIsFirst'
<1>. SUFFICES Rest
  BY <1>0 DEF IInv
<1>. HIDE DEF Rest
<1>1. ASSUME NEW t \in Threads, NEW q \in Queues, NEW j \in Jobs,
             NEW pushOnly \in BOOLEAN, PushCount(t, q, j, pushOnly)
      PROVE  Rest
  BY <1>1, PushCountStep DEF Rest
<1>2. ASSUME NEW t \in Threads, ThreadStep(t) PROVE Rest
  <2>1. CASE PushItem(t)
    BY <2>1, PushItemStep DEF Rest
  <2>2. CASE PushExecute(t)
    BY <2>2, PushExecuteStep DEF Rest
  <2>3. CASE PushGlobal(t)
    BY <2>3, PushGlobalStep DEF Rest
  <2>4. CASE DoGlobalQueueWork(t)
    BY <2>4, DoGlobalQueueWorkStep DEF Rest
  <2>5. CASE ExecutePopAll(t)
    BY <2>5, ExecutePopAllStep DEF Rest
  <2>6. CASE JobStart(t) \/ JobReturn(t) \/ ExecuteAgain(t)
    BY <2>6, LocalStep DEF Rest, JobStart, JobReturn, ExecuteAgain
  <2>7. CASE ExecuteSub(t)
    BY <2>7, ExecuteSubStep DEF Rest
  <2>8. CASE ExecuteHandOver(t)
    BY <2>8, ExecuteHandOverStep DEF Rest
  <2>. QED
    BY <1>2, <2>1, <2>2, <2>3, <2>4, <2>5, <2>6, <2>7, <2>8 DEF ThreadStep
<1>3. ASSUME NEW q \in Queues, ClearJobs(q) PROVE Rest
  BY <1>3, ClearJobsStep DEF Rest
<1>4. CASE UNCHANGED vars
  BY <1>4, LocalStep DEF Rest, vars
<1>. QED
  BY <1>1, <1>2, <1>3, <1>4 DEF Next, IdlePoll

LEMMA Invariant == Spec => []IInv
BY InitIInv, IInvStep, PTL DEF Spec

\* A queue is never in two threads' hands.
THEOREM ExclusiveExecution == Spec => []OneOwner
<1>1. IInv => OneOwner
  BY DEF IInv
<1>. QED
  BY <1>1, Invariant, PTL

\* No wakeup is lost and no execution is started twice.
THEOREM NoLostWakeup == Spec => []OwnedIffCounted
<1>1. IInv => OwnedIffCounted
  BY DEF IInv
<1>. QED
  BY <1>1, Invariant, PTL

\* The count covers every job not yet run, wherever it is.
THEOREM CountIsEnough == Spec => []CountCovers
<1>1. IInv => CountCovers
  BY DEF IInv
<1>. QED
  BY <1>1, Invariant, PTL

\* A thread in Execute stays with its queue until it leaves it.
THEOREM ExecuteNeverNests == Spec => NoNestedExecute
<1>1. TypeOK /\ [Next]_vars =>
        [\A t \in Threads : current[t] # None => current'[t] \in {current[t], None}]_vars
  <2>. SUFFICES ASSUME TypeOK, Next, NEW t \in Threads, current[t] # None
                PROVE  current'[t] \in {current[t], None}
    OBVIOUS
  <2>1. ASSUME NEW u \in Threads, ThreadStep(u)
        PROVE  current'[t] \in {current[t], None}
    <3>1. CASE PushExecute(u) \/ DoGlobalQueueWork(u)
      BY <3>1 DEF PushExecute, DoGlobalQueueWork, TypeOK
    <3>2. CASE ExecuteSub(u)
      <4>1. current' = current \/ current' = [current EXCEPT ![u] = None]
        BY <3>2 DEF ExecuteSub
      <4>. QED
        BY <4>1 DEF TypeOK
    <3>3. CASE ExecuteHandOver(u)
      BY <3>3 DEF ExecuteHandOver, TypeOK
    <3>4. CASE \/ PushItem(u) \/ PushGlobal(u) \/ ExecutePopAll(u)
               \/ JobStart(u) \/ JobReturn(u) \/ ExecuteAgain(u)
      BY <3>4 DEF PushItem, PushGlobal, ExecutePopAll, JobStart, JobReturn,
                  ExecuteAgain, executeVars
    <3>. QED
      BY <2>1, <3>1, <3>2, <3>3, <3>4 DEF ThreadStep
  <2>. QED
    BY <2>1 DEF Next, IdlePoll, PushCount, ClearJobs, executeVars, vars
<1>. QED
  BY <1>1, TypeCorrect, PTL DEF Spec, NoNestedExecute

-----------------------------------------------------------------------------
(***************************************************************************)
(* JobQueue implements SerialExecutor                                      *)
(*                                                                         *)
(* With one executor at most, what is pending in a queue is what is left   *)
(* of the executor's batch, and then _jobs; what runs is the job at the    *)
(* executor's index.                                                       *)
(***************************************************************************)

\* The jobs whose push has been counted and has not reached _jobs.
CountedJobs == {pushing[t].job : t \in {u \in Threads : Counted(u)}}

Submitted == made \ CountedJobs

\* Each is made, and is in one push only.
MadeOnce ==
  /\ \A t \in Threads : Counted(t) => pushing[t].job \in made
  /\ \A t, u \in Threads :
       Counted(t) /\ Counted(u) /\ pushing[t].job = pushing[u].job => t = u

\* Three parts, joined in either order.
LEMMA ThreeParts ==
  ASSUME NEW S, NEW a \in Seq(S), NEW b \in Seq(S), NEW c \in Seq(S)
  PROVE  (a \o b) \o c = a \o (b \o c)
<1>. DEFINE ab == a \o b
            bc == b \o c
            left == ab \o c
            right == a \o bc
<1>1. Len(a) \in Nat /\ Len(b) \in Nat /\ Len(c) \in Nat
  BY LenProperties
<1>2. /\ ab \in Seq(S) /\ Len(ab) = Len(a) + Len(b)
      /\ \A i \in 1..(Len(a) + Len(b)) : ab[i] = IF i <= Len(a) THEN a[i] ELSE b[i - Len(a)]
  BY ConcatProperties
<1>3. /\ bc \in Seq(S) /\ Len(bc) = Len(b) + Len(c)
      /\ \A i \in 1..(Len(b) + Len(c)) : bc[i] = IF i <= Len(b) THEN b[i] ELSE c[i - Len(b)]
  BY ConcatProperties
<1>. HIDE DEF ab, bc
<1>4. /\ left \in Seq(S) /\ Len(left) = Len(ab) + Len(c)
      /\ \A i \in 1..(Len(ab) + Len(c)) : left[i] = IF i <= Len(ab) THEN ab[i] ELSE c[i - Len(ab)]
  <2>1. ab \in Seq(S)
    BY <1>2
  <2>. HIDE DEF left
  <2>2. left = ab \o c
    BY DEF left
  <2>. QED
    BY <2>1, <2>2, ConcatProperties
<1>5. /\ right \in Seq(S) /\ Len(right) = Len(a) + Len(bc)
      /\ \A i \in 1..(Len(a) + Len(bc)) : right[i] = IF i <= Len(a) THEN a[i] ELSE bc[i - Len(a)]
  <2>1. bc \in Seq(S)
    BY <1>3
  <2>. HIDE DEF right
  <2>2. right = a \o bc
    BY DEF right
  <2>. QED
    BY <2>1, <2>2, ConcatProperties
<1>. HIDE DEF left, right
<1>. DEFINE na == Len(a)
            nb == Len(b)
            nc == Len(c)
<1>6. /\ na \in Nat /\ nb \in Nat /\ nc \in Nat
      /\ Len(left) = na + nb + nc /\ Len(right) = na + nb + nc
      /\ \A i \in 1..(na + nb) : ab[i] = IF i <= na THEN a[i] ELSE b[i - na]
      /\ \A i \in 1..(nb + nc) : bc[i] = IF i <= nb THEN b[i] ELSE c[i - nb]
      /\ \A i \in 1..(na + nb + nc) : left[i] = IF i <= na + nb THEN ab[i] ELSE c[i - (na + nb)]
      /\ \A i \in 1..(na + nb + nc) : right[i] = IF i <= na THEN a[i] ELSE bc[i - na]
  <2>1. na + (nb + nc) = na + nb + nc
    BY <1>1
  <2>2. Len(ab) = na + nb /\ Len(bc) = nb + nc
    BY <1>2, <1>3
  <2>. QED
    BY <1>1, <1>2, <1>3, <1>4, <1>5, <2>1, <2>2, Zenon
<1>. HIDE DEF na, nb, nc
<1>7. ASSUME NEW i \in 1..(na + nb + nc) PROVE left[i] = right[i]
  <2>2. CASE i <= na
    <3>1. i \in 1..(na + nb) /\ i <= na + nb
      BY <1>6, <2>2
    <3>. QED
      BY <1>6, <2>2, <3>1
  <2>3. CASE na < i /\ i <= na + nb
    <3>1. /\ i \in 1..(na + nb) /\ ~(i <= na)
          /\ i - na \in 1..(nb + nc) /\ i - na <= nb
      BY <1>6, <2>3
    <3>. QED
      BY <1>6, <2>3, <3>1
  <2>4. CASE na + nb < i
    <3>1. /\ ~(i <= na + nb) /\ ~(i <= na) /\ ~(i - na <= nb)
          /\ i - na \in 1..(nb + nc) /\ (i - na) - nb = i - (na + nb)
      BY <1>6, <2>4
    <3>. QED
      BY <1>6, <3>1
  <2>. QED
    BY <1>6, <2>2, <2>3, <2>4
<1>8. left = right
  BY <1>4, <1>5, <1>6, <1>7, SeqEqual
<1>. QED
  BY <1>8 DEF left, right, ab, bc

\* One in front of the rest.
LEMMA HeadTailCons ==
  ASSUME NEW S, NEW e \in S, NEW s \in Seq(S)
  PROVE  /\ <<e>> \o s # <<>> /\ Head(<<e>> \o s) = e /\ Tail(<<e>> \o s) = s
<1>. DEFINE c == <<e>> \o s
<1>1. /\ c \in Seq(S) /\ Len(c) = 1 + Len(s) /\ Len(s) \in Nat
      /\ \A i \in 1..(1 + Len(s)) : c[i] = IF i <= 1 THEN e ELSE s[i - 1]
  <2>1. <<e>> \in Seq(S) /\ Len(<<e>>) = 1 /\ <<e>>[1] = e
    OBVIOUS
  <2>2. /\ c \in Seq(S) /\ Len(c) = Len(<<e>>) + Len(s)
        /\ \A i \in 1..(Len(<<e>>) + Len(s)) :
             c[i] = IF i <= Len(<<e>>) THEN <<e>>[i] ELSE s[i - Len(<<e>>)]
    BY <2>1, ConcatProperties
  <2>3. \A i \in 1..(1 + Len(s)) : i <= 1 => i = 1
    BY LenProperties
  <2>. QED
    BY <2>1, <2>2, <2>3, LenProperties
<1>. HIDE DEF c
<1>2. c # <<>> /\ c[1] = e
  BY <1>1, EmptySeq
<1>3. Head(c) = e
  BY <1>1, <1>2
<1>4. /\ Tail(c) \in Seq(S) /\ Len(Tail(c)) = Len(c) - 1
      /\ \A i \in 1..Len(Tail(c)) : Tail(c)[i] = c[i + 1]
  BY <1>1, <1>2, HeadTailProperties
<1>5. Len(Tail(c)) = Len(s)
  BY <1>1, <1>4
<1>6. \A i \in 1..Len(s) : i + 1 \in 1..(1 + Len(s)) /\ ~(i + 1 <= 1) /\ (i + 1) - 1 = i
  BY <1>1
<1>7. \A i \in 1..Len(Tail(c)) : Tail(c)[i] = s[i]
  BY <1>1, <1>4, <1>5, <1>6
<1>8. Tail(c) = s
  BY <1>4, <1>5, <1>7, SeqEqual
<1>. QED
  BY <1>2, <1>3, <1>8 DEF c

\* The first of two parts is a beginning of the whole.
LEMMA Beginning ==
  ASSUME NEW S, NEW a \in Seq(S), NEW b \in Seq(S)
  PROVE  \E n \in 0..Len(a \o b) : a \o <<>> = SubSeq(a \o b, 1, n)
<1>1. /\ Len(a) \in Nat /\ Len(b) \in Nat /\ Len(a \o b) = Len(a) + Len(b)
      /\ a \o <<>> = a
  BY ConcatProperties, ConcatEmptySeq, LenProperties
<1>2. Len(a) \in 0..Len(a \o b)
  BY <1>1
<1>3. a = SubSeq(a \o b, 1, Len(a))
  <2>1. CASE Len(a) = 0
    <3>1. a = <<>> /\ 0 < 1 /\ 0 \in Int /\ 1 \in Int
      BY <2>1, EmptySeq
    <3>. QED
      BY <2>1, <3>1, SubSeqEmpty
  <2>2. CASE Len(a) # 0
    <3>1. 1 \in 1..Len(a) /\ Len(a) \in 1..Len(a)
      BY <1>1, <2>2
    <3>. QED
      BY <3>1, SubSeqOfConcat1, SubSeqFull
  <2>. QED
    BY <2>1, <2>2
<1>. QED
  BY <1>1, <1>2, <1>3

\* Pending and Running, for a queue with an executor and for one without.
Views ==
  OneOwner =>
    \A q \in Queues :
      /\ \A t \in Threads : Executes(t, q) =>
           /\ Pending(q) = Remaining(t) \o jobs[q]
           /\ Running(q) = IF pc[t] = "run" THEN batch[t][next[t]] ELSE None
      /\ (\A t \in Threads : ~Executes(t, q)) => Pending(q) = jobs[q] /\ Running(q) = None

LEMMA ViewsHold == Views
<1>. SUFFICES ASSUME OneOwner, NEW q \in Queues
              PROVE  /\ \A t \in Threads : Executes(t, q) =>
                          /\ Pending(q) = Remaining(t) \o jobs[q]
                          /\ Running(q) = IF pc[t] = "run" THEN batch[t][next[t]] ELSE None
                     /\ (\A t \in Threads : ~Executes(t, q)) =>
                          Pending(q) = jobs[q] /\ Running(q) = None
  BY DEF Views
<1>1. ASSUME NEW t \in Threads, Executes(t, q)
      PROVE  /\ Pending(q) = Remaining(t) \o jobs[q]
             /\ Running(q) = IF pc[t] = "run" THEN batch[t][next[t]] ELSE None
  <2>1. \A u \in Threads : Executes(u, q) => u = t
    BY <1>1 DEF OneOwner
  <2>2. (CHOOSE u \in Threads : Executes(u, q)) = t
    BY <1>1, <2>1
  <2>3. Pending(q) = Remaining(t) \o jobs[q]
    BY <1>1, <2>2 DEF Pending
  <2>4. CASE pc[t] = "run"
    BY <1>1, <2>2, <2>3, <2>4 DEF Running
  <2>5. CASE pc[t] # "run"
    <3>1. ~ \E u \in Threads : Executes(u, q) /\ pc[u] = "run"
      BY <2>1, <2>5
    <3>. QED
      BY <2>3, <2>5, <3>1 DEF Running
  <2>. QED
    BY <2>4, <2>5
<1>2. ASSUME \A t \in Threads : ~Executes(t, q)
      PROVE  Pending(q) = jobs[q] /\ Running(q) = None
  BY <1>2 DEF Pending, Running
<1>. QED
  BY <1>1, <1>2

LEMMA RemainingType ==
  ASSUME TypeOK, NEW t \in Threads
  PROVE  /\ Remaining(t) \in Seq(Jobs)
         /\ batch[t] \in Seq(Jobs) /\ Len(batch[t]) \in Nat /\ next[t] \in Nat \ {0}
         /\ \A i \in 1..Len(batch[t]) : batch[t][i] \in Jobs
<1>1. batch[t] \in Seq(Jobs) /\ next[t] \in Nat \ {0}
  BY DEF TypeOK
<1>2. Len(batch[t]) \in Nat /\ \A i \in 1..Len(batch[t]) : batch[t][i] \in Jobs
  BY <1>1, ElementOfSeq, LenProperties
<1>3. \A m \in Nat \ {0} : SubSeq(batch[t], m, Len(batch[t])) \in Seq(Jobs)
  <2>. SUFFICES ASSUME NEW m \in Nat \ {0} PROVE SubSeq(batch[t], m, Len(batch[t])) \in Seq(Jobs)
    OBVIOUS
  <2>1. m \in Int /\ Len(batch[t]) \in Int /\ \A i \in m..Len(batch[t]) : batch[t][i] \in Jobs
    BY <1>2
  <2>. QED
    BY <2>1, SubSeqProperties
<1>4. Remaining(t) = SubSeq(batch[t], next[t], Len(batch[t]))
        \/ Remaining(t) = SubSeq(batch[t], next[t] + 1, Len(batch[t]))
  BY DEF Remaining
<1>5. next[t] + 1 \in Nat \ {0}
  BY <1>1
<1>. QED
  BY <1>1, <1>2, <1>3, <1>4, <1>5

\* A step of t leaves the queues alone that t is not in before or after.
LEMMA OtherViews ==
  ASSUME OneOwner, OneOwner', NEW t \in Threads, NEW r \in Queues,
         jobs'[r] = jobs[r], ~Executes(t, r), ~Executes(t, r)',
         \A u \in Threads \ {t} : /\ current'[u] = current[u] /\ pc'[u] = pc[u]
                                  /\ batch'[u] = batch[u] /\ next'[u] = next[u]
  PROVE  Pending(r)' = Pending(r) /\ Running(r)' = Running(r)
<1>1. Views /\ Views'
  BY ViewsHold, PTL
<1>2. CASE \E u \in Threads : Executes(u, r)
  <2>1. PICK u \in Threads : Executes(u, r)
    BY <1>2
  <2>2. /\ u # t /\ Executes(u, r)' /\ Remaining(u)' = Remaining(u)
        /\ pc'[u] = pc[u] /\ batch'[u] = batch[u] /\ next'[u] = next[u]
    BY <2>1 DEF Executes, Remaining
  <2>3. /\ Pending(r) = Remaining(u) \o jobs[r]
        /\ Running(r) = IF pc[u] = "run" THEN batch[u][next[u]] ELSE None
    BY <1>1, <2>1 DEF Views
  <2>4. /\ Pending(r)' = Remaining(u)' \o jobs'[r]
        /\ Running(r)' = IF pc'[u] = "run" THEN batch'[u][next'[u]] ELSE None
    BY <1>1, <2>2 DEF Views
  <2>. QED
    BY <2>2, <2>3, <2>4
<1>3. CASE \A u \in Threads : ~Executes(u, r)
  <2>1. \A u \in Threads : ~Executes(u, r)'
    BY <1>3 DEF Executes
  <2>. QED
    BY <1>1, <1>3, <2>1 DEF Views
<1>. QED
  BY <1>2, <1>3

\* A step that leaves Execute alone changes what is in _jobs at most.
LEMMA JobsView ==
  ASSUME OneOwner, OneOwner', UNCHANGED executeVars, NEW r \in Queues
  PROVE  /\ Running(r)' = Running(r)
         /\ jobs'[r] = jobs[r] => Pending(r)' = Pending(r)
         /\ \A t \in Threads : Executes(t, r) => /\ Pending(r) = Remaining(t) \o jobs[r]
                                                 /\ Pending(r)' = Remaining(t) \o jobs'[r]
         /\ (\A t \in Threads : ~Executes(t, r)) => /\ Pending(r) = jobs[r]
                                                    /\ Pending(r)' = jobs'[r]
<1>1. Views /\ Views'
  BY ViewsHold, PTL
<1>2. \A t \in Threads : /\ Executes(t, r)' <=> Executes(t, r)
                         /\ Remaining(t)' = Remaining(t)
                         /\ pc'[t] = pc[t] /\ batch'[t] = batch[t] /\ next'[t] = next[t]
  BY DEF Executes, Remaining, executeVars
<1>3. ASSUME NEW t \in Threads, Executes(t, r)
      PROVE  /\ Pending(r) = Remaining(t) \o jobs[r] /\ Pending(r)' = Remaining(t) \o jobs'[r]
             /\ Running(r)' = Running(r)
  <2>1. /\ Pending(r) = Remaining(t) \o jobs[r]
        /\ Running(r) = IF pc[t] = "run" THEN batch[t][next[t]] ELSE None
    BY <1>1, <1>3 DEF Views
  <2>2. /\ Pending(r)' = Remaining(t)' \o jobs'[r]
        /\ Running(r)' = IF pc'[t] = "run" THEN batch'[t][next'[t]] ELSE None
    BY <1>1, <1>2, <1>3 DEF Views
  <2>. QED
    BY <1>2, <2>1, <2>2
<1>4. ASSUME \A t \in Threads : ~Executes(t, r)
      PROVE  /\ Pending(r) = jobs[r] /\ Pending(r)' = jobs'[r]
             /\ Running(r)' = Running(r)
  <2>1. \A t \in Threads : ~Executes(t, r)'
    BY <1>2, <1>4
  <2>. QED
    BY <1>1, <1>4, <2>1 DEF Views
<1>. QED
  BY <1>3, <1>4

\* What a step of JobQueue is for the executor of its jobs.
Promised == Serial!Next \/ UNCHANGED Serial!vars

LEMMA ToStutter ==
  ASSUME \A r \in Queues : Pending(r)' = Pending(r) /\ Running(r)' = Running(r),
         Submitted' = Submitted
  PROVE  Promised
<1>1. /\ [q \in Queues |-> Pending(q)]' = [q \in Queues |-> Pending(q)]
      /\ [q \in Queues |-> Running(q)]' = [q \in Queues |-> Running(q)]
  OBVIOUS
<1>. QED
  BY <1>1 DEF Promised, Serial!vars, Submitted, CountedJobs

LEMMA ToSubmit ==
  ASSUME NEW q \in Queues, NEW j \in Jobs, j \notin Submitted,
         Submitted' = Submitted \cup {j}, Pending(q)' = Append(Pending(q), j),
         \A r \in Queues : Running(r)' = Running(r),
         \A r \in Queues \ {q} : Pending(r)' = Pending(r)
  PROVE  Promised
<1>1. Serial!Submit(q, j)
  BY DEF Serial!Submit, Submitted, CountedJobs
<1>. QED
  BY <1>1 DEF Promised, Serial!Next

LEMMA ToStart ==
  ASSUME NEW q \in Queues, Running(q) = None, Pending(q) # <<>>,
         Running(q)' = Head(Pending(q)), Pending(q)' = Tail(Pending(q)),
         \A r \in Queues \ {q} : Pending(r)' = Pending(r) /\ Running(r)' = Running(r),
         Submitted' = Submitted
  PROVE  Promised
<1>1. Serial!Start(q)
  BY DEF Serial!Start, Submitted, CountedJobs
<1>. QED
  BY <1>1 DEF Promised, Serial!Next

LEMMA ToFinish ==
  ASSUME NEW q \in Queues, Running(q) # None, Running(q)' = None,
         \A r \in Queues \ {q} : Running(r)' = Running(r),
         \A r \in Queues : Pending(r)' = Pending(r), Submitted' = Submitted
  PROVE  Promised
<1>1. [r \in Queues |-> Pending(r)]' = [r \in Queues |-> Pending(r)]
  OBVIOUS
<1>2. [r \in Queues |-> Running(r)]' = [[r \in Queues |-> Running(r)] EXCEPT ![q] = None]
  <2>1. \A r \in Queues : Running(r)' = IF r = q THEN None ELSE Running(r)
    OBVIOUS
  <2>. DEFINE before(r) == Running(r)
              after(r) == Running(r)'
  <2>2. \A r \in Queues : after(r) = IF r = q THEN None ELSE before(r)
    BY <2>1
  <2>. HIDE DEF before, after
  <2>3. [r \in Queues |-> after(r)] = [[r \in Queues |-> before(r)] EXCEPT ![q] = None]
    BY <2>2
  <2>. QED
    BY <2>3 DEF before, after
<1>3. Serial!Finish(q)
  BY <1>1, <1>2 DEF Serial!Finish, Submitted, CountedJobs
<1>. QED
  BY <1>3 DEF Promised, Serial!Next

LEMMA ToDiscard ==
  ASSUME NEW q \in Clearable, NEW n \in 0..Len(Pending(q)),
         Pending(q)' = SubSeq(Pending(q), 1, n),
         \A r \in Queues \ {q} : Pending(r)' = Pending(r),
         \A r \in Queues : Running(r)' = Running(r), Submitted' = Submitted
  PROVE  Promised
<1>0. q \in Queues
  BY ConstantsAssumption DEF ConstantsAssumption
<1>1. Serial!Discard(q)
  BY <1>0 DEF Serial!Discard, Submitted, CountedJobs
<1>. QED
  BY <1>0, <1>1 DEF Promised, Serial!Next

-----------------------------------------------------------------------------
\* The pushes.
LEMMA InitMadeOnce == Init => MadeOnce
BY DEF Init, MadeOnce, Counted, NoPush

LEMMA MadeOnceStep == TypeOK /\ MadeOnce /\ [Next]_vars => MadeOnce'
<1>. SUFFICES ASSUME TypeOK, MadeOnce, [Next]_vars PROVE MadeOnce'
  OBVIOUS
<1>1. ASSUME NEW t \in Threads, NEW q \in Queues, NEW j \in Jobs,
             NEW pushOnly \in BOOLEAN, PushCount(t, q, j, pushOnly)
      PROVE  MadeOnce'
  <2>1. /\ pushing'[t].job = j /\ j \notin made /\ made' = made \cup {j}
        /\ \A u \in Threads \ {t} : pushing'[u] = pushing[u]
    BY <1>1 DEF PushCount, TypeOK
  <2>. QED
    BY <2>1 DEF MadeOnce, Counted
<1>2. ASSUME NEW t \in Threads, pushing'[t].stage # "counted", made' = made,
             \A u \in Threads \ {t} : pushing'[u] = pushing[u]
      PROVE  MadeOnce'
  BY <1>2 DEF MadeOnce, Counted
<1>3. ASSUME pushing' = pushing, made' = made PROVE MadeOnce'
  BY <1>3 DEF MadeOnce, Counted
<1>4. ASSUME NEW t \in Threads, ThreadStep(t) PROVE MadeOnce'
  <2>1. CASE PushItem(t)
    <3>1. /\ pushing'[t].stage # "counted" /\ made' = made
          /\ \A u \in Threads \ {t} : pushing'[u] = pushing[u]
      BY <2>1, PushingType DEF PushItem, TypeOK, NoPush, PushCall
    <3>. QED
      BY <3>1, <1>2
  <2>2. CASE PushExecute(t) \/ PushGlobal(t)
    <3>1. /\ pushing'[t].stage # "counted" /\ made' = made
          /\ \A u \in Threads \ {t} : pushing'[u] = pushing[u]
      BY <2>2 DEF PushExecute, PushGlobal, TypeOK, NoPush
    <3>. QED
      BY <3>1, <1>2
  <2>3. CASE ~(PushItem(t) \/ PushExecute(t) \/ PushGlobal(t))
    BY <1>4, <2>3, <1>3 DEF ThreadStep, DoGlobalQueueWork, ExecutePopAll, JobStart, JobReturn,
         ExecuteSub, ExecuteAgain, ExecuteHandOver
  <2>. QED
    BY <2>1, <2>2, <2>3
<1>5. ASSUME NEW q \in Queues, ClearJobs(q) PROVE MadeOnce'
  BY <1>3, <1>5 DEF ClearJobs
<1>6. CASE UNCHANGED vars
  BY <1>3, <1>6 DEF vars
<1>. QED
  BY <1>1, <1>4, <1>5, <1>6 DEF Next, IdlePoll

\* Pushes that stay counted, with their jobs.
LEMMA SubmittedSame ==
  ASSUME made' = made, \A u \in Threads : Counted(u)' <=> Counted(u),
         \A u \in Threads : Counted(u) => pushing'[u].job = pushing[u].job
  PROVE  Submitted' = Submitted
BY DEF Submitted, CountedJobs

LEMMA PushCountPromised ==
  ASSUME IInv, IInv', MadeOnce, NEW t \in Threads, NEW q \in Queues, NEW j \in Jobs,
         NEW pushOnly \in BOOLEAN, PushCount(t, q, j, pushOnly)
  PROVE  Promised
<1>1. /\ pushing'[t].job = j /\ j \notin made /\ made' = made \cup {j}
      /\ ~Counted(t) /\ Counted(t)'
      /\ \A u \in Threads \ {t} : pushing'[u] = pushing[u]
      /\ UNCHANGED <<jobs, executeVars>>
  BY DEF PushCount, IInv, TypeOK, Counted, NoPush
<1>2. CountedJobs' = CountedJobs \cup {j}
  <2>1. \A u \in Threads : Counted(u)' <=> Counted(u) \/ u = t
    BY <1>1 DEF Counted
  <2>. QED
    BY <1>1, <2>1 DEF CountedJobs
<1>3. j \notin CountedJobs
  BY <1>1 DEF CountedJobs, MadeOnce
<1>4. Submitted' = Submitted
  BY <1>1, <1>2, <1>3 DEF Submitted
<1>5. \A r \in Queues : Pending(r)' = Pending(r) /\ Running(r)' = Running(r)
  BY <1>1, JobsView DEF IInv
<1>. QED
  BY <1>4, <1>5, ToStutter

LEMMA PushItemPromised ==
  ASSUME IInv, IInv', MadeOnce, NEW t \in Threads, PushItem(t)
  PROVE  Promised
<1>0. PICK q \in Queues, j \in Jobs : q = pushing[t].queue /\ j = pushing[t].job
  BY PushingType DEF PushItem, IInv, TypeOK, Counted, NoPush
<1>1. /\ q \in Queues /\ j \in Jobs /\ Counted(t) /\ ~Counted(t)' /\ made' = made
      /\ \A u \in Threads \ {t} : pushing'[u] = pushing[u]
      /\ UNCHANGED executeVars
      /\ jobs' = [jobs EXCEPT ![q] = Append(jobs[q], j)]
      /\ jobs \in [Queues -> Seq(Jobs)]
  BY <1>0, PushingType DEF PushItem, IInv, TypeOK, Counted, NoPush, PushCall
<1>a. \A r \in Queues :
        /\ Running(r)' = Running(r)
        /\ jobs'[r] = jobs[r] => Pending(r)' = Pending(r)
        /\ \A u \in Threads : Executes(u, r) => /\ Pending(r) = Remaining(u) \o jobs[r]
                                               /\ Pending(r)' = Remaining(u) \o jobs'[r]
        /\ (\A u \in Threads : ~Executes(u, r)) => /\ Pending(r) = jobs[r]
                                                  /\ Pending(r)' = jobs'[r]
  <2>1. UNCHANGED executeVars /\ OneOwner /\ OneOwner'
    BY <1>1 DEF IInv
  <2>. QED
    BY <2>1, JobsView
<1>2. jobs'[q] = Append(jobs[q], j) /\ \A r \in Queues \ {q} : jobs'[r] = jobs[r]
  BY <1>1
<1>3. CountedJobs = CountedJobs' \cup {j} /\ j \notin CountedJobs'
  <2>1. \A u \in Threads : Counted(u) <=> Counted(u)' \/ u = t
    BY <1>1 DEF Counted
  <2>2. \A u \in Threads : Counted(u)' => u # t /\ pushing'[u].job = pushing[u].job
    BY <1>1
  <2>3. CountedJobs = CountedJobs' \cup {j}
    BY <2>1, <2>2, <1>0, <1>1 DEF CountedJobs
  <2>4. j \notin CountedJobs'
    BY <2>1, <2>2, <1>0, <1>1 DEF CountedJobs, MadeOnce
  <2>. QED
    BY <2>3, <2>4
<1>4. j \notin Submitted /\ Submitted' = Submitted \cup {j}
  <2>1. j \in made
    BY <1>0, <1>1 DEF MadeOnce
  <2>. QED
    BY <1>1, <1>3, <2>1 DEF Submitted
<1>5. Pending(q)' = Append(Pending(q), j)
  <2>1. CASE \E u \in Threads : Executes(u, q)
    <3>1. PICK u \in Threads : Executes(u, q)
      BY <2>1
    <3>2. Pending(q) = Remaining(u) \o jobs[q] /\ Pending(q)' = Remaining(u) \o jobs'[q]
      BY <1>1, <1>a, <3>1
    <3>3. Remaining(u) \in Seq(Jobs) /\ jobs[q] \in Seq(Jobs) /\ <<j>> \in Seq(Jobs)
      BY <1>1, RemainingType DEF IInv
    <3>4. Append(Remaining(u) \o jobs[q], j) = (Remaining(u) \o jobs[q]) \o <<j>>
      BY <1>1, <3>3, ConcatProperties, AppendIsConcat
    <3>5. Append(jobs[q], j) = jobs[q] \o <<j>>
      BY <1>1, <3>3, AppendIsConcat
    <3>6. Remaining(u) \o jobs'[q] = (Remaining(u) \o jobs[q]) \o <<j>>
      <4>1. (Remaining(u) \o jobs[q]) \o <<j>> = Remaining(u) \o (jobs[q] \o <<j>>)
        <5>1. \A a, d, c \in Seq(Jobs) : (a \o d) \o c = a \o (d \o c)
          BY ThreeParts
        <5>. QED
          BY <3>3, <5>1
      <4>. QED
        BY <1>2, <3>5, <4>1
    <3>. QED
      BY <3>2, <3>4, <3>6
  <2>2. CASE \A u \in Threads : ~Executes(u, q)
    BY <1>1, <1>2, <1>a, <2>2
  <2>. QED
    BY <2>1, <2>2
<1>6. /\ \A r \in Queues : Running(r)' = Running(r)
      /\ \A r \in Queues \ {q} : Pending(r)' = Pending(r)
  BY <1>1, <1>2, <1>a
<1>. QED
  BY <1>1, <1>4, <1>5, <1>6, ToSubmit

LEMMA PushGlobalPromised ==
  ASSUME IInv, IInv', NEW t \in Threads, PushGlobal(t)
  PROVE  Promised
<1>1. /\ ~Counted(t) /\ ~Counted(t)' /\ made' = made
      /\ \A u \in Threads \ {t} : pushing'[u] = pushing[u]
      /\ UNCHANGED <<jobs, executeVars>>
  BY DEF PushGlobal, IInv, TypeOK, Counted, Placed, NoPush
<1>2. Submitted' = Submitted
  BY <1>1, SubmittedSame DEF Counted
<1>. QED
  BY <1>1, <1>2, JobsView, ToStutter DEF IInv

-----------------------------------------------------------------------------
\* Execute.

\* A thread enters a queue that no thread is in, with an empty batch.
LEMMA EnterPromised ==
  ASSUME IInv, IInv', NEW t \in Threads, NEW q \in Queues,
         current[t] = None, current' = [current EXCEPT ![t] = q],
         pc' = [pc EXCEPT ![t] = "popall"],
         \A u \in Threads : ~Executes(u, q),
         UNCHANGED <<jobs, batch, next>>, Submitted' = Submitted
  PROVE  Promised
<1>0. OneOwner /\ OneOwner' /\ TypeOK /\ TypeOK' /\ None \notin Queues
  BY ConstantsAssumption DEF IInv, ConstantsAssumption
<1>1. /\ current'[t] = q /\ pc'[t] = "popall" /\ batch'[t] = <<>> /\ next'[t] \in Nat \ {0}
      /\ \A u \in Threads \ {t} : current'[u] = current[u] /\ pc'[u] = pc[u]
  BY <1>0 DEF TypeOK
<1>2. \A r \in Queues \ {q} : Pending(r)' = Pending(r) /\ Running(r)' = Running(r)
  <2>. SUFFICES ASSUME NEW r \in Queues \ {q}
                PROVE  Pending(r)' = Pending(r) /\ Running(r)' = Running(r)
    OBVIOUS
  <2>1. ~Executes(t, r) /\ ~Executes(t, r)'
    BY <1>0, <1>1 DEF Executes
  <2>2. /\ jobs'[r] = jobs[r]
        /\ \A u \in Threads \ {t} : /\ current'[u] = current[u] /\ pc'[u] = pc[u]
                                    /\ batch'[u] = batch[u] /\ next'[u] = next[u]
    BY <1>1
  <2>. QED
    BY <1>0, <2>1, <2>2, OtherViews
<1>3. Pending(q)' = Pending(q) /\ Running(q)' = Running(q)
  <2>1. Views /\ Views'
    BY ViewsHold, PTL
  <2>2. Pending(q) = jobs[q] /\ Running(q) = None
    BY <1>0, <2>1 DEF Views
  <2>3. Executes(t, q)'
    BY <1>1 DEF Executes
  <2>4. /\ Pending(q)' = Remaining(t)' \o jobs'[q]
        /\ Running(q)' = IF pc'[t] = "run" THEN batch'[t][next'[t]] ELSE None
    BY <1>0, <2>1, <2>3 DEF Views
  <2>5. Remaining(t)' = <<>>
    <3>1. Remaining(t)' = SubSeq(<<>>, next'[t], Len(<<>>))
      BY <1>1 DEF Remaining
    <3>2. next'[t] \in Int /\ 0 \in Int /\ 0 < next'[t] /\ Len(<<>>) = 0
      BY <1>1
    <3>. QED
      BY <3>1, <3>2, SubSeqEmpty
  <2>6. <<>> \o jobs[q] = jobs[q]
    BY <1>0, ConcatEmptySeq DEF TypeOK
  <2>. QED
    BY <1>1, <2>2, <2>4, <2>5, <2>6
<1>. QED
  BY <1>2, <1>3, ToStutter

LEMMA PushExecutePromised ==
  ASSUME IInv, IInv', NEW t \in Threads, PushExecute(t)
  PROVE  Promised
<1>0. PICK q \in Queues : q = pushing[t].queue
  BY PushingType DEF PushExecute, IInv, TypeOK, Placed, NoPush
<1>1. /\ current[t] = None /\ current' = [current EXCEPT ![t] = q]
      /\ pc' = [pc EXCEPT ![t] = "popall"] /\ UNCHANGED <<jobs, batch, next>>
      /\ ~Counted(t) /\ ~Counted(t)' /\ made' = made
      /\ \A u \in Threads \ {t} : pushing'[u] = pushing[u]
  BY <1>0 DEF PushExecute, IInv, TypeOK, Counted, Placed, NoPush
<1>2. Submitted' = Submitted
  BY <1>1, SubmittedSame DEF Counted
<1>3. FirstPush(t, q)
  BY <1>0, PushingType DEF PushExecute, IInv, PlacedIsFirst, FirstPush
<1>4. \A u \in Threads : ~Executes(u, q)
  BY <1>3 DEF IInv, OneOwner
<1>. QED
  BY <1>1, <1>2, <1>4, EnterPromised

LEMMA DoGlobalQueueWorkPromised ==
  ASSUME IInv, IInv', NEW t \in Threads, DoGlobalQueueWork(t)
  PROVE  Promised
<1>0. PICK q \in Queues : q = Head(globalQueue) /\ InGlobal(q)
  <2>1. globalQueue \in Seq(Queues) /\ globalQueue # <<>>
    BY DEF DoGlobalQueueWork, IInv, TypeOK
  <2>2. Head(globalQueue) \in Queues /\ 1 \in DOMAIN globalQueue
        /\ Head(globalQueue) = globalQueue[1]
    BY <2>1, HeadTailProperties, EmptySeq, LenProperties
  <2>. QED
    BY <2>2 DEF InGlobal
<1>1. /\ current[t] = None /\ current' = [current EXCEPT ![t] = q]
      /\ pc' = [pc EXCEPT ![t] = "popall"] /\ UNCHANGED <<jobs, batch, next>>
      /\ UNCHANGED <<pushing, made>>
  BY <1>0 DEF DoGlobalQueueWork, IInv, TypeOK
<1>2. Submitted' = Submitted
  BY <1>1 DEF Submitted, CountedJobs, Counted
<1>3. \A u \in Threads : ~Executes(u, q)
  BY <1>0 DEF IInv, OneOwner
<1>. QED
  BY <1>1, <1>2, <1>3, EnterPromised

\* The executor of a queue is all that its view depends on.
LEMMA ExecutorView ==
  ASSUME IInv, IInv', NEW t \in Threads, NEW q \in Queues, Executes(t, q),
         UNCHANGED <<current, pushing, made>>,
         \A u \in Threads \ {t} : /\ pc'[u] = pc[u]
                                  /\ batch'[u] = batch[u] /\ next'[u] = next[u],
         \A r \in Queues \ {q} : jobs'[r] = jobs[r]
  PROVE  /\ \A r \in Queues \ {q} : Pending(r)' = Pending(r) /\ Running(r)' = Running(r)
         /\ Pending(q) = Remaining(t) \o jobs[q] /\ Pending(q)' = Remaining(t)' \o jobs'[q]
         /\ Running(q) = IF pc[t] = "run" THEN batch[t][next[t]] ELSE None
         /\ Running(q)' = IF pc'[t] = "run" THEN batch'[t][next'[t]] ELSE None
         /\ Submitted' = Submitted
<1>0. OneOwner /\ OneOwner' /\ Views /\ Views'
  BY ViewsHold, PTL DEF IInv
<1>1. \A r \in Queues \ {q} : Pending(r)' = Pending(r) /\ Running(r)' = Running(r)
  <2>. SUFFICES ASSUME NEW r \in Queues \ {q}
                PROVE  Pending(r)' = Pending(r) /\ Running(r)' = Running(r)
    OBVIOUS
  <2>1. ~Executes(t, r) /\ ~Executes(t, r)'
    BY DEF Executes
  <2>2. \A u \in Threads \ {t} : /\ current'[u] = current[u] /\ pc'[u] = pc[u]
                                 /\ batch'[u] = batch[u] /\ next'[u] = next[u]
    OBVIOUS
  <2>. QED
    BY <1>0, <2>1, <2>2, OtherViews
<1>2. Executes(t, q)'
  BY DEF Executes
<1>3. /\ Pending(q) = Remaining(t) \o jobs[q]
      /\ Running(q) = IF pc[t] = "run" THEN batch[t][next[t]] ELSE None
  BY <1>0 DEF Views
<1>4. /\ Pending(q)' = Remaining(t)' \o jobs'[q]
      /\ Running(q)' = IF pc'[t] = "run" THEN batch'[t][next'[t]] ELSE None
  BY <1>0, <1>2 DEF Views
<1>5. Submitted' = Submitted
  BY DEF Submitted, CountedJobs, Counted
<1>. QED
  BY <1>1, <1>3, <1>4, <1>5

\* An executor is in a queue.
LEMMA InItsQueue ==
  ASSUME TypeOK, NEW t \in Threads, pc[t] # "idle"
  PROVE  current[t] \in Queues
BY DEF TypeOK

LEMMA ExecutePopAllPromised ==
  ASSUME IInv, IInv', NEW t \in Threads, ExecutePopAll(t)
  PROVE  Promised
<1>0. PICK q \in Queues : q = current[t] /\ Executes(t, q)
  BY InItsQueue DEF ExecutePopAll, IInv, Executes
<1>1. /\ pc[t] = "popall" /\ pc'[t] = "loop" /\ batch[t] = <<>> /\ batch'[t] = jobs[q]
      /\ next[t] \in Nat \ {0} /\ next'[t] = 1 /\ jobs'[q] = <<>> /\ jobs[q] \in Seq(Jobs)
      /\ \A u \in Threads \ {t} : /\ pc'[u] = pc[u]
                                  /\ batch'[u] = batch[u] /\ next'[u] = next[u]
      /\ \A r \in Queues \ {q} : jobs'[r] = jobs[r]
      /\ UNCHANGED <<current, pushing, made>>
  BY <1>0 DEF ExecutePopAll, IInv, TypeOK
<1>2. /\ \A r \in Queues \ {q} : Pending(r)' = Pending(r) /\ Running(r)' = Running(r)
      /\ Pending(q) = Remaining(t) \o jobs[q] /\ Pending(q)' = Remaining(t)' \o jobs'[q]
      /\ Running(q) = None /\ Running(q)' = None
      /\ Submitted' = Submitted
  BY <1>0, <1>1, ExecutorView
<1>3. Remaining(t) = <<>>
  <2>1. Remaining(t) = SubSeq(<<>>, next[t], Len(<<>>))
    BY <1>1 DEF Remaining
  <2>2. next[t] \in Int /\ 0 \in Int /\ 0 < next[t] /\ Len(<<>>) = 0
    BY <1>1
  <2>. QED
    BY <2>1, <2>2, SubSeqEmpty
<1>4. Remaining(t)' = jobs[q]
  <2>1. Remaining(t)' = SubSeq(jobs[q], 1, Len(jobs[q]))
    BY <1>1 DEF Remaining
  <2>. QED
    BY <1>1, <2>1, SubSeqFull
<1>5. <<>> \o jobs[q] = jobs[q] /\ jobs[q] \o <<>> = jobs[q]
  BY <1>1, ConcatEmptySeq
<1>6. \A r \in Queues : Pending(r)' = Pending(r) /\ Running(r)' = Running(r)
  BY <1>1, <1>2, <1>3, <1>4, <1>5
<1>. QED
  BY <1>2, <1>6, ToStutter

\* The job at the index is the head of what is pending.
LEMMA JobStartPromised ==
  ASSUME IInv, IInv', NEW t \in Threads, JobStart(t)
  PROVE  Promised
<1>0. PICK q \in Queues : q = current[t] /\ Executes(t, q)
  BY InItsQueue DEF JobStart, IInv, Executes
<1>1. /\ pc[t] = "loop" /\ pc'[t] = "run" /\ batch' = batch /\ next' = next /\ jobs' = jobs
      /\ next[t] <= Len(batch[t]) /\ jobs[q] \in Seq(Jobs)
      /\ \A u \in Threads \ {t} : pc'[u] = pc[u]
      /\ UNCHANGED <<current, pushing, made>>
  BY <1>0 DEF JobStart, IInv, TypeOK
<1>2. /\ \A r \in Queues \ {q} : Pending(r)' = Pending(r) /\ Running(r)' = Running(r)
      /\ Pending(q) = Remaining(t) \o jobs[q] /\ Pending(q)' = Remaining(t)' \o jobs[q]
      /\ Running(q) = None /\ Running(q)' = batch[t][next[t]]
      /\ Submitted' = Submitted
  BY <1>0, <1>1, ExecutorView
<1>. DEFINE b == batch[t]
            i == next[t]
            rest == SubSeq(b, i + 1, Len(b))
<1>3. b \in Seq(Jobs) /\ Len(b) \in Nat /\ i \in 1..Len(b) /\ Len(b) \in i..Len(b) /\ b[i] \in Jobs
  <2>1. b \in Seq(Jobs) /\ Len(b) \in Nat /\ i \in Nat \ {0} /\ i <= Len(b)
    BY <1>1, RemainingType DEF IInv
  <2>. QED
    BY <2>1, ElementOfSeq
<1>4. Remaining(t) = SubSeq(b, i, Len(b)) /\ Remaining(t)' = rest
  BY <1>1 DEF Remaining
<1>5. rest \in Seq(Jobs)
  <2>1. i + 1 \in Int /\ Len(b) \in Int /\ \A k \in (i + 1)..Len(b) : b[k] \in Jobs
    <3>1. \A k \in (i + 1)..Len(b) : k \in 1..Len(b)
      BY <1>3
    <3>. QED
      BY <1>3, <3>1, ElementOfSeq
  <2>. QED
    BY <2>1, SubSeqProperties
<1>6. SubSeq(b, i, Len(b)) = <<b[i]>> \o rest
  BY <1>3, SubSeqRecursiveFirst
<1>. HIDE DEF b, i, rest
<1>7. Pending(q) = <<b[i]>> \o (rest \o jobs[q])
  <2>1. <<b[i]>> \in Seq(Jobs) /\ jobs[q] \in Seq(Jobs)
    BY <1>1, <1>3
  <2>2. (<<b[i]>> \o rest) \o jobs[q] = <<b[i]>> \o (rest \o jobs[q])
    <3>1. \A a, d, c \in Seq(Jobs) : (a \o d) \o c = a \o (d \o c)
      BY ThreeParts
    <3>. QED
      BY <1>5, <2>1, <3>1
  <2>. QED
    BY <1>2, <1>4, <1>6, <2>2
<1>8. Pending(q) # <<>> /\ Head(Pending(q)) = b[i] /\ Tail(Pending(q)) = rest \o jobs[q]
  <2>1. rest \o jobs[q] \in Seq(Jobs)
    BY <1>1, <1>5, ConcatProperties
  <2>2. /\ <<b[i]>> \o (rest \o jobs[q]) # <<>>
        /\ Head(<<b[i]>> \o (rest \o jobs[q])) = b[i]
        /\ Tail(<<b[i]>> \o (rest \o jobs[q])) = rest \o jobs[q]
    BY <1>3, <2>1, HeadTailCons
  <2>. QED
    BY <1>7, <2>2
<1>9. Running(q)' = b[i] /\ Pending(q)' = rest \o jobs[q]
  BY <1>2, <1>4 DEF b, i
<1>. QED
  BY <1>2, <1>8, <1>9, ToStart

LEMMA JobReturnPromised ==
  ASSUME IInv, IInv', NEW t \in Threads, JobReturn(t)
  PROVE  Promised
<1>0. PICK q \in Queues : q = current[t] /\ Executes(t, q)
  BY InItsQueue DEF JobReturn, IInv, Executes
<1>1. /\ pc[t] = "run" /\ pc'[t] = "loop" /\ batch' = batch /\ next'[t] = next[t] + 1
      /\ jobs' = jobs /\ next[t] <= Len(batch[t])
      /\ \A u \in Threads \ {t} : pc'[u] = pc[u] /\ next'[u] = next[u]
      /\ UNCHANGED <<current, pushing, made>>
  BY <1>0 DEF JobReturn, IInv, TypeOK
<1>2. /\ \A r \in Queues \ {q} : Pending(r)' = Pending(r) /\ Running(r)' = Running(r)
      /\ Pending(q) = Remaining(t) \o jobs[q] /\ Pending(q)' = Remaining(t)' \o jobs[q]
      /\ Running(q) = batch[t][next[t]] /\ Running(q)' = None
      /\ Submitted' = Submitted
  BY <1>0, <1>1, ExecutorView
<1>3. Remaining(t)' = Remaining(t)
  BY <1>1 DEF Remaining
<1>4. Running(q) # None
  <2>1. next[t] \in 1..Len(batch[t])
    BY <1>1, RemainingType DEF IInv
  <2>2. batch[t][next[t]] \in Jobs
    BY <2>1, RemainingType DEF IInv
  <2>. QED
    BY <1>2, <2>2, ConstantsAssumption DEF ConstantsAssumption
<1>5. /\ \A r \in Queues : Pending(r)' = Pending(r)
      /\ \A r \in Queues \ {q} : Running(r)' = Running(r)
  BY <1>2, <1>3
<1>. QED
  BY <1>2, <1>4, <1>5, ToFinish

LEMMA ExecuteAgainPromised ==
  ASSUME IInv, IInv', NEW t \in Threads, ExecuteAgain(t)
  PROVE  Promised
<1>0. PICK q \in Queues : q = current[t] /\ Executes(t, q)
  BY InItsQueue DEF ExecuteAgain, IInv, Executes
<1>1. /\ pc[t] = "tick" /\ pc'[t] = "popall" /\ UNCHANGED <<jobs, batch, next>>
      /\ \A u \in Threads \ {t} : pc'[u] = pc[u]
      /\ UNCHANGED <<current, pushing, made>>
  BY <1>0 DEF ExecuteAgain, IInv, TypeOK
<1>2. /\ \A r \in Queues \ {q} : Pending(r)' = Pending(r) /\ Running(r)' = Running(r)
      /\ Pending(q) = Remaining(t) \o jobs[q] /\ Pending(q)' = Remaining(t)' \o jobs[q]
      /\ Running(q) = None /\ Running(q)' = None
      /\ Submitted' = Submitted
  BY <1>0, <1>1, ExecutorView
<1>3. Remaining(t)' = Remaining(t)
  BY <1>1 DEF Remaining
<1>4. \A r \in Queues : Pending(r)' = Pending(r) /\ Running(r)' = Running(r)
  BY <1>2, <1>3
<1>. QED
  BY <1>2, <1>4, ToStutter

\* A thread leaves a queue when its batch is done.
LEMMA LeavePromised ==
  ASSUME IInv, IInv', NEW t \in Threads, NEW q \in Queues, Executes(t, q), pc[t] # "run",
         next[t] > Len(batch[t]), current' = [current EXCEPT ![t] = None],
         \A u \in Threads \ {t} : /\ pc'[u] = pc[u]
                                  /\ batch'[u] = batch[u] /\ next'[u] = next[u],
         UNCHANGED <<jobs, made>>, pushing' = pushing
  PROVE  Promised
<1>a. Views /\ Views'
  BY ViewsHold, PTL
<1>0. OneOwner /\ OneOwner' /\ TypeOK /\ None \notin Queues /\ Views /\ Views'
  BY <1>a, ConstantsAssumption DEF IInv, ConstantsAssumption
<1>1. current'[t] = None /\ \A u \in Threads \ {t} : current'[u] = current[u]
  BY <1>0 DEF TypeOK
<1>2. \A r \in Queues \ {q} : Pending(r)' = Pending(r) /\ Running(r)' = Running(r)
  <2>. SUFFICES ASSUME NEW r \in Queues \ {q}
                PROVE  Pending(r)' = Pending(r) /\ Running(r)' = Running(r)
    OBVIOUS
  <2>1. ~Executes(t, r) /\ ~Executes(t, r)'
    BY <1>0, <1>1 DEF Executes
  <2>2. /\ jobs'[r] = jobs[r]
        /\ \A u \in Threads \ {t} : /\ current'[u] = current[u] /\ pc'[u] = pc[u]
                                    /\ batch'[u] = batch[u] /\ next'[u] = next[u]
    BY <1>1
  <2>. QED
    BY <1>0, <2>1, <2>2, OtherViews
<1>3. Pending(q) = jobs[q] /\ Running(q) = None
  <2>1. Pending(q) = Remaining(t) \o jobs[q] /\ Running(q) = None
    BY <1>0 DEF Views
  <2>2. Remaining(t) = <<>>
    <3>1. Remaining(t) = SubSeq(batch[t], next[t], Len(batch[t]))
      BY DEF Remaining
    <3>2. next[t] \in Int /\ Len(batch[t]) \in Int
      BY <1>0, RemainingType
    <3>. QED
      BY <3>1, <3>2, SubSeqEmpty
  <2>. QED
    BY <1>0, <2>1, <2>2, ConcatEmptySeq DEF TypeOK
<1>4. Pending(q)' = jobs[q] /\ Running(q)' = None
  <2>1. \A u \in Threads : ~Executes(u, q)'
    BY <1>0, <1>1 DEF Executes, OneOwner
  <2>. QED
    BY <1>0, <2>1 DEF Views
<1>5. Submitted' = Submitted
  BY DEF Submitted, CountedJobs, Counted
<1>6. \A r \in Queues : Pending(r)' = Pending(r) /\ Running(r)' = Running(r)
  BY <1>2, <1>3, <1>4
<1>. QED
  BY <1>5, <1>6, ToStutter

LEMMA ExecuteHandOverPromised ==
  ASSUME IInv, IInv', NEW t \in Threads, ExecuteHandOver(t)
  PROVE  Promised
<1>0. PICK q \in Queues : q = current[t] /\ Executes(t, q)
  BY InItsQueue DEF ExecuteHandOver, IInv, Executes
<1>1. /\ pc[t] = "tick" /\ batch[t] = <<>> /\ next[t] > 0 /\ Len(<<>>) = 0
      /\ current' = [current EXCEPT ![t] = None]
      /\ \A u \in Threads \ {t} : /\ pc'[u] = pc[u]
                                  /\ batch'[u] = batch[u] /\ next'[u] = next[u]
      /\ UNCHANGED <<jobs, made>> /\ pushing' = pushing
  BY <1>0 DEF ExecuteHandOver, IInv, TypeOK
<1>. QED
  BY <1>0, <1>1, LeavePromised

LEMMA ExecuteSubPromised ==
  ASSUME IInv, IInv', NEW t \in Threads, ExecuteSub(t)
  PROVE  Promised
<1>0. PICK q \in Queues : q = current[t] /\ Executes(t, q)
  BY InItsQueue DEF ExecuteSub, IInv, Executes
<1>1. /\ pc[t] = "loop" /\ next[t] > Len(batch[t]) /\ batch'[t] = <<>> /\ next'[t] = 1
      /\ \A u \in Threads \ {t} : /\ pc'[u] = pc[u]
                                  /\ batch'[u] = batch[u] /\ next'[u] = next[u]
      /\ UNCHANGED <<jobs, made>> /\ pushing' = pushing /\ jobs[q] \in Seq(Jobs)
      /\ \/ current' = [current EXCEPT ![t] = None]
         \/ current' = current /\ pc'[t] = "tick"
  BY <1>0 DEF ExecuteSub, IInv, TypeOK
<1>2. CASE current' = [current EXCEPT ![t] = None]
  BY <1>0, <1>1, <1>2, LeavePromised
<1>3. CASE current' = current /\ pc'[t] = "tick"
  <2>1. /\ \A r \in Queues \ {q} : Pending(r)' = Pending(r) /\ Running(r)' = Running(r)
        /\ Pending(q) = Remaining(t) \o jobs[q] /\ Pending(q)' = Remaining(t)' \o jobs[q]
        /\ Running(q) = None /\ Running(q)' = None
        /\ Submitted' = Submitted
    BY <1>0, <1>1, <1>3, ExecutorView
  <2>2. Remaining(t) = <<>>
    <3>1. Remaining(t) = SubSeq(batch[t], next[t], Len(batch[t]))
      BY <1>1 DEF Remaining
    <3>2. next[t] \in Int /\ Len(batch[t]) \in Int
      BY RemainingType DEF IInv
    <3>. QED
      BY <1>1, <3>1, <3>2, SubSeqEmpty
  <2>3. Remaining(t)' = <<>>
    <3>1. Remaining(t)' = SubSeq(<<>>, 1, Len(<<>>))
      BY <1>1, <1>3 DEF Remaining
    <3>2. 1 \in Int /\ 0 \in Int /\ 0 < 1 /\ Len(<<>>) = 0
      OBVIOUS
    <3>. QED
      BY <3>1, <3>2, SubSeqEmpty
  <2>4. \A r \in Queues : Pending(r)' = Pending(r) /\ Running(r)' = Running(r)
    BY <2>1, <2>2, <2>3
  <2>. QED
    BY <2>1, <2>4, ToStutter
<1>. QED
  BY <1>1, <1>2, <1>3

\* What an executor has taken survives ClearJobs.
LEMMA ClearJobsPromised ==
  ASSUME IInv, IInv', NEW q \in Queues, ClearJobs(q)
  PROVE  Promised
<1>1. /\ q \in Clearable /\ jobs'[q] = <<>> /\ UNCHANGED executeVars
      /\ \A r \in Queues \ {q} : jobs'[r] = jobs[r]
      /\ UNCHANGED <<pushing, made>> /\ jobs[q] \in Seq(Jobs)
  BY DEF ClearJobs, IInv, TypeOK
<1>2. Submitted' = Submitted
  BY <1>1 DEF Submitted, CountedJobs, Counted
<1>3. /\ \A r \in Queues : Running(r)' = Running(r)
      /\ \A r \in Queues \ {q} : Pending(r)' = Pending(r)
  BY <1>1, JobsView DEF IInv
<1>4. \E n \in 0..Len(Pending(q)) : Pending(q)' = SubSeq(Pending(q), 1, n)
  <2>1. CASE \E u \in Threads : Executes(u, q)
    <3>1. PICK u \in Threads : Executes(u, q)
      BY <2>1
    <3>2. Pending(q) = Remaining(u) \o jobs[q] /\ Pending(q)' = Remaining(u) \o <<>>
      BY <1>1, <3>1, JobsView DEF IInv
    <3>3. Remaining(u) \in Seq(Jobs)
      BY RemainingType DEF IInv
    <3>. QED
      BY <1>1, <3>2, <3>3, Beginning
  <2>2. CASE \A u \in Threads : ~Executes(u, q)
    <3>1. Pending(q) = jobs[q] /\ Pending(q)' = <<>>
      BY <1>1, <2>2, JobsView DEF IInv
    <3>2. <<>> \o jobs[q] = jobs[q] /\ <<>> \o <<>> = <<>>
      BY <1>1, ConcatEmptySeq, EmptySeq
    <3>. QED
      BY <1>1, <3>1, <3>2, Beginning, EmptySeq
  <2>. QED
    BY <2>1, <2>2
<1>. QED
  BY <1>1, <1>2, <1>3, <1>4, ToDiscard

-----------------------------------------------------------------------------
LEMMA MadeOnceInvariant == Spec => []MadeOnce
<1>1. Spec => []TypeOK
  BY TypeCorrect
<1>. QED
  BY <1>1, InitMadeOnce, MadeOnceStep, PTL DEF Spec

\* The jobs of a queue run one at a time, in the order in which they reached _jobs,
\* each at most once and none dropped but by ClearJobs, for any number of threads,
\* queues and jobs: every step of JobQueue is a step of SerialExecutor or none.
THEOREM SerialRefinement == Spec => RunsSerially
<1>1. Init => Serial!Init
  <2>. SUFFICES ASSUME Init PROVE Serial!Init
    OBVIOUS
  <2>1. \A t \in Threads, q \in Queues : ~Executes(t, q)
    BY ConstantsAssumption DEF Init, Executes, ConstantsAssumption
  <2>2. \A q \in Queues : Pending(q) = <<>> /\ Running(q) = None
    BY <2>1 DEF Init, Pending, Running
  <2>3. made \ {pushing[t].job : t \in {u \in Threads : Counted(u)}} = {}
    BY DEF Init
  <2>. QED
    BY <2>2, <2>3 DEF Serial!Init
<1>2. IInv /\ IInv' /\ MadeOnce /\ [Next]_vars => [Serial!Next]_(Serial!vars)
  <2>. SUFFICES ASSUME IInv, IInv', MadeOnce, [Next]_vars PROVE Promised
    BY DEF Promised
  <2>1. ASSUME NEW t \in Threads, NEW q \in Queues, NEW j \in Jobs,
               NEW pushOnly \in BOOLEAN, PushCount(t, q, j, pushOnly)
        PROVE  Promised
    BY <2>1, PushCountPromised
  <2>2. ASSUME NEW t \in Threads, ThreadStep(t) PROVE Promised
    BY <2>2, PushItemPromised, PushExecutePromised, PushGlobalPromised,
       DoGlobalQueueWorkPromised, ExecutePopAllPromised, JobStartPromised, JobReturnPromised,
       ExecuteSubPromised, ExecuteAgainPromised, ExecuteHandOverPromised DEF ThreadStep
  <2>3. ASSUME NEW q \in Queues, ClearJobs(q) PROVE Promised
    BY <2>3, ClearJobsPromised
  <2>4. CASE UNCHANGED vars
    <3>1. UNCHANGED executeVars /\ jobs' = jobs /\ UNCHANGED <<made, pushing>>
      BY <2>4 DEF vars, executeVars
    <3>2. Submitted' = Submitted
      BY <3>1 DEF Submitted, CountedJobs, Counted
    <3>. QED
      BY <3>1, <3>2, JobsView, ToStutter DEF IInv
  <2>. QED
    BY <2>1, <2>2, <2>3, <2>4 DEF Next, IdlePoll
<1>. QED
  BY <1>1, <1>2, Invariant, MadeOnceInvariant, PTL DEF Spec, RunsSerially, Serial!Spec
=============================================================================
