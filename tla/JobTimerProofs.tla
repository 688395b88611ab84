--------------------------- MODULE JobTimerProofs ---------------------------
(***************************************************************************)
(* Theorems about JobTimer for any number of threads, queues and           *)
(* reservations, any delays and any clock.                                 *)
(*                                                                         *)
(* The argument: `distributing' is set by one thread and cleared by it, so *)
(* that one thread distributes.  When a Reserve has returned, its item is  *)
(* settled: in the heap, with the distributor, pushed or given up.  Taking *)
(* the due items under the lock takes, with an item, every settled one of  *)
(* a smaller tick that is still in the heap, and since the heap gives them *)
(* in the order of their ticks these come before it.  Taking empties the   *)
(* heap of what it puts in the vector, and only the distributor has        *)
(* anything there: so the places of a job are apart.                       *)
(***************************************************************************)
EXTENDS JobTimer, FiniteSetTheorems, TLAPS

Done == {pushed[a] : a \in DOMAIN pushed}

\* What a distributor has before place n.
Before(t, n) == {due[t][m] : m \in 1..(n - 1)}

Taken == UNION {{due[t][m] : m \in DOMAIN due[t]} : t \in Threads}

Settled == items \cup Taken \cup Done \cup dropped

FlagMatches ==
  /\ \A t, u \in Distributors : t = u
  /\ distributing <=> Distributors # {}

\* Whose Reserve had returned before another's began is settled.
EarlierSettled == \A j \in Reserved : earlier[j] \subseteq Settled

\* What waits to be pushed is due, in order, and after all it must come after.
DueInOrder ==
  \A t \in Threads :
    /\ now[t] <= clock
    /\ pc[t] # "push" => due[t] = <<>>
    /\ \A n \in DOMAIN due[t] :
         /\ due[t][n] \in Reserved
         /\ executeTick[due[t][n]] <= clock
         /\ \A i \in earlier[due[t][n]] :
              executeTick[i] < executeTick[due[t][n]] =>
                i \in Before(t, n) \cup Done \cup dropped

\* OnTimeAndInOrder, with the pushed items among the reserved ones.
PushedInOrder ==
  \A b \in DOMAIN pushed :
    /\ pushed[b] \in Reserved
    /\ executeTick[pushed[b]] <= clock
    /\ \A i \in earlier[pushed[b]] :
         executeTick[i] < executeTick[pushed[b]] =>
           i \in dropped \cup {pushed[a] : a \in 1..(b - 1)}

\* A reserved item is with its Reserve or settled.
ReservedKnown ==
  /\ \A j \in Reserved : earlier[j] \subseteq Reserved
  /\ \A t \in Threads : reserving[t] \in Reserved \cup {None}
  /\ Reserved \subseteq Settled \cup {reserving[t] : t \in Threads}

IInv == TypeOK /\ FlagMatches /\ EarlierSettled /\ ReservedKnown /\ DueInOrder /\ PushedInOrder

-----------------------------------------------------------------------------
(* The orders Distribute may take a set of items in. *)
LEMMA OrdersFact ==
  ASSUME NEW S \in SUBSET Items, NEW s \in Orders(S)
  PROVE  /\ s \in Seq(Items) /\ DOMAIN s = 1..Len(s)
         /\ \A n \in DOMAIN s : s[n] \in S
         /\ \A i \in S : \E n \in DOMAIN s : s[n] = i
<1>1. Cardinality(S) \in Nat
  BY JobTimerAssumption, FS_Subset, FS_CardinalityType DEF JobTimerAssumption
<1>2. s \in [1..Cardinality(S) -> S] /\ {s[a] : a \in DOMAIN s} = S
  BY DEF Orders
<1>3. s \in Seq(S)
  BY <1>1, <1>2
<1>. QED
  BY <1>2, <1>3

LEMMA TypeStep ==
  ASSUME TypeOK, ReservedKnown, [Next]_vars
  PROVE  TypeOK'
<1>. USE JobTimerAssumption DEF JobTimerAssumption, TypeOK, Goto, reserveVars, Reserved
<1>1. CASE Tick
  BY <1>1 DEF Tick
<1>2. CASE Clear
  BY <1>2 DEF Clear
<1>3. ASSUME NEW o \in alive, QueueDies(o) PROVE TypeOK'
  BY <1>3 DEF QueueDies
<1>4. ASSUME NEW t \in Threads, NEW i \in Items, NEW d \in Delays, ReserveStart(t, i, d)
      PROVE  TypeOK'
  <2>1. clock + d \in Nat
    OBVIOUS
  <2>2. executeTick' \in [Reserved' -> Nat] /\ Reserved' = Reserved \cup {i}
    BY <1>4, <2>1 DEF ReserveStart
  <2>3. earlier' \in [Reserved' -> SUBSET Items]
    BY <1>4 DEF ReserveStart
  <2>. QED
    BY <1>4, <2>2, <2>3 DEF ReserveStart
<1>5. ASSUME NEW t \in Threads, ReservePush(t) PROVE TypeOK'
  BY <1>5 DEF ReservePush, ReservedKnown
<1>6. ASSUME NEW t \in Threads, DistributeStart(t) PROVE TypeOK'
  BY <1>6 DEF DistributeStart
<1>7. ASSUME NEW t \in Threads, DistributeExchange(t) PROVE TypeOK'
  <2>1. pc' \in [Threads -> {"idle", "exchange", "take", "push"}] /\ now' \in [Threads -> 0..MaxTick]
    <3>1. CASE distributing
      <4>1. pc' = [pc EXCEPT ![t] = "idle"] /\ now' = [now EXCEPT ![t] = 0] /\ 0 \in 0..MaxTick
        BY <1>7, <3>1 DEF DistributeExchange
      <4>. QED
        BY <4>1
    <3>2. CASE ~distributing
      BY <1>7, <3>2 DEF DistributeExchange
    <3>. QED
      BY <3>1, <3>2
  <2>. QED
    BY <1>7, <2>1 DEF DistributeExchange
<1>8. ASSUME NEW t \in Threads, DistributeTake(t) PROVE TypeOK'
  <2>1. PICK s \in Orders({i \in items : executeTick[i] <= now[t]}) :
               due' = [due EXCEPT ![t] = s]
    BY <1>8 DEF DistributeTake
  <2>2. s \in Seq(Items)
    BY OrdersFact
  <2>. QED
    BY <1>8, <2>1, <2>2 DEF DistributeTake
<1>9. ASSUME NEW t \in Threads, DistributePush(t) PROVE TypeOK'
  <2>1. Head(due[t]) \in Items /\ Tail(due[t]) \in Seq(Items)
    BY <1>9 DEF DistributePush
  <2>2. Append(pushed, Head(due[t])) \in Seq(Items)
    BY <2>1
  <2>. QED
    BY <1>9, <2>1, <2>2 DEF DistributePush
<1>10. ASSUME NEW t \in Threads, ExecuteReturns(t) PROVE TypeOK'
  BY <1>10 DEF ExecuteReturns
<1>11. ASSUME NEW t \in Threads, DistributeEnd(t) PROVE TypeOK'
  BY <1>11 DEF DistributeEnd
<1>12. CASE UNCHANGED vars
  BY <1>12 DEF vars
<1>. QED
  BY <1>1, <1>2, <1>3, <1>4, <1>5, <1>6, <1>7, <1>8, <1>9, <1>10, <1>11, <1>12 DEF Next, Step

LEMMA FlagStep ==
  ASSUME TypeOK, FlagMatches, [Next]_vars
  PROVE  FlagMatches'
<1>. USE DEF TypeOK, FlagMatches, Distributors, Goto
<1>1. ASSUME NEW t \in Threads, DistributeStart(t) PROVE FlagMatches'
  BY <1>1 DEF DistributeStart
<1>2. ASSUME NEW t \in Threads, DistributeExchange(t) PROVE FlagMatches'
  <2>1. CASE distributing
    <3>1. Distributors' = Distributors
      BY <1>2, <2>1 DEF DistributeExchange
    <3>. QED
      BY <1>2, <2>1, <3>1 DEF DistributeExchange
  <2>2. CASE ~distributing
    <3>1. Distributors' = {t}
      BY <1>2, <2>2 DEF DistributeExchange
    <3>. QED
      BY <1>2, <2>2, <3>1 DEF DistributeExchange
  <2>. QED
    BY <2>1, <2>2
<1>3. ASSUME NEW t \in Threads, DistributeTake(t) PROVE FlagMatches'
  BY <1>3 DEF DistributeTake
<1>4. ASSUME NEW t \in Threads, DistributeEnd(t) PROVE FlagMatches'
  BY <1>4 DEF DistributeEnd
<1>5. CASE UNCHANGED <<pc, distributing>>
  BY <1>5
<1>. QED
  BY <1>1, <1>2, <1>3, <1>4, <1>5
     DEF Next, Step, Tick, Clear, QueueDies, ReserveStart, ReservePush, DistributePush,
         ExecuteReturns, vars

\* A place of `due' keeps its item, loses it to Done or `dropped', or is new.
LEMMA SettledStep ==
  ASSUME TypeOK, FlagMatches, ReservedKnown, DueInOrder, EarlierSettled, [Next]_vars
  PROVE  ReservedKnown' /\ EarlierSettled'
<1>. USE DEF TypeOK, Goto, reserveVars, Reserved
<1>1. ASSUME Settled \subseteq Settled', UNCHANGED <<executeTick, earlier, reserving>>
      PROVE  ReservedKnown' /\ EarlierSettled'
  BY <1>1 DEF ReservedKnown, EarlierSettled
<1>2. ASSUME items \subseteq items', due' = due, pushed' = pushed, dropped \subseteq dropped'
      PROVE  Settled \subseteq Settled'
  BY <1>2 DEF Settled, Taken, Done
<1>3. CASE \/ UNCHANGED vars \/ Tick \/ \E o \in alive : QueueDies(o)
           \/ \E t \in Threads : DistributeStart(t) \/ DistributeExchange(t)
                                 \/ ExecuteReturns(t) \/ DistributeEnd(t)
  BY <1>1, <1>2, <1>3 DEF vars, Tick, QueueDies, DistributeStart, DistributeExchange,
                          ExecuteReturns, DistributeEnd
<1>4. CASE Clear
  <2>1. Settled \subseteq Settled'
    BY <1>4 DEF Clear, Settled, Taken, Done
  <2>. QED
    BY <1>1, <1>4, <2>1 DEF Clear
<1>5. ASSUME NEW t \in Threads, NEW i \in Items, NEW d \in Delays, ReserveStart(t, i, d)
      PROVE  ReservedKnown' /\ EarlierSettled'
  <2>1. Settled' = Settled
    BY <1>5 DEF ReserveStart, Settled, Taken, Done
  <2>2. Reserved' = Reserved \cup {i} /\ i # None
    BY <1>5, JobTimerAssumption DEF ReserveStart, JobTimerAssumption
  <2>3. Reserved \ {reserving[u] : u \in Threads} \subseteq Settled
    BY DEF ReservedKnown
  <2>4. EarlierSettled' /\ \A j \in Reserved' : earlier'[j] \subseteq Reserved'
    BY <1>5, <2>1, <2>2, <2>3 DEF ReserveStart, EarlierSettled, ReservedKnown
  <2>5. /\ reserving'[t] = i /\ reserving[t] = None
        /\ \A u \in Threads \ {t} : reserving'[u] = reserving[u]
    BY <1>5 DEF ReserveStart
  <2>6. \A u \in Threads : reserving'[u] \in Reserved' \cup {None}
    BY <2>2, <2>5 DEF ReservedKnown
  <2>7. None \notin Reserved
    BY JobTimerAssumption DEF JobTimerAssumption
  <2>8. Reserved' \subseteq Settled' \cup {reserving'[u] : u \in Threads}
    <3>. SUFFICES ASSUME NEW j \in Reserved', j \notin Settled'
                  PROVE  \E u \in Threads : reserving'[u] = j
      OBVIOUS
    <3>1. CASE j = i
      BY <2>5, <3>1
    <3>2. CASE j # i
      <4>1. j \in Reserved /\ j # None
        BY <2>2, <2>7, <3>2
      <4>2. PICK u \in Threads : reserving[u] = j
        BY <2>1, <4>1 DEF ReservedKnown
      <4>. QED
        BY <2>5, <4>1, <4>2
    <3>. QED
      BY <3>1, <3>2
  <2>. QED
    BY <2>4, <2>6, <2>8 DEF ReservedKnown
<1>6. ASSUME NEW t \in Threads, ReservePush(t) PROVE ReservedKnown' /\ EarlierSettled'
  <2>1. Settled' = Settled \cup {reserving[t]}
    BY <1>6 DEF ReservePush, Settled, Taken, Done
  <2>2. /\ reserving'[t] = None
        /\ \A u \in Threads \ {t} : reserving'[u] = reserving[u]
    BY <1>6 DEF ReservePush
  <2>. QED
    BY <1>6, <2>1, <2>2 DEF ReservePush, EarlierSettled, ReservedKnown
<1>7. ASSUME NEW t \in Threads, DistributeTake(t) PROVE ReservedKnown' /\ EarlierSettled'
  <2>. DEFINE expired == {i \in items : executeTick[i] <= now[t]}
  <2>1. PICK s \in Orders(expired) : due' = [due EXCEPT ![t] = s]
    BY <1>7 DEF DistributeTake
  <2>2. \A i \in expired : \E n \in DOMAIN s : s[n] = i
    BY OrdersFact
  <2>3. due[t] = <<>>
    BY <1>7 DEF DistributeTake, DueInOrder
  <2>4. Taken \subseteq Taken' /\ expired \subseteq Taken'
    BY <2>1, <2>2, <2>3 DEF Taken
  <2>5. Settled \subseteq Settled'
    BY <1>7, <2>4 DEF DistributeTake, Settled, Done
  <2>. QED
    BY <1>1, <1>7, <2>5 DEF DistributeTake
<1>8. ASSUME NEW t \in Threads, DistributePush(t) PROVE ReservedKnown' /\ EarlierSettled'
  <2>1. /\ due[t] \in Seq(Items) /\ due[t] # <<>>
        /\ due' = [due EXCEPT ![t] = Tail(due[t])]
    BY <1>8 DEF DistributePush
  <2>2. \A n \in DOMAIN due[t] :
          due[t][n] = Head(due[t]) \/ \E m \in DOMAIN Tail(due[t]) : Tail(due[t])[m] = due[t][n]
    <3>. SUFFICES ASSUME NEW n \in DOMAIN due[t], n # 1
                  PROVE  \E m \in DOMAIN Tail(due[t]) : Tail(due[t])[m] = due[t][n]
      BY <2>1
    <3>1. n - 1 \in DOMAIN Tail(due[t]) /\ Tail(due[t])[n - 1] = due[t][n]
      BY <2>1
    <3>. QED
      BY <3>1
  <2>3. Taken \subseteq Taken' \cup {Head(due[t])}
    BY <2>1, <2>2 DEF Taken
  <2>4. Done \cup dropped \cup {Head(due[t])} \subseteq Done' \cup dropped'
    <3>1. CASE pushed' = Append(pushed, Head(due[t])) /\ dropped' = dropped
      <4>1. /\ Head(due[t]) \in Items /\ DOMAIN pushed' = 1..(Len(pushed) + 1)
            /\ pushed'[Len(pushed) + 1] = Head(due[t])
            /\ \A a \in DOMAIN pushed : a \in DOMAIN pushed' /\ pushed'[a] = pushed[a]
        BY <2>1, <3>1
      <4>. QED
        BY <3>1, <4>1 DEF Done
    <3>2. CASE pushed' = pushed /\ dropped' = dropped \cup {Head(due[t])}
      BY <3>2 DEF Done
    <3>. QED
      BY <1>8, <3>1, <3>2 DEF DistributePush
  <2>5. Settled \subseteq Settled'
    BY <1>8, <2>3, <2>4 DEF DistributePush, Settled
  <2>. QED
    BY <1>1, <1>8, <2>5 DEF DistributePush
<1>. QED
  BY <1>3, <1>4, <1>5, <1>6, <1>7, <1>8 DEF Next, Step

\* Steps that take no item and push none.
LEMMA OrderKept ==
  ASSUME TypeOK, ReservedKnown, DueInOrder, PushedInOrder, clock' \in Nat, clock <= clock',
         Reserved \subseteq Reserved',
         \A j \in Reserved : executeTick'[j] = executeTick[j] /\ earlier'[j] = earlier[j],
         due' = due, pushed' = pushed, dropped \subseteq dropped',
         \A t \in Threads : now'[t] <= clock' /\ (pc[t] = "push" => pc'[t] = "push" \/ due[t] = <<>>)
  PROVE  DueInOrder' /\ PushedInOrder'
<1>1. \A j \in Reserved : executeTick[j] \in Nat /\ \A i \in earlier[j] : i \in Reserved
  BY DEF TypeOK, ReservedKnown
<1>2. clock \in Nat
  BY DEF TypeOK
<1>3. PushedInOrder'
  <2>. SUFFICES ASSUME NEW b \in DOMAIN pushed
                PROVE  /\ pushed[b] \in Reserved'
                       /\ executeTick'[pushed[b]] <= clock'
                       /\ \A i \in earlier'[pushed[b]] :
                            executeTick'[i] < executeTick'[pushed[b]] =>
                              i \in dropped' \cup {pushed[a] : a \in 1..(b - 1)}
    BY DEF PushedInOrder
  <2>1. pushed[b] \in Reserved /\ executeTick[pushed[b]] <= clock
    BY DEF PushedInOrder
  <2>. QED
    BY <1>1, <1>2, <2>1 DEF PushedInOrder
<1>4. DueInOrder'
  <2>. SUFFICES ASSUME NEW t \in Threads
                PROVE  /\ now'[t] <= clock'
                       /\ pc'[t] # "push" => due[t] = <<>>
                       /\ \A n \in DOMAIN due[t] :
                            /\ due[t][n] \in Reserved'
                            /\ executeTick'[due[t][n]] <= clock'
                            /\ \A i \in earlier'[due[t][n]] :
                                 executeTick'[i] < executeTick'[due[t][n]] =>
                                   i \in Before(t, n) \cup Done \cup dropped'
    BY DEF DueInOrder, Before, Done
  <2>1. ASSUME NEW n \in DOMAIN due[t]
        PROVE  due[t][n] \in Reserved /\ executeTick[due[t][n]] <= clock
    BY DEF DueInOrder
  <2>. QED
    BY <1>1, <1>2, <2>1 DEF DueInOrder
<1>. QED
  BY <1>3, <1>4

LEMMA TakeOrder ==
  ASSUME IInv, NEW t \in Threads, DistributeTake(t)
  PROVE  DueInOrder' /\ PushedInOrder'
<1>. DEFINE expired == {i \in items : executeTick[i] <= now[t]}
<1>1. PICK s \in Orders(expired) : SortedByTick(s) /\ due' = [due EXCEPT ![t] = s]
  BY DEF DistributeTake
<1>2. /\ DOMAIN s = 1..Len(s) /\ s \in Seq(Items)
      /\ \A n \in DOMAIN s : s[n] \in expired
      /\ \A i \in expired : \E n \in DOMAIN s : s[n] = i
  BY OrdersFact DEF IInv, TypeOK, Reserved
<1>3. /\ UNCHANGED <<clock, executeTick, earlier, pushed, dropped>>
      /\ pc' = [pc EXCEPT ![t] = "push"] /\ now' = [now EXCEPT ![t] = 0] /\ pc[t] = "take"
  BY DEF DistributeTake, reserveVars, Goto
<1>4. clock \in Nat /\ now[t] \in Nat /\ now[t] <= clock
  BY DEF IInv, TypeOK, DueInOrder
<1>5. \A j \in Reserved : executeTick[j] \in Nat
  BY DEF IInv, TypeOK
<1>6. Taken = {}
  <2>1. \A u \in Threads : pc[u] # "push"
    BY <1>3 DEF IInv, FlagMatches, Distributors
  <2>. QED
    BY <2>1 DEF IInv, DueInOrder, Taken
<1>7. ASSUME NEW n \in DOMAIN s, NEW i \in earlier[s[n]], executeTick[i] < executeTick[s[n]]
      PROVE  i \in {s[m] : m \in 1..(n - 1)} \cup Done \cup dropped
  <2>1. s[n] \in Reserved /\ executeTick[s[n]] <= now[t]
    BY <1>2 DEF IInv, TypeOK
  <2>2. i \in items \cup Done \cup dropped /\ i \in Reserved
    BY <1>6, <2>1 DEF IInv, EarlierSettled, ReservedKnown, Settled
  <2>3. CASE i \in items
    <3>1. i \in expired
      BY <1>4, <1>5, <1>7, <2>1, <2>2, <2>3
    <3>2. PICK m \in DOMAIN s : s[m] = i
      BY <1>2, <3>1
    <3>3. m < n
      BY <1>1, <1>2, <1>5, <1>7, <2>1, <2>2, <3>2 DEF SortedByTick
    <3>. QED
      BY <1>2, <3>2, <3>3
  <2>. QED
    BY <2>2, <2>3
<1>8. DueInOrder'
  <2>. SUFFICES ASSUME NEW u \in Threads
                PROVE  /\ now'[u] <= clock
                       /\ pc'[u] # "push" => due'[u] = <<>>
                       /\ \A n \in DOMAIN due'[u] :
                            /\ due'[u][n] \in Reserved
                            /\ executeTick[due'[u][n]] <= clock
                            /\ \A i \in earlier[due'[u][n]] :
                                 executeTick[i] < executeTick[due'[u][n]] =>
                                   i \in {due'[u][m] : m \in 1..(n - 1)} \cup Done \cup dropped
    BY <1>3 DEF DueInOrder, Before, Done, Reserved
  <2>1. CASE u = t
    <3>1. due'[u] = s /\ now'[u] = 0 /\ pc'[u] = "push"
      BY <1>1, <1>3, <2>1 DEF IInv, TypeOK
    <3>2. \A n \in DOMAIN s : s[n] \in Reserved /\ executeTick[s[n]] <= clock
      BY <1>2, <1>4, <1>5 DEF IInv, TypeOK
    <3>. QED
      BY <1>4, <1>7, <3>1, <3>2
  <2>2. CASE u # t
    <3>1. due'[u] = due[u] /\ now'[u] = now[u] /\ pc'[u] = pc[u]
      BY <1>1, <1>3, <2>2 DEF IInv, TypeOK
    <3>. QED
      BY <3>1 DEF IInv, DueInOrder, Before
  <2>. QED
    BY <2>1, <2>2
<1>9. PushedInOrder'
  BY <1>3 DEF IInv, PushedInOrder, Reserved
<1>. QED
  BY <1>8, <1>9

LEMMA PushOrder ==
  ASSUME IInv, NEW t \in Threads, DistributePush(t)
  PROVE  DueInOrder' /\ PushedInOrder'
<1>1. /\ due[t] \in Seq(Items) /\ due[t] # <<>> /\ pc[t] = "push"
      /\ due' = [due EXCEPT ![t] = Tail(due[t])]
      /\ UNCHANGED <<clock, executeTick, earlier, pc, now>>
  BY DEF DistributePush, reserveVars, IInv, TypeOK
<1>2. \/ pushed' = Append(pushed, Head(due[t])) /\ dropped' = dropped
      \/ pushed' = pushed /\ dropped' = dropped \cup {Head(due[t])}
  BY DEF DistributePush
<1>3. /\ 1 \in DOMAIN due[t] /\ due[t][1] = Head(due[t]) /\ Before(t, 1) = {}
      /\ Head(due[t]) \in Items
  BY <1>1 DEF Before
<1>4. pushed \in Seq(Items)
  BY DEF IInv, TypeOK
<1>5. Done \cup dropped \cup {Head(due[t])} \subseteq Done' \cup dropped'
  <2>1. CASE pushed' = Append(pushed, Head(due[t])) /\ dropped' = dropped
    <3>1. /\ DOMAIN pushed' = 1..(Len(pushed) + 1)
          /\ pushed'[Len(pushed) + 1] = Head(due[t])
          /\ \A a \in DOMAIN pushed : a \in DOMAIN pushed' /\ pushed'[a] = pushed[a]
      BY <1>3, <1>4, <2>1
    <3>. QED
      BY <2>1, <3>1, <1>4 DEF Done
  <2>2. CASE pushed' = pushed /\ dropped' = dropped \cup {Head(due[t])}
    BY <2>2 DEF Done
  <2>. QED
    BY <1>2, <2>1, <2>2
<1>6. DueInOrder'
  <2>. SUFFICES ASSUME NEW u \in Threads
                PROVE  /\ now[u] <= clock
                       /\ pc[u] # "push" => due'[u] = <<>>
                       /\ \A n \in DOMAIN due'[u] :
                            /\ due'[u][n] \in Reserved
                            /\ executeTick[due'[u][n]] <= clock
                            /\ \A i \in earlier[due'[u][n]] :
                                 executeTick[i] < executeTick[due'[u][n]] =>
                                   \/ \E m \in 1..(n - 1) : due'[u][m] = i
                                   \/ i \in Done' \cup dropped'
    BY <1>1 DEF DueInOrder, Before, Reserved
  <2>1. CASE u = t
    <3>1. due'[u] = Tail(due[t]) /\ pc[u] = "push" /\ now[u] <= clock
      BY <1>1, <2>1 DEF IInv, TypeOK, DueInOrder
    <3>2. ASSUME NEW n \in DOMAIN Tail(due[t])
          PROVE  /\ n + 1 \in DOMAIN due[t] /\ Tail(due[t])[n] = due[t][n + 1] /\ n \in Nat
                 /\ \A m \in 1..n : due[t][m] = Head(due[t]) \/
                                    \E k \in 1..(n - 1) : Tail(due[t])[k] = due[t][m]
      <4>1. n + 1 \in DOMAIN due[t] /\ Tail(due[t])[n] = due[t][n + 1] /\ n \in Nat
        BY <1>1
      <4>2. ASSUME NEW m \in 1..n, m # 1
            PROVE  m - 1 \in 1..(n - 1) /\ Tail(due[t])[m - 1] = due[t][m]
        BY <1>1, <4>1, <4>2
      <4>. QED
        BY <1>3, <4>1, <4>2
    <3>3. ASSUME NEW n \in DOMAIN Tail(due[t])
          PROVE  /\ due[t][n + 1] \in Reserved
                 /\ executeTick[due[t][n + 1]] <= clock
                 /\ \A i \in earlier[due[t][n + 1]] :
                      executeTick[i] < executeTick[due[t][n + 1]] =>
                        i \in {due[t][m] : m \in 1..n} \cup Done \cup dropped
      <4>1. n + 1 \in DOMAIN due[t] /\ (n + 1) - 1 = n
        BY <3>2
      <4>. QED
        BY <4>1 DEF IInv, DueInOrder, Before
    <3>4. ASSUME NEW n \in DOMAIN Tail(due[t]), NEW i \in earlier[due[t][n + 1]],
                 executeTick[i] < executeTick[due[t][n + 1]]
          PROVE  (\E m \in 1..(n - 1) : Tail(due[t])[m] = i) \/ i \in Done' \cup dropped'
      <4>1. i \in {due[t][m] : m \in 1..n} \cup Done \cup dropped
        BY <3>3, <3>4
      <4>2. CASE i \in {due[t][m] : m \in 1..n}
        <5>1. PICK m \in 1..n : due[t][m] = i
          BY <4>2
        <5>. QED
          BY <1>5, <3>2, <5>1
      <4>. QED
        BY <1>5, <4>1, <4>2
    <3>5. \A n \in DOMAIN Tail(due[t]) :
            Tail(due[t])[n] = due[t][n + 1] /\ due[t][n + 1] \in Reserved
              /\ executeTick[due[t][n + 1]] <= clock
      BY <3>2, <3>3
    <3>. QED
      BY <3>1, <3>4, <3>5
  <2>2. CASE u # t
    <3>1. due'[u] = due[u]
      BY <1>1, <2>2 DEF IInv, TypeOK
    <3>. QED
      BY <1>5, <3>1 DEF IInv, DueInOrder, Before
  <2>. QED
    BY <2>1, <2>2
<1>7. PushedInOrder'
  <2>1. CASE pushed' = pushed /\ dropped' = dropped \cup {Head(due[t])}
    BY <1>1, <2>1 DEF IInv, PushedInOrder, Reserved
  <2>2. CASE pushed' = Append(pushed, Head(due[t])) /\ dropped' = dropped
    <3>. SUFFICES ASSUME NEW b \in DOMAIN pushed'
                  PROVE  /\ pushed'[b] \in Reserved
                         /\ executeTick[pushed'[b]] <= clock
                         /\ \A i \in earlier[pushed'[b]] :
                              executeTick[i] < executeTick[pushed'[b]] =>
                                i \in dropped \cup {pushed'[a] : a \in 1..(b - 1)}
      BY <1>1, <2>2 DEF PushedInOrder, Reserved
    <3>1. /\ DOMAIN pushed' = 1..(Len(pushed) + 1) /\ DOMAIN pushed = 1..Len(pushed)
          /\ Len(pushed) \in Nat
          /\ pushed'[Len(pushed) + 1] = Head(due[t])
          /\ \A a \in DOMAIN pushed : pushed'[a] = pushed[a]
      BY <1>3, <1>4, <2>2
    <3>2. CASE b \in DOMAIN pushed
      <4>1. {pushed'[a] : a \in 1..(b - 1)} = {pushed[a] : a \in 1..(b - 1)}
        BY <3>1, <3>2
      <4>. QED
        BY <3>1, <3>2, <4>1 DEF IInv, PushedInOrder
    <3>3. CASE b = Len(pushed) + 1
      <4>1. {pushed'[a] : a \in 1..(b - 1)} = Done
        BY <3>1, <3>3 DEF Done
      <4>2. /\ Head(due[t]) \in Reserved /\ executeTick[Head(due[t])] <= clock
            /\ \A i \in earlier[Head(due[t])] :
                 executeTick[i] < executeTick[Head(due[t])] => i \in Done \cup dropped
        BY <1>3 DEF IInv, DueInOrder
      <4>. QED
        BY <3>1, <3>3, <4>1, <4>2
    <3>. QED
      BY <3>1, <3>2, <3>3
  <2>. QED
    BY <1>2, <2>1, <2>2
<1>. QED
  BY <1>6, <1>7

-----------------------------------------------------------------------------
LEMMA InitIInv == Init => IInv
<1>. SUFFICES ASSUME Init PROVE IInv
  OBVIOUS
<1>1. Reserved = {}
  BY DEF Init, Reserved
<1>2. TypeOK
  <2>1. pc \in [Threads -> {"idle", "exchange", "take", "push"}] /\ inJob \in [Threads -> BOOLEAN]
    BY DEF Init
  <2>2. /\ reserving \in [Threads -> Items \cup {None}] /\ ownerOf \in [Items -> Owners]
        /\ due \in [Threads -> Seq(Items)] /\ pushed \in Seq(Items)
    BY DEF Init
  <2>3. clock \in 0..MaxTick /\ now \in [Threads -> 0..MaxTick]
    BY JobTimerAssumption DEF Init, JobTimerAssumption
  <2>4. executeTick \in [Reserved -> Nat] /\ earlier \in [Reserved -> SUBSET Items]
    BY DEF Init, Reserved
  <2>. QED
    BY <1>1, <2>1, <2>2, <2>3, <2>4 DEF Init, TypeOK
<1>3. FlagMatches
  BY DEF Init, FlagMatches, Distributors
<1>4. EarlierSettled /\ ReservedKnown
  BY <1>1 DEF Init, EarlierSettled, ReservedKnown
<1>5. DueInOrder /\ PushedInOrder
  BY DEF Init, DueInOrder, PushedInOrder
<1>. QED
  BY <1>2, <1>3, <1>4, <1>5 DEF IInv

LEMMA StepIInv == IInv /\ [Next]_vars => IInv'
<1>. SUFFICES ASSUME IInv, [Next]_vars PROVE IInv'
  OBVIOUS
<1>1. TypeOK' /\ FlagMatches' /\ ReservedKnown' /\ EarlierSettled'
  BY TypeStep, FlagStep, SettledStep DEF IInv
<1>2. DueInOrder' /\ PushedInOrder'
  <2>. USE DEF IInv, reserveVars, Goto, Reserved
  <2>0. clock \in Nat /\ clock' \in Nat /\ \A t \in Threads : now[t] <= clock
    BY <1>1 DEF TypeOK, DueInOrder
  <2>1. CASE \/ UNCHANGED vars \/ Tick \/ Clear \/ \E o \in alive : QueueDies(o)
    <3>1. /\ clock' \in {clock, clock + 1} /\ UNCHANGED <<executeTick, earlier, due, pushed>>
          /\ dropped \subseteq dropped' /\ UNCHANGED <<pc, now>>
      BY <2>1 DEF vars, Tick, Clear, QueueDies
    <3>2. /\ clock <= clock'
          /\ \A t \in Threads : now'[t] <= clock' /\ (pc[t] = "push" => pc'[t] = "push")
      BY <2>0, <3>1 DEF TypeOK
    <3>. QED
      BY <2>0, <3>1, <3>2, OrderKept
  <2>2. ASSUME NEW t \in Threads, NEW i \in Items, NEW d \in Delays, ReserveStart(t, i, d)
        PROVE  DueInOrder' /\ PushedInOrder'
    <3>1. /\ DOMAIN executeTick' = Reserved \cup {i}
          /\ \A j \in Reserved : executeTick'[j] = executeTick[j] /\ earlier'[j] = earlier[j]
      BY <2>2 DEF ReserveStart
    <3>. QED
      BY <2>0, <2>2, <3>1, OrderKept DEF ReserveStart
  <2>3. ASSUME NEW t \in Threads, ReservePush(t) \/ ExecuteReturns(t)
        PROVE  DueInOrder' /\ PushedInOrder'
    BY <2>0, <2>3, OrderKept DEF ReservePush, ExecuteReturns
  <2>4. ASSUME NEW t \in Threads, DistributeStart(t) \/ DistributeExchange(t) \/ DistributeEnd(t)
        PROVE  DueInOrder' /\ PushedInOrder'
    <3>1. /\ UNCHANGED <<clock, executeTick, earlier, due, pushed, dropped>>
          /\ \A u \in Threads \ {t} : pc'[u] = pc[u] /\ now'[u] = now[u]
      BY <2>4 DEF DistributeStart, DistributeExchange, DistributeEnd, TypeOK
    <3>2. now'[t] <= clock /\ (pc[t] = "push" => due[t] = <<>>)
      BY <2>0, <2>4 DEF DistributeStart, DistributeExchange, DistributeEnd, TypeOK
    <3>3. \A u \in Threads :
            now'[u] <= clock' /\ (pc[u] = "push" => pc'[u] = "push" \/ due[u] = <<>>)
      BY <2>0, <3>1, <3>2
    <3>. QED
      BY <2>0, <3>1, <3>3, OrderKept
  <2>. QED
    BY <2>1, <2>2, <2>3, <2>4, TakeOrder, PushOrder DEF Next, Step
<1>. QED
  BY <1>1, <1>2 DEF IInv

LEMMA SpecIInv == Spec => []IInv
BY InitIInv, StepIInv, PTL DEF Spec

\* One thread at a time hands jobs over, also while it executes a queue, and the
\* flag says whether one does (JobTimer.cpp:22, the exchange, and :50, the store).
THEOREM DistributesAlone == Spec => []OneDistributor
<1>1. IInv => OneDistributor
  <2>. SUFFICES ASSUME FlagMatches PROVE OneDistributor
    BY DEF IInv
  <2>1. CASE Distributors = {}
    BY <2>1, FS_EmptySet DEF OneDistributor, FlagMatches
  <2>2. CASE Distributors # {}
    <3>1. PICK t \in Distributors : Distributors = {t}
      BY <2>2 DEF FlagMatches
    <3>2. Cardinality(Distributors) = 1
      BY <3>1, FS_Singleton
    <3>. QED
      BY <2>2, <3>2 DEF OneDistributor, FlagMatches
  <2>. QED
    BY <2>1, <2>2
<1>. QED
  BY <1>1, SpecIInv, PTL

\* No job reaches its queue before its tick, and what was reserved first and is
\* due first is pushed first or given up (JobTimer.cpp:30 to :44).
THEOREM PushesInOrder == Spec => []OnTimeAndInOrder
<1>1. IInv => OnTimeAndInOrder
  BY DEF IInv, PushedInOrder, OnTimeAndInOrder
<1>. QED
  BY <1>1, SpecIInv, PTL
-----------------------------------------------------------------------------
(* A job is in one place. *)

\* No two places have the same item: two Reserves, the heap, the places of a
\* distributor's vector, those of `pushed', and `dropped'.
Apart ==
  /\ Settled \subseteq Reserved
  /\ \A t \in Threads : reserving[t] \notin Settled
  /\ \A t, u \in Threads : reserving[t] = reserving[u] => t = u \/ reserving[t] = None
  /\ \A t \in Threads : \A m, n \in DOMAIN due[t] : due[t][m] = due[t][n] => m = n
  /\ \A m, n \in DOMAIN pushed : pushed[m] = pushed[n] => m = n
  /\ items \cap Taken = {} /\ items \cap Done = {} /\ items \cap dropped = {}
  /\ Taken \cap Done = {} /\ Taken \cap dropped = {} /\ Done \cap dropped = {}

\* Only the distributor has items in its vector.
LEMMA TakenByOne ==
  ASSUME FlagMatches, DueInOrder, NEW t \in Distributors
  PROVE  Taken = {due[t][m] : m \in DOMAIN due[t]}
<1>1. t \in Threads
  BY DEF Distributors
<1>2. \A u \in Threads \ {t} : due[u] = <<>>
  BY DEF FlagMatches, DueInOrder, Distributors
<1>3. \A u \in Threads \ {t} : DOMAIN due[u] = {}
  BY <1>2
<1>. QED
  BY <1>1, <1>3 DEF Taken

\* A sequence that runs through a finite set and is as long has no repetitions.
LEMMA OrdersInjective ==
  ASSUME NEW S \in SUBSET Items, NEW s \in Orders(S)
  PROVE  \A m, n \in DOMAIN s : s[m] = s[n] => m = n
<1>. DEFINE n == Cardinality(S)
<1>1. IsFiniteSet(S) /\ n \in Nat
  BY JobTimerAssumption, FS_Subset, FS_CardinalityType DEF JobTimerAssumption
<1>2. IsFiniteSet(1..n) /\ Cardinality(1..n) = n
  BY <1>1, FS_Interval
<1>3. s \in [1..n -> S] /\ {s[a] : a \in DOMAIN s} = S
  BY DEF Orders
<1>4. s \in Surjection(1..n, S)
  BY <1>3 DEF Surjection
<1>. HIDE DEF n
<1>5. s \in Injection(1..n, S)
  BY <1>2, <1>4, FS_SurjSameCardinalityImpliesInj DEF n
<1>. QED
  BY <1>3, <1>5 DEF Injection, IsInjective, n

LEMMA ApartPush ==
  ASSUME IInv, Apart, NEW t \in Threads, DistributePush(t)
  PROVE  Apart'
<1>. DEFINE i == Head(due[t])
<1>1. /\ due[t] \in Seq(Items) /\ due[t] # <<>> /\ t \in Distributors /\ pushed \in Seq(Items)
      /\ due' = [due EXCEPT ![t] = Tail(due[t])]
      /\ UNCHANGED <<items, executeTick, reserving>>
  BY DEF DistributePush, reserveVars, IInv, TypeOK, Distributors
<1>2. \/ pushed' = Append(pushed, i) /\ dropped' = dropped
      \/ pushed' = pushed /\ dropped' = dropped \cup {i}
  BY DEF DistributePush
<1>3. /\ \A u \in Threads \ {t} : due'[u] = due[u]
      /\ due'[t] = Tail(due[t]) /\ DOMAIN due[t] = 1..Len(due[t]) /\ 1 \in DOMAIN due[t]
      /\ i = due[t][1] /\ Len(due[t]) \in Nat
      /\ DOMAIN Tail(due[t]) = 1..(Len(due[t]) - 1)
      /\ \A n \in DOMAIN Tail(due[t]) : Tail(due[t])[n] = due[t][n + 1] /\ n + 1 \in DOMAIN due[t]
  BY <1>1 DEF IInv, TypeOK
<1>4. \A u \in Threads : \A m, n \in DOMAIN due'[u] : due'[u][m] = due'[u][n] => m = n
  <2>1. ASSUME NEW m \in DOMAIN due'[t], NEW n \in DOMAIN due'[t], due'[t][m] = due'[t][n]
        PROVE  m = n
    <3>1. due[t][m + 1] = due[t][n + 1] /\ m + 1 \in DOMAIN due[t] /\ n + 1 \in DOMAIN due[t]
      BY <1>3, <2>1
    <3>2. m + 1 = n + 1
      BY <3>1 DEF Apart
    <3>. QED
      BY <1>3, <2>1, <3>2
  <2>. QED
    BY <1>3, <2>1 DEF Apart
<1>5. Taken' = Taken \ {i} /\ i \in Taken
  <2>1. Taken = {due[t][m] : m \in DOMAIN due[t]}
    BY <1>1, TakenByOne DEF IInv
  <2>2. \A u \in Threads \ {t} : DOMAIN due[u] = {}
    <3>1. \A u \in Threads \ {t} : due[u] = <<>>
      BY <1>1 DEF IInv, FlagMatches, DueInOrder, Distributors
    <3>. QED
      BY <3>1
  <2>3. Taken' = {due'[t][m] : m \in DOMAIN due'[t]}
    <3>1. \A u \in Threads \ {t} : DOMAIN due'[u] = {}
      BY <1>3, <2>2
    <3>2. t \in Threads
      BY <1>1 DEF Distributors
    <3>. QED
      BY <3>1, <3>2 DEF Taken
  <2>4. ASSUME NEW m \in DOMAIN due[t], m # 1
        PROVE  m - 1 \in DOMAIN due'[t] /\ due'[t][m - 1] = due[t][m]
    BY <1>3, <2>4
  <2>5. ASSUME NEW m \in DOMAIN due'[t]
        PROVE  m + 1 \in DOMAIN due[t] /\ due'[t][m] = due[t][m + 1] /\ m + 1 # 1
    BY <1>3
  <2>6. \A m \in DOMAIN due[t] : due[t][m] = i => m = 1
    BY <1>3 DEF Apart
  <2>7. ASSUME NEW x \in Taken, x # i PROVE x \in Taken'
    <3>1. PICK m \in DOMAIN due[t] : x = due[t][m]
      BY <2>1
    <3>2. m # 1
      BY <1>3, <2>7, <3>1
    <3>. QED
      BY <2>3, <2>4, <3>1, <3>2
  <2>8. ASSUME NEW x \in Taken' PROVE x \in Taken /\ x # i
    <3>1. PICK m \in DOMAIN due'[t] : x = due'[t][m]
      BY <2>3
    <3>. QED
      BY <2>1, <2>5, <2>6, <3>1
  <2>. QED
    BY <1>3, <2>1, <2>7, <2>8
<1>6. i \notin items \cup Done \cup dropped
  BY <1>5 DEF Apart
<1>7. CASE pushed' = pushed /\ dropped' = dropped \cup {i}
  <2>1. Done' = Done
    BY <1>7 DEF Done
  <2>2. Settled' = Settled
    BY <1>1, <1>5, <1>7, <2>1 DEF Settled
  <2>. QED
    BY <1>1, <1>4, <1>5, <1>6, <1>7, <2>1, <2>2 DEF Apart, Reserved
<1>8. CASE pushed' = Append(pushed, i) /\ dropped' = dropped
  <2>1. /\ DOMAIN pushed' = 1..(Len(pushed) + 1) /\ DOMAIN pushed = 1..Len(pushed)
        /\ Len(pushed) \in Nat /\ pushed'[Len(pushed) + 1] = i
        /\ \A a \in DOMAIN pushed : pushed'[a] = pushed[a]
    BY <1>1, <1>8
  <2>2. Done' = Done \cup {i}
    BY <2>1 DEF Done
  <2>3. \A m, n \in DOMAIN pushed' : pushed'[m] = pushed'[n] => m = n
    <3>1. \A m \in DOMAIN pushed : pushed[m] # i
      BY <1>6 DEF Done
    <3>. QED
      BY <2>1, <3>1 DEF Apart
  <2>4. Settled' = Settled
    BY <1>1, <1>5, <1>8, <2>2 DEF Settled
  <2>. QED
    BY <1>1, <1>4, <1>5, <1>6, <1>8, <2>2, <2>3, <2>4 DEF Apart, Reserved
<1>. QED
  BY <1>2, <1>7, <1>8

LEMMA ApartStep ==
  ASSUME IInv, Apart, [Next]_vars
  PROVE  Apart'
<1>. USE DEF Goto, reserveVars, Reserved
<1>1. CASE \/ UNCHANGED vars \/ Tick \/ \E o \in alive : QueueDies(o)
           \/ \E t \in Threads : DistributeStart(t) \/ DistributeExchange(t)
                                 \/ ExecuteReturns(t) \/ DistributeEnd(t)
  <2>1. UNCHANGED <<items, due, pushed, dropped, executeTick, reserving>>
    BY <1>1 DEF vars, Tick, QueueDies, DistributeStart, DistributeExchange, ExecuteReturns,
                DistributeEnd
  <2>. QED
    BY <2>1 DEF Apart, Settled, Taken, Done
<1>2. CASE Clear
  <2>1. UNCHANGED <<due, pushed, executeTick, reserving>> /\ Taken' = Taken /\ Done' = Done
    BY <1>2 DEF Clear, Taken, Done
  <2>2. items' = {} /\ dropped' = dropped \cup items
    BY <1>2 DEF Clear
  <2>. QED
    BY <2>1, <2>2 DEF Apart, Settled
<1>3. ASSUME NEW t \in Threads, NEW i \in Items, NEW d \in Delays, ReserveStart(t, i, d)
      PROVE  Apart'
  <2>1. /\ UNCHANGED <<items, due, pushed, dropped>> /\ i \notin Reserved
        /\ Reserved' = Reserved \cup {i}
        /\ reserving'[t] = i /\ \A u \in Threads \ {t} : reserving'[u] = reserving[u]
    BY <1>3 DEF ReserveStart, IInv, TypeOK
  <2>2. Settled' = Settled /\ Taken' = Taken /\ Done' = Done
    BY <2>1 DEF Settled, Taken, Done
  <2>3. i # None
    BY JobTimerAssumption DEF JobTimerAssumption
  <2>4. \A u \in Threads : reserving[u] # i
    BY <2>1, <2>3 DEF IInv, ReservedKnown
  <2>5. \A u \in Threads : reserving'[u] \notin Settled'
    BY <2>1, <2>2 DEF Apart
  <2>6. \A v, u \in Threads : reserving'[v] = reserving'[u] => v = u \/ reserving'[v] = None
    BY <2>1, <2>4 DEF Apart
  <2>. QED
    BY <2>1, <2>2, <2>5, <2>6 DEF Apart
<1>4. ASSUME NEW t \in Threads, ReservePush(t)
      PROVE  Apart'
  <2>1. /\ UNCHANGED <<due, pushed, dropped, executeTick>>
        /\ items' = items \cup {reserving[t]} /\ reserving[t] # None
        /\ reserving'[t] = None /\ \A u \in Threads \ {t} : reserving'[u] = reserving[u]
    BY <1>4 DEF ReservePush, IInv, TypeOK
  <2>2. Taken' = Taken /\ Done' = Done
    BY <2>1 DEF Taken, Done
  <2>3. Settled' = Settled \cup {reserving[t]} /\ reserving[t] \notin Settled
    BY <2>1, <2>2 DEF Settled, Apart
  <2>4. reserving[t] \in Reserved /\ None \notin Settled'
    <3>1. reserving[t] \in Reserved
      BY <2>1 DEF IInv, ReservedKnown
    <3>. QED
      BY <2>3, <3>1, JobTimerAssumption DEF IInv, TypeOK, Apart, JobTimerAssumption
  <2>5. \A u \in Threads : reserving'[u] \notin Settled'
    BY <2>1, <2>3, <2>4 DEF Apart
  <2>6. \A v, u \in Threads : reserving'[v] = reserving'[u] => v = u \/ reserving'[v] = None
    BY <2>1 DEF Apart
  <2>7. reserving[t] \notin Taken \cup Done \cup dropped
    BY <2>3 DEF Settled
  <2>. QED
    BY <2>1, <2>2, <2>3, <2>4, <2>5, <2>6, <2>7 DEF Apart
<1>5. ASSUME NEW t \in Threads, DistributeTake(t)
      PROVE  Apart'
  <2>. DEFINE expired == {i \in items : executeTick[i] <= now[t]}
  <2>1. PICK s \in Orders(expired) : due' = [due EXCEPT ![t] = s]
    BY <1>5 DEF DistributeTake
  <2>2. expired \in SUBSET Items
    BY DEF IInv, TypeOK
  <2>3. /\ \A n \in DOMAIN s : s[n] \in expired
        /\ \A i \in expired : \E n \in DOMAIN s : s[n] = i
        /\ \A m, n \in DOMAIN s : s[m] = s[n] => m = n
    BY <2>2, OrdersFact, OrdersInjective
  <2>4. /\ UNCHANGED <<pushed, dropped, executeTick, reserving>>
        /\ items' = items \ expired /\ pc[t] = "take"
    BY <1>5 DEF DistributeTake
  <2>5. \A u \in Threads : DOMAIN due[u] = {}
    <3>1. \A u \in Threads : due[u] = <<>>
      BY <2>4 DEF IInv, FlagMatches, DueInOrder, Distributors
    <3>. QED
      BY <3>1
  <2>6. due'[t] = s /\ \A u \in Threads \ {t} : due'[u] = due[u]
    BY <2>1 DEF IInv, TypeOK
  <2>7. Taken' = expired /\ Taken = {}
    BY <2>3, <2>5, <2>6 DEF Taken
  <2>8. Done' = Done
    BY <2>4 DEF Done
  <2>9. Settled' = Settled
    BY <2>4, <2>7, <2>8 DEF Settled
  <2>10. \A u \in Threads : \A m, n \in DOMAIN due'[u] : due'[u][m] = due'[u][n] => m = n
    BY <2>3, <2>6 DEF Apart
  <2>. HIDE DEF expired
  <2>11. expired \subseteq items
    BY DEF expired
  <2>. QED
    BY <2>4, <2>7, <2>8, <2>9, <2>10, <2>11 DEF Apart
<1>. QED
  BY <1>1, <1>2, <1>3, <1>4, <1>5, ApartPush DEF Next, Step

\* Five sets that are finite and apart.
LEMMA CardinalityOfFive ==
  ASSUME NEW A, NEW B, NEW C, NEW D, NEW E,
         IsFiniteSet(A), IsFiniteSet(B), IsFiniteSet(C), IsFiniteSet(D), IsFiniteSet(E),
         A \cap (B \cup C \cup D \cup E) = {}, B \cap (C \cup D \cup E) = {},
         C \cap (D \cup E) = {}, D \cap E = {}
  PROVE  Cardinality(A) + Cardinality(B) + Cardinality(C) + Cardinality(D) + Cardinality(E)
           = Cardinality(A \cup B \cup C \cup D \cup E)
<1>1. ASSUME NEW S, NEW T, IsFiniteSet(S), IsFiniteSet(T), S \cap T = {}
      PROVE  /\ IsFiniteSet(S \cup T) /\ Cardinality(S) \in Nat /\ Cardinality(T) \in Nat
             /\ Cardinality(S \cup T) = Cardinality(S) + Cardinality(T)
  <2>1. Cardinality(S \cap T) = 0
    BY <1>1, FS_EmptySet
  <2>2. Cardinality(S) \in Nat /\ Cardinality(T) \in Nat
    BY <1>1, FS_CardinalityType
  <2>3. /\ IsFiniteSet(S \cup T)
        /\ Cardinality(S \cup T) = Cardinality(S) + Cardinality(T) - Cardinality(S \cap T)
    BY <1>1, FS_Union
  <2>. QED
    BY <2>1, <2>2, <2>3
<1>2. IsFiniteSet(D \cup E) /\ Cardinality(D \cup E) = Cardinality(D) + Cardinality(E)
  BY <1>1
<1>3. /\ IsFiniteSet(C \cup (D \cup E))
      /\ Cardinality(C \cup (D \cup E)) = Cardinality(C) + Cardinality(D \cup E)
  BY <1>1, <1>2
<1>4. /\ IsFiniteSet(B \cup (C \cup (D \cup E)))
      /\ Cardinality(B \cup (C \cup (D \cup E))) = Cardinality(B) + Cardinality(C \cup (D \cup E))
  <2>1. B \cap (C \cup (D \cup E)) = {}
    OBVIOUS
  <2>. QED
    BY <1>1, <1>3, <2>1
<1>5. Cardinality(A \cup (B \cup (C \cup (D \cup E))))
        = Cardinality(A) + Cardinality(B \cup (C \cup (D \cup E)))
  <2>1. A \cap (B \cup (C \cup (D \cup E))) = {}
    OBVIOUS
  <2>. QED
    BY <1>1, <1>4, <2>1
<1>6. A \cup B \cup C \cup D \cup E = A \cup (B \cup (C \cup (D \cup E)))
  OBVIOUS
<1>7. /\ Cardinality(A) \in Nat /\ Cardinality(B) \in Nat /\ Cardinality(C) \in Nat
      /\ Cardinality(D) \in Nat /\ Cardinality(E) \in Nat
  BY FS_CardinalityType
<1>. DEFINE cB == Cardinality(B \cup (C \cup (D \cup E)))
            cC == Cardinality(C \cup (D \cup E))
            cD == Cardinality(D \cup E)
<1>8. /\ cD = Cardinality(D) + Cardinality(E) /\ cC = Cardinality(C) + cD
      /\ cB = Cardinality(B) + cC
      /\ Cardinality(A \cup B \cup C \cup D \cup E) = Cardinality(A) + cB
  BY <1>2, <1>3, <1>4, <1>5, <1>6
<1>. HIDE DEF cB, cC, cD
<1>. QED
  BY <1>7, <1>8

LEMMA SpecApart == Spec => [](IInv /\ Apart)
<1>1. Init => Apart
  <2>. SUFFICES ASSUME Init PROVE Apart
    OBVIOUS
  <2>1. \A t \in Threads : DOMAIN due[t] = {} /\ reserving[t] = None
    <3>1. \A t \in Threads : due[t] = <<>>
      BY DEF Init
    <3>. QED
      BY <3>1 DEF Init
  <2>2. DOMAIN pushed = {} /\ items = {} /\ dropped = {}
    BY DEF Init
  <2>. QED
    BY <2>1, <2>2 DEF Apart, Settled, Taken, Done
<1>2. IInv /\ Apart /\ [Next]_vars => Apart'
  BY ApartStep
<1>. QED
  BY <1>1, <1>2, SpecIInv, StepIInv, PTL DEF Spec

\* A reserved job is in Reserve, in the heap, with the distributor, pushed or
\* given up, in one of these only and in it once: none is lost between the heap
\* and its queue, and none is executed twice (JobTimer.cpp:9 to :63).
THEOREM NoJobLost == Spec => []InOnePlace
<1>1. IInv /\ Apart => InOnePlace
  <2>. SUFFICES ASSUME IInv, Apart PROVE InOnePlace
    OBVIOUS
  <2>. DEFINE starting == {reserving[t] : t \in Threads} \ {None}
              all == starting \cup items \cup Taken \cup Done \cup dropped
  <2>1. all = Reserved
    <3>1. None \notin Reserved /\ \A t \in Threads : reserving[t] \in Reserved \cup {None}
      BY JobTimerAssumption DEF JobTimerAssumption, IInv, TypeOK, ReservedKnown
    <3>2. Reserved \subseteq Settled \cup {reserving[t] : t \in Threads} /\ Settled \subseteq Reserved
      BY DEF IInv, ReservedKnown, Apart
    <3>3. starting = {reserving[t] : t \in Threads} \cap Reserved
      BY <3>1
    <3>. HIDE DEF starting
    <3>. QED
      BY <3>2, <3>3 DEF Settled
  <2>2. IsFiniteSet(Reserved)
    BY JobTimerAssumption, FS_Subset DEF JobTimerAssumption, IInv, TypeOK
  <2>3. starting \cap Settled = {}
    BY DEF Apart
  <2>. HIDE DEF starting
  <2>4. /\ IsFiniteSet(starting) /\ IsFiniteSet(items) /\ IsFiniteSet(Taken) /\ IsFiniteSet(Done)
        /\ IsFiniteSet(dropped)
    BY <2>1, <2>2, FS_Subset
  <2>5. Cardinality(starting) + Cardinality(items) + Cardinality(Taken) + Cardinality(Done)
          + Cardinality(dropped) = Cardinality(Reserved)
    <3>1. starting \cap (items \cup Taken \cup Done \cup dropped) = {}
      BY <2>3 DEF Settled
    <3>2. /\ items \cap (Taken \cup Done \cup dropped) = {}
          /\ Taken \cap (Done \cup dropped) = {} /\ Done \cap dropped = {}
      BY DEF Apart
    <3>. QED
      BY <2>1, <2>4, <3>1, <3>2, CardinalityOfFive
  <2>6. Cardinality(Done) = Len(pushed)
    <3>1. pushed \in [1..Len(pushed) -> Done] /\ Len(pushed) \in Nat
      BY DEF IInv, TypeOK, Done
    <3>2. pushed \in Bijection(1..Len(pushed), Done)
      BY <3>1 DEF Apart, Done, Bijection, Injection, IsInjective, Surjection
    <3>. QED
      BY <3>1, <3>2, FS_CountingElements DEF ExistsBijection
  <2>. QED
    BY <2>1, <2>5, <2>6 DEF InOnePlace, IInv, starting, Taken, Done
<1>. QED
  BY <1>1, SpecApart, PTL
=============================================================================
