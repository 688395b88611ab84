-------------------------- MODULE GameServerProofs --------------------------
(***************************************************************************)
(* What the properties of GameServer say, for any number of sessions,      *)
(* rooms and packets.                                                      *)
(*                                                                         *)
(* No room ever holds more than maxUser players: Rosters adds to           *)
(* NeverOverfull what its induction needs, that _users is a map from every *)
(* room to a finite set.  Four actions change it, all through Enter or     *)
(* Leave; what they are given as a user does not matter.                   *)
(*                                                                         *)
(* A user gets the broadcasts of a room in one order: OrderInv numbers the *)
(* jobs and what was sent of them.                                         *)
(*                                                                         *)
(* A session's room is the one whose _users it is in, and a session that   *)
(* has ended is in none: RoomInv says, for a user that did not go astray,  *)
(* where it is and where the jobs that wait will bring it (Bound), at      *)
(* every point of every handler.  HeardInv adds what a loser has been      *)
(* sent, and NullInv that nothing is null before the first session ends.   *)
(***************************************************************************)
EXTENDS GameServer, FiniteSetTheorems, WellFoundedInduction, TLAPS

\* The inductive invariant.
Rosters ==
  /\ users = [r \in AllRooms |-> users[r]]
  /\ \A r \in AllRooms : IsFiniteSet(users[r]) /\ Cardinality(users[r]) <= MaxUser

\* A roster that is finite and not too large may take the place of another.
LEMMA SetUsersKeeps ==
  ASSUME Rosters, NEW r, NEW new, SetUsers(r, new),
         r \in AllRooms => IsFiniteSet(new) /\ Cardinality(new) <= MaxUser
  PROVE  Rosters'
<1>1. users' = [q \in AllRooms |-> IF q = r THEN new ELSE users[q]]
  BY DEF SetUsers, Rosters
<1>2. ASSUME NEW q \in AllRooms
      PROVE  IsFiniteSet(users'[q]) /\ Cardinality(users'[q]) <= MaxUser
  <2>1. CASE q = r
    BY <2>1, <1>1
  <2>2. CASE q # r
    BY <2>2, <1>1 DEF Rosters
  <2> QED
    BY <2>1, <2>2
<1>3. users' = [q \in AllRooms |-> users'[q]]
  BY <1>1
<1> QED
  BY <1>2, <1>3 DEF Rosters

\* Room::Enter adds a user only where the size, read under the same lock,
\* leaves room for one.
LEMMA EnterKeeps ==
  ASSUME Rosters, NEW r, NEW u, Enter(r, u)
  PROVE  Rosters'
<1> DEFINE new == IF Full(r) THEN users[r] ELSE users[r] \cup {u}
<1>1. SetUsers(r, new)
  BY DEF Enter
<1>2. ASSUME r \in AllRooms
      PROVE  IsFiniteSet(new) /\ Cardinality(new) <= MaxUser
  <2>1. IsFiniteSet(users[r]) /\ Cardinality(users[r]) <= MaxUser
    BY <1>2 DEF Rosters
  <2>2. CASE Full(r)
    BY <2>1, <2>2
  <2>3. CASE ~Full(r)
    <3>1. Cardinality(users[r]) \in Nat
      BY <2>1, FS_CardinalityType
    <3>2. Cardinality(users[r]) + 1 <= MaxUser
      BY <2>3, <3>1, GameServerAssumption DEF Full
    <3>3. /\ IsFiniteSet(users[r] \cup {u})
          /\ \/ Cardinality(users[r] \cup {u}) = Cardinality(users[r])
             \/ Cardinality(users[r] \cup {u}) = Cardinality(users[r]) + 1
      BY <2>1, FS_AddElement
    <3>4. new = users[r] \cup {u}
      BY <2>3
    <3> QED
      BY <2>1, <3>2, <3>3, <3>4
  <2> QED
    BY <2>2, <2>3
<1> HIDE DEF new
<1> QED
  BY <1>1, <1>2, SetUsersKeeps

\* Room::Leave only takes users away.
LEMMA LeaveKeeps ==
  ASSUME Rosters, NEW r, NEW u, Leave(r, u)
  PROVE  Rosters'
<1>1. SetUsers(r, users[r] \ {u})
  BY DEF Leave
<1>2. ASSUME r \in AllRooms
      PROVE  /\ IsFiniteSet(users[r] \ {u})
             /\ Cardinality(users[r] \ {u}) <= MaxUser
  <2>1. IsFiniteSet(users[r]) /\ Cardinality(users[r]) <= MaxUser
    BY <1>2 DEF Rosters
  <2>2. users[r] \ {u} \subseteq users[r]
    OBVIOUS
  <2>3. /\ IsFiniteSet(users[r] \ {u})
        /\ Cardinality(users[r] \ {u}) <= Cardinality(users[r])
    BY <2>1, <2>2, FS_Subset
  <2>4. Cardinality(users[r] \ {u}) \in Nat /\ Cardinality(users[r]) \in Nat
    BY <2>1, <2>3, FS_CardinalityType
  <2> QED
    BY <2>1, <2>3, <2>4, GameServerAssumption
<1> QED
  BY <1>1, <1>2, SetUsersKeeps

\* A step that leaves _users alone keeps every roster.
LEMMA SameUsers ==
  ASSUME Rosters, users' = users
  PROVE  Rosters'
  BY DEF Rosters

LEMMA InitRosters == Init => Rosters
<1> SUFFICES ASSUME Init PROVE Rosters
  OBVIOUS
<1>1. users = [r \in AllRooms |-> {}]
  BY DEF Init
<1>2. IsFiniteSet({}) /\ Cardinality({}) = 0
  BY FS_EmptySet
<1> QED
  BY <1>1, <1>2, GameServerAssumption DEF Rosters

\* The jobs of a room.
LEMMA ExecuteKeeps ==
  ASSUME Rosters, NEW r \in AllRooms, Execute(r)
  PROVE  Rosters'
<1>1. CASE JobEnterOrLeave(r)
  <2>1. CASE Crash("null")
    BY <2>1, SameUsers DEF Crash, roomVars
  <2>2. CASE Enter(r, Head(queue[r]).user)
    BY <2>2, EnterKeeps
  <2>3. CASE Leave(r, Head(queue[r]).user)
    BY <2>3, LeaveKeeps
  <2> QED
    BY <1>1, <2>1, <2>2, <2>3 DEF JobEnterOrLeave
<1>2. CASE JobBroadcast(r) \/ BroadcastNext(r) \/ BroadcastWild(r)
  <2>1. users' = users
    BY <1>2 DEF JobBroadcast, BroadcastNext, BroadcastWild, Crash, roomVars
  <2> QED
    BY <2>1, SameUsers
<1>3. CASE ExecuteEnd(r) \/ ExecuteTimeout(r)
  <2>1. users' = users
    BY <1>3 DEF ExecuteEnd, ExecuteTimeout, roomVars
  <2> QED
    BY <2>1, SameUsers
<1> QED
  BY <1>1, <1>2, <1>3 DEF Execute

\* The packet handlers.
LEMMA HandlerKeeps ==
  ASSUME Rosters, NEW s \in Sessions, Handler(s)
  PROVE  Rosters'
<1>1. CASE Login(s) \/ LoginAdd(s) \/ CreateRoom(s) \/ CreateMake(s) \/ CreateLeave(s)
             \/ CreateEnter(s)
  <2>1. users' = users
    BY <1>1 DEF Login, LoginAdd, CreateRoom, CreateMake, CreateLeave, CreateEnter, Crash, roomVars
  <2> QED
    BY <2>1, SameUsers
<1>2. CASE (\E r \in Rooms : EnterRoom(s, r)) \/ EnterMove(s) \/ EnterLeave(s)
  <2>1. users' = users
    BY <1>2 DEF EnterRoom, EnterMove, EnterLeave, Crash, roomVars
  <2> QED
    BY <2>1, SameUsers
<1>3. CASE EnterJoin(s)
  <2>1. CASE Crash("null")
    BY <2>1, SameUsers DEF Crash, roomVars
  <2>2. CASE Enter(call[s].room, user[s])
    BY <2>2, EnterKeeps
  <2> QED
    BY <1>3, <2>1, <2>2 DEF EnterJoin
<1>4. CASE Ready(s) \/ ReadyToggle(s) \/ Broadcast(s) \/ Move(s) \/ Attack(s) \/ ActRead(s)
  <2>1. users' = users
    BY <1>4 DEF Ready, ReadyToggle, Broadcast, Move, Attack, ActRead, Crash, roomVars
  <2> QED
    BY <2>1, SameUsers
<1>5. CASE Start(s) \/ StartPlaces(s) \/ StartEach(s) \/ StartWild(s)
  <2>1. users' = users
    BY <1>5 DEF Start, StartPlaces, StartEach, StartWild, Crash, roomVars
  <2> QED
    BY <2>1, SameUsers
<1>6. CASE (\E t \in UserIds : Attacked(s, t)) \/ HitLoad(s) \/ HitStore(s) \/ Lose(s)
             \/ LoseMove(s) \/ LoseEnter(s) \/ WinEnter(s) \/ Report(s)
  <2>1. users' = users
    BY <1>6 DEF Attacked, HitLoad, HitStore, Lose, LoseMove, LoseEnter, WinEnter, Report,
                Crash, roomVars
  <2> QED
    BY <2>1, SameUsers
<1>7. CASE LoseLeave(s)
  <2>1. Leave(call[s].room, call[s].user)
    BY <1>7 DEF LoseLeave
  <2> QED
    BY <2>1, LeaveKeeps
<1>8. CASE Count(s)
  <2>1. CASE users' = users
    BY <2>1, SameUsers
  <2>2. CASE Leave(call[s].room, user[s])
    BY <2>2, LeaveKeeps
  <2> QED
    BY <1>8, <2>1, <2>2 DEF Count, Crash, roomVars
<1> QED
  BY <1>1, <1>2, <1>3, <1>4, <1>5, <1>6, <1>7, <1>8 DEF Handler, Receive, Proceed, Hit

\* No step overfills a room.
LEMMA NextRosters == Rosters /\ [Next]_vars => Rosters'
<1> SUFFICES ASSUME Rosters, [Next]_vars PROVE Rosters'
  OBVIOUS
<1>1. CASE UNCHANGED vars
  BY <1>1, SameUsers DEF vars, roomVars
<1>2. ASSUME NEW r \in AllRooms, Execute(r) PROVE Rosters'
  BY <1>2, ExecuteKeeps
<1>3. ASSUME NEW s \in Sessions, Handler(s) PROVE Rosters'
  BY <1>3, HandlerKeeps
<1>4. ASSUME NEW s \in Sessions, End(s) PROVE Rosters'
  <2>1. users' = users
    BY <1>4 DEF End, Disconnected, DisconnectedLeave, DisconnectedReset, Destroy, roomVars
  <2> QED
    BY <2>1, SameUsers
<1> QED
  BY <1>1, <1>2, <1>3, <1>4 DEF Next

\* No interleaving of handlers, jobs and disconnections puts more players in a
\* room than Room::maxUser: the test of Room::Enter is under the lock that also
\* covers the insertion, so the unlocked test of C_ENTER_ROOM is not relied on.
THEOREM Capacity == Spec => []NeverOverfull
<1>1. Init => Rosters
  BY InitRosters
<1>2. Rosters /\ [Next]_vars => Rosters'
  BY NextRosters
<1>3. Rosters => NeverOverfull
  BY DEF Rosters, NeverOverfull
<1> QED
  BY <1>1, <1>2, <1>3, PTL DEF Spec

-----------------------------------------------------------------------------
(* The types, one group of variables at a time. *)

\* Where a handler holds the user it hits, it does hold one.
Hitting == {"hitLoad", "hitStore", "lose", "loseLeave", "loseMove", "loseEnter"}

\* Where C_START has a room.
Starting == {"startPlaces", "startEach"}

CallType == [at : Labels, room : AllRooms \cup {None}, user : UserIds \cup {None, 0},
             hp : Int, seen : SUBSET UserIds]

SessionsTyped ==
  /\ user \in [Sessions -> UserIds \cup {None}]
  /\ room \in [Sessions -> AllRooms \cup {None}]
  /\ registered \subseteq Sessions /\ phase \in [Sessions -> Phases]

UsersTyped ==
  /\ owner \in [UserIds -> Sessions \cup {None}]
  /\ ready \in [UserIds -> BOOLEAN] /\ hp \in [UserIds -> Int]
  /\ logins \in 0..MaxLogins

RoomsTyped ==
  /\ users \in [AllRooms -> SUBSET UserIds]
  /\ master \in [AllRooms -> UserIds \cup {None}]
  /\ started \in [AllRooms -> BOOLEAN] /\ roomMap \subseteq Rooms

QueuesTyped ==
  /\ queue \in [AllRooms -> Seq(Jobs)] /\ running \in [AllRooms -> Jobs \cup {NoJob}]
  /\ posted \in [AllRooms -> Nat]
  /\ executor \in [AllRooms -> Threads]

CallsTyped ==
  /\ call \in [Sessions -> CallType] /\ requests \in [Sessions -> Nat]
  /\ \A s \in Sessions :
       /\ call[s].at \in Hitting => call[s].user \in UserIds
       /\ call[s].at \in Starting => call[s].room \in AllRooms

HistoryTyped ==
  /\ last \in [UserIds -> [AllRooms -> Nat]] /\ told \subseteq UserIds
  /\ astray \subseteq UserIds \cup {None}

Typed ==
  /\ SessionsTyped /\ UsersTyped /\ RoomsTyped /\ QueuesTyped /\ CallsTyped
  /\ crash \in {"", "null", "noRoom", "noPlace", "iterator"}

\* The jobs of a room are numbered in the order they came, and what a user has
\* been sent comes before what he is still to be sent.
OrderedIn(r) ==
  /\ \A i \in 1..Len(queue[r]) :
       /\ queue[r][i].at = 0 /\ queue[r][i].id <= posted[r]
       /\ running[r] # NoJob => running[r].id < queue[r][i].id
       /\ \A k \in 1..Len(queue[r]) : i < k => queue[r][i].id < queue[r][k].id
       /\ \A u \in UserIds : last[u][r] < queue[r][i].id
  /\ running[r] # NoJob => running[r] \in Jobs /\ running[r].id <= posted[r]
  /\ \A u \in UserIds :
       /\ last[u][r] <= posted[r]
       /\ running[r] # NoJob => last[u][r] <= running[r].id
       /\ running[r] # NoJob /\ u > running[r].at => last[u][r] < running[r].id

Ordered == \A r \in AllRooms : OrderedIn(r)

\* The first of some keys.
LEMMA MinFact ==
  ASSUME NEW S \in SUBSET UserIds, S # {}
  PROVE  Min(S) \in S /\ \A m \in S : Min(S) <= m
<1>. DEFINE R == {pair \in Nat \X Nat : pair[1] < pair[2]}
<1>1. S \in SUBSET Nat
  BY GameServerAssumption DEF UserIds
<1>2. IsWellFoundedOn(R, Nat)
  BY NatLessThanWellFounded DEF OpToRel
<1>. HIDE DEF R
<1>3. \E n \in S : \A m \in S : <<m, n>> \notin R
  BY <1>1, <1>2, WFMin
<1>4. \E n \in S : \A m \in S : ~(m < n)
  BY <1>1, <1>3 DEF R
<1>5. \E n \in S : \A m \in S : n <= m
  BY <1>1, <1>4
<1>. QED
  BY <1>5 DEF Min

LEMMA Ids ==
  /\ UserIds \subseteq Nat \ {0}
  /\ \A n \in 0..MaxLogins : n < MaxLogins => n + 1 \in UserIds /\ n + 1 \in 0..MaxLogins
  BY GameServerAssumption DEF UserIds

LEMMA Zero == 0 \in UserIds \cup {None, 0} /\ 0 \in Int
  OBVIOUS

LEMMA HitLowers ==
  ASSUME NEW c \in CallType
  PROVE  c.hp - 50 \in Int
  BY DEF CallType

LEMMA HeadAndTail ==
  ASSUME NEW q \in Seq(Jobs), q # <<>>
  PROVE  Head(q) \in Jobs /\ Tail(q) \in Seq(Jobs)
  OBVIOUS

LEMMA PacketTyped ==
  ASSUME CallsTyped, NEW s \in Sessions, NEW kind, NEW label \in Labels,
         NEW r \in AllRooms \cup {None}, NEW u \in UserIds \cup {None, 0},
         label \in Hitting => u \in UserIds, label \in Starting => r \in AllRooms,
         Packet(s, kind, label, r, u)
  PROVE  CallsTyped'
<1>. DEFINE new == [at |-> label, room |-> r, user |-> u, hp |-> 0, seen |-> {}]
<1>1. new \in CallType /\ new.at = label /\ new.user = u /\ new.room = r
  BY DEF CallType
<1>2. call' = [call EXCEPT ![s] = new] /\ requests' = [requests EXCEPT ![s] = @ + 1]
  BY DEF Packet
<1>. HIDE DEF new
<1>. QED
  BY <1>1, <1>2 DEF CallsTyped

LEMMA HoldTyped ==
  ASSUME CallsTyped, NEW s \in Sessions, NEW label \in Labels, NEW u \in UserIds \cup {None, 0},
         NEW h \in Int, NEW S \in SUBSET UserIds,
         label \in Hitting => u \in UserIds, label \in Starting => call[s].room \in AllRooms,
         Hold(s, label, u, h, S), requests' = requests
  PROVE  CallsTyped'
<1>. DEFINE new == [at |-> label, room |-> call[s].room, user |-> u, hp |-> h, seen |-> S]
<1>1. new \in CallType /\ new.at = label /\ new.user = u /\ new.room = call[s].room
  BY DEF CallsTyped, CallType
<1>2. call' = [call EXCEPT ![s] = new]
  BY DEF Hold
<1>. HIDE DEF new
<1>. QED
  BY <1>1, <1>2 DEF CallsTyped

LEMMA GoTyped ==
  ASSUME CallsTyped, NEW s \in Sessions, NEW label \in Labels \ Starting,
         label \in Hitting => call[s].user \in UserIds, Go(s, label), requests' = requests
  PROVE  CallsTyped'
<1>. DEFINE new == [call[s] EXCEPT !.at = label]
<1>1. new \in CallType /\ new.at = label /\ new.user = call[s].user
  BY DEF CallType, CallsTyped
<1>2. call' = [call EXCEPT ![s] = new]
  BY DEF Go, CallsTyped
<1>. HIDE DEF new
<1>. QED
  BY <1>1, <1>2 DEF CallsTyped

LEMMA ReturnTyped ==
  ASSUME CallsTyped, NEW s \in Sessions, Return(s), requests' = requests
  PROVE  CallsTyped'
<1>1. NoCall \in CallType /\ NoCall.at = "idle"
  BY DEF NoCall, CallType, Labels
<1>. QED
  BY <1>1 DEF Return, CallsTyped, Hitting, Starting

LEMMA SameCalls ==
  ASSUME CallsTyped, call' = call, requests' = requests
  PROVE  CallsTyped'
  BY DEF CallsTyped

\* A job that comes is typed, and comes last.
LEMMA PostTyped ==
  ASSUME QueuesTyped, NEW thread \in Threads, NEW r,
         NEW op \in {"enter", "leave", "broadcast"}, NEW u \in UserIds \cup {None},
         Post(thread, r, op, u)
  PROVE  /\ QueuesTyped'
         /\ running' = running
         /\ \A q \in AllRooms :
              \/ queue'[q] = queue[q] /\ posted'[q] = posted[q]
              \/ /\ posted'[q] = posted[q] + 1
                 /\ \E j \in Jobs : queue'[q] = Append(queue[q], j) /\ j.id = posted[q] + 1 /\ j.at = 0
<1>1. ASSUME r \in AllRooms PROVE Job(r, op, u) \in Jobs
  BY <1>1 DEF Job, Jobs, QueuesTyped
<1>2. Job(r, op, u).id = posted[r] + 1 /\ Job(r, op, u).at = 0
  BY DEF Job
<1>3. /\ queue' = [queue EXCEPT ![r] = Append(@, Job(r, op, u))]
      /\ posted' = [posted EXCEPT ![r] = @ + 1] /\ running' = running
      /\ executor' = [executor EXCEPT ![r] = IF @ = None THEN thread ELSE @]
  BY DEF Post
<1>. HIDE DEF Job
<1>4. QueuesTyped'
  <2>1. queue' \in [AllRooms -> Seq(Jobs)]
    <3>1. r \in AllRooms => Append(queue[r], Job(r, op, u)) \in Seq(Jobs)
      BY <1>1 DEF QueuesTyped
    <3>. QED
      BY <3>1, <1>3 DEF QueuesTyped
  <2>2. posted' \in [AllRooms -> Nat]
    <3>1. r \in AllRooms => posted[r] + 1 \in Nat
      BY DEF QueuesTyped
    <3>. QED
      BY <3>1, <1>3 DEF QueuesTyped
  <2>3. executor' \in [AllRooms -> Threads]
    BY <1>3 DEF QueuesTyped
  <2>. QED
    BY <1>3, <2>1, <2>2, <2>3 DEF QueuesTyped
<1>5. ASSUME NEW q \in AllRooms
      PROVE  \/ queue'[q] = queue[q] /\ posted'[q] = posted[q]
             \/ /\ posted'[q] = posted[q] + 1
                /\ \E j \in Jobs : queue'[q] = Append(queue[q], j) /\ j.id = posted[q] + 1 /\ j.at = 0
  <2>1. CASE q = r
    BY <2>1, <1>1, <1>2, <1>3 DEF QueuesTyped
  <2>2. CASE q # r
    BY <2>2, <1>3 DEF QueuesTyped
  <2>. QED
    BY <2>1, <2>2
<1>. QED
  BY <1>3, <1>4, <1>5

LEMMA CrashTyped ==
  ASSUME Typed, NEW why \in {"null", "noRoom", "noPlace", "iterator"}, Crash(why)
  PROVE  Typed'
<1>1. CallsTyped'
  BY SameCalls DEF Typed, Crash
<1>. QED
  BY <1>1 DEF Typed, Crash, SessionsTyped, UsersTyped, RoomsTyped, QueuesTyped,
              sessionVars, userVars, roomVars, queueVars

LEMMA SetUsersTyped ==
  ASSUME RoomsTyped, NEW r, NEW new, SetUsers(r, new), r \in AllRooms => new \subseteq UserIds
  PROVE  RoomsTyped'
  BY DEF RoomsTyped, SetUsers

LEMMA EnterTyped ==
  ASSUME RoomsTyped, NEW r, NEW u \in UserIds, Enter(r, u)
  PROVE  RoomsTyped'
<1>1. r \in AllRooms => users[r] \subseteq UserIds
  BY DEF RoomsTyped
<1>. QED
  BY <1>1, SetUsersTyped DEF Enter

LEMMA LeaveTyped ==
  ASSUME RoomsTyped, NEW r, NEW u, Leave(r, u)
  PROVE  RoomsTyped'
<1>1. r \in AllRooms => users[r] \subseteq UserIds
  BY DEF RoomsTyped
<1>. QED
  BY <1>1, SetUsersTyped DEF Leave

LEMMA ExecuteTyped ==
  ASSUME Typed, NEW r \in AllRooms, Execute(r)
  PROVE  Typed'
<1>. USE DEF Typed, SessionsTyped, UsersTyped, QueuesTyped,
             sessionVars, userVars, roomVars, queueVars
<1>1. Due(r) => Head(queue[r]) \in Jobs /\ Tail(queue[r]) \in Seq(Jobs)
  <2>1. queue[r] \in Seq(Jobs)
    OBVIOUS
  <2>. QED
    BY <2>1, HeadAndTail DEF Due
<1>2. CASE JobEnterOrLeave(r)
  <2>1. CASE Crash("null")
    BY <2>1, CrashTyped
  <2>2. CASE ~Crash("null")
    <3>1. /\ Head(queue[r]).user \in UserIds
          /\ Enter(r, Head(queue[r]).user) \/ Leave(r, Head(queue[r]).user)
          /\ queue' = [queue EXCEPT ![r] = Tail(@)]
          /\ UNCHANGED <<sessionVars, userVars, running, posted, executor, call, requests, crash>>
      BY <1>1, <1>2, <2>2 DEF JobEnterOrLeave, Jobs
    <3>2. RoomsTyped'
      BY <3>1, EnterTyped, LeaveTyped
    <3>3. CallsTyped'
      BY <3>1, SameCalls
    <3>4. queue' \in [AllRooms -> Seq(Jobs)]
      BY <1>1, <1>2, <3>1 DEF JobEnterOrLeave
    <3>. QED
      BY <3>1, <3>2, <3>3, <3>4
  <2>. QED
    BY <2>1, <2>2
<1>3. CASE JobBroadcast(r)
  <2>1. CallsTyped'
    BY <1>3, SameCalls DEF JobBroadcast
  <2>. QED
    BY <1>1, <1>3, <2>1 DEF JobBroadcast, RoomsTyped
<1>4. CASE BroadcastNext(r)
  <2>. DEFINE rest == {u \in users[r] : u > running[r].at}
  <2>1. CASE Crash("null")
    BY <2>1, CrashTyped
  <2>2. CASE running' = [running EXCEPT ![r] = NoJob]
               /\ UNCHANGED <<sessionVars, userVars, roomVars, queue, posted, executor, call, requests, crash>>
    <3>1. CallsTyped'
      BY <2>2, SameCalls
    <3>. QED
      BY <2>2, <3>1 DEF RoomsTyped
  <2>3. CASE rest # {} /\ running' = [running EXCEPT ![r].at = Min(rest)]
               /\ UNCHANGED <<sessionVars, userVars, roomVars, queue, posted, executor, call, requests, crash>>
    <3>1. CallsTyped'
      BY <2>3, SameCalls
    <3>2. Min(rest) \in Nat
      <4>1. rest \in SUBSET UserIds /\ rest # {}
        BY <2>3 DEF RoomsTyped
      <4>. HIDE DEF rest
      <4>2. Min(rest) \in UserIds
        BY <4>1, MinFact
      <4>. QED
        BY <4>2, Ids
    <3>3. running[r] \in Jobs
      <4>1. running[r].op = "broadcast"
        BY <1>4 DEF BroadcastNext
      <4>2. NoJob.op # "broadcast"
        BY DEF NoJob
      <4>. QED
        BY <4>1, <4>2
    <3>4. [running[r] EXCEPT !.at = Min(rest)] \in Jobs
      BY <3>2, <3>3 DEF Jobs
    <3>5. running' \in [AllRooms -> Jobs \cup {NoJob}]
      BY <2>3, <3>4
    <3>. QED
      BY <2>3, <3>1, <3>5 DEF RoomsTyped
  <2>. QED
    BY <1>4, <2>1, <2>2, <2>3 DEF BroadcastNext
<1>5. CASE BroadcastWild(r)
  BY <1>5, CrashTyped DEF BroadcastWild
<1>6. CASE ExecuteEnd(r) \/ ExecuteTimeout(r)
  <2>1. CallsTyped'
    BY <1>6, SameCalls DEF ExecuteEnd, ExecuteTimeout
  <2>. QED
    BY <1>6, <2>1 DEF ExecuteEnd, ExecuteTimeout, RoomsTyped, Threads
<1>. QED
  BY <1>2, <1>3, <1>4, <1>5, <1>6 DEF Execute

LEMMA HandlerTyped ==
  ASSUME Typed, NEW s \in Sessions, Handler(s)
  PROVE  Typed'
<1>. USE DEF Typed, SessionsTyped, UsersTyped, sessionVars, userVars, roomVars, queueVars
<1>1. CASE Login(s) \/ LoginAdd(s)
  <2>1. CASE Login(s)
    <3>1. CallsTyped'
      BY <2>1, GoTyped DEF Login, Labels, Hitting, Starting
    <3>2. logins + 1 \in UserIds /\ logins + 1 \in 0..MaxLogins
      BY <2>1, Ids DEF Login
    <3>. QED
      BY <2>1, <3>1, <3>2 DEF Login, RoomsTyped, QueuesTyped, AllRooms
  <2>2. CASE LoginAdd(s)
    <3>1. CallsTyped'
      BY <2>2, ReturnTyped DEF LoginAdd
    <3>. QED
      BY <2>2, <3>1 DEF LoginAdd, RoomsTyped, QueuesTyped
  <2>. QED
    BY <1>1, <2>1, <2>2
<1>2. CASE CreateRoom(s)
  <2>1. CallsTyped'
    BY <1>2, PacketTyped DEF CreateRoom, Labels, Hitting, Starting
  <2>. QED
    BY <1>2, <2>1 DEF CreateRoom, RoomsTyped, QueuesTyped
<1>3. CASE CreateMake(s)
  <2>1. CASE user[s] = None
    BY <2>1, <1>3, CrashTyped DEF CreateMake
  <2>2. CASE user[s] # None
    <3>1. PICK r \in Rooms \ roomMap :
            /\ master' = [master EXCEPT ![r] = user[s]]
            /\ roomMap' = roomMap \cup {r}
            /\ room' = [room EXCEPT ![s] = r]
            /\ call' = [call EXCEPT ![s].at = "createLeave", ![s].room = r]
            /\ UNCHANGED <<user, registered, phase, userVars, users, started, queueVars, requests, crash>>
      BY <1>3, <2>2 DEF CreateMake
    <3>2. r \in AllRooms
      BY DEF AllRooms
    <3>3. CallsTyped'
      <4>. DEFINE new == [call[s] EXCEPT !.at = "createLeave", !.room = r]
      <4>1. call' = [call EXCEPT ![s] = new]
        BY <3>1 DEF CallsTyped
      <4>2. call[s] \in CallType /\ "createLeave" \in Labels \ (Hitting \cup Starting)
        BY DEF CallsTyped, Labels, Hitting, Starting
      <4>3. new \in CallType /\ new.at = "createLeave"
        BY <3>2, <4>2 DEF CallType
      <4>4. requests' = requests
        BY <3>1
      <4>. HIDE DEF new
      <4>. QED
        BY <4>1, <4>2, <4>3, <4>4 DEF CallsTyped
    <3>. QED
      BY <3>1, <3>2, <3>3 DEF RoomsTyped, QueuesTyped
  <2>. QED
    BY <2>1, <2>2
<1>4. CASE CreateLeave(s) \/ CreateEnter(s) \/ EnterLeave(s)
  <2>1. user[s] \in UserIds \cup {None} /\ Recv(s) \in Threads
    BY DEF Threads
  <2>2. CallsTyped'
    BY <1>4, GoTyped, ReturnTyped
    DEF CreateLeave, CreateEnter, EnterLeave, Labels, Hitting, Starting
  <2>3. QueuesTyped'
    BY <1>4, <2>1, PostTyped DEF CreateLeave, CreateEnter, EnterLeave
  <2>. QED
    BY <1>4, <2>2, <2>3 DEF CreateLeave, CreateEnter, EnterLeave, RoomsTyped
<1>5. ASSUME NEW r \in Rooms, EnterRoom(s, r) PROVE Typed'
  <2>1. r \in AllRooms
    BY DEF AllRooms
  <2>2. CallsTyped'
    BY <1>5, <2>1, PacketTyped DEF EnterRoom, Labels, Hitting, Starting
  <2>. QED
    BY <1>5, <2>2 DEF EnterRoom, RoomsTyped, QueuesTyped
<1>6. CASE EnterJoin(s)
  <2>1. CASE user[s] = None
    BY <2>1, <1>6, CrashTyped DEF EnterJoin
  <2>2. CASE user[s] # None
    <3>1. RoomsTyped'
      BY <1>6, <2>2, EnterTyped DEF EnterJoin
    <3>2. CallsTyped'
      BY <1>6, <2>2, GoTyped, ReturnTyped DEF EnterJoin, Labels, Hitting, Starting
    <3>. QED
      BY <1>6, <2>2, <3>1, <3>2 DEF EnterJoin, QueuesTyped
  <2>. QED
    BY <2>1, <2>2
<1>7. CASE EnterMove(s)
  <2>1. CASE user[s] = None
    BY <2>1, <1>7, CrashTyped DEF EnterMove
  <2>2. CASE user[s] # None
    <3>1. CallsTyped'
      BY <1>7, <2>2, GoTyped DEF EnterMove, Labels, Hitting, Starting
    <3>2. call[s].room \in AllRooms \cup {None}
      BY DEF CallsTyped, CallType
    <3>. QED
      BY <1>7, <2>2, <3>1, <3>2 DEF EnterMove, RoomsTyped, QueuesTyped
  <2>. QED
    BY <2>1, <2>2
<1>8. CASE Ready(s)
  <2>1. CASE room[s] = None
    BY <2>1, <1>8, CrashTyped DEF Ready
  <2>2. CASE room[s] # None
    <3>1. CallsTyped'
      BY <1>8, <2>2, PacketTyped DEF Ready, Labels, Hitting, Starting
    <3>. QED
      BY <1>8, <2>2, <3>1 DEF Ready, RoomsTyped, QueuesTyped
  <2>. QED
    BY <2>1, <2>2
<1>9. CASE ReadyToggle(s)
  <2>1. CASE user[s] = None
    BY <2>1, <1>9, CrashTyped DEF ReadyToggle
  <2>2. CASE user[s] # None
    <3>1. CallsTyped'
      BY <1>9, <2>2, GoTyped DEF ReadyToggle, Labels, Hitting, Starting
    <3>2. ready' \in [UserIds -> BOOLEAN]
      BY <1>9, <2>2 DEF ReadyToggle
    <3>. QED
      BY <1>9, <2>2, <3>1, <3>2 DEF ReadyToggle, RoomsTyped, QueuesTyped
  <2>. QED
    BY <2>1, <2>2
<1>10. CASE Broadcast(s)
  <2>1. Recv(s) \in Threads
    BY DEF Threads
  <2>2. CallsTyped'
    BY <1>10, ReturnTyped DEF Broadcast
  <2>3. QueuesTyped'
    BY <1>10, <2>1, PostTyped DEF Broadcast
  <2>. QED
    BY <1>10, <2>2, <2>3 DEF Broadcast, RoomsTyped
<1>11. CASE Attack(s) /\ room[s] = None
  BY <1>11, CrashTyped DEF Attack
<1>a. CASE Move(s) \/ (Attack(s) /\ room[s] # None)
  <2>1. CallsTyped'
    <3>1. {"actRead", "broadcast"} \subseteq Labels \ (Hitting \cup Starting)
      BY DEF Labels, Hitting, Starting
    <3>2. PICK label \in {"actRead", "broadcast"}, kind \in {"MOVE", "ATTACK"} :
                 Packet(s, kind, label, None, None)
      BY <1>a DEF Move, Attack
    <3>. QED
      BY <3>1, <3>2, PacketTyped
  <2>. QED
    BY <1>a, <2>1 DEF Move, Attack, RoomsTyped, QueuesTyped
<1>12. CASE ActRead(s)
  <2>1. CASE user[s] = None
    BY <2>1, <1>12, CrashTyped DEF ActRead
  <2>2. CASE user[s] # None
    <3>1. CallsTyped'
      BY <1>12, <2>2, GoTyped DEF ActRead, Labels, Hitting, Starting
    <3>. QED
      BY <1>12, <2>2, <3>1 DEF ActRead, RoomsTyped, QueuesTyped
  <2>. QED
    BY <2>1, <2>2
<1>13. CASE Start(s)
  <2>1. CASE room[s] = None
    BY <2>1, <1>13, CrashTyped DEF Start
  <2>2. CASE room[s] # None
    <3>1. CallsTyped'
      BY <1>13, <2>2, PacketTyped DEF Start, Labels, Hitting, Starting
    <3>2. started' \in [AllRooms -> BOOLEAN]
      BY <1>13, <2>2 DEF Start, RoomsTyped
    <3>. QED
      BY <1>13, <2>2, <3>1, <3>2 DEF Start, RoomsTyped, QueuesTyped
  <2>. QED
    BY <2>1, <2>2
<1>14. CASE StartPlaces(s)
  <2>1. /\ call[s].room \in AllRooms /\ users[call[s].room] \in SUBSET UserIds
        /\ "startEach" \in Labels /\ "startEach" \notin Hitting
    BY <1>14 DEF StartPlaces, At, CallsTyped, Starting, RoomsTyped, Labels, Hitting
  <2>2. CallsTyped'
    BY <1>14, <2>1, Zero, HoldTyped DEF StartPlaces
  <2>. QED
    BY <1>14, <2>2 DEF StartPlaces, RoomsTyped, QueuesTyped
<1>15. CASE StartEach(s)
  <2>. DEFINE r    == call[s].room
              rest == {u \in users[r] : u > call[s].user}
  <2>1. CASE Crash("noPlace") \/ Crash("null")
    BY <2>1, CrashTyped
  <2>2. CASE Return(s) /\ UNCHANGED <<sessionVars, userVars, roomVars, queueVars, requests, crash>>
    <3>1. CallsTyped'
      BY <2>2, ReturnTyped
    <3>. QED
      BY <2>2, <3>1 DEF RoomsTyped, QueuesTyped
  <2>3. CASE /\ rest # {} /\ r \in AllRooms
             /\ hp' = [v \in UserIds |-> IF v \in Reached(r) THEN StartHp ELSE hp[v]]
             /\ Return(s) \/ call' = [call EXCEPT ![s].user = Min(rest)]
             /\ UNCHANGED <<sessionVars, owner, ready, logins, roomVars, queueVars, requests, crash>>
             /\ At(s, "startEach")
    <3>1. hp' \in [UserIds -> Int]
      BY <2>3, GameServerAssumption
    <3>2. CASE Return(s)
      <4>1. CallsTyped'
        BY <2>3, <3>2, ReturnTyped
      <4>. QED
        BY <2>3, <3>1, <4>1 DEF RoomsTyped, QueuesTyped
    <3>3. CASE call' = [call EXCEPT ![s].user = Min(rest)]
      <4>1. rest \in SUBSET UserIds
        BY <2>3 DEF RoomsTyped
      <4>2. Min(rest) \in UserIds
        <5>. HIDE DEF rest
        <5>. QED
          BY <4>1, <2>3, MinFact
      <4>3. CallsTyped'
        <5>. DEFINE new == [call[s] EXCEPT !.user = Min(rest)]
        <5>1. call' = [call EXCEPT ![s] = new]
          BY <3>3 DEF CallsTyped
        <5>. HIDE DEF rest
        <5>2. new \in CallType /\ new.user \in UserIds /\ new.room = r
          <6>. DEFINE m == Min(rest)
          <6>1. call[s] \in CallType /\ m \in UserIds
            BY <4>2 DEF CallsTyped
          <6>. HIDE DEF m
          <6>2. /\ [call[s] EXCEPT !.user = m] \in CallType
                /\ [call[s] EXCEPT !.user = m].user = m
                /\ [call[s] EXCEPT !.user = m].room = call[s].room
            BY <6>1 DEF CallType
          <6>. QED
            BY <6>1, <6>2 DEF m
        <5>. HIDE DEF new
        <5>3. new.room \in AllRooms /\ requests' = requests
          BY <2>3, <5>2
        <5>. QED
          BY <5>1, <5>2, <5>3 DEF CallsTyped
      <4>. QED
        BY <2>3, <3>1, <4>3 DEF RoomsTyped, QueuesTyped
    <3>. QED
      BY <2>3, <3>2, <3>3
  <2>4. r \in AllRooms /\ At(s, "startEach")
    BY <1>15 DEF StartEach, At, CallsTyped, Starting
  <2>. QED
    BY <1>15, <2>1, <2>2, <2>3, <2>4 DEF StartEach
<1>16. CASE StartWild(s)
  BY <1>16, CrashTyped DEF StartWild
<1>17. ASSUME NEW t \in UserIds, Attacked(s, t) PROVE Typed'
  <2>1. CallsTyped'
    BY <1>17, PacketTyped DEF Attacked, Labels, Starting
  <2>. QED
    BY <1>17, <2>1 DEF Attacked, RoomsTyped, QueuesTyped
<1>18. CASE HitLoad(s)
  <2>1. /\ call[s].user \in UserIds /\ hp[call[s].user] \in Int /\ {} \in SUBSET UserIds
        /\ "hitStore" \in Labels \ Starting
    BY <1>18 DEF HitLoad, At, CallsTyped, Hitting, Labels, Starting
  <2>2. CallsTyped'
    BY <1>18, <2>1, HoldTyped DEF HitLoad
  <2>. QED
    BY <1>18, <2>2 DEF HitLoad, RoomsTyped, QueuesTyped
<1>19. CASE HitStore(s)
  <2>1. call[s] \in CallType /\ call[s].user \in UserIds
    BY <1>19 DEF HitStore, At, CallsTyped, Hitting
  <2>2. {"lose", "count"} \subseteq Labels \ Starting /\ {} \in SUBSET UserIds
    BY DEF Labels, Starting
  <2>3. PICK label \in {"lose", "count"} : Hold(s, label, call[s].user, 0, {})
    BY <1>19 DEF HitStore
  <2>4. CallsTyped'
    BY <1>19, <2>1, <2>2, <2>3, Zero, HoldTyped DEF HitStore
  <2>5. hp' \in [UserIds -> Int]
    BY <1>19, <2>1, HitLowers DEF HitStore
  <2>. QED
    BY <1>19, <2>4, <2>5 DEF HitStore, RoomsTyped, QueuesTyped
<1>20. CASE Lose(s) \/ LoseEnter(s) \/ WinEnter(s)
  <2>1. user[s] \in UserIds \cup {None} /\ Recv(s) \in Threads
    BY DEF Threads
  <2>2. At(s, "lose") \/ At(s, "loseEnter") => call[s].user \in UserIds
    BY DEF At, CallsTyped, Hitting
  <2>3. CallsTyped'
    BY <1>20, <2>2, GoTyped DEF Lose, LoseEnter, WinEnter, Labels, Hitting, Starting
  <2>4. QueuesTyped'
    BY <1>20, <2>1, <2>2, PostTyped DEF Lose, LoseEnter, WinEnter
  <2>. QED
    BY <1>20, <2>3, <2>4 DEF Lose, LoseEnter, WinEnter, RoomsTyped
<1>21. CASE LoseLeave(s)
  <2>1. call[s].user \in UserIds
    BY <1>21 DEF LoseLeave, At, CallsTyped, Hitting
  <2>2. CallsTyped'
    BY <1>21, <2>1, GoTyped DEF LoseLeave, Labels, Starting
  <2>3. RoomsTyped'
    BY <1>21, LeaveTyped DEF LoseLeave
  <2>. QED
    BY <1>21, <2>2, <2>3 DEF LoseLeave, QueuesTyped
<1>22. CASE LoseMove(s)
  <2>1. call[s].user \in UserIds
    BY <1>22 DEF LoseMove, At, CallsTyped, Hitting
  <2>2. CASE phase[owner[call[s].user]] = "gone"
    BY <1>22, <2>2, CrashTyped DEF LoseMove
  <2>3. CASE phase[owner[call[s].user]] # "gone"
    <3>1. CallsTyped'
      BY <1>22, <2>1, <2>3, GoTyped DEF LoseMove, Labels, Starting
    <3>2. room' \in [Sessions -> AllRooms \cup {None}]
      BY <1>22, <2>3 DEF LoseMove, AllRooms
    <3>. QED
      BY <1>22, <2>3, <3>1, <3>2 DEF LoseMove, RoomsTyped, QueuesTyped
  <2>. QED
    BY <2>2, <2>3
<1>23. CASE Count(s)
  <2>1. CASE Crash("null")
    BY <2>1, CrashTyped
  <2>2. CASE Leave(call[s].room, user[s]) /\ Go(s, "winEnter")
             /\ UNCHANGED <<sessionVars, userVars, queueVars, requests, crash>>
    <3>1. CallsTyped' /\ RoomsTyped'
      BY <2>2, GoTyped, LeaveTyped DEF Labels, Hitting, Starting
    <3>. QED
      BY <2>2, <3>1 DEF QueuesTyped
  <2>3. CASE Go(s, "report") /\ UNCHANGED roomVars
             /\ UNCHANGED <<sessionVars, userVars, queueVars, requests, crash>>
    <3>1. CallsTyped'
      BY <2>3, GoTyped DEF Labels, Hitting, Starting
    <3>. QED
      BY <2>3, <3>1 DEF QueuesTyped, RoomsTyped
  <2>. QED
    BY <1>23, <2>1, <2>2, <2>3 DEF Count
<1>24. CASE Report(s)
  <2>1. CASE user[s] = None
    BY <2>1, <1>24, CrashTyped DEF Report
  <2>2. CASE user[s] # None
    <3>1. Recv(s) \in Threads
      BY DEF Threads
    <3>2. CallsTyped' /\ QueuesTyped'
      BY <1>24, <2>2, <3>1, ReturnTyped, PostTyped DEF Report
    <3>. QED
      BY <1>24, <2>2, <3>2 DEF Report, RoomsTyped
  <2>. QED
    BY <2>1, <2>2
<1>. QED
  BY <1>1, <1>2, <1>3, <1>4, <1>5, <1>6, <1>7, <1>8, <1>9, <1>10, <1>11, <1>a, <1>12, <1>13, <1>14,
     <1>15, <1>16, <1>17, <1>18, <1>19, <1>20, <1>21, <1>22, <1>23, <1>24 DEF Handler, Receive, Proceed, Hit

LEMMA EndTyped ==
  ASSUME Typed, NEW s \in Sessions, End(s)
  PROVE  Typed'
<1>. USE DEF Typed, SessionsTyped, UsersTyped, sessionVars, userVars, roomVars, queueVars
<1>1. CASE Disconnected(s) \/ DisconnectedReset(s) \/ Destroy(s)
  <2>1. CallsTyped'
    BY <1>1, SameCalls DEF Disconnected, DisconnectedReset, Destroy
  <2>. QED
    BY <1>1, <2>1 DEF Disconnected, DisconnectedReset, Destroy, RoomsTyped, QueuesTyped, Phases
<1>2. CASE DisconnectedLeave(s)
  <2>1. CallsTyped'
    BY <1>2, SameCalls DEF DisconnectedLeave
  <2>2. user[s] \in UserIds \cup {None} /\ Close(s) \in Threads
    BY DEF Threads
  <2>3. QueuesTyped'
    BY <1>2, <2>2, PostTyped DEF DisconnectedLeave, QueuesTyped
  <2>. QED
    BY <1>2, <2>1, <2>3 DEF DisconnectedLeave, RoomsTyped, Phases
<1>. QED
  BY <1>1, <1>2 DEF End

-----------------------------------------------------------------------------
(* The order of the jobs. *)

\* Jobs may come to the rooms, each behind those that are there.
JobsCome ==
  /\ running' = running
  /\ \A q \in AllRooms :
       \/ queue'[q] = queue[q] /\ posted'[q] = posted[q]
       \/ /\ posted'[q] = posted[q] + 1
          /\ \E j \in Jobs : queue'[q] = Append(queue[q], j) /\ j.id = posted[q] + 1 /\ j.at = 0

LEMMA HandlerComes ==
  ASSUME Typed, NEW s \in Sessions, Handler(s)
  PROVE  JobsCome
<1>1. /\ Recv(s) \in Threads /\ user[s] \in UserIds \cup {None}
      /\ At(s, "lose") \/ At(s, "loseEnter") => call[s].user \in UserIds
  BY DEF Threads, Typed, SessionsTyped, CallsTyped, At, Hitting
<1>2. CASE UNCHANGED queueVars
  BY <1>2 DEF JobsCome, queueVars
<1>3. ASSUME NEW r, NEW op \in {"enter", "leave", "broadcast"}, NEW u \in UserIds \cup {None},
             Post(Recv(s), r, op, u)
      PROVE  JobsCome
  BY <1>1, <1>3, PostTyped DEF JobsCome, Typed
<1>4. CASE CreateLeave(s) \/ CreateEnter(s) \/ EnterLeave(s) \/ Broadcast(s) \/ Lose(s)
             \/ LoseEnter(s) \/ WinEnter(s) \/ Report(s)
  BY <1>1, <1>2, <1>3, <1>4
  DEF CreateLeave, CreateEnter, EnterLeave, Broadcast, Lose, LoseEnter, WinEnter, Report, Crash
<1>5. CASE Login(s) \/ LoginAdd(s) \/ CreateRoom(s) \/ CreateMake(s)
             \/ (\E r \in Rooms : EnterRoom(s, r)) \/ EnterJoin(s) \/ EnterMove(s)
  BY <1>2, <1>5 DEF Login, LoginAdd, CreateRoom, CreateMake, EnterRoom, EnterJoin, EnterMove, Crash
<1>6. CASE Ready(s) \/ ReadyToggle(s) \/ Move(s) \/ Attack(s) \/ ActRead(s)
             \/ Start(s) \/ StartPlaces(s) \/ StartEach(s) \/ StartWild(s)
  BY <1>2, <1>6
  DEF Ready, ReadyToggle, Move, Attack, ActRead, Start, StartPlaces, StartEach, StartWild, Crash
<1>7. CASE (\E t \in UserIds : Attacked(s, t)) \/ HitLoad(s) \/ HitStore(s) \/ LoseLeave(s)
             \/ LoseMove(s) \/ Count(s)
  BY <1>2, <1>7 DEF Attacked, HitLoad, HitStore, LoseLeave, LoseMove, Count, Crash
<1>. QED
  BY <1>4, <1>5, <1>6, <1>7 DEF Handler, Receive, Proceed, Hit

LEMMA EndComes ==
  ASSUME Typed, NEW s \in Sessions, End(s)
  PROVE  JobsCome
<1>1. Close(s) \in Threads /\ user[s] \in UserIds \cup {None}
  BY DEF Threads, Typed, SessionsTyped
<1>2. CASE UNCHANGED queueVars
  BY <1>2 DEF JobsCome, queueVars
<1>3. CASE Post(Close(s), room[s], "leave", user[s])
  BY <1>1, <1>3, PostTyped DEF JobsCome, Typed
<1>. QED
  BY <1>2, <1>3 DEF End, Disconnected, DisconnectedLeave, DisconnectedReset, Destroy

\* A job that comes has the largest number yet.
LEMMA ComesOrdered ==
  ASSUME QueuesTyped, HistoryTyped, Ordered, JobsCome, last' = last
  PROVE  Ordered'
<1>. SUFFICES ASSUME NEW r \in AllRooms PROVE OrderedIn(r)'
  BY DEF Ordered
<1>1. OrderedIn(r) /\ running' = running /\ last' = last
  BY DEF Ordered, JobsCome
<1>2. CASE queue'[r] = queue[r] /\ posted'[r] = posted[r]
  BY <1>1, <1>2 DEF OrderedIn
<1>3. ASSUME NEW j \in Jobs, posted'[r] = posted[r] + 1, queue'[r] = Append(queue[r], j),
             j.id = posted[r] + 1, j.at = 0
      PROVE  OrderedIn(r)'
  <2>1. /\ queue[r] \in Seq(Jobs) /\ Len(queue[r]) \in Nat /\ posted[r] \in Nat
        /\ Len(queue'[r]) = Len(queue[r]) + 1 /\ queue'[r][Len(queue[r]) + 1] = j
        /\ \A i \in 1..Len(queue[r]) : queue'[r][i] = queue[r][i]
    BY <1>3 DEF QueuesTyped
  <2>2. /\ \A u \in UserIds : last[u][r] \in Nat
        /\ \A i \in 1..Len(queue[r]) : queue[r][i].id \in Nat
        /\ running[r] # NoJob => running[r].id \in Nat
    <3>1. \A k \in Jobs : k.id \in Nat
      BY DEF Jobs
    <3>2. \A i \in 1..Len(queue[r]) : queue[r][i] \in Jobs
      BY <2>1
    <3>. QED
      BY <1>1, <3>1, <3>2 DEF HistoryTyped, OrderedIn
  <2>3. ASSUME NEW i \in 1..Len(queue'[r])
        PROVE  /\ queue'[r][i].at = 0 /\ queue'[r][i].id <= posted'[r]
               /\ running[r] # NoJob => running[r].id < queue'[r][i].id
               /\ \A k \in 1..Len(queue'[r]) : i < k => queue'[r][i].id < queue'[r][k].id
               /\ \A u \in UserIds : last[u][r] < queue'[r][i].id
    <3>1. CASE i \in 1..Len(queue[r])
      <4>1. queue'[r][i] = queue[r][i] /\ queue[r][i].id <= posted[r]
        BY <1>1, <2>1, <3>1 DEF OrderedIn
      <4>2. ASSUME NEW k \in 1..Len(queue'[r]), i < k PROVE queue'[r][i].id < queue'[r][k].id
        <5>1. CASE k \in 1..Len(queue[r])
          BY <1>1, <2>1, <3>1, <4>2, <5>1 DEF OrderedIn
        <5>2. CASE k = Len(queue[r]) + 1
          BY <1>3, <2>1, <2>2, <3>1, <4>1, <5>2
        <5>. QED
          BY <2>1, <5>1, <5>2
      <4>3. queue[r][i].id <= posted[r] + 1
        BY <2>1, <2>2, <3>1, <4>1
      <4>. QED
        BY <1>1, <1>3, <3>1, <4>1, <4>2, <4>3 DEF OrderedIn
    <3>2. CASE i = Len(queue[r]) + 1
      <4>1. queue'[r][i] = j
        BY <2>1, <3>2
      <4>2. \A k \in 1..Len(queue'[r]) : ~(i < k)
        BY <2>1, <3>2
      <4>. QED
        BY <1>1, <1>3, <2>1, <2>2, <4>1, <4>2 DEF OrderedIn
    <3>. QED
      BY <2>1, <3>1, <3>2
  <2>. QED
    BY <1>1, <1>3, <2>1, <2>2, <2>3 DEF OrderedIn
<1>. QED
  BY <1>2, <1>3 DEF JobsCome

\* A step that changes nothing of the order.
LEMMA SameOrder ==
  ASSUME Ordered, NEW r \in AllRooms, queue'[r] = queue[r], running'[r] = running[r],
         posted'[r] = posted[r], \A u \in UserIds : last'[u][r] = last[u][r]
  PROVE  OrderedIn(r)'
  BY DEF Ordered, OrderedIn

\* What the users have been sent since.
Later ==
  \A r \in AllRooms : running[r].at # running'[r].at /\ running'[r].at # 0 =>
    LET u == running'[r].at IN last'[u][r] > last[u][r]

\* The first job goes.
LEMMA TailOrdered ==
  ASSUME NEW r \in AllRooms, QueuesTyped, OrderedIn(r), queue[r] # <<>>,
         queue' = [queue EXCEPT ![r] = Tail(@)], running' = running, posted' = posted, last' = last
  PROVE  OrderedIn(r)'
<1>1. /\ queue'[r] = Tail(queue[r]) /\ Len(queue[r]) \in Nat /\ Len(queue'[r]) = Len(queue[r]) - 1
      /\ \A i \in 1..Len(queue'[r]) : queue'[r][i] = queue[r][i + 1] /\ i + 1 \in 1..Len(queue[r])
  BY DEF QueuesTyped
<1>. QED
  BY <1>1 DEF OrderedIn

\* The first job goes, and runs.
LEMMA FirstOrdered ==
  ASSUME NEW r \in AllRooms, QueuesTyped, OrderedIn(r), queue[r] # <<>>, HistoryTyped,
         queue' = [queue EXCEPT ![r] = Tail(@)], running'[r] = queue[r][1], queue[r][1] \in Jobs,
         posted' = posted, last' = last
  PROVE  OrderedIn(r)'
<1>1. /\ queue'[r] = Tail(queue[r]) /\ Len(queue[r]) \in Nat /\ Len(queue'[r]) = Len(queue[r]) - 1
      /\ \A i \in 1..Len(queue'[r]) : queue'[r][i] = queue[r][i + 1] /\ i + 1 \in 1..Len(queue[r])
      /\ 1 \in 1..Len(queue[r])
  BY DEF QueuesTyped
<1>2. running'[r].at = 0 /\ \A u \in UserIds : last[u][r] \in Nat /\ last[u][r] < running'[r].id
  BY <1>1 DEF OrderedIn, HistoryTyped
<1>3. running'[r].id \in Nat
  BY DEF Jobs
<1>. QED
  BY <1>1, <1>2, <1>3 DEF OrderedIn

\* The running broadcast is sent to the user m.
LEMMA SentOrdered ==
  ASSUME NEW r \in AllRooms, NEW m \in UserIds, OrderedIn(r), HistoryTyped, QueuesTyped,
         queue' = queue, posted' = posted, running[r] # NoJob, running[r].id \in Nat,
         m > running[r].at, running'[r] \in Jobs, running'[r].at = m, running'[r].id = running[r].id,
         last' = [last EXCEPT ![m][r] = running[r].id], running[r] \in Jobs
  PROVE  OrderedIn(r)'
<1>1. \A u \in UserIds : last'[u][r] = IF u = m THEN running[r].id ELSE last[u][r]
  BY DEF HistoryTyped
<1>2. running[r].at \in Nat /\ m \in Nat /\ UserIds \subseteq Nat /\ NoJob.op # running'[r].op
  BY Ids DEF Jobs, NoJob
<1>3. \A i \in 1..Len(queue[r]) : \A u \in UserIds : last'[u][r] < queue[r][i].id
  BY <1>1 DEF OrderedIn
<1>4. \A u \in UserIds : /\ last'[u][r] <= posted[r] /\ last'[u][r] <= running[r].id
                         /\ u > m => last'[u][r] < running[r].id
  BY <1>1, <1>2 DEF OrderedIn
<1>. QED
  BY <1>1, <1>3, <1>4 DEF OrderedIn

LEMMA ExecuteOrdered ==
  ASSUME Typed, HistoryTyped, Ordered, NEW r \in AllRooms, Execute(r), Hear(r)
  PROVE  Ordered' /\ Later /\ last' \in [UserIds -> [AllRooms -> Nat]] /\ told' \subseteq UserIds
<1>1. /\ queue \in [AllRooms -> Seq(Jobs)] /\ running \in [AllRooms -> Jobs \cup {NoJob}]
      /\ posted \in [AllRooms -> Nat] /\ last \in [UserIds -> [AllRooms -> Nat]]
      /\ users[r] \in SUBSET UserIds /\ told \subseteq UserIds
      /\ OrderedIn(r)
  BY DEF Typed, QueuesTyped, RoomsTyped, HistoryTyped, Ordered
<1>0. QueuesTyped /\ HistoryTyped
  BY DEF Typed
<1>2. CASE UNCHANGED <<queue, running, posted>>
  <2>1. last' = last /\ told' = told
    BY <1>2 DEF Hear
  <2>. QED
    BY <1>1, <1>2, <2>1, SameOrder DEF Later, Ordered
<1>3. CASE JobEnterOrLeave(r) /\ ~UNCHANGED <<queue, running, posted>>
  <2>1. /\ queue' = [queue EXCEPT ![r] = Tail(@)] /\ running' = running /\ posted' = posted
        /\ queue[r] # <<>>
    BY <1>3 DEF JobEnterOrLeave, Crash, queueVars, Due
  <2>2. last' = last /\ told' = told
    BY <2>1 DEF Hear
  <2>3. OrderedIn(r)'
    BY <1>0, <1>1, <2>1, <2>2, TailOrdered
  <2>. QED
    BY <1>1, <2>1, <2>2, <2>3, SameOrder DEF Later, Ordered
<1>4. CASE JobBroadcast(r)
  <2>1. /\ queue' = [queue EXCEPT ![r] = Tail(@)] /\ running' = [running EXCEPT ![r] = Head(queue[r])]
        /\ posted' = posted /\ queue[r] # <<>> /\ running[r] = NoJob
    BY <1>4 DEF JobBroadcast, Due
  <2>2. /\ Len(queue[r]) \in Nat /\ Len(queue[r]) > 0 /\ Head(queue[r]) = queue[r][1]
        /\ Head(queue[r]) \in Jobs
    BY <1>1, <2>1, HeadAndTail
  <2>3. running'[r].at = 0 /\ running'[r] = queue[r][1]
    <3>1. running'[r] = queue[r][1]
      BY <1>1, <2>1, <2>2
    <3>2. queue[r][1].at = 0
      <4>1. 1 \in 1..Len(queue[r])
        BY <2>2
      <4>. QED
        BY <1>1, <4>1 DEF OrderedIn
    <3>. QED
      BY <3>1, <3>2
  <2>4. last' = last /\ told' = told
    BY <2>3 DEF Hear
  <2>5. OrderedIn(r)'
    BY <1>1, <2>1, <2>2, <2>3, <2>4, <1>0, FirstOrdered
  <2>. QED
    BY <1>1, <2>1, <2>3, <2>4, <2>5, SameOrder DEF Later, Ordered
<1>5. CASE BroadcastNext(r) /\ ~UNCHANGED <<queue, running, posted>>
  <2>. DEFINE rest == {u \in users[r] : u > running[r].at}
              m    == Min(rest)
  <2>1. /\ queue' = queue /\ posted' = posted /\ running[r].op = "broadcast"
        /\ \/ running' = [running EXCEPT ![r] = NoJob]
           \/ rest # {} /\ running' = [running EXCEPT ![r].at = m]
    BY <1>5 DEF BroadcastNext, Crash, queueVars
  <2>2. CASE running' = [running EXCEPT ![r] = NoJob]
    <3>1. running'[r] = NoJob /\ running'[r].at = 0
      BY <1>1, <2>2 DEF NoJob
    <3>2. last' = last /\ told' = told
      BY <3>1 DEF Hear
    <3>3. OrderedIn(r)'
      BY <1>1, <2>1, <3>1, <3>2 DEF OrderedIn
    <3>. QED
      BY <1>1, <2>1, <2>2, <3>1, <3>2, <3>3, SameOrder DEF Later, Ordered
  <2>3. CASE rest # {} /\ running' = [running EXCEPT ![r].at = m]
    <3>1. m \in UserIds /\ m > running[r].at
      <4>1. rest \in SUBSET UserIds
        BY <1>1
      <4>2. m \in rest
        <5>. HIDE DEF rest
        <5>. QED
          BY <2>3, <4>1, MinFact
      <4>. QED
        BY <1>1, <4>2
    <3>. HIDE DEF rest, m
    <3>2. running[r] \in Jobs /\ running[r] # NoJob
      BY <1>1, <2>1 DEF NoJob
    <3>3. running'[r] = [running[r] EXCEPT !.at = m]
      BY <1>1, <2>3
    <3>4. running'[r].at = m /\ running'[r].id = running[r].id /\ running'[r] \in Jobs
      BY <3>1, <3>2, <3>3, Ids DEF Jobs
    <3>5. last' = [last EXCEPT ![m][r] = running[r].id] /\ told' \subseteq UserIds
      BY <1>1, <3>1, <3>2, <3>4, Ids DEF Hear, Jobs
    <3>6. running[r].id \in Nat
      BY <3>2 DEF Jobs
    <3>7. last' \in [UserIds -> [AllRooms -> Nat]] /\ last'[m][r] = running[r].id
      BY <1>1, <3>1, <3>5, <3>6
    <3>8. last[m][r] < running[r].id
      BY <1>1, <3>1, <3>2 DEF OrderedIn
    <3>9. OrderedIn(r)'
      BY <1>1, <2>1, <3>1, <3>2, <3>4, <3>5, <3>6, <3>7, <3>8, <1>0, SentOrdered
    <3>10. \A q \in AllRooms \ {r} :
             OrderedIn(q)' /\ running'[q] = running[q]
      BY <1>1, <2>1, <2>3, <3>5, SameOrder
    <3>. QED
      BY <1>1, <3>4, <3>5, <3>7, <3>8, <3>9, <3>10 DEF Later, Ordered
  <2>. QED
    BY <2>1, <2>2, <2>3
<1>6. CASE BroadcastWild(r) \/ ExecuteEnd(r) \/ ExecuteTimeout(r)
  BY <1>2, <1>6 DEF BroadcastWild, ExecuteEnd, ExecuteTimeout, Crash, queueVars
<1>. QED
  BY <1>2, <1>3, <1>4, <1>5, <1>6 DEF Execute

-----------------------------------------------------------------------------
\* What LedAstray and CrowdedOut name are users.
LEMMA AstrayTyped ==
  ASSUME Typed
  PROVE  /\ \A s \in Sessions : LedAstray(s) \subseteq UserIds \cup {None}
         /\ \A r \in AllRooms : CrowdedOut(r) \subseteq UserIds \cup {None}
<1>1. ASSUME NEW s \in Sessions PROVE LedAstray(s) \subseteq UserIds \cup {None}
  <2>1. /\ user[s] \in UserIds \cup {None}
        /\ At(s, "loseMove") \/ At(s, "loseEnter") => call[s].user \in UserIds
    BY DEF Typed, SessionsTyped, CallsTyped, At, Hitting
  <2>. QED
    BY <2>1 DEF LedAstray
<1>2. ASSUME NEW r \in AllRooms PROVE CrowdedOut(r) \subseteq UserIds \cup {None}
  <2>1. Due(r) => Head(queue[r]).user \in UserIds \cup {None}
    BY HeadAndTail DEF Typed, QueuesTyped, Due, Jobs
  <2>. QED
    BY <2>1 DEF CrowdedOut
<1>. QED
  BY <1>1, <1>2

OrderInv == Typed /\ HistoryTyped /\ Ordered

LEMMA InitOrder == Init => OrderInv
<1>. SUFFICES ASSUME Init PROVE OrderInv
  OBVIOUS
<1>1. SessionsTyped
  BY DEF Init, SessionsTyped, Phases
<1>2. UsersTyped
  <2>1. FullHp \in Int /\ 0 \in 0..MaxLogins
    BY GameServerAssumption
  <2>. QED
    BY <2>1 DEF Init, UsersTyped
<1>3. RoomsTyped
  BY DEF Init, RoomsTyped
<1>4. QueuesTyped
  <2>1. queue = [r \in AllRooms |-> <<>>]
    BY Zenon DEF Init
  <2>2. queue \in [AllRooms -> Seq(Jobs)]
    <3>. HIDE DEF Jobs
    <3>1. <<>> \in Seq(Jobs)
      OBVIOUS
    <3>. QED
      BY <2>1, <3>1
  <2>3. posted = [r \in AllRooms |-> 0] /\ 0 \in Nat
    BY DEF Init
  <2>4. posted \in [AllRooms -> Nat]
    BY <2>3
  <2>5. running \in [AllRooms -> Jobs \cup {NoJob}] /\ executor \in [AllRooms -> Threads]
    BY DEF Init, Threads
  <2>. QED
    BY <2>2, <2>4, <2>5 DEF QueuesTyped
<1>5. CallsTyped
  <2>1. NoCall \in CallType /\ NoCall.at = "idle"
    BY DEF NoCall, CallType, Labels
  <2>2. call = [s \in Sessions |-> NoCall]
    BY DEF Init
  <2>3. requests \in [Sessions -> Nat]
    BY DEF Init
  <2>. HIDE DEF NoCall
  <2>. QED
    BY <2>1, <2>2, <2>3 DEF CallsTyped, Hitting, Starting
<1>6. HistoryTyped
  <2>1. last = [u \in UserIds |-> [r \in AllRooms |-> 0]] /\ told = {} /\ astray = {}
    BY DEF Init
  <2>. QED
    BY <2>1 DEF HistoryTyped
<1>7. Ordered
  <2>. SUFFICES ASSUME NEW r \in AllRooms PROVE OrderedIn(r)
    BY DEF Ordered
  <2>1. Len(queue[r]) = 0 /\ running[r] = NoJob
    <3>1. queue[r] = <<>> /\ running[r] = NoJob
      BY DEF Init
    <3>. QED
      BY <3>1
  <2>2. posted[r] = 0 /\ \A u \in UserIds : last[u][r] = 0
    BY DEF Init
  <2>. QED
    BY <2>1, <2>2 DEF OrderedIn
<1>8. crash = ""
  BY DEF Init
<1>. QED
  BY <1>1, <1>2, <1>3, <1>4, <1>5, <1>6, <1>7, <1>8 DEF OrderInv, Typed

LEMMA NextOrder == OrderInv /\ [Next]_vars => OrderInv' /\ (Later \/ UNCHANGED vars)
<1>. SUFFICES ASSUME OrderInv, [Next]_vars PROVE OrderInv' /\ (Later \/ UNCHANGED vars)
  OBVIOUS
<1>. USE DEF OrderInv
<1>1. ASSUME NEW r \in AllRooms, Execute(r), Hear(r), astray' = astray \cup CrowdedOut(r)
      PROVE  OrderInv' /\ Later
  BY <1>1, ExecuteTyped, ExecuteOrdered, AstrayTyped DEF HistoryTyped
<1>2. ASSUME JobsCome, last' = last
      PROVE  Later
  BY <1>2 DEF JobsCome, Later
<1>3. ASSUME NEW s \in Sessions, Handler(s), astray' = astray \cup LedAstray(s), UNCHANGED <<last, told>>
      PROVE  OrderInv' /\ Later
  <2>1. Typed' /\ JobsCome
    BY <1>3, HandlerTyped, HandlerComes
  <2>2. HistoryTyped'
    BY <1>3, AstrayTyped DEF HistoryTyped
  <2>3. Ordered'
    BY <1>3, <2>1, ComesOrdered DEF Typed
  <2>. QED
    BY <1>2, <1>3, <2>1, <2>2, <2>3
<1>4. ASSUME NEW s \in Sessions, End(s), UNCHANGED history
      PROVE  OrderInv' /\ Later
  <2>1. Typed' /\ JobsCome
    BY <1>4, EndTyped, EndComes
  <2>2. HistoryTyped' /\ last' = last
    BY <1>4 DEF HistoryTyped, history
  <2>3. Ordered'
    BY <2>1, <2>2, ComesOrdered DEF Typed
  <2>. QED
    BY <1>2, <2>1, <2>2, <2>3
<1>5. CASE UNCHANGED vars
  <2>1. SessionsTyped' /\ UsersTyped' /\ RoomsTyped' /\ QueuesTyped'
    BY <1>5 DEF vars, sessionVars, userVars, roomVars, queueVars, Typed, SessionsTyped, UsersTyped,
                RoomsTyped, QueuesTyped
  <2>2. CallsTyped' /\ HistoryTyped' /\ crash' = crash
    BY <1>5, SameCalls DEF vars, history, Typed, HistoryTyped
  <2>3. Ordered'
    BY <1>5, SameOrder DEF vars, queueVars, history, Ordered
  <2>. QED
    BY <1>5, <2>1, <2>2, <2>3 DEF Typed
<1>. QED
  BY <1>1, <1>3, <1>4, <1>5 DEF Next

\* Every variable of GameServer keeps its type.
THEOREM TypeCorrect == Spec => []TypeOK
<1>1. OrderInv => TypeOK
  BY DEF OrderInv, Typed, SessionsTyped, UsersTyped, RoomsTyped, QueuesTyped, CallsTyped, CallType,
         HistoryTyped, TypeOK
<1>. QED
  BY <1>1, InitOrder, NextOrder, PTL DEF Spec

\* For any number of sessions, rooms and packets, a user is sent the broadcasts
\* of a room in the order in which they were posted, and none twice.
THEOREM OneOrder == Spec => InOneOrder
<1>1. OrderInv /\ [Next]_vars =>
        [\A r \in AllRooms : running[r].at # running'[r].at /\ running'[r].at # 0 =>
           LET u == running'[r].at IN last'[u][r] > last[u][r]]_vars
  BY NextOrder DEF Later
<1>. QED
  BY <1>1, InitOrder, NextOrder, PTL DEF Spec, InOneOrder
-----------------------------------------------------------------------------
(* Who is in which room. *)

\* The users that Login has made.
Made == 1..logins

\* What the jobs q does to u: an Enter or a Leave of u is among them; the last of
\* these is an Enter; there is no second Enter.
Has(q, op, u) == \E i \in DOMAIN q : q[i].op = op /\ q[i].user = u

Joins(q, u) ==
  \E i \in DOMAIN q :
    /\ q[i].op = "enter" /\ q[i].user = u
    /\ \A k \in DOMAIN q : k > i => ~(q[k].op = "leave" /\ q[k].user = u)

Once(q, u) ==
  \A i, k \in DOMAIN q :
    q[i].op = "enter" /\ q[i].user = u /\ q[k].op = "enter" /\ q[k].user = u => i = k

\* u will be in r when its jobs are done, if r is not full.
Bound(r, u) == (u \in users[r] /\ ~Has(queue[r], "leave", u)) \/ Joins(queue[r], u)

Creating == {"createLeave", "createEnter"}
Entering == {"enterJoin", "enterMove", "enterLeave"}
Fighting == {"hitLoad", "hitStore", "lose", "loseLeave", "loseMove"}

\* A user belongs to one session, which has no other before its end.
Acquainted ==
  /\ \A r \in AllRooms : users[r] \subseteq Made
  /\ \A r \in AllRooms : \A u \in UserIds :
       Has(queue[r], "enter", u) \/ Has(queue[r], "leave", u) => u \in Made
  /\ \A u \in Made : owner[u] \in Sessions
  /\ \A s \in Sessions :
       /\ user[s] # None => user[s] \in Made /\ owner[user[s]] = s
       /\ call[s].at \in Hitting => call[s].user \in Made
       /\ ~Over(s) => /\ user[s] = None <=> room[s] = None
                      /\ call[s].at # "idle" => user[s] # None
                      /\ \A u \in Made : owner[u] = s => user[s] = u

\* Nobody has to do with a room before it is made.
Unused ==
  \A r \in Rooms \ roomMap :
    /\ users[r] = {}
    /\ \A u \in UserIds : ~Has(queue[r], "enter", u) /\ ~Has(queue[r], "leave", u)
    /\ \A s \in Sessions : room[s] # r /\ call[s].room # r

\* A handler's room is one of the map, and a fight is in one that has started.
CallRooms ==
  \A s \in Sessions :
    /\ call[s].at \in Creating \cup Entering \cup Hitting => call[s].room \in roomMap
    /\ call[s].at \in Fighting => started[call[s].room]

\* The room of a session whose handler moves it.
SessionRooms ==
  \A s \in Sessions :
    /\ At(s, "winEnter") => user[s] \in astray \cup {None}
    /\ ~Over(s) /\ user[s] \notin astray \cup {None} =>
         /\ call[s].at \in Creating \cup {"enterLeave"} => room[s] = call[s].room
         /\ call[s].at \in {"createMake", "enterMove"} => room[s] = Lobby

\* Only the end of a session has it leave a room that is not the lobby by a job.
LeavesAtEnd ==
  \A r \in Rooms : \A u \in Made \ astray : Has(queue[r], "leave", u) => Over(owner[u])

\* An Enter of such a room is its creator's first, and only one.
EntersOnce ==
  \A r \in Rooms : \A u \in Made \ astray :
    (Has(queue[r], "enter", u) => u \notin users[r]) /\ Once(queue[r], u)

NotThereYet ==
  \A s \in Sessions :
    call[s].at \in Creating /\ ~Over(s) /\ user[s] \notin astray \cup {None} =>
      user[s] \notin users[call[s].room] /\ ~Has(queue[call[s].room], "enter", user[s])

\* A user goes to the room of its session, except while a handler moves it.
Placed ==
  \A r \in AllRooms : \A u \in Made \ astray : Bound(r, u) =>
    LET s == owner[u] IN
      \/ ~Over(s) /\ room[s] = r
      \/ r = Lobby /\ call[s].at \in {"createLeave", "enterLeave"} /\ user[s] \in {u, None}
      \/ r = call[s].room /\ At(s, "enterMove") /\ user[s] \in {u, None}
      \/ r = Lobby /\ Has(queue[r], "leave", None)

\* A player who is hit does not come to that room once more.
HitOnce ==
  \A t \in Sessions : call[t].at \in Fighting /\ call[t].user \notin astray =>
    LET u == call[t].user
        s == owner[u]
        r == call[t].room
    IN /\ At(s, "enterJoin") /\ call[s].room = r => Over(s) \/ room[s] # Lobby
       /\ ~(call[s].at \in Creating /\ call[s].room = r /\ ~Over(s))
       /\ ~Has(queue[r], "enter", u)
       /\ At(t, "loseMove") => u \notin users[r]

\* About to be sent to the lobby, having lost.
Losing(u) == \E t \in Sessions : At(t, "loseMove") /\ call[t].user = u

\* A session whose room is r is a member of r, or a handler makes it one.
InItsRoom ==
  \A s \in Sessions : ~Over(s) /\ user[s] \notin astray \cup {None} =>
    /\ room[s] \in Rooms =>
         \/ user[s] \in users[room[s]] \/ Has(queue[room[s]], "enter", user[s])
         \/ call[s].at \in Creating \/ Losing(user[s])
    /\ At(s, "enterMove") => user[s] \in users[call[s].room] \/ Losing(user[s])

RoomInv ==
  /\ Acquainted /\ Unused /\ CallRooms /\ SessionRooms
  /\ LeavesAtEnd /\ EntersOnce /\ NotThereYet /\ Placed /\ HitOnce /\ InItsRoom

-----------------------------------------------------------------------------
(* Queues of jobs. *)

LEMMA AppendFacts ==
  ASSUME NEW q \in Seq(Jobs), NEW job \in Jobs, NEW u
  PROVE  /\ \A op : Has(Append(q, job), op, u) <=> Has(q, op, u) \/ (job.op = op /\ job.user = u)
         /\ Joins(Append(q, job), u) <=>
              IF job.op \in {"enter", "leave"} /\ job.user = u THEN job.op = "enter" ELSE Joins(q, u)
         /\ Once(q, u) /\ ~(job.op = "enter" /\ job.user = u /\ Has(q, "enter", u))
              => Once(Append(q, job), u)
<1>. DEFINE new == Append(q, job)
<1>1. PICK n \in Nat : n = Len(q)
  OBVIOUS
<1>2. /\ DOMAIN q = 1..n /\ DOMAIN new = 1..n + 1
      /\ new[n + 1] = job /\ \A i \in 1..n : new[i] = q[i]
  BY <1>1
<1>. HIDE DEF new
<1>3. \A op : Has(new, op, u) <=> Has(q, op, u) \/ (job.op = op /\ job.user = u)
  <2>. SUFFICES ASSUME NEW op PROVE Has(new, op, u) <=> Has(q, op, u) \/ (job.op = op /\ job.user = u)
    OBVIOUS
  <2>1. \A i \in 1..n + 1 : i \in 1..n \/ i = n + 1
    OBVIOUS
  <2>. QED
    BY <1>2, <2>1 DEF Has
<1>4. Joins(new, u) <=>
        IF job.op \in {"enter", "leave"} /\ job.user = u THEN job.op = "enter" ELSE Joins(q, u)
  BY <1>2 DEF Joins
<1>5. Once(q, u) /\ ~(job.op = "enter" /\ job.user = u /\ Has(q, "enter", u)) => Once(new, u)
  BY <1>2 DEF Once, Has
<1>. QED
  BY <1>3, <1>4, <1>5 DEF new

LEMMA TailFacts ==
  ASSUME NEW q \in Seq(Jobs), q # <<>>, NEW u
  PROVE  /\ \A op : Has(q, op, u) <=> Has(Tail(q), op, u) \/ (Head(q).op = op /\ Head(q).user = u)
         /\ Joins(Tail(q), u) => Joins(q, u)
         /\ Joins(q, u) => Joins(Tail(q), u) \/ (Head(q).op = "enter" /\ Head(q).user = u)
         /\ Head(q).op = "enter" /\ Head(q).user = u =>
              /\ ~Has(Tail(q), "leave", u) => Joins(q, u)
              /\ Once(q, u) => ~Has(Tail(q), "enter", u)
         /\ Once(q, u) => Once(Tail(q), u)
<1>. DEFINE rest == Tail(q)
<1>1. PICK n \in Nat : n + 1 = Len(q)
  OBVIOUS
<1>2. /\ DOMAIN q = 1..n + 1 /\ DOMAIN rest = 1..n
      /\ q[1] = Head(q) /\ \A i \in 1..n : rest[i] = q[i + 1]
  BY <1>1
<1>3. \A i \in 1..n + 1 : i = 1 \/ \E k \in 1..n : i = k + 1
  <2>1. ASSUME NEW i \in 1..n + 1, i # 1 PROVE i - 1 \in 1..n /\ i = (i - 1) + 1
    BY <2>1
  <2>. QED
    BY <2>1
<1>. HIDE DEF rest
<1>9. \A k \in 1..n : k + 1 \in 1..n + 1 /\ rest[k] = q[k + 1]
  BY <1>2
<1>4. ASSUME NEW op
      PROVE  Has(q, op, u) <=> Has(rest, op, u) \/ (Head(q).op = op /\ Head(q).user = u)
  <2>1. ASSUME NEW i \in 1..n + 1, i # 1, q[i].op = op, q[i].user = u PROVE Has(rest, op, u)
    BY <1>2, <1>3, <1>9, <2>1 DEF Has
  <2>2. ASSUME NEW k \in 1..n, rest[k].op = op, rest[k].user = u PROVE Has(q, op, u)
    BY <1>2, <1>9, <2>2 DEF Has
  <2>3. 1 \in 1..n + 1 /\ q[1] = Head(q)
    BY <1>2
  <2>. QED
    BY <1>2, <2>1, <2>2, <2>3 DEF Has
<1>5. Joins(rest, u) => Joins(q, u)
  <2>. SUFFICES ASSUME NEW i \in 1..n, rest[i].op = "enter", rest[i].user = u,
                       \A k \in 1..n : k > i => ~(rest[k].op = "leave" /\ rest[k].user = u)
                PROVE  Joins(q, u)
    BY <1>2 DEF Joins
  <2>1. i + 1 \in 1..n + 1 /\ q[i + 1].op = "enter" /\ q[i + 1].user = u
    BY <1>2
  <2>2. \A k \in 1..n + 1 : k > i + 1 => ~(q[k].op = "leave" /\ q[k].user = u)
    <3>. SUFFICES ASSUME NEW k \in 1..n + 1, k > i + 1 PROVE ~(q[k].op = "leave" /\ q[k].user = u)
      OBVIOUS
    <3>1. PICK m \in 1..n : k = m + 1
      BY <1>3
    <3>2. m > i
      BY <3>1
    <3>. QED
      BY <1>9, <3>1, <3>2
  <2>. QED
    BY <1>2, <2>1, <2>2 DEF Joins
<1>8. Joins(q, u) => Joins(rest, u) \/ (Head(q).op = "enter" /\ Head(q).user = u)
  <2>. SUFFICES ASSUME NEW i \in 1..n + 1, i # 1, q[i].op = "enter", q[i].user = u,
                       \A k \in 1..n + 1 : k > i => ~(q[k].op = "leave" /\ q[k].user = u)
                PROVE  Joins(rest, u)
    BY <1>2 DEF Joins
  <2>1. PICK m \in 1..n : i = m + 1
    BY <1>3
  <2>2. ASSUME NEW k \in 1..n, k > m PROVE ~(rest[k].op = "leave" /\ rest[k].user = u)
    <3>1. k + 1 \in 1..n + 1 /\ k + 1 > i /\ rest[k] = q[k + 1]
      BY <1>9, <2>1, <2>2
    <3>. QED
      BY <3>1
  <2>. QED
    BY <1>2, <1>9, <2>1, <2>2 DEF Joins
<1>6. Head(q).op = "enter" /\ Head(q).user = u =>
        /\ ~Has(rest, "leave", u) => Joins(q, u)
        /\ Once(q, u) => ~Has(rest, "enter", u)
  <2>. SUFFICES ASSUME Head(q).op = "enter", Head(q).user = u
                PROVE  /\ ~Has(rest, "leave", u) => Joins(q, u)
                       /\ Once(q, u) => ~Has(rest, "enter", u)
    OBVIOUS
  <2>1. 1 \in 1..n + 1 /\ q[1].op = "enter" /\ q[1].user = u
    BY <1>2
  <2>2. ASSUME ~Has(rest, "leave", u) PROVE Joins(q, u)
    <3>1. \A k \in 1..n + 1 : k > 1 => ~(q[k].op = "leave" /\ q[k].user = u)
      BY <1>2, <1>3, <2>2 DEF Has
    <3>. QED
      BY <1>2, <2>1, <3>1 DEF Joins
  <2>3. ASSUME Once(q, u), NEW k \in 1..n, rest[k].op = "enter", rest[k].user = u PROVE FALSE
    <3>1. k + 1 \in 1..n + 1 /\ k + 1 # 1 /\ q[k + 1].op = "enter" /\ q[k + 1].user = u
      BY <1>2, <2>3
    <3>. QED
      BY <1>2, <2>1, <2>3, <3>1 DEF Once
  <2>. QED
    BY <1>2, <2>2, <2>3 DEF Has
<1>7. Once(q, u) => Once(rest, u)
  <2>. SUFFICES ASSUME Once(q, u), NEW i \in 1..n, NEW k \in 1..n, rest[i].op = "enter",
                       rest[i].user = u, rest[k].op = "enter", rest[k].user = u
                PROVE  i = k
    BY <1>2 DEF Once
  <2>1. i + 1 = k + 1
    BY <1>2, <1>9 DEF Once
  <2>. QED
    BY <2>1
<1>. QED
  BY <1>4, <1>5, <1>6, <1>7, <1>8 DEF rest

LEMMA JoinsFacts ==
  ASSUME NEW q, NEW u
  PROVE  /\ Joins(q, u) => Has(q, "enter", u)
         /\ Has(q, "enter", u) /\ ~Has(q, "leave", u) => Joins(q, u)
         /\ ~Has(q, "enter", u) => Once(q, u)
  BY DEF Joins, Has, Once

\* What r->DoAsync adds to the jobs of a room.
Posts(q, op, u) ==
  \A r \in AllRooms : \A v \in UserIds \cup {None} :
    /\ \A o \in {"enter", "leave", "broadcast"} :
         Has(queue'[r], o, v) <=> Has(queue[r], o, v) \/ (r = q /\ o = op /\ v = u)
    /\ Joins(queue'[r], v) <=>
         IF r = q /\ v = u /\ op # "broadcast" THEN op = "enter" ELSE Joins(queue[r], v)
    /\ Once(queue[r], v) /\ ~(r = q /\ op = "enter" /\ v = u /\ Has(queue[r], "enter", v))
         => Once(queue'[r], v)

LEMMA PostFacts ==
  ASSUME Typed, NEW thread, NEW q, NEW op \in {"enter", "leave", "broadcast"},
         NEW u \in UserIds \cup {None}, Post(thread, q, op, u)
  PROVE  Posts(q, op, u)
<1>. SUFFICES ASSUME NEW r \in AllRooms, NEW v \in UserIds \cup {None}
     PROVE  /\ \A o \in {"enter", "leave", "broadcast"} :
                 Has(queue'[r], o, v) <=> Has(queue[r], o, v) \/ (r = q /\ o = op /\ v = u)
            /\ Joins(queue'[r], v) <=>
                 IF r = q /\ v = u /\ op # "broadcast" THEN op = "enter" ELSE Joins(queue[r], v)
            /\ Once(queue[r], v) /\ ~(r = q /\ op = "enter" /\ v = u /\ Has(queue[r], "enter", v))
                 => Once(queue'[r], v)
  BY DEF Posts
<1>1. queue' = [queue EXCEPT ![q] = Append(@, Job(q, op, u))] /\ queue[r] \in Seq(Jobs)
  BY DEF Post, Typed, QueuesTyped
<1>2. CASE r # q
  <2>1. queue'[r] = queue[r]
    BY <1>1, <1>2
  <2>. QED
    BY <1>2, <2>1
<1>3. CASE r = q
  <2>0. Job(q, op, u) \in Jobs
    <3>1. q \in AllRooms /\ posted[q] \in Nat
      BY <1>3 DEF Typed, QueuesTyped
    <3>. QED
      BY <3>1 DEF Job, Jobs
  <2>1. PICK job \in Jobs : job = Job(q, op, u) /\ job.op = op /\ job.user = u
    BY <2>0 DEF Job
  <2>2. queue'[r] = Append(queue[r], job)
    BY <1>1, <1>3, <2>1 DEF Typed, QueuesTyped
  <2>. QED
    BY <1>1, <1>3, <2>1, <2>2, AppendFacts
<1>. QED
  BY <1>2, <1>3

-----------------------------------------------------------------------------
(* Calls. *)

\* The handler of s is at `label' with this room and this user; the others are
\* where they were.
Calls(s, label, r, u) ==
  /\ call'[s].at = label /\ call'[s].room = r /\ call'[s].user = u
  /\ \A x \in Sessions \ {s} : call'[x] = call[x]

LEMMA CallFacts ==
  ASSUME Typed, NEW s \in Sessions
  PROVE  /\ \A label : Go(s, label) => Calls(s, label, call[s].room, call[s].user)
         /\ \A kind, label, r, u : Packet(s, kind, label, r, u) =>
              At(s, "idle") /\ phase[s] # "gone" /\ Calls(s, label, r, u)
         /\ \A label, u, h, seen : Hold(s, label, u, h, seen) => Calls(s, label, call[s].room, u)
         /\ Return(s) => Calls(s, "idle", None, None)
<1>1. call \in [Sessions -> CallType]
  BY DEF Typed, CallsTyped
<1>2. ASSUME NEW label, Go(s, label) PROVE Calls(s, label, call[s].room, call[s].user)
  BY <1>1, <1>2 DEF Go, Calls, CallType
<1>3. ASSUME NEW kind, NEW label, NEW r, NEW u, Packet(s, kind, label, r, u)
      PROVE  At(s, "idle") /\ phase[s] # "gone" /\ Calls(s, label, r, u)
  BY <1>1, <1>3 DEF Packet, Comes, Calls
<1>4. ASSUME NEW label, NEW u, NEW h, NEW seen, Hold(s, label, u, h, seen)
      PROVE  Calls(s, label, call[s].room, u)
  BY <1>1, <1>4 DEF Hold, Calls
<1>5. ASSUME Return(s) PROVE Calls(s, "idle", None, None)
  BY <1>1, <1>5 DEF Return, Calls, NoCall
<1>. QED
  BY <1>2, <1>3, <1>4, <1>5

\* The sets the model's values are in.
Values ==
  /\ Made \subseteq UserIds /\ Rooms \subseteq AllRooms /\ Lobby \in AllRooms \ Rooms
  /\ roomMap \subseteq Rooms /\ AllRooms \ {Lobby} = Rooms
  /\ None \notin UserIds \cup AllRooms \cup Sessions
  /\ \A s \in Sessions :
       /\ user[s] \in UserIds \cup {None} /\ room[s] \in AllRooms \cup {None}
       /\ call[s].at \in Labels /\ call[s].room \in AllRooms \cup {None}

LEMMA ValuesFact == Typed => Values
<1>. SUFFICES ASSUME Typed PROVE Values
  OBVIOUS
<1>1. Made \subseteq UserIds
  <2>1. logins \in 0..MaxLogins
    BY DEF Typed, UsersTyped
  <2>2. MaxLogins \in Nat
    BY GameServerAssumption
  <2>. QED
    BY <2>1, <2>2 DEF Made, UserIds
<1>2. /\ Rooms \subseteq AllRooms /\ Lobby \in AllRooms \ Rooms /\ AllRooms \ {Lobby} = Rooms
      /\ None \notin UserIds \cup AllRooms \cup Sessions
  BY GameServerAssumption DEF AllRooms, UserIds
<1>. QED
  BY <1>1, <1>2 DEF Values, Typed, SessionsTyped, RoomsTyped, CallsTyped, CallType

-----------------------------------------------------------------------------
(* The steps that move nobody. *)

\* A handler that stays where no user is moved, or goes on with a hit.
Calm(x) ==
  \/ call'[x] = call[x]
  \/ /\ call[x].at \notin Creating \cup {"enterMove", "enterLeave", "loseMove"}
     /\ call'[x].at \in {"idle", "loginAdd", "readyToggle", "broadcast", "actRead", "startPlaces",
                         "startEach", "count", "report"}
     /\ call'[x].at = "idle" \/ Over(x) \/ user[x] # None
     /\ call'[x].room \notin Rooms \ roomMap
  \/ /\ call[x].at \in Fighting \ {"loseMove"} /\ call'[x].at \in Fighting \ {"loseMove"}
     /\ call'[x].room = call[x].room /\ call'[x].user = call[x].user

SameJobs ==
  \A r \in AllRooms : \A v \in UserIds \cup {None} :
    /\ \A o \in {"enter", "leave"} : Has(queue'[r], o, v) <=> Has(queue[r], o, v)
    /\ Joins(queue'[r], v) <=> Joins(queue[r], v)
    /\ Once(queue[r], v) => Once(queue'[r], v)

Quiet ==
  /\ UNCHANGED <<user, room, owner, logins, users, roomMap>>
  /\ \A x \in Sessions : (Over(x)' <=> Over(x)) /\ Calm(x)
  /\ \A r \in AllRooms : started[r] => started'[r]
  /\ astray \subseteq astray' /\ SameJobs

LEMMA QuietStep ==
  ASSUME Values, RoomInv, Quiet
  PROVE  RoomInv'
<1>. USE DEF RoomInv, Quiet, At
<1>1. Made' = Made
  BY DEF Made
<1>2. Acquainted'
  BY <1>1 DEF Acquainted, SameJobs, Values, Calm, Hitting, Fighting
<1>3. Unused'
  BY DEF Unused, SameJobs, Values, Calm
<1>4. CallRooms'
  BY DEF CallRooms, Values, Calm, Creating, Entering, Hitting, Fighting
<1>5. SessionRooms'
  BY DEF SessionRooms, Values, Calm, Creating, Fighting
<1>6. LeavesAtEnd'
  BY <1>1 DEF LeavesAtEnd, SameJobs, Values, Acquainted
<1>7. EntersOnce'
  BY <1>1 DEF EntersOnce, SameJobs, Values
<1>8. NotThereYet'
  BY DEF NotThereYet, SameJobs, Values, Calm, Creating, Fighting, CallRooms
<1>9. Placed'
  <2>. SUFFICES ASSUME NEW r \in AllRooms, NEW u \in Made \ astray', Bound(r, u)',
                       NEW s \in Sessions, s = owner[u]
                PROVE  \/ ~Over(s)' /\ room'[s] = r
                       \/ r = Lobby /\ call'[s].at \in {"createLeave", "enterLeave"} /\ user'[s] \in {u, None}
                       \/ r = call'[s].room /\ call'[s].at = "enterMove" /\ user'[s] \in {u, None}
                       \/ r = Lobby /\ Has(queue'[r], "leave", None)
    BY <1>1 DEF Placed, Acquainted
  <2>1. Bound(r, u)
    BY DEF Bound, SameJobs, Values
  <2>. QED
    BY <2>1 DEF Placed, SameJobs, Calm, Values, Creating, Fighting
<1>10. HitOnce'
  <2>. SUFFICES ASSUME NEW t \in Sessions, call'[t].at \in Fighting, NEW u \in Made \ astray', u = call[t].user,
                       call'[t].user = u, call'[t].room = call[t].room,
                       NEW s \in Sessions, s = owner[u], NEW r \in roomMap, r = call[t].room
                PROVE  /\ call'[s].at = "enterJoin" /\ call'[s].room = r => Over(s)' \/ room'[s] # Lobby
                       /\ ~(call'[s].at \in Creating /\ call'[s].room = r /\ ~Over(s)')
                       /\ ~Has(queue'[r], "enter", u)
                       /\ call'[t].at = "loseMove" => u \notin users'[r]
    BY <1>1, <1>2, <1>4 DEF HitOnce, Acquainted, CallRooms, Calm, Fighting, Hitting
  <2>. QED
    BY DEF HitOnce, SameJobs, Calm, Values, Creating, Fighting
<1>11. InItsRoom'
  <2>1. \A u : Losing(u) => Losing(u)'
    BY DEF Losing, Calm, Fighting
  <2>. QED
    BY <2>1 DEF InItsRoom, SameJobs, Calm, Values, Creating, Fighting, CallRooms, Entering
<1>. QED
  BY <1>2, <1>3, <1>4, <1>5, <1>6, <1>7, <1>8, <1>9, <1>10, <1>11

LEMMA SameQueue == queue' = queue => SameJobs
  BY DEF SameJobs

LEMMA BroadcastJob ==
  ASSUME NEW q, NEW u, Posts(q, "broadcast", u)
  PROVE  SameJobs
  BY DEF Posts, SameJobs

LEMMA CrashQuiet ==
  ASSUME NEW why, Crash(why), astray \subseteq astray'
  PROVE  Quiet
<1>1. UNCHANGED <<user, room, phase, owner, logins, users, roomMap, started, queue, call>>
  BY DEF Crash, sessionVars, userVars, roomVars, queueVars
<1>. QED
  BY <1>1, SameQueue DEF Quiet, Calm, Over

\* Only the label of s changes, or its call ends.
LEMMA CallQuiet ==
  ASSUME Values, RoomInv, NEW s \in Sessions, NEW label, NEW r, NEW u, Calls(s, label, r, u),
         call[s].at \notin Creating \cup {"enterMove", "enterLeave", "loseMove"},
         label \in {"idle", "loginAdd", "readyToggle", "broadcast", "actRead", "startPlaces",
                    "startEach", "count", "report"},
         label = "idle" \/ Over(s) \/ user[s] # None \/ call[s].at # "idle",
         r \in {None, call[s].room, room[s]},
         UNCHANGED <<user, room, phase, owner, logins, users, roomMap>>,
         \A q \in AllRooms : started[q] => started'[q],
         astray \subseteq astray', SameJobs
  PROVE  Quiet
<1>1. Calm(s)
  <2>1. Over(s) \/ user[s] # None \/ label = "idle"
    BY DEF RoomInv, Acquainted
  <2>2. r \notin Rooms \ roomMap
    BY DEF RoomInv, Unused, Values
  <2>. QED
    BY <2>1, <2>2 DEF Calm, Calls
<1>2. \A x \in Sessions \ {s} : Calm(x)
  BY DEF Calls, Calm
<1>. QED
  BY <1>1, <1>2 DEF Quiet, Over

LEMMA PacketQuiet ==
  ASSUME Typed, Values, RoomInv, NEW s \in Sessions, astray \subseteq astray',
         Ready(s) \/ Move(s) \/ Attack(s) \/ Start(s)
  PROVE  Quiet
<1>. USE DEF sessionVars, userVars, roomVars, queueVars
<1>1. CASE Crash("noRoom")
  BY <1>1, CrashQuiet
<1>2. CASE ~Crash("noRoom")
  <2>1. PICK kind \in {"READY", "MOVE", "ATTACK", "START"},
            label \in {"readyToggle", "broadcast", "actRead", "startPlaces"}, r \in {None, room[s]} :
               Packet(s, kind, label, r, None)
    <3>1. CASE Ready(s)
      BY <1>2, <3>1 DEF Ready
    <3>2. CASE Move(s)
      BY <3>2 DEF Move
    <3>3. CASE Attack(s)
      BY <1>2, <3>3 DEF Attack
    <3>4. CASE Start(s)
      BY <1>2, <3>4 DEF Start
    <3>. QED
      BY <3>1, <3>2, <3>3, <3>4
  <2>2. At(s, "idle") /\ Calls(s, label, r, None)
    BY <2>1, CallFacts
  <2>3. Over(s) \/ user[s] # None
    BY <1>2 DEF Ready, Move, Attack, Start, InRoom, RoomInv, Acquainted
  <2>4. /\ UNCHANGED <<user, room, phase, owner, logins, users, roomMap, queue>>
        /\ \A q \in AllRooms : started[q] => started'[q]
    BY <1>2 DEF Ready, Move, Attack, Start, Typed, RoomsTyped
  <2>. QED
    BY <2>2, <2>3, <2>4, SameQueue, CallQuiet DEF At, Creating
<1>. QED
  BY <1>1, <1>2

LEMMA PlainQuiet ==
  ASSUME Typed, Values, RoomInv, NEW s \in Sessions, astray \subseteq astray',
         LoginAdd(s) \/ ReadyToggle(s) \/ ActRead(s) \/ StartPlaces(s) \/ StartEach(s) \/ StartWild(s)
  PROVE  Quiet
<1>. USE DEF sessionVars, userVars, roomVars, queueVars
<1>1. CASE Crash("null") \/ Crash("noPlace") \/ Crash("iterator")
  BY <1>1, CrashQuiet
<1>2. CASE ~(Crash("null") \/ Crash("noPlace") \/ Crash("iterator"))
  <2>1. /\ call[s].at \in {"loginAdd", "readyToggle", "actRead", "startPlaces", "startEach"}
        /\ UNCHANGED <<user, room, phase, owner, logins, users, started, roomMap, queue>>
    BY <1>2 DEF LoginAdd, ReadyToggle, ActRead, StartPlaces, StartEach, StartWild, At
  <2>2. \/ Return(s) \/ Go(s, "broadcast") \/ Hold(s, "startEach", 0, 0, users[call[s].room])
        \/ At(s, "startEach") /\ \E u : call' = [call EXCEPT ![s].user = u]
    BY <1>2 DEF LoginAdd, ReadyToggle, ActRead, StartPlaces, StartEach, StartWild
  <2>3. PICK label, r, u : /\ label \in {"idle", "broadcast", "startEach"} /\ r \in {None, call[s].room}
                           /\ Calls(s, label, r, u)
    <3>1. CASE At(s, "startEach") /\ \E u : call' = [call EXCEPT ![s].user = u]
      <4>1. call[s] \in CallType /\ call \in [Sessions -> CallType]
        BY DEF Typed, CallsTyped
      <4>2. PICK u : call' = [call EXCEPT ![s].user = u]
        BY <3>1
      <4>3. Calls(s, "startEach", call[s].room, u)
        BY <3>1, <4>1, <4>2 DEF Calls, CallType, At
      <4>. QED
        BY <4>3
    <3>. QED
      BY <2>2, <3>1, CallFacts
  <2>. QED
    BY <2>1, <2>3, SameQueue, CallQuiet DEF Creating
<1>. QED
  BY <1>1, <1>2

LEMMA PostQuiet ==
  ASSUME Typed, Values, RoomInv, NEW s \in Sessions, astray \subseteq astray',
         Broadcast(s) \/ Report(s)
  PROVE  Quiet
<1>. USE DEF sessionVars, userVars, roomVars, queueVars
<1>1. CASE Crash("null")
  BY <1>1, CrashQuiet
<1>2. CASE ~Crash("null")
  <2>1. /\ call[s].at \in {"broadcast", "report"} /\ Return(s)
        /\ \E q : Post(Recv(s), q, "broadcast", None)
        /\ UNCHANGED <<user, room, phase, owner, logins, users, started, roomMap>>
    BY <1>2 DEF Broadcast, Report, At
  <2>2. SameJobs
    BY <2>1, PostFacts, BroadcastJob
  <2>3. Calls(s, "idle", None, None)
    BY <2>1, CallFacts
  <2>. QED
    BY <2>1, <2>2, <2>3, CallQuiet DEF Creating
<1>. QED
  BY <1>1, <1>2

\* The steps of a hit up to the S_LOSE, and the count of those that are left.
LEMMA HitQuiet ==
  ASSUME Typed, Values, RoomInv, NEW s \in Sessions, astray \subseteq astray',
         HitLoad(s) \/ HitStore(s) \/ Lose(s)
  PROVE  Quiet
<1>. USE DEF sessionVars, userVars, roomVars, queueVars
<1>1. /\ call[s].at \in {"hitLoad", "hitStore", "lose"}
      /\ UNCHANGED <<user, room, phase, owner, logins, users, started, roomMap>>
  BY DEF HitLoad, HitStore, Lose, At
<1>2. SameJobs
  <2>1. call[s].user \in UserIds
    BY <1>1, ValuesFact DEF Typed, CallsTyped, Hitting
  <2>. QED
    BY <2>1, SameQueue, PostFacts, BroadcastJob DEF HitLoad, HitStore, Lose
<1>3. PICK label \in {"hitStore", "lose", "loseLeave", "count"} : Calls(s, label, call[s].room, call[s].user)
  BY CallFacts DEF HitLoad, HitStore, Lose
<1>4. CASE label = "count"
  BY <1>1, <1>2, <1>3, <1>4, CallQuiet DEF Creating
<1>5. CASE label # "count"
  <2>1. \A x \in Sessions : Calm(x)
    BY <1>1, <1>3, <1>5 DEF Calm, Calls, Fighting
  <2>. QED
    BY <1>1, <1>2, <2>1 DEF Quiet, Over
<1>. QED
  BY <1>4, <1>5

\* Broadcasts, and who executes a queue.
LEMMA ExecuteQuiet ==
  ASSUME Typed, NEW r \in AllRooms, astray \subseteq astray',
         JobBroadcast(r) \/ BroadcastNext(r) \/ BroadcastWild(r) \/ ExecuteEnd(r) \/ ExecuteTimeout(r)
  PROVE  Quiet
<1>. USE DEF sessionVars, userVars, roomVars, queueVars
<1>1. CASE Crash("null") \/ Crash("iterator")
  BY <1>1, CrashQuiet
<1>2. CASE ~(Crash("null") \/ Crash("iterator"))
  <2>1. UNCHANGED <<user, room, phase, owner, logins, users, started, roomMap, call>>
    BY <1>2 DEF JobBroadcast, BroadcastNext, BroadcastWild, ExecuteEnd, ExecuteTimeout
  <2>2. CASE queue' = queue
    BY <2>1, <2>2, SameQueue DEF Quiet, Calm, Over
  <2>3. CASE JobBroadcast(r)
    <3>1. /\ queue[r] \in Seq(Jobs) /\ queue[r] # <<>> /\ Head(queue[r]).op = "broadcast"
          /\ queue'[r] = Tail(queue[r]) /\ \A q \in AllRooms \ {r} : queue'[q] = queue[q]
      BY <2>3 DEF JobBroadcast, Due, Typed, QueuesTyped
    <3>2. SameJobs
      <4>1. ASSUME NEW v \in UserIds \cup {None}
            PROVE  /\ \A o \in {"enter", "leave"} : Has(queue'[r], o, v) <=> Has(queue[r], o, v)
                   /\ Joins(queue'[r], v) <=> Joins(queue[r], v)
                   /\ Once(queue[r], v) => Once(queue'[r], v)
        <5>1. /\ \A op : Has(queue[r], op, v) <=> Has(Tail(queue[r]), op, v)
                                                  \/ (Head(queue[r]).op = op /\ Head(queue[r]).user = v)
              /\ Joins(Tail(queue[r]), v) => Joins(queue[r], v)
              /\ Joins(queue[r], v) => Joins(Tail(queue[r]), v)
                                         \/ (Head(queue[r]).op = "enter" /\ Head(queue[r]).user = v)
              /\ Once(queue[r], v) => Once(Tail(queue[r]), v)
          BY <3>1, TailFacts
        <5>. QED
          BY <3>1, <5>1
      <4>. QED
        BY <3>1, <4>1 DEF SameJobs
    <3>. QED
      BY <2>1, <3>2 DEF Quiet, Calm, Over
  <2>. QED
    BY <1>2, <2>2, <2>3 DEF BroadcastNext, BroadcastWild, ExecuteEnd, ExecuteTimeout
<1>. QED
  BY <1>1, <1>2

LEMMA EndQuiet ==
  ASSUME NEW s \in Sessions, Disconnected(s) \/ Destroy(s), astray' = astray, Typed
  PROVE  Quiet
<1>1. UNCHANGED <<user, room, owner, logins, users, started, roomMap, queue, call>>
  BY DEF Disconnected, Destroy, userVars, roomVars, queueVars
<1>2. \A x \in Sessions : Over(x)' <=> Over(x)
  BY DEF Disconnected, Destroy, Over, Typed, SessionsTyped
<1>. QED
  BY <1>1, <1>2, SameQueue DEF Quiet, Calm

-----------------------------------------------------------------------------
(* The steps of a session that opens a call. *)

LEMMA LoginStep ==
  ASSUME Typed, Values, RoomInv, NEW s \in Sessions, Login(s), astray' = astray
  PROVE  RoomInv'
<1>. USE DEF RoomInv, At, Over
<1>1. PICK n \in UserIds : n = logins + 1
  BY Ids DEF Login, Typed, UsersTyped
<1>2. /\ call[s].at = "idle" /\ user[s] = None /\ logins' = n
      /\ owner' = [owner EXCEPT ![n] = s] /\ user' = [user EXCEPT ![s] = n]
      /\ room' = [room EXCEPT ![s] = Lobby]
      /\ UNCHANGED <<phase, users, started, roomMap, queue>>
      /\ Calls(s, "loginAdd", call[s].room, call[s].user)
  BY <1>1, CallFacts DEF Login, roomVars, queueVars
<1>3. Made' = Made \cup {n} /\ n \notin Made
  <2>1. logins \in 0..MaxLogins /\ MaxLogins \in Nat
    BY GameServerAssumption DEF Typed, UsersTyped
  <2>. QED
    BY <1>1, <1>2, <2>1 DEF Made
<1>4. /\ owner'[n] = s /\ \A u \in Made : owner'[u] = owner[u]
      /\ user'[s] = n /\ room'[s] = Lobby /\ n # None
      /\ \A x \in Sessions \ {s} : user'[x] = user[x] /\ room'[x] = room[x]
  BY <1>1, <1>2, <1>3 DEF Typed, UsersTyped, SessionsTyped, Values
<1>5. \A r \in AllRooms : ~Bound(r, n) /\ n \notin users[r] /\ ~Has(queue[r], "enter", n) /\ ~Has(queue[r], "leave", n)
                          /\ Once(queue[r], n)
  BY <1>3, JoinsFacts DEF Acquainted, Bound
<1>6. \A u \in Made : owner[u] = s => Over(s)
  BY <1>2 DEF Acquainted, Values
<1>7. Acquainted'
  BY <1>1, <1>2, <1>3, <1>4, <1>5, <1>6 DEF Acquainted, Values, Calls, Hitting
<1>8. Unused'
  BY <1>1, <1>2, <1>3, <1>4, <1>5, <1>6 DEF Unused, Values, Calls
<1>9. CallRooms'
  BY <1>1, <1>2, <1>3, <1>4, <1>5, <1>6
  DEF CallRooms, Unused, Values, Calls, Creating, Entering, Hitting, Fighting
<1>10. SessionRooms'
  BY <1>1, <1>2, <1>3, <1>4, <1>5, <1>6 DEF SessionRooms, Values, Calls, Creating
<1>11. LeavesAtEnd'
  BY <1>1, <1>2, <1>3, <1>4, <1>5, <1>6 DEF LeavesAtEnd, Acquainted, Values
<1>12. EntersOnce'
  BY <1>1, <1>2, <1>3, <1>4, <1>5, <1>6 DEF EntersOnce, Acquainted, Values
<1>13. NotThereYet'
  BY <1>1, <1>2, <1>3, <1>4, <1>5, <1>6 DEF NotThereYet, CallRooms, Values, Calls, Creating
<1>14. Placed'
  <2>. SUFFICES ASSUME NEW r \in AllRooms, NEW u \in Made' \ astray', Bound(r, u)',
                       NEW o \in Sessions, o = owner'[u]
                PROVE  \/ ~Over(o)' /\ room'[o] = r
                       \/ r = Lobby /\ call'[o].at \in {"createLeave", "enterLeave"} /\ user'[o] \in {u, None}
                       \/ r = call'[o].room /\ call'[o].at = "enterMove" /\ user'[o] \in {u, None}
                       \/ r = Lobby /\ Has(queue'[r], "leave", None)
    BY <1>7 DEF Placed, Acquainted
  <2>1. u \in Made \ astray /\ Bound(r, u) /\ o = owner[u]
    BY <1>1, <1>2, <1>3, <1>4, <1>5, <1>6 DEF Bound, Values
  <2>. QED
    BY <2>1, <1>1, <1>2, <1>3, <1>4, <1>5, <1>6 DEF Placed, Acquainted, SessionRooms, Values, Calls
<1>15. HitOnce'
  <2>. SUFFICES ASSUME NEW t \in Sessions, call'[t].at \in Fighting, NEW u \in Made' \ astray',
                       call'[t].user = u, NEW r \in roomMap', call'[t].room = r,
                       NEW o \in Sessions, o = owner'[u]
                PROVE  /\ call'[o].at = "enterJoin" /\ call'[o].room = r => Over(o)' \/ room'[o] # Lobby
                       /\ ~(call'[o].at \in Creating /\ call'[o].room = r /\ ~Over(o)')
                       /\ ~Has(queue'[r], "enter", u)
                       /\ call'[t].at = "loseMove" => u \notin users'[r]
    BY <1>7, <1>9 DEF HitOnce, Acquainted, CallRooms, Fighting, Hitting
  <2>1. /\ u \in Made \ astray /\ o = owner[u] /\ r \in roomMap
        /\ call[t].at \in Fighting /\ call[t].user = u /\ call[t].room = r
    BY <1>1, <1>2, <1>3, <1>4, <1>5, <1>6 DEF Acquainted, Values, Calls, Fighting, Hitting
  <2>. QED
    BY <2>1, <1>1, <1>2, <1>3, <1>4, <1>5, <1>6
    DEF HitOnce, Acquainted, Values, Calls, Creating, Fighting, CallRooms
<1>16. InItsRoom'
  BY <1>1, <1>2, <1>3, <1>4, <1>5, <1>6
  DEF InItsRoom, Values, Calls, Losing, Creating, CallRooms, Entering, SessionRooms, Acquainted
<1>. QED
  BY <1>7, <1>8, <1>9, <1>10, <1>11, <1>12, <1>13, <1>14, <1>15, <1>16

LEMMA CreateRoomStep ==
  ASSUME Typed, Values, RoomInv, NEW s \in Sessions, CreateRoom(s), astray' = astray
  PROVE  RoomInv'
<1>. USE DEF RoomInv, At, Over
<1>1. /\ call[s].at = "idle" /\ user[s] # None /\ room[s] = Lobby
      /\ UNCHANGED <<user, room, phase, owner, logins, users, started, roomMap, queue>>
      /\ Calls(s, "createMake", None, None) /\ Made' = Made
  BY CallFacts DEF CreateRoom, sessionVars, userVars, roomVars, queueVars, Made
<1>2. Acquainted'
  BY <1>1 DEF Acquainted, Values, Calls, Hitting
<1>3. Unused'
  BY <1>1 DEF Unused, Values, Calls
<1>4. CallRooms'
  BY <1>1 DEF CallRooms, Unused, Values, Calls, Creating, Entering, Hitting, Fighting
<1>5. SessionRooms'
  BY <1>1 DEF SessionRooms, Values, Calls, Creating
<1>6. LeavesAtEnd'
  BY <1>1 DEF LeavesAtEnd, Acquainted, Values
<1>7. EntersOnce'
  BY <1>1 DEF EntersOnce, Acquainted, Values
<1>8. NotThereYet'
  BY <1>1 DEF NotThereYet, CallRooms, Values, Calls, Creating
<1>9. Placed'
  <2>. SUFFICES ASSUME NEW r \in AllRooms, NEW u \in Made' \ astray', Bound(r, u)',
                       NEW o \in Sessions, o = owner'[u]
                PROVE  \/ ~Over(o)' /\ room'[o] = r
                       \/ r = Lobby /\ call'[o].at \in {"createLeave", "enterLeave"} /\ user'[o] \in {u, None}
                       \/ r = call'[o].room /\ call'[o].at = "enterMove" /\ user'[o] \in {u, None}
                       \/ r = Lobby /\ Has(queue'[r], "leave", None)
    BY <1>2 DEF Placed, Acquainted
  <2>1. u \in Made \ astray /\ Bound(r, u) /\ o = owner[u]
    BY <1>1 DEF Bound, Values
  <2>. QED
    BY <2>1, <1>1 DEF Placed, Acquainted, SessionRooms, Values, Calls
<1>10. HitOnce'
  <2>. SUFFICES ASSUME NEW t \in Sessions, call'[t].at \in Fighting, NEW u \in Made' \ astray',
                       call'[t].user = u, NEW r \in roomMap', call'[t].room = r,
                       NEW o \in Sessions, o = owner'[u]
                PROVE  /\ call'[o].at = "enterJoin" /\ call'[o].room = r => Over(o)' \/ room'[o] # Lobby
                       /\ ~(call'[o].at \in Creating /\ call'[o].room = r /\ ~Over(o)')
                       /\ ~Has(queue'[r], "enter", u)
                       /\ call'[t].at = "loseMove" => u \notin users'[r]
    BY <1>2, <1>4 DEF HitOnce, Acquainted, CallRooms, Fighting, Hitting
  <2>1. /\ u \in Made \ astray /\ o = owner[u] /\ r \in roomMap
        /\ call[t].at \in Fighting /\ call[t].user = u /\ call[t].room = r
    BY <1>1 DEF Acquainted, Values, Calls, Fighting, Hitting
  <2>. QED
    BY <2>1, <1>1 DEF HitOnce, Acquainted, Values, Calls, Creating, Fighting, CallRooms
<1>11. InItsRoom'
  BY <1>1
  DEF InItsRoom, Values, Calls, Losing, Creating, CallRooms, Entering, SessionRooms, Acquainted
<1>. QED
  BY <1>2, <1>3, <1>4, <1>5, <1>6, <1>7, <1>8, <1>9, <1>10, <1>11

LEMMA CreateMakeStep ==
  ASSUME Typed, Values, RoomInv, NEW s \in Sessions, CreateMake(s), ~Crash("null"), astray' = astray
  PROVE  RoomInv'
<1>. USE DEF RoomInv, At, Over
<1>1. PICK q \in Rooms \ roomMap :
             /\ call[s].at = "createMake" /\ user[s] # None
             /\ roomMap' = roomMap \cup {q} /\ room' = [room EXCEPT ![s] = q]
             /\ call' = [call EXCEPT ![s].at = "createLeave", ![s].room = q]
             /\ UNCHANGED <<user, phase, owner, logins, users, started, queue>>
  BY DEF CreateMake, userVars, queueVars
<1>2. Calls(s, "createLeave", q, call[s].user)
  <2>1. call \in [Sessions -> CallType] /\ call[s] \in CallType
    BY DEF Typed, CallsTyped
  <2>. QED
    BY <1>1, <2>1 DEF Calls, CallType
<1>3. /\ call[s].at = "createMake" /\ user[s] # None /\ roomMap' = roomMap \cup {q}
      /\ UNCHANGED <<user, phase, owner, logins, users, started, queue>> /\ Made' = Made
      /\ room'[s] = q /\ \A x \in Sessions \ {s} : room'[x] = room[x]
      /\ q # Lobby /\ q # None /\ q \in AllRooms
  BY <1>1 DEF Typed, SessionsTyped, Made, Values
<1>4. /\ \A u \in UserIds : ~Bound(q, u) /\ u \notin users[q] /\ ~Has(queue[q], "enter", u)
      /\ \A x \in Sessions : room[x] # q /\ call[x].room # q
  BY <1>1, JoinsFacts DEF Unused, Bound
<1>5. Acquainted'
  BY <1>2, <1>3, <1>4 DEF Acquainted, Values, Calls, Hitting
<1>6. Unused'
  BY <1>2, <1>3, <1>4 DEF Unused, Values, Calls
<1>7. CallRooms'
  BY <1>2, <1>3, <1>4 DEF CallRooms, Unused, Values, Calls, Creating, Entering, Hitting, Fighting
<1>8. SessionRooms'
  BY <1>2, <1>3, <1>4 DEF SessionRooms, Values, Calls, Creating
<1>9. LeavesAtEnd'
  BY <1>2, <1>3, <1>4 DEF LeavesAtEnd, Acquainted, Values
<1>10. EntersOnce'
  BY <1>2, <1>3, <1>4 DEF EntersOnce, Acquainted, Values
<1>11. NotThereYet'
  BY <1>2, <1>3, <1>4 DEF NotThereYet, CallRooms, Values, Calls, Creating
<1>12. Placed'
  <2>. SUFFICES ASSUME NEW r \in AllRooms, NEW u \in Made' \ astray', Bound(r, u)',
                       NEW o \in Sessions, o = owner'[u]
                PROVE  \/ ~Over(o)' /\ room'[o] = r
                       \/ r = Lobby /\ call'[o].at \in {"createLeave", "enterLeave"} /\ user'[o] \in {u, None}
                       \/ r = call'[o].room /\ call'[o].at = "enterMove" /\ user'[o] \in {u, None}
                       \/ r = Lobby /\ Has(queue'[r], "leave", None)
    BY <1>5 DEF Placed, Acquainted
  <2>1. u \in Made \ astray /\ Bound(r, u) /\ o = owner[u]
    BY <1>2, <1>3, <1>4 DEF Bound, Values
  <2>. QED
    BY <2>1, <1>2, <1>3, <1>4 DEF Placed, Acquainted, SessionRooms, Values, Calls
<1>13. HitOnce'
  <2>. SUFFICES ASSUME NEW t \in Sessions, call'[t].at \in Fighting, NEW u \in Made' \ astray',
                       call'[t].user = u, NEW r \in roomMap', call'[t].room = r,
                       NEW o \in Sessions, o = owner'[u]
                PROVE  /\ call'[o].at = "enterJoin" /\ call'[o].room = r => Over(o)' \/ room'[o] # Lobby
                       /\ ~(call'[o].at \in Creating /\ call'[o].room = r /\ ~Over(o)')
                       /\ ~Has(queue'[r], "enter", u)
                       /\ call'[t].at = "loseMove" => u \notin users'[r]
    BY <1>5, <1>7 DEF HitOnce, Acquainted, CallRooms, Fighting, Hitting
  <2>1. /\ u \in Made \ astray /\ o = owner[u] /\ r \in roomMap
        /\ call[t].at \in Fighting /\ call[t].user = u /\ call[t].room = r
    BY <1>2, <1>3, <1>4 DEF Acquainted, Values, Calls, Fighting, Hitting
  <2>. QED
    BY <2>1, <1>2, <1>3, <1>4 DEF HitOnce, Acquainted, Values, Calls, Creating, Fighting, CallRooms
<1>14. InItsRoom'
  BY <1>2, <1>3, <1>4
  DEF InItsRoom, Values, Calls, Losing, Creating, CallRooms, Entering, SessionRooms, Acquainted
<1>. QED
  BY <1>5, <1>6, <1>7, <1>8, <1>9, <1>10, <1>11, <1>12, <1>13, <1>14

LEMMA CreateLeaveStep ==
  ASSUME Typed, Values, RoomInv, NEW s \in Sessions, CreateLeave(s), astray' = astray
  PROVE  RoomInv'
<1>. USE DEF RoomInv, At, Over
<1>1. /\ call[s].at = "createLeave" /\ UNCHANGED <<user, room, phase, owner, logins, users, started, roomMap>>
      /\ Calls(s, "createEnter", call[s].room, call[s].user) /\ Made' = Made
  BY CallFacts DEF CreateLeave, sessionVars, userVars, roomVars, Made
<1>2. Posts(Lobby, "leave", user[s])
  BY PostFacts DEF CreateLeave, Values
<1>3. Acquainted'
  BY <1>1, <1>2 DEF Acquainted, Values, Calls, Hitting, Posts
<1>4. Unused'
  BY <1>1, <1>2 DEF Unused, Values, Calls, Posts
<1>5. CallRooms'
  BY <1>1, <1>2 DEF CallRooms, Unused, Values, Calls, Creating, Entering, Hitting, Fighting, Posts
<1>6. SessionRooms'
  BY <1>1, <1>2 DEF SessionRooms, Values, Calls, Creating, Posts
<1>7. LeavesAtEnd'
  BY <1>1, <1>2 DEF LeavesAtEnd, Acquainted, Values, Posts
<1>8. EntersOnce'
  BY <1>1, <1>2 DEF EntersOnce, Acquainted, Values, Posts
<1>9. NotThereYet'
  BY <1>1, <1>2 DEF NotThereYet, CallRooms, Values, Calls, Creating, Posts
<1>10. Placed'
  <2>. SUFFICES ASSUME NEW r \in AllRooms, NEW u \in Made' \ astray', Bound(r, u)',
                       NEW o \in Sessions, o = owner'[u]
                PROVE  \/ ~Over(o)' /\ room'[o] = r
                       \/ r = Lobby /\ call'[o].at \in {"createLeave", "enterLeave"} /\ user'[o] \in {u, None}
                       \/ r = call'[o].room /\ call'[o].at = "enterMove" /\ user'[o] \in {u, None}
                       \/ r = Lobby /\ Has(queue'[r], "leave", None)
    BY <1>3 DEF Placed, Acquainted
  <2>1. u \in Made \ astray /\ Bound(r, u) /\ o = owner[u] /\ ~(r = Lobby /\ user[s] = u)
    BY <1>1, <1>2 DEF Bound, Values, Posts
  <2>. QED
    BY <2>1, <1>1, <1>2 DEF Placed, Acquainted, Values, Calls, Posts
<1>11. HitOnce'
  <2>. SUFFICES ASSUME NEW t \in Sessions, call'[t].at \in Fighting, NEW u \in Made' \ astray',
                       call'[t].user = u, NEW r \in roomMap', call'[t].room = r,
                       NEW o \in Sessions, o = owner'[u]
                PROVE  /\ call'[o].at = "enterJoin" /\ call'[o].room = r => Over(o)' \/ room'[o] # Lobby
                       /\ ~(call'[o].at \in Creating /\ call'[o].room = r /\ ~Over(o)')
                       /\ ~Has(queue'[r], "enter", u)
                       /\ call'[t].at = "loseMove" => u \notin users'[r]
    BY <1>3, <1>5 DEF HitOnce, Acquainted, CallRooms, Fighting, Hitting
  <2>1. /\ u \in Made \ astray /\ o = owner[u] /\ r \in roomMap
        /\ call[t].at \in Fighting /\ call[t].user = u /\ call[t].room = r
    BY <1>1, <1>2 DEF Acquainted, Values, Calls, Fighting, Hitting, Posts
  <2>. QED
    BY <2>1, <1>1, <1>2 DEF HitOnce, Acquainted, Values, Calls, Creating, Fighting, CallRooms, Posts
<1>12. InItsRoom'
  BY <1>1, <1>2
  DEF InItsRoom, Values, Calls, Losing, Creating, CallRooms, Entering, SessionRooms, Acquainted,
      Posts
<1>. QED
  BY <1>3, <1>4, <1>5, <1>6, <1>7, <1>8, <1>9, <1>10, <1>11, <1>12

LEMMA CreateEnterStep ==
  ASSUME Typed, Values, RoomInv, NEW s \in Sessions, CreateEnter(s), astray' = astray \cup {v \in {user[s]} : Over(s)}
  PROVE  RoomInv'
<1>. USE DEF RoomInv, At, Over
<1>1. /\ call[s].at = "createEnter" /\ UNCHANGED <<user, room, phase, owner, logins, users, started, roomMap>>
      /\ Calls(s, "idle", None, None) /\ Made' = Made
  BY CallFacts DEF CreateEnter, sessionVars, userVars, roomVars, Made
<1>2. PICK q \in roomMap : q = call[s].room /\ Posts(q, "enter", user[s])
  BY <1>1, PostFacts DEF CreateEnter, Values, CallRooms, Creating
<1>3. Acquainted'
  BY <1>1, <1>2 DEF Acquainted, Values, Calls, Hitting, Posts
<1>4. Unused'
  BY <1>1, <1>2 DEF Unused, Values, Calls, Posts
<1>5. CallRooms'
  BY <1>1, <1>2 DEF CallRooms, Unused, Values, Calls, Creating, Entering, Hitting, Fighting, Posts
<1>6. SessionRooms'
  BY <1>1, <1>2 DEF SessionRooms, Values, Calls, Creating, Posts
<1>7. LeavesAtEnd'
  BY <1>1, <1>2 DEF LeavesAtEnd, Acquainted, Values, Posts
<1>8. EntersOnce'
  BY <1>1, <1>2 DEF EntersOnce, Acquainted, Values, Posts, NotThereYet, Creating
<1>9. NotThereYet'
  BY <1>1, <1>2 DEF NotThereYet, CallRooms, Values, Calls, Creating, Posts, Acquainted
<1>10. Placed'
  <2>. SUFFICES ASSUME NEW r \in AllRooms, NEW u \in Made' \ astray', Bound(r, u)',
                       NEW o \in Sessions, o = owner'[u]
                PROVE  \/ ~Over(o)' /\ room'[o] = r
                       \/ r = Lobby /\ call'[o].at \in {"createLeave", "enterLeave"} /\ user'[o] \in {u, None}
                       \/ r = call'[o].room /\ call'[o].at = "enterMove" /\ user'[o] \in {u, None}
                       \/ r = Lobby /\ Has(queue'[r], "leave", None)
    BY <1>3 DEF Placed, Acquainted
  <2>1. u \in Made \ astray /\ o = owner[u]
    BY <1>1
  <2>2. CASE r = q /\ u = user[s]
    BY <1>1, <1>2, <2>1, <2>2 DEF Acquainted, SessionRooms, Values, Creating
  <2>3. CASE ~(r = q /\ u = user[s])
    <3>1. Bound(r, u)
      BY <1>1, <1>2, <2>3 DEF Bound, Values, Posts
    <3>. QED
      BY <2>1, <3>1, <1>1, <1>2 DEF Placed, Acquainted, Values, Calls, Posts
  <2>. QED
    BY <2>2, <2>3
<1>11. HitOnce'
  <2>. SUFFICES ASSUME NEW t \in Sessions, call'[t].at \in Fighting, NEW u \in Made' \ astray',
                       call'[t].user = u, NEW r \in roomMap', call'[t].room = r,
                       NEW o \in Sessions, o = owner'[u]
                PROVE  /\ call'[o].at = "enterJoin" /\ call'[o].room = r => Over(o)' \/ room'[o] # Lobby
                       /\ ~(call'[o].at \in Creating /\ call'[o].room = r /\ ~Over(o)')
                       /\ ~Has(queue'[r], "enter", u)
                       /\ call'[t].at = "loseMove" => u \notin users'[r]
    BY <1>3, <1>5 DEF HitOnce, Acquainted, CallRooms, Fighting, Hitting
  <2>1. /\ u \in Made \ astray /\ o = owner[u] /\ r \in roomMap
        /\ call[t].at \in Fighting /\ call[t].user = u /\ call[t].room = r
    BY <1>1, <1>2 DEF Acquainted, Values, Calls, Fighting, Hitting, Posts
  <2>. QED
    BY <2>1, <1>1, <1>2 DEF HitOnce, Acquainted, Values, Calls, Creating, Fighting, CallRooms, Posts
<1>12. InItsRoom'
  BY <1>1, <1>2
  DEF InItsRoom, Values, Calls, Losing, Creating, CallRooms, Entering, SessionRooms, Acquainted,
      Posts
<1>. QED
  BY <1>3, <1>4, <1>5, <1>6, <1>7, <1>8, <1>9, <1>10, <1>11, <1>12

LEMMA EnterRoomStep ==
  ASSUME Typed, Values, RoomInv, NEW s \in Sessions, NEW q \in Rooms, EnterRoom(s, q), astray' = astray
  PROVE  RoomInv'
<1>. USE DEF RoomInv, At, Over
<1>1. /\ call[s].at = "idle" /\ user[s] # None /\ q \in roomMap /\ ~started[q]
      /\ UNCHANGED <<user, room, phase, owner, logins, users, started, roomMap, queue>>
      /\ Calls(s, "enterJoin", q, None) /\ Made' = Made
  BY CallFacts DEF EnterRoom, sessionVars, userVars, roomVars, queueVars, Made
<1>2. Acquainted'
  BY <1>1 DEF Acquainted, Values, Calls, Hitting
<1>3. Unused'
  BY <1>1 DEF Unused, Values, Calls
<1>4. CallRooms'
  BY <1>1 DEF CallRooms, Unused, Values, Calls, Creating, Entering, Hitting, Fighting
<1>5. SessionRooms'
  BY <1>1 DEF SessionRooms, Values, Calls, Creating
<1>6. LeavesAtEnd'
  BY <1>1 DEF LeavesAtEnd, Acquainted, Values
<1>7. EntersOnce'
  BY <1>1 DEF EntersOnce, Acquainted, Values
<1>8. NotThereYet'
  BY <1>1 DEF NotThereYet, CallRooms, Values, Calls, Creating
<1>9. Placed'
  <2>. SUFFICES ASSUME NEW r \in AllRooms, NEW u \in Made' \ astray', Bound(r, u)',
                       NEW o \in Sessions, o = owner'[u]
                PROVE  \/ ~Over(o)' /\ room'[o] = r
                       \/ r = Lobby /\ call'[o].at \in {"createLeave", "enterLeave"} /\ user'[o] \in {u, None}
                       \/ r = call'[o].room /\ call'[o].at = "enterMove" /\ user'[o] \in {u, None}
                       \/ r = Lobby /\ Has(queue'[r], "leave", None)
    BY <1>2 DEF Placed, Acquainted
  <2>1. u \in Made \ astray /\ Bound(r, u) /\ o = owner[u]
    BY <1>1 DEF Bound, Values
  <2>. QED
    BY <2>1, <1>1 DEF Placed, Acquainted, SessionRooms, Values, Calls
<1>10. HitOnce'
  <2>. SUFFICES ASSUME NEW t \in Sessions, call'[t].at \in Fighting, NEW u \in Made' \ astray',
                       call'[t].user = u, NEW r \in roomMap', call'[t].room = r,
                       NEW o \in Sessions, o = owner'[u]
                PROVE  /\ call'[o].at = "enterJoin" /\ call'[o].room = r => Over(o)' \/ room'[o] # Lobby
                       /\ ~(call'[o].at \in Creating /\ call'[o].room = r /\ ~Over(o)')
                       /\ ~Has(queue'[r], "enter", u)
                       /\ call'[t].at = "loseMove" => u \notin users'[r]
    BY <1>2, <1>4 DEF HitOnce, Acquainted, CallRooms, Fighting, Hitting
  <2>1. /\ u \in Made \ astray /\ o = owner[u] /\ r \in roomMap
        /\ call[t].at \in Fighting /\ call[t].user = u /\ call[t].room = r
    BY <1>1 DEF Acquainted, Values, Calls, Fighting, Hitting
  <2>. QED
    BY <2>1, <1>1 DEF HitOnce, Acquainted, Values, Calls, Creating, Fighting, CallRooms
<1>11. InItsRoom'
  BY <1>1
  DEF InItsRoom, Values, Calls, Losing, Creating, CallRooms, Entering, SessionRooms, Acquainted
<1>. QED
  BY <1>2, <1>3, <1>4, <1>5, <1>6, <1>7, <1>8, <1>9, <1>10, <1>11

LEMMA EnterJoinStep ==
  ASSUME Typed, Values, RoomInv, NEW s \in Sessions, EnterJoin(s), ~Crash("null"),
         astray' = astray \cup {v \in {user[s]} : ~Full(call[s].room) /\ (Over(s) \/ room[s] # Lobby)}
  PROVE  RoomInv'
<1>. USE DEF RoomInv, At, Over
<1>1. PICK q \in roomMap, n \in Made, label \in {"idle", "enterMove"} :
             /\ q = call[s].room /\ n = user[s] /\ call[s].at = "enterJoin"
             /\ Calls(s, label, IF label = "idle" THEN None ELSE q, IF label = "idle" THEN None ELSE call[s].user)
             /\ label = "idle" <=> Full(q)
  <2>1. user[s] # None /\ call[s].at = "enterJoin" /\ call[s].room \in roomMap /\ user[s] \in Made
    BY DEF EnterJoin, CallRooms, Entering, Acquainted
  <2>2. Return(s) => Calls(s, "idle", None, None)
    BY CallFacts
  <2>3. Go(s, "enterMove") => Calls(s, "enterMove", call[s].room, call[s].user)
    BY CallFacts
  <2>. QED
    BY <2>1, <2>2, <2>3 DEF EnterJoin
<1>2. /\ users'[q] = (IF label = "idle" THEN users[q] ELSE users[q] \cup {n})
      /\ \A r \in AllRooms \ {q} : users'[r] = users[r]
      /\ UNCHANGED <<user, room, phase, owner, logins, started, roomMap, queue>> /\ Made' = Made
      /\ q \in Rooms /\ q # Lobby /\ q # None
  BY <1>1
  DEF EnterJoin, Enter, SetUsers, sessionVars, userVars, queueVars, Typed, RoomsTyped, Made, Values
<1>3. n \notin astray' /\ label # "idle" => ~Over(s) /\ room[s] = Lobby
  BY <1>1
<1>4. n \notin astray' /\ label # "idle" => ~Has(queue[q], "enter", n)
  <2>. SUFFICES ASSUME n \notin astray', label # "idle" PROVE ~Has(queue[q], "enter", n)
    OBVIOUS
  <2>1. owner[n] = s /\ ~Over(s) /\ room[s] = Lobby /\ n \in Made \ astray
    BY <1>1, <1>3 DEF Acquainted, Values
  <2>2. ~Bound(q, n)
    BY <1>1, <1>2, <2>1 DEF Placed, Values
  <2>3. ~Has(queue[q], "leave", n)
    BY <1>2, <2>1 DEF LeavesAtEnd
  <2>. QED
    BY <2>2, <2>3, JoinsFacts DEF Bound
<1>5. Acquainted'
  BY <1>1, <1>2, <1>3, <1>4 DEF Acquainted, Values, Calls, Hitting
<1>6. Unused'
  BY <1>1, <1>2, <1>3, <1>4 DEF Unused, Values, Calls
<1>7. CallRooms'
  BY <1>1, <1>2, <1>3, <1>4
  DEF CallRooms, Unused, Values, Calls, Creating, Entering, Hitting, Fighting
<1>8. SessionRooms'
  BY <1>1, <1>2, <1>3, <1>4 DEF SessionRooms, Values, Calls, Creating
<1>9. LeavesAtEnd'
  BY <1>1, <1>2, <1>3, <1>4 DEF LeavesAtEnd, Acquainted, Values
<1>10. EntersOnce'
  BY <1>1, <1>2, <1>3, <1>4 DEF EntersOnce, Acquainted, Values
<1>11. NotThereYet'
  BY <1>1, <1>2, <1>3, <1>4 DEF NotThereYet, CallRooms, Values, Calls, Creating, Acquainted
<1>12. Placed'
  <2>. SUFFICES ASSUME NEW r \in AllRooms, NEW u \in Made' \ astray', Bound(r, u)',
                       NEW o \in Sessions, o = owner'[u]
                PROVE  \/ ~Over(o)' /\ room'[o] = r
                       \/ r = Lobby /\ call'[o].at \in {"createLeave", "enterLeave"} /\ user'[o] \in {u, None}
                       \/ r = call'[o].room /\ call'[o].at = "enterMove" /\ user'[o] \in {u, None}
                       \/ r = Lobby /\ Has(queue'[r], "leave", None)
    BY <1>5 DEF Placed, Acquainted
  <2>1. u \in Made \ astray /\ o = owner[u]
    BY <1>1, <1>2
  <2>2. CASE r = q /\ u = n /\ label # "idle"
    BY <1>1, <2>1, <2>2, <1>2 DEF Acquainted, Calls
  <2>3. CASE ~(r = q /\ u = n /\ label # "idle")
    <3>1. Bound(r, u)
      BY <1>1, <1>2, <2>3 DEF Bound, Values
    <3>. QED
      BY <2>1, <3>1, <1>1, <1>2 DEF Placed, Acquainted, Values, Calls
  <2>. QED
    BY <2>2, <2>3
<1>13. HitOnce'
  <2>. SUFFICES ASSUME NEW t \in Sessions, call'[t].at \in Fighting, NEW u \in Made' \ astray',
                       call'[t].user = u, NEW r \in roomMap', call'[t].room = r,
                       NEW o \in Sessions, o = owner'[u]
                PROVE  /\ call'[o].at = "enterJoin" /\ call'[o].room = r => Over(o)' \/ room'[o] # Lobby
                       /\ ~(call'[o].at \in Creating /\ call'[o].room = r /\ ~Over(o)')
                       /\ ~Has(queue'[r], "enter", u)
                       /\ call'[t].at = "loseMove" => u \notin users'[r]
    BY <1>5, <1>7 DEF HitOnce, Acquainted, CallRooms, Fighting, Hitting
  <2>1. /\ u \in Made \ astray /\ o = owner[u] /\ r \in roomMap
        /\ call[t].at \in Fighting /\ call[t].user = u /\ call[t].room = r
    BY <1>1, <1>2, <1>3, <1>4 DEF Acquainted, Values, Calls, Fighting, Hitting
  <2>. QED
    BY <2>1, <1>1, <1>2, <1>3, <1>4
    DEF HitOnce, Acquainted, Values, Calls, Creating, Fighting, CallRooms
<1>14. InItsRoom'
  BY <1>1, <1>2, <1>3, <1>4
  DEF InItsRoom, Values, Calls, Losing, Creating, CallRooms, Entering, SessionRooms, Acquainted
<1>. QED
  BY <1>5, <1>6, <1>7, <1>8, <1>9, <1>10, <1>11, <1>12, <1>13, <1>14

LEMMA EnterMoveStep ==
  ASSUME Typed, Values, RoomInv, NEW s \in Sessions, EnterMove(s), ~Crash("null"),
         astray' = astray \cup {v \in {user[s]} : Over(s)}
  PROVE  RoomInv'
<1>. USE DEF RoomInv, At, Over
<1>1. PICK q \in roomMap : q = call[s].room /\ user[s] # None /\ call[s].at = "enterMove"
                          /\ Calls(s, "enterLeave", q, call[s].user)
  BY CallFacts DEF EnterMove, CallRooms, Entering
<1>2. /\ room'[s] = q /\ \A x \in Sessions \ {s} : room'[x] = room[x]
      /\ UNCHANGED <<user, phase, owner, logins, users, started, roomMap, queue>> /\ Made' = Made
  BY <1>1 DEF EnterMove, userVars, roomVars, queueVars, Typed, SessionsTyped, Made, Values
<1>3. Acquainted'
  BY <1>1, <1>2 DEF Acquainted, Values, Calls, Hitting
<1>4. Unused'
  BY <1>1, <1>2 DEF Unused, Values, Calls
<1>5. CallRooms'
  BY <1>1, <1>2 DEF CallRooms, Unused, Values, Calls, Creating, Entering, Hitting, Fighting
<1>6. SessionRooms'
  BY <1>1, <1>2 DEF SessionRooms, Values, Calls, Creating
<1>7. LeavesAtEnd'
  BY <1>1, <1>2 DEF LeavesAtEnd, Acquainted, Values
<1>8. EntersOnce'
  BY <1>1, <1>2 DEF EntersOnce, Acquainted, Values
<1>9. NotThereYet'
  BY <1>1, <1>2 DEF NotThereYet, CallRooms, Values, Calls, Creating
<1>10. Placed'
  <2>. SUFFICES ASSUME NEW r \in AllRooms, NEW u \in Made' \ astray', Bound(r, u)',
                       NEW o \in Sessions, o = owner'[u]
                PROVE  \/ ~Over(o)' /\ room'[o] = r
                       \/ r = Lobby /\ call'[o].at \in {"createLeave", "enterLeave"} /\ user'[o] \in {u, None}
                       \/ r = call'[o].room /\ call'[o].at = "enterMove" /\ user'[o] \in {u, None}
                       \/ r = Lobby /\ Has(queue'[r], "leave", None)
    BY <1>3 DEF Placed, Acquainted
  <2>1. u \in Made \ astray /\ Bound(r, u) /\ o = owner[u]
    BY <1>1, <1>2 DEF Bound, Values
  <2>. QED
    BY <2>1, <1>1, <1>2 DEF Placed, Acquainted, SessionRooms, Values, Calls
<1>11. HitOnce'
  <2>. SUFFICES ASSUME NEW t \in Sessions, call'[t].at \in Fighting, NEW u \in Made' \ astray',
                       call'[t].user = u, NEW r \in roomMap', call'[t].room = r,
                       NEW o \in Sessions, o = owner'[u]
                PROVE  /\ call'[o].at = "enterJoin" /\ call'[o].room = r => Over(o)' \/ room'[o] # Lobby
                       /\ ~(call'[o].at \in Creating /\ call'[o].room = r /\ ~Over(o)')
                       /\ ~Has(queue'[r], "enter", u)
                       /\ call'[t].at = "loseMove" => u \notin users'[r]
    BY <1>3, <1>5 DEF HitOnce, Acquainted, CallRooms, Fighting, Hitting
  <2>1. /\ u \in Made \ astray /\ o = owner[u] /\ r \in roomMap
        /\ call[t].at \in Fighting /\ call[t].user = u /\ call[t].room = r
    BY <1>1, <1>2 DEF Acquainted, Values, Calls, Fighting, Hitting
  <2>. QED
    BY <2>1, <1>1, <1>2 DEF HitOnce, Acquainted, Values, Calls, Creating, Fighting, CallRooms
<1>12. InItsRoom'
  BY <1>1, <1>2
  DEF InItsRoom, Values, Calls, Losing, Creating, CallRooms, Entering, SessionRooms, Acquainted
<1>. QED
  BY <1>3, <1>4, <1>5, <1>6, <1>7, <1>8, <1>9, <1>10, <1>11, <1>12

LEMMA EnterLeaveStep ==
  ASSUME Typed, Values, RoomInv, NEW s \in Sessions, EnterLeave(s), astray' = astray
  PROVE  RoomInv'
<1>. USE DEF RoomInv, At, Over
<1>1. /\ call[s].at = "enterLeave" /\ UNCHANGED <<user, room, phase, owner, logins, users, started, roomMap>>
      /\ Calls(s, "idle", None, None) /\ Made' = Made
  BY CallFacts DEF EnterLeave, sessionVars, userVars, roomVars, Made
<1>2. Posts(Lobby, "leave", user[s])
  BY PostFacts DEF EnterLeave, Values
<1>3. Acquainted'
  BY <1>1, <1>2 DEF Acquainted, Values, Calls, Hitting, Posts
<1>4. Unused'
  BY <1>1, <1>2 DEF Unused, Values, Calls, Posts
<1>5. CallRooms'
  BY <1>1, <1>2 DEF CallRooms, Unused, Values, Calls, Creating, Entering, Hitting, Fighting, Posts
<1>6. SessionRooms'
  BY <1>1, <1>2 DEF SessionRooms, Values, Calls, Creating, Posts
<1>7. LeavesAtEnd'
  BY <1>1, <1>2 DEF LeavesAtEnd, Acquainted, Values, Posts
<1>8. EntersOnce'
  BY <1>1, <1>2 DEF EntersOnce, Acquainted, Values, Posts
<1>9. NotThereYet'
  BY <1>1, <1>2 DEF NotThereYet, CallRooms, Values, Calls, Creating, Posts
<1>10. Placed'
  <2>. SUFFICES ASSUME NEW r \in AllRooms, NEW u \in Made' \ astray', Bound(r, u)',
                       NEW o \in Sessions, o = owner'[u]
                PROVE  \/ ~Over(o)' /\ room'[o] = r
                       \/ r = Lobby /\ call'[o].at \in {"createLeave", "enterLeave"} /\ user'[o] \in {u, None}
                       \/ r = call'[o].room /\ call'[o].at = "enterMove" /\ user'[o] \in {u, None}
                       \/ r = Lobby /\ Has(queue'[r], "leave", None)
    BY <1>3 DEF Placed, Acquainted
  <2>1. u \in Made \ astray /\ Bound(r, u) /\ o = owner[u] /\ ~(r = Lobby /\ user[s] = u)
    BY <1>1, <1>2 DEF Bound, Values, Posts
  <2>. QED
    BY <2>1, <1>1, <1>2 DEF Placed, Acquainted, Values, Calls, Posts
<1>11. HitOnce'
  <2>. SUFFICES ASSUME NEW t \in Sessions, call'[t].at \in Fighting, NEW u \in Made' \ astray',
                       call'[t].user = u, NEW r \in roomMap', call'[t].room = r,
                       NEW o \in Sessions, o = owner'[u]
                PROVE  /\ call'[o].at = "enterJoin" /\ call'[o].room = r => Over(o)' \/ room'[o] # Lobby
                       /\ ~(call'[o].at \in Creating /\ call'[o].room = r /\ ~Over(o)')
                       /\ ~Has(queue'[r], "enter", u)
                       /\ call'[t].at = "loseMove" => u \notin users'[r]
    BY <1>3, <1>5 DEF HitOnce, Acquainted, CallRooms, Fighting, Hitting
  <2>1. /\ u \in Made \ astray /\ o = owner[u] /\ r \in roomMap
        /\ call[t].at \in Fighting /\ call[t].user = u /\ call[t].room = r
    BY <1>1, <1>2 DEF Acquainted, Values, Calls, Fighting, Hitting, Posts
  <2>. QED
    BY <2>1, <1>1, <1>2 DEF HitOnce, Acquainted, Values, Calls, Creating, Fighting, CallRooms, Posts
<1>12. InItsRoom'
  BY <1>1, <1>2
  DEF InItsRoom, Values, Calls, Losing, Creating, CallRooms, Entering, SessionRooms, Acquainted,
      Posts
<1>. QED
  BY <1>3, <1>4, <1>5, <1>6, <1>7, <1>8, <1>9, <1>10, <1>11, <1>12

LEMMA AttackedStep ==
  ASSUME Typed, Values, RoomInv, NEW s \in Sessions, NEW v \in UserIds, Attacked(s, v), astray' = astray
  PROVE  RoomInv'
<1>. USE DEF RoomInv, At, Over
<1>1. PICK q \in Rooms : q = room[s] /\ user[s] # None /\ started[q] /\ v \in users[q] /\ call[s].at = "idle"
                        /\ Calls(s, "hitLoad", q, v)
  BY CallFacts DEF Attacked, InRoom, Values
<1>2. /\ UNCHANGED <<user, room, phase, owner, logins, users, started, roomMap, queue>> /\ Made' = Made
      /\ q \in AllRooms /\ q # Lobby /\ q # None /\ v \in Made /\ q \in roomMap
  BY <1>1 DEF Attacked, sessionVars, userVars, roomVars, queueVars, Made, Values, Acquainted, Unused
<1>3. Acquainted'
  BY <1>1, <1>2 DEF Acquainted, Values, Calls, Hitting
<1>4. Unused'
  BY <1>1, <1>2 DEF Unused, Values, Calls
<1>5. CallRooms'
  BY <1>1, <1>2 DEF CallRooms, Unused, Values, Calls, Creating, Entering, Hitting, Fighting
<1>6. SessionRooms'
  BY <1>1, <1>2 DEF SessionRooms, Values, Calls, Creating
<1>7. LeavesAtEnd'
  BY <1>1, <1>2 DEF LeavesAtEnd, Acquainted, Values
<1>8. EntersOnce'
  BY <1>1, <1>2 DEF EntersOnce, Acquainted, Values
<1>9. NotThereYet'
  BY <1>1, <1>2 DEF NotThereYet, CallRooms, Values, Calls, Creating
<1>10. Placed'
  <2>. SUFFICES ASSUME NEW r \in AllRooms, NEW u \in Made' \ astray', Bound(r, u)',
                       NEW o \in Sessions, o = owner'[u]
                PROVE  \/ ~Over(o)' /\ room'[o] = r
                       \/ r = Lobby /\ call'[o].at \in {"createLeave", "enterLeave"} /\ user'[o] \in {u, None}
                       \/ r = call'[o].room /\ call'[o].at = "enterMove" /\ user'[o] \in {u, None}
                       \/ r = Lobby /\ Has(queue'[r], "leave", None)
    BY <1>3 DEF Placed, Acquainted
  <2>1. u \in Made \ astray /\ Bound(r, u) /\ o = owner[u]
    BY <1>1, <1>2 DEF Bound, Values
  <2>. QED
    BY <2>1, <1>1, <1>2 DEF Placed, Acquainted, SessionRooms, Values, Calls
<1>11. HitOnce'
  <2>. SUFFICES ASSUME NEW t \in Sessions, call'[t].at \in Fighting, NEW u \in Made' \ astray',
                       call'[t].user = u, NEW r \in roomMap', call'[t].room = r,
                       NEW o \in Sessions, o = owner'[u]
                PROVE  /\ call'[o].at = "enterJoin" /\ call'[o].room = r => Over(o)' \/ room'[o] # Lobby
                       /\ ~(call'[o].at \in Creating /\ call'[o].room = r /\ ~Over(o)')
                       /\ ~Has(queue'[r], "enter", u)
                       /\ call'[t].at = "loseMove" => u \notin users'[r]
    BY <1>3, <1>5 DEF HitOnce, Acquainted, CallRooms, Fighting, Hitting
  <2>1. u \in Made \ astray /\ o = owner[u]
    BY <1>2
  <2>2. CASE t # s
    <3>1. /\ r \in roomMap /\ call[t].at \in Fighting /\ call[t].user = u /\ call[t].room = r
      BY <1>1, <1>2, <2>2 DEF Calls
    <3>. QED
      BY <2>1, <3>1, <1>1, <1>2 DEF HitOnce, Acquainted, Values, Calls, Creating
  <2>3. CASE t = s
    <3>1. r = q /\ u = v /\ r \in Rooms
      BY <1>1, <1>2, <2>3 DEF Calls
    <3>2. ~Over(o) => user[o] = u /\ Bound(r, u)
      BY <1>1, <2>1, <3>1 DEF Acquainted, LeavesAtEnd, Bound
    <3>3. ~Over(o) /\ call[o].at = "enterJoin" => room[o] = r
      BY <2>1, <3>1, <3>2, <1>2 DEF Placed
    <3>4. ~(call[o].at \in Creating /\ call[o].room = r /\ ~Over(o)) /\ ~Has(queue[r], "enter", u)
      BY <1>1, <2>1, <3>1, <3>2 DEF NotThereYet, EntersOnce, Values
    <3>. QED
      BY <1>1, <1>2, <2>3, <3>1, <3>3, <3>4 DEF Calls, Creating
  <2>. QED
    BY <2>2, <2>3
<1>12. InItsRoom'
  BY <1>1, <1>2
  DEF InItsRoom, Values, Calls, Losing, Creating, CallRooms, Entering, SessionRooms, Acquainted
<1>. QED
  BY <1>3, <1>4, <1>5, <1>6, <1>7, <1>8, <1>9, <1>10, <1>11, <1>12

-----------------------------------------------------------------------------
(* The steps of a hit that move the loser and the winner. *)

LEMMA LoseLeaveStep ==
  ASSUME Typed, Values, RoomInv, NEW s \in Sessions, LoseLeave(s), astray' = astray
  PROVE  RoomInv'
<1>. USE DEF RoomInv, At, Over
<1>1. PICK q \in roomMap, n \in Made : q = call[s].room /\ n = call[s].user /\ call[s].at = "loseLeave"
                                   /\ Calls(s, "loseMove", q, n)
  BY CallFacts DEF LoseLeave, CallRooms, Acquainted, Hitting
<1>2. /\ users'[q] = users[q] \ {n} /\ \A r \in AllRooms \ {q} : users'[r] = users[r]
      /\ UNCHANGED <<user, room, phase, owner, logins, started, roomMap, queue>> /\ Made' = Made
      /\ q \in Rooms /\ q # Lobby /\ q # None
  BY <1>1
  DEF LoseLeave, Leave, SetUsers, sessionVars, userVars, queueVars, Typed, RoomsTyped, Made, Values
<1>3. Acquainted'
  BY <1>1, <1>2 DEF Acquainted, Values, Calls, Hitting
<1>4. Unused'
  BY <1>1, <1>2 DEF Unused, Values, Calls
<1>5. CallRooms'
  BY <1>1, <1>2 DEF CallRooms, Unused, Values, Calls, Creating, Entering, Hitting, Fighting
<1>6. SessionRooms'
  BY <1>1, <1>2 DEF SessionRooms, Values, Calls, Creating
<1>7. LeavesAtEnd'
  BY <1>1, <1>2 DEF LeavesAtEnd, Acquainted, Values
<1>8. EntersOnce'
  BY <1>1, <1>2 DEF EntersOnce, Acquainted, Values
<1>9. NotThereYet'
  BY <1>1, <1>2 DEF NotThereYet, CallRooms, Values, Calls, Creating
<1>10. Placed'
  <2>. SUFFICES ASSUME NEW r \in AllRooms, NEW u \in Made' \ astray', Bound(r, u)',
                       NEW o \in Sessions, o = owner'[u]
                PROVE  \/ ~Over(o)' /\ room'[o] = r
                       \/ r = Lobby /\ call'[o].at \in {"createLeave", "enterLeave"} /\ user'[o] \in {u, None}
                       \/ r = call'[o].room /\ call'[o].at = "enterMove" /\ user'[o] \in {u, None}
                       \/ r = Lobby /\ Has(queue'[r], "leave", None)
    BY <1>3 DEF Placed, Acquainted
  <2>1. u \in Made \ astray /\ Bound(r, u) /\ o = owner[u]
    BY <1>1, <1>2 DEF Bound, Values
  <2>. QED
    BY <2>1, <1>1, <1>2 DEF Placed, Acquainted, SessionRooms, Values, Calls
<1>11. HitOnce'
  <2>. SUFFICES ASSUME NEW t \in Sessions, call'[t].at \in Fighting, NEW u \in Made' \ astray',
                       call'[t].user = u, NEW r \in roomMap', call'[t].room = r,
                       NEW o \in Sessions, o = owner'[u]
                PROVE  /\ call'[o].at = "enterJoin" /\ call'[o].room = r => Over(o)' \/ room'[o] # Lobby
                       /\ ~(call'[o].at \in Creating /\ call'[o].room = r /\ ~Over(o)')
                       /\ ~Has(queue'[r], "enter", u)
                       /\ call'[t].at = "loseMove" => u \notin users'[r]
    BY <1>3, <1>5 DEF HitOnce, Acquainted, CallRooms, Fighting, Hitting
  <2>1. /\ u \in Made \ astray /\ o = owner[u] /\ r \in roomMap
        /\ call[t].at \in Fighting /\ call[t].user = u /\ call[t].room = r
    BY <1>1, <1>2 DEF Acquainted, Values, Calls, Fighting, Hitting
  <2>. QED
    BY <2>1, <1>1, <1>2 DEF HitOnce, Acquainted, Values, Calls, Creating, Fighting, CallRooms
<1>12. InItsRoom'
  BY <1>1, <1>2
  DEF InItsRoom, Values, Calls, Losing, Creating, CallRooms, Entering, SessionRooms, Acquainted
<1>. QED
  BY <1>3, <1>4, <1>5, <1>6, <1>7, <1>8, <1>9, <1>10, <1>11, <1>12

LEMMA LoseMoveStep ==
  ASSUME Typed, Values, RoomInv, NEW s \in Sessions, LoseMove(s), ~Crash("null"),
         astray' = astray \cup {v \in {call[s].user} :
                     ~At(owner[call[s].user], "idle") \/ room[owner[call[s].user]] \notin {Lobby, call[s].room}}
  PROVE  RoomInv'
<1>. USE DEF RoomInv, At, Over
<1>1. PICK q \in roomMap, n \in Made, p \in Sessions :
             /\ q = call[s].room /\ n = call[s].user /\ p = owner[n] /\ call[s].at = "loseMove"
             /\ Calls(s, "loseEnter", q, n)
  BY CallFacts DEF LoseMove, CallRooms, Acquainted, Hitting
<1>2. /\ room'[p] = Lobby /\ \A x \in Sessions \ {p} : room'[x] = room[x]
      /\ UNCHANGED <<user, phase, owner, logins, users, started, roomMap, queue>> /\ Made' = Made
      /\ q \in Rooms /\ q # Lobby /\ q # None /\ n # None
  <2>1. room' = [room EXCEPT ![p] = Lobby] /\ UNCHANGED <<user, phase, owner, logins, users, started, roomMap, queue>>
    BY <1>1 DEF LoseMove, userVars, roomVars, queueVars
  <2>2. room \in [Sessions -> AllRooms \cup {None}]
    BY DEF Typed, SessionsTyped
  <2>3. q \in Rooms /\ q # Lobby /\ q # None /\ n # None
    BY <1>1 DEF Values
  <2>. QED
    BY <1>1, <2>1, <2>2, <2>3 DEF Made
<1>3. n \notin astray' => n \notin astray /\ call[p].at = "idle" /\ room[p] \in {Lobby, q} /\ ~Bound(q, n)
  BY <1>1, JoinsFacts DEF HitOnce, Fighting, Bound
<1>4. ~Over(p) => user[p] = n
  BY <1>1 DEF Acquainted
<1>5. Acquainted'
  BY <1>1, <1>2, <1>3, <1>4 DEF Acquainted, Values, Calls, Hitting
<1>6. Unused'
  BY <1>1, <1>2, <1>3, <1>4 DEF Unused, Values, Calls
<1>7. CallRooms'
  BY <1>1, <1>2, <1>3, <1>4
  DEF CallRooms, Unused, Values, Calls, Creating, Entering, Hitting, Fighting
<1>8. SessionRooms'
  BY <1>1, <1>2, <1>3, <1>4 DEF SessionRooms, Values, Calls, Creating
<1>9. LeavesAtEnd'
  BY <1>1, <1>2, <1>3, <1>4 DEF LeavesAtEnd, Acquainted, Values
<1>10. EntersOnce'
  BY <1>1, <1>2, <1>3, <1>4 DEF EntersOnce, Acquainted, Values
<1>11. NotThereYet'
  BY <1>1, <1>2, <1>3, <1>4 DEF NotThereYet, CallRooms, Values, Calls, Creating
<1>12. Placed'
  <2>. SUFFICES ASSUME NEW r \in AllRooms, NEW u \in Made' \ astray', Bound(r, u)',
                       NEW o \in Sessions, o = owner'[u]
                PROVE  \/ ~Over(o)' /\ room'[o] = r
                       \/ r = Lobby /\ call'[o].at \in {"createLeave", "enterLeave"} /\ user'[o] \in {u, None}
                       \/ r = call'[o].room /\ call'[o].at = "enterMove" /\ user'[o] \in {u, None}
                       \/ r = Lobby /\ Has(queue'[r], "leave", None)
    BY <1>5 DEF Placed, Acquainted
  <2>1. u \in Made \ astray /\ Bound(r, u) /\ o = owner[u]
    BY <1>1, <1>2, <1>3, <1>4 DEF Bound, Values
  <2>. QED
    BY <2>1, <1>1, <1>2, <1>3, <1>4 DEF Placed, Acquainted, SessionRooms, Values, Calls
<1>13. HitOnce'
  <2>. SUFFICES ASSUME NEW t \in Sessions, call'[t].at \in Fighting, NEW u \in Made' \ astray',
                       call'[t].user = u, NEW r \in roomMap', call'[t].room = r,
                       NEW o \in Sessions, o = owner'[u]
                PROVE  /\ call'[o].at = "enterJoin" /\ call'[o].room = r => Over(o)' \/ room'[o] # Lobby
                       /\ ~(call'[o].at \in Creating /\ call'[o].room = r /\ ~Over(o)')
                       /\ ~Has(queue'[r], "enter", u)
                       /\ call'[t].at = "loseMove" => u \notin users'[r]
    BY <1>5, <1>7 DEF HitOnce, Acquainted, CallRooms, Fighting, Hitting
  <2>1. /\ u \in Made \ astray /\ o = owner[u] /\ r \in roomMap
        /\ call[t].at \in Fighting /\ call[t].user = u /\ call[t].room = r
    BY <1>1, <1>2, <1>3, <1>4 DEF Acquainted, Values, Calls, Fighting, Hitting
  <2>. QED
    BY <2>1, <1>1, <1>2, <1>3, <1>4
    DEF HitOnce, Acquainted, Values, Calls, Creating, Fighting, CallRooms
<1>14. InItsRoom'
  BY <1>1, <1>2, <1>3, <1>4
  DEF InItsRoom, Values, Calls, Losing, Creating, CallRooms, Entering, SessionRooms, Acquainted
<1>. QED
  BY <1>5, <1>6, <1>7, <1>8, <1>9, <1>10, <1>11, <1>12, <1>13, <1>14

LEMMA LoseEnterStep ==
  ASSUME Typed, Values, RoomInv, NEW s \in Sessions, LoseEnter(s),
         astray' = astray \cup {v \in {call[s].user} : Over(owner[call[s].user]) \/ room[owner[call[s].user]] # Lobby}
  PROVE  RoomInv'
<1>. USE DEF RoomInv, At, Over
<1>1. PICK n, q : /\ n \in Made /\ n = call[s].user /\ q = call[s].room /\ call[s].at = "loseEnter"
                  /\ Calls(s, "count", q, n)
  BY CallFacts DEF LoseEnter, Acquainted, Hitting
<1>2. /\ UNCHANGED <<user, room, phase, owner, logins, users, started, roomMap>> /\ Made' = Made
      /\ Posts(Lobby, "enter", n)
  BY <1>1, PostFacts DEF LoseEnter, sessionVars, userVars, roomVars, Made, Values
<1>3. Acquainted'
  BY <1>1, <1>2 DEF Acquainted, Values, Calls, Hitting, Posts
<1>4. Unused'
  BY <1>1, <1>2 DEF Unused, Values, Calls, Posts
<1>5. CallRooms'
  BY <1>1, <1>2 DEF CallRooms, Unused, Values, Calls, Creating, Entering, Hitting, Fighting, Posts
<1>6. SessionRooms'
  BY <1>1, <1>2 DEF SessionRooms, Values, Calls, Creating, Posts
<1>7. LeavesAtEnd'
  BY <1>1, <1>2 DEF LeavesAtEnd, Acquainted, Values, Posts
<1>8. EntersOnce'
  BY <1>1, <1>2 DEF EntersOnce, Acquainted, Values, Posts
<1>9. NotThereYet'
  BY <1>1, <1>2 DEF NotThereYet, CallRooms, Values, Calls, Creating, Posts
<1>10. Placed'
  <2>. SUFFICES ASSUME NEW r \in AllRooms, NEW u \in Made' \ astray', Bound(r, u)',
                       NEW o \in Sessions, o = owner'[u]
                PROVE  \/ ~Over(o)' /\ room'[o] = r
                       \/ r = Lobby /\ call'[o].at \in {"createLeave", "enterLeave"} /\ user'[o] \in {u, None}
                       \/ r = call'[o].room /\ call'[o].at = "enterMove" /\ user'[o] \in {u, None}
                       \/ r = Lobby /\ Has(queue'[r], "leave", None)
    BY <1>3 DEF Placed, Acquainted
  <2>1. u \in Made \ astray /\ o = owner[u]
    BY <1>1, <1>2
  <2>2. CASE r = Lobby /\ u = n
    BY <1>1, <1>2, <2>1, <2>2
  <2>3. CASE ~(r = Lobby /\ u = n)
    <3>1. Bound(r, u)
      BY <1>1, <1>2, <2>3 DEF Bound, Values, Posts
    <3>. QED
      BY <2>1, <3>1, <1>1, <1>2 DEF Placed, Acquainted, Values, Calls, Posts
  <2>. QED
    BY <2>2, <2>3
<1>11. HitOnce'
  <2>. SUFFICES ASSUME NEW t \in Sessions, call'[t].at \in Fighting, NEW u \in Made' \ astray',
                       call'[t].user = u, NEW r \in roomMap', call'[t].room = r,
                       NEW o \in Sessions, o = owner'[u]
                PROVE  /\ call'[o].at = "enterJoin" /\ call'[o].room = r => Over(o)' \/ room'[o] # Lobby
                       /\ ~(call'[o].at \in Creating /\ call'[o].room = r /\ ~Over(o)')
                       /\ ~Has(queue'[r], "enter", u)
                       /\ call'[t].at = "loseMove" => u \notin users'[r]
    BY <1>3, <1>5 DEF HitOnce, Acquainted, CallRooms, Fighting, Hitting
  <2>1. /\ u \in Made \ astray /\ o = owner[u] /\ r \in roomMap
        /\ call[t].at \in Fighting /\ call[t].user = u /\ call[t].room = r
    BY <1>1, <1>2 DEF Acquainted, Values, Calls, Fighting, Hitting, Posts
  <2>. QED
    BY <2>1, <1>1, <1>2 DEF HitOnce, Acquainted, Values, Calls, Creating, Fighting, CallRooms, Posts
<1>12. InItsRoom'
  BY <1>1, <1>2
  DEF InItsRoom, Values, Calls, Losing, Creating, CallRooms, Entering, SessionRooms, Acquainted,
      Posts
<1>. QED
  BY <1>3, <1>4, <1>5, <1>6, <1>7, <1>8, <1>9, <1>10, <1>11, <1>12

LEMMA CountStep ==
  ASSUME Typed, Values, RoomInv, NEW s \in Sessions, Count(s), Cardinality(users[call[s].room]) = 1, ~Crash("null"),
         astray' = astray \cup {user[s]}
  PROVE  RoomInv'
<1>. USE DEF RoomInv, At, Over
<1>1. PICK q : q = call[s].room /\ user[s] # None /\ call[s].at = "count" /\ Calls(s, "winEnter", q, call[s].user)
             /\ Leave(q, user[s])
  BY CallFacts DEF Count
<1>2. /\ \A r \in AllRooms : \A u : u # user[s] => (u \in users'[r] <=> u \in users[r])
      /\ \A r \in AllRooms : users'[r] \subseteq users[r]
      /\ UNCHANGED <<user, room, phase, owner, logins, started, roomMap, queue>> /\ Made' = Made
  BY <1>1 DEF Count, Leave, SetUsers, sessionVars, userVars, queueVars, Typed, RoomsTyped, Made
<1>3. Acquainted'
  BY <1>1, <1>2 DEF Acquainted, Values, Calls, Hitting
<1>4. Unused'
  BY <1>1, <1>2 DEF Unused, Values, Calls
<1>5. CallRooms'
  BY <1>1, <1>2 DEF CallRooms, Unused, Values, Calls, Creating, Entering, Hitting, Fighting
<1>6. SessionRooms'
  BY <1>1, <1>2 DEF SessionRooms, Values, Calls, Creating
<1>7. LeavesAtEnd'
  BY <1>1, <1>2 DEF LeavesAtEnd, Acquainted, Values
<1>8. EntersOnce'
  BY <1>1, <1>2 DEF EntersOnce, Acquainted, Values
<1>9. NotThereYet'
  BY <1>1, <1>2 DEF NotThereYet, CallRooms, Values, Calls, Creating
<1>10. Placed'
  <2>. SUFFICES ASSUME NEW r \in AllRooms, NEW u \in Made' \ astray', Bound(r, u)',
                       NEW o \in Sessions, o = owner'[u]
                PROVE  \/ ~Over(o)' /\ room'[o] = r
                       \/ r = Lobby /\ call'[o].at \in {"createLeave", "enterLeave"} /\ user'[o] \in {u, None}
                       \/ r = call'[o].room /\ call'[o].at = "enterMove" /\ user'[o] \in {u, None}
                       \/ r = Lobby /\ Has(queue'[r], "leave", None)
    BY <1>3 DEF Placed, Acquainted
  <2>1. u \in Made \ astray /\ Bound(r, u) /\ o = owner[u]
    BY <1>1, <1>2 DEF Bound, Values
  <2>. QED
    BY <2>1, <1>1, <1>2 DEF Placed, Acquainted, SessionRooms, Values, Calls
<1>11. HitOnce'
  <2>. SUFFICES ASSUME NEW t \in Sessions, call'[t].at \in Fighting, NEW u \in Made' \ astray',
                       call'[t].user = u, NEW r \in roomMap', call'[t].room = r,
                       NEW o \in Sessions, o = owner'[u]
                PROVE  /\ call'[o].at = "enterJoin" /\ call'[o].room = r => Over(o)' \/ room'[o] # Lobby
                       /\ ~(call'[o].at \in Creating /\ call'[o].room = r /\ ~Over(o)')
                       /\ ~Has(queue'[r], "enter", u)
                       /\ call'[t].at = "loseMove" => u \notin users'[r]
    BY <1>3, <1>5 DEF HitOnce, Acquainted, CallRooms, Fighting, Hitting
  <2>1. /\ u \in Made \ astray /\ o = owner[u] /\ r \in roomMap
        /\ call[t].at \in Fighting /\ call[t].user = u /\ call[t].room = r
    BY <1>1, <1>2 DEF Acquainted, Values, Calls, Fighting, Hitting
  <2>. QED
    BY <2>1, <1>1, <1>2 DEF HitOnce, Acquainted, Values, Calls, Creating, Fighting, CallRooms
<1>12. InItsRoom'
  BY <1>1, <1>2
  DEF InItsRoom, Values, Calls, Losing, Creating, CallRooms, Entering, SessionRooms, Acquainted
<1>. QED
  BY <1>3, <1>4, <1>5, <1>6, <1>7, <1>8, <1>9, <1>10, <1>11, <1>12

LEMMA WinEnterStep ==
  ASSUME Typed, Values, RoomInv, NEW s \in Sessions, WinEnter(s), astray' = astray
  PROVE  RoomInv'
<1>. USE DEF RoomInv, At, Over
<1>1. PICK q : q = call[s].room /\ call[s].at = "winEnter" /\ Calls(s, "report", q, call[s].user)
             /\ user[s] \in astray \cup {None} /\ user[s] \in UserIds \cup {None}
  BY CallFacts DEF WinEnter, SessionRooms, Values
<1>2. /\ UNCHANGED <<user, room, phase, owner, logins, users, started, roomMap>> /\ Made' = Made
      /\ Posts(Lobby, "enter", user[s])
  BY <1>1, PostFacts DEF WinEnter, sessionVars, userVars, roomVars, Made
<1>3. Acquainted'
  BY <1>1, <1>2 DEF Acquainted, Values, Calls, Hitting, Posts
<1>4. Unused'
  BY <1>1, <1>2 DEF Unused, Values, Calls, Posts
<1>5. CallRooms'
  BY <1>1, <1>2 DEF CallRooms, Unused, Values, Calls, Creating, Entering, Hitting, Fighting, Posts
<1>6. SessionRooms'
  BY <1>1, <1>2 DEF SessionRooms, Values, Calls, Creating, Posts
<1>7. LeavesAtEnd'
  BY <1>1, <1>2 DEF LeavesAtEnd, Acquainted, Values, Posts
<1>8. EntersOnce'
  BY <1>1, <1>2 DEF EntersOnce, Acquainted, Values, Posts
<1>9. NotThereYet'
  BY <1>1, <1>2 DEF NotThereYet, CallRooms, Values, Calls, Creating, Posts
<1>10. Placed'
  <2>. SUFFICES ASSUME NEW r \in AllRooms, NEW u \in Made' \ astray', Bound(r, u)',
                       NEW o \in Sessions, o = owner'[u]
                PROVE  \/ ~Over(o)' /\ room'[o] = r
                       \/ r = Lobby /\ call'[o].at \in {"createLeave", "enterLeave"} /\ user'[o] \in {u, None}
                       \/ r = call'[o].room /\ call'[o].at = "enterMove" /\ user'[o] \in {u, None}
                       \/ r = Lobby /\ Has(queue'[r], "leave", None)
    BY <1>3 DEF Placed, Acquainted
  <2>1. u \in Made \ astray /\ Bound(r, u) /\ o = owner[u]
    BY <1>1, <1>2 DEF Bound, Values, Posts
  <2>. QED
    BY <2>1, <1>1, <1>2 DEF Placed, Acquainted, SessionRooms, Values, Calls, Posts
<1>11. HitOnce'
  <2>. SUFFICES ASSUME NEW t \in Sessions, call'[t].at \in Fighting, NEW u \in Made' \ astray',
                       call'[t].user = u, NEW r \in roomMap', call'[t].room = r,
                       NEW o \in Sessions, o = owner'[u]
                PROVE  /\ call'[o].at = "enterJoin" /\ call'[o].room = r => Over(o)' \/ room'[o] # Lobby
                       /\ ~(call'[o].at \in Creating /\ call'[o].room = r /\ ~Over(o)')
                       /\ ~Has(queue'[r], "enter", u)
                       /\ call'[t].at = "loseMove" => u \notin users'[r]
    BY <1>3, <1>5 DEF HitOnce, Acquainted, CallRooms, Fighting, Hitting
  <2>1. /\ u \in Made \ astray /\ o = owner[u] /\ r \in roomMap
        /\ call[t].at \in Fighting /\ call[t].user = u /\ call[t].room = r
    BY <1>1, <1>2 DEF Acquainted, Values, Calls, Fighting, Hitting, Posts
  <2>. QED
    BY <2>1, <1>1, <1>2 DEF HitOnce, Acquainted, Values, Calls, Creating, Fighting, CallRooms, Posts
<1>12. InItsRoom'
  BY <1>1, <1>2
  DEF InItsRoom, Values, Calls, Losing, Creating, CallRooms, Entering, SessionRooms, Acquainted,
      Posts
<1>. QED
  BY <1>3, <1>4, <1>5, <1>6, <1>7, <1>8, <1>9, <1>10, <1>11, <1>12

-----------------------------------------------------------------------------
(* The end of a session, and the jobs. *)

LEMMA DisconnectedLeaveStep ==
  ASSUME Typed, Values, RoomInv, NEW s \in Sessions, DisconnectedLeave(s), astray' = astray
  PROVE  RoomInv'
<1>. USE DEF RoomInv, At, Over
<1>1. /\ phase[s] = "removed" /\ phase'[s] = "left" /\ \A x \in Sessions \ {s} : phase'[x] = phase[x]
      /\ UNCHANGED <<user, room, owner, logins, users, started, roomMap, call>> /\ Made' = Made
  BY DEF DisconnectedLeave, Typed, SessionsTyped, userVars, roomVars, Made
<1>2. IF room[s] = None THEN queue' = queue /\ user[s] = None
      ELSE Posts(room[s], "leave", user[s]) /\ user[s] # None
  BY <1>1, PostFacts DEF DisconnectedLeave, queueVars, Acquainted, Values
<1>3. Acquainted'
  BY <1>1, <1>2 DEF Acquainted, Values, Calls, Hitting, Posts
<1>4. Unused'
  BY <1>1, <1>2 DEF Unused, Values, Calls, Posts
<1>5. CallRooms'
  BY <1>1, <1>2 DEF CallRooms, Unused, Values, Calls, Creating, Entering, Hitting, Fighting, Posts
<1>6. SessionRooms'
  BY <1>1, <1>2 DEF SessionRooms, Values, Calls, Creating, Posts
<1>7. LeavesAtEnd'
  BY <1>1, <1>2 DEF LeavesAtEnd, Acquainted, Values, Posts
<1>8. EntersOnce'
  BY <1>1, <1>2 DEF EntersOnce, Acquainted, Values, Posts
<1>9. NotThereYet'
  BY <1>1, <1>2 DEF NotThereYet, CallRooms, Values, Calls, Creating, Posts
<1>10. Placed'
  <2>. SUFFICES ASSUME NEW r \in AllRooms, NEW u \in Made' \ astray', Bound(r, u)',
                       NEW o \in Sessions, o = owner'[u]
                PROVE  \/ ~Over(o)' /\ room'[o] = r
                       \/ r = Lobby /\ call'[o].at \in {"createLeave", "enterLeave"} /\ user'[o] \in {u, None}
                       \/ r = call'[o].room /\ call'[o].at = "enterMove" /\ user'[o] \in {u, None}
                       \/ r = Lobby /\ Has(queue'[r], "leave", None)
    BY <1>3 DEF Placed, Acquainted
  <2>1. u \in Made \ astray /\ Bound(r, u) /\ o = owner[u]
    BY <1>1, <1>2 DEF Bound, Values, Posts
  <2>2. CASE o = s
    <3>1. ~Over(s) /\ u # None
      BY <1>1, <2>1, <2>2 DEF Values
    <3>3. user[s] = u
      <4>1. owner[u] = s /\ u \in Made /\ phase[s] = "removed"
        BY <1>1, <2>1, <2>2
      <4>2. \A v \in Made : owner[v] = s => user[s] = v
        BY <1>1 DEF Acquainted
      <4>. QED
        BY <4>1, <4>2
    <3>4. room[s] # None
      BY <1>2, <3>1, <3>3
    <3>2. ~(r = room[s])
      BY <1>1, <1>2, <2>1, <3>1, <3>3, <3>4 DEF Bound, Values, Posts
    <3>. QED
      BY <2>1, <2>2, <3>1, <3>2, <3>3, <1>1, <1>2 DEF Placed, Values, Posts
  <2>3. CASE o # s
    BY <2>1, <2>3, <1>1, <1>2 DEF Placed, Values, Posts
  <2>. QED
    BY <2>2, <2>3
<1>11. HitOnce'
  <2>. SUFFICES ASSUME NEW t \in Sessions, call'[t].at \in Fighting, NEW u \in Made' \ astray',
                       call'[t].user = u, NEW r \in roomMap', call'[t].room = r,
                       NEW o \in Sessions, o = owner'[u]
                PROVE  /\ call'[o].at = "enterJoin" /\ call'[o].room = r => Over(o)' \/ room'[o] # Lobby
                       /\ ~(call'[o].at \in Creating /\ call'[o].room = r /\ ~Over(o)')
                       /\ ~Has(queue'[r], "enter", u)
                       /\ call'[t].at = "loseMove" => u \notin users'[r]
    BY <1>3, <1>5 DEF HitOnce, Acquainted, CallRooms, Fighting, Hitting
  <2>1. /\ u \in Made \ astray /\ o = owner[u] /\ r \in roomMap
        /\ call[t].at \in Fighting /\ call[t].user = u /\ call[t].room = r
    BY <1>1, <1>2 DEF Acquainted, Values, Calls, Fighting, Hitting, Posts
  <2>. QED
    BY <2>1, <1>1, <1>2 DEF HitOnce, Acquainted, Values, Calls, Creating, Fighting, CallRooms, Posts
<1>12. InItsRoom'
  BY <1>1, <1>2
  DEF InItsRoom, Values, Calls, Losing, Creating, CallRooms, Entering, SessionRooms, Acquainted,
      Posts
<1>. QED
  BY <1>3, <1>4, <1>5, <1>6, <1>7, <1>8, <1>9, <1>10, <1>11, <1>12

LEMMA DisconnectedResetStep ==
  ASSUME Typed, Values, RoomInv, NEW s \in Sessions, DisconnectedReset(s), astray' = astray
  PROVE  RoomInv'
<1>. USE DEF RoomInv, At, Over
<1>1. /\ phase[s] = "left" /\ phase'[s] = "closed" /\ \A x \in Sessions \ {s} : phase'[x] = phase[x]
      /\ user'[s] = None /\ \A x \in Sessions \ {s} : user'[x] = user[x]
      /\ UNCHANGED <<room, owner, logins, users, started, roomMap, call, queue>> /\ Made' = Made
  BY DEF DisconnectedReset, Typed, SessionsTyped, userVars, roomVars, queueVars, Made
<1>2. Acquainted'
  BY <1>1 DEF Acquainted, Values, Calls, Hitting
<1>3. Unused'
  BY <1>1 DEF Unused, Values, Calls
<1>4. CallRooms'
  BY <1>1 DEF CallRooms, Unused, Values, Calls, Creating, Entering, Hitting, Fighting
<1>5. SessionRooms'
  BY <1>1 DEF SessionRooms, Values, Calls, Creating
<1>6. LeavesAtEnd'
  BY <1>1 DEF LeavesAtEnd, Acquainted, Values
<1>7. EntersOnce'
  BY <1>1 DEF EntersOnce, Acquainted, Values
<1>8. NotThereYet'
  BY <1>1 DEF NotThereYet, CallRooms, Values, Calls, Creating
<1>9. Placed'
  <2>. SUFFICES ASSUME NEW r \in AllRooms, NEW u \in Made' \ astray', Bound(r, u)',
                       NEW o \in Sessions, o = owner'[u]
                PROVE  \/ ~Over(o)' /\ room'[o] = r
                       \/ r = Lobby /\ call'[o].at \in {"createLeave", "enterLeave"} /\ user'[o] \in {u, None}
                       \/ r = call'[o].room /\ call'[o].at = "enterMove" /\ user'[o] \in {u, None}
                       \/ r = Lobby /\ Has(queue'[r], "leave", None)
    BY <1>2 DEF Placed, Acquainted
  <2>1. u \in Made \ astray /\ Bound(r, u) /\ o = owner[u]
    BY <1>1 DEF Bound, Values
  <2>. QED
    BY <2>1, <1>1 DEF Placed, Acquainted, SessionRooms, Values, Calls
<1>10. HitOnce'
  <2>. SUFFICES ASSUME NEW t \in Sessions, call'[t].at \in Fighting, NEW u \in Made' \ astray',
                       call'[t].user = u, NEW r \in roomMap', call'[t].room = r,
                       NEW o \in Sessions, o = owner'[u]
                PROVE  /\ call'[o].at = "enterJoin" /\ call'[o].room = r => Over(o)' \/ room'[o] # Lobby
                       /\ ~(call'[o].at \in Creating /\ call'[o].room = r /\ ~Over(o)')
                       /\ ~Has(queue'[r], "enter", u)
                       /\ call'[t].at = "loseMove" => u \notin users'[r]
    BY <1>2, <1>4 DEF HitOnce, Acquainted, CallRooms, Fighting, Hitting
  <2>1. /\ u \in Made \ astray /\ o = owner[u] /\ r \in roomMap
        /\ call[t].at \in Fighting /\ call[t].user = u /\ call[t].room = r
    BY <1>1 DEF Acquainted, Values, Calls, Fighting, Hitting
  <2>. QED
    BY <2>1, <1>1 DEF HitOnce, Acquainted, Values, Calls, Creating, Fighting, CallRooms
<1>11. InItsRoom'
  BY <1>1
  DEF InItsRoom, Values, Calls, Losing, Creating, CallRooms, Entering, SessionRooms, Acquainted
<1>. QED
  BY <1>2, <1>3, <1>4, <1>5, <1>6, <1>7, <1>8, <1>9, <1>10, <1>11

LEMMA JobStep ==
  ASSUME Typed, Values, RoomInv, NEW q \in AllRooms, JobEnterOrLeave(q), ~Crash("null"), astray' = astray \cup CrowdedOut(q)
  PROVE  RoomInv'
<1>. USE DEF RoomInv, At, Over
<1>1. PICK job \in Jobs : /\ job = Head(queue[q]) /\ job.op \in {"enter", "leave"} /\ job.user \in UserIds
                       /\ queue[q] \in Seq(Jobs) /\ queue[q] # <<>>
  <2>1. queue[q] \in Seq(Jobs) /\ queue[q] # <<>> /\ Head(queue[q]).op # "broadcast" /\ Head(queue[q]).user # None
    BY DEF JobEnterOrLeave, Due, Typed, QueuesTyped
  <2>. QED
    BY <2>1, HeadAndTail DEF Jobs
<1>2. /\ IF job.op = "enter" THEN Enter(q, job.user) ELSE Leave(q, job.user)
      /\ queue' = [queue EXCEPT ![q] = Tail(@)]
      /\ UNCHANGED <<user, room, phase, owner, logins, started, roomMap, call>> /\ Made' = Made
  BY <1>1 DEF JobEnterOrLeave, sessionVars, userVars, Enter, Leave, SetUsers, Made
<1>3. /\ queue'[q] = Tail(queue[q]) /\ \A r \in AllRooms \ {q} : queue'[r] = queue[r] /\ users'[r] = users[r]
      /\ job.op = "leave" => users'[q] = users[q] \ {job.user}
      /\ job.op = "enter" => users'[q] = users[q] \cup {job.user} \/ (users'[q] = users[q] /\ job.user \in astray')
  <2>1. Due(q)
    BY DEF JobEnterOrLeave
  <2>. QED
    BY <1>1, <1>2, <2>1 DEF Enter, Leave, SetUsers, CrowdedOut, Typed, RoomsTyped, QueuesTyped
<1>4. \A u \in UserIds \cup {None} :
        /\ \A op : Has(queue[q], op, u) <=> Has(queue'[q], op, u) \/ (job.op = op /\ job.user = u)
        /\ Joins(queue'[q], u) => Joins(queue[q], u)
        /\ job.op = "enter" /\ job.user = u =>
             /\ ~Has(queue'[q], "leave", u) => Joins(queue[q], u)
             /\ Once(queue[q], u) => ~Has(queue'[q], "enter", u)
        /\ Once(queue[q], u) => Once(queue'[q], u)
  <2>. SUFFICES ASSUME NEW u \in UserIds \cup {None}
                PROVE  /\ \A op : Has(queue[q], op, u) <=> Has(Tail(queue[q]), op, u) \/ (job.op = op /\ job.user = u)
                       /\ Joins(Tail(queue[q]), u) => Joins(queue[q], u)
                       /\ job.op = "enter" /\ job.user = u =>
                            /\ ~Has(Tail(queue[q]), "leave", u) => Joins(queue[q], u)
                            /\ Once(queue[q], u) => ~Has(Tail(queue[q]), "enter", u)
                       /\ Once(queue[q], u) => Once(Tail(queue[q]), u)
    BY <1>3
  <2>. QED
    BY <1>1, TailFacts
<1>5. /\ \A r \in AllRooms : \A u \in UserIds \cup {None} :
           /\ \A op : Has(queue'[r], op, u) => Has(queue[r], op, u)
           /\ Once(queue[r], u) => Once(queue'[r], u)
      /\ \A r \in AllRooms : \A u \in UserIds : Bound(r, u)' => Bound(r, u)
  <2>1. \A r \in AllRooms : \A u \in UserIds \cup {None} :
          /\ \A op : Has(queue'[r], op, u) => Has(queue[r], op, u)
          /\ Once(queue[r], u) => Once(queue'[r], u)
    BY <1>3, <1>4
  <2>2. ASSUME NEW u \in UserIds, Bound(q, u)' PROVE Bound(q, u)
    BY <1>1, <1>3, <1>4, <2>2 DEF Bound
  <2>3. ASSUME NEW r \in AllRooms \ {q}, NEW u \in UserIds, Bound(r, u)' PROVE Bound(r, u)
    BY <1>3, <2>3 DEF Bound
  <2>. QED
    BY <2>1, <2>2, <2>3
<1>6. Acquainted'
  BY <1>1, <1>2, <1>3, <1>4, <1>5 DEF Acquainted, Values, Calls, Hitting
<1>7. Unused'
  BY <1>1, <1>2, <1>3, <1>4, <1>5 DEF Unused, Values, Calls
<1>8. CallRooms'
  BY <1>1, <1>2, <1>3, <1>4, <1>5
  DEF CallRooms, Unused, Values, Calls, Creating, Entering, Hitting, Fighting
<1>9. SessionRooms'
  BY <1>1, <1>2, <1>3, <1>4, <1>5 DEF SessionRooms, Values, Calls, Creating
<1>10. LeavesAtEnd'
  BY <1>1, <1>2, <1>3, <1>4, <1>5 DEF LeavesAtEnd, Acquainted, Values
<1>11. EntersOnce'
  BY <1>1, <1>2, <1>3, <1>4, <1>5 DEF EntersOnce, Acquainted, Values
<1>12. NotThereYet'
  BY <1>1, <1>2, <1>3, <1>4, <1>5 DEF NotThereYet, CallRooms, Values, Calls, Creating
<1>13. Placed'
  <2>. SUFFICES ASSUME NEW r \in AllRooms, NEW u \in Made' \ astray', Bound(r, u)',
                       NEW o \in Sessions, o = owner'[u]
                PROVE  \/ ~Over(o)' /\ room'[o] = r
                       \/ r = Lobby /\ call'[o].at \in {"createLeave", "enterLeave"} /\ user'[o] \in {u, None}
                       \/ r = call'[o].room /\ call'[o].at = "enterMove" /\ user'[o] \in {u, None}
                       \/ r = Lobby /\ Has(queue'[r], "leave", None)
    BY <1>6 DEF Placed, Acquainted
  <2>1. u \in Made \ astray /\ Bound(r, u) /\ o = owner[u]
    BY <1>1, <1>2, <1>3, <1>4, <1>5 DEF Bound, Values
  <2>. QED
    BY <2>1, <1>1, <1>2, <1>3, <1>4, <1>5 DEF Placed, Acquainted, SessionRooms, Values, Calls
<1>14. HitOnce'
  <2>. SUFFICES ASSUME NEW t \in Sessions, call'[t].at \in Fighting, NEW u \in Made' \ astray',
                       call'[t].user = u, NEW r \in roomMap', call'[t].room = r,
                       NEW o \in Sessions, o = owner'[u]
                PROVE  /\ call'[o].at = "enterJoin" /\ call'[o].room = r => Over(o)' \/ room'[o] # Lobby
                       /\ ~(call'[o].at \in Creating /\ call'[o].room = r /\ ~Over(o)')
                       /\ ~Has(queue'[r], "enter", u)
                       /\ call'[t].at = "loseMove" => u \notin users'[r]
    BY <1>6, <1>8 DEF HitOnce, Acquainted, CallRooms, Fighting, Hitting
  <2>1. /\ u \in Made \ astray /\ o = owner[u] /\ r \in roomMap
        /\ call[t].at \in Fighting /\ call[t].user = u /\ call[t].room = r
    BY <1>1, <1>2, <1>3, <1>4, <1>5 DEF Acquainted, Values, Calls, Fighting, Hitting
  <2>. QED
    BY <2>1, <1>1, <1>2, <1>3, <1>4, <1>5
    DEF HitOnce, Acquainted, Values, Calls, Creating, Fighting, CallRooms
<1>15. InItsRoom'
  <2>1. ASSUME NEW x \in Sessions, ~Over(x), user[x] \notin astray' \cup {None}, NEW r \in Rooms
        PROVE  /\ user[x] \in users[r] => user[x] \in users'[r]
               /\ Has(queue[r], "enter", user[x]) => user[x] \in users'[r] \/ Has(queue'[r], "enter", user[x])
    <3>1. user[x] \in Made \ astray /\ owner[user[x]] = x /\ user[x] \in UserIds
      BY <2>1 DEF Acquainted, Values
    <3>2. ~Has(queue[r], "leave", user[x])
      BY <2>1, <3>1 DEF LeavesAtEnd
    <3>. QED
      BY <1>1, <1>3, <1>4, <2>1, <3>1, <3>2 DEF Values
  <2>2. \A u : Losing(u)' <=> Losing(u)
    BY <1>2 DEF Losing
  <2>. QED
    BY <1>2, <2>1, <2>2 DEF InItsRoom, Values, CallRooms, Entering
<1>. QED
  BY <1>6, <1>7, <1>8, <1>9, <1>10, <1>11, <1>12, <1>13, <1>14, <1>15

-----------------------------------------------------------------------------
(* Every step. *)

LEMMA AstrayFacts ==
  ASSUME NEW s
  PROVE  /\ call[s].at \in {"createEnter", "enterMove"} => LedAstray(s) = {v \in {user[s]} : Over(s)}
         /\ At(s, "enterJoin") =>
              LedAstray(s) = {v \in {user[s]} : ~Full(call[s].room) /\ (Over(s) \/ room[s] # Lobby)}
         /\ At(s, "count") => LedAstray(s) = {v \in {user[s]} : Cardinality(users[call[s].room]) = 1}
         /\ At(s, "loseMove") =>
              LedAstray(s) = {v \in {call[s].user} : ~At(owner[call[s].user], "idle")
                                                     \/ room[owner[call[s].user]] \notin {Lobby, call[s].room}}
         /\ At(s, "loseEnter") =>
              LedAstray(s) = {v \in {call[s].user} : Over(owner[call[s].user]) \/ room[owner[call[s].user]] # Lobby}
         /\ call[s].at \notin {"createEnter", "enterMove", "enterJoin", "count", "loseMove", "loseEnter"} =>
              LedAstray(s) = {}
<1>. HIDE DEF Full, Over
<1>1. CASE call[s].at \in {"createEnter", "enterMove"}
  BY <1>1 DEF LedAstray, At
<1>2. CASE call[s].at = "enterJoin"
  BY <1>2 DEF LedAstray, At
<1>3. CASE call[s].at = "count"
  BY <1>3 DEF LedAstray, At
<1>4. CASE call[s].at = "loseMove"
  BY <1>4 DEF LedAstray, At
<1>5. CASE call[s].at = "loseEnter"
  BY <1>5 DEF LedAstray, At
<1>6. CASE call[s].at \notin {"createEnter", "enterMove", "enterJoin", "count", "loseMove", "loseEnter"}
  BY <1>6 DEF LedAstray, At
<1>. QED
  BY <1>1, <1>2, <1>3, <1>4, <1>5, <1>6 DEF At

LEMMA ReceiveRooms ==
  ASSUME Typed, Values, RoomInv, NEW s \in Sessions, At(s, "idle"), Receive(s),
         astray' = astray \cup LedAstray(s)
  PROVE  RoomInv'
<1>1. astray' = astray
  BY AstrayFacts DEF At
<1>2. CASE Login(s)
  BY <1>1, <1>2, LoginStep
<1>3. CASE CreateRoom(s)
  BY <1>1, <1>3, CreateRoomStep
<1>4. ASSUME NEW r \in Rooms, EnterRoom(s, r) PROVE RoomInv'
  BY <1>1, <1>4, EnterRoomStep
<1>5. CASE Ready(s) \/ Move(s) \/ Attack(s) \/ Start(s)
  BY <1>1, <1>5, PacketQuiet, QuietStep
<1>6. ASSUME NEW v \in UserIds, Attacked(s, v) PROVE RoomInv'
  BY <1>1, <1>6, AttackedStep
<1>. QED
  BY <1>2, <1>3, <1>4, <1>5, <1>6 DEF Receive

LEMMA ProceedRooms ==
  ASSUME Typed, Values, RoomInv, NEW s \in Sessions, Proceed(s), astray' = astray \cup LedAstray(s)
  PROVE  RoomInv'
<1>1. CASE Crash("null")
  BY <1>1, CrashQuiet, QuietStep
<1>2. CASE ~Crash("null")
  <2>1. CASE CreateMake(s)
    <3>1. astray' = astray
      BY <2>1, AstrayFacts DEF CreateMake, At
    <3>. QED
      BY <1>2, <2>1, <3>1, CreateMakeStep
  <2>2. CASE CreateLeave(s)
    <3>1. astray' = astray
      BY <2>2, AstrayFacts DEF CreateLeave, At
    <3>. QED
      BY <2>2, <3>1, CreateLeaveStep
  <2>3. CASE CreateEnter(s)
    <3>1. astray' = astray \cup {v \in {user[s]} : Over(s)}
      BY <2>3, AstrayFacts DEF CreateEnter, At
    <3>. QED
      BY <2>3, <3>1, CreateEnterStep
  <2>4. CASE EnterJoin(s)
    <3>1. astray' = astray \cup {v \in {user[s]} : ~Full(call[s].room) /\ (Over(s) \/ room[s] # Lobby)}
      BY <2>4, AstrayFacts DEF EnterJoin
    <3>. QED
      BY <1>2, <2>4, <3>1, EnterJoinStep
  <2>5. CASE EnterMove(s)
    <3>1. astray' = astray \cup {v \in {user[s]} : Over(s)}
      BY <2>5, AstrayFacts DEF EnterMove, At
    <3>. QED
      BY <1>2, <2>5, <3>1, EnterMoveStep
  <2>6. CASE EnterLeave(s)
    <3>1. astray' = astray
      BY <2>6, AstrayFacts DEF EnterLeave, At
    <3>. QED
      BY <2>6, <3>1, EnterLeaveStep
  <2>7. CASE Broadcast(s)
    BY <2>7, PostQuiet, QuietStep
  <2>8. CASE LoginAdd(s) \/ ReadyToggle(s) \/ ActRead(s) \/ StartPlaces(s) \/ StartEach(s) \/ StartWild(s)
    BY <2>8, PlainQuiet, QuietStep
  <2>. QED
    BY <2>1, <2>2, <2>3, <2>4, <2>5, <2>6, <2>7, <2>8 DEF Proceed
<1>. QED
  BY <1>1, <1>2

LEMMA HitRooms ==
  ASSUME Typed, Values, RoomInv, NEW s \in Sessions, Hit(s), astray' = astray \cup LedAstray(s)
  PROVE  RoomInv'
<1>1. CASE Crash("null")
  BY <1>1, CrashQuiet, QuietStep
<1>2. CASE ~Crash("null")
  <2>1. CASE HitLoad(s) \/ HitStore(s) \/ Lose(s)
    BY <2>1, HitQuiet, QuietStep
  <2>2. CASE LoseLeave(s)
    <3>1. astray' = astray
      BY <2>2, AstrayFacts DEF LoseLeave, At
    <3>. QED
      BY <2>2, <3>1, LoseLeaveStep
  <2>3. CASE LoseMove(s)
    <3>1. astray' = astray \cup {v \in {call[s].user} : ~At(owner[call[s].user], "idle")
                                   \/ room[owner[call[s].user]] \notin {Lobby, call[s].room}}
      BY <2>3, AstrayFacts DEF LoseMove
    <3>. QED
      BY <1>2, <2>3, <3>1, LoseMoveStep
  <2>4. CASE LoseEnter(s)
    <3>1. astray' = astray \cup {v \in {call[s].user} : Over(owner[call[s].user]) \/ room[owner[call[s].user]] # Lobby}
      BY <2>4, AstrayFacts DEF LoseEnter
    <3>. QED
      BY <2>4, <3>1, LoseEnterStep
  <2>5. CASE Count(s) /\ Cardinality(users[call[s].room]) = 1
    <3>1. astray' = astray \cup {user[s]}
      BY <2>5, AstrayFacts DEF Count
    <3>. QED
      BY <1>2, <2>5, <3>1, CountStep
  <2>6. CASE Count(s) /\ Cardinality(users[call[s].room]) # 1
    <3>1. /\ call[s].at = "count" /\ Go(s, "report")
          /\ UNCHANGED <<user, room, phase, owner, logins, users, started, roomMap, queue>>
      BY <2>6 DEF Count, At, sessionVars, userVars, roomVars, queueVars
    <3>2. Calls(s, "report", call[s].room, call[s].user)
      BY <3>1, CallFacts
    <3>. QED
      BY <3>1, <3>2, SameQueue, CallQuiet, QuietStep DEF Creating
  <2>7. CASE WinEnter(s)
    <3>1. astray' = astray
      BY <2>7, AstrayFacts DEF WinEnter, At
    <3>. QED
      BY <2>7, <3>1, WinEnterStep
  <2>8. CASE Report(s)
    BY <2>8, PostQuiet, QuietStep
  <2>. QED
    BY <2>1, <2>2, <2>3, <2>4, <2>5, <2>6, <2>7, <2>8 DEF Hit
<1>. QED
  BY <1>1, <1>2

LEMMA NextRooms == Typed /\ RoomInv /\ [Next]_vars => RoomInv'
<1>. SUFFICES ASSUME Typed, RoomInv, [Next]_vars PROVE RoomInv'
  OBVIOUS
<1>0. Values
  BY ValuesFact
<1>1. ASSUME NEW r \in AllRooms, Execute(r), astray' = astray \cup CrowdedOut(r)
      PROVE  RoomInv'
  <2>1. CASE Crash("null")
    BY <1>0, <1>1, <2>1, CrashQuiet, QuietStep
  <2>2. CASE JobEnterOrLeave(r) /\ ~Crash("null")
    BY <1>0, <1>1, <2>2, JobStep
  <2>3. CASE JobBroadcast(r) \/ BroadcastNext(r) \/ BroadcastWild(r) \/ ExecuteEnd(r) \/ ExecuteTimeout(r)
    BY <1>0, <1>1, <2>3, ExecuteQuiet, QuietStep
  <2>. QED
    BY <1>1, <2>1, <2>2, <2>3 DEF Execute
<1>2. ASSUME NEW s \in Sessions, Handler(s), astray' = astray \cup LedAstray(s)
      PROVE  RoomInv'
  BY <1>0, <1>2, ReceiveRooms, ProceedRooms, HitRooms DEF Handler
<1>3. ASSUME NEW s \in Sessions, End(s), UNCHANGED history
      PROVE  RoomInv'
  <2>1. astray' = astray
    BY <1>3 DEF history
  <2>. QED
    BY <1>0, <1>3, <2>1, EndQuiet, QuietStep, DisconnectedLeaveStep, DisconnectedResetStep DEF End
<1>4. CASE UNCHANGED vars
  <2>1. UNCHANGED <<user, room, phase, owner, logins, users, roomMap, started, queue, call, astray>>
    BY <1>4 DEF vars, sessionVars, userVars, roomVars, queueVars, history
  <2>2. Quiet
    BY <2>1, SameQueue DEF Quiet, Calm, Over
  <2>. QED
    BY <1>0, <2>2, QuietStep
<1>. QED
  BY <1>1, <1>2, <1>3, <1>4 DEF Next

LEMMA InitRooms == Init => RoomInv
<1>. SUFFICES ASSUME Init PROVE RoomInv
  OBVIOUS
<1>1. Made = {}
  <2>1. logins = 0
    BY DEF Init
  <2>. QED
    BY <2>1 DEF Made
<1>2. /\ \A r \in AllRooms : users[r] = {} /\ queue[r] = <<>>
      /\ \A s \in Sessions : /\ user[s] = None /\ room[s] = None /\ phase[s] = "open"
                             /\ call[s].at = "idle" /\ call[s].room = None
      /\ roomMap = {} /\ Rooms \subseteq AllRooms
  BY DEF Init, NoCall, AllRooms
<1>3. \A r \in AllRooms : \A op, u : ~Has(queue[r], op, u)
  BY <1>2 DEF Has
<1>4. None \notin Rooms
  BY GameServerAssumption
<1>. USE <1>1, <1>2, <1>3, <1>4 DEF At, Over
<1>5. Acquainted /\ Unused /\ CallRooms /\ SessionRooms
  BY DEF Acquainted, Unused, CallRooms, SessionRooms, Creating, Entering, Hitting, Fighting
<1>6. LeavesAtEnd /\ EntersOnce /\ NotThereYet /\ Placed
  BY DEF LeavesAtEnd, EntersOnce, NotThereYet, Placed, Creating
<1>7. HitOnce /\ InItsRoom
  BY DEF HitOnce, InItsRoom, Fighting, Hitting
<1>. QED
  BY <1>5, <1>6, <1>7 DEF RoomInv

LEMMA QueuedHas ==
  ASSUME Typed, NEW r \in AllRooms, NEW op, NEW u
  PROVE  Queued(r, op, u) <=> Has(queue[r], op, u)
<1>1. queue[r] \in Seq(Jobs)
  BY DEF Typed, QueuesTyped
<1>2. DOMAIN queue[r] = 1..Len(queue[r])
  BY <1>1
<1>. QED
  BY <1>2 DEF Queued, Has

RoomsInv == OrderInv /\ RoomInv

LEMMA RoomsInvariant == Spec => []RoomsInv
<1>1. Init => RoomsInv
  BY InitOrder, InitRooms DEF RoomsInv
<1>2. RoomsInv /\ [Next]_vars => RoomsInv'
  BY NextOrder, NextRooms DEF RoomsInv, OrderInv
<1>. QED
  BY <1>1, <1>2, PTL DEF Spec

\* For any number of sessions and rooms, and whoever joins, creates, loses and
\* leaves at once: a session whose handlers are through acts on the room whose
\* _users it is in, apart from the users that went astray.
THEOREM RoomsAgree == Spec => []RoomAgrees
<1>1. RoomsInv => RoomAgrees
  <2>. SUFFICES ASSUME RoomsInv PROVE RoomAgrees
    OBVIOUS
  <2>. USE DEF RoomsInv, OrderInv, RoomInv
  <2>0. Values
    BY ValuesFact
  <2>1. TypeOK
    BY DEF Typed, SessionsTyped, UsersTyped, RoomsTyped, QueuesTyped, CallsTyped, CallType,
           HistoryTyped, TypeOK
  <2>2. ASSUME NEW s \in Sessions, phase[s] = "open", At(s, "idle"), user[s] \notin astray \cup {None},
               \A t \in Sessions : ~(At(t, "loseMove") /\ call[t].user = user[s]), NEW r \in Rooms
        PROVE  user[s] \in users[r] \/ Queued(r, "enter", user[s]) <=> room[s] = r
    <3>1. ~Over(s) /\ user[s] \in Made \ astray /\ owner[user[s]] = s /\ r \in AllRooms /\ r # Lobby
      BY <2>0, <2>2 DEF Over, Acquainted, Values
    <3>2. Queued(r, "enter", user[s]) <=> Has(queue[r], "enter", user[s])
      BY <3>1, QueuedHas
    <3>3. ASSUME room[s] = r PROVE user[s] \in users[r] \/ Has(queue[r], "enter", user[s])
      BY <2>2, <3>1, <3>3 DEF InItsRoom, Losing, At, Creating
    <3>4. ASSUME user[s] \in users[r] \/ Has(queue[r], "enter", user[s]) PROVE room[s] = r
      <4>1. ~Has(queue[r], "leave", user[s])
        BY <3>1 DEF LeavesAtEnd
      <4>2. Bound(r, user[s])
        BY <3>4, <4>1, JoinsFacts DEF Bound
      <4>. QED
        BY <2>2, <3>1, <4>2 DEF Placed, At
    <3>. QED
      BY <3>2, <3>3, <3>4
  <2>. QED
    BY <2>1, <2>2 DEF RoomAgrees
<1>. QED
  BY <1>1, RoomsInvariant, PTL

\* For any number of sessions and rooms, a player whose connection has ended and
\* who is still in a room has a Leave among its jobs, or was led astray, or is in
\* the lobby with a Leave of nobody to come: there is no other way to stay behind.
THEOREM TheDeadLeave == Spec => []DeadHaveLeft
<1>1. RoomsInv => DeadHaveLeft
  <2>. SUFFICES ASSUME RoomsInv, NEW r \in AllRooms, NEW u \in users[r] \ astray,
                       Over(owner[u]), At(owner[u], "idle"),
                       ~Queued(r, "leave", u), ~(r = Lobby /\ Queued(r, "leave", None))
                PROVE  FALSE
    BY DEF DeadHaveLeft
  <2>. USE DEF RoomsInv, OrderInv, RoomInv
  <2>1. /\ u \in Made \ astray /\ ~Has(queue[r], "leave", u)
        /\ ~(r = Lobby /\ Has(queue[r], "leave", None))
    BY QueuedHas DEF Acquainted
  <2>2. Bound(r, u)
    BY <2>1 DEF Bound
  <2>. QED
    BY <2>1, <2>2 DEF Placed, At
<1>. QED
  BY <1>1, RoomsInvariant, PTL

-----------------------------------------------------------------------------
(* What the loser is sent. *)

\* The S_LOSE that names u is among the jobs of r, or on its way to u, or was sent.
Reaching(r, u) ==
  \/ u \in told
  \/ Has(queue[r], "broadcast", u)
  \/ running[r].op = "broadcast" /\ running[r].user = u /\ running[r].at < u

\* A loser who is still a member is sent it; a queue that nobody executes is empty.
HeardInv ==
  /\ \A t \in Sessions :
       At(t, "loseLeave") /\ call[t].user \in users[call[t].room] \ astray =>
         Reaching(call[t].room, call[t].user)
  /\ \A r \in AllRooms : executor[r] = None => queue[r] = <<>> /\ running[r] = NoJob

\* A job that is done is not lost on a member.
LEMMA ReachingStays ==
  ASSUME Typed, HistoryTyped, Ordered, NEW r \in AllRooms, NEW u \in UserIds, u \in users[r],
         Execute(r), Hear(r), Reaching(r, u)
  PROVE  Reaching(r, u)'
<1>1. /\ queue \in [AllRooms -> Seq(Jobs)] /\ running \in [AllRooms -> Jobs \cup {NoJob}]
      /\ users[r] \in SUBSET UserIds /\ told \subseteq UserIds
      /\ u \in Int /\ u # 0 /\ u > 0
  <2>1. u \in Int /\ u # 0 /\ u > 0
    BY GameServerAssumption DEF UserIds
  <2>. QED
    BY <2>1 DEF Typed, QueuesTyped, RoomsTyped, HistoryTyped
<1>2. told \subseteq told'
  BY DEF Hear
<1>3. CASE u \in told
  BY <1>2, <1>3 DEF Reaching
<1>4. CASE UNCHANGED <<queue, running>>
  BY <1>2, <1>4 DEF Reaching
<1>5. CASE JobEnterOrLeave(r) /\ queue' = [queue EXCEPT ![r] = Tail(@)] /\ running' = running
  <2>1. queue[r] \in Seq(Jobs) /\ queue[r] # <<>> /\ Head(queue[r]).op # "broadcast"
    BY <1>1, <1>5 DEF JobEnterOrLeave, Due
  <2>2. Has(queue[r], "broadcast", u) => Has(Tail(queue[r]), "broadcast", u)
    BY <2>1, TailFacts
  <2>3. queue'[r] = Tail(queue[r])
    BY <1>1, <1>5
  <2>. QED
    BY <1>2, <1>5, <2>2, <2>3 DEF Reaching
<1>6. CASE JobBroadcast(r)
  <2>1. /\ queue[r] \in Seq(Jobs) /\ queue[r] # <<>> /\ Head(queue[r]).op = "broadcast" /\ running[r] = NoJob
        /\ queue'[r] = Tail(queue[r]) /\ running'[r] = Head(queue[r])
    BY <1>1, <1>6 DEF JobBroadcast, Due
  <2>2. Has(queue[r], "broadcast", u) => Has(Tail(queue[r]), "broadcast", u) \/ Head(queue[r]).user = u
    BY <2>1, TailFacts
  <2>3. Head(queue[r]).at = 0
    <3>1. 1 \in 1..Len(queue[r]) /\ Head(queue[r]) = queue[r][1]
      BY <2>1
    <3>. QED
      BY <3>1 DEF Ordered, OrderedIn
  <2>4. running[r].op # "broadcast"
    BY <2>1 DEF NoJob
  <2>. QED
    BY <1>1, <1>2, <2>1, <2>2, <2>3, <2>4 DEF Reaching
<1>7. CASE BroadcastNext(r) /\ ~UNCHANGED <<queue, running>>
  <2>. DEFINE rest == {v \in users[r] : v > running[r].at}
              m    == Min(rest)
  <2>1. /\ queue' = queue /\ running[r].op = "broadcast"
        /\ \/ rest = {} /\ running' = [running EXCEPT ![r] = NoJob]
           \/ rest # {} /\ running' = [running EXCEPT ![r].at = m]
    BY <1>7 DEF BroadcastNext, Crash, queueVars
  <2>2. CASE Has(queue[r], "broadcast", u)
    BY <2>1, <2>2 DEF Reaching
  <2>3. CASE running[r].user = u /\ running[r].at < u
    <3>0. running[r] \in Jobs
      BY <1>1, <2>1 DEF NoJob
    <3>1. u \in rest /\ rest \in SUBSET UserIds
      <4>1. running[r].at \in Nat
        BY <3>0 DEF Jobs
      <4>. QED
        BY <1>1, <2>3, <4>1
    <3>. HIDE DEF rest
    <3>2. m \in UserIds /\ m <= u
      BY <3>1, MinFact
    <3>. HIDE DEF m
    <3>3. running'[r] = [running[r] EXCEPT !.at = m]
      BY <1>1, <2>1, <3>1
    <3>4. running'[r].at = m /\ running'[r].op = "broadcast" /\ running'[r].user = u
      BY <2>1, <2>3, <3>0, <3>3 DEF Jobs
    <3>5. m \in Int /\ m # 0
      BY <3>2, Ids
    <3>6. CASE m < u
      BY <3>4, <3>6 DEF Reaching
    <3>7. CASE m = u
      <4>1. running'[r].at # running[r].at
        BY <2>3, <3>0, <3>4, <3>7, <1>1 DEF Jobs
      <4>. QED
        BY <2>3, <3>4, <3>5, <3>7, <4>1 DEF Hear, Reaching
    <3>. QED
      BY <1>1, <3>2, <3>5, <3>6, <3>7
  <2>. QED
    BY <1>3, <2>2, <2>3 DEF Reaching
<1>. QED
  BY <1>4, <1>5, <1>6, <1>7
  DEF Execute, JobEnterOrLeave, BroadcastNext, BroadcastWild, ExecuteEnd, ExecuteTimeout, Crash, queueVars

\* A room has an executor while it has jobs.
LEMMA ExecuteServes ==
  ASSUME Typed, NEW r \in AllRooms, Execute(r),
         \A q \in AllRooms : executor[q] = None => queue[q] = <<>> /\ running[q] = NoJob
  PROVE  \A q \in AllRooms : executor'[q] = None => queue'[q] = <<>> /\ running'[q] = NoJob
<1>1. \A q \in AllRooms \ {r} : executor'[q] = executor[q] /\ queue'[q] = queue[q] /\ running'[q] = running[q]
  BY DEF Execute, JobEnterOrLeave, JobBroadcast, BroadcastNext, BroadcastWild, ExecuteEnd, ExecuteTimeout,
         Crash, queueVars, Typed, QueuesTyped
<1>2. executor'[r] = None => queue'[r] = <<>> /\ running'[r] = NoJob
  <2>1. CASE ExecuteEnd(r)
    BY <2>1 DEF ExecuteEnd
  <2>2. CASE ExecuteTimeout(r)
    <3>1. Worker # None
      BY GameServerAssumption DEF Worker
    <3>. QED
      BY <2>2, <3>1 DEF ExecuteTimeout, Typed, QueuesTyped
  <2>3. CASE ~ExecuteEnd(r) /\ ~ExecuteTimeout(r)
    BY <2>3
    DEF Execute, JobEnterOrLeave, JobBroadcast, BroadcastNext, BroadcastWild, Crash, queueVars
  <2>. QED
    BY <2>1, <2>2, <2>3
<1>. QED
  BY <1>1, <1>2

\* A thread adds a job, or none.
Hands(thread) ==
  \/ UNCHANGED queueVars
  \/ \E r, op, u : op \in {"enter", "leave", "broadcast"} /\ u \in UserIds \cup {None} /\ Post(thread, r, op, u)

LEMMA HandlerHands ==
  ASSUME Typed, NEW s \in Sessions, Handler(s)
  PROVE  Hands(Recv(s))
<1>1. /\ user[s] \in UserIds \cup {None}
      /\ At(s, "lose") \/ At(s, "loseEnter") => call[s].user \in UserIds
  BY DEF Typed, SessionsTyped, CallsTyped, At, Hitting
<1>2. CASE CreateLeave(s) \/ CreateEnter(s) \/ EnterLeave(s) \/ Broadcast(s) \/ Lose(s)
             \/ LoseEnter(s) \/ WinEnter(s) \/ Report(s)
  BY <1>1, <1>2
  DEF CreateLeave, CreateEnter, EnterLeave, Broadcast, Lose, LoseEnter, WinEnter, Report, Crash, Hands
<1>3. CASE Login(s) \/ LoginAdd(s) \/ CreateRoom(s) \/ CreateMake(s)
             \/ (\E r \in Rooms : EnterRoom(s, r)) \/ EnterJoin(s) \/ EnterMove(s)
  BY <1>3 DEF Login, LoginAdd, CreateRoom, CreateMake, EnterRoom, EnterJoin, EnterMove, Crash, Hands
<1>4. CASE Ready(s) \/ ReadyToggle(s) \/ Move(s) \/ Attack(s) \/ ActRead(s)
             \/ Start(s) \/ StartPlaces(s) \/ StartEach(s) \/ StartWild(s)
  BY <1>4
  DEF Ready, ReadyToggle, Move, Attack, ActRead, Start, StartPlaces, StartEach, StartWild, Crash, Hands
<1>5. CASE (\E t \in UserIds : Attacked(s, t)) \/ HitLoad(s) \/ HitStore(s) \/ LoseLeave(s)
             \/ LoseMove(s) \/ Count(s)
  BY <1>5 DEF Attacked, HitLoad, HitStore, LoseLeave, LoseMove, Count, Crash, Hands
<1>. QED
  BY <1>2, <1>3, <1>4, <1>5 DEF Handler, Receive, Proceed, Hit

LEMMA EndHands ==
  ASSUME Typed, NEW s \in Sessions, End(s)
  PROVE  Hands(Close(s))
<1>1. user[s] \in UserIds \cup {None}
  BY DEF Typed, SessionsTyped
<1>. QED
  BY <1>1 DEF End, Disconnected, DisconnectedLeave, DisconnectedReset, Destroy, Hands

LEMMA HandsFacts ==
  ASSUME Typed, NEW thread, thread # None, Hands(thread),
         \A q \in AllRooms : executor[q] = None => queue[q] = <<>> /\ running[q] = NoJob
  PROVE  /\ \A q \in AllRooms : executor'[q] = None => queue'[q] = <<>> /\ running'[q] = NoJob
         /\ running' = running
         /\ \A q \in AllRooms : \A u \in UserIds : Has(queue[q], "broadcast", u) => Has(queue'[q], "broadcast", u)
<1>1. CASE UNCHANGED queueVars
  BY <1>1 DEF queueVars
<1>2. ASSUME NEW r, NEW op \in {"enter", "leave", "broadcast"}, NEW u \in UserIds \cup {None},
             Post(thread, r, op, u)
      PROVE  /\ \A q \in AllRooms : executor'[q] = None => queue'[q] = <<>> /\ running'[q] = NoJob
             /\ running' = running
             /\ \A q \in AllRooms : \A v \in UserIds :
                  Has(queue[q], "broadcast", v) => Has(queue'[q], "broadcast", v)
  <2>1. Posts(r, op, u)
    BY <1>2, PostFacts
  <2>2. \A q \in AllRooms : executor'[q] # None \/ (q # r /\ executor'[q] = executor[q] /\ queue'[q] = queue[q])
    BY <1>2 DEF Post, Typed, QueuesTyped
  <2>. QED
    BY <1>2, <2>1, <2>2 DEF Posts, Post
<1>. QED
  BY <1>1, <1>2 DEF Hands

\* Only Lose goes on to the Leave of the loser.
LEMMA OnlyLose ==
  ASSUME Typed, NEW s \in Sessions, Handler(s), NEW t \in Sessions, call'[t].at = "loseLeave"
  PROVE  call'[t] = call[t] \/ (t = s /\ Lose(s))
<1>1. ASSUME NEW label, NEW r, NEW u, Calls(s, label, r, u), label # "loseLeave" PROVE call'[t] = call[t]
  BY <1>1 DEF Calls
<1>2. CASE call' = call
  BY <1>2
<1>3. CASE Lose(s)
  BY <1>3, CallFacts DEF Lose, Calls
<1>4. CASE CreateMake(s)
  <2>1. CASE \E r : call' = [call EXCEPT ![s].at = "createLeave", ![s].room = r]
    <3>1. call \in [Sessions -> CallType] /\ call[s] \in CallType
      BY DEF Typed, CallsTyped
    <3>2. call'[s].at = "createLeave" /\ \A x \in Sessions \ {s} : call'[x] = call[x]
      BY <2>1, <3>1 DEF CallType
    <3>. QED
      BY <3>2
  <2>. QED
    BY <1>2, <1>4, <2>1 DEF CreateMake, Crash
<1>5. CASE StartEach(s)
  <2>1. CASE \E u : call' = [call EXCEPT ![s].user = u]
    <3>1. call \in [Sessions -> CallType] /\ call[s] \in CallType /\ call[s].at = "startEach"
      BY <1>5 DEF Typed, CallsTyped, StartEach, At
    <3>2. call'[s].at = "startEach" /\ \A x \in Sessions \ {s} : call'[x] = call[x]
      BY <2>1, <3>1 DEF CallType
    <3>. QED
      BY <3>2
  <2>. QED
    BY <1>1, <1>2, <1>5, <2>1, CallFacts DEF StartEach, Crash
<1>6. CASE Login(s) \/ LoginAdd(s) \/ CreateRoom(s) \/ CreateLeave(s) \/ CreateEnter(s)
           \/ (\E r \in Rooms : EnterRoom(s, r)) \/ EnterJoin(s) \/ EnterMove(s) \/ EnterLeave(s)
  BY <1>1, <1>2, <1>6, CallFacts
  DEF Login, LoginAdd, CreateRoom, CreateLeave, CreateEnter, EnterRoom, EnterJoin, EnterMove, EnterLeave, Crash
<1>7. CASE Ready(s) \/ ReadyToggle(s) \/ Broadcast(s) \/ Move(s) \/ Attack(s) \/ ActRead(s)
           \/ Start(s) \/ StartPlaces(s) \/ StartWild(s)
  BY <1>1, <1>2, <1>7, CallFacts
  DEF Ready, ReadyToggle, Broadcast, Move, Attack, ActRead, Start, StartPlaces, StartWild, Crash
<1>8. CASE (\E v \in UserIds : Attacked(s, v)) \/ HitLoad(s) \/ HitStore(s) \/ LoseLeave(s)
           \/ LoseMove(s) \/ LoseEnter(s) \/ Count(s) \/ WinEnter(s) \/ Report(s)
  BY <1>1, <1>2, <1>8, CallFacts
  DEF Attacked, HitLoad, HitStore, LoseLeave, LoseMove, LoseEnter, Count, WinEnter, Report, Crash
<1>. QED
  BY <1>3, <1>4, <1>5, <1>6, <1>7, <1>8 DEF Handler, Receive, Proceed, Hit

\* Only EnterJoin makes a member without a job.
LEMMA OnlyEnterJoin ==
  ASSUME Typed, NEW s \in Sessions, Handler(s), NEW r \in AllRooms, NEW u \in users'[r] \ users[r]
  PROVE  At(s, "enterJoin") /\ call[s].room = r /\ u = user[s] /\ ~Full(r)
<1>1. users' # users
  OBVIOUS
<1>2. CASE EnterJoin(s) \/ LoseLeave(s) \/ Count(s)
  <2>1. CASE EnterJoin(s)
    <3>1. At(s, "enterJoin") /\ SetUsers(call[s].room, IF Full(call[s].room) THEN users[call[s].room]
                                                       ELSE users[call[s].room] \cup {user[s]})
      BY <1>1, <2>1 DEF EnterJoin, Crash, roomVars, Enter
    <3>2. users \in [AllRooms -> SUBSET UserIds]
      BY DEF Typed, RoomsTyped
    <3>3. r = call[s].room
      BY <3>1, <3>2 DEF SetUsers
    <3>4. users'[r] = IF Full(r) THEN users[r] ELSE users[r] \cup {user[s]}
      BY <3>1, <3>2, <3>3 DEF SetUsers
    <3>. QED
      BY <3>1, <3>3, <3>4
  <2>2. CASE LoseLeave(s) \/ Count(s)
    BY <1>1, <2>2 DEF LoseLeave, Count, Crash, roomVars, Leave, SetUsers, Typed, RoomsTyped
  <2>. QED
    BY <1>2, <2>1, <2>2
<1>3. CASE Login(s) \/ LoginAdd(s) \/ CreateRoom(s) \/ CreateMake(s) \/ CreateLeave(s) \/ CreateEnter(s)
           \/ (\E q \in Rooms : EnterRoom(s, q)) \/ EnterMove(s) \/ EnterLeave(s)
  BY <1>1, <1>3
  DEF Login, LoginAdd, CreateRoom, CreateMake, CreateLeave, CreateEnter, EnterRoom, EnterMove, EnterLeave,
      Crash, roomVars
<1>4. CASE Ready(s) \/ ReadyToggle(s) \/ Broadcast(s) \/ Move(s) \/ Attack(s) \/ ActRead(s)
           \/ Start(s) \/ StartPlaces(s) \/ StartEach(s) \/ StartWild(s)
  BY <1>1, <1>4
  DEF Ready, ReadyToggle, Broadcast, Move, Attack, ActRead, Start, StartPlaces, StartEach, StartWild,
      Crash, roomVars
<1>5. CASE (\E v \in UserIds : Attacked(s, v)) \/ HitLoad(s) \/ HitStore(s) \/ Lose(s)
           \/ LoseMove(s) \/ LoseEnter(s) \/ WinEnter(s) \/ Report(s)
  BY <1>1, <1>5
  DEF Attacked, HitLoad, HitStore, Lose, LoseMove, LoseEnter, WinEnter, Report, Crash, roomVars
<1>. QED
  BY <1>2, <1>3, <1>4, <1>5 DEF Handler, Receive, Proceed, Hit

\* A player who is hit and no member stays none, or goes astray.
LEMMA StaysOut ==
  ASSUME Typed, Values, RoomInv, NEW t \in Sessions, At(t, "loseLeave")
  PROVE  /\ call[t].room \in AllRooms /\ call[t].user \in UserIds
         /\ \/ \E s \in Sessions : Handler(s) /\ astray' = astray \cup LedAstray(s)
            \/ \E q \in AllRooms : Execute(q) /\ astray' = astray \cup CrowdedOut(q)
            => call[t].user \notin users'[call[t].room] \ astray' \/ call[t].user \in users[call[t].room] \ astray
<1>a. PICK u, r : u = call[t].user /\ r = call[t].room
  OBVIOUS
<1>1. u \in Made /\ u \in UserIds /\ r \in AllRooms /\ owner[u] \in Sessions /\ call[t].at \in Fighting
  BY <1>a DEF RoomInv, Acquainted, CallRooms, At, Hitting, Fighting, Values
<1>2. ASSUME NEW s \in Sessions, Handler(s), astray' = astray \cup LedAstray(s),
             u \in users'[r] \ astray', u \notin users[r] \ astray
      PROVE  FALSE
  <2>1. At(s, "enterJoin") /\ call[s].room = r /\ u = user[s] /\ ~Full(r) /\ u \notin astray
    BY <1>1, <1>2, OnlyEnterJoin
  <2>2. Over(s) \/ room[s] # Lobby
    <3>1. owner[u] = s
      BY <1>1, <2>1 DEF RoomInv, Acquainted, Values
    <3>. QED
      BY <1>1, <1>a, <2>1, <3>1 DEF RoomInv, HitOnce
  <2>3. u \in LedAstray(s)
    BY <2>1, <2>2, AstrayFacts
  <2>. QED
    BY <1>2, <2>3
<1>3. ASSUME NEW q \in AllRooms, Execute(q), astray' = astray \cup CrowdedOut(q),
             u \in users'[r] \ astray', u \notin users[r] \ astray
      PROVE  FALSE
  <2>1. u \notin users[r] /\ u \notin astray
    BY <1>3
  <2>2. ~Has(queue[r], "enter", u)
    BY <1>1, <1>a, <2>1 DEF RoomInv, HitOnce
  <2>3. JobEnterOrLeave(q) /\ ~Crash("null")
    BY <1>3, <2>1
    DEF Execute, JobEnterOrLeave, JobBroadcast, BroadcastNext, BroadcastWild, ExecuteEnd, ExecuteTimeout,
        Crash, roomVars
  <2>4. queue[q] \in Seq(Jobs) /\ queue[q] # <<>> /\ users[q] \in SUBSET UserIds
    BY <2>3 DEF JobEnterOrLeave, Due, Typed, QueuesTyped, RoomsTyped
  <2>5. r = q /\ Head(queue[q]).op = "enter" /\ Head(queue[q]).user = u
    <3>1. users \in [AllRooms -> SUBSET UserIds]
      BY DEF Typed, RoomsTyped
    <3>2. CASE Head(queue[q]).op = "enter" /\ Enter(q, Head(queue[q]).user)
      BY <1>1, <1>3, <2>1, <3>1, <3>2 DEF Enter, SetUsers
    <3>3. CASE Leave(q, Head(queue[q]).user)
      BY <1>1, <1>3, <2>1, <3>1, <3>3 DEF Leave, SetUsers
    <3>. QED
      BY <2>3, <3>2, <3>3 DEF JobEnterOrLeave
  <2>6. Has(queue[q], "enter", u)
    <3>1. Has(queue[q], "enter", u) <=> Has(Tail(queue[q]), "enter", u)
                                       \/ (Head(queue[q]).op = "enter" /\ Head(queue[q]).user = u)
      BY <2>4, TailFacts
    <3>. QED
      BY <2>5, <3>1
  <2>. QED
    BY <2>2, <2>5, <2>6
<1>. QED
  BY <1>1, <1>a, <1>2, <1>3

LEMMA NextHeard == OrderInv /\ RoomInv /\ HeardInv /\ [Next]_vars => HeardInv'
<1>. SUFFICES ASSUME OrderInv, RoomInv, HeardInv, [Next]_vars PROVE HeardInv'
  OBVIOUS
<1>. USE DEF OrderInv
<1>0. Values
  BY ValuesFact
<1>1. ASSUME NEW q \in AllRooms, Execute(q), Hear(q), astray' = astray \cup CrowdedOut(q)
      PROVE  HeardInv'
  <2>1. call' = call /\ \A r \in AllRooms \ {q} : queue'[r] = queue[r] /\ running'[r] = running[r] /\ users'[r] = users[r]
    BY <1>1
    DEF Execute, JobEnterOrLeave, JobBroadcast, BroadcastNext, BroadcastWild, ExecuteEnd,
        ExecuteTimeout,
                Crash, roomVars, queueVars, Enter, Leave, SetUsers, Typed, RoomsTyped, QueuesTyped
  <2>2. told \subseteq told' /\ astray \subseteq astray'
    BY <1>1 DEF Hear
  <2>3. ASSUME NEW t \in Sessions, At(t, "loseLeave")', call'[t].user \in users'[call'[t].room] \ astray'
        PROVE  Reaching(call[t].room, call[t].user)'
    <3>. DEFINE u == call[t].user
                r == call[t].room
    <3>1. At(t, "loseLeave") /\ u \in users'[r] \ astray'
      BY <2>1, <2>3 DEF At
    <3>2. r \in AllRooms /\ u \in UserIds /\ u \in users[r] \ astray
      BY <1>0, <1>1, <3>1, StaysOut
    <3>3. Reaching(r, u)
      BY <3>1, <3>2 DEF HeardInv
    <3>4. CASE r = q
      BY <1>1, <3>2, <3>3, <3>4, <2>1, ReachingStays DEF Reaching
    <3>5. CASE r # q
      BY <2>1, <2>2, <3>2, <3>3, <3>5 DEF Reaching
    <3>. QED
      BY <3>4, <3>5
  <2>4. \A r \in AllRooms : executor'[r] = None => queue'[r] = <<>> /\ running'[r] = NoJob
    BY <1>1, ExecuteServes DEF HeardInv
  <2>. QED
    BY <2>1, <2>3, <2>4 DEF HeardInv
<1>2. ASSUME NEW thread, thread # None, Hands(thread), told' = told,
             \A t \in Sessions : At(t, "loseLeave")' /\ call'[t].user \in users'[call'[t].room] \ astray' =>
               /\ call'[t].room \in AllRooms /\ call'[t].user \in UserIds
               /\ \/ Has(queue'[call'[t].room], "broadcast", call'[t].user)
                  \/ call'[t] = call[t] /\ call[t].user \in users[call[t].room] \ astray
      PROVE  HeardInv'
  <2>1. /\ \A q \in AllRooms : executor'[q] = None => queue'[q] = <<>> /\ running'[q] = NoJob
        /\ running' = running
        /\ \A q \in AllRooms : \A u \in UserIds : Has(queue[q], "broadcast", u) => Has(queue'[q], "broadcast", u)
    BY <1>2, HandsFacts DEF HeardInv
  <2>. QED
    BY <1>2, <2>1 DEF HeardInv, Reaching, At
<1>3. ASSUME NEW s \in Sessions, Handler(s), astray' = astray \cup LedAstray(s), UNCHANGED <<last, told>>
      PROVE  HeardInv'
  <2>1. Hands(Recv(s)) /\ Recv(s) # None
    BY <1>3, HandlerHands, GameServerAssumption DEF Recv
  <2>2. ASSUME NEW t \in Sessions, At(t, "loseLeave")', call'[t].user \in users'[call'[t].room] \ astray'
        PROVE  /\ call'[t].room \in AllRooms /\ call'[t].user \in UserIds
               /\ \/ Has(queue'[call'[t].room], "broadcast", call'[t].user)
                  \/ call'[t] = call[t] /\ call[t].user \in users[call[t].room] \ astray
    <3>1. CASE call'[t] = call[t]
      <4>1. At(t, "loseLeave")
        BY <2>2, <3>1 DEF At
      <4>. QED
        BY <1>0, <1>3, <2>2, <3>1, <4>1, StaysOut
    <3>2. CASE t = s /\ Lose(s)
      <4>1. /\ call[s].user \in UserIds /\ call[s].room \in AllRooms
            /\ call'[s].room = call[s].room /\ call'[s].user = call[s].user
        BY <1>0, <3>2, CallFacts
        DEF Lose, Calls, At, Typed, CallsTyped, Hitting, RoomInv, CallRooms, Values
      <4>2. Posts(call[s].room, "broadcast", call[s].user)
        BY <3>2, <4>1, PostFacts DEF Lose
      <4>. QED
        BY <3>2, <4>1, <4>2 DEF Posts
    <3>. QED
      BY <1>3, <2>2, <3>1, <3>2, OnlyLose DEF At
  <2>. QED
    BY <1>2, <1>3, <2>1, <2>2
<1>4. ASSUME NEW s \in Sessions, End(s), UNCHANGED history
      PROVE  HeardInv'
  <2>1. Hands(Close(s)) /\ Close(s) # None
    BY <1>4, EndHands, GameServerAssumption DEF Close
  <2>2. UNCHANGED <<call, users, told, astray>>
    BY <1>4 DEF End, Disconnected, DisconnectedLeave, DisconnectedReset, Destroy, roomVars, history
  <2>3. \A t \in Sessions : At(t, "loseLeave") => call[t].room \in AllRooms /\ call[t].user \in UserIds
    BY <1>0 DEF At, Typed, CallsTyped, Hitting, Creating, Fighting, RoomInv, CallRooms, Values
  <2>. QED
    BY <1>2, <2>1, <2>2, <2>3 DEF At
<1>5. CASE UNCHANGED vars
  BY <1>5 DEF vars, sessionVars, userVars, roomVars, queueVars, history, HeardInv, Reaching, At
<1>. QED
  BY <1>1, <1>3, <1>4, <1>5 DEF Next

LEMMA InitHeard == Init => HeardInv
<1>. SUFFICES ASSUME Init PROVE HeardInv
  OBVIOUS
<1>1. /\ \A t \in Sessions : call[t].at = "idle"
      /\ \A r \in AllRooms : queue[r] = <<>> /\ running[r] = NoJob
  BY DEF Init, NoCall
<1>. QED
  BY <1>1 DEF HeardInv, At

\* For any number of sessions and rooms: when the loser is about to be taken out
\* of the room that nothing is posted to any more, the S_LOSE has been sent to it.
THEOREM TheLoserHears == Spec => []LoserHears
<1>1. OrderInv /\ RoomInv /\ HeardInv => LoserHears
  <2>. SUFFICES ASSUME OrderInv, RoomInv, HeardInv, NEW s \in Sessions, At(s, "loseLeave"),
                       executor[call[s].room] = None, call[s].user \in users[call[s].room] \ astray
                PROVE  call[s].user \in told
    BY DEF LoserHears
  <2>1. call[s].room \in AllRooms
    BY ValuesFact DEF OrderInv, RoomInv, CallRooms, At, Hitting, Fighting, Values
  <2>2. queue[call[s].room] = <<>> /\ running[call[s].room] = NoJob /\ Reaching(call[s].room, call[s].user)
    BY <2>1 DEF HeardInv
  <2>. QED
    BY <2>2 DEF Reaching, Has, NoJob
<1>2. Spec => []HeardInv
  <2>1. RoomsInv /\ HeardInv /\ [Next]_vars => HeardInv'
    BY NextHeard DEF RoomsInv
  <2>. QED
    BY <2>1, InitHeard, RoomsInvariant, PTL DEF Spec
<1>3. RoomsInv /\ HeardInv => LoserHears
  BY <1>1 DEF RoomsInv
<1>. QED
  BY <1>2, <1>3, RoomsInvariant, PTL

-----------------------------------------------------------------------------
(* Null. *)

AllOpen == \A s \in Sessions : phase[s] = "open"

NoNullJob ==
  \A r \in AllRooms : ~Has(queue[r], "enter", None) /\ ~Has(queue[r], "leave", None)

NullInv == AllOpen => crash # "null" /\ NoNullJob

\* As long as no session ends, nothing that is dereferenced is null.
LEMMA NothingNull ==
  ASSUME Typed, Values, RoomInv, AllOpen, NoNullJob
  PROVE  /\ \A s \in Sessions : user[s] = None <=> room[s] = None
         /\ \A s \in Sessions : call[s].at # "idle" => user[s] # None
         /\ \A u \in Made : phase[owner[u]] # "gone"
         /\ \A s \in Sessions : call[s].at \in Hitting => call[s].user \in Made
         /\ \A r \in AllRooms : users[r] \subseteq Made
  BY DEF RoomInv, Acquainted, AllOpen, Over

LEMMA ExecuteNull ==
  ASSUME Typed, Values, RoomInv, AllOpen, NoNullJob, NEW r \in AllRooms, Execute(r), crash = ""
  PROVE  crash' # "null" /\ NoNullJob'
<1>1. CASE JobEnterOrLeave(r)
  <2>1. /\ queue[r] \in Seq(Jobs) /\ queue[r] # <<>> /\ Head(queue[r]) \in Jobs
        /\ Head(queue[r]).op \in {"enter", "leave"}
    <3>1. queue[r] \in Seq(Jobs) /\ queue[r] # <<>> /\ Head(queue[r]).op # "broadcast"
      BY <1>1 DEF JobEnterOrLeave, Due, Typed, QueuesTyped
    <3>. QED
      BY <3>1, HeadAndTail DEF Jobs
  <2>2. \A op : Has(queue[r], op, None) <=> Has(Tail(queue[r]), op, None)
                                            \/ (Head(queue[r]).op = op /\ Head(queue[r]).user = None)
    BY <2>1, TailFacts
  <2>3. Head(queue[r]).user # None
    BY <2>1, <2>2 DEF NoNullJob
  <2>4. crash' = crash /\ queue'[r] = Tail(queue[r]) /\ \A q \in AllRooms \ {r} : queue'[q] = queue[q]
    BY <1>1, <2>3 DEF JobEnterOrLeave, Typed, QueuesTyped
  <2>. QED
    BY <2>2, <2>4 DEF NoNullJob
<1>2. CASE JobBroadcast(r)
  <2>1. /\ queue[r] \in Seq(Jobs) /\ queue[r] # <<>> /\ crash' = crash
        /\ queue'[r] = Tail(queue[r]) /\ \A q \in AllRooms \ {r} : queue'[q] = queue[q]
    BY <1>2 DEF JobBroadcast, Due, Typed, QueuesTyped
  <2>2. \A op : Has(queue[r], op, None) <=> Has(Tail(queue[r]), op, None)
                                            \/ (Head(queue[r]).op = op /\ Head(queue[r]).user = None)
    BY <2>1, TailFacts
  <2>. QED
    BY <2>1, <2>2 DEF NoNullJob
<1>3. CASE BroadcastNext(r)
  <2>. DEFINE rest == {u \in users[r] : u > running[r].at}
              m    == Min(rest)
  <2>1. rest # {} => m \in users[r]
    <3>1. rest \in SUBSET UserIds /\ rest \subseteq users[r]
      BY DEF Typed, RoomsTyped
    <3>. HIDE DEF rest
    <3>. QED
      BY <3>1, MinFact
  <2>2. rest # {} => phase[owner[m]] # "gone"
    BY <2>1, NothingNull
  <2>3. crash' = crash /\ queue' = queue
    BY <1>3, <2>2 DEF BroadcastNext
  <2>. QED
    BY <2>3 DEF NoNullJob
<1>4. CASE BroadcastWild(r) \/ ExecuteEnd(r) \/ ExecuteTimeout(r)
  BY <1>4 DEF BroadcastWild, ExecuteEnd, ExecuteTimeout, Crash, queueVars, NoNullJob
<1>. QED
  BY <1>1, <1>2, <1>3, <1>4 DEF Execute

LEMMA HandlerNull ==
  ASSUME Typed, Values, RoomInv, AllOpen, NoNullJob, NEW s \in Sessions, Handler(s), crash = ""
  PROVE  crash' # "null" /\ NoNullJob'
<1>1. /\ user[s] = None <=> room[s] = None
      /\ call[s].at # "idle" => user[s] # None
      /\ user[s] \in UserIds \cup {None} /\ None \notin UserIds
  BY NothingNull DEF Values
<1>2. call[s].at \in Hitting => /\ call[s].user \in UserIds /\ call[s].user # None
                                /\ phase[owner[call[s].user]] # "gone"
  BY NothingNull DEF Values
<1>3. ASSUME NEW r, NEW op \in {"enter", "leave", "broadcast"}, NEW u \in UserIds \cup {None},
             op = "broadcast" \/ u # None, Post(Recv(s), r, op, u)
      PROVE  NoNullJob'
  <2>1. Posts(r, op, u)
    BY <1>3, PostFacts
  <2>. QED
    BY <1>3, <2>1 DEF Posts, NoNullJob
<1>4. CASE CreateLeave(s) \/ CreateEnter(s) \/ EnterLeave(s) \/ Broadcast(s) \/ Lose(s)
             \/ LoseEnter(s) \/ WinEnter(s) \/ Report(s)
  BY <1>1, <1>2, <1>3, <1>4
  DEF CreateLeave, CreateEnter, EnterLeave, Broadcast, Lose, LoseEnter, WinEnter, Report, At, Hitting
<1>5. CASE Login(s) \/ LoginAdd(s) \/ CreateRoom(s) \/ CreateMake(s)
             \/ (\E r \in Rooms : EnterRoom(s, r)) \/ EnterJoin(s) \/ EnterMove(s)
  BY <1>1, <1>5
  DEF Login, LoginAdd, CreateRoom, CreateMake, EnterRoom, EnterJoin, EnterMove, queueVars, NoNullJob, At
<1>6. CASE Ready(s) \/ ReadyToggle(s) \/ Move(s) \/ Attack(s) \/ ActRead(s)
             \/ Start(s) \/ StartPlaces(s) \/ StartWild(s)
  BY <1>1, <1>6
  DEF Ready, ReadyToggle, Move, Attack, ActRead, Start, StartPlaces, StartWild, Crash, InRoom, queueVars,
      NoNullJob, At
<1>7. CASE StartEach(s)
  <2>. DEFINE rest == {u \in users[call[s].room] : u > call[s].user}
              m    == Min(rest)
  <2>1. call[s].room \in AllRooms /\ users[call[s].room] \subseteq UserIds
    BY <1>7 DEF StartEach, Typed, CallsTyped, RoomsTyped, At, Starting
  <2>2. rest # {} => m \in users[call[s].room]
    <3>1. rest \in SUBSET UserIds /\ rest \subseteq users[call[s].room]
      BY <2>1
    <3>. HIDE DEF rest
    <3>. QED
      BY <3>1, MinFact
  <2>3. rest # {} => phase[owner[m]] # "gone"
    BY <2>1, <2>2, NothingNull
  <2>4. queue' = queue /\ (crash' = crash \/ crash' = "noPlace")
    BY <1>7, <2>3 DEF StartEach, Crash, queueVars
  <2>. QED
    BY <2>4 DEF NoNullJob
<1>8. CASE (\E t \in UserIds : Attacked(s, t)) \/ HitLoad(s) \/ HitStore(s) \/ LoseLeave(s)
             \/ LoseMove(s) \/ Count(s)
  BY <1>1, <1>2, <1>8
  DEF Attacked, HitLoad, HitStore, LoseLeave, LoseMove, Count, queueVars, NoNullJob, At, Hitting
<1>. QED
  BY <1>4, <1>5, <1>6, <1>7, <1>8 DEF Handler, Receive, Proceed, Hit

LEMMA NextNull == OrderInv /\ RoomInv /\ NullInv /\ [Next]_vars => NullInv'
<1>. SUFFICES ASSUME OrderInv, RoomInv, NullInv, [Next]_vars, AllOpen' PROVE crash' # "null" /\ NoNullJob'
  BY DEF NullInv
<1>0. Typed /\ Values
  BY ValuesFact DEF OrderInv
<1>1. CASE UNCHANGED vars
  BY <1>1 DEF vars, sessionVars, queueVars, NullInv, NoNullJob, AllOpen
<1>2. ASSUME NEW r \in AllRooms, Execute(r), crash = "" PROVE crash' # "null" /\ NoNullJob'
  <2>1. phase' = phase
    BY <1>2
    DEF Execute, JobEnterOrLeave, JobBroadcast, BroadcastNext, BroadcastWild, ExecuteEnd,
        ExecuteTimeout,
                Crash, sessionVars
  <2>. QED
    BY <1>0, <1>2, <2>1, ExecuteNull DEF NullInv, AllOpen
<1>3. ASSUME NEW s \in Sessions, Handler(s), crash = "" PROVE crash' # "null" /\ NoNullJob'
  <2>1. phase' = phase
    <3>1. CASE Receive(s)
      BY <3>1
      DEF Receive, Login, CreateRoom, EnterRoom, Ready, Move, Attack, Start, Attacked, Crash,
          sessionVars
    <3>2. CASE Proceed(s)
      BY <3>2
      DEF Proceed, LoginAdd, CreateMake, CreateLeave, CreateEnter, EnterJoin, EnterMove, EnterLeave,
                  ReadyToggle, Broadcast, ActRead, StartPlaces, StartEach, StartWild, Crash, sessionVars
    <3>3. CASE Hit(s)
      BY <3>3
      DEF Hit, HitLoad, HitStore, Lose, LoseLeave, LoseMove, LoseEnter, Count, WinEnter, Report,
                  Crash, sessionVars
    <3>. QED
      BY <1>3, <3>1, <3>2, <3>3 DEF Handler
  <2>. QED
    BY <1>0, <1>3, <2>1, HandlerNull DEF NullInv, AllOpen
<1>4. ASSUME NEW s \in Sessions, End(s) PROVE FALSE
  <2>1. phase'[s] # "open"
    BY <1>0, <1>4
    DEF End, Disconnected, DisconnectedLeave, DisconnectedReset, Destroy, Typed, SessionsTyped
  <2>. QED
    BY <2>1 DEF AllOpen
<1>. QED
  BY <1>1, <1>2, <1>3, <1>4 DEF Next

LEMMA InitNull == Init => NullInv
<1>. SUFFICES ASSUME Init PROVE NullInv
  OBVIOUS
<1>1. crash = "" /\ \A r \in AllRooms : queue[r] = <<>>
  BY DEF Init
<1>2. \A op, u : ~Has(<<>>, op, u)
  BY DEF Has
<1>. QED
  BY <1>1, <1>2, Zenon DEF NullInv, NoNullJob

\* A session that has logged in has a room ever after.
HasRoom == \A u \in UserIds : owner[u] # None => room[owner[u]] # None

RoomlessAttack ==
  crash = "noRoom" => \E s \in Sessions : room[s] = None /\ \A u \in UserIds : owner[u] # s

LEMMA HandlerRoom ==
  ASSUME Typed, Values, RoomInv, HasRoom, NEW s \in Sessions, Handler(s), crash = ""
  PROVE  HasRoom' /\ RoomlessAttack'
<1>. USE DEF sessionVars, userVars
<1>1. /\ room \in [Sessions -> AllRooms \cup {None}] /\ owner \in [UserIds -> Sessions \cup {None}]
      /\ Lobby # None /\ None \notin Rooms /\ None \notin Sessions /\ roomMap \subseteq Rooms
  BY GameServerAssumption DEF Typed, SessionsTyped, UsersTyped, RoomsTyped, GameServerAssumption
<1>2. CASE /\ owner' = owner /\ \A t \in Sessions : room[t] # None => room'[t] # None
           /\ crash' # "noRoom"
  <2>1. \A u \in UserIds : owner[u] # None => owner[u] \in Sessions
    BY <1>1
  <2>. QED
    BY <1>2, <2>1 DEF HasRoom, RoomlessAttack
<1>3. CASE Login(s)
  <2>1. /\ owner' = [owner EXCEPT ![logins + 1] = s] /\ room' = [room EXCEPT ![s] = Lobby]
        /\ crash' # "noRoom"
    BY <1>3 DEF Login
  <2>2. \A t \in Sessions : room[t] # None \/ t = s => room'[t] # None
    BY <1>1, <2>1
  <2>3. \A u \in UserIds : owner'[u] = s \/ owner'[u] = owner[u]
    BY <1>1, <2>1
  <2>. QED
    BY <1>1, <2>1, <2>2, <2>3 DEF HasRoom, RoomlessAttack
<1>4. CASE Attack(s) \/ Ready(s) \/ Start(s)
  <2>1. CASE room[s] # None
    BY <1>2, <1>4, <2>1 DEF Attack, Ready, Start
  <2>2. CASE room[s] = None
    <3>1. owner' = owner /\ room' = room
      BY <1>4, <2>2 DEF Attack, Ready, Start, Crash
    <3>2. \A u \in UserIds : owner[u] # s
      BY <1>1, <2>2 DEF HasRoom
    <3>. QED
      BY <2>2, <3>1, <3>2 DEF HasRoom, RoomlessAttack
  <2>. QED
    BY <2>1, <2>2
<1>5. CASE CreateMake(s) \/ EnterMove(s) \/ LoseMove(s)
  <2>1. At(s, "enterMove") => call[s].room \in roomMap
    BY DEF RoomInv, CallRooms, At, Entering
  <2>2. owner' = owner /\ crash' # "noRoom"
    BY <1>5 DEF CreateMake, EnterMove, LoseMove, Crash
  <2>3. \/ room' = room
        \/ \E r \in Rooms : room' = [room EXCEPT ![s] = r]
        \/ \E t : room' = [room EXCEPT ![t] = Lobby]
    BY <1>1, <1>5, <2>1 DEF CreateMake, EnterMove, LoseMove, Crash
  <2>. QED
    BY <1>1, <1>2, <2>2, <2>3
<1>6. CASE \/ LoginAdd(s) \/ CreateRoom(s) \/ CreateLeave(s) \/ CreateEnter(s)
           \/ (\E r \in Rooms : EnterRoom(s, r)) \/ EnterJoin(s) \/ EnterLeave(s)
  BY <1>2, <1>6
  DEF LoginAdd, CreateRoom, CreateLeave, CreateEnter, EnterRoom, EnterJoin, EnterLeave, Crash
<1>7. CASE ReadyToggle(s) \/ Broadcast(s) \/ Move(s) \/ ActRead(s) \/ StartPlaces(s)
           \/ StartEach(s) \/ StartWild(s)
  BY <1>2, <1>7 DEF ReadyToggle, Broadcast, Move, ActRead, StartPlaces, StartEach, StartWild, Crash
<1>8. CASE \/ (\E t \in UserIds : Attacked(s, t)) \/ HitLoad(s) \/ HitStore(s) \/ Lose(s)
           \/ LoseLeave(s) \/ LoseEnter(s) \/ Count(s) \/ WinEnter(s) \/ Report(s)
  BY <1>2, <1>8
  DEF Attacked, HitLoad, HitStore, Lose, LoseLeave, LoseEnter, Count, WinEnter, Report, Crash
<1>. QED
  BY <1>3, <1>4, <1>5, <1>6, <1>7, <1>8 DEF Handler, Receive, Proceed, Hit

RoomlessInv == HasRoom /\ RoomlessAttack

LEMMA NextRoomless == OrderInv /\ RoomInv /\ RoomlessInv /\ [Next]_vars => RoomlessInv'
<1>. SUFFICES ASSUME OrderInv, RoomInv, RoomlessInv, [Next]_vars PROVE RoomlessInv'
  OBVIOUS
<1>0. Typed /\ Values
  BY ValuesFact DEF OrderInv
<1>1. CASE UNCHANGED <<room, owner>> /\ (crash' = crash \/ crash' # "noRoom")
  BY <1>1 DEF RoomlessInv, HasRoom, RoomlessAttack
<1>2. ASSUME NEW r \in AllRooms, Execute(r), crash = "" PROVE RoomlessInv'
  BY <1>1, <1>2
  DEF Execute, JobEnterOrLeave, JobBroadcast, BroadcastNext, BroadcastWild, ExecuteEnd,
      ExecuteTimeout, Crash, sessionVars, userVars
<1>3. ASSUME NEW s \in Sessions, Handler(s), crash = "" PROVE RoomlessInv'
  BY <1>0, <1>3, HandlerRoom DEF RoomlessInv
<1>4. ASSUME NEW s \in Sessions, End(s) PROVE RoomlessInv'
  BY <1>1, <1>4
  DEF End, Disconnected, DisconnectedLeave, DisconnectedReset, Destroy, userVars
<1>5. CASE UNCHANGED vars
  BY <1>1, <1>5 DEF vars, sessionVars, userVars
<1>. QED
  BY <1>2, <1>3, <1>4, <1>5 DEF Next

\* For any number of sessions and rooms: as long as no connection ends, no
\* handler and no job dereferences a null session or user; and whatever ends, the
\* only null room is that of a C_ATTACK from a session that has never logged in.
THEOREM NoNullBefore == Spec => []NullNeedsAnEnd
<1>1. NullInv /\ RoomlessInv => NullNeedsAnEnd
  BY DEF NullInv, AllOpen, NullNeedsAnEnd, RoomlessInv, RoomlessAttack
<1>2. RoomsInv /\ NullInv /\ [Next]_vars => NullInv'
  BY NextNull DEF RoomsInv
<1>3. RoomsInv /\ RoomlessInv /\ [Next]_vars => RoomlessInv'
  BY NextRoomless DEF RoomsInv
<1>4. Init => RoomlessInv
  <2>1. Init => \A u \in UserIds : owner[u] = None
    BY DEF Init
  <2>. QED
    BY <2>1 DEF Init, RoomlessInv, HasRoom, RoomlessAttack
<1>. QED
  BY <1>1, <1>2, <1>3, <1>4, InitNull, RoomsInvariant, PTL DEF Spec
=============================================================================
