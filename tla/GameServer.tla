----------------------------- MODULE GameServer -----------------------------
(***************************************************************************)
(* The game server's packet handlers, the rooms they share, and            *)
(* GameSession's OnDisconnected.                                           *)
(*                                                                         *)
(* The packets of one session are handled one after the other, those of    *)
(* different sessions and OnDisconnected on different threads.  A room is  *)
(* a JobQueue (module JobQueue has it in detail): what DoAsync posts runs  *)
(* one job at a time, in order; the thread whose post finds the queue idle *)
(* executes it there and then, and hands it to a worker when its time is   *)
(* up.  But handlers also call Enter and Leave directly and read _users    *)
(* without the lock.  One step lies between two accesses to shared state.  *)
(*                                                                         *)
(* A refused packet changes nothing and is no step.                        *)
(***************************************************************************)
EXTENDS Integers, Sequences, FiniteSetsExt

CONSTANTS Sessions,
          Rooms,        \* bound: the rooms that can be created
          Lobby,        \* GRoom
          MaxUser,      \* Room::maxUser, 8
          FullHp,       \* the hp of a new user, 1000000
          StartHp,      \* the hp a start gives, 100
          MaxLogins,    \* bound: the users that are made
          MaxJobs,      \* bound: the jobs that come to a room
          Packets,      \* bound: Packets[s][i], what else the i-th packet s sends may be
          MayDrop,      \* the sessions whose connection may end
          None

ASSUME GameServerAssumption ==
  /\ Lobby \notin Rooms
  /\ None \notin Sessions \cup Rooms \cup {Lobby} \cup 1..MaxLogins
  /\ None \notin {"recv", "end", "worker"} \X (Sessions \cup {None})
  /\ MaxUser \in Nat \ {0} /\ FullHp \in Int /\ StartHp \in Int
  /\ MaxLogins \in Nat
  /\ MayDrop \subseteq Sessions
  /\ Packets \in [Sessions -> Seq(SUBSET {"CREATE_ROOM", "ENTER_ROOM", "READY", "START", "MOVE",
                                         "ATTACK", "ATTACKED"})]

AllRooms == Rooms \cup {Lobby}
UserIds  == 1..MaxLogins

VARIABLES
  user, room,   \* of a session: user (None is nullptr) and _room
  registered,   \* GSessionManager._sessions
  phase,        \* how far OnDisconnected is, up to the destruction
  owner, ready, hp,             \* of a user: ownerSession, isReady, hp
  users, master, started,       \* of a room: the keys of _users, masterUserId, isStarted
  roomMap,      \* the rooms of GRoomMap
  queue, running, posted,       \* of a room: its jobs, the one that runs, how many came
  executor,                     \* of a room: the thread that executes its jobs
  call,         \* call[s]: the packet handler of s
  logins, requests,
  crash,        \* "", or the undefined behaviour that ended the process
  last,         \* last[u][r]: the last broadcast of r sent to user u
  told,         \* the users who were sent the S_LOSE that names them
  astray        \* the users who may be in other rooms than the one of their session

sessionVars == <<user, room, registered, phase>>
userVars    == <<owner, ready, hp, logins>>
roomVars    == <<users, master, started, roomMap>>
queueVars   == <<queue, running, posted, executor>>
history     == <<last, told, astray>>
vars == <<sessionVars, userVars, roomVars, queueVars, call, requests, crash, history>>

NoCall == [at |-> "idle", room |-> None, user |-> None, hp |-> 0, seen |-> {}]
NoJob  == [op |-> "none", user |-> None, id |-> 0, first |-> FALSE, at |-> 0]

\* The threads: that of s's packets, that of its end, and a worker's.
Recv(s) == <<"recv", s>>
Close(s) == <<"end", s>>
Worker  == <<"worker", None>>

Init ==
  /\ user = [s \in Sessions |-> None] /\ room = [s \in Sessions |-> None]
  /\ registered = Sessions            \* OnConnected has added them
  /\ phase = [s \in Sessions |-> "open"]
  /\ owner = [u \in UserIds |-> None] /\ ready = [u \in UserIds |-> FALSE]
  /\ hp = [u \in UserIds |-> FullHp]
  /\ users = [r \in AllRooms |-> {}] /\ master = [r \in AllRooms |-> None]
  /\ started = [r \in AllRooms |-> FALSE] /\ roomMap = {}
  /\ queue = [r \in AllRooms |-> <<>>] /\ running = [r \in AllRooms |-> NoJob]
  /\ posted = [r \in AllRooms |-> 0] /\ executor = [r \in AllRooms |-> None]
  /\ call = [s \in Sessions |-> NoCall]
  /\ logins = 0 /\ requests = [s \in Sessions |-> 0] /\ crash = ""
  /\ last = [u \in UserIds |-> [r \in AllRooms |-> 0]] /\ told = {} /\ astray = {}

-----------------------------------------------------------------------------
At(s, label) == call[s].at = label
Go(s, label) == call' = [call EXCEPT ![s].at = label]
Return(s)    == call' = [call EXCEPT ![s] = NoCall]

\* s goes on to `label', with what it has read: a user, its hp, the members.
Hold(s, label, u, h, seen) ==
  call' = [call EXCEPT ![s] =
            [at |-> label, room |-> call[s].room, user |-> u, hp |-> h, seen |-> seen]]

\* A thread that executes a queue does nothing else until it is through.
Free(thread) == \A r \in AllRooms : executor[r] # thread

Crash(why) ==
  crash' = why /\ UNCHANGED <<sessionVars, userVars, roomVars, queueVars, call, requests>>

Job(r, op, u) ==
  [op |-> op, user |-> u, id |-> posted[r] + 1, first |-> executor[r] = None, at |-> 0]

\* A seeded bug: DoAsync puts the job in front of those that wait.
PostMutantFront(thread, r, op, u) ==
  /\ posted[r] < MaxJobs
  /\ queue' = [queue EXCEPT ![r] = <<Job(r, op, u)>> \o @]
  /\ posted' = [posted EXCEPT ![r] = @ + 1]
  /\ executor' = [executor EXCEPT ![r] = IF @ = None THEN thread ELSE @]
  /\ UNCHANGED running

\* r->DoAsync on a thread that runs no job: the job waits behind those posted
\* before it, and the first one makes its thread the executor.
Post(thread, r, op, u) ==
  /\ posted[r] < MaxJobs
  /\ queue' = [queue EXCEPT ![r] = Append(@, Job(r, op, u))]
  /\ posted' = [posted EXCEPT ![r] = @ + 1]
  /\ executor' = [executor EXCEPT ![r] = IF @ = None THEN thread ELSE @]
  /\ UNCHANGED running

\* _users of r becomes `new', under the room's lock, which iterations do not take.
SetUsers(r, new) ==
  /\ users' = [users EXCEPT ![r] = new]
  /\ UNCHANGED <<master, started, roomMap>>

Full(r) == Cardinality(users[r]) >= MaxUser

\* A seeded bug: Enter relies on the test its caller made.
EnterMutantTrusting(r, u) == SetUsers(r, users[r] \cup {u})

\* Room::Enter and Room::Leave.
Enter(r, u) == SetUsers(r, IF Full(r) THEN users[r] ELSE users[r] \cup {u})

Leave(r, u) == SetUsers(r, users[r] \ {u})

-----------------------------------------------------------------------------
(* The jobs of a room. *)

Due(r) == executor[r] # None /\ running[r] = NoJob /\ queue[r] # <<>>

\* A room's queue takes its next job; Enter and Leave of no user dereference null.
JobEnterOrLeave(r) ==
  /\ Due(r) /\ Head(queue[r]).op # "broadcast"
  /\ LET j == Head(queue[r]) IN
       IF j.user = None THEN Crash("null")
       ELSE /\ IF j.op = "enter" THEN Enter(r, j.user) ELSE Leave(r, j.user)
            /\ queue' = [queue EXCEPT ![r] = Tail(@)]
            /\ UNCHANGED <<sessionVars, userVars, running, posted, executor, call, requests, crash>>

JobBroadcast(r) ==
  /\ Due(r) /\ Head(queue[r]).op = "broadcast"
  /\ running' = [running EXCEPT ![r] = Head(queue[r])]
  /\ queue' = [queue EXCEPT ![r] = Tail(@)]
  /\ UNCHANGED <<sessionVars, userVars, roomVars, posted, executor, call, requests, crash>>

\* Broadcast goes on to the next key and sends to the user's session, or ends.
BroadcastNext(r) ==
  LET j    == running[r]
      rest == {u \in users[r] : u > j.at}
      u    == Min(rest)
  IN /\ j.op = "broadcast"
     /\ IF rest = {}
          THEN /\ running' = [running EXCEPT ![r] = NoJob]
               /\ UNCHANGED <<sessionVars, userVars, roomVars, queue, posted, executor, call, requests, crash>>
        ELSE IF phase[owner[u]] = "gone" THEN Crash("null")
        ELSE /\ running' = [running EXCEPT ![r].at = u]
             /\ UNCHANGED <<sessionVars, userVars, roomVars, queue, posted, executor, call, requests, crash>>

\* The element the iterator stands on was erased: the loop above may go on
\* as if it were there, or the process reads freed memory.
BroadcastWild(r) ==
  /\ running[r].op = "broadcast" /\ running[r].at # 0 /\ running[r].at \notin users[r]
  /\ Crash("iterator")

\* Execute ends when nothing is left, or hands the rest to the global queue.
ExecuteEnd(r) ==
  /\ running[r] = NoJob /\ queue[r] = <<>>
  /\ executor' = [executor EXCEPT ![r] = None]
  /\ UNCHANGED <<sessionVars, userVars, roomVars, queue, running, posted, call, requests, crash>>

ExecuteTimeout(r) ==
  /\ Due(r) /\ executor[r] # Worker /\ ~Head(queue[r]).first
  /\ executor' = [executor EXCEPT ![r] = Worker]
  /\ UNCHANGED <<sessionVars, userVars, roomVars, queue, running, posted, call, requests, crash>>

-----------------------------------------------------------------------------
(* The packet handlers: `Packet' opens one that is not refused. *)

Comes(s, kind) ==
  /\ At(s, "idle") /\ phase[s] # "gone"
  /\ requests[s] < Len(Packets[s]) /\ kind \in Packets[s][requests[s] + 1]

Packet(s, kind, label, r, u) ==
  /\ Comes(s, kind)
  /\ requests' = [requests EXCEPT ![s] = @ + 1]
  /\ call' = [call EXCEPT ![s] = [at |-> label, room |-> r, user |-> u, hp |-> 0, seen |-> {}]]

\* A seeded bug: the new user has no room.
LoginMutantNoRoom(s) ==
  /\ At(s, "idle") /\ phase[s] # "gone"
  /\ user[s] = None /\ logins < MaxLogins
  /\ logins' = logins + 1
  /\ owner' = [owner EXCEPT ![logins + 1] = s]
  /\ user' = [user EXCEPT ![s] = logins + 1]
  /\ Go(s, "loginAdd")
  /\ UNCHANGED <<room, registered, phase, ready, hp, roomVars, queueVars, requests, crash>>

Login(s) ==
  /\ At(s, "idle") /\ phase[s] # "gone"
  /\ user[s] = None /\ logins < MaxLogins
  /\ logins' = logins + 1
  /\ owner' = [owner EXCEPT ![logins + 1] = s]
  /\ user' = [user EXCEPT ![s] = logins + 1]
  /\ room' = [room EXCEPT ![s] = Lobby]
  /\ Go(s, "loginAdd")
  /\ UNCHANGED <<registered, phase, ready, hp, roomVars, queueVars, requests, crash>>

LoginAdd(s) ==
  /\ At(s, "loginAdd")
  /\ registered' = registered \cup {s}
  /\ Return(s)
  /\ UNCHANGED <<user, room, phase, userVars, roomVars, queueVars, requests, crash>>

CreateRoom(s) ==
  /\ user[s] # None /\ room[s] = Lobby
  /\ Packet(s, "CREATE_ROOM", "createMake", None, None)
  /\ UNCHANGED <<sessionVars, userVars, roomVars, queueVars, crash>>

CreateMake(s) ==
  /\ At(s, "createMake")
  /\ IF user[s] = None THEN Crash("null")
     ELSE \E r \in Rooms \ roomMap :
       /\ master' = [master EXCEPT ![r] = user[s]]
       /\ roomMap' = roomMap \cup {r}
       /\ room' = [room EXCEPT ![s] = r]
       /\ call' = [call EXCEPT ![s].at = "createLeave", ![s].room = r]
       /\ UNCHANGED <<user, registered, phase, userVars, users, started, queueVars, requests, crash>>

CreateLeave(s) ==
  /\ At(s, "createLeave")
  /\ Post(Recv(s), Lobby, "leave", user[s])
  /\ Go(s, "createEnter")
  /\ UNCHANGED <<sessionVars, userVars, roomVars, requests, crash>>

CreateEnter(s) ==
  /\ At(s, "createEnter")
  /\ Post(Recv(s), call[s].room, "enter", user[s])
  /\ Return(s)
  /\ UNCHANGED <<sessionVars, userVars, roomVars, requests, crash>>

\* C_ENTER_ROOM with the password right: three tests without the lock.
EnterRoom(s, r) ==
  /\ user[s] # None /\ r \in roomMap /\ ~started[r] /\ ~Full(r)
  /\ Packet(s, "ENTER_ROOM", "enterJoin", r, None)
  /\ UNCHANGED <<sessionVars, userVars, roomVars, queueVars, crash>>

EnterJoin(s) ==
  /\ At(s, "enterJoin")
  /\ IF user[s] = None THEN Crash("null")
     ELSE /\ Enter(call[s].room, user[s])
          /\ IF Full(call[s].room) THEN Return(s) ELSE Go(s, "enterMove")
          /\ UNCHANGED <<sessionVars, userVars, queueVars, requests, crash>>

EnterMove(s) ==
  /\ At(s, "enterMove")
  /\ IF user[s] = None THEN Crash("null")
     ELSE /\ room' = [room EXCEPT ![s] = call[s].room]
          /\ Go(s, "enterLeave")
          /\ UNCHANGED <<user, registered, phase, userVars, roomVars, queueVars, requests, crash>>

EnterLeave(s) ==
  /\ At(s, "enterLeave")
  /\ Post(Recv(s), Lobby, "leave", user[s])
  /\ Return(s)
  /\ UNCHANGED <<sessionVars, userVars, roomVars, requests, crash>>

\* In a room that is not the lobby; IsMaster and isGameStarted dereference _room.
InRoom(s) == user[s] # None /\ room[s] # Lobby

Ready(s) ==
  /\ InRoom(s)
  /\ IF room[s] = None THEN At(s, "idle") /\ Crash("noRoom")
     ELSE /\ user[s] # master[room[s]]
          /\ Packet(s, "READY", "readyToggle", None, None)
          /\ UNCHANGED <<sessionVars, userVars, roomVars, queueVars, crash>>

ReadyToggle(s) ==
  /\ At(s, "readyToggle")
  /\ IF user[s] = None THEN Crash("null")
     ELSE /\ ready' = [ready EXCEPT ![user[s]] = ~@]
          /\ Go(s, "broadcast")
          /\ UNCHANGED <<sessionVars, owner, hp, logins, roomVars, queueVars, requests, crash>>

\* The handler's last call: Broadcast, posted to the room the session is in now.
Broadcast(s) ==
  /\ At(s, "broadcast")
  /\ Post(Recv(s), room[s], "broadcast", None)
  /\ Return(s)
  /\ UNCHANGED <<sessionVars, userVars, roomVars, requests, crash>>

\* C_MOVE; the position is left out.
Move(s) ==
  /\ InRoom(s) /\ room[s] # None /\ started[room[s]]
  /\ Packet(s, "MOVE", "actRead", None, None)
  /\ UNCHANGED <<sessionVars, userVars, roomVars, queueVars, crash>>

\* C_ATTACK is broadcast to the session's room, the lobby too, even when it is
\* refused: also when it is refused because nobody has logged in, and there is no
\* room.
Attack(s) ==
  /\ Comes(s, "ATTACK")
  /\ IF room[s] = None THEN Crash("noRoom")
     ELSE /\ Packet(s, "ATTACK", IF InRoom(s) /\ started[room[s]] THEN "actRead" ELSE "broadcast",
                    None, None)
          /\ UNCHANGED <<sessionVars, userVars, roomVars, queueVars, crash>>

ActRead(s) ==
  /\ At(s, "actRead")
  /\ IF user[s] = None THEN Crash("null")
     ELSE Go(s, "broadcast")
          /\ UNCHANGED <<sessionVars, userVars, roomVars, queueVars, requests, crash>>

-----------------------------------------------------------------------------
(* C_START. *)

Start(s) ==
  /\ InRoom(s)
  /\ IF room[s] = None THEN At(s, "idle") /\ Crash("noRoom")
     ELSE /\ user[s] = master[room[s]]
          /\ started' = [started EXCEPT ![room[s]] = TRUE]
          /\ Packet(s, "START", "startPlaces", room[s], None)
          /\ UNCHANGED <<sessionVars, userVars, users, master, roomMap, queueVars, crash>>

\* The first loop draws a place for every member; call[s].user is the outer
\* loop's key, 0 before the first.
StartPlaces(s) ==
  /\ At(s, "startPlaces")
  /\ Hold(s, "startEach", 0, 0, users[call[s].room])
  /\ UNCHANGED <<sessionVars, userVars, roomVars, queueVars, requests, crash>>

Unready(r) == {u \in users[r] : u # master[r] /\ ~ready[u]}

\* The members the inner loop reaches before it returns.
Reached(r) == {u \in users[r] : \A v \in Unready(r) : u <= v}

\* One turn of the outer loop, for the next key: the inner loop resets the hp of
\* the members it reaches and stops at one who is not ready, else the player
\* gets S_START.  A member without a place dereferences the end of the map.
StartEach(s) ==
  LET r    == call[s].room
      rest == {u \in users[r] : u > call[s].user}
      u    == Min(rest)
  IN /\ At(s, "startEach")
     /\ IF rest = {}
          THEN /\ Return(s)
               /\ UNCHANGED <<sessionVars, userVars, roomVars, queueVars, requests, crash>>
        ELSE IF ~(Reached(r) \subseteq call[s].seen) THEN Crash("noPlace")
        ELSE IF Unready(r) = {} /\ phase[owner[u]] = "gone" THEN Crash("null")
        ELSE /\ hp' = [v \in UserIds |-> IF v \in Reached(r) THEN StartHp ELSE hp[v]]
             /\ IF Unready(r) # {}
                  THEN Return(s) ELSE call' = [call EXCEPT ![s].user = u]
             /\ UNCHANGED <<sessionVars, owner, ready, logins, roomVars, queueVars, requests, crash>>

StartWild(s) ==
  /\ At(s, "startEach") /\ call[s].user # 0 /\ call[s].user \notin users[call[s].room]
  /\ Crash("iterator")

-----------------------------------------------------------------------------
(* C_ATTACKED: the attacker's client reports the hit. *)

Attacked(s, t) ==
  /\ InRoom(s) /\ room[s] # None /\ started[room[s]] /\ t \in users[room[s]]
  /\ Packet(s, "ATTACKED", "hitLoad", room[s], t)
  /\ UNCHANGED <<sessionVars, userVars, roomVars, queueVars, crash>>

\* hp -= 50 is a load and a store.
HitLoad(s) ==
  /\ At(s, "hitLoad")
  /\ Hold(s, "hitStore", call[s].user, hp[call[s].user], {})
  /\ UNCHANGED <<sessionVars, userVars, roomVars, queueVars, requests, crash>>

HitStore(s) ==
  /\ At(s, "hitStore")
  /\ hp' = [hp EXCEPT ![call[s].user] = call[s].hp - 50]
  /\ Hold(s, IF call[s].hp <= 50 THEN "lose" ELSE "count", call[s].user, 0, {})
  /\ UNCHANGED <<sessionVars, owner, ready, logins, roomVars, queueVars, requests, crash>>

\* A seeded bug: the S_LOSE goes to the room the loser is sent to.
LoseMutantLobby(s) ==
  /\ At(s, "lose")
  /\ Post(Recv(s), Lobby, "broadcast", call[s].user)
  /\ Go(s, "loseLeave")
  /\ UNCHANGED <<sessionVars, userVars, roomVars, requests, crash>>

Lose(s) ==
  /\ At(s, "lose")
  /\ Post(Recv(s), call[s].room, "broadcast", call[s].user)
  /\ Go(s, "loseLeave")
  /\ UNCHANGED <<sessionVars, userVars, roomVars, requests, crash>>

LoseLeave(s) ==
  /\ At(s, "loseLeave")
  /\ Leave(call[s].room, call[s].user)
  /\ Go(s, "loseMove")
  /\ UNCHANGED <<sessionVars, userVars, queueVars, requests, crash>>

\* A seeded bug: the loser, like the winner, keeps its _room.
LoseMoveMutantStay(s) ==
  /\ At(s, "loseMove")
  /\ Go(s, "loseEnter")
  /\ UNCHANGED <<sessionVars, userVars, roomVars, queueVars, requests, crash>>

LoseMove(s) ==
  /\ At(s, "loseMove")
  /\ IF phase[owner[call[s].user]] = "gone" THEN Crash("null")
     ELSE /\ room' = [room EXCEPT ![owner[call[s].user]] = Lobby]
          /\ Go(s, "loseEnter")
          /\ UNCHANGED <<user, registered, phase, userVars, roomVars, queueVars, requests, crash>>

LoseEnter(s) ==
  /\ At(s, "loseEnter")
  /\ Post(Recv(s), Lobby, "enter", call[s].user)
  /\ Go(s, "count")
  /\ UNCHANGED <<sessionVars, userVars, roomVars, requests, crash>>

\* One member left: the attacker has won, whoever that member is.
Count(s) ==
  LET alone == Cardinality(users[call[s].room]) = 1 IN
  /\ At(s, "count")
  /\ IF alone /\ user[s] = None THEN Crash("null")
     ELSE /\ IF alone THEN Leave(call[s].room, user[s]) /\ Go(s, "winEnter")
                     ELSE Go(s, "report") /\ UNCHANGED roomVars
          /\ UNCHANGED <<sessionVars, userVars, queueVars, requests, crash>>

\* The winner's _room stays as it is.
WinEnter(s) ==
  /\ At(s, "winEnter")
  /\ Post(Recv(s), Lobby, "enter", user[s])
  /\ Go(s, "report")
  /\ UNCHANGED <<sessionVars, userVars, roomVars, requests, crash>>

Report(s) ==
  /\ At(s, "report")
  /\ IF user[s] = None THEN Crash("null")
     ELSE /\ Post(Recv(s), call[s].room, "broadcast", None)
          /\ Return(s)
          /\ UNCHANGED <<sessionVars, userVars, roomVars, requests, crash>>

-----------------------------------------------------------------------------
(* The end of a session, on the thread of its last completion. *)

Disconnected(s) ==
  /\ phase[s] = "open"
  /\ registered' = registered \ {s}
  /\ phase' = [phase EXCEPT ![s] = "removed"]
  /\ UNCHANGED <<user, room, userVars, roomVars, queueVars, call, requests, crash>>

\* A seeded bug: the session leaves the lobby, whichever room it is in.
DisconnectedLeaveMutantLobby(s) ==
  /\ phase[s] = "removed"
  /\ phase' = [phase EXCEPT ![s] = "left"]
  /\ IF room[s] = None THEN UNCHANGED queueVars ELSE Post(Close(s), Lobby, "leave", user[s])
  /\ UNCHANGED <<user, room, registered, userVars, roomVars, call, requests, crash>>

DisconnectedLeave(s) ==
  /\ phase[s] = "removed"
  /\ phase' = [phase EXCEPT ![s] = "left"]
  /\ IF room[s] = None THEN UNCHANGED queueVars ELSE Post(Close(s), room[s], "leave", user[s])
  /\ UNCHANGED <<user, room, registered, userVars, roomVars, call, requests, crash>>

DisconnectedReset(s) ==
  /\ phase[s] = "left"
  /\ phase' = [phase EXCEPT ![s] = "closed"]
  /\ user' = [user EXCEPT ![s] = None]
  /\ UNCHANGED <<room, registered, userVars, roomVars, queueVars, call, requests, crash>>

\* The last reference to the GameSession goes; ownerSession expires.
Destroy(s) ==
  /\ phase[s] = "closed" /\ At(s, "idle") /\ Free(Recv(s)) /\ s \notin registered
  /\ phase' = [phase EXCEPT ![s] = "gone"]
  /\ UNCHANGED <<user, room, registered, userVars, roomVars, queueVars, call, requests, crash>>

-----------------------------------------------------------------------------
Execute(r) ==
  /\ executor[r] # None
  /\ \/ JobEnterOrLeave(r) \/ JobBroadcast(r) \/ BroadcastNext(r) \/ BroadcastWild(r)
     \/ ExecuteEnd(r) \/ ExecuteTimeout(r)

\* A packet comes; a handler goes on; C_ATTACKED goes on.
Receive(s) ==
  \/ Login(s) \/ CreateRoom(s) \/ (\E r \in Rooms : EnterRoom(s, r))
  \/ Ready(s) \/ Move(s) \/ Attack(s) \/ Start(s) \/ (\E t \in UserIds : Attacked(s, t))

Proceed(s) ==
  \/ LoginAdd(s) \/ CreateMake(s) \/ CreateLeave(s) \/ CreateEnter(s)
  \/ EnterJoin(s) \/ EnterMove(s) \/ EnterLeave(s) \/ ReadyToggle(s) \/ Broadcast(s) \/ ActRead(s)
  \/ StartPlaces(s) \/ StartEach(s) \/ StartWild(s)

Hit(s) ==
  \/ HitLoad(s) \/ HitStore(s)
  \/ Lose(s) \/ LoseLeave(s) \/ LoseMove(s) \/ LoseEnter(s)
  \/ Count(s) \/ WinEnter(s) \/ Report(s)

InHit == {"hitLoad", "hitStore", "lose", "loseLeave", "loseMove", "loseEnter", "count",
          "winEnter", "report"}

Handler(s) ==
  IF At(s, "idle") THEN Receive(s)
  ELSE IF call[s].at \in InHit THEN Hit(s) ELSE Proceed(s)

End(s) ==
  /\ s \in MayDrop
  /\ Disconnected(s) \/ DisconnectedLeave(s) \/ DisconnectedReset(s) \/ Destroy(s)

(* History: what the step of a room, or of a handler, adds to it. *)

Over(s) == phase[s] \in {"left", "closed", "gone"}

\* Broadcast of r sends to the user it goes on to.
Hear(r) ==
  LET j == running[r]
      u == running'[r].at
      hears == u # j.at /\ u # 0
  IN /\ last' = IF hears THEN [last EXCEPT ![u][r] = j.id] ELSE last
     /\ told' = IF hears /\ j.user = u THEN told \cup {u} ELSE told

\* The room's creator finds it full when its Enter runs at last.
CrowdedOut(r) ==
  IF Due(r) /\ Head(queue[r]).op = "enter" /\ Full(r) THEN {Head(queue[r]).user} ELSE {}

\* s enters a room although its session has ended, or although it is in one
\* already; wins, and keeps its _room; or it sends a loser to the lobby whose own
\* handler moves it too, who has gone elsewhere, or whose session has ended.
LedAstray(s) ==
  LET u == call[s].user
      r == call[s].room
  IN CASE At(s, "createEnter") \/ At(s, "enterMove") -> {v \in {user[s]} : Over(s)}
       [] At(s, "enterJoin") -> {v \in {user[s]} : ~Full(r) /\ (Over(s) \/ room[s] # Lobby)}
       [] At(s, "count") -> {v \in {user[s]} : Cardinality(users[r]) = 1}
       [] At(s, "loseMove") -> {v \in {u} : ~At(owner[u], "idle") \/ room[owner[u]] \notin {Lobby, r}}
       [] At(s, "loseEnter") -> {v \in {u} : Over(owner[u]) \/ room[owner[u]] # Lobby}
       [] OTHER -> {}

Next ==
  /\ crash = ""
  /\ \/ \E r \in AllRooms : Execute(r) /\ Hear(r) /\ astray' = astray \cup CrowdedOut(r)
     \/ \E s \in Sessions : Free(Recv(s)) /\ Handler(s)
                            /\ astray' = astray \cup LedAstray(s) /\ UNCHANGED <<last, told>>
     \/ \E s \in Sessions : Free(Close(s)) /\ End(s) /\ UNCHANGED history

Spec == Init /\ [][Next]_vars

-----------------------------------------------------------------------------
Phases == {"open", "removed", "left", "closed", "gone"}
Jobs == [op : {"enter", "leave", "broadcast"}, user : UserIds \cup {None}, id : Nat \ {0},
         first : BOOLEAN, at : Nat]
Threads == {None, Worker} \cup {Recv(s) : s \in Sessions} \cup {Close(s) : s \in Sessions}
Labels == {"idle", "loginAdd", "createMake", "createLeave", "createEnter", "enterJoin", "enterMove",
           "enterLeave", "readyToggle", "broadcast", "actRead", "startPlaces", "startEach", "hitLoad",
           "hitStore", "lose", "loseLeave", "loseMove", "loseEnter", "count", "winEnter", "report"}

\* Every state has the shape above.
TypeOK ==
  /\ user \in [Sessions -> UserIds \cup {None}]
  /\ room \in [Sessions -> AllRooms \cup {None}]
  /\ registered \subseteq Sessions /\ phase \in [Sessions -> Phases]
  /\ owner \in [UserIds -> Sessions \cup {None}]
  /\ ready \in [UserIds -> BOOLEAN] /\ hp \in [UserIds -> Int]
  /\ users \in [AllRooms -> SUBSET UserIds]
  /\ master \in [AllRooms -> UserIds \cup {None}]
  /\ started \in [AllRooms -> BOOLEAN] /\ roomMap \subseteq Rooms
  /\ queue \in [AllRooms -> Seq(Jobs)] /\ running \in [AllRooms -> Jobs \cup {NoJob}]
  /\ posted \in [AllRooms -> Nat]
  /\ executor \in [AllRooms -> Threads]
  /\ \A s \in Sessions : call[s].at \in Labels /\ call[s].room \in AllRooms \cup {None}
  /\ logins \in 0..MaxLogins /\ requests \in [Sessions -> Nat]
  /\ crash \in {"", "null", "noRoom", "noPlace", "iterator"}
  /\ last \in [UserIds -> [AllRooms -> Nat]] /\ told \subseteq UserIds
  /\ astray \subseteq UserIds \cup {None}

\* A room never holds more than maxUser, although C_ENTER_ROOM tests the size
\* without the lock and several players may pass that test at once.
NeverOverfull == \A r \in AllRooms : Cardinality(users[r]) <= MaxUser

\* A user gets the broadcasts of a room in the order they were posted, none
\* twice, so all members see the events of the game in one order, whichever
\* threads posted and sent them and whoever came or went meanwhile.
InOneOrder ==
  [][\A r \in AllRooms : running[r].at # running'[r].at /\ running'[r].at # 0 =>
       LET u == running'[r].at IN last'[u][r] > last[u][r]]_vars

\* Handlers dereference a session's user and a user's session without a test,
\* and a session's room before they know that it has one.  As long as no
\* connection ends the first two are never null, and the third is only for a
\* session that has never logged in (its C_ATTACK gets that far); ends or not.
NullNeedsAnEnd ==
  /\ crash = "null" => \E s \in Sessions : phase[s] # "open"
  /\ crash = "noRoom" => \E s \in Sessions : room[s] = None /\ \A u \in UserIds : owner[u] # s

Queued(r, op, u) == \E i \in 1..Len(queue[r]) : queue[r][i].op = op /\ queue[r][i].user = u

\* The room a session acts on is the room whose _users it is in, once nothing
\* that moves it is under way: the two are written by different threads at
\* different times, and come apart in the ways LedAstray and CrowdedOut list and
\* in no other.
RoomAgrees ==
  /\ TypeOK
  /\ \A s \in Sessions :
    LET u == user[s] IN
      /\ phase[s] = "open" /\ At(s, "idle") /\ u \notin astray \cup {None}
      /\ \A t \in Sessions : ~(At(t, "loseMove") /\ call[t].user = u)
      => \A r \in Rooms : u \in users[r] \/ Queued(r, "enter", u) <=> room[s] = r

\* A player whose connection has ended is in no room, or a Leave is queued there:
\* else the next broadcast of that room would follow its expired session.  There
\* are two exceptions, and no more.  Who was led astray may stay, such as a player
\* who was entering when the session ended.  And a handler that finds its user
\* gone posts a Leave of nobody to the lobby, and the process ends there.
DeadHaveLeft ==
  \A r \in AllRooms : \A u \in users[r] :
    Over(owner[u]) /\ At(owner[u], "idle") =>
      \/ Queued(r, "leave", u)
      \/ u \in astray
      \/ r = Lobby /\ Queued(r, "leave", None)

\* The S_LOSE is posted before the loser is taken out of the room.  If nothing
\* executes the room's jobs, it was sent there and then, to the loser too, although
\* other handlers may have been at the room meanwhile.  (If the room is busy, it
\* comes when the loser has gone.)
LoserHears ==
  \A s \in Sessions :
    /\ At(s, "loseLeave") /\ executor[call[s].room] = None
    /\ call[s].user \in users[call[s].room] \ astray
    => call[s].user \in told

\* Room.h:7 has Enter, Leave and Broadcast written as if there were one thread;
\* then nobody would erase the member that somebody who goes through the
\* members of a room stands on.
IteratorsStayValid == crash # "iterator"
=============================================================================
