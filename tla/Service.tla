------------------------------ MODULE Service -------------------------------
(***************************************************************************)
(* A ClientService and a ServerService with its Listener, and the          *)
(* connections between them: dialling, accepting, the services' sets of    *)
(* sessions, Broadcast, and how both ends of a connection come down.       *)
(*                                                                         *)
(* Both processes have started: every ConnectEx and every AcceptEx of the  *)
(* start loops is posted, and worker threads run what completes.  Module   *)
(* Session has the operations of one session in detail; here posting and   *)
(* failing are one step, and what a session sends is only the broadcasts.  *)
(* The server sends none: nothing calls its Broadcast.  A socket call fails *)
(* in two ways (HandleError): a connection reset disconnects the session,  *)
(* any other error is only logged, and the session stays.                  *)
(***************************************************************************)
EXTENDS Integers, Sequences, FiniteSets, Functions

CONSTANTS Clients,     \* the sessions ClientService::Start has made
          MayBreak,    \* bound: those whose connection may be reset
          MaxSession,  \* the server's _maxSessionCount
          MaxServed,   \* bound: the sessions the server makes
          MaxFaults,   \* bound: a socket call fails at once, the connection up or gone
          MaxRounds    \* bound: the broadcasts

ASSUME ServiceAssumption ==
  /\ MaxSession \in Nat \ {0} /\ MaxServed \in Nat /\ MaxSession <= MaxServed
  /\ MaxFaults \in Nat /\ MaxRounds \in Nat
  /\ Clients \cap Nat = {} /\ MayBreak \subseteq Clients

Accepts == 1..MaxSession  \* _acceptEvents
Served == 1..MaxServed    \* the server's sessions, in the order they are made
Sessions == Clients \cup Served

VARIABLES
  link,       \* of a client: its connection: "none", "refused", "up" or "gone"
  peer,       \* of a client: the server's session at the other end, 0 if none
  backlog,    \* the connections no AcceptEx has taken
  event,      \* of an accept event: "posted", "accepted" or "processing"
  held,       \* of an accept event: its session
  made,       \* how many sessions the server has made
  step,       \* of a session: how far ProcessConnect is
  connected,  \* of a session: _connected
  reading,    \* the sessions whose WSARecv is posted
  closing,    \* of a session: how far RegisterDisconnect and what follows is
  sessions, count,  \* of "client" and "server": _sessions and _sessionCount
  round,      \* the broadcasts begun
  todo,       \* the sessions Broadcast has not come to; it has the lock till none is left
  queued,     \* of a client: _sendQueue, the broadcasts waiting for the WSASend before
  sending,    \* the clients whose WSASend is posted: while connected, _sendRegistered
  heard,      \* of a client: the broadcasts handed to the kernel, in order
  dropped,    \* of a client: those in a batch whose WSASend failed with a logged error
  deaf,       \* the sessions whose WSARecv failed with a logged error
  since,      \* of a client: the broadcasts that were over when it joined
  faults

linkVars   == <<link, peer, backlog>>
acceptVars == <<event, held, made>>
setVars    == <<sessions, count, since>>
castVars   == <<round, todo, queued, sending, heard, dropped>>
vars == <<linkVars, acceptVars, step, connected, reading, deaf, closing, setVars, castVars, faults>>

Init ==
  /\ link = [c \in Clients |-> "none"] /\ peer = [c \in Clients |-> 0] /\ backlog = <<>>
  /\ event = [a \in Accepts |-> "posted"] /\ held = [a \in Accepts |-> a] /\ made = MaxSession
  /\ step = [s \in Sessions |-> "new"] /\ connected = [s \in Sessions |-> FALSE]
  /\ reading = {} /\ deaf = {} /\ closing = [s \in Sessions |-> "no"]
  /\ sessions = [side \in {"client", "server"} |-> {}]
  /\ count = [side \in {"client", "server"} |-> 0]
  /\ since = [c \in Clients |-> 0]
  /\ round = 0 /\ todo = {} /\ sending = {}
  /\ queued = [c \in Clients |-> <<>>] /\ heard = [c \in Clients |-> <<>>]
  /\ dropped = [c \in Clients |-> {}]
  /\ faults = 0

Side(s) == IF s \in Clients THEN "client" ELSE "server"

\* The client at the end of s's connection, itself included.
End(s) == IF s \in Clients THEN s ELSE CHOOSE c \in Clients : peer[c] = s

\* The service's lock: only Broadcast has it for more than a step.
Locked(side) == side = "client" /\ todo # {}

-----------------------------------------------------------------------------
(* The kernel. *)

\* ConnectEx completes.  A completion that reports a failure is dispatched like
\* any other, and ProcessConnect does not ask.
Dial(c) ==
  /\ link[c] = "none"
  /\ \/ link' = [link EXCEPT ![c] = "up"] /\ backlog' = Append(backlog, c)
     \/ link' = [link EXCEPT ![c] = "refused"] /\ UNCHANGED backlog
  /\ step' = [step EXCEPT ![c] = "connect"]
  /\ UNCHANGED <<peer, acceptVars, connected, reading, deaf, closing, setVars, castVars, faults>>

\* A connection is reset on the way.
Break(c) ==
  /\ c \in MayBreak /\ link[c] = "up"
  /\ link' = [link EXCEPT ![c] = "gone"]
  /\ UNCHANGED <<peer, backlog, acceptVars, step, connected, reading, deaf, closing, setVars, castVars,
                 faults>>

\* AcceptEx completes with the connection that has waited longest.
Accepted(a) ==
  /\ event[a] = "posted" /\ backlog # <<>>
  /\ peer' = [peer EXCEPT ![Head(backlog)] = held[a]]
  /\ backlog' = Tail(backlog)
  /\ event' = [event EXCEPT ![a] = "accepted"]
  /\ UNCHANGED <<link, held, made, step, connected, reading, deaf, closing, setVars, castVars, faults>>

-----------------------------------------------------------------------------
(* The listener. *)

\* A seeded bug: the path of a connection that has gone forgets the event.
ProcessAcceptMutantReturn(a) ==
  /\ event[a] = "accepted"
  /\ \/ /\ step' = [step EXCEPT ![held[a]] = "connect"]
        /\ event' = [event EXCEPT ![a] = "processing"]
     \/ link[End(held[a])] = "gone" /\ event' = [event EXCEPT ![a] = "forgotten"]
        /\ UNCHANGED step
  /\ UNCHANGED <<linkVars, held, made, connected, reading, deaf, closing, setVars, castVars, faults>>

\* Once a connection has gone, SetUpdateAcceptSocket or getpeername may fail: its
\* session is dropped.
ProcessAccept(a) ==
  /\ event[a] = "accepted"
  /\ event' = [event EXCEPT ![a] = "processing"]
  /\ \/ step' = [step EXCEPT ![held[a]] = "connect"]
     \/ link[End(held[a])] = "gone" /\ UNCHANGED step
  /\ UNCHANGED <<linkVars, held, made, connected, reading, deaf, closing, setVars, castVars, faults>>

\* After ProcessConnect or a failure: a new session for the event, and AcceptEx;
\* if that fails, the same once more.
RegisterAccept(a) ==
  /\ event[a] = "processing" /\ step[held[a]] \in {"new", "done"} /\ made < MaxServed
  /\ made' = made + 1
  /\ held' = [held EXCEPT ![a] = made + 1]
  /\ \/ event' = [event EXCEPT ![a] = "posted"] /\ UNCHANGED faults
     \/ faults < MaxFaults /\ faults' = faults + 1 /\ UNCHANGED event
  /\ UNCHANGED <<linkVars, step, connected, reading, deaf, closing, setVars, castVars>>

-----------------------------------------------------------------------------
(* A session of either side. *)

\* A seeded bug: the receive is posted before the session is in the set.
ProcessConnectMutantRecv(s) ==
  /\ step[s] = "connect"
  /\ connected' = [connected EXCEPT ![s] = TRUE]
  /\ step' = [step EXCEPT ![s] = "add"]
  /\ reading' = reading \cup {s}
  /\ UNCHANGED <<linkVars, acceptVars, deaf, closing, setVars, castVars, faults>>

ProcessConnect(s) ==
  /\ step[s] = "connect"
  /\ connected' = [connected EXCEPT ![s] = TRUE]
  /\ step' = [step EXCEPT ![s] = "add"]
  /\ UNCHANGED <<linkVars, acceptVars, reading, deaf, closing, setVars, castVars, faults>>

\* Service::AddSession.
AddSession(s) ==
  /\ step[s] = "add" /\ ~Locked(Side(s))
  /\ sessions' = [sessions EXCEPT ![Side(s)] = @ \cup {s}]
  /\ count' = [count EXCEPT ![Side(s)] = @ + 1]
  /\ since' = [c \in Clients |-> IF c = s THEN round ELSE since[c]]
  /\ step' = [step EXCEPT ![s] = "recv"]
  /\ UNCHANGED <<linkVars, acceptVars, connected, reading, deaf, closing, castVars, faults>>

\* Disconnect, for the caller that finds _connected set: DisconnectEx is posted
\* and hangs up, or it fails.
Disconnect(s) ==
  IF ~connected[s] THEN UNCHANGED <<connected, closing, link, faults>>
  ELSE /\ connected' = [connected EXCEPT ![s] = FALSE]
       /\ \/ /\ closing' = [closing EXCEPT ![s] = "posted"]
             /\ link' = [link EXCEPT ![End(s)] = "gone"]
             /\ UNCHANGED faults
          \/ /\ faults < MaxFaults /\ faults' = faults + 1
             /\ closing' = [closing EXCEPT ![s] = "refused"]
             /\ UNCHANGED link

\* WSARecv on a session that is connected.  It fails on a socket that was never
\* connected, and may fail on any: HandleError only logs the error and the session
\* stays, or the connection has been reset and HandleError disconnects.
PostRecv(s) ==
  \/ /\ link[End(s)] # "refused" /\ reading' = reading \cup {s}
     /\ UNCHANGED <<deaf, connected, closing, link, faults>>
  \/ /\ deaf' = deaf \cup {s} /\ reading' = reading \ {s}
     /\ IF link[End(s)] = "refused" THEN UNCHANGED faults
        ELSE faults < MaxFaults /\ faults' = faults + 1
     /\ UNCHANGED <<connected, closing, link>>
  \/ /\ link[End(s)] = "gone" /\ Disconnect(s)
     /\ reading' = reading \ {s} /\ UNCHANGED deaf

\* OnConnected, then RegisterRecv.
RegisterRecv(s) ==
  /\ step[s] = "recv"
  /\ step' = [step EXCEPT ![s] = "done"]
  /\ \/ connected[s] /\ PostRecv(s)
     \/ ~connected[s] /\ UNCHANGED <<reading, deaf, connected, closing, link, faults>>
  /\ UNCHANGED <<peer, backlog, acceptVars, setVars, castVars>>

\* What a client sent arrives, is processed, and RegisterRecv posts the next receive.
RecvData(s) ==
  /\ s \in reading /\ s \in Served /\ heard[End(s)] # <<>> /\ connected[s]
  /\ PostRecv(s)
  /\ UNCHANGED <<peer, backlog, acceptVars, step, setVars, castVars>>

\* A seeded bug: a receive of no bytes is taken for data.
RecvZeroMutantIgnore(s) ==
  /\ s \in reading /\ link[End(s)] = "gone"
  /\ reading' = reading \ {s}
  /\ UNCHANGED <<linkVars, acceptVars, step, connected, deaf, closing, setVars, castVars, faults>>

\* The connection has gone: the posted WSARecv completes with no bytes.
RecvZero(s) ==
  /\ s \in reading /\ link[End(s)] = "gone"
  /\ reading' = reading \ {s}
  /\ Disconnect(s)
  /\ UNCHANGED <<peer, backlog, acceptVars, step, deaf, setVars, castVars>>

\* ProcessDisconnect: OnDisconnected, then Service::ReleaseSession, which asserts
\* that it holds the session.
ReleaseSession(s) ==
  /\ closing[s] = "posted" /\ ~Locked(Side(s))
  /\ closing' = [closing EXCEPT ![s] = IF s \in sessions[Side(s)] THEN "released" ELSE "assert"]
  /\ sessions' = [sessions EXCEPT ![Side(s)] = @ \ {s}]
  /\ count' = [count EXCEPT ![Side(s)] = @ - 1]
  /\ UNCHANGED <<linkVars, acceptVars, step, connected, reading, deaf, since, castVars, faults>>

-----------------------------------------------------------------------------
(* ClientService's Broadcast, called by the console thread. *)

Broadcast ==
  /\ todo = {} /\ round < MaxRounds
  /\ round' = round + 1
  /\ todo' = sessions["client"]
  /\ UNCHANGED <<linkVars, acceptVars, step, connected, reading, deaf, closing, setVars, queued,
                 sending, heard, dropped, faults>>

\* RegisterSend, with everything that is queued: one WSASend.  It fails like WSARecv,
\* and the batch is gone in either case.
RegisterSend(c, batch) ==
  /\ queued' = [queued EXCEPT ![c] = <<>>]
  /\ \/ /\ link[c] # "refused" /\ sending' = sending \cup {c}
        /\ heard' = [heard EXCEPT ![c] = @ \o batch]
        /\ UNCHANGED <<dropped, connected, closing, link, faults>>
     \/ /\ dropped' = [dropped EXCEPT ![c] = @ \cup Range(batch)] /\ sending' = sending \ {c}
        /\ IF link[c] = "refused" THEN UNCHANGED faults
           ELSE faults < MaxFaults /\ faults' = faults + 1
        /\ UNCHANGED <<heard, connected, closing, link>>
     \/ /\ link[c] = "gone" /\ Disconnect(c) /\ sending' = sending \ {c}
        /\ UNCHANGED <<heard, dropped>>

\* session->Send(round): nothing on a session that is not connected.  Only the
\* broadcast queues anything, so that nobody comes between the push and RegisterSend.
Push(c) ==
  \/ /\ ~connected[c]
     /\ UNCHANGED <<queued, sending, heard, dropped, connected, closing, link, faults>>
  \/ /\ connected[c] /\ c \in sending /\ queued' = [queued EXCEPT ![c] = Append(@, round)]
     /\ UNCHANGED <<sending, heard, dropped, connected, closing, link, faults>>
  \/ connected[c] /\ c \notin sending /\ RegisterSend(c, Append(queued[c], round))

\* A seeded bug: the loop ends at a session that is not connected.
SendMutantBreak(c) ==
  /\ c \in todo
  /\ todo' = IF connected[c] THEN todo \ {c} ELSE {}
  /\ Push(c)
  /\ UNCHANGED <<peer, backlog, acceptVars, step, reading, deaf, setVars, round>>

\* The loop's next session, under the service's lock.
Send(c) ==
  /\ c \in todo
  /\ todo' = todo \ {c}
  /\ Push(c)
  /\ UNCHANGED <<peer, backlog, acceptVars, step, reading, deaf, setVars, round>>

\* WSASend completes.  With bytes sent: RegisterSend again for what was queued
\* meanwhile.  With none, which a connection that has gone may bring: Disconnect.
ProcessSend(c) ==
  /\ c \in sending
  /\ \/ /\ connected[c] /\ queued[c] # <<>> /\ RegisterSend(c, queued[c])
     \/ /\ ~connected[c] \/ queued[c] = <<>>
        /\ sending' = sending \ {c}
        /\ UNCHANGED <<queued, heard, dropped, connected, closing, link, faults>>
     \/ /\ link[c] = "gone" /\ Disconnect(c) /\ sending' = sending \ {c}
        /\ UNCHANGED <<queued, heard, dropped>>
  /\ UNCHANGED <<peer, backlog, acceptVars, step, reading, deaf, setVars, round, todo>>

-----------------------------------------------------------------------------
Listen(a) == Accepted(a) \/ ProcessAccept(a) \/ RegisterAccept(a)

Dispatch(s) ==
  \/ ProcessConnect(s) \/ AddSession(s) \/ RegisterRecv(s)
  \/ RecvData(s) \/ RecvZero(s) \/ ReleaseSession(s)

Work ==
  \/ \E a \in Accepts : Listen(a)
  \/ \E s \in Sessions : Dispatch(s)
  \/ \E c \in Clients : Send(c) \/ ProcessSend(c)

Next == Work \/ Broadcast \/ \E c \in Clients : Dial(c) \/ Break(c)

Spec == Init /\ [][Next]_vars

\* The threads do not all stop while there is work.  Nobody has to dial, to hang up
\* or to broadcast.  No step is ever undone, so that a fair behaviour ends with all
\* the work done.
FairSpec == Spec /\ WF_vars(Work)

-----------------------------------------------------------------------------
(* Properties. *)

\* Every state has the shape above; no session fails ReleaseSession's assertion.
TypeOK ==
  /\ link \in [Clients -> {"none", "refused", "up", "gone"}]
  /\ peer \in [Clients -> Served \cup {0}] /\ backlog \in Seq(Clients)
  /\ event \in [Accepts -> {"posted", "accepted", "processing"}]
  /\ held \in [Accepts -> Served] /\ made \in Served
  /\ step \in [Sessions -> {"new", "connect", "add", "recv", "done"}]
  /\ connected \in [Sessions -> BOOLEAN] /\ reading \subseteq Sessions /\ deaf \subseteq Sessions
  /\ closing \in [Sessions -> {"no", "posted", "refused", "released"}]
  /\ sessions["client"] \subseteq Clients /\ sessions["server"] \subseteq Served
  /\ count \in [{"client", "server"} -> Nat]
  /\ round \in 0..MaxRounds /\ todo \subseteq sessions["client"]
  /\ queued \in [Clients -> Seq(1..round)] /\ sending \subseteq Clients
  /\ heard \in [Clients -> Seq(1..round)] /\ dropped \in [Clients -> SUBSET (1..round)]
  /\ since \in [Clients -> 0..round]
  /\ faults \in 0..MaxFaults

\* A service asked to release a session holds it, however early the connection
\* breaks, and _sessionCount is the number it holds; the two ends of a connection
\* are one client and one session of the server, which no accept event still has
\* in its hands when it takes the next connection.
SetsMatchConnections ==
  /\ TypeOK
  /\ \A side \in {"client", "server"} : count[side] = Cardinality(sessions[side])
  /\ \A c, d \in Clients : c # d /\ peer[c] = peer[d] => peer[c] = 0
  /\ \A a \in Accepts : event[a] = "posted" => \A c \in Clients : peer[c] # held[a]

\* What a client has been handed: by WSASend, or to wait for the one before.
Told(c) == heard[c] \o queued[c]

Increasing(seq) == \A i, j \in 1..Len(seq) : i < j => seq[i] < seq[j]

\* A session hears the broadcasts in order and none twice, and as long as it is
\* connected it misses none from the first after it joined, whoever joins, breaks or
\* leaves while Broadcast goes through the set, except what a WSASend that failed
\* with a logged error took with it; and what waits in its queue has a WSASend posted
\* whose completion will send it.
HeardFromJoining ==
  \A c \in Clients :
    /\ Increasing(Told(c))
    /\ c \in sessions["client"] /\ connected[c] =>
         /\ Range(Told(c)) \cup dropped[c]
              = (since[c] + 1)..(IF c \in todo THEN round - 1 ELSE round)
         /\ Range(Told(c)) \cap dropped[c] = {}
         /\ queued[c] # <<>> => c \in sending
         /\ dropped[c] # {} => link[c] = "refused" \/ faults > 0

\* Again and again, every connection that is up has been accepted and its session is
\* in the server's set, whatever happened to those before it and how often AcceptEx
\* failed: no path of the listener loses an accept event.
ServedOrGone ==
  []<>(\A c \in Clients :
         link[c] = "up" => peer[c] # 0 /\ peer[c] \in sessions["server"])

\* Again and again, both services have let go of the sessions whose connection has
\* gone or whose connect had failed.  Two kinds stay for ever: one whose DisconnectEx
\* was refused, and one whose WSARecv failed with a logged error, as it does on a
\* socket that was never connected: nothing tells it any more that there is no
\* connection.
BothEndsLeave ==
  []<>(\A s \in Sessions :
         s \in sessions[Side(s)] /\ link[End(s)] # "up" => closing[s] = "refused" \/ s \in deaf)
=============================================================================
