---------------------------- MODULE ServiceProofs ----------------------------
(***************************************************************************)
(* Theorems about Service for any number of clients, of accept events and  *)
(* of sessions the server makes, of failing calls and of broadcasts.       *)
(*                                                                         *)
(* The argument: a session goes one way, through ProcessConnect into the   *)
(* set and then out of it, and it is disconnected only while it is in the  *)
(* set.  An accept event never has a session that somebody else has, and   *)
(* a connection waits once, so that the two ends of a connection belong    *)
(* together.  What a session has been told only grows while Broadcast has  *)
(* the lock, which keeps it from joining and from leaving; WSASend moves   *)
(* it from the queue to the kernel, or all that is queued is dropped.      *)
(***************************************************************************)
EXTENDS Service, FiniteSetTheorems, SequenceTheorems, TLAPS

Sides == {"client", "server"}

\* The sets are finite, and their functions are what Init makes them.
Shape ==
  /\ TypeOK
  /\ sessions \in [Sides -> SUBSET Sessions]
  /\ \A side \in Sides :
       IsFiniteSet(sessions[side]) /\ count[side] = Cardinality(sessions[side])
  /\ todo # {} => round > 0

Joined(s) == step[s] \in {"recv", "done"}

\* How far a session is: it is in its service's set from AddSession until its
\* release, it reads and sends only then, and it is disconnected once and only then.
Lives ==
  \A s \in Sessions :
    /\ s \in sessions[Side(s)] <=> Joined(s) /\ closing[s] # "released"
    /\ s \in reading \cup sending => Joined(s)
    /\ closing[s] # "no" => Joined(s) /\ ~connected[s]

\* A client dials once, and waits in the listener's backlog once.
Dials ==
  /\ \A c \in Clients : link[c] = "none" => step[c] = "new"
  /\ \A c \in Clients : peer[c] # 0 => link[c] \in {"up", "gone"}
  /\ \A i \in 1..Len(backlog) : peer[backlog[i]] = 0 /\ link[backlog[i]] \in {"up", "gone"}
  /\ \A i, j \in 1..Len(backlog) : backlog[i] = backlog[j] => i = j

\* Every accept event has a session of its own.
Accepting ==
  /\ \A a \in Accepts : held[a] <= made
  /\ \A a, b \in Accepts : held[a] = held[b] => a = b
  /\ \A a \in Accepts : event[a] \in {"posted", "accepted"} => step[held[a]] = "new"
  /\ \A s \in Served : s > made => step[s] = "new"

\* A session of the server belongs to one client.
Paired ==
  /\ \A c \in Clients : peer[c] <= made
  /\ \A c, d \in Clients : c # d /\ peer[c] = peer[d] => peer[c] = 0
  /\ \A a \in Accepts : event[a] = "posted" => \A c \in Clients : peer[c] # held[a]
  /\ \A a \in Accepts : event[a] = "accepted" => \E c \in Clients : peer[c] = held[a]
  /\ \A s \in Served : step[s] # "new" => \E c \in Clients : peer[c] = s

ServiceInv == Shape /\ Lives /\ Dials /\ Accepting /\ Paired

\* HeardFromJoining of one client, who has heard nothing before it joined.
Hears(c) ==
  /\ Increasing(Told(c))
  /\ c \in sessions["client"] /\ connected[c] =>
       /\ Range(Told(c)) \cup dropped[c]
            = (since[c] + 1)..(IF c \in todo THEN round - 1 ELSE round)
       /\ Range(Told(c)) \cap dropped[c] = {}
       /\ queued[c] # <<>> => c \in sending
       /\ dropped[c] # {} => link[c] = "refused" \/ faults > 0
  /\ ~Joined(c) => heard[c] = <<>> /\ queued[c] = <<>> /\ dropped[c] = {}
  /\ c \in todo => since[c] < round

HeardInv == \A c \in Clients : Hears(c)

-----------------------------------------------------------------------------
\* A session is the client's or the server's.
LEMMA TwoSides ==
  /\ Clients \subseteq Sessions /\ Served \subseteq Sessions /\ Accepts \subseteq Served
  /\ Clients \cap Served = {} /\ 0 \notin Served /\ Served \subseteq Nat
  /\ \A s \in Sessions : /\ Side(s) \in Sides
                         /\ Side(s) = "client" => s \in Clients
                         /\ Side(s) = "server" => s \in Served
  /\ \A c \in Clients : Side(c) = "client"
BY ServiceAssumption DEF ServiceAssumption, Sessions, Served, Accepts, Side, Sides

\* Disconnect on a connection that has gone.
LEMMA DisconnectEffect ==
  ASSUME TypeOK, NEW s \in Sessions, Disconnect(s), link[End(s)] = "gone"
  PROVE  /\ link' = link /\ faults' \in 0..MaxFaults /\ faults' >= faults
         /\ \/ UNCHANGED <<connected, closing>> /\ ~connected[s]
            \/ /\ connected[s] /\ connected' = [connected EXCEPT ![s] = FALSE]
               /\ \E v \in {"posted", "refused"} : closing' = [closing EXCEPT ![s] = v]
<1>1. faults \in 0..MaxFaults /\ MaxFaults \in Nat /\ link \in [Clients -> {"none", "refused", "up", "gone"}]
  BY ServiceAssumption DEF TypeOK, ServiceAssumption
<1>2. CASE ~connected[s]
  BY <1>1, <1>2 DEF Disconnect
<1>3. CASE connected[s]
  <2>1. /\ connected' = [connected EXCEPT ![s] = FALSE]
        /\ \/ /\ closing' = [closing EXCEPT ![s] = "posted"]
              /\ link' = [link EXCEPT ![End(s)] = "gone"]
              /\ UNCHANGED faults
           \/ /\ faults < MaxFaults /\ faults' = faults + 1
              /\ closing' = [closing EXCEPT ![s] = "refused"]
              /\ UNCHANGED link
    BY <1>3 DEF Disconnect
  <2>2. [link EXCEPT ![End(s)] = "gone"] = link
    BY <1>1
  <2>3. faults' \in 0..MaxFaults /\ faults' >= faults
    BY <1>1, <2>1
  <2>. QED
    BY <1>3, <2>1, <2>2, <2>3
<1>. QED
  BY <1>2, <1>3

\* What a socket call on s may do apart from its own: nothing, count as failed, or
\* disconnect s.
CallEffect(s) ==
  /\ link' = link /\ faults' \in 0..MaxFaults /\ faults' >= faults
  /\ \/ UNCHANGED <<connected, closing>>
     \/ /\ connected[s] /\ connected' = [connected EXCEPT ![s] = FALSE]
        /\ \E v \in {"posted", "refused"} : closing' = [closing EXCEPT ![s] = v]

LEMMA CallTypes ==
  ASSUME TypeOK, NEW s \in Sessions, CallEffect(s)
  PROVE  /\ connected' \in [Sessions -> BOOLEAN]
         /\ closing' \in [Sessions -> {"no", "posted", "refused", "released"}]
         /\ link' \in [Clients -> {"none", "refused", "up", "gone"}]
         /\ \A u \in Sessions : connected'[u] => connected[u]
         /\ \A u \in Sessions : u # s => connected'[u] = connected[u]
<1>1. /\ connected \in [Sessions -> BOOLEAN] /\ link' = link
      /\ closing \in [Sessions -> {"no", "posted", "refused", "released"}]
      /\ link \in [Clients -> {"none", "refused", "up", "gone"}]
  BY DEF TypeOK, CallEffect
<1>2. CASE UNCHANGED <<connected, closing>>
  BY <1>1, <1>2
<1>3. CASE connected' = [connected EXCEPT ![s] = FALSE]
  <2>1. closing' \in [Sessions -> {"no", "posted", "refused", "released"}]
    BY <1>1 DEF CallEffect
  <2>. QED
    BY <1>1, <1>3, <2>1
<1>. QED
  BY <1>2, <1>3 DEF CallEffect

LEMMA NoCallEffect ==
  ASSUME TypeOK, NEW s \in Sessions, UNCHANGED <<connected, closing, link, faults>>
  PROVE  CallEffect(s)
BY ServiceAssumption DEF TypeOK, CallEffect, ServiceAssumption

LEMMA FailedCallEffect ==
  ASSUME TypeOK, NEW s \in Sessions, UNCHANGED <<connected, closing, link>>,
         faults' = faults \/ (faults < MaxFaults /\ faults' = faults + 1)
  PROVE  CallEffect(s)
BY ServiceAssumption DEF TypeOK, CallEffect, ServiceAssumption

LEMMA PostRecvEffect ==
  ASSUME TypeOK, NEW s \in Sessions, PostRecv(s)
  PROVE  /\ CallEffect(s)
         /\ reading' \in {reading \cup {s}, reading \ {s}} /\ deaf' \subseteq deaf \cup {s}
<1>1. CASE /\ link[End(s)] # "refused" /\ reading' = reading \cup {s}
           /\ UNCHANGED <<deaf, connected, closing, link, faults>>
  BY <1>1, NoCallEffect
<1>2. CASE /\ deaf' = deaf \cup {s} /\ reading' = reading \ {s}
           /\ IF link[End(s)] = "refused" THEN UNCHANGED faults
              ELSE faults < MaxFaults /\ faults' = faults + 1
           /\ UNCHANGED <<connected, closing, link>>
  BY <1>2, FailedCallEffect
<1>3. CASE /\ link[End(s)] = "gone" /\ Disconnect(s)
           /\ reading' = reading \ {s} /\ UNCHANGED deaf
  BY <1>3, DisconnectEffect DEF CallEffect
<1>. QED
  BY <1>1, <1>2, <1>3 DEF PostRecv

\* WSASend of a batch: it is handed over, dropped, or its session disconnected.
LEMMA RegisterSendEffect ==
  ASSUME TypeOK, NEW c \in Clients, NEW batch, connected[c], RegisterSend(c, batch)
  PROVE  /\ CallEffect(c) /\ queued' = [queued EXCEPT ![c] = <<>>]
         /\ \/ /\ heard' = [heard EXCEPT ![c] = @ \o batch] /\ sending' = sending \cup {c}
               /\ UNCHANGED dropped
            \/ /\ dropped' = [dropped EXCEPT ![c] = @ \cup Range(batch)]
               /\ sending' = sending \ {c} /\ UNCHANGED heard
               /\ link[c] = "refused" \/ faults' > 0
            \/ /\ sending' = sending \ {c} /\ UNCHANGED <<heard, dropped>> /\ ~connected'[c]
<1>. c \in Sessions /\ faults \in Nat /\ connected \in [Sessions -> BOOLEAN]
  BY TwoSides, ServiceAssumption DEF TypeOK, ServiceAssumption
<1>1. CASE /\ link[c] # "refused" /\ sending' = sending \cup {c}
           /\ heard' = [heard EXCEPT ![c] = @ \o batch]
           /\ UNCHANGED <<dropped, connected, closing, link, faults>>
  BY <1>1, NoCallEffect DEF RegisterSend
<1>2. CASE /\ dropped' = [dropped EXCEPT ![c] = @ \cup Range(batch)] /\ sending' = sending \ {c}
           /\ IF link[c] = "refused" THEN UNCHANGED faults
              ELSE faults < MaxFaults /\ faults' = faults + 1
           /\ UNCHANGED <<heard, connected, closing, link>>
  BY <1>2, FailedCallEffect DEF RegisterSend
<1>3. CASE /\ link[c] = "gone" /\ Disconnect(c) /\ sending' = sending \ {c}
           /\ UNCHANGED <<heard, dropped>>
  <2>1. link[End(c)] = "gone"
    BY <1>3 DEF End
  <2>. QED
    BY <1>3, <2>1, DisconnectEffect DEF RegisterSend, CallEffect
<1>. QED
  BY <1>1, <1>2, <1>3 DEF RegisterSend

\* What Send and ProcessSend of a client share.
LEMMA SendEffect ==
  ASSUME TypeOK, NEW c \in Clients, Send(c) \/ ProcessSend(c)
  PROVE  /\ CallEffect(c)
         /\ UNCHANGED <<peer, backlog, acceptVars, step, reading, deaf, setVars, round>>
         /\ sending' \in {sending, sending \cup {c}, sending \ {c}}
         /\ c \in todo \cup sending
<1>. c \in Sessions
  BY TwoSides
<1>1. CASE Send(c)
  <2>1. CASE UNCHANGED <<queued, sending, heard, dropped, connected, closing, link, faults>>
    BY <1>1, <2>1, NoCallEffect DEF Send
  <2>2. CASE UNCHANGED <<sending, heard, dropped, connected, closing, link, faults>>
    BY <1>1, <2>2, NoCallEffect DEF Send
  <2>3. CASE connected[c] /\ RegisterSend(c, Append(queued[c], round))
    BY <1>1, <2>3, RegisterSendEffect DEF Send
  <2>. QED
    BY <1>1, <2>1, <2>2, <2>3 DEF Send, Push
<1>2. CASE ProcessSend(c)
  <2>1. CASE connected[c] /\ RegisterSend(c, queued[c])
    BY <1>2, <2>1, RegisterSendEffect DEF ProcessSend
  <2>2. CASE /\ sending' = sending \ {c}
             /\ UNCHANGED <<queued, heard, dropped, connected, closing, link, faults>>
    BY <1>2, <2>2, NoCallEffect DEF ProcessSend
  <2>3. CASE link[c] = "gone" /\ Disconnect(c) /\ sending' = sending \ {c}
    <3>1. link[End(c)] = "gone"
      BY <2>3 DEF End
    <3>. QED
      BY <1>2, <2>3, <3>1, DisconnectEffect DEF ProcessSend, CallEffect
  <2>. QED
    BY <1>2, <2>1, <2>2, <2>3 DEF ProcessSend
<1>. QED
  BY <1>1, <1>2

LEMMA ServiceInit == Init => ServiceInv /\ HeardInv
<1>. SUFFICES ASSUME Init PROVE ServiceInv /\ HeardInv
  OBVIOUS
<1>1. Shape
  <2>1. TypeOK
    BY TwoSides, ServiceAssumption DEF Init, TypeOK, ServiceAssumption, Accepts, Served, Sides
  <2>2. \A side \in Sides : sessions[side] = {} /\ count[side] = 0
    BY DEF Init, Sides
  <2>3. sessions \in [Sides -> SUBSET Sessions]
    BY DEF Init, Sides
  <2>4. todo = {}
    BY DEF Init
  <2>. QED
    BY <2>1, <2>2, <2>3, <2>4, FS_EmptySet DEF Shape
<1>2. Lives
  BY TwoSides DEF Init, Lives, Joined, Sides
<1>3. Dials
  BY TwoSides DEF Init, Dials
<1>4. Accepting
  BY TwoSides, ServiceAssumption DEF Init, Accepting, ServiceAssumption, Accepts, Served, Sessions
<1>5. Paired
  BY TwoSides, ServiceAssumption DEF Init, Paired, ServiceAssumption, Accepts, Served, Sessions
<1>6. HeardInv
  <2>1. \A c \in Clients : /\ heard[c] = <<>> /\ queued[c] = <<>> /\ dropped[c] = {}
                           /\ sessions["client"] = {}
    BY DEF Init
  <2>2. \A c \in Clients : Told(c) = <<>> /\ Increasing(Told(c)) /\ c \notin todo
    <3>1. <<>> \o <<>> = <<>> /\ Len(<<>>) = 0
      BY EmptySeq, ConcatEmptySeq
    <3>. QED
      BY <2>1, <3>1 DEF Init, Told, Increasing
  <2>. QED
    BY <2>1, <2>2 DEF HeardInv, Hears
<1>. QED
  BY <1>1, <1>2, <1>3, <1>4, <1>5, <1>6 DEF ServiceInv

-----------------------------------------------------------------------------
\* Where a session stays in the set, and in which set it is.
LEMMA LivesStep ==
  ASSUME ServiceInv, Next
  PROVE  Lives'
<1>. USE DEF ServiceInv, Shape
<1>a. /\ step \in [Sessions -> {"new", "connect", "add", "recv", "done"}]
      /\ connected \in [Sessions -> BOOLEAN]
      /\ closing \in [Sessions -> {"no", "posted", "refused", "released"}]
      /\ sessions \in [Sides -> SUBSET Sessions]
      /\ TypeOK
  BY DEF TypeOK
<1>b. \A s \in Sessions :
        /\ s \in sessions[Side(s)] <=> Joined(s) /\ closing[s] # "released"
        /\ s \in reading \cup sending => Joined(s)
        /\ closing[s] # "no" => Joined(s) /\ ~connected[s]
  BY DEF Lives
<1>c. \A s \in Sessions : Side(s) \in Sides
  BY TwoSides
<1>d. \A s \in Sessions : Side(s)' = Side(s)
  BY DEF Side
\* A step of ProcessConnect's beginning: the session has not joined.
<1>1. ASSUME NEW t \in Sessions, step[t] = "new", step' = [step EXCEPT ![t] = "connect"],
             UNCHANGED <<connected, reading, sending, closing, sessions>>
      PROVE  Lives'
  <2>. SUFFICES ASSUME NEW s \in Sessions
                PROVE  /\ s \in sessions[Side(s)] <=> Joined(s)' /\ closing[s] # "released"
                       /\ s \in reading \cup sending => Joined(s)'
                       /\ closing[s] # "no" => Joined(s)' /\ ~connected[s]
    BY <1>1, <1>d DEF Lives
  <2>1. Joined(s)' <=> Joined(s)
    BY <1>1, <1>a DEF Joined
  <2>. QED
    BY <2>1, <1>b
<1>2. ASSUME NEW c \in Clients, Dial(c) PROVE Lives'
  BY <1>2, <1>1, TwoSides DEF Dial, Dials, setVars, castVars, ServiceInv
<1>3. ASSUME NEW a \in Accepts, Listen(a) PROVE Lives'
  <2>1. CASE Accepted(a) \/ RegisterAccept(a)
    BY <2>1, <1>b, <1>d DEF Accepted, RegisterAccept, setVars, castVars, Lives, Joined
  <2>2. CASE ProcessAccept(a)
    <3>1. held[a] \in Sessions /\ step[held[a]] = "new"
      BY <1>3, <2>2, TwoSides, <1>a DEF ProcessAccept, Accepting, TypeOK
    <3>2. UNCHANGED <<connected, reading, sending, closing, sessions>>
      BY <2>2 DEF ProcessAccept, setVars, castVars
    <3>3. CASE step' = [step EXCEPT ![held[a]] = "connect"]
      BY <3>1, <3>2, <3>3, <1>1
    <3>4. CASE UNCHANGED step
      BY <3>2, <3>4, <1>b, <1>d DEF Lives, Joined
    <3>. QED
      BY <2>2, <3>3, <3>4 DEF ProcessAccept
  <2>. QED
    BY <1>3, <2>1, <2>2 DEF Listen
\* A disconnect of a session that has joined.
<1>4. ASSUME NEW t \in Sessions, Joined(t), Joined(t)',
             \A s \in Sessions : s # t => step'[s] = step[s],
             UNCHANGED sessions, CallEffect(t),
             reading' \cup sending' \subseteq reading \cup sending \cup {t}
      PROVE  Lives'
  <2>. SUFFICES ASSUME NEW s \in Sessions
                PROVE  /\ s \in sessions[Side(s)] <=> Joined(s)' /\ closing'[s] # "released"
                       /\ s \in reading' \cup sending' => Joined(s)'
                       /\ closing'[s] # "no" => Joined(s)' /\ ~connected'[s]
    BY <1>4, <1>d DEF Lives
  <2>1. Joined(s)' <=> Joined(s)
    BY <1>4 DEF Joined
  <2>2. CASE s = t
    BY <2>1, <2>2, <1>4, <1>a, <1>b DEF CallEffect
  <2>3. CASE s # t
    BY <2>1, <2>3, <1>4, <1>a, <1>b DEF CallEffect
  <2>. QED
    BY <2>2, <2>3
<1>5. ASSUME NEW t \in Sessions, Dispatch(t) PROVE Lives'
  <2>1. CASE ProcessConnect(t)
    <3>. SUFFICES ASSUME NEW s \in Sessions
                  PROVE  /\ s \in sessions[Side(s)] <=> Joined(s)' /\ closing[s] # "released"
                         /\ s \in reading \cup sending => Joined(s)'
                         /\ closing[s] # "no" => Joined(s)' /\ ~connected'[s]
      BY <2>1, <1>d DEF Lives, ProcessConnect, setVars, castVars
    <3>1. Joined(s)' <=> Joined(s)
      BY <2>1, <1>a DEF Joined, ProcessConnect
    <3>2. closing[s] # "no" => ~connected'[s]
      BY <2>1, <1>a, <1>b DEF ProcessConnect, Joined
    <3>. QED
      BY <3>1, <3>2, <1>b
  <2>2. CASE AddSession(t)
    <3>. SUFFICES ASSUME NEW s \in Sessions
                  PROVE  /\ s \in sessions'[Side(s)] <=> Joined(s)' /\ closing[s] # "released"
                         /\ s \in reading \cup sending => Joined(s)'
                         /\ closing[s] # "no" => Joined(s)' /\ ~connected[s]
      BY <2>2, <1>d DEF Lives, AddSession, castVars
    <3>1. CASE s = t
      <4>1. Joined(s)' /\ ~Joined(s) /\ s \in sessions'[Side(s)]
        BY <2>2, <3>1, <1>a, <1>c DEF Joined, AddSession
      <4>. QED
        BY <4>1, <1>b
    <3>2. CASE s # t
      <4>1. (Joined(s)' <=> Joined(s)) /\ (s \in sessions'[Side(s)] <=> s \in sessions[Side(s)])
        BY <2>2, <3>2, <1>a, <1>c DEF Joined, AddSession
      <4>. QED
        BY <4>1, <1>b
    <3>. QED
      BY <3>1, <3>2
  <2>3. CASE RegisterRecv(t)
    <3>1. Joined(t) /\ Joined(t)' /\ \A s \in Sessions : s # t => step'[s] = step[s]
      BY <2>3, <1>a DEF RegisterRecv, Joined
    <3>2. UNCHANGED <<sessions, sending>>
      BY <2>3 DEF RegisterRecv, setVars, castVars
    <3>3. CallEffect(t) /\ reading' \subseteq reading \cup {t}
      BY <2>3, <1>a, PostRecvEffect, NoCallEffect DEF RegisterRecv
    <3>. QED
      BY <3>1, <3>2, <3>3, <1>4
  <2>4. CASE RecvData(t) \/ RecvZero(t)
    <3>1. Joined(t) /\ Joined(t)' /\ step' = step
      BY <2>4, <1>b DEF RecvData, RecvZero, Joined
    <3>2. UNCHANGED <<sessions, sending>>
      BY <2>4 DEF RecvData, RecvZero, setVars, castVars
    <3>3. CallEffect(t) /\ reading' \subseteq reading \cup {t}
      BY <2>4, <1>a, PostRecvEffect, DisconnectEffect DEF RecvData, RecvZero, CallEffect
    <3>. QED
      BY <3>1, <3>2, <3>3, <1>4
  <2>5. CASE ReleaseSession(t)
    <3>. SUFFICES ASSUME NEW s \in Sessions
                  PROVE  /\ s \in sessions'[Side(s)] <=> Joined(s) /\ closing'[s] # "released"
                         /\ s \in reading \cup sending => Joined(s)
                         /\ closing'[s] # "no" => Joined(s) /\ ~connected[s]
      BY <2>5, <1>d DEF Lives, ReleaseSession, Joined, castVars
    <3>1. t \in sessions[Side(t)] /\ Joined(t) /\ ~connected[t]
      BY <2>5, <1>b DEF ReleaseSession
    <3>2. closing' = [closing EXCEPT ![t] = "released"]
      BY <2>5, <3>1 DEF ReleaseSession
    <3>3. CASE s = t
      <4>1. s \notin sessions'[Side(s)] /\ closing'[s] = "released"
        BY <2>5, <3>2, <3>3, <1>a, <1>c DEF ReleaseSession
      <4>. QED
        BY <4>1, <3>1, <3>3, <1>b
    <3>4. CASE s # t
      <4>1. (s \in sessions'[Side(s)] <=> s \in sessions[Side(s)]) /\ closing'[s] = closing[s]
        BY <2>5, <3>2, <3>4, <1>a, <1>c DEF ReleaseSession
      <4>. QED
        BY <4>1, <1>b
    <3>. QED
      BY <3>3, <3>4
  <2>. QED
    BY <1>5, <2>1, <2>2, <2>3, <2>4, <2>5 DEF Dispatch
<1>6. ASSUME NEW c \in Clients, Send(c) \/ ProcessSend(c) PROVE Lives'
  <2>1. /\ CallEffect(c) /\ UNCHANGED <<step, reading, sessions>> /\ c \in todo \cup sending
        /\ sending' \subseteq sending \cup {c}
    BY <1>6, <1>a, SendEffect DEF setVars
  <2>2. c \in Sessions /\ Joined(c)
    BY <2>1, <1>a, <1>b, TwoSides DEF TypeOK
  <2>. QED
    BY <2>1, <2>2, <1>4 DEF Joined
<1>7. CASE Broadcast \/ \E c \in Clients : Break(c)
  BY <1>7, <1>b, <1>d DEF Broadcast, Break, setVars, castVars, Lives, Joined
<1>. QED
  BY <1>2, <1>3, <1>5, <1>6, <1>7 DEF Next, Work

-----------------------------------------------------------------------------
\* What a step does to the connections and to the accept events, in brief.
LEMMA LinksMove ==
  ASSUME ServiceInv, Next
  PROVE  \/ \E c \in Clients : Dial(c) \/ Break(c)
         \/ \E a \in Accepts : Listen(a)
         \/ /\ UNCHANGED <<link, peer, backlog, event, held, made>>
            /\ \A s \in Sessions : step[s] = "new" => step'[s] = "new"
            /\ \A s \in Sessions : step'[s] = "new" => step[s] = "new"
<1>a. TypeOK /\ step \in [Sessions -> {"new", "connect", "add", "recv", "done"}]
  BY DEF ServiceInv, Shape, TypeOK
<1>1. CASE \E c \in Clients : Dial(c) \/ Break(c)
  BY <1>1
<1>2. CASE \E a \in Accepts : Listen(a)
  BY <1>2
<1>3. ASSUME NEW s \in Sessions, Dispatch(s)
      PROVE  /\ UNCHANGED <<link, peer, backlog, event, held, made>>
             /\ \A u \in Sessions : step[u] = "new" => step'[u] = "new"
             /\ \A u \in Sessions : step'[u] = "new" => step[u] = "new"
  <2>1. CASE ProcessConnect(s) \/ AddSession(s)
    BY <1>a, <2>1 DEF ProcessConnect, AddSession, linkVars, acceptVars
  <2>2. CASE RegisterRecv(s)
    <3>1. link' = link
      BY <1>a, <2>2, PostRecvEffect DEF RegisterRecv, CallEffect
    <3>. QED
      BY <1>a, <2>2, <3>1 DEF RegisterRecv, acceptVars
  <2>3. CASE RecvData(s) \/ RecvZero(s)
    <3>1. link' = link
      BY <1>a, <2>3, PostRecvEffect, DisconnectEffect DEF RecvData, RecvZero, CallEffect
    <3>. QED
      BY <1>a, <2>3, <3>1 DEF RecvData, RecvZero, acceptVars
  <2>4. CASE ReleaseSession(s)
    BY <1>a, <2>4 DEF ReleaseSession, linkVars, acceptVars
  <2>. QED
    BY <1>3, <2>1, <2>2, <2>3, <2>4 DEF Dispatch
<1>4. ASSUME NEW c \in Clients, Send(c) \/ ProcessSend(c)
      PROVE  UNCHANGED <<link, peer, backlog, event, held, made, step>>
  BY <1>4, <1>a, SendEffect DEF CallEffect, acceptVars
<1>5. CASE Broadcast
  BY <1>5 DEF Broadcast, linkVars, acceptVars
<1>. QED
  BY <1>1, <1>2, <1>3, <1>4, <1>5 DEF Next, Work

\* A connection is dialled once and accepted once.
LEMMA DialsStep ==
  ASSUME ServiceInv, Next
  PROVE  Dials'
<1>a. /\ link \in [Clients -> {"none", "refused", "up", "gone"}]
      /\ step \in [Sessions -> {"new", "connect", "add", "recv", "done"}]
      /\ peer \in [Clients -> Served \cup {0}] /\ backlog \in Seq(Clients)
      /\ held \in [Accepts -> Served]
  BY DEF ServiceInv, Shape, TypeOK
<1>b. /\ \A c \in Clients : link[c] = "none" => step[c] = "new"
      /\ \A c \in Clients : peer[c] # 0 => link[c] \in {"up", "gone"}
      /\ \A i \in 1..Len(backlog) : peer[backlog[i]] = 0 /\ link[backlog[i]] \in {"up", "gone"}
      /\ \A i, j \in 1..Len(backlog) : backlog[i] = backlog[j] => i = j
  BY DEF ServiceInv, Dials
<1>1. ASSUME NEW c \in Clients, Dial(c) PROVE Dials'
  <2>1. /\ link[c] = "none" /\ peer' = peer /\ step' = [step EXCEPT ![c] = "connect"]
        /\ peer[c] = 0 /\ \A i \in 1..Len(backlog) : backlog[i] # c /\ backlog[i] \in Clients
    BY <1>1, <1>a, <1>b DEF Dial
  <2>2. CASE link' = [link EXCEPT ![c] = "refused"] /\ UNCHANGED backlog
    BY <2>1, <2>2, <1>a, <1>b, TwoSides DEF Dials
  <2>3. CASE link' = [link EXCEPT ![c] = "up"] /\ backlog' = Append(backlog, c)
    <3>1. /\ Len(backlog') = Len(backlog) + 1 /\ backlog'[Len(backlog) + 1] = c
          /\ \A i \in 1..Len(backlog) : backlog'[i] = backlog[i]
      BY <2>3, <1>a, AppendProperties
    <3>2. \A d \in Clients : (link'[d] = "none" => step'[d] = "new")
                             /\ (peer'[d] # 0 => link'[d] \in {"up", "gone"})
      BY <2>1, <2>3, <1>a, <1>b, TwoSides
    <3>3. \A i \in 1..Len(backlog') : i = Len(backlog) + 1 \/ i \in 1..Len(backlog)
      BY <3>1, <1>a
    <3>4. \A i \in 1..Len(backlog') :
            peer'[backlog'[i]] = 0 /\ link'[backlog'[i]] \in {"up", "gone"}
      BY <2>1, <2>3, <3>1, <3>3, <1>a, <1>b
    <3>5. \A i, j \in 1..Len(backlog') : backlog'[i] = backlog'[j] => i = j
      BY <2>1, <3>1, <3>3, <1>b
    <3>. QED
      BY <3>2, <3>4, <3>5 DEF Dials
  <2>. QED
    BY <1>1, <2>2, <2>3 DEF Dial
<1>2. ASSUME NEW c \in Clients, Break(c) PROVE Dials'
  <2>1. /\ link' = [link EXCEPT ![c] = "gone"] /\ link[c] = "up"
        /\ UNCHANGED <<step, peer, backlog>>
    BY <1>2 DEF Break
  <2>2. \A i \in 1..Len(backlog) : backlog[i] \in Clients
    BY <1>a
  <2>. QED
    BY <2>1, <2>2, <1>a, <1>b DEF Dials
<1>3. ASSUME NEW a \in Accepts, Accepted(a) PROVE Dials'
  <2>1. /\ backlog # <<>> /\ backlog' = Tail(backlog)
        /\ peer' = [peer EXCEPT ![Head(backlog)] = held[a]]
        /\ UNCHANGED <<link, step>>
    BY <1>3 DEF Accepted
  <2>2. /\ Len(backlog') = Len(backlog) - 1 /\ Len(backlog) \in Nat /\ Len(backlog) >= 1
        /\ \A i \in 1..Len(backlog') : backlog'[i] = backlog[i + 1]
        /\ Head(backlog) = backlog[1] /\ backlog[1] \in Clients
    BY <2>1, <1>a, HeadTailProperties
  <2>3. \A i \in 1..Len(backlog') :
          i + 1 \in 1..Len(backlog) /\ i + 1 # 1 /\ 1 \in 1..Len(backlog)
    BY <2>2
  <2>4. \A i \in 1..Len(backlog') : backlog'[i] # backlog[1]
    BY <2>2, <2>3, <1>b
  <2>5. \A i \in 1..Len(backlog') :
          peer'[backlog'[i]] = 0 /\ link'[backlog'[i]] \in {"up", "gone"}
    <3>1. \A i \in 1..Len(backlog') : peer'[backlog'[i]] = peer[backlog'[i]]
      BY <2>1, <2>2, <2>4, <1>a
    <3>. QED
      BY <2>1, <2>2, <2>3, <3>1, <1>b
  <2>6. \A i, j \in 1..Len(backlog') : backlog'[i] = backlog'[j] => i = j
    <3>. SUFFICES ASSUME NEW i \in 1..Len(backlog'), NEW j \in 1..Len(backlog'),
                         backlog'[i] = backlog'[j]
                  PROVE  i = j
      OBVIOUS
    <3>1. i + 1 = j + 1
      BY <2>2, <2>3, <1>b
    <3>. QED
      BY <3>1
  <2>7. \A d \in Clients : peer'[d] # 0 => link[d] \in {"up", "gone"}
    <3>1. link[backlog[1]] \in {"up", "gone"}
      BY <2>2, <1>b
    <3>. QED
      BY <2>1, <2>2, <3>1, <1>a, <1>b
  <2>. QED
    BY <2>1, <2>5, <2>6, <2>7, <1>b DEF Dials
<1>4. ASSUME NEW a \in Accepts, ProcessAccept(a) \/ RegisterAccept(a) PROVE Dials'
  <2>1. UNCHANGED <<link, peer, backlog>>
    BY <1>4 DEF ProcessAccept, RegisterAccept, linkVars
  <2>2. \A c \in Clients : step'[c] = step[c]
    BY <1>4, <1>a, TwoSides DEF ProcessAccept, RegisterAccept
  <2>. QED
    BY <2>1, <2>2, <1>b DEF Dials
<1>5. CASE /\ UNCHANGED <<link, peer, backlog>>
           /\ \A s \in Sessions : step[s] = "new" => step'[s] = "new"
  BY <1>5, <1>b, TwoSides DEF Dials
<1>. QED
  BY <1>1, <1>2, <1>3, <1>4, <1>5, LinksMove DEF Listen

\* No two events have the same session, and none has one that was used before.
LEMMA AcceptingStep ==
  ASSUME ServiceInv, Next
  PROVE  Accepting'
<1>a. /\ step \in [Sessions -> {"new", "connect", "add", "recv", "done"}]
      /\ event \in [Accepts -> {"posted", "accepted", "processing"}]
      /\ held \in [Accepts -> Served] /\ made \in Served /\ Served \subseteq Nat
  BY TwoSides DEF ServiceInv, Shape, TypeOK
<1>b. /\ \A a \in Accepts : held[a] <= made
      /\ \A a, b \in Accepts : held[a] = held[b] => a = b
      /\ \A a \in Accepts : event[a] \in {"posted", "accepted"} => step[held[a]] = "new"
      /\ \A s \in Served : s > made => step[s] = "new"
  BY DEF ServiceInv, Accepting
<1>1. ASSUME NEW c \in Clients, Dial(c) \/ Break(c) PROVE Accepting'
  <2>1. UNCHANGED <<event, held, made>> /\ \A s \in Served : step'[s] = step[s]
    BY <1>1, <1>a, TwoSides DEF Dial, Break, acceptVars
  <2>. QED
    BY <2>1, <1>a, <1>b DEF Accepting
<1>2. ASSUME NEW a \in Accepts, Accepted(a) PROVE Accepting'
  BY <1>2, <1>a, <1>b DEF Accepted, Accepting
<1>3. ASSUME NEW a \in Accepts, ProcessAccept(a) PROVE Accepting'
  <2>1. /\ UNCHANGED <<held, made>> /\ event' = [event EXCEPT ![a] = "processing"]
        /\ step' = [step EXCEPT ![held[a]] = "connect"] \/ UNCHANGED step
    BY <1>3 DEF ProcessAccept
  <2>2. \A s \in Served : s # held[a] => step'[s] = step[s]
    BY <2>1, <1>a, TwoSides
  <2>3. \A s \in Served : s > made' => step'[s] = "new"
    BY <2>1, <2>2, <1>a, <1>b
  <2>4. \A b \in Accepts : event'[b] \in {"posted", "accepted"} => step'[held[b]] = "new"
    <3>. SUFFICES ASSUME NEW b \in Accepts, event'[b] \in {"posted", "accepted"}
                  PROVE  step'[held[b]] = "new"
      OBVIOUS
    <3>1. b # a /\ event[b] \in {"posted", "accepted"}
      BY <2>1, <1>a
    <3>2. held[b] # held[a] /\ held[b] \in Served
      BY <3>1, <1>a, <1>b
    <3>. QED
      BY <2>2, <3>1, <3>2, <1>b
  <2>. QED
    BY <2>1, <2>3, <2>4, <1>b DEF Accepting
<1>4. ASSUME NEW a \in Accepts, RegisterAccept(a) PROVE Accepting'
  <2>1. /\ made' = made + 1 /\ held' = [held EXCEPT ![a] = made + 1] /\ UNCHANGED step
        /\ event' = [event EXCEPT ![a] = "posted"] \/ UNCHANGED event
        /\ event[a] = "processing" /\ made + 1 \in Served
    BY <1>4, <1>a, ServiceAssumption DEF RegisterAccept, Served, ServiceAssumption
  <2>2. \A b \in Accepts : held'[b] <= made'
    <3>1. \A b \in Accepts : held[b] \in Nat /\ made \in Nat /\ held[b] <= made
      BY <1>a, <1>b
    <3>2. \A b \in Accepts : held'[b] = IF b = a THEN made + 1 ELSE held[b]
      BY <2>1, <1>a
    <3>. QED
      BY <2>1, <3>1, <3>2
  <2>3. \A b, d \in Accepts : held'[b] = held'[d] => b = d
    BY <2>1, <1>a, <1>b
  <2>4. \A b \in Accepts : event'[b] \in {"posted", "accepted"} => step'[held'[b]] = "new"
    BY <2>1, <1>a, <1>b
  <2>5. \A s \in Served : s > made' => step'[s] = "new"
    BY <2>1, <1>a, <1>b
  <2>. QED
    BY <2>2, <2>3, <2>4, <2>5 DEF Accepting
<1>5. CASE /\ UNCHANGED <<event, held, made>>
           /\ \A s \in Sessions : step[s] = "new" => step'[s] = "new"
  BY <1>5, <1>a, <1>b, TwoSides DEF Accepting
<1>. QED
  BY <1>1, <1>2, <1>3, <1>4, <1>5, LinksMove DEF Listen

\* The session an event gives to a connection belongs to nobody else.
LEMMA PairedStep ==
  ASSUME ServiceInv, Next
  PROVE  Paired'
<1>a. /\ step \in [Sessions -> {"new", "connect", "add", "recv", "done"}]
      /\ event \in [Accepts -> {"posted", "accepted", "processing"}]
      /\ held \in [Accepts -> Served] /\ made \in Served /\ Served \subseteq Nat
      /\ peer \in [Clients -> Served \cup {0}] /\ backlog \in Seq(Clients)
      /\ Served \subseteq Sessions /\ Clients \subseteq Sessions /\ Clients \cap Served = {}
      /\ 0 \notin Served
  BY TwoSides DEF ServiceInv, Shape, TypeOK
<1>b. /\ \A c \in Clients : peer[c] <= made
      /\ \A c, d \in Clients : c # d /\ peer[c] = peer[d] => peer[c] = 0
      /\ \A a \in Accepts : event[a] = "posted" => \A c \in Clients : peer[c] # held[a]
      /\ \A a \in Accepts : event[a] = "accepted" => \E c \in Clients : peer[c] = held[a]
      /\ \A s \in Served : step[s] # "new" => \E c \in Clients : peer[c] = s
  BY DEF ServiceInv, Paired
<1>c. /\ \A a \in Accepts : held[a] <= made
      /\ \A a, b \in Accepts : held[a] = held[b] => a = b
      /\ \A a \in Accepts : event[a] \in {"posted", "accepted"} => step[held[a]] = "new"
  BY DEF ServiceInv, Accepting
<1>1. ASSUME NEW c \in Clients, Dial(c) \/ Break(c) PROVE Paired'
  <2>1. UNCHANGED <<peer, event, held, made>> /\ \A s \in Served : step'[s] = step[s]
    BY <1>1, <1>a DEF Dial, Break, acceptVars
  <2>. QED
    BY <2>1, <1>b DEF Paired
<1>2. ASSUME NEW a \in Accepts, Accepted(a) PROVE Paired'
  <2>. DEFINE h == Head(backlog)
  <2>1. /\ h \in Clients /\ peer' = [peer EXCEPT ![h] = held[a]]
        /\ event[a] = "posted" /\ event' = [event EXCEPT ![a] = "accepted"]
        /\ UNCHANGED <<held, made, step>>
    BY <1>2, <1>a, HeadTailProperties DEF Accepted
  <2>2. peer[h] = 0
    <3>1. backlog # <<>> /\ h = backlog[1] /\ 1 \in 1..Len(backlog)
      BY <1>2, <1>a DEF Accepted
    <3>. QED
      BY <3>1 DEF ServiceInv, Dials
  <2>. HIDE DEF h
  <2>3. \A c \in Clients : peer'[c] = IF c = h THEN held[a] ELSE peer[c]
    BY <2>1, <1>a
  <2>4. \A c \in Clients : peer'[c] <= made'
    BY <2>1, <2>3, <1>b, <1>c
  <2>5. \A c, d \in Clients : c # d /\ peer'[c] = peer'[d] => peer'[c] = 0
    BY <2>1, <2>3, <1>b
  <2>6. \A b \in Accepts : event'[b] = "posted" => \A c \in Clients : peer'[c] # held'[b]
    <3>. SUFFICES ASSUME NEW b \in Accepts, event'[b] = "posted", NEW c \in Clients
                  PROVE  peer'[c] # held[b]
      BY <2>1
    <3>1. b # a /\ event[b] = "posted"
      BY <2>1, <1>a
    <3>2. held[b] # held[a] /\ peer[c] # held[b]
      BY <3>1, <1>b, <1>c
    <3>. QED
      BY <2>3, <3>2
  <2>7. \A b \in Accepts : event'[b] = "accepted" => \E c \in Clients : peer'[c] = held'[b]
    <3>. SUFFICES ASSUME NEW b \in Accepts, event'[b] = "accepted"
                  PROVE  \E c \in Clients : peer'[c] = held[b]
      BY <2>1
    <3>1. CASE b = a
      BY <2>1, <2>3, <3>1
    <3>2. CASE b # a
      <4>1. event[b] = "accepted"
        BY <2>1, <3>2, <1>a
      <4>2. PICK c \in Clients : peer[c] = held[b]
        BY <4>1, <1>b
      <4>3. c # h
        BY <4>2, <2>2, <1>a
      <4>. QED
        BY <2>3, <4>2, <4>3
    <3>. QED
      BY <3>1, <3>2
  <2>8. \A s \in Served : step'[s] # "new" => \E c \in Clients : peer'[c] = s
    <3>. SUFFICES ASSUME NEW s \in Served, step[s] # "new"
                  PROVE  \E c \in Clients : peer'[c] = s
      BY <2>1
    <3>1. PICK c \in Clients : peer[c] = s
      BY <1>b
    <3>2. c # h
      BY <3>1, <2>2, <1>a
    <3>. QED
      BY <2>3, <3>1, <3>2
  <2>. QED
    BY <2>4, <2>5, <2>6, <2>7, <2>8 DEF Paired
<1>3. ASSUME NEW a \in Accepts, ProcessAccept(a) PROVE Paired'
  <2>1. /\ UNCHANGED <<peer, held, made>> /\ event' = [event EXCEPT ![a] = "processing"]
        /\ event[a] = "accepted"
        /\ step' = [step EXCEPT ![held[a]] = "connect"] \/ UNCHANGED step
    BY <1>3 DEF ProcessAccept, linkVars
  <2>2. \A s \in Served : s # held[a] => step'[s] = step[s]
    BY <2>1, <1>a
  <2>3. \A s \in Served : step'[s] # "new" => \E c \in Clients : peer'[c] = s
    BY <2>1, <2>2, <1>b
  <2>4. \A b \in Accepts : event'[b] \in {"posted", "accepted"} => event'[b] = event[b]
    BY <2>1, <1>a
  <2>. QED
    BY <2>1, <2>3, <2>4, <1>b DEF Paired
<1>4. ASSUME NEW a \in Accepts, RegisterAccept(a) PROVE Paired'
  <2>1. /\ made' = made + 1 /\ held' = [held EXCEPT ![a] = made + 1]
        /\ UNCHANGED <<peer, step>>
        /\ event' = [event EXCEPT ![a] = "posted"] \/ UNCHANGED event
        /\ event[a] = "processing"
    BY <1>4 DEF RegisterAccept, linkVars
  <2>2. \A c \in Clients : peer[c] \in Nat /\ peer[c] <= made /\ made \in Nat
    <3>1. Served \cup {0} \subseteq Nat
      BY <1>a
    <3>. QED
      BY <3>1, <1>a, <1>b
  <2>3. \A c \in Clients : peer'[c] <= made' /\ peer[c] # made + 1
    BY <2>1, <2>2
  <2>4. \A b \in Accepts : b # a => event'[b] = event[b] /\ held'[b] = held[b]
    BY <2>1, <1>a
  <2>5. held'[a] = made + 1 /\ event'[a] # "accepted"
    BY <2>1, <1>a
  <2>. QED
    BY <2>1, <2>3, <2>4, <2>5, <1>b DEF Paired
<1>5. CASE /\ UNCHANGED <<link, peer, backlog, event, held, made>>
           /\ \A s \in Sessions : step'[s] = "new" => step[s] = "new"
           /\ \A s \in Sessions : step[s] = "new" => step'[s] = "new"
  BY <1>5, <1>a, <1>b DEF Paired
<1>. QED
  BY <1>1, <1>2, <1>3, <1>4, <1>5, LinksMove DEF Listen

-----------------------------------------------------------------------------
\* The sets and their counts.
LEMMA CountsStep ==
  ASSUME ServiceInv, Next
  PROVE  /\ sessions' \in [Sides -> SUBSET Sessions]
         /\ count' \in [Sides -> Nat]
         /\ \A side \in Sides :
              IsFiniteSet(sessions'[side]) /\ count'[side] = Cardinality(sessions'[side])
         /\ sessions'["client"] \subseteq Clients /\ sessions'["server"] \subseteq Served
         /\ sessions' = sessions
            \/ (\E s \in Sessions : AddSession(s) \/ ReleaseSession(s))
<1>a. /\ sessions \in [Sides -> SUBSET Sessions]
      /\ count \in [Sides -> Nat]
      /\ \A side \in Sides :
           IsFiniteSet(sessions[side]) /\ count[side] = Cardinality(sessions[side])
      /\ sessions["client"] \subseteq Clients /\ sessions["server"] \subseteq Served
      /\ "client" \in Sides /\ "server" \in Sides
  BY DEF ServiceInv, Shape, TypeOK, Sides
<1>b. \A s \in Sessions : /\ Side(s) \in Sides
                          /\ Side(s) = "client" => s \in Clients
                          /\ Side(s) = "server" => s \in Served
  BY TwoSides
<1>1. CASE UNCHANGED <<sessions, count>>
  BY <1>1, <1>a
<1>2. ASSUME NEW s \in Sessions, AddSession(s) PROVE
         /\ sessions' \in [Sides -> SUBSET Sessions]
         /\ count' \in [Sides -> Nat]
         /\ \A side \in Sides :
              IsFiniteSet(sessions'[side]) /\ count'[side] = Cardinality(sessions'[side])
         /\ sessions'["client"] \subseteq Clients /\ sessions'["server"] \subseteq Served
  <2>1. /\ sessions' = [sessions EXCEPT ![Side(s)] = @ \cup {s}]
        /\ count' = [count EXCEPT ![Side(s)] = @ + 1]
        /\ s \notin sessions[Side(s)]
    BY <1>2 DEF AddSession, ServiceInv, Lives, Joined
  <2>2. ASSUME NEW side \in Sides
        PROVE  IsFiniteSet(sessions'[side]) /\ count'[side] = Cardinality(sessions'[side])
    <3>1. CASE side = Side(s)
      <4>1. sessions'[side] = sessions[side] \cup {s} /\ count'[side] = count[side] + 1
        BY <2>1, <3>1, <1>a, <1>b
      <4>. QED
        BY <4>1, <2>1, <3>1, <1>a, FS_AddElement
    <3>2. CASE side # Side(s)
      BY <2>1, <3>2, <1>a, <1>b
    <3>. QED
      BY <3>1, <3>2
  <2>3. sessions' \in [Sides -> SUBSET Sessions] /\ count' \in [Sides -> Nat]
    BY <2>1, <1>a, <1>b
  <2>4. sessions'["client"] \subseteq Clients /\ sessions'["server"] \subseteq Served
    BY <2>1, <1>a, <1>b
  <2>. QED
    BY <2>2, <2>3, <2>4
<1>3. ASSUME NEW s \in Sessions, ReleaseSession(s) PROVE
         /\ sessions' \in [Sides -> SUBSET Sessions]
         /\ count' \in [Sides -> Nat]
         /\ \A side \in Sides :
              IsFiniteSet(sessions'[side]) /\ count'[side] = Cardinality(sessions'[side])
         /\ sessions'["client"] \subseteq Clients /\ sessions'["server"] \subseteq Served
  <2>1. /\ sessions' = [sessions EXCEPT ![Side(s)] = @ \ {s}]
        /\ count' = [count EXCEPT ![Side(s)] = @ - 1]
        /\ s \in sessions[Side(s)]
    BY <1>3 DEF ReleaseSession, ServiceInv, Lives
  <2>2. ASSUME NEW side \in Sides
        PROVE  /\ IsFiniteSet(sessions'[side]) /\ count'[side] = Cardinality(sessions'[side])
               /\ count'[side] \in Nat
    <3>1. CASE side = Side(s)
      <4>1. sessions'[side] = sessions[side] \ {s} /\ count'[side] = count[side] - 1
        BY <2>1, <3>1, <1>a, <1>b
      <4>2. IsFiniteSet(sessions'[side]) /\ count'[side] = Cardinality(sessions'[side])
        BY <4>1, <2>1, <3>1, <1>a, FS_RemoveElement
      <4>. QED
        BY <4>2, FS_CardinalityType
    <3>2. CASE side # Side(s)
      BY <2>1, <3>2, <1>a, <1>b
    <3>. QED
      BY <3>1, <3>2
  <2>3. sessions' \in [Sides -> SUBSET Sessions] /\ count' \in [Sides -> Nat]
    <3>1. count' \in [Sides -> Int]
      BY <2>1, <1>a, <1>b
    <3>. QED
      BY <2>1, <2>2, <3>1, <1>a, <1>b
  <2>4. sessions'["client"] \subseteq Clients /\ sessions'["server"] \subseteq Served
    BY <2>1, <1>a, <1>b
  <2>. QED
    BY <2>2, <2>3, <2>4
<1>4. \/ UNCHANGED <<sessions, count>>
      \/ \E s \in Sessions : AddSession(s) \/ ReleaseSession(s)
  <2>1. ASSUME NEW c \in Clients, Dial(c) \/ Break(c) \/ Send(c) \/ ProcessSend(c)
        PROVE  UNCHANGED <<sessions, count>>
    BY <2>1 DEF Dial, Break, Send, ProcessSend, setVars
  <2>2. ASSUME NEW a \in Accepts, Listen(a) PROVE UNCHANGED <<sessions, count>>
    BY <2>2 DEF Listen, Accepted, ProcessAccept, RegisterAccept, setVars
  <2>3. ASSUME NEW s \in Sessions,
               ProcessConnect(s) \/ RegisterRecv(s) \/ RecvData(s) \/ RecvZero(s)
        PROVE  UNCHANGED <<sessions, count>>
    BY <2>3 DEF ProcessConnect, RegisterRecv, RecvData, RecvZero, setVars
  <2>4. CASE Broadcast
    BY <2>4 DEF Broadcast, setVars
  <2>. QED
    BY <2>1, <2>2, <2>3, <2>4 DEF Next, Work, Dispatch
<1>. QED
  BY <1>1, <1>2, <1>3, <1>4

\* The kernel, the listener, and the sessions: the shape of what each changes.
LEMMA ShapeStep ==
  ASSUME ServiceInv, Next
  PROVE  Shape'
<1>. USE DEF ServiceInv, Shape
<1>a. TypeOK /\ MaxFaults \in Nat /\ MaxRounds \in Nat /\ MaxServed \in Nat
  BY ServiceAssumption DEF ServiceAssumption
<1>. DEFINE Links == /\ link' \in [Clients -> {"none", "refused", "up", "gone"}]
                     /\ peer' \in [Clients -> Served \cup {0}] /\ backlog' \in Seq(Clients)
            Events == /\ event' \in [Accepts -> {"posted", "accepted", "processing"}]
                      /\ held' \in [Accepts -> Served] /\ made' \in Served
            Lifes == /\ step' \in [Sessions -> {"new", "connect", "add", "recv", "done"}]
                     /\ connected' \in [Sessions -> BOOLEAN] /\ reading' \subseteq Sessions
                     /\ deaf' \subseteq Sessions
                     /\ closing' \in [Sessions -> {"no", "posted", "refused", "released"}]
                     /\ faults' \in 0..MaxFaults
            Casts == /\ round' \in 0..MaxRounds /\ todo' \subseteq sessions'["client"]
                     /\ queued' \in [Clients -> Seq(1..round')] /\ sending' \subseteq Clients
                     /\ heard' \in [Clients -> Seq(1..round')]
                     /\ dropped' \in [Clients -> SUBSET (1..round')]
                     /\ since' \in [Clients -> 0..round']
                     /\ todo' # {} => round' > 0
<1>1. CASE Broadcast
  <2>1. UNCHANGED <<linkVars, acceptVars, step, connected, reading, deaf, closing, setVars,
                    queued, sending, heard, dropped, faults>>
    BY <1>1 DEF Broadcast
  <2>2. Links /\ Events /\ Lifes
    BY <2>1, <1>a DEF TypeOK, linkVars, acceptVars
  <2>3. round' = round + 1 /\ round \in 0..MaxRounds /\ round < MaxRounds
        /\ todo' = sessions["client"] /\ since' = since /\ sessions' = sessions
    BY <1>1, <1>a DEF Broadcast, TypeOK, setVars
  <2>4. round' \in 0..MaxRounds /\ 0..round \subseteq 0..round' /\ 1..round \subseteq 1..round'
    BY <2>3, <1>a
  <2>5. \A c \in Clients : heard[c] \in Seq(1..round') /\ queued[c] \in Seq(1..round')
    BY <2>4, <1>a, SeqMonotonic DEF TypeOK
  <2>6. /\ heard' \in [Clients -> Seq(1..round')] /\ queued' \in [Clients -> Seq(1..round')]
        /\ dropped' \in [Clients -> SUBSET (1..round')] /\ sending' \subseteq Clients
        /\ since' \in [Clients -> 0..round']
    BY <2>1, <2>3, <2>4, <2>5, <1>a DEF TypeOK
  <2>7. Casts
    BY <2>3, <2>4, <2>6
  <2>. QED
    BY <2>2, <2>7, CountsStep DEF TypeOK, Sides
<1>2. ASSUME NEW c \in Clients, Dial(c) \/ Break(c) PROVE Shape'
  <2>1. UNCHANGED <<peer, acceptVars, connected, reading, deaf, closing, setVars, castVars, faults>>
        /\ backlog' \in {backlog, Append(backlog, c)}
        /\ step' \in {step, [step EXCEPT ![c] = "connect"]}
        /\ \E v \in {"up", "refused", "gone"} : link' = [link EXCEPT ![c] = v]
    BY <1>2 DEF Dial, Break
  <2>2. Links
    <3>1. Append(backlog, c) \in Seq(Clients)
      BY <1>a, AppendProperties DEF TypeOK
    <3>2. link' \in [Clients -> {"none", "refused", "up", "gone"}]
      BY <2>1, <1>a DEF TypeOK
    <3>. QED
      BY <2>1, <3>1, <3>2, <1>a DEF TypeOK
  <2>3. Events /\ Lifes /\ Casts
    BY <2>1, <1>a, TwoSides DEF TypeOK, acceptVars, setVars, castVars
  <2>. QED
    BY <2>2, <2>3, CountsStep DEF TypeOK, Sides
<1>3. ASSUME NEW a \in Accepts, Listen(a) PROVE Shape'
  <2>1. UNCHANGED <<connected, reading, deaf, closing, setVars, castVars>>
    BY <1>3 DEF Listen, Accepted, ProcessAccept, RegisterAccept
  <2>2. Casts
    BY <2>1, <1>a DEF TypeOK, setVars, castVars
  <2>3. Links /\ Events /\ Lifes
    <3>1. CASE Accepted(a)
      <4>1. Head(backlog) \in Clients /\ Tail(backlog) \in Seq(Clients)
        BY <3>1, <1>a, HeadTailProperties DEF Accepted, TypeOK
      <4>. QED
        BY <3>1, <4>1, <1>a DEF Accepted, TypeOK
    <3>2. CASE ProcessAccept(a)
      <4>1. held[a] \in Sessions
        BY <1>a, TwoSides DEF TypeOK
      <4>. QED
        BY <3>2, <4>1, <1>a DEF ProcessAccept, TypeOK, linkVars
    <3>3. CASE RegisterAccept(a)
      <4>1. /\ UNCHANGED <<linkVars, step, connected, reading, deaf, closing>>
            /\ made' = made + 1 /\ held' = [held EXCEPT ![a] = made + 1]
            /\ event' \in {event, [event EXCEPT ![a] = "posted"]}
            /\ made < MaxServed /\ made \in Served
            /\ faults' = faults \/ (faults < MaxFaults /\ faults' = faults + 1)
        BY <3>3, <1>a DEF RegisterAccept, TypeOK
      <4>2. made' \in Served /\ faults' \in 0..MaxFaults
        BY <4>1, <1>a DEF Served, TypeOK
      <4>3. Events
        BY <4>1, <4>2, <1>a DEF TypeOK
      <4>. QED
        BY <4>1, <4>2, <4>3, <1>a DEF TypeOK, linkVars
    <3>. QED
      BY <1>3, <3>1, <3>2, <3>3 DEF Listen
  <2>. QED
    BY <2>2, <2>3, CountsStep DEF TypeOK, Sides
<1>4. ASSUME NEW s \in Sessions, Dispatch(s) PROVE Shape'
  <2>1. CASE ProcessConnect(s)
    <3>1. Links /\ Events /\ Lifes /\ Casts
      BY <2>1, <1>a DEF ProcessConnect, TypeOK, linkVars, acceptVars, setVars, castVars
    <3>. QED
      BY <3>1, CountsStep DEF TypeOK, Sides
  <2>2. CASE AddSession(s)
    <3>1. Links /\ Events /\ Lifes
      BY <2>2, <1>a DEF AddSession, TypeOK, linkVars, acceptVars
    <3>2. UNCHANGED castVars /\ round \in Nat
          /\ todo \subseteq sessions["client"] /\ sessions["client"] \subseteq sessions'["client"]
      BY <2>2, <1>a DEF AddSession, TypeOK, Sides
    <3>3. since' \in [Clients -> 0..round']
      BY <2>2, <3>2, <1>a DEF AddSession, TypeOK, castVars
    <3>4. Casts
      BY <3>2, <3>3, <1>a DEF TypeOK, castVars
    <3>. QED
      BY <3>1, <3>4, CountsStep DEF TypeOK, Sides
  <2>3. CASE RegisterRecv(s) \/ RecvData(s) \/ RecvZero(s)
    <3>1. UNCHANGED <<peer, backlog, acceptVars, setVars, castVars>>
          /\ step' \in {step, [step EXCEPT ![s] = "done"]}
      BY <2>3 DEF RegisterRecv, RecvData, RecvZero
    <3>2. CallEffect(s) /\ reading' \subseteq reading \cup {s} /\ deaf' \subseteq deaf \cup {s}
      <4>1. CASE PostRecv(s)
        BY <4>1, <1>a, PostRecvEffect
      <4>2. CASE UNCHANGED <<reading, deaf, connected, closing, link, faults>>
        BY <4>2, <1>a, NoCallEffect
      <4>3. CASE RecvZero(s)
        BY <4>3, <1>a, DisconnectEffect DEF RecvZero, CallEffect
      <4>. QED
        BY <2>3, <4>1, <4>2, <4>3 DEF RegisterRecv, RecvData
    <3>3. /\ connected' \in [Sessions -> BOOLEAN]
          /\ closing' \in [Sessions -> {"no", "posted", "refused", "released"}]
          /\ faults' \in 0..MaxFaults /\ link' = link
      BY <3>2, <1>a, CallTypes DEF CallEffect
    <3>4. Links /\ Events /\ Lifes /\ Casts
      BY <3>1, <3>2, <3>3, <1>a DEF TypeOK, acceptVars, setVars, castVars
    <3>. QED
      BY <3>4, CountsStep DEF TypeOK, Sides
  <2>4. CASE ReleaseSession(s)
    <3>1. s \in sessions[Side(s)]
      BY <2>4 DEF ReleaseSession, Lives
    <3>2. Links /\ Events /\ Lifes
      BY <2>4, <3>1, <1>a DEF ReleaseSession, TypeOK, linkVars, acceptVars
    <3>3. todo \subseteq sessions'["client"]
      <4>1. CASE Side(s) = "client"
        BY <2>4, <4>1 DEF ReleaseSession, Locked
      <4>2. CASE Side(s) # "client"
        BY <2>4, <4>2, <1>a DEF ReleaseSession, TypeOK, Sides
      <4>. QED
        BY <4>1, <4>2
    <3>4. Casts
      BY <2>4, <3>3, <1>a DEF ReleaseSession, TypeOK, castVars
    <3>. QED
      BY <3>2, <3>4, CountsStep DEF TypeOK, Sides
  <2>. QED
    BY <1>4, <2>1, <2>2, <2>3, <2>4 DEF Dispatch
<1>5. ASSUME NEW c \in Clients, Send(c) \/ ProcessSend(c) PROVE Shape'
  <2>. c \in Sessions
    BY TwoSides
  <2>1. /\ CallEffect(c)
        /\ UNCHANGED <<peer, backlog, acceptVars, step, reading, deaf, setVars, round>>
        /\ sending' \in {sending, sending \cup {c}, sending \ {c}}
    BY <1>5, <1>a, SendEffect
  <2>2. Links /\ Events /\ Lifes
    BY <2>1, <1>a, CallTypes DEF TypeOK, acceptVars, CallEffect
  <2>3. todo' \in {todo, todo \ {c}}
    BY <1>5 DEF Send, ProcessSend
  <2>4. /\ queued' \in [Clients -> Seq(1..round)] /\ heard' \in [Clients -> Seq(1..round)]
        /\ dropped' \in [Clients -> SUBSET (1..round)]
    <3>1. ASSUME NEW batch \in Seq(1..round), connected[c], RegisterSend(c, batch)
          PROVE  /\ queued' \in [Clients -> Seq(1..round)] /\ heard' \in [Clients -> Seq(1..round)]
                 /\ dropped' \in [Clients -> SUBSET (1..round)]
      <4>1. heard[c] \o batch \in Seq(1..round) /\ Range(batch) \subseteq 1..round
        BY <3>1, <1>a, ConcatProperties DEF TypeOK, Range
      <4>2. queued' \in [Clients -> Seq(1..round)]
        <5>1. queued' = [queued EXCEPT ![c] = <<>>] /\ <<>> \in Seq(1..round)
          BY <3>1, <1>a, RegisterSendEffect, EmptySeq
        <5>. QED
          BY <5>1, <1>a DEF TypeOK
      <4>3. /\ heard' \in {heard, [heard EXCEPT ![c] = @ \o batch]}
            /\ dropped' \in {dropped, [dropped EXCEPT ![c] = @ \cup Range(batch)]}
        BY <3>1, <1>a, RegisterSendEffect
      <4>. QED
        BY <4>1, <4>2, <4>3, <1>a DEF TypeOK
    <3>2. CASE UNCHANGED <<queued, heard, dropped>>
      BY <3>2, <1>a DEF TypeOK
    <3>3. CASE Send(c)
      <4>1. Append(queued[c], round) \in Seq(1..round)
        <5>1. round \in 1..round
          BY <3>3, <1>a DEF Send, TypeOK
        <5>. QED
          BY <5>1, <1>a, AppendProperties DEF TypeOK
      <4>2. CASE queued' = [queued EXCEPT ![c] = Append(@, round)] /\ UNCHANGED <<heard, dropped>>
        BY <4>1, <4>2, <1>a DEF TypeOK
      <4>. QED
        BY <3>1, <3>2, <3>3, <4>1, <4>2 DEF Send, Push
    <3>4. CASE ProcessSend(c)
      <4>1. queued[c] \in Seq(1..round)
        BY <1>a DEF TypeOK
      <4>. QED
        BY <3>1, <3>2, <3>4, <4>1 DEF ProcessSend
    <3>. QED
      BY <1>5, <3>3, <3>4
  <2>5. Casts
    BY <2>1, <2>3, <2>4, <1>a DEF TypeOK, setVars
  <2>. QED
    BY <2>2, <2>5, CountsStep DEF TypeOK, Sides
<1>. QED
  BY <1>1, <1>2, <1>3, <1>4, <1>5 DEF Next, Work

-----------------------------------------------------------------------------
\* Sequences of broadcasts: one behind the other, and a part of one.
LEMMA RangeOfConcat ==
  ASSUME NEW S, NEW s \in Seq(S), NEW u \in Seq(S)
  PROVE  Range(s \o u) = Range(s) \cup Range(u)
<1>1. /\ Len(s \o u) = Len(s) + Len(u) /\ s \o u \in Seq(S) /\ Len(s) \in Nat /\ Len(u) \in Nat
      /\ \A i \in 1..(Len(s) + Len(u)) :
           (s \o u)[i] = IF i <= Len(s) THEN s[i] ELSE u[i - Len(s)]
      /\ DOMAIN s = 1..Len(s) /\ DOMAIN u = 1..Len(u) /\ DOMAIN (s \o u) = 1..Len(s \o u)
  BY ConcatProperties
<1>2. ASSUME NEW i \in 1..Len(s) PROVE (s \o u)[i] = s[i] /\ i \in DOMAIN (s \o u)
  BY <1>1
<1>3. ASSUME NEW i \in 1..Len(u)
      PROVE  (s \o u)[Len(s) + i] = u[i] /\ Len(s) + i \in DOMAIN (s \o u)
  BY <1>1
<1>4. ASSUME NEW i \in DOMAIN (s \o u)
      PROVE  \/ i \in DOMAIN s /\ (s \o u)[i] = s[i]
             \/ i - Len(s) \in DOMAIN u /\ (s \o u)[i] = u[i - Len(s)]
  BY <1>1
<1>. QED
  BY <1>1, <1>2, <1>3, <1>4 DEF Range

\* A batch at the end of an increasing sequence: what is before it is increasing and
\* has nothing of it.
LEMMA IncreasingParts ==
  ASSUME NEW s \in Seq(Nat), NEW u \in Seq(Nat), Increasing(s \o u)
  PROVE  Increasing(s) /\ Range(s) \cap Range(u) = {}
<1>1. /\ Len(s \o u) = Len(s) + Len(u) /\ Len(s) \in Nat /\ Len(u) \in Nat
      /\ \A i \in 1..(Len(s) + Len(u)) :
           (s \o u)[i] = IF i <= Len(s) THEN s[i] ELSE u[i - Len(s)]
      /\ DOMAIN s = 1..Len(s) /\ DOMAIN u = 1..Len(u)
      /\ \A i \in 1..Len(s) : s[i] \in Nat
  BY ConcatProperties
<1>2. \A i \in 1..Len(s) : (s \o u)[i] = s[i] /\ i \in 1..Len(s \o u)
  BY <1>1
<1>3. \A i \in 1..Len(u) : (s \o u)[Len(s) + i] = u[i] /\ Len(s) + i \in 1..Len(s \o u)
  BY <1>1
<1>4. Increasing(s)
  BY <1>2 DEF Increasing
<1>5. ASSUME NEW i \in 1..Len(s), NEW j \in 1..Len(u) PROVE s[i] # u[j]
  <2>1. i < Len(s) + j
    BY <1>1
  <2>2. s[i] < u[j]
    BY <2>1, <1>2, <1>3 DEF Increasing
  <2>. QED
    BY <2>2, <1>1
<1>. QED
  BY <1>1, <1>4, <1>5 DEF Range

\* Something is appended to the end of two sequences, that is, of the second.
LEMMA AppendOfConcat ==
  ASSUME NEW s \in Seq(Nat), NEW u \in Seq(Nat), NEW n \in Nat
  PROVE  s \o Append(u, n) = Append(s \o u, n)
<1>1. s \o u \in Seq(Nat) /\ <<n>> \in Seq(Nat)
  BY ConcatProperties
<1>2. Append(u, n) = u \o <<n>>
  BY AppendIsConcat
<1>3. Append(s \o u, n) = (s \o u) \o <<n>>
  BY <1>1, AppendIsConcat
<1>4. (s \o u) \o <<n>> = s \o (u \o <<n>>)
  BY <1>1, ConcatAssociative
<1>. QED
  BY <1>2, <1>3, <1>4

\* A later broadcast goes behind the earlier ones.
LEMMA IncreasingAppend ==
  ASSUME NEW s \in Seq(Nat), NEW n \in Nat, Increasing(s), \A m \in Range(s) : m < n
  PROVE  Increasing(Append(s, n)) /\ Range(Append(s, n)) = Range(s) \cup {n}
<1>1. /\ Len(Append(s, n)) = Len(s) + 1 /\ Append(s, n)[Len(s) + 1] = n /\ Len(s) \in Nat
      /\ \A i \in 1..Len(s) : Append(s, n)[i] = s[i]
      /\ DOMAIN s = 1..Len(s) /\ DOMAIN Append(s, n) = 1..(Len(s) + 1)
  BY AppendProperties
<1>2. \A i \in 1..(Len(s) + 1) : i \in 1..Len(s) \/ i = Len(s) + 1
  BY <1>1
<1>3. Range(Append(s, n)) = Range(s) \cup {n}
  BY <1>1, <1>2 DEF Range
<1>4. \A i \in 1..Len(s) : s[i] < n
  BY <1>1 DEF Range
<1>5. ASSUME NEW i \in 1..(Len(s) + 1), NEW j \in 1..(Len(s) + 1), i < j
      PROVE  Append(s, n)[i] < Append(s, n)[j]
  <2>1. i \in 1..Len(s)
    BY <1>1, <1>5
  <2>2. CASE j = Len(s) + 1
    BY <2>1, <2>2, <1>1, <1>4
  <2>3. CASE j \in 1..Len(s)
    BY <2>1, <2>3, <1>1, <1>5 DEF Increasing
  <2>. QED
    BY <1>2, <2>2, <2>3
<1>. QED
  BY <1>1, <1>3, <1>5 DEF Increasing

\* Only Send and ProcessSend tell a client anything, only AddSession lets it join.
LEMMA HeardStep ==
  ASSUME ServiceInv, HeardInv, Next
  PROVE  HeardInv'
<1>a. /\ TypeOK /\ round \in Nat /\ todo \subseteq sessions["client"] /\ faults \in Nat
      /\ since \in [Clients -> 0..round]
      /\ queued \in [Clients -> Seq(1..round)] /\ heard \in [Clients -> Seq(1..round)]
      /\ dropped \in [Clients -> SUBSET (1..round)]
      /\ step \in [Sessions -> {"new", "connect", "add", "recv", "done"}]
      /\ connected \in [Sessions -> BOOLEAN]
      /\ link \in [Clients -> {"none", "refused", "up", "gone"}]
      /\ Clients \subseteq Sessions /\ Clients \cap Served = {}
      /\ sessions \in [Sides -> SUBSET Sessions] /\ "client" \in Sides
  <2>1. /\ TypeOK /\ round \in Nat /\ faults \in Nat /\ sessions \in [Sides -> SUBSET Sessions]
    BY ServiceAssumption DEF ServiceInv, Shape, TypeOK, ServiceAssumption
  <2>. QED
    BY <2>1, TwoSides DEF TypeOK, Sides
<1>b. \A c \in Clients :
        /\ Hears(c)
        /\ c \in sessions["client"] => Joined(c)
        /\ link[c] = "none" => ~Joined(c)
  BY <1>a, TwoSides DEF HeardInv, ServiceInv, Lives, Dials, Joined
\* What a step must not do to a client that has joined.
<1>1. ASSUME NEW c \in Clients, round' = round, c \in todo' <=> c \in todo,
             heard'[c] = heard[c], queued'[c] = queued[c], dropped'[c] = dropped[c],
             since'[c] = since[c], c \in sending => c \in sending', faults' >= faults,
             faults' \in Nat, Joined(c)' <=> Joined(c),
             c \in sessions'["client"] => c \in sessions["client"],
             connected'[c] /\ Joined(c) => connected[c],
             link[c] = "refused" => link'[c] = "refused"
      PROVE  Hears(c)'
  <2>1. Hears(c) /\ Told(c)' = Told(c) /\ (c \in sessions["client"] => Joined(c))
    BY <1>1, <1>b DEF Told
  <2>2. faults > 0 => faults' > 0
    BY <1>1, <1>a
  <2>. QED
    BY <1>1, <2>1, <2>2 DEF Hears
<1>2. ASSUME NEW c \in Clients, Dial(c) \/ Break(c) PROVE HeardInv'
  <2>1. UNCHANGED <<castVars, since, sessions, connected, faults>>
    BY <1>2 DEF Dial, Break, setVars
  <2>2. \A d \in Clients : /\ Joined(d)' <=> Joined(d)
                           /\ link[d] = "refused" => link'[d] = "refused"
    BY <1>2, <1>a DEF Dial, Break, Joined, ServiceInv, Dials
  <2>. QED
    BY <2>1, <2>2, <1>1, <1>a DEF HeardInv, castVars
<1>3. ASSUME NEW a \in Accepts, Listen(a) PROVE HeardInv'
  <2>1. /\ UNCHANGED <<castVars, since, sessions, connected, link>>
        /\ faults' \in Nat /\ faults' >= faults
    BY <1>3, <1>a DEF Listen, Accepted, ProcessAccept, RegisterAccept, setVars, linkVars
  <2>2. held[a] \in Served
    BY <1>a DEF TypeOK
  <2>3. \A d \in Clients : step'[d] = step[d]
    BY <1>3, <2>2, <1>a DEF Listen, Accepted, ProcessAccept, RegisterAccept
  <2>. QED
    BY <2>1, <2>3, <1>1 DEF Joined, HeardInv, castVars
<1>4. ASSUME NEW s \in Sessions, Dispatch(s) PROVE HeardInv'
  <2>1. CASE ProcessConnect(s)
    <3>1. UNCHANGED <<castVars, since, sessions, link, faults>>
      BY <2>1 DEF ProcessConnect, setVars, linkVars
    <3>2. \A c \in Clients : (Joined(c)' <=> Joined(c)) /\ (connected'[c] /\ Joined(c) => connected[c])
      BY <2>1, <1>a DEF ProcessConnect, Joined
    <3>. QED
      BY <3>1, <3>2, <1>1, <1>a DEF HeardInv, castVars
  <2>2. CASE AddSession(s)
    <3>1. UNCHANGED <<castVars, connected, link, faults>>
      BY <2>2 DEF AddSession, linkVars
    <3>2. ASSUME NEW c \in Clients, c # s PROVE Hears(c)'
      <4>1. /\ Joined(c)' <=> Joined(c)
            /\ c \in sessions'["client"] => c \in sessions["client"]
            /\ since'[c] = since[c]
        BY <2>2, <3>2, <1>a DEF AddSession, Joined, Sides, Side
      <4>. QED
        BY <3>1, <4>1, <1>1, <1>a DEF castVars
    <3>3. ASSUME s \in Clients PROVE Hears(s)'
      <4>1. /\ heard[s] = <<>> /\ queued[s] = <<>> /\ dropped[s] = {}
            /\ since'[s] = round /\ todo = {} /\ Joined(s)'
        BY <2>2, <3>3, <1>a, <1>b DEF AddSession, Joined, Locked, Side, Hears
      <4>2. Told(s)' = <<>>
        <5>1. <<>> \o <<>> = <<>>
          BY EmptySeq, ConcatEmptySeq
        <5>. QED
          BY <3>1, <4>1, <5>1 DEF Told, castVars
      <4>3. Range(<<>>) = {} /\ Increasing(<<>>) /\ (round + 1)..round = {}
        <5>1. Len(<<>>) = 0 /\ DOMAIN <<>> = {}
          OBVIOUS
        <5>. QED
          BY <5>1, <1>a DEF Range, Increasing
      <4>4. s \notin todo' /\ round' = round /\ dropped'[s] = {} /\ queued'[s] = <<>>
        BY <3>1, <4>1 DEF castVars
      <4>. QED
        BY <4>1, <4>2, <4>3, <4>4 DEF Hears
    <3>. QED
      BY <3>2, <3>3 DEF HeardInv
  <2>3. CASE RegisterRecv(s) \/ RecvData(s) \/ RecvZero(s)
    <3>1. UNCHANGED <<castVars, since, sessions>>
      BY <2>3 DEF RegisterRecv, RecvData, RecvZero, setVars
    <3>2. \A c \in Clients : Joined(c)' <=> Joined(c)
      BY <2>3, <1>a DEF RegisterRecv, RecvData, RecvZero, Joined
    <3>3. CallEffect(s)
      <4>1. CASE PostRecv(s)
        BY <4>1, <1>a, PostRecvEffect
      <4>2. CASE UNCHANGED <<connected, closing, link, faults>>
        BY <4>2, <1>a, NoCallEffect
      <4>3. CASE RecvZero(s)
        BY <4>3, <1>a, DisconnectEffect DEF RecvZero, CallEffect
      <4>. QED
        BY <2>3, <4>1, <4>2, <4>3 DEF RegisterRecv, RecvData
    <3>4. /\ link' = link /\ faults' \in Nat /\ faults' >= faults
          /\ \A c \in Clients : connected'[c] => connected[c]
      BY <3>3, <1>a, CallTypes, ServiceAssumption DEF CallEffect, ServiceAssumption
    <3>. QED
      BY <3>1, <3>2, <3>4, <1>1 DEF HeardInv, castVars
  <2>4. CASE ReleaseSession(s)
    <3>1. UNCHANGED <<castVars, since, connected, link, step, faults>>
      BY <2>4 DEF ReleaseSession, linkVars
    <3>2. sessions'["client"] \subseteq sessions["client"]
      BY <2>4, <1>a DEF ReleaseSession
    <3>. QED
      BY <3>1, <3>2, <1>1, <1>a DEF Joined, HeardInv, castVars
  <2>. QED
    BY <1>4, <2>1, <2>2, <2>3, <2>4 DEF Dispatch
\* A new broadcast is one behind for everybody in the set.
<1>5. CASE Broadcast
  <2>1. /\ UNCHANGED <<queued, sending, heard, dropped, since, sessions, connected, link, step, faults>>
        /\ todo = {} /\ todo' = sessions["client"] /\ round' = round + 1
    BY <1>5 DEF Broadcast, setVars, linkVars
  <2>2. (round + 1) - 1 = round
    BY <1>a
  <2>. QED
    BY <2>1, <2>2, <1>a, <1>b DEF HeardInv, Hears, Told, Joined
<1>6. ASSUME NEW c \in Clients, Send(c) \/ ProcessSend(c) PROVE HeardInv'
  <2>1. /\ CallEffect(c) /\ UNCHANGED <<since, sessions, round, step>>
        /\ link' = link /\ faults' \in Nat /\ faults' >= faults
        /\ \A d \in Clients : connected'[d] => connected[d]
        /\ sending' \in {sending, sending \cup {c}, sending \ {c}}
        /\ \A d \in Clients : Joined(d)' <=> Joined(d)
    <3>1. /\ CallEffect(c) /\ UNCHANGED <<since, sessions, round, step>>
          /\ sending' \in {sending, sending \cup {c}, sending \ {c}}
      BY <1>6, <1>a, SendEffect DEF setVars
    <3>2. /\ link' = link /\ faults' \in Nat /\ faults' >= faults
          /\ \A d \in Clients : connected'[d] => connected[d]
      BY <3>1, <1>a, CallTypes, ServiceAssumption DEF CallEffect, ServiceAssumption
    <3>. QED
      BY <3>1, <3>2 DEF Joined
  <2>2. ASSUME NEW d \in Clients, d # c PROVE Hears(d)'
    <3>1. /\ heard'[d] = heard[d] /\ queued'[d] = queued[d] /\ dropped'[d] = dropped[d]
          /\ d \in todo' <=> d \in todo
      BY <1>6, <2>2, <1>a DEF Send, Push, ProcessSend, RegisterSend
    <3>. QED
      BY <2>1, <2>2, <3>1, <1>1
  <2>3. Hears(c) /\ Joined(c)
    <3>1. c \in Sessions /\ c \in todo \cup sending
      BY <1>6, <1>a, SendEffect
    <3>. QED
      BY <3>1, <1>a, <1>b DEF ServiceInv, Lives
  <2>4. CASE /\ ~connected[c] \/ ~connected'[c]
             /\ UNCHANGED <<heard, dropped>> /\ todo' \subseteq todo
             /\ queued'[c] \in {queued[c], <<>>}
    <3>1. Increasing(heard[c]) /\ heard[c] \o <<>> = heard[c]
      <4>1. heard[c] \in Seq(Nat) /\ queued[c] \in Seq(Nat)
        BY <1>a, SeqMonotonic, 1..round \subseteq Nat
      <4>2. Increasing(heard[c])
        BY <4>1, <2>3, IncreasingParts DEF Hears, Told
      <4>. QED
        BY <4>1, <4>2, ConcatEmptySeq
    <3>2. Increasing(Told(c)')
      BY <3>1, <2>3, <2>4 DEF Told, Hears
    <3>3. ~connected'[c]
      BY <2>1, <2>4
    <3>. QED
      BY <2>1, <2>2, <2>3, <2>4, <3>2, <3>3 DEF HeardInv, Hears
\* A connected client that has joined is in the set, so that Hears speaks of it.
  <2>5. ASSUME connected[c]
        PROVE  /\ Range(Told(c)) \cup dropped[c]
                    = (since[c] + 1)..(IF c \in todo THEN round - 1 ELSE round)
               /\ Range(Told(c)) \cap dropped[c] = {}
               /\ queued[c] # <<>> => c \in sending
               /\ dropped[c] # {} => link[c] = "refused" \/ faults > 0
    <3>1. c \in sessions["client"]
      BY <2>3, <2>5, <1>a DEF ServiceInv, Lives, Side
    <3>. QED
      BY <2>3, <2>5, <3>1 DEF Hears
\* The batch is what waited, and this broadcast if it is Send.
  <2>6. ASSUME NEW batch \in Seq(1..round), connected[c], RegisterSend(c, batch),
               Increasing(heard[c] \o batch),
               Range(heard[c] \o batch) \cup dropped[c]
                 = (since[c] + 1)..(IF c \in todo' THEN round - 1 ELSE round),
               Range(heard[c] \o batch) \cap dropped[c] = {},
               c \in todo' => c \in todo
        PROVE  HeardInv'
    <3>1. /\ heard[c] \in Seq(Nat) /\ batch \in Seq(Nat) /\ heard[c] \o batch \in Seq(Nat)
          /\ \A s \in Seq(Nat) : s \o <<>> = s
      BY <1>a, SeqMonotonic, ConcatProperties, ConcatEmptySeq, 1..round \subseteq Nat
    <3>2. /\ Increasing(heard[c]) /\ Range(heard[c]) \cap Range(batch) = {}
          /\ Range(heard[c] \o batch) = Range(heard[c]) \cup Range(batch)
      BY <2>6, <3>1, IncreasingParts, RangeOfConcat
    <3>3. queued'[c] = <<>>
      BY <2>6, <1>a, RegisterSendEffect
    <3>4. CASE /\ heard' = [heard EXCEPT ![c] = @ \o batch] /\ UNCHANGED dropped
      <4>1. Told(c)' = heard[c] \o batch
        BY <3>1, <3>3, <3>4, <1>a DEF Told
      <4>2. dropped'[c] # {} => link'[c] = "refused" \/ faults' > 0
        BY <2>1, <2>5, <2>6, <3>4, <1>a
      <4>. QED
        BY <2>1, <2>2, <2>3, <2>6, <3>3, <3>4, <4>1, <4>2 DEF HeardInv, Hears
    <3>5. CASE /\ dropped' = [dropped EXCEPT ![c] = @ \cup Range(batch)] /\ UNCHANGED heard
               /\ link[c] = "refused" \/ faults' > 0
      <4>1. Told(c)' = heard[c]
        BY <3>1, <3>3, <3>5 DEF Told
      <4>2. dropped'[c] = dropped[c] \cup Range(batch)
        BY <3>5, <1>a
      <4>3. /\ Range(heard[c]) \cup dropped'[c] = Range(heard[c] \o batch) \cup dropped[c]
            /\ Range(heard[c]) \cap dropped'[c] = {}
        BY <4>2, <3>2, <2>6
      <4>. QED
        BY <2>1, <2>2, <2>3, <2>6, <3>2, <3>3, <3>5, <4>1, <4>3 DEF HeardInv, Hears
    <3>6. CASE UNCHANGED <<heard, dropped>> /\ ~connected'[c]
      <4>1. Told(c)' = heard[c]
        BY <3>1, <3>3, <3>6 DEF Told
      <4>. QED
        BY <2>1, <2>2, <2>3, <2>6, <3>2, <3>6, <4>1 DEF HeardInv, Hears
    <3>. QED
      BY <2>6, <3>4, <3>5, <3>6, <1>a, RegisterSendEffect
  <2>7. CASE Send(c)
    <3>. DEFINE batch == Append(queued[c], round)
    <3>1. c \in todo /\ todo' = todo \ {c} /\ round \in 1..round /\ since[c] < round
      BY <2>3, <2>7, <1>a DEF Send, Hears
    <3>2. /\ heard[c] \in Seq(Nat) /\ queued[c] \in Seq(Nat) /\ Told(c) \in Seq(Nat)
          /\ heard[c] \o batch = Append(Told(c), round) /\ batch \in Seq(1..round)
      <4>1. heard[c] \in Seq(Nat) /\ queued[c] \in Seq(Nat) /\ batch \in Seq(1..round)
        BY <3>1, <1>a, SeqMonotonic, AppendProperties, 1..round \subseteq Nat
      <4>2. Told(c) \in Seq(Nat)
        BY <4>1, ConcatProperties DEF Told
      <4>3. heard[c] \o batch = Append(Told(c), round)
        BY <4>1, <1>a, AppendOfConcat DEF Told
      <4>. QED
        BY <4>1, <4>2, <4>3
    <3>3. ASSUME connected[c]
          PROVE  /\ Increasing(heard[c] \o batch)
                 /\ Range(heard[c] \o batch) \cup dropped[c]
                      = (since[c] + 1)..(IF c \in todo' THEN round - 1 ELSE round)
                 /\ Range(heard[c] \o batch) \cap dropped[c] = {}
      <4>1. Range(Told(c)) \cup dropped[c] = (since[c] + 1)..(round - 1)
        BY <2>5, <3>1, <3>3
      <4>2. \A m \in Range(Told(c)) \cup dropped[c] : m < round
        BY <4>1, <1>a
      <4>3. /\ Increasing(Append(Told(c), round))
            /\ Range(Append(Told(c), round)) = Range(Told(c)) \cup {round}
        BY <2>3, <3>2, <4>2, <1>a, IncreasingAppend DEF Hears
      <4>4. (since[c] + 1)..(round - 1) \cup {round} = (since[c] + 1)..round
        BY <3>1, <1>a
      <4>5. round \notin dropped[c] /\ Range(Told(c)) \cap dropped[c] = {}
        BY <2>5, <3>3, <4>2, <1>a
      <4>. QED
        BY <3>1, <3>2, <4>1, <4>3, <4>4, <4>5
    <3>4. CASE connected[c] /\ RegisterSend(c, batch)
      BY <2>6, <3>1, <3>2, <3>3, <3>4
    <3>5. CASE ~connected[c] /\ UNCHANGED <<queued, heard, dropped>>
      BY <2>4, <3>1, <3>5
    <3>6. CASE /\ connected[c] /\ c \in sending /\ queued' = [queued EXCEPT ![c] = batch]
               /\ UNCHANGED <<sending, heard, dropped, connected, link, faults>>
      <4>1. Told(c)' = heard[c] \o batch
        BY <3>6, <1>a DEF Told
      <4>. QED
        BY <2>1, <2>2, <2>3, <2>5, <3>1, <3>3, <3>6, <4>1 DEF HeardInv, Hears
    <3>. QED
      BY <2>7, <3>4, <3>5, <3>6 DEF Send, Push
  <2>8. CASE ProcessSend(c)
    <3>1. todo' = todo /\ queued[c] \in Seq(1..round)
      BY <2>8, <1>a DEF ProcessSend
    <3>2. CASE connected[c] /\ RegisterSend(c, queued[c])
      BY <2>3, <2>6, <2>5, <3>1, <3>2 DEF Hears, Told
    <3>3. CASE ~connected[c] /\ UNCHANGED <<queued, heard, dropped>>
      BY <2>4, <3>1, <3>3
    <3>4. CASE queued[c] = <<>> /\ UNCHANGED <<queued, heard, dropped, connected, link, faults>>
      BY <2>1, <2>2, <2>3, <3>1, <3>4 DEF HeardInv, Hears, Told
    <3>5. CASE link[c] = "gone" /\ Disconnect(c) /\ UNCHANGED <<queued, heard, dropped>>
      <4>1. ~connected'[c]
        <5>1. c \in Sessions /\ link[End(c)] = "gone"
          BY <3>5, <1>a DEF End
        <5>. QED
          BY <3>5, <5>1, <1>a, DisconnectEffect
      <4>. QED
        BY <2>4, <3>1, <3>5, <4>1
    <3>. QED
      BY <2>8, <3>2, <3>3, <3>4, <3>5 DEF ProcessSend
  <2>. QED
    BY <1>6, <2>7, <2>8
<1>. QED
  BY <1>2, <1>3, <1>4, <1>5, <1>6 DEF Next, Work

-----------------------------------------------------------------------------
LEMMA ServiceStutter ==
  ASSUME ServiceInv, HeardInv, UNCHANGED vars
  PROVE  ServiceInv' /\ HeardInv'
<1>1. UNCHANGED <<link, peer, backlog, event, held, made, step, connected, reading, closing,
                  deaf, sessions, count, since, round, todo, queued, sending, heard, dropped,
                  faults>>
  BY DEF vars, linkVars, acceptVars, setVars, castVars
<1>2. Shape'
  BY <1>1 DEF ServiceInv, Shape, TypeOK
<1>3. Lives' /\ Dials' /\ Accepting' /\ Paired'
  BY <1>1 DEF ServiceInv, Lives, Dials, Accepting, Paired, Joined, Side
<1>4. HeardInv'
  BY <1>1 DEF HeardInv, Hears, Told, Joined
<1>. QED
  BY <1>2, <1>3, <1>4 DEF ServiceInv

LEMMA ServiceInvariant == Spec => [](ServiceInv /\ HeardInv)
<1>1. ServiceInv /\ HeardInv /\ [Next]_vars => (ServiceInv /\ HeardInv)'
  <2>1. CASE Next
    BY <2>1, ShapeStep, LivesStep, DialsStep, AcceptingStep, PairedStep, HeardStep DEF ServiceInv
  <2>2. CASE UNCHANGED vars
    BY <2>2, ServiceStutter
  <2>. QED
    BY <2>1, <2>2
<1>. QED
  BY <1>1, ServiceInit, PTL DEF Spec

\* A service that is asked to release a session holds it and its count is that of
\* its set (Service.cpp:45 and :52, the assertion); every session of the server that
\* has a connection is the other end of exactly one client's (Listener.cpp:78 and :97).
THEOREM SetsFollowConnections == Spec => []SetsMatchConnections
<1>1. ServiceInv => SetsMatchConnections
  BY DEF ServiceInv, Shape, Paired, SetsMatchConnections, Sides
<1>. QED
  BY <1>1, ServiceInvariant, PTL

\* Broadcasts come in order and none twice, and nobody connected misses one, whoever
\* joins and leaves meanwhile (Service.cpp:25, the lock around the loop), except those
\* of a batch whose WSASend failed with a logged error (Session.cpp:194); what waits
\* in a queue has a WSASend posted before it.
THEOREM BroadcastReachesAll == Spec => []HeardFromJoining
<1>1. HeardInv => HeardFromJoining
  BY DEF HeardInv, Hears, HeardFromJoining
<1>. QED
  BY <1>1, ServiceInvariant, PTL
=============================================================================
