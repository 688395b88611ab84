--------------------------- MODULE SessionProofs ----------------------------
(***************************************************************************)
(* Theorems about Session for any number of threads and of calls of Send,  *)
(* and for every choice of the calls that may fail: its invariants, that   *)
(* it implements OutputStream, and at the end the theorems about the bytes *)
(* it receives (RecvBuffer).                                               *)
(*                                                                         *)
(* The argument: the session hands out three tokens.  Whoever finds        *)
(* _sendRegistered clear has the send token and gives it to the kernel     *)
(* with the WSASend; the accept or connect event begins with the receive   *)
(* token; _connected is the disconnect token until somebody exchanges it.  *)
(* Each token is with one thread or with the kernel, and only its holder   *)
(* clears the owner of its event, so that a posted event keeps its owner.  *)
(***************************************************************************)
EXTENDS Session, RecvBuffer, SequenceTheorems, FiniteSetTheorems, TLAPS

\* The calls a thread can be in: the frames below the function it runs.
NoCall         == <<>>
InDispatch     == <<"idle">>
InHandler      == <<"onRecv", "idle">>
FromRecv       == <<"releaseRecv", "idle">>
FromSend       == <<"releaseSend", "idle">>
FromSendInside == <<"releaseSend", "onRecv", "idle">>

SendLabels == {"send", "sendPush", "registerSend", "fillSend", "wsaSend", "releaseSend",
               "resetSend"}
DisconnectLabels == {"disconnect", "registerDisconnect", "disconnectEx"}

\* How the frames go with what runs on top of them.
Frames(t) ==
  /\ stack[t] \in {NoCall, InDispatch, InHandler, FromRecv, FromSend, FromSendInside}
  /\ pc[t] = "idle" <=> stack[t] = NoCall
  /\ stack[t] = InHandler => pc[t] \in SendLabels
  /\ stack[t] \in {FromRecv, FromSend, FromSendInside} => pc[t] \in DisconnectLabels

\* Who has the send token.
Sender(t) ==
  \/ pc[t] \in (SendLabels \cup {"processSend", "nextSend"}) \ {"send", "sendPush"}
  \/ stack[t] \in {FromSend, FromSendInside}

SendToken ==
  /\ \A t, u \in Threads : Sender(t) /\ Sender(u) => t = u
  /\ \A t \in Threads : Sender(t) => sendRegistered /\ "send" \notin posted
  /\ "send" \in posted => sendRegistered

\* Who has the receive token.
Receiver(t) ==
  \/ pc[t] \in {"processConnect", "addSession", "registerRecv", "wsaRecv", "releaseRecv",
                "processRecv", "onRecv"}
  \/ stack[t] \in {InHandler, FromRecv, FromSendInside}

RecvToken ==
  /\ \A t, u \in Threads : Receiver(t) /\ Receiver(u) => t = u
  /\ \A t \in Threads : Receiver(t) => "recv" \notin posted /\ "connect" \notin posted
  /\ "connect" \in posted => "recv" \notin posted

\* Who has the disconnect token once it is not _connected.
Disconnector(t) ==
  pc[t] \in {"registerDisconnect", "disconnectEx", "processDisconnect", "releaseSession"}

DisconnectToken ==
  /\ \A t, u \in Threads : Disconnector(t) /\ Disconnector(u) => t = u
  /\ \A t \in Threads :
       Disconnector(t) => ~connected /\ "disconnect" \notin posted /\ sessions = "in"
  /\ "disconnect" \in posted => ~connected /\ sessions = "in"
  /\ connected => sessions # "released"

\* Until AddSession nobody but the thread that connects knows the session.
Unknown ==
  /\ "connect" \in posted => sessions = "out" /\ ~connected
  /\ \A t \in Threads :
       /\ pc[t] = "processConnect" => sessions = "out" /\ ~connected
       /\ pc[t] = "addSession" => sessions = "out"
       /\ pc[t] \notin {"idle", "processConnect", "addSession"} => sessions # "out"
  /\ {"recv", "send", "disconnect"} \cap posted # {} => sessions # "out"

\* The owner is set before the event is posted.
Owned ==
  /\ posted \subseteq owner
  /\ \A t \in Threads :
       /\ pc[t] = "wsaRecv" => "recv" \in owner
       /\ pc[t] \in {"fillSend", "wsaSend"} => "send" \in owner
       /\ pc[t] = "disconnectEx" => "disconnect" \in owner

\* A thread that will post a receive, or disconnect.
Reading(t) ==
  \/ pc[t] \in {"addSession", "registerRecv", "wsaRecv", "processRecv", "onRecv", "disconnect"}
  \/ stack[t] \in {InHandler, FromSendInside}

Progress ==
  /\ connected => "recv" \in posted \cup failed \/ \E t \in Threads : Reading(t)
  /\ \A t \in Threads :
       /\ pc[t] = "releaseRecv" => ~connected \/ "recv" \in failed
       /\ stack[t] = FromRecv /\ pc[t] # "disconnect" => ~connected

IInv ==
  /\ TypeOK /\ (\A t \in Threads : Frames(t))
  /\ SendToken /\ RecvToken /\ DisconnectToken /\ Unknown /\ Owned /\ Progress

\* What calls and returns make of the frames.
LEMMA FrameFacts ==
  /\ NoCall \in Seq(Backs) /\ InDispatch \in Seq(Backs) /\ InHandler \in Seq(Backs)
  /\ FromRecv \in Seq(Backs) /\ FromSend \in Seq(Backs) /\ FromSendInside \in Seq(Backs)
  /\ Head(InDispatch) = "idle" /\ Tail(InDispatch) = NoCall
  /\ Head(InHandler) = "onRecv" /\ Tail(InHandler) = InDispatch
  /\ Head(FromRecv) = "releaseRecv" /\ Tail(FromRecv) = InDispatch
  /\ Head(FromSend) = "releaseSend" /\ Tail(FromSend) = InDispatch
  /\ Head(FromSendInside) = "releaseSend" /\ Tail(FromSendInside) = InHandler
  /\ <<"idle">> \o NoCall = InDispatch /\ <<"onRecv">> \o InDispatch = InHandler
  /\ <<"releaseRecv">> \o InDispatch = FromRecv
  /\ <<"releaseSend">> \o InDispatch = FromSend
  /\ <<"releaseSend">> \o InHandler = FromSendInside
<1>1. /\ NoCall \in Seq(Backs) /\ InDispatch \in Seq(Backs) /\ InHandler \in Seq(Backs)
      /\ FromRecv \in Seq(Backs) /\ FromSend \in Seq(Backs) /\ FromSendInside \in Seq(Backs)
  BY DEF NoCall, InDispatch, InHandler, FromRecv, FromSend, FromSendInside, Backs
<1>2. /\ Head(InDispatch) = "idle" /\ Head(InHandler) = "onRecv"
      /\ Head(FromRecv) = "releaseRecv" /\ Head(FromSend) = "releaseSend"
      /\ Head(FromSendInside) = "releaseSend"
  BY DEF InDispatch, InHandler, FromRecv, FromSend, FromSendInside
<1>3. Tail(InDispatch) = NoCall
  BY DEF InDispatch, NoCall
<1>4. Tail(InHandler) = InDispatch /\ Tail(FromRecv) = InDispatch /\ Tail(FromSend) = InDispatch
  BY DEF InDispatch, InHandler, FromRecv, FromSend
<1>5. Tail(FromSendInside) = InHandler
  BY DEF FromSendInside, InHandler
<1>6. <<"idle">> \o NoCall = InDispatch
  BY DEF NoCall, InDispatch
<1>7. <<"onRecv">> \o InDispatch = InHandler
  <2>1. /\ <<"onRecv">> \o InDispatch \in Seq(Backs) 
        /\ Len(<<"onRecv">> \o InDispatch) = 2 /\ Len(InHandler) = 2
        /\ \A i \in 1..2 : (<<"onRecv">> \o InDispatch)[i] = InHandler[i]
    BY DEF InDispatch, InHandler, Backs
  <2>. QED
    BY <1>1, <2>1, SeqEqual
<1>8. <<"releaseRecv">> \o InDispatch = FromRecv
  <2>1. /\ <<"releaseRecv">> \o InDispatch \in Seq(Backs) 
        /\ Len(<<"releaseRecv">> \o InDispatch) = 2 /\ Len(FromRecv) = 2
        /\ \A i \in 1..2 : (<<"releaseRecv">> \o InDispatch)[i] = FromRecv[i]
    BY DEF InDispatch, FromRecv, Backs
  <2>. QED
    BY <1>1, <2>1, SeqEqual
<1>9. <<"releaseSend">> \o InDispatch = FromSend
  <2>1. /\ <<"releaseSend">> \o InDispatch \in Seq(Backs) 
        /\ Len(<<"releaseSend">> \o InDispatch) = 2 /\ Len(FromSend) = 2
        /\ \A i \in 1..2 : (<<"releaseSend">> \o InDispatch)[i] = FromSend[i]
    BY DEF InDispatch, FromSend, Backs
  <2>. QED
    BY <1>1, <2>1, SeqEqual
<1>10. <<"releaseSend">> \o InHandler = FromSendInside
  <2>1. /\ <<"releaseSend">> \o InHandler \in Seq(Backs) 
        /\ Len(<<"releaseSend">> \o InHandler) = 3 /\ Len(FromSendInside) = 3
        /\ \A i \in 1..3 : (<<"releaseSend">> \o InHandler)[i] = FromSendInside[i]
    BY DEF InHandler, FromSendInside, Backs
  <2>. QED
    BY <1>1, <2>1, SeqEqual
<1>. QED
  BY <1>1, <1>2, <1>3, <1>4, <1>5, <1>6, <1>7, <1>8, <1>9, <1>10

\* They are all different.
LEMMA FramesDiffer ==
  /\ NoCall \notin {InDispatch, InHandler, FromRecv, FromSend, FromSendInside}
  /\ InDispatch \notin {InHandler, FromRecv, FromSend, FromSendInside}
  /\ InHandler \notin {FromRecv, FromSend, FromSendInside}
  /\ FromRecv \notin {FromSend, FromSendInside}
  /\ FromSend # FromSendInside
<1>1. Len(NoCall) = 0 /\ Len(InDispatch) = 1 /\ Len(InHandler) = 2 /\ Len(FromRecv) = 2
      /\ Len(FromSend) = 2 /\ Len(FromSendInside) = 3
  BY DEF NoCall, InDispatch, InHandler, FromRecv, FromSend, FromSendInside
<1>. QED
  BY <1>1, FrameFacts

-----------------------------------------------------------------------------
(* What a step of one thread may do to the tokens, stated about that thread. *)

OtherThreads(t) == \A u \in Threads \ {t} : pc'[u] = pc[u] /\ stack'[u] = stack[u]

SendStep(t) ==
  /\ Sender(t)' => /\ Sender(t) \/ ~sendRegistered \/ "send" \in posted
                   /\ sendRegistered' /\ "send" \notin posted'
  /\ "send" \in posted' => /\ "send" \in posted \/ Sender(t)
                           /\ sendRegistered' /\ ~Sender(t)'
  /\ sendRegistered => sendRegistered' \/ Sender(t)

RecvStep(t) ==
  /\ Receiver(t)' => /\ Receiver(t) \/ "recv" \in posted \/ "connect" \in posted
                     /\ "recv" \notin posted' /\ "connect" \notin posted'
  /\ "recv" \in posted' => ("recv" \in posted \/ Receiver(t)) /\ ~Receiver(t)'
  /\ "connect" \in posted' => "connect" \in posted /\ "recv" \notin posted' /\ ~Receiver(t)'

DisconnectStep(t) ==
  /\ Disconnector(t)' => /\ Disconnector(t) \/ connected \/ "disconnect" \in posted
                         /\ ~connected' /\ "disconnect" \notin posted' /\ sessions' = "in"
  /\ "disconnect" \in posted' => /\ "disconnect" \in posted \/ Disconnector(t)
                                 /\ ~Disconnector(t)' /\ ~connected' /\ sessions' = "in"
  /\ connected' => (connected \/ sessions = "out") /\ sessions' # "released"
  /\ sessions' = sessions \/ sessions = "out" \/ Disconnector(t)

UnknownStep(t) ==
  /\ "connect" \in posted' => sessions' = "out" /\ ~connected'
  /\ pc'[t] = "processConnect" => sessions' = "out" /\ ~connected'
  /\ pc'[t] = "addSession" => sessions' = "out"
  /\ pc'[t] \notin {"idle", "processConnect", "addSession"} => sessions' # "out"
  /\ {"recv", "send", "disconnect"} \cap posted' # {} => sessions' # "out"
  /\ sessions # "out" => sessions' # "out"
  /\ sessions' # sessions => Receiver(t) \/ Disconnector(t)
  /\ connected' => connected \/ Receiver(t)

OwnedStep(t) ==
  /\ posted' \subseteq owner'
  /\ pc'[t] = "wsaRecv" => "recv" \in owner'
  /\ pc'[t] \in {"fillSend", "wsaSend"} => "send" \in owner'
  /\ pc'[t] = "disconnectEx" => "disconnect" \in owner'
  /\ "recv" \in owner \ owner' => Receiver(t)
  /\ "send" \in owner \ owner' => Sender(t)
  /\ "disconnect" \in owner \ owner' => Disconnector(t)

ReadingStep(t) ==
  /\ connected' => connected \/ (Reading(t)' /\ Receiver(t))
  /\ connected' /\ (Reading(t) \/ "recv" \in posted \cup failed) =>
       Reading(t)' \/ "recv" \in posted' \cup failed'
  /\ pc'[t] = "releaseRecv" => ~connected' \/ "recv" \in failed'
  /\ stack'[t] = FromRecv /\ pc'[t] # "disconnect" => ~connected'
  /\ "recv" \in failed => "recv" \in failed'

Guarantee(t) ==
  /\ OtherThreads(t) /\ Frames(t)' /\ SendStep(t) /\ RecvStep(t) /\ DisconnectStep(t)
  /\ UnknownStep(t) /\ OwnedStep(t) /\ ReadingStep(t)

\* A step that gives the guarantee keeps the invariant.
LEMMA GuaranteeSuffices ==
  ASSUME IInv, NEW t \in Threads, TypeOK', Guarantee(t)
  PROVE  IInv'
<1>. USE DEF IInv, Guarantee, OtherThreads
<1>1. \A u \in Threads : Frames(u)'
  BY DEF Frames
<1>2. \A u \in Threads \ {t} : /\ Sender(u)' <=> Sender(u)
                               /\ Receiver(u)' <=> Receiver(u)
                               /\ Disconnector(u)' <=> Disconnector(u)
                               /\ Reading(u)' <=> Reading(u)
  BY DEF Sender, Receiver, Disconnector, Reading
<1>3. SendToken'
  BY <1>2 DEF SendToken, SendStep
<1>4. RecvToken'
  BY <1>2 DEF RecvToken, RecvStep
<1>5. DisconnectToken'
  BY <1>2 DEF DisconnectToken, DisconnectStep
<1>6. \A u \in Threads \ {t} : Receiver(t) => ~Receiver(u)
  BY DEF RecvToken
<1>7. \A u \in Threads \ {t} : Sender(t) => ~Sender(u)
  BY DEF SendToken
<1>8. \A u \in Threads \ {t} : Disconnector(t) => ~Disconnector(u) /\ sessions = "in"
  BY DEF DisconnectToken
<1>9. \A u \in Threads \ {t} : pc[u] \in {"processConnect", "addSession"} =>
        Receiver(u) /\ sessions' = sessions
  BY <1>6, <1>8 DEF Receiver, UnknownStep, Unknown
<1>10. Unknown'
  BY <1>6, <1>9 DEF Unknown, UnknownStep
<1>11. \A u \in Threads \ {t} : /\ pc[u] = "wsaRecv" => Receiver(u)
                                /\ pc[u] \in {"fillSend", "wsaSend"} => Sender(u)
                                /\ pc[u] = "disconnectEx" => Disconnector(u)
  BY DEF Receiver, Sender, Disconnector, SendLabels
<1>12. Owned'
  BY <1>6, <1>7, <1>8, <1>11 DEF Owned, OwnedStep
<1>13. \A u \in Threads \ {t} : pc[u] = "releaseRecv" \/ stack[u] = FromRecv => Receiver(u)
  BY DEF Receiver
<1>14. Progress'
  <2>1. connected' => "recv" \in posted' \cup failed' \/ \E u \in Threads : Reading(u)'
    BY <1>2 DEF Progress, ReadingStep
  <2>2. ASSUME NEW u \in Threads
        PROVE  /\ pc'[u] = "releaseRecv" => ~connected' \/ "recv" \in failed'
               /\ stack'[u] = FromRecv /\ pc'[u] # "disconnect" => ~connected'
    <3>1. CASE u = t
      BY <3>1 DEF ReadingStep
    <3>2. CASE u # t
      BY <1>6, <1>13, <3>2 DEF Progress, ReadingStep
    <3>. QED
      BY <3>1, <3>2
  <2>. QED
    BY <2>1, <2>2 DEF Progress
<1>. QED
  BY <1>1, <1>3, <1>4, <1>5, <1>10, <1>12, <1>14

-----------------------------------------------------------------------------
(* Control: where a step leaves its thread. *)

Moved(t, label, frames) ==
  /\ pc' \in [Threads -> Labels] /\ stack' \in [Threads -> Seq(Backs)]
  /\ pc'[t] = label /\ stack'[t] = frames
  /\ OtherThreads(t)

Returned(t) ==
  \/ stack[t] = InDispatch /\ Moved(t, "idle", NoCall)
  \/ stack[t] = InHandler /\ Moved(t, "onRecv", InDispatch)
  \/ stack[t] = FromRecv /\ Moved(t, "releaseRecv", InDispatch)
  \/ stack[t] = FromSend /\ Moved(t, "releaseSend", InDispatch)
  \/ stack[t] = FromSendInside /\ Moved(t, "releaseSend", InHandler)

LEMMA JumpMove ==
  ASSUME TypeOK, NEW t \in Threads, NEW label \in Labels, Jump(t, label)
  PROVE  Moved(t, label, stack[t])
BY DEF TypeOK, Jump, Goto, Moved, OtherThreads

LEMMA ReturnMove ==
  ASSUME TypeOK, NEW t \in Threads, Frames(t), pc[t] # "idle", Return(t)
  PROVE  Returned(t)
<1>1. stack[t] \in {InDispatch, InHandler, FromRecv, FromSend, FromSendInside}
  BY DEF Frames
<1>2. /\ pc' = [pc EXCEPT ![t] = Head(stack[t])]
      /\ stack' = [stack EXCEPT ![t] = Tail(stack[t])]
  BY DEF Return, Goto
<1>3. Head(stack[t]) \in Labels /\ Tail(stack[t]) \in Seq(Backs)
  BY <1>1, FrameFacts DEF Labels
<1>4. Moved(t, Head(stack[t]), Tail(stack[t]))
  BY <1>2, <1>3 DEF TypeOK, Moved, OtherThreads
<1>. QED
  BY <1>1, <1>4, FrameFacts DEF Returned

LEMMA CallMove ==
  ASSUME TypeOK, NEW t \in Threads, NEW label \in Labels, NEW back \in Backs,
         Call(t, label, back)
  PROVE  Moved(t, label, <<back>> \o stack[t])
<1>1. <<back>> \o stack[t] \in Seq(Backs)
  BY DEF TypeOK
<1>. QED
  BY <1>1 DEF TypeOK, Call, Goto, Moved, OtherThreads

\* The invariant about one thread.
AtThread(t) ==
  /\ pc[t] \in Labels /\ Frames(t)
  /\ Sender(t) => sendRegistered /\ "send" \notin posted
  /\ Receiver(t) => "recv" \notin posted /\ "connect" \notin posted
  /\ Disconnector(t) => ~connected /\ "disconnect" \notin posted /\ sessions = "in"
  /\ pc[t] = "processConnect" => sessions = "out" /\ ~connected
  /\ pc[t] = "addSession" => sessions = "out"
  /\ pc[t] \notin {"idle", "processConnect", "addSession"} => sessions # "out"
  /\ pc[t] = "wsaRecv" => "recv" \in owner
  /\ pc[t] \in {"fillSend", "wsaSend"} => "send" \in owner
  /\ pc[t] = "disconnectEx" => "disconnect" \in owner
  /\ pc[t] = "releaseRecv" => ~connected \/ "recv" \in failed
  /\ stack[t] = FromRecv /\ pc[t] # "disconnect" => ~connected
  /\ "send" \in posted => sendRegistered
  /\ "connect" \in posted => "recv" \notin posted /\ sessions = "out" /\ ~connected
  /\ "disconnect" \in posted => ~connected /\ sessions = "in"
  /\ connected => sessions # "released"
  /\ {"recv", "send", "disconnect"} \cap posted # {} => sessions # "out"
  /\ posted \subseteq owner

LEMMA IInvAtThread ==
  ASSUME IInv, NEW t \in Threads
  PROVE  AtThread(t)
BY DEF AtThread, IInv, TypeOK, SendToken, RecvToken, DisconnectToken, Unknown, Owned, Progress

-----------------------------------------------------------------------------
(* Every step gives the guarantee. *)

LEMMA DisconnectKeeps ==
  ASSUME IInv, NEW t \in Threads, Disconnect(t)
  PROVE  TypeOK' /\ Guarantee(t)
<1>1. TypeOK /\ AtThread(t)
  BY IInvAtThread DEF IInv
<1>2. /\ Jump(t, "registerDisconnect") => Moved(t, "registerDisconnect", stack[t])
      /\ Return(t) => Returned(t)
      /\ connected => sessions = "in"
  BY <1>1, JumpMove, ReturnMove DEF Disconnect, AtThread, Frames, Labels, TypeOK
<1>3. TypeOK'
  BY <1>1, <1>2 DEF TypeOK, Disconnect, sendVars, Moved, Returned, Events
<1>4. Guarantee(t)
  BY <1>1, <1>2, FramesDiffer
     DEF Disconnect, sendVars, Moved, Returned, AtThread, Guarantee, Frames, SendStep,
         RecvStep, DisconnectStep, UnknownStep, OwnedStep, ReadingStep, Sender,
         Receiver, Disconnector, Reading, SendLabels, DisconnectLabels
<1>. QED
  BY <1>3, <1>4

LEMMA RegisterDisconnectKeeps ==
  ASSUME IInv, NEW t \in Threads, RegisterDisconnect(t)
  PROVE  TypeOK' /\ Guarantee(t)
<1>1. TypeOK /\ AtThread(t)
  BY IInvAtThread DEF IInv
<1>2. Jump(t, "disconnectEx") => Moved(t, "disconnectEx", stack[t])
  BY <1>1, JumpMove DEF RegisterDisconnect, AtThread, Frames, Labels
<1>3. TypeOK'
  BY <1>1, <1>2 DEF TypeOK, RegisterDisconnect, sendVars, Moved, Returned, Events
<1>4. Guarantee(t)
  BY <1>1, <1>2, FramesDiffer
     DEF RegisterDisconnect, sendVars, Moved, AtThread, Guarantee, Frames, SendStep,
         RecvStep, DisconnectStep, UnknownStep, OwnedStep, ReadingStep, Sender,
         Receiver, Disconnector, Reading, SendLabels, DisconnectLabels
<1>. QED
  BY <1>3, <1>4

LEMMA DisconnectExKeeps ==
  ASSUME IInv, NEW t \in Threads, DisconnectEx(t)
  PROVE  TypeOK' /\ Guarantee(t)
<1>1. TypeOK /\ AtThread(t)
  BY IInvAtThread DEF IInv
<1>2. Return(t) => Returned(t)
  BY <1>1, ReturnMove DEF DisconnectEx, AtThread, Frames, Labels
<1>3. TypeOK'
  BY <1>1, <1>2 DEF TypeOK, DisconnectEx, Fails, Moved, Returned, Events
<1>4. Guarantee(t)
  BY <1>1, <1>2, FramesDiffer
     DEF DisconnectEx, Fails, Moved, Returned, AtThread, Guarantee, Frames, SendStep,
         RecvStep, DisconnectStep, UnknownStep, OwnedStep, ReadingStep, Sender,
         Receiver, Disconnector, Reading, SendLabels, DisconnectLabels
<1>. QED
  BY <1>3, <1>4

LEMMA ProcessDisconnectKeeps ==
  ASSUME IInv, NEW t \in Threads, ProcessDisconnect(t)
  PROVE  TypeOK' /\ Guarantee(t)
<1>1. TypeOK /\ AtThread(t)
  BY IInvAtThread DEF IInv
<1>2. Jump(t, "releaseSession") => Moved(t, "releaseSession", stack[t])
  BY <1>1, JumpMove DEF ProcessDisconnect, AtThread, Frames, Labels
<1>3. TypeOK'
  BY <1>1, <1>2 DEF TypeOK, ProcessDisconnect, sendVars, Moved, Returned, Events
<1>4. Guarantee(t)
  BY <1>1, <1>2, FramesDiffer
     DEF ProcessDisconnect, sendVars, Moved, AtThread, Guarantee, Frames, SendStep,
         RecvStep, DisconnectStep, UnknownStep, OwnedStep, ReadingStep, Sender,
         Receiver, Disconnector, Reading, SendLabels, DisconnectLabels
<1>. QED
  BY <1>3, <1>4

LEMMA ReleaseSessionKeeps ==
  ASSUME IInv, NEW t \in Threads, ReleaseSession(t)
  PROVE  TypeOK' /\ Guarantee(t)
<1>1. TypeOK /\ AtThread(t)
  BY IInvAtThread DEF IInv
<1>2. /\ Return(t) => Returned(t)
      /\ sessions = "in"
  BY <1>1, JumpMove, ReturnMove DEF ReleaseSession, AtThread, Frames, Labels, Disconnector
<1>3. TypeOK'
  BY <1>1, <1>2 DEF TypeOK, ReleaseSession, sendVars, Moved, Returned, Events
<1>4. Guarantee(t)
  BY <1>1, <1>2, FramesDiffer
     DEF ReleaseSession, sendVars, Moved, Returned, AtThread, Guarantee, Frames,
         SendStep, RecvStep, DisconnectStep, UnknownStep, OwnedStep, ReadingStep,
         Sender, Receiver, Disconnector, Reading, SendLabels, DisconnectLabels
<1>. QED
  BY <1>3, <1>4

LEMMA ProcessConnectKeeps ==
  ASSUME IInv, NEW t \in Threads, ProcessConnect(t)
  PROVE  TypeOK' /\ Guarantee(t)
<1>1. TypeOK /\ AtThread(t)
  BY IInvAtThread DEF IInv
<1>2. Jump(t, "addSession") => Moved(t, "addSession", stack[t])
  BY <1>1, JumpMove DEF ProcessConnect, AtThread, Frames, Labels
<1>3. TypeOK'
  BY <1>1, <1>2 DEF TypeOK, ProcessConnect, sendVars, Moved, Returned, Events
<1>4. Guarantee(t)
  BY <1>1, <1>2, FramesDiffer
     DEF ProcessConnect, sendVars, Moved, AtThread, Guarantee, Frames, SendStep,
         RecvStep, DisconnectStep, UnknownStep, OwnedStep, ReadingStep, Sender,
         Receiver, Disconnector, Reading, SendLabels, DisconnectLabels
<1>. QED
  BY <1>3, <1>4

LEMMA AddSessionKeeps ==
  ASSUME IInv, NEW t \in Threads, AddSession(t)
  PROVE  TypeOK' /\ Guarantee(t)
<1>1. TypeOK /\ AtThread(t)
  BY IInvAtThread DEF IInv
<1>2. Jump(t, "registerRecv") => Moved(t, "registerRecv", stack[t])
  BY <1>1, JumpMove DEF AddSession, AtThread, Frames, Labels
<1>3. TypeOK'
  BY <1>1, <1>2 DEF TypeOK, AddSession, sendVars, Moved, Returned, Events
<1>4. Guarantee(t)
  BY <1>1, <1>2, FramesDiffer
     DEF AddSession, sendVars, Moved, AtThread, Guarantee, Frames, SendStep, RecvStep,
         DisconnectStep, UnknownStep, OwnedStep, ReadingStep, Sender, Receiver,
         Disconnector, Reading, SendLabels, DisconnectLabels
<1>. QED
  BY <1>3, <1>4

LEMMA RegisterRecvKeeps ==
  ASSUME IInv, NEW t \in Threads, RegisterRecv(t)
  PROVE  TypeOK' /\ Guarantee(t)
<1>1. TypeOK /\ AtThread(t)
  BY IInvAtThread DEF IInv
<1>2. /\ Jump(t, "wsaRecv") => Moved(t, "wsaRecv", stack[t])
      /\ Return(t) => Returned(t)
  BY <1>1, JumpMove, ReturnMove DEF RegisterRecv, AtThread, Frames, Labels
<1>3. TypeOK'
  BY <1>1, <1>2 DEF TypeOK, RegisterRecv, sendVars, Moved, Returned, Events
<1>4. Guarantee(t)
  BY <1>1, <1>2, FramesDiffer
     DEF RegisterRecv, sendVars, Moved, Returned, AtThread, Guarantee, Frames, SendStep,
         RecvStep, DisconnectStep, UnknownStep, OwnedStep, ReadingStep, Sender,
         Receiver, Disconnector, Reading, SendLabels, DisconnectLabels
<1>. QED
  BY <1>3, <1>4

LEMMA WSARecvKeeps ==
  ASSUME IInv, NEW t \in Threads, WSARecv(t)
  PROVE  TypeOK' /\ Guarantee(t)
<1>1. TypeOK /\ AtThread(t)
  BY IInvAtThread DEF IInv
<1>2. /\ Jump(t, "releaseRecv") => Moved(t, "releaseRecv", stack[t])
      /\ Return(t) => Returned(t)
      /\ Call(t, "disconnect", "releaseRecv") => Moved(t, "disconnect", FromRecv)
  BY <1>1, JumpMove, ReturnMove, CallMove, FrameFacts
     DEF WSARecv, AtThread, Frames, Labels, Backs, SendLabels, DisconnectLabels
<1>3. TypeOK'
  BY <1>1, <1>2 DEF TypeOK, WSARecv, Fails, Moved, Returned, Events
<1>4. Guarantee(t)
  BY <1>1, <1>2, FramesDiffer
     DEF WSARecv, Fails, Moved, Returned, AtThread, Guarantee, Frames, SendStep,
         RecvStep, DisconnectStep, UnknownStep, OwnedStep, ReadingStep, Sender,
         Receiver, Disconnector, Reading, SendLabels, DisconnectLabels
<1>. QED
  BY <1>3, <1>4

LEMMA ReleaseRecvKeeps ==
  ASSUME IInv, NEW t \in Threads, ReleaseRecv(t)
  PROVE  TypeOK' /\ Guarantee(t)
<1>1. TypeOK /\ AtThread(t)
  BY IInvAtThread DEF IInv
<1>2. Return(t) => Returned(t)
  BY <1>1, ReturnMove DEF ReleaseRecv, AtThread, Frames, Labels
<1>3. TypeOK'
  BY <1>1, <1>2 DEF TypeOK, ReleaseRecv, sendVars, Moved, Returned, Events
<1>4. Guarantee(t)
  BY <1>1, <1>2, FramesDiffer
     DEF ReleaseRecv, sendVars, Moved, Returned, AtThread, Guarantee, Frames, SendStep,
         RecvStep, DisconnectStep, UnknownStep, OwnedStep, ReadingStep, Sender,
         Receiver, Disconnector, Reading, SendLabels, DisconnectLabels
<1>. QED
  BY <1>3, <1>4

LEMMA ProcessRecvKeeps ==
  ASSUME IInv, NEW t \in Threads, ProcessRecv(t)
  PROVE  TypeOK' /\ Guarantee(t)
<1>1. TypeOK /\ AtThread(t)
  BY IInvAtThread DEF IInv
<1>2. /\ Jump(t, "onRecv") => Moved(t, "onRecv", stack[t])
      /\ Jump(t, "disconnect") => Moved(t, "disconnect", stack[t])
  BY <1>1, JumpMove DEF ProcessRecv, AtThread, Frames, Labels
<1>3. TypeOK'
  BY <1>1, <1>2 DEF TypeOK, ProcessRecv, sendVars, Moved, Returned, Events
<1>4. Guarantee(t)
  BY <1>1, <1>2, FramesDiffer
     DEF ProcessRecv, sendVars, Moved, AtThread, Guarantee, Frames, SendStep, RecvStep,
         DisconnectStep, UnknownStep, OwnedStep, ReadingStep, Sender, Receiver,
         Disconnector, Reading, SendLabels, DisconnectLabels
<1>. QED
  BY <1>3, <1>4

LEMMA OnRecvDoneKeeps ==
  ASSUME IInv, NEW t \in Threads, OnRecvDone(t)
  PROVE  TypeOK' /\ Guarantee(t)
<1>1. TypeOK /\ AtThread(t)
  BY IInvAtThread DEF IInv
<1>2. Jump(t, "registerRecv") => Moved(t, "registerRecv", stack[t])
  BY <1>1, JumpMove DEF OnRecvDone, AtThread, Frames, Labels
<1>3. TypeOK'
  BY <1>1, <1>2 DEF TypeOK, OnRecvDone, sendVars, Moved, Returned, Events
<1>4. Guarantee(t)
  BY <1>1, <1>2, FramesDiffer
     DEF OnRecvDone, sendVars, Moved, AtThread, Guarantee, Frames, SendStep, RecvStep,
         DisconnectStep, UnknownStep, OwnedStep, ReadingStep, Sender, Receiver,
         Disconnector, Reading, SendLabels, DisconnectLabels
<1>. QED
  BY <1>3, <1>4

LEMMA SendCheckKeeps ==
  ASSUME IInv, NEW t \in Threads, SendCheck(t)
  PROVE  TypeOK' /\ Guarantee(t)
<1>1. TypeOK /\ AtThread(t)
  BY IInvAtThread DEF IInv
<1>2. /\ Jump(t, "sendPush") => Moved(t, "sendPush", stack[t])
      /\ Return(t) => Returned(t)
  BY <1>1, JumpMove, ReturnMove DEF SendCheck, AtThread, Frames, Labels
<1>3. TypeOK'
  BY <1>1, <1>2 DEF TypeOK, SendCheck, sendVars, Moved, Returned, Events
<1>4. Guarantee(t)
  BY <1>1, <1>2, FramesDiffer
     DEF SendCheck, sendVars, Moved, Returned, AtThread, Guarantee, Frames, SendStep,
         RecvStep, DisconnectStep, UnknownStep, OwnedStep, ReadingStep, Sender,
         Receiver, Disconnector, Reading, SendLabels, DisconnectLabels
<1>. QED
  BY <1>3, <1>4

LEMMA SendPushKeeps ==
  ASSUME IInv, NEW t \in Threads, SendPush(t)
  PROVE  TypeOK' /\ Guarantee(t)
<1>1. TypeOK /\ AtThread(t)
  BY IInvAtThread DEF IInv
<1>2. /\ Jump(t, "registerSend") => Moved(t, "registerSend", stack[t])
      /\ Return(t) => Returned(t)
  BY <1>1, JumpMove, ReturnMove DEF SendPush, AtThread, Frames, Labels
<1>3. TypeOK'
  BY <1>1, <1>2 DEF TypeOK, SendPush, Moved, Returned, Events
<1>4. Guarantee(t)
  BY <1>1, <1>2, FramesDiffer
     DEF SendPush, Moved, Returned, AtThread, Guarantee, Frames, SendStep, RecvStep,
         DisconnectStep, UnknownStep, OwnedStep, ReadingStep, Sender, Receiver,
         Disconnector, Reading, SendLabels, DisconnectLabels
<1>. QED
  BY <1>3, <1>4

LEMMA RegisterSendKeeps ==
  ASSUME IInv, NEW t \in Threads, RegisterSend(t)
  PROVE  TypeOK' /\ Guarantee(t)
<1>1. TypeOK /\ AtThread(t)
  BY IInvAtThread DEF IInv
<1>2. /\ Jump(t, "fillSend") => Moved(t, "fillSend", stack[t])
      /\ Return(t) => Returned(t)
  BY <1>1, JumpMove, ReturnMove DEF RegisterSend, AtThread, Frames, Labels
<1>3. TypeOK'
  BY <1>1, <1>2 DEF TypeOK, RegisterSend, LeaveRegisterSend, Moved, Returned, Events
<1>4. Guarantee(t)
  BY <1>1, <1>2, FramesDiffer
     DEF RegisterSend, LeaveRegisterSend, Moved, Returned, AtThread, Guarantee, Frames,
         SendStep, RecvStep, DisconnectStep, UnknownStep, OwnedStep, ReadingStep,
         Sender, Receiver, Disconnector, Reading, SendLabels, DisconnectLabels
<1>. QED
  BY <1>3, <1>4

LEMMA FillSendKeeps ==
  ASSUME IInv, NEW t \in Threads, FillSend(t)
  PROVE  TypeOK' /\ Guarantee(t)
<1>1. TypeOK /\ AtThread(t)
  BY IInvAtThread DEF IInv
<1>2. Jump(t, "wsaSend") => Moved(t, "wsaSend", stack[t])
  BY <1>1, JumpMove DEF FillSend, AtThread, Frames, Labels
<1>3. TypeOK'
  BY <1>1, <1>2 DEF TypeOK, FillSend, Moved, Returned, Events
<1>4. Guarantee(t)
  BY <1>1, <1>2, FramesDiffer
     DEF FillSend, Moved, AtThread, Guarantee, Frames, SendStep, RecvStep,
         DisconnectStep, UnknownStep, OwnedStep, ReadingStep, Sender, Receiver,
         Disconnector, Reading, SendLabels, DisconnectLabels
<1>. QED
  BY <1>3, <1>4

LEMMA WSASendKeeps ==
  ASSUME IInv, NEW t \in Threads, WSASend(t)
  PROVE  TypeOK' /\ Guarantee(t)
<1>1. TypeOK /\ AtThread(t)
  BY IInvAtThread DEF IInv
<1>2. /\ Jump(t, "releaseSend") => Moved(t, "releaseSend", stack[t])
      /\ Return(t) => Returned(t)
      /\ Call(t, "disconnect", "releaseSend") =>
           \/ stack[t] = InDispatch /\ Moved(t, "disconnect", FromSend)
           \/ stack[t] = InHandler /\ Moved(t, "disconnect", FromSendInside)
  BY <1>1, JumpMove, ReturnMove, CallMove, FrameFacts
     DEF WSASend, AtThread, Frames, Labels, Backs, SendLabels, DisconnectLabels
<1>3. TypeOK'
  <2>1. wire' \in Seq(Nat)
    <3>1. wire \o sendBuffers \in Seq(Nat) /\ wire \in Seq(Nat)
      BY <1>1 DEF TypeOK
    <3>. QED
      BY <3>1 DEF WSASend
  <2>2. failed' \subseteq Failures
    BY <1>1 DEF TypeOK, WSASend, Fails
  <2>3. lock' \in Threads \cup {None} /\ posted' \subseteq Events
    BY <1>1 DEF TypeOK, WSASend, LeaveRegisterSend, Events
  <2>4. pc' \in [Threads -> Labels] /\ stack' \in [Threads -> Seq(Backs)]
    BY <1>1, <1>2 DEF WSASend, LeaveRegisterSend, Moved, Returned
  <2>. QED
    BY <1>1, <2>1, <2>2, <2>3, <2>4 DEF TypeOK, WSASend
<1>4. Guarantee(t)
  BY <1>1, <1>2, FramesDiffer
     DEF WSASend, LeaveRegisterSend, Fails, Moved, Returned, AtThread, Guarantee,
         Frames, SendStep, RecvStep, DisconnectStep, UnknownStep, OwnedStep,
         ReadingStep, Sender, Receiver, Disconnector, Reading, SendLabels,
         DisconnectLabels
<1>. QED
  BY <1>3, <1>4

LEMMA ReleaseSendKeeps ==
  ASSUME IInv, NEW t \in Threads, ReleaseSend(t)
  PROVE  TypeOK' /\ Guarantee(t)
<1>1. TypeOK /\ AtThread(t)
  BY IInvAtThread DEF IInv
<1>2. Jump(t, "resetSend") => Moved(t, "resetSend", stack[t])
  BY <1>1, JumpMove DEF ReleaseSend, AtThread, Frames, Labels
<1>3. TypeOK'
  BY <1>1, <1>2 DEF TypeOK, ReleaseSend, Moved, Returned, Events
<1>4. Guarantee(t)
  BY <1>1, <1>2, FramesDiffer
     DEF ReleaseSend, Moved, AtThread, Guarantee, Frames, SendStep, RecvStep,
         DisconnectStep, UnknownStep, OwnedStep, ReadingStep, Sender, Receiver,
         Disconnector, Reading, SendLabels, DisconnectLabels
<1>. QED
  BY <1>3, <1>4

LEMMA ResetSendKeeps ==
  ASSUME IInv, NEW t \in Threads, ResetSend(t)
  PROVE  TypeOK' /\ Guarantee(t)
<1>1. TypeOK /\ AtThread(t)
  BY IInvAtThread DEF IInv
<1>2. Return(t) => Returned(t)
  BY <1>1, ReturnMove DEF ResetSend, AtThread, Frames, Labels
<1>3. TypeOK'
  BY <1>1, <1>2 DEF TypeOK, ResetSend, LeaveRegisterSend, Moved, Returned, Events
<1>4. Guarantee(t)
  BY <1>1, <1>2, FramesDiffer
     DEF ResetSend, LeaveRegisterSend, Moved, Returned, AtThread, Guarantee, Frames,
         SendStep, RecvStep, DisconnectStep, UnknownStep, OwnedStep, ReadingStep,
         Sender, Receiver, Disconnector, Reading, SendLabels, DisconnectLabels
<1>. QED
  BY <1>3, <1>4

LEMMA ProcessSendKeeps ==
  ASSUME IInv, NEW t \in Threads, ProcessSend(t)
  PROVE  TypeOK' /\ Guarantee(t)
<1>1. TypeOK /\ AtThread(t)
  BY IInvAtThread DEF IInv
<1>2. /\ Jump(t, "nextSend") => Moved(t, "nextSend", stack[t])
      /\ Jump(t, "disconnect") => Moved(t, "disconnect", stack[t])
  BY <1>1, JumpMove DEF ProcessSend, AtThread, Frames, Labels
<1>3. TypeOK'
  BY <1>1, <1>2 DEF TypeOK, ProcessSend, Moved, Returned, Events
<1>4. Guarantee(t)
  BY <1>1, <1>2, FramesDiffer
     DEF ProcessSend, Moved, AtThread, Guarantee, Frames, SendStep, RecvStep,
         DisconnectStep, UnknownStep, OwnedStep, ReadingStep, Sender, Receiver,
         Disconnector, Reading, SendLabels, DisconnectLabels
<1>. QED
  BY <1>3, <1>4

LEMMA NextSendKeeps ==
  ASSUME IInv, NEW t \in Threads, NextSend(t)
  PROVE  TypeOK' /\ Guarantee(t)
<1>1. TypeOK /\ AtThread(t)
  BY IInvAtThread DEF IInv
<1>2. /\ Jump(t, "registerSend") => Moved(t, "registerSend", stack[t])
      /\ Return(t) => Returned(t)
  BY <1>1, JumpMove, ReturnMove DEF NextSend, AtThread, Frames, Labels
<1>3. TypeOK'
  BY <1>1, <1>2 DEF TypeOK, NextSend, CanLock, Moved, Returned, Events
<1>4. Guarantee(t)
  BY <1>1, <1>2, FramesDiffer
     DEF NextSend, CanLock, Moved, Returned, AtThread, Guarantee, Frames, SendStep,
         RecvStep, DisconnectStep, UnknownStep, OwnedStep, ReadingStep, Sender,
         Receiver, Disconnector, Reading, SendLabels, DisconnectLabels
<1>. QED
  BY <1>3, <1>4

LEMMA CallSendKeeps ==
  ASSUME IInv, NEW t \in Threads, CallSend(t)
  PROVE  TypeOK' /\ Guarantee(t)
<1>1. TypeOK /\ AtThread(t)
  BY IInvAtThread DEF IInv
<1>2. \/ pc[t] = "idle" /\ Moved(t, "send", InDispatch)
      \/ pc[t] = "onRecv" /\ Moved(t, "send", InHandler)
  <2>1. CASE pc[t] = "idle"
    <3>1. stack[t] = NoCall /\ Call(t, "send", "idle")
      BY <1>1, <2>1 DEF CallSend, AtThread, Frames
    <3>. QED
      BY <1>1, <2>1, <3>1, CallMove, FrameFacts DEF Labels, Backs
  <2>2. CASE pc[t] = "onRecv"
    <3>1. stack[t] = InDispatch /\ Call(t, "send", "onRecv")
      BY <1>1, <2>2 DEF CallSend, AtThread, Frames, SendLabels, DisconnectLabels
    <3>. QED
      BY <1>1, <2>2, <3>1, CallMove, FrameFacts DEF Labels, Backs
  <2>. QED
    BY <2>1, <2>2 DEF CallSend
<1>3. TypeOK'
  BY <1>1, <1>2, SessionAssumption
     DEF TypeOK, CallSend, Moved, Returned, Events, SessionAssumption
<1>4. Guarantee(t)
  BY <1>1, <1>2, FramesDiffer
     DEF CallSend, Moved, AtThread, Guarantee, Frames, SendStep, RecvStep,
         DisconnectStep, UnknownStep, OwnedStep, ReadingStep, Sender, Receiver,
         Disconnector, Reading, SendLabels, DisconnectLabels
<1>. QED
  BY <1>3, <1>4

LEMMA DispatchKeeps ==
  ASSUME IInv, NEW t \in Threads, NEW e \in Events, Dispatch(t, e)
  PROVE  TypeOK' /\ Guarantee(t)
<1>1. TypeOK /\ AtThread(t) /\ pc[t] = "idle" /\ stack[t] = NoCall /\ e \in posted
  BY IInvAtThread DEF IInv, Dispatch, AtThread, Frames
<1>2. /\ Call(t, Handler(e), "idle") /\ posted' = posted \ {e}
      /\ connected' = connected /\ sendRegistered' = sendRegistered /\ owner' = owner
      /\ sessions' = sessions /\ failed' = failed
  BY <1>1 DEF Dispatch, AtThread, sendVars
<1>3. /\ Handler(e) \in Labels
      /\ \/ e = "connect" /\ Handler(e) = "processConnect"
         \/ e = "recv" /\ Handler(e) = "processRecv"
         \/ e = "send" /\ Handler(e) = "processSend"
         \/ e = "disconnect" /\ Handler(e) = "processDisconnect"
  BY DEF Handler, Events, Labels
<1>4. Moved(t, Handler(e), InDispatch)
  BY <1>1, <1>2, <1>3, CallMove, FrameFacts DEF Backs
<1>5. TypeOK'
  BY <1>1, <1>2, <1>4 DEF TypeOK, Dispatch, sendVars, Moved
<1>6. OtherThreads(t) /\ Frames(t)'
  BY <1>3, <1>4, FramesDiffer DEF Moved, Frames, SendLabels, DisconnectLabels
<1>7. SendStep(t)
  BY <1>1, <1>2, <1>3, <1>4, FramesDiffer DEF SendStep, Sender, AtThread, Moved, SendLabels
<1>8. RecvStep(t)
  BY <1>1, <1>2, <1>3, <1>4, FramesDiffer DEF RecvStep, Receiver, AtThread, Moved
<1>9. DisconnectStep(t)
  BY <1>1, <1>2, <1>3, <1>4 DEF DisconnectStep, Disconnector, AtThread, Moved
<1>10. UnknownStep(t)
  BY <1>1, <1>2, <1>3, <1>4 DEF UnknownStep, AtThread, Moved
<1>11. OwnedStep(t)
  BY <1>1, <1>2, <1>3, <1>4 DEF OwnedStep, AtThread, Moved
<1>12. ReadingStep(t)
  BY <1>1, <1>2, <1>3, <1>4, FramesDiffer DEF ReadingStep, Reading, AtThread, Moved
<1>. QED
  BY <1>5, <1>6, <1>7, <1>8, <1>9, <1>10, <1>11, <1>12 DEF Guarantee

-----------------------------------------------------------------------------
LEMMA InitIInv == Init => IInv
<1>. SUFFICES ASSUME Init PROVE IInv
  OBVIOUS
<1>1. TypeOK
  <2>1. stack \in [Threads -> Seq(Backs)]
    BY DEF Init, Backs
  <2>2. sendQueue \in Seq(Nat) /\ sendBuffers \in Seq(Nat) /\ wire \in Seq(Nat)
    BY DEF Init
  <2>3. pc \in [Threads -> Labels]
    BY DEF Init, Labels
  <2>4. calls \in 0..MaxSends
    BY SessionAssumption DEF Init, SessionAssumption
  <2>. QED
    BY <2>1, <2>2, <2>3, <2>4 DEF Init, TypeOK, Events
<1>2. \A t \in Threads : pc[t] = "idle" /\ stack[t] = NoCall
  BY DEF Init, NoCall
<1>3. \A t \in Threads : Frames(t) /\ ~Sender(t) /\ ~Receiver(t) /\ ~Disconnector(t)
  BY <1>2, FramesDiffer
     DEF Frames, Sender, Receiver, Disconnector, SendLabels, DisconnectLabels
<1>4. SendToken /\ RecvToken /\ DisconnectToken
  BY <1>3 DEF Init, SendToken, RecvToken, DisconnectToken
<1>5. Unknown /\ Owned /\ Progress
  BY <1>2, FramesDiffer DEF Init, Unknown, Owned, Progress
<1>. QED
  BY <1>1, <1>3, <1>4, <1>5 DEF IInv

LEMMA EveryStepKeeps ==
  ASSUME IInv, NEW t \in Threads, CallSend(t) \/ Step(t) \/ \E e \in Events : Dispatch(t, e)
  PROVE  TypeOK' /\ Guarantee(t)
BY DisconnectKeeps, RegisterDisconnectKeeps, DisconnectExKeeps,
     ProcessDisconnectKeeps, ReleaseSessionKeeps, ProcessConnectKeeps,
     AddSessionKeeps, RegisterRecvKeeps, WSARecvKeeps, ReleaseRecvKeeps,
     ProcessRecvKeeps, OnRecvDoneKeeps, SendCheckKeeps, SendPushKeeps,
     RegisterSendKeeps, FillSendKeeps, WSASendKeeps, ReleaseSendKeeps,
     ResetSendKeeps, ProcessSendKeeps, NextSendKeeps,
     CallSendKeeps, DispatchKeeps
   DEF Step

LEMMA StepIInv == IInv /\ [Next]_vars => IInv'
<1>. SUFFICES ASSUME IInv, [Next]_vars PROVE IInv'
  OBVIOUS
<1>1. ASSUME NEW t \in Threads, CallSend(t) \/ Step(t) \/ \E e \in Events : Dispatch(t, e)
      PROVE  IInv'
  <2>1. TypeOK' /\ Guarantee(t)
    BY <1>1, EveryStepKeeps
  <2>. QED
    BY <2>1, GuaranteeSuffices
<1>2. CASE UNCHANGED vars
  BY <1>2 DEF vars, IInv, TypeOK, Frames, SendToken, Sender, RecvToken, Receiver,
              DisconnectToken, Disconnector, Unknown, Owned, Progress, Reading
<1>. QED
  BY <1>1, <1>2 DEF Next, Wait

LEMMA SpecIInv == Spec => []IInv
BY InitIInv, StepIInv, PTL DEF Spec

\* The frame that releases a failed send is always on top.
LEMMA ReturnsToRelease ==
  ASSUME IInv, NEW t \in Threads
  PROVE  (\E i \in 1..Len(stack[t]) : stack[t][i] = "releaseSend") <=>
           stack[t] \in {FromSend, FromSendInside}
<1>1. stack[t] \in {NoCall, InDispatch, InHandler, FromRecv, FromSend, FromSendInside}
  BY DEF IInv, Frames
<1>2. \A s \in {NoCall, InDispatch, InHandler, FromRecv} :
        ~\E i \in 1..Len(s) : s[i] = "releaseSend"
  BY DEF NoCall, InDispatch, InHandler, FromRecv
<1>3. \A s \in {FromSend, FromSendInside} : 1 \in 1..Len(s) /\ s[1] = "releaseSend"
  BY DEF FromSend, FromSendInside
<1>. QED
  BY <1>1, <1>2, <1>3

\* _sendEvent has one user at a time: the kernel or one thread (Session.cpp:33,
\* the exchange, and Session.cpp:278, the completion).
THEOREM SendsOneByOne == Spec => []OneSend
<1>1. IInv => OneSend
  <2>. SUFFICES ASSUME IInv PROVE OneSend
    OBVIOUS
  <2>1. \A t \in Threads : Sending(t) => Sender(t)
    BY ReturnsToRelease DEF Sending, Sender, SendLabels
  <2>. QED
    BY <2>1 DEF OneSend, IInv, SendToken
<1>. QED
  BY <1>1, SpecIInv, PTL

\* What the kernel has keeps its owner reference, nobody meets an event without
\* one, and the service releases a session it holds, once (Session.cpp:48, the
\* exchange; Service.cpp:55, the assertion).
THEOREM PostedKeepsOwner == Spec => []PostedIsOwned
<1>1. IInv => PostedIsOwned
  BY DEF IInv, Owned, PostedIsOwned
<1>. QED
  BY <1>1, SpecIInv, PTL

\* A connected session with no thread at work is reading, unless WSARecv failed
\* (Session.cpp:133 and :260).
THEOREM ReadsOn == Spec => []KeepsReading
<1>1. IInv => KeepsReading
  <2>. SUFFICES ASSUME IInv, AllIdle, connected PROVE "recv" \in posted \cup failed
    BY DEF KeepsReading
  <2>1. \A t \in Threads : ~Reading(t)
    BY FramesDiffer DEF AllIdle, IInv, Frames, Reading
  <2>. QED
    BY <2>1 DEF IInv, Progress
<1>. QED
  BY <1>1, SpecIInv, PTL

-----------------------------------------------------------------------------
(***************************************************************************)
(* Session implements OutputStream, liveness aside.                        *)
(*                                                                         *)
(* The argument: _sendEvent.sendBuffers holds something only while a send  *)
(* is under way, so what FillSend finds in it is nothing.  The thread with *)
(* the send token holds the buffers between FillSend and the WSASend;      *)
(* there pending is the event followed by the queue, at all other times    *)
(* the queue.  It clears the event only when the connection is gone or     *)
(* WSASend has failed.                                                     *)
(***************************************************************************)

\* Between FillSend and the WSASend or the end of its error path.
Held(t) == pc[t] \in {"wsaSend", "releaseSend"} \/ stack[t] \in {FromSend, FromSendInside}

Loaded(t) == Held(t) \/ pc[t] = "processSend"

\* Between the call of Send and its push.
Sends(t) == pc[t] \in {"send", "sendPush"}

Callers == {t \in Threads : Sends(t)}

EmptyEvent == sendBuffers # <<>> => "send" \in posted \/ \E t \in Threads : Loaded(t)

LostAt(t) ==
  /\ pc[t] = "releaseSend" => ~connected \/ "send" \in failed
  /\ stack[t] \in {FromSend, FromSendInside} /\ pc[t] # "disconnect" => ~connected

Counted == IsFiniteSet(Callers) /\ accepted + Cardinality(Callers) <= calls

StreamInv == EmptyEvent /\ (\A t \in Threads : LostAt(t)) /\ Counted

\* The step is one of OutputStream's, or none.
Promise == [Stream!Next]_(Stream!vars)

\* What OutputStream's pending buffers are.
View ==
  /\ (\E t \in Threads : Held(t)) => Outgoing = sendBuffers \o sendQueue
  /\ (\A t \in Threads : ~Held(t)) => Outgoing = sendQueue

LEMMA OutgoingView == IInv => View
<1>. SUFFICES ASSUME IInv PROVE View
  OBVIOUS
<1>1. \A t \in Threads :
        Held(t) <=> \/ pc[t] \in {"wsaSend", "releaseSend"}
                    \/ \E i \in 1..Len(stack[t]) : stack[t][i] = "releaseSend"
  BY ReturnsToRelease DEF Held
<1>. QED
  BY <1>1 DEF View, Outgoing

LEMMA OutgoingViewNext == IInv' => View'
BY OutgoingView, PTL

\* Whoever holds buffers has the send token.
LEMMA HolderSends ==
  ASSUME IInv, NEW t \in Threads, NEW u \in Threads, Sender(t), Held(u)
  PROVE  u = t
BY DEF IInv, SendToken, Held, Sender, SendLabels

-----------------------------------------------------------------------------
(* What a step may do to the buffers, stated about its thread. *)

CountStep(t) ==
  \/ (Sends(t)' => Sends(t)) /\ accepted' = accepted /\ calls' = calls
  \/ ~Sends(t) /\ accepted' = accepted /\ calls' = calls + 1
  \/ Sends(t) /\ ~Sends(t)' /\ accepted' = accepted + 1 /\ calls' = calls

StreamStep(t) ==
  /\ sendBuffers' # <<>> => sendBuffers # <<>> \/ Loaded(t)'
  /\ sendBuffers' # <<>> /\ ("send" \in posted \/ Loaded(t)) => "send" \in posted' \/ Loaded(t)'
  /\ LostAt(t)'
  /\ "send" \in failed => "send" \in failed'
  /\ CountStep(t)

\* A step that gives this guarantee keeps the invariant.
LEMMA StreamStepSuffices ==
  ASSUME IInv, StreamInv, NEW t \in Threads, TypeOK', Guarantee(t), StreamStep(t)
  PROVE  StreamInv'
<1>1. \A u \in Threads \ {t} : /\ Loaded(u)' <=> Loaded(u)
                               /\ Sends(u)' <=> Sends(u)
                               /\ pc'[u] = pc[u] /\ stack'[u] = stack[u]
  BY DEF Guarantee, OtherThreads, Loaded, Held, Sends
<1>2. EmptyEvent'
  BY <1>1 DEF StreamInv, EmptyEvent, StreamStep
<1>3. ASSUME NEW u \in Threads PROVE LostAt(u)'
  <2>1. CASE u = t
    BY <2>1 DEF StreamStep
  <2>2. CASE u # t
    <3>1. pc[u] = "releaseSend" \/ stack[u] \in {FromSend, FromSendInside} => sessions # "out"
      <4>1. stack[u] \in {FromSend, FromSendInside} => pc[u] \in DisconnectLabels
        BY DEF IInv, Frames
      <4>. QED
        BY <4>1 DEF IInv, Unknown, DisconnectLabels
    <3>2. connected' => connected \/ sessions = "out"
      BY DEF Guarantee, DisconnectStep
    <3>. QED
      BY <1>1, <2>2, <3>1, <3>2 DEF StreamInv, LostAt, StreamStep
  <2>. QED
    BY <2>1, <2>2
<1>4. Counted'
  <2>1. IsFiniteSet(Callers) /\ Cardinality(Callers) \in Nat
        /\ accepted + Cardinality(Callers) <= calls
    BY FS_CardinalityType DEF StreamInv, Counted
  <2>2. accepted \in Nat /\ calls \in Nat
    BY SessionAssumption DEF IInv, TypeOK, SessionAssumption
  <2>3. CASE (Sends(t)' => Sends(t)) /\ accepted' = accepted /\ calls' = calls
    <3>1. Callers' \subseteq Callers
      BY <1>1, <2>3 DEF Callers
    <3>2. IsFiniteSet(Callers') /\ Cardinality(Callers') <= Cardinality(Callers)
          /\ Cardinality(Callers') \in Nat
      BY <2>1, <3>1, FS_Subset, FS_CardinalityType
    <3>. QED
      BY <2>1, <2>2, <2>3, <3>2 DEF Counted
  <2>4. CASE ~Sends(t) /\ accepted' = accepted /\ calls' = calls + 1
    <3>1. Callers' \subseteq Callers \cup {t}
      BY <1>1, <2>4 DEF Callers
    <3>2. IsFiniteSet(Callers \cup {t}) /\ Cardinality(Callers \cup {t}) <= Cardinality(Callers) + 1
          /\ Cardinality(Callers \cup {t}) \in Nat
      <4>1. IsFiniteSet(Callers \cup {t})
            /\ \/ Cardinality(Callers \cup {t}) = Cardinality(Callers)
               \/ Cardinality(Callers \cup {t}) = Cardinality(Callers) + 1
        BY <2>1, FS_AddElement
      <4>. QED
        BY <2>1, <4>1
    <3>3. IsFiniteSet(Callers') /\ Cardinality(Callers') <= Cardinality(Callers \cup {t})
          /\ Cardinality(Callers') \in Nat
      BY <3>1, <3>2, FS_Subset, FS_CardinalityType
    <3>. QED
      BY <2>1, <2>2, <2>4, <3>2, <3>3 DEF Counted
  <2>5. CASE Sends(t) /\ ~Sends(t)' /\ accepted' = accepted + 1 /\ calls' = calls
    <3>1. Callers' = Callers \ {t} /\ t \in Callers
      BY <1>1, <2>5 DEF Callers
    <3>2. IsFiniteSet(Callers') /\ Cardinality(Callers') = Cardinality(Callers) - 1
      BY <2>1, <3>1, FS_RemoveElement
    <3>. QED
      BY <2>1, <2>2, <2>5, <3>2 DEF Counted
  <2>. QED
    BY <2>3, <2>4, <2>5 DEF StreamStep, CountStep
<1>. QED
  BY <1>2, <1>3, <1>4 DEF StreamInv

\* A step that leaves the buffers where they are.
KeepsBuffers(t) ==
  /\ UNCHANGED <<sendBuffers, sendQueue, wire>>
  /\ Held(t)' <=> Held(t)
  /\ "send" \in posted \/ Loaded(t) => "send" \in posted' \/ Loaded(t)'
  /\ LostAt(t)'
  /\ CountStep(t)
  /\ \/ failed' = failed
     \/ connected' = connected /\ "send" \notin failed' \ failed /\ failed \subseteq failed'
     \/ connected' = connected /\ connected /\ "send" \in failed'

LEMMA KeepsBuffersSuffices ==
  ASSUME IInv, IInv', StreamInv, NEW t \in Threads, Guarantee(t), KeepsBuffers(t)
  PROVE  StreamStep(t) /\ Promise
<1>1. StreamStep(t)
  BY DEF KeepsBuffers, StreamStep
<1>. SUFFICES Promise
  BY <1>1
<1>2. \A u \in Threads : Held(u)' <=> Held(u)
  BY DEF Guarantee, OtherThreads, Held, KeepsBuffers
<1>3. Outgoing' = Outgoing /\ wire' = wire
  BY <1>2, OutgoingView, OutgoingViewNext DEF KeepsBuffers, View
<1>4. connected \in BOOLEAN /\ connected' \in BOOLEAN
  BY DEF IInv, TypeOK
<1>5. CASE ("send" \in failed') <=> ("send" \in failed)
  <2>1. ("send" \in failed') = ("send" \in failed)
    BY <1>5
  <2>2. CASE connected' = connected
    BY <1>3, <2>1, <2>2 DEF Promise, Stream!vars
  <2>3. CASE ~connected /\ connected'
    BY <1>3, <2>1, <2>3 DEF Promise, Stream!Next, Stream!Open
  <2>4. CASE connected /\ ~connected'
    BY <1>3, <2>1, <2>4 DEF Promise, Stream!Next, Stream!Close
  <2>. QED
    BY <1>4, <2>2, <2>3, <2>4
<1>6. CASE connected' = connected /\ connected /\ "send" \in failed'
  <2>1. ("send" \in failed') = TRUE
    BY <1>6
  <2>. QED
    BY <1>3, <1>6, <2>1 DEF Promise, Stream!Next, Stream!Fail
<1>7. \/ ("send" \in failed') <=> ("send" \in failed)
      \/ connected' = connected /\ connected /\ "send" \in failed'
  BY DEF KeepsBuffers
<1>. QED
  BY <1>5, <1>6, <1>7

-----------------------------------------------------------------------------
(* The steps that leave the buffers where they are. *)

LEMMA ControlKeepsBuffers ==
  ASSUME IInv, StreamInv, NEW t \in Threads,
         \/ Disconnect(t) \/ RegisterDisconnect(t) \/ DisconnectEx(t)
         \/ ProcessDisconnect(t) \/ ReleaseSession(t)
         \/ ProcessConnect(t) \/ AddSession(t) \/ RegisterRecv(t)
         \/ ReleaseRecv(t) \/ ProcessRecv(t) \/ OnRecvDone(t)
         \/ SendCheck(t) \/ RegisterSend(t) \/ ResetSend(t) \/ NextSend(t)
  PROVE  KeepsBuffers(t)
<1>1. TypeOK /\ AtThread(t) /\ LostAt(t)
  BY IInvAtThread DEF IInv, StreamInv
<1>2. pc[t] # "idle" => (Return(t) => Returned(t))
  BY <1>1, ReturnMove DEF AtThread
<1>3. \A label \in Labels : Jump(t, label) => Moved(t, label, stack[t])
  BY <1>1, JumpMove
<1>. USE FramesDiffer
     DEF KeepsBuffers, CountStep, Sends, Loaded, Held, LostAt, Moved, Returned, AtThread, Frames,
         sendVars, SendLabels, DisconnectLabels
<1>4. CASE Disconnect(t)
  <2>1. Jump(t, "registerDisconnect") => Moved(t, "registerDisconnect", stack[t])
    BY <1>3 DEF Labels
  <2>. QED
    BY <1>1, <1>2, <1>4, <2>1 DEF Disconnect
<1>5. CASE RegisterDisconnect(t)
  <2>1. Jump(t, "disconnectEx") => Moved(t, "disconnectEx", stack[t])
    BY <1>3 DEF Labels
  <2>. QED
    BY <1>1, <1>2, <1>5, <2>1 DEF RegisterDisconnect
<1>6. CASE DisconnectEx(t)
  BY <1>1, <1>2, <1>6 DEF DisconnectEx, Fails
<1>7. CASE ProcessDisconnect(t)
  <2>1. Jump(t, "releaseSession") => Moved(t, "releaseSession", stack[t])
    BY <1>3 DEF Labels
  <2>. QED
    BY <1>1, <1>2, <1>7, <2>1 DEF ProcessDisconnect
<1>8. CASE ReleaseSession(t)
  BY <1>1, <1>2, <1>8 DEF ReleaseSession, Disconnector
<1>9. CASE ProcessConnect(t)
  <2>1. Jump(t, "addSession") => Moved(t, "addSession", stack[t])
    BY <1>3 DEF Labels
  <2>. QED
    BY <1>1, <1>2, <1>9, <2>1 DEF ProcessConnect
<1>10. CASE AddSession(t)
  <2>1. Jump(t, "registerRecv") => Moved(t, "registerRecv", stack[t])
    BY <1>3 DEF Labels
  <2>. QED
    BY <1>1, <1>2, <1>10, <2>1 DEF AddSession
<1>11. CASE RegisterRecv(t)
  <2>1. Jump(t, "wsaRecv") => Moved(t, "wsaRecv", stack[t])
    BY <1>3 DEF Labels
  <2>. QED
    BY <1>1, <1>2, <1>11, <2>1 DEF RegisterRecv
<1>12. CASE ReleaseRecv(t)
  BY <1>1, <1>2, <1>12 DEF ReleaseRecv
<1>13. CASE ProcessRecv(t)
  <2>1. /\ Jump(t, "onRecv") => Moved(t, "onRecv", stack[t])
        /\ Jump(t, "disconnect") => Moved(t, "disconnect", stack[t])
    BY <1>3 DEF Labels
  <2>. QED
    BY <1>1, <1>2, <1>13, <2>1 DEF ProcessRecv
<1>14. CASE OnRecvDone(t)
  <2>1. Jump(t, "registerRecv") => Moved(t, "registerRecv", stack[t])
    BY <1>3 DEF Labels
  <2>. QED
    BY <1>1, <1>2, <1>14, <2>1 DEF OnRecvDone
<1>15. CASE SendCheck(t)
  <2>1. Jump(t, "sendPush") => Moved(t, "sendPush", stack[t])
    BY <1>3 DEF Labels
  <2>. QED
    BY <1>1, <1>2, <1>15, <2>1 DEF SendCheck
<1>16. CASE RegisterSend(t)
  <2>1. Jump(t, "fillSend") => Moved(t, "fillSend", stack[t])
    BY <1>3 DEF Labels
  <2>. QED
    BY <1>1, <1>2, <1>16, <2>1 DEF RegisterSend, LeaveRegisterSend
<1>17. CASE ResetSend(t)
  BY <1>1, <1>2, <1>17 DEF ResetSend, LeaveRegisterSend
<1>18. CASE NextSend(t)
  <2>1. Jump(t, "registerSend") => Moved(t, "registerSend", stack[t])
    BY <1>3 DEF Labels
  <2>. QED
    BY <1>1, <1>2, <1>18, <2>1 DEF NextSend, CanLock
<1>. QED
  BY <1>4, <1>5, <1>6, <1>7, <1>8, <1>9, <1>10, <1>11, <1>12, <1>13,
     <1>14, <1>15, <1>16, <1>17, <1>18

LEMMA CallSendKeepsBuffers ==
  ASSUME IInv, StreamInv, NEW t \in Threads, CallSend(t)
  PROVE  KeepsBuffers(t)
<1>1. TypeOK /\ AtThread(t) /\ LostAt(t)
  BY IInvAtThread DEF IInv, StreamInv
<1>2. \/ pc[t] = "idle" /\ stack[t] = NoCall /\ Moved(t, "send", InDispatch)
      \/ pc[t] = "onRecv" /\ stack[t] = InDispatch /\ Moved(t, "send", InHandler)
  <2>1. CASE pc[t] = "idle"
    <3>1. stack[t] = NoCall /\ Call(t, "send", "idle")
      BY <1>1, <2>1 DEF CallSend, AtThread, Frames
    <3>. QED
      BY <1>1, <2>1, <3>1, CallMove, FrameFacts DEF Labels, Backs
  <2>2. CASE pc[t] = "onRecv"
    <3>1. stack[t] = InDispatch /\ Call(t, "send", "onRecv")
      BY <1>1, <2>2 DEF CallSend, AtThread, Frames, SendLabels, DisconnectLabels
    <3>. QED
      BY <1>1, <2>2, <3>1, CallMove, FrameFacts DEF Labels, Backs
  <2>. QED
    BY <2>1, <2>2 DEF CallSend
<1>. QED
  BY <1>1, <1>2, FramesDiffer
     DEF CallSend, Moved, KeepsBuffers, CountStep, Sends, Loaded, Held, LostAt

LEMMA WSARecvKeepsBuffers ==
  ASSUME IInv, StreamInv, NEW t \in Threads, WSARecv(t)
  PROVE  KeepsBuffers(t)
<1>1. TypeOK /\ AtThread(t) /\ LostAt(t)
  BY IInvAtThread DEF IInv, StreamInv
<1>2. pc[t] = "wsaRecv" /\ stack[t] = InDispatch
  BY <1>1 DEF WSARecv, AtThread, Frames, SendLabels, DisconnectLabels
<1>3. /\ Jump(t, "releaseRecv") => Moved(t, "releaseRecv", InDispatch)
      /\ Return(t) => Moved(t, "idle", NoCall)
      /\ Call(t, "disconnect", "releaseRecv") => Moved(t, "disconnect", FromRecv)
  BY <1>1, <1>2, JumpMove, ReturnMove, CallMove, FrameFacts, FramesDiffer
     DEF AtThread, Returned, Labels, Backs
<1>4. failed' = failed \/ failed' = failed \cup {"recv"}
  BY DEF WSARecv, Fails
<1>. QED
  BY <1>1, <1>2, <1>3, <1>4, FramesDiffer
     DEF WSARecv, Moved, KeepsBuffers, CountStep, Sends, Loaded, Held, LostAt

LEMMA DispatchKeepsBuffers ==
  ASSUME IInv, StreamInv, NEW t \in Threads, NEW e \in Events, Dispatch(t, e)
  PROVE  KeepsBuffers(t)
<1>1. TypeOK /\ AtThread(t) /\ pc[t] = "idle" /\ stack[t] = NoCall /\ e \in posted
  BY IInvAtThread DEF IInv, Dispatch, AtThread, Frames
<1>2. /\ Call(t, Handler(e), "idle") /\ posted' = posted \ {e}
      /\ UNCHANGED <<sendBuffers, sendQueue, wire, accepted, calls, failed>>
  BY <1>1 DEF Dispatch, AtThread, sendVars
<1>3. /\ Handler(e) \in Labels
      /\ \/ e = "connect" /\ Handler(e) = "processConnect"
         \/ e = "recv" /\ Handler(e) = "processRecv"
         \/ e = "send" /\ Handler(e) = "processSend"
         \/ e = "disconnect" /\ Handler(e) = "processDisconnect"
  BY DEF Handler, Events, Labels
<1>4. Moved(t, Handler(e), InDispatch)
  BY <1>1, <1>2, <1>3, CallMove, FrameFacts DEF Backs
<1>. QED
  BY <1>1, <1>2, <1>3, <1>4, FramesDiffer
     DEF Moved, KeepsBuffers, CountStep, Sends, Loaded, Held, LostAt

-----------------------------------------------------------------------------
(* The steps that move buffers. *)

\* A sequence and what follows it.
LEMMA Halves ==
  ASSUME NEW S, NEW a \in Seq(S), NEW b \in Seq(S), a # <<>>
  PROVE  /\ Len(a) \in 1..Len(a \o b)
         /\ SubSeq(a \o b, 1, Len(a)) = a
         /\ SubSeq(a \o b, Len(a) + 1, Len(a \o b)) = b
<1>1. /\ Len(a) \in Nat /\ Len(b) \in Nat /\ Len(a \o b) = Len(a) + Len(b)
      /\ Len(a) # 0
  BY ConcatProperties, LenProperties, EmptySeq
<1>2. SubSeq(a \o b, 1, Len(a)) = a
  <2>1. 1 \in 1..Len(a) /\ Len(a) \in 1..Len(a)
    BY <1>1
  <2>. QED
    BY <2>1, SubSeqOfConcat1, SubSeqFull
<1>3. SubSeq(a \o b, Len(a) + 1, Len(a \o b)) = b
  <2>1. CASE Len(b) = 0
    <3>1. b = <<>> /\ Len(a) + 1 \in Int /\ Len(a \o b) \in Int /\ Len(a \o b) < Len(a) + 1
      BY <1>1, <2>1, EmptySeq
    <3>. QED
      BY <3>1, SubSeqEmpty
  <2>2. CASE Len(b) # 0
    <3>1. /\ Len(a) + 1 \in Len(a) + 1..Len(a) + Len(b)
          /\ Len(a) + Len(b) \in Len(a) + 1..Len(a) + Len(b)
          /\ (Len(a) + 1) - Len(a) = 1 /\ (Len(a) + Len(b)) - Len(a) = Len(b)
      BY <1>1, <2>2
    <3>2. SubSeq(a \o b, Len(a) + 1, Len(a) + Len(b)) = SubSeq(b, 1, Len(b))
      BY <3>1, SubSeqOfConcat2
    <3>. QED
      BY <1>1, <3>2, SubSeqFull
  <2>. QED
    BY <2>1, <2>2
<1>4. Len(a) \in 1..Len(a \o b)
  BY <1>1
<1>. QED
  BY <1>2, <1>3, <1>4

LEMMA AppendBehind ==
  ASSUME NEW S, NEW a \in Seq(S), NEW b \in Seq(S), NEW x \in S
  PROVE  a \o Append(b, x) = Append(a \o b, x)
<1>1. /\ Len(a) \in Nat /\ Len(b) \in Nat
      /\ a \o b \in Seq(S) /\ Len(a \o b) = Len(a) + Len(b)
      /\ \A i \in 1..(Len(a) + Len(b)) : (a \o b)[i] = IF i <= Len(a) THEN a[i] ELSE b[i - Len(a)]
  BY ConcatProperties, LenProperties
<1>2. /\ Append(b, x) \in Seq(S) /\ Len(Append(b, x)) = Len(b) + 1
      /\ \A i \in 1..Len(b) : Append(b, x)[i] = b[i]
      /\ Append(b, x)[Len(b) + 1] = x
  BY AppendProperties
<1>3. PICK c \in Seq(S) : c = Append(b, x)
  BY <1>2
<1>4. PICK ab \in Seq(S) : ab = a \o b
  BY <1>1
<1>5. /\ a \o c \in Seq(S) /\ Len(a \o c) = Len(a) + Len(c)
      /\ \A i \in 1..(Len(a) + Len(c)) : (a \o c)[i] = IF i <= Len(a) THEN a[i] ELSE c[i - Len(a)]
  BY ConcatProperties
<1>6. /\ Append(ab, x) \in Seq(S) /\ Len(Append(ab, x)) = Len(ab) + 1
      /\ \A i \in 1..Len(ab) : Append(ab, x)[i] = ab[i]
      /\ Append(ab, x)[Len(ab) + 1] = x
  BY AppendProperties
<1>7. Len(a \o c) = Len(Append(ab, x))
  BY <1>1, <1>2, <1>3, <1>4, <1>5, <1>6
<1>8. ASSUME NEW i \in 1..Len(a \o c) PROVE (a \o c)[i] = Append(ab, x)[i]
  <2>1. /\ i \in 1..(Len(a) + Len(b) + 1) /\ Len(c) = Len(b) + 1
        /\ Len(ab) = Len(a) + Len(b)
    BY <1>1, <1>2, <1>3, <1>4, <1>5
  <2>2. CASE i <= Len(a)
    BY <1>1, <1>4, <1>5, <1>6, <2>1, <2>2
  <2>3. CASE Len(a) < i /\ i <= Len(a) + Len(b)
    <3>1. i - Len(a) \in 1..Len(b)
      BY <1>1, <2>1, <2>3
    <3>2. c[i - Len(a)] = b[i - Len(a)]
      BY <1>2, <1>3, <3>1
    <3>. QED
      BY <1>1, <1>4, <1>5, <1>6, <2>1, <2>3, <3>2
  <2>4. CASE i = Len(a) + Len(b) + 1
    <3>1. i - Len(a) = Len(b) + 1 /\ c[Len(b) + 1] = x
      BY <1>1, <1>2, <1>3, <2>4
    <3>2. Append(ab, x)[i] = x
      BY <1>6, <2>1, <2>4
    <3>. QED
      BY <1>1, <1>5, <2>1, <2>4, <3>1, <3>2
  <2>. QED
    BY <1>1, <2>1, <2>2, <2>3, <2>4
<1>9. a \o c = Append(ab, x)
  BY <1>5, <1>6, <1>7, <1>8, SeqEqual
<1>. QED
  BY <1>3, <1>4, <1>9

LEMMA SendPushPromised ==
  ASSUME IInv, IInv', StreamInv, NEW t \in Threads, Guarantee(t), SendPush(t)
  PROVE  StreamStep(t) /\ Promise
<1>1. TypeOK /\ AtThread(t) /\ LostAt(t)
  BY IInvAtThread DEF IInv, StreamInv
<1>2. pc[t] = "sendPush" /\ stack[t] \in {InDispatch, InHandler}
  BY <1>1 DEF SendPush, AtThread, Frames, SendLabels, DisconnectLabels
<1>3. \/ Moved(t, "registerSend", stack[t])
      \/ stack[t] = InDispatch /\ Moved(t, "idle", NoCall)
      \/ stack[t] = InHandler /\ Moved(t, "onRecv", InDispatch)
  BY <1>1, <1>2, JumpMove, ReturnMove, FramesDiffer DEF SendPush, AtThread, Returned, Labels
<1>4. /\ accepted' = accepted + 1 /\ sendQueue' = Append(sendQueue, accepted + 1)
      /\ UNCHANGED <<connected, sendBuffers, posted, wire, calls, failed>>
  BY DEF SendPush
<1>5. StreamStep(t)
  BY <1>1, <1>2, <1>3, <1>4, FramesDiffer
     DEF Moved, StreamStep, CountStep, Sends, Loaded, Held, LostAt
<1>6. \A u \in Threads : Held(u)' <=> Held(u)
  BY <1>2, <1>3, FramesDiffer DEF Guarantee, OtherThreads, Moved, Held
<1>7. /\ accepted + 1 \in Nat
      /\ sendBuffers \in Seq(Nat) /\ sendQueue \in Seq(Nat)
  BY <1>1 DEF TypeOK
<1>8. Outgoing' = Append(Outgoing, accepted + 1)
  <2>1. CASE \E u \in Threads : Held(u)
    <3>1. Outgoing = sendBuffers \o sendQueue
      BY <2>1, OutgoingView DEF View
    <3>2. Outgoing' = sendBuffers \o Append(sendQueue, accepted + 1)
      BY <1>4, <1>6, <2>1, OutgoingViewNext DEF View
    <3>3. sendBuffers \o Append(sendQueue, accepted + 1)
            = Append(sendBuffers \o sendQueue, accepted + 1)
      BY <1>7, AppendBehind
    <3>. QED
      BY <3>1, <3>2, <3>3
  <2>2. CASE \A u \in Threads : ~Held(u)
    BY <1>4, <1>6, <2>2, OutgoingView, OutgoingViewNext DEF View
  <2>. QED
    BY <2>1, <2>2
<1>9. accepted + 1 \in 1..MaxSends
  <2>1. IsFiniteSet(Callers) /\ Cardinality(Callers) \in Nat
        /\ accepted + Cardinality(Callers) <= calls
    BY FS_CardinalityType DEF StreamInv, Counted
  <2>2. t \in Callers
    BY <1>2 DEF Callers, Sends
  <2>3. Cardinality(Callers) # 0
    BY <2>1, <2>2, FS_EmptySet
  <2>. QED
    BY <1>1, <2>1, <2>3, SessionAssumption DEF TypeOK, SessionAssumption
<1>10. Promise
  <2>1. ("send" \in failed') = ("send" \in failed)
    BY <1>4
  <2>. QED
    BY <1>4, <1>8, <1>9, <2>1 DEF Promise, Stream!Next, Stream!Accept
<1>. QED
  BY <1>5, <1>10

LEMMA FillSendPromised ==
  ASSUME IInv, IInv', StreamInv, NEW t \in Threads, Guarantee(t), FillSend(t)
  PROVE  StreamStep(t) /\ Promise
<1>1. TypeOK /\ AtThread(t) /\ LostAt(t)
  BY IInvAtThread DEF IInv, StreamInv
<1>2. pc[t] = "fillSend" /\ stack[t] \in {InDispatch, InHandler}
  BY <1>1 DEF FillSend, AtThread, Frames, SendLabels, DisconnectLabels
<1>3. Moved(t, "wsaSend", stack[t])
  BY <1>1, JumpMove DEF FillSend, Labels
<1>4. /\ sendBuffers' = sendBuffers \o sendQueue /\ sendQueue' = <<>>
      /\ UNCHANGED <<connected, posted, wire, accepted, calls, failed>>
  BY DEF FillSend
<1>5. Sender(t) /\ "send" \notin posted
  BY <1>1, <1>2 DEF AtThread, Sender, SendLabels
<1>6. \A u \in Threads : ~Loaded(u)
  <2>1. ASSUME NEW u \in Threads, Loaded(u) PROVE Sender(u)
    BY <2>1 DEF Loaded, Held, Sender, SendLabels
  <2>2. ~Loaded(t)
    BY <1>2, FramesDiffer DEF Loaded, Held
  <2>. QED
    BY <1>5, <2>1, <2>2 DEF IInv, SendToken
<1>7. sendBuffers = <<>>
  BY <1>5, <1>6 DEF StreamInv, EmptyEvent
<1>8. StreamStep(t)
  BY <1>1, <1>2, <1>3, <1>4, FramesDiffer
     DEF Moved, StreamStep, CountStep, Sends, Loaded, Held, LostAt
<1>9. Outgoing' = Outgoing
  <2>1. Outgoing = sendQueue
    BY <1>6, OutgoingView DEF View, Loaded
  <2>2. Held(t)'
    BY <1>3 DEF Moved, Held
  <2>3. Outgoing' = (sendBuffers \o sendQueue) \o <<>>
    BY <1>4, <2>2, OutgoingViewNext DEF View
  <2>4. sendQueue \in Seq(Nat)
    BY <1>1 DEF TypeOK
  <2>5. (sendBuffers \o sendQueue) \o <<>> = sendQueue
    BY <1>7, <2>4, ConcatEmptySeq
  <2>. QED
    BY <2>1, <2>3, <2>5
<1>10. Promise
  <2>1. ("send" \in failed') = ("send" \in failed)
    BY <1>4
  <2>. QED
    BY <1>4, <1>9, <2>1 DEF Promise, Stream!vars
<1>. QED
  BY <1>8, <1>10

\* What the abstract stream makes of buffers that leave the event.
LEMMA BuffersLeave ==
  ASSUME IInv, IInv', NEW t \in Threads, Guarantee(t), Held(t), ~Held(t)',
         sendQueue' = sendQueue, connected' = connected, failed' = failed,
         \/ wire' = wire \o sendBuffers
         \/ wire' = wire /\ (~connected \/ "send" \in failed)
  PROVE  Promise
<1>1. Sender(t)
  BY DEF Held, Sender, SendLabels
<1>2. \A u \in Threads : ~Held(u)'
  BY <1>1, HolderSends DEF Guarantee, OtherThreads, Held
<1>3. Outgoing = sendBuffers \o sendQueue /\ Outgoing' = sendQueue
  BY <1>2, OutgoingView, OutgoingViewNext DEF View
<1>4. sendBuffers \in Seq(Nat) /\ sendQueue \in Seq(Nat) /\ wire \in Seq(Nat)
  BY DEF IInv, TypeOK
<1>5. ("send" \in failed') = ("send" \in failed)
  OBVIOUS
<1>6. CASE sendBuffers = <<>>
  <2>1. wire \o <<>> = wire /\ <<>> \o sendQueue = sendQueue
    BY <1>4, ConcatEmptySeq
  <2>. QED
    BY <1>3, <1>5, <1>6, <2>1 DEF Promise, Stream!vars
<1>7. CASE sendBuffers # <<>>
  <2>1. /\ Len(sendBuffers) \in 1..Len(Outgoing)
        /\ SubSeq(Outgoing, 1, Len(sendBuffers)) = sendBuffers
        /\ SubSeq(Outgoing, Len(sendBuffers) + 1, Len(Outgoing)) = sendQueue
    BY <1>3, <1>4, <1>7, Halves
  <2>2. CASE wire' = wire \o sendBuffers
    <3>1. Stream!Transmit(Len(sendBuffers))
      BY <1>3, <1>5, <2>1, <2>2 DEF Stream!Transmit
    <3>. QED
      BY <2>1, <3>1 DEF Promise, Stream!Next
  <2>3. CASE wire' = wire /\ (~connected \/ "send" \in failed)
    <3>1. Stream!Drop(Len(sendBuffers))
      BY <1>3, <1>5, <2>1, <2>3 DEF Stream!Drop
    <3>. QED
      BY <2>1, <3>1 DEF Promise, Stream!Next
  <2>. QED
    BY <2>2, <2>3
<1>. QED
  BY <1>6, <1>7

LEMMA WSASendPromised ==
  ASSUME IInv, IInv', StreamInv, NEW t \in Threads, Guarantee(t), WSASend(t)
  PROVE  StreamStep(t) /\ Promise
<1>1. TypeOK /\ AtThread(t) /\ LostAt(t)
  BY IInvAtThread DEF IInv, StreamInv
<1>2. pc[t] = "wsaSend" /\ stack[t] \in {InDispatch, InHandler}
  BY <1>1 DEF WSASend, AtThread, Frames, SendLabels, DisconnectLabels
<1>3. UNCHANGED <<connected, sendQueue, sendBuffers, accepted, calls>>
  BY DEF WSASend
<1>4. CASE /\ posted' = posted \cup {"send"} /\ wire' = wire \o sendBuffers
           /\ LeaveRegisterSend(t) /\ failed' = failed
  <2>1. \/ stack[t] = InDispatch /\ Moved(t, "idle", NoCall)
        \/ stack[t] = InHandler /\ Moved(t, "onRecv", InDispatch)
    BY <1>1, <1>2, <1>4, ReturnMove, FramesDiffer DEF LeaveRegisterSend, AtThread, Returned
  <2>2. StreamStep(t)
    BY <1>1, <1>2, <1>3, <1>4, <2>1, FramesDiffer
       DEF Moved, StreamStep, CountStep, Sends, Loaded, Held, LostAt
  <2>3. Held(t) /\ ~Held(t)'
    BY <1>2, <2>1, FramesDiffer DEF Moved, Held
  <2>. QED
    BY <1>3, <1>4, <2>2, <2>3, BuffersLeave
<1>5. CASE /\ UNCHANGED <<posted, wire>>
           /\ \/ Call(t, "disconnect", "releaseSend") /\ failed' = failed
              \/ ~connected /\ Jump(t, "releaseSend") /\ failed' = failed
              \/ connected /\ Fails("send") /\ Jump(t, "releaseSend")
  <2>1. /\ Call(t, "disconnect", "releaseSend") =>
             \/ Moved(t, "disconnect", FromSend) \/ Moved(t, "disconnect", FromSendInside)
        /\ Jump(t, "releaseSend") => Moved(t, "releaseSend", stack[t])
    BY <1>1, <1>2, JumpMove, CallMove, FrameFacts DEF Labels, Backs
  <2>2. KeepsBuffers(t)
    BY <1>1, <1>2, <1>3, <1>5, <2>1, FramesDiffer
       DEF Moved, KeepsBuffers, Fails, CountStep, Sends, Loaded, Held, LostAt
  <2>. QED
    BY <2>2, KeepsBuffersSuffices
<1>. QED
  BY <1>4, <1>5 DEF WSASend

LEMMA ReleaseSendPromised ==
  ASSUME IInv, IInv', StreamInv, NEW t \in Threads, Guarantee(t), ReleaseSend(t)
  PROVE  StreamStep(t) /\ Promise
<1>1. TypeOK /\ AtThread(t) /\ LostAt(t)
  BY IInvAtThread DEF IInv, StreamInv
<1>2. pc[t] = "releaseSend" /\ stack[t] \in {InDispatch, InHandler}
  BY <1>1 DEF ReleaseSend, AtThread, Frames, SendLabels, DisconnectLabels
<1>3. Moved(t, "resetSend", stack[t])
  BY <1>1, JumpMove DEF ReleaseSend, Labels
<1>4. /\ sendBuffers' = <<>>
      /\ UNCHANGED <<connected, sendQueue, posted, wire, accepted, calls, failed>>
  BY DEF ReleaseSend
<1>5. StreamStep(t)
  BY <1>1, <1>2, <1>3, <1>4, FramesDiffer
     DEF Moved, StreamStep, CountStep, Sends, Loaded, Held, LostAt
<1>6. Held(t) /\ ~Held(t)'
  BY <1>2, <1>3, FramesDiffer DEF Moved, Held
<1>7. ~connected \/ "send" \in failed
  BY <1>1, <1>2 DEF LostAt
<1>. QED
  BY <1>4, <1>5, <1>6, <1>7, BuffersLeave

LEMMA ProcessSendPromised ==
  ASSUME IInv, IInv', StreamInv, NEW t \in Threads, Guarantee(t), ProcessSend(t)
  PROVE  StreamStep(t) /\ Promise
<1>1. TypeOK /\ AtThread(t) /\ LostAt(t)
  BY IInvAtThread DEF IInv, StreamInv
<1>2. pc[t] = "processSend" /\ stack[t] = InDispatch
  BY <1>1 DEF ProcessSend, AtThread, Frames, SendLabels, DisconnectLabels
<1>3. Moved(t, "nextSend", InDispatch) \/ Moved(t, "disconnect", InDispatch)
  BY <1>1, <1>2, JumpMove DEF ProcessSend, Labels
<1>4. /\ sendBuffers' = <<>>
      /\ UNCHANGED <<connected, sendQueue, posted, wire, accepted, calls, failed>>
  BY DEF ProcessSend
<1>5. StreamStep(t)
  BY <1>1, <1>2, <1>3, <1>4, FramesDiffer
     DEF Moved, StreamStep, CountStep, Sends, Loaded, Held, LostAt
<1>6. Sender(t) /\ ~Held(t) /\ ~Held(t)'
  BY <1>2, <1>3, FramesDiffer DEF Moved, Held, Sender
<1>7. (\A u \in Threads : ~Held(u)) /\ (\A u \in Threads : ~Held(u)')
  BY <1>6, HolderSends DEF Guarantee, OtherThreads, Held
<1>8. Outgoing = sendQueue /\ Outgoing' = sendQueue
  BY <1>4, <1>7, OutgoingView, OutgoingViewNext DEF View
<1>9. Promise
  <2>1. ("send" \in failed') = ("send" \in failed)
    BY <1>4
  <2>. QED
    BY <1>4, <1>8, <2>1 DEF Promise, Stream!vars
<1>. QED
  BY <1>5, <1>9

-----------------------------------------------------------------------------
LEMMA EveryStepPromised ==
  ASSUME IInv, StreamInv, [Next]_vars
  PROVE  StreamInv' /\ Promise
<1>0. IInv'
  BY StepIInv
<1>1. ASSUME NEW t \in Threads, CallSend(t) \/ Step(t) \/ \E e \in Events : Dispatch(t, e)
      PROVE  StreamInv' /\ Promise
  <2>1. TypeOK' /\ Guarantee(t)
    BY <1>1, EveryStepKeeps
  <2>2. CASE SendPush(t) \/ FillSend(t) \/ WSASend(t) \/ ReleaseSend(t) \/ ProcessSend(t)
    <3>1. StreamStep(t) /\ Promise
      BY <1>0, <2>1, <2>2, SendPushPromised, FillSendPromised, WSASendPromised,
         ReleaseSendPromised, ProcessSendPromised
    <3>. QED
      BY <2>1, <3>1, StreamStepSuffices
  <2>3. CASE ~(SendPush(t) \/ FillSend(t) \/ WSASend(t) \/ ReleaseSend(t) \/ ProcessSend(t))
    <3>1. KeepsBuffers(t)
      BY <1>1, <2>3, ControlKeepsBuffers, CallSendKeepsBuffers, WSARecvKeepsBuffers,
         DispatchKeepsBuffers DEF Step
    <3>2. StreamStep(t) /\ Promise
      BY <1>0, <2>1, <3>1, KeepsBuffersSuffices
    <3>. QED
      BY <2>1, <3>2, StreamStepSuffices
  <2>. QED
    BY <2>2, <2>3
<1>2. CASE UNCHANGED vars
  <2>1. \A u \in Threads : /\ Held(u)' <=> Held(u)
                           /\ Loaded(u)' <=> Loaded(u)
                           /\ LostAt(u)' <=> LostAt(u)
    BY <1>2 DEF vars, Held, Loaded, LostAt
  <2>2. Callers' = Callers
    BY <1>2 DEF vars, Callers, Sends
  <2>3. Outgoing' = Outgoing
    BY <1>0, <1>2, <2>1, OutgoingView, OutgoingViewNext DEF View, vars
  <2>4. ("send" \in failed') = ("send" \in failed)
    BY <1>2 DEF vars
  <2>5. Promise
    BY <1>2, <2>3, <2>4 DEF Promise, Stream!vars, vars
  <2>6. EmptyEvent' /\ Counted'
    BY <1>2, <2>1, <2>2 DEF vars, StreamInv, EmptyEvent, Counted
  <2>. QED
    BY <2>1, <2>5, <2>6 DEF StreamInv
<1>. QED
  BY <1>1, <1>2 DEF Next, Wait

\* What Send queues leaves in the order of the pushes, each buffer at most once
\* and in one piece, and is dropped only when the connection is gone or WSASend
\* has failed on it (Session.cpp:31, :171 and :200): every step of Session is a step
\* of OutputStream or none.
THEOREM SendsInOrder == Spec => Stream!Spec
<1>1. Init => Stream!Init /\ StreamInv
  <2>. SUFFICES ASSUME Init PROVE Stream!Init /\ StreamInv
    OBVIOUS
  <2>1. \A t \in Threads : ~Held(t) /\ ~Sends(t) /\ LostAt(t)
    <3>1. \A t \in Threads : pc[t] = "idle" /\ stack[t] = NoCall
      BY DEF Init, NoCall
    <3>. QED
      BY <3>1, FramesDiffer DEF Held, Sends, LostAt
  <2>2. IInv
    BY InitIInv
  <2>3. Outgoing = <<>>
    BY <2>1, <2>2, OutgoingView DEF View, Init
  <2>4. Callers = {}
    BY <2>1 DEF Callers
  <2>5. IsFiniteSet(Callers) /\ Cardinality(Callers) = 0
    BY <2>4, FS_EmptySet
  <2>6. ("send" \in failed) = FALSE
    BY DEF Init
  <2>. QED
    BY <2>1, <2>3, <2>5, <2>6 DEF Init, Stream!Init, StreamInv, EmptyEvent, Counted
<1>2. IInv /\ StreamInv /\ [Next]_vars => StreamInv' /\ [Stream!Next]_(Stream!vars)
  BY EveryStepPromised DEF Promise
<1>. QED
  BY <1>1, <1>2, SpecIInv, PTL DEF Spec, Stream!Spec

-----------------------------------------------------------------------------
(***************************************************************************)
(* The receive path, for every buffer and packet size and every stream:    *)
(* the server's 10 x 65536 bytes with packets up to 65535 bytes are one    *)
(* instance.                                                               *)
(*                                                                         *)
(* The argument: what OnRecv leaves unread is less than a packet, hence    *)
(* less than BufferSize.  If less than BufferSize is free, the unread bytes *)
(* lie in the last two of at least three buffers, clear of the place they  *)
(* are moved to, and after the move at least two buffers are free.         *)
(***************************************************************************)
RecvInv == RecvTypeOK /\ CursorsInBounds /\ RoomWhenPosted /\ BufferHoldsStream

\* At least three buffers.
LEMMA CapacityBound ==
  /\ Capacity \in Nat
  /\ Capacity >= 3 * BufferSize
  /\ BufferSize > 0
<1>1. /\ BufferSize \in Nat /\ BufferCount \in Nat /\ BufferCount >= 3
      /\ BufferSize > 0
  BY RecvBufferAssumption DEF RecvBufferAssumption
<1>2. BufferSize * BufferCount = BufferSize * (BufferCount - 3) + 3 * BufferSize
  BY <1>1
<1>3. BufferSize * (BufferCount - 3) \in Nat
  BY <1>1
<1>. QED
  BY <1>1, <1>2, <1>3 DEF Capacity

\* What is left when no whole packet is there.
LEMMA LeftoverBound ==
  ASSUME RecvInv, stage = "parse", ~PacketReady
  PROVE  /\ DataSize - processLen \in Nat
         /\ DataSize - processLen < BufferSize
<1>1. /\ DataSize \in Int /\ processLen \in Nat /\ processLen <= DataSize
      /\ cur \in Nat /\ cur <= MaxPacket
      /\ HeaderSize \in Nat /\ HeaderSize <= MaxPacket
      /\ MaxPacket \in Nat /\ MaxPacket <= BufferSize /\ BufferSize \in Nat
  BY RecvBufferAssumption
     DEF RecvInv, RecvTypeOK, CursorsInBounds, DataSize, PacketSizes, RecvBufferAssumption
<1>. QED
  BY <1>1 DEF PacketReady

\* The unread bytes do not reach the place Clean moves them to.
LEMMA CompactionLemma == RecvInv => CompactionIsDisjoint
<1>. SUFFICES ASSUME RecvInv, stage = "parse", ~PacketReady, FreeSize < BufferSize
              PROVE  DataSize - processLen <= readPos + processLen
  BY DEF CompactionIsDisjoint
<1>1. DataSize - processLen \in Nat /\ DataSize - processLen < BufferSize
  BY LeftoverBound
<1>2. /\ readPos \in Nat /\ writePos \in Nat /\ processLen \in Nat
      /\ writePos > Capacity - BufferSize
  BY CapacityBound, RecvBufferAssumption
     DEF RecvInv, RecvTypeOK, FreeSize, RecvBufferAssumption
<1>3. BufferSize \in Nat
  BY RecvBufferAssumption DEF RecvBufferAssumption
<1>. QED
  BY <1>1, <1>2, <1>3, CapacityBound DEF DataSize

LEMMA InitRecvInv == RecvInit => RecvInv
BY CapacityBound, RecvBufferAssumption
   DEF RecvInit, RecvInv, RecvTypeOK, CursorsInBounds, RoomWhenPosted, BufferHoldsStream,
       DataSize, FreeSize, RecvBufferAssumption

\* The kernel's bytes go where the stream continues.
LEMMA ReceiveStep ==
  ASSUME RecvInv, NEW n \in 1..StreamLength, n <= FreeSize, Receive(n)
  PROVE  RecvInv'
<1>. USE DEF RecvInv
<1>a. /\ readPos \in Nat /\ writePos \in Nat /\ n \in Nat /\ n >= 1
      /\ received \in Nat /\ consumed \in Nat /\ Capacity \in Nat
      /\ readPos <= writePos /\ writePos + n <= Capacity
      /\ buffer \in [0..(Capacity - 1) -> Nat]
  BY CapacityBound, RecvBufferAssumption
     DEF RecvTypeOK, CursorsInBounds, FreeSize, RecvBufferAssumption
<1>b. /\ buffer' = [i \in DOMAIN buffer |->
                      IF i \in writePos..(writePos + n - 1)
                        THEN received + (i - writePos) ELSE buffer[i]]
      /\ writePos' = writePos + n /\ received' = received + n
      /\ stage' = "parse" /\ processLen' = 0
      /\ UNCHANGED <<readPos, cur, consumed>>
  BY <1>a DEF Receive, FreeSize
<1>1. buffer' \in [0..(Capacity - 1) -> Nat]
  BY <1>a, <1>b
<1>2. RecvTypeOK'
  BY <1>1, <1>a, <1>b DEF RecvTypeOK
<1>3. CursorsInBounds' /\ RoomWhenPosted'
  BY <1>a, <1>b DEF CursorsInBounds, RoomWhenPosted, DataSize
<1>4. BufferHoldsStream'
  <2>1. received' = consumed' + DataSize'
    BY <1>a, <1>b DEF BufferHoldsStream, DataSize
  <2>2. ASSUME NEW i \in 0..(Capacity - 1), i \in readPos'..(writePos' - 1)
        PROVE  buffer'[i] = consumed' + (i - readPos')
    <3>0. i \in readPos..(writePos + n - 1) /\ consumed' = consumed /\ readPos' = readPos
      <4>1. writePos' = writePos + n /\ readPos' = readPos /\ consumed' = consumed
        BY <1>b
      <4>2. i \in readPos'..(writePos' - 1)
        BY <2>2
      <4>. QED
        BY <1>a, <4>1, <4>2
    <3>1. CASE i < writePos
      <4>1. buffer'[i] = buffer[i] /\ i \in readPos..(writePos - 1)
        BY <1>a, <1>b, <3>0, <3>1
      <4>. QED
        BY <3>0, <4>1 DEF BufferHoldsStream
    <3>2. CASE i >= writePos
      <4>1. buffer'[i] = received + (i - writePos)
        BY <1>a, <1>b, <3>0, <3>2
      <4>. QED
        BY <1>a, <3>0, <4>1 DEF BufferHoldsStream, DataSize
    <3>. QED
      BY <1>a, <3>1, <3>2
  <2>3. Capacity' = Capacity
    BY DEF Capacity
  <2>. QED
    BY <2>1, <2>2, <2>3 DEF BufferHoldsStream
<1>. QED
  BY <1>2, <1>3, <1>4

LEMMA CutPacketStep ==
  ASSUME RecvInv, CutPacket
  PROVE  RecvInv'
<1>1. processLen' \in Nat /\ processLen' <= DataSize
  BY RecvBufferAssumption
     DEF RecvInv, RecvTypeOK, CutPacket, PacketReady, PacketSizes, DataSize, RecvBufferAssumption
<1>. QED
  BY <1>1 DEF RecvInv, RecvTypeOK, CursorsInBounds, RoomWhenPosted, BufferHoldsStream,
              CutPacket, DataSize, FreeSize

\* OnRead and Clean keep the unread stream and make room.
LEMMA FinishReceiveStep ==
  ASSUME RecvInv, FinishReceive
  PROVE  RecvInv'
<1>. USE DEF RecvInv
<1>. DEFINE r == readPos + processLen
            left == writePos - r
<1>a. /\ readPos \in Nat /\ writePos \in Nat /\ processLen \in Nat
      /\ received \in Nat /\ consumed \in Nat
      /\ BufferSize \in Nat /\ Capacity \in Nat
      /\ readPos <= writePos /\ writePos <= Capacity
      /\ buffer \in [0..(Capacity - 1) -> Nat]
      /\ received = consumed + (writePos - readPos)
  BY CapacityBound, RecvBufferAssumption
     DEF RecvTypeOK, CursorsInBounds, RecvBufferAssumption, BufferHoldsStream, DataSize
<1>b. /\ processLen <= DataSize
      /\ left \in Nat /\ left < BufferSize /\ left = DataSize - processLen
  BY <1>a, LeftoverBound DEF FinishReceive, DataSize, CursorsInBounds
<1>c. /\ Clean(r) /\ consumed' = consumed + processLen
      /\ stage' \in {"posted", "stopped"}
      /\ UNCHANGED <<processLen, cur, received>>
  BY <1>a, <1>b DEF FinishReceive, DataSize
<1>d. r \in Nat /\ consumed' \in Nat /\ received = consumed' + left
  BY <1>a, <1>b, <1>c
<1>1. CASE writePos = r
  <2>1. readPos' = 0 /\ writePos' = 0 /\ buffer' = buffer /\ left = 0
    BY <1>1, <1>a, <1>c DEF Clean
  <2>2. RecvTypeOK'
    BY <1>c, <1>d, <2>1 DEF RecvTypeOK
  <2>3. CursorsInBounds' /\ RoomWhenPosted'
    BY <1>a, <1>c, <2>1, CapacityBound
       DEF CursorsInBounds, RoomWhenPosted, FreeSize
  <2>4. BufferHoldsStream'
    BY <1>c, <1>d, <2>1 DEF BufferHoldsStream, DataSize
  <2>. QED
    BY <2>2, <2>3, <2>4
<1>2. CASE writePos # r /\ FreeSize < BufferSize
  <2>1. left <= r
    BY <1>2, <1>a, <1>b, CompactionLemma DEF FinishReceive, CompactionIsDisjoint
  <2>2. /\ readPos' = 0 /\ writePos' = left
        /\ buffer' = [i \in DOMAIN buffer |->
                        IF i < left THEN buffer[r + i] ELSE buffer[i]]
    BY <1>2, <1>c, <2>1 DEF Clean
  <2>3. \A i \in 0..(Capacity - 1) : i < left => r + i \in 0..(Capacity - 1)
    BY <1>a, <1>d
  <2>4. buffer' \in [0..(Capacity - 1) -> Nat]
    BY <1>a, <2>2, <2>3
  <2>5. RecvTypeOK'
    BY <1>b, <1>c, <1>d, <2>2, <2>4 DEF RecvTypeOK
  <2>6. CursorsInBounds' /\ RoomWhenPosted'
    BY <1>a, <1>b, <1>c, <2>2, CapacityBound
       DEF CursorsInBounds, RoomWhenPosted, FreeSize
  <2>7. ASSUME NEW i \in 0..(Capacity - 1), i \in 0..(left - 1)
        PROVE  buffer'[i] = consumed' + (i - 0)
    <3>1. buffer'[i] = buffer[r + i]
      BY <1>a, <1>b, <2>2, <2>7
    <3>2. r + i \in readPos..(writePos - 1) /\ r + i \in 0..(Capacity - 1)
      BY <1>a, <1>b, <1>d, <2>3, <2>7
    <3>3. buffer[r + i] = consumed + ((r + i) - readPos)
      BY <3>2 DEF BufferHoldsStream
    <3>. QED
      BY <1>a, <1>c, <3>1, <3>3
  <2>8. BufferHoldsStream'
    BY <1>b, <1>c, <1>d, <2>2, <2>7 DEF BufferHoldsStream, DataSize
  <2>. QED
    BY <2>5, <2>6, <2>8
<1>3. CASE writePos # r /\ ~(FreeSize < BufferSize)
  <2>1. readPos' = r /\ writePos' = writePos /\ buffer' = buffer
    BY <1>3, <1>c DEF Clean
  <2>2. RecvTypeOK'
    BY <1>c, <1>d, <2>1 DEF RecvTypeOK
  <2>3. CursorsInBounds' /\ RoomWhenPosted'
    BY <1>3, <1>a, <1>b, <1>c, <2>1
       DEF CursorsInBounds, RoomWhenPosted, FreeSize
  <2>4. ASSUME NEW i \in 0..(Capacity - 1), i \in r..(writePos - 1)
        PROVE  buffer[i] = consumed' + (i - r)
    <3>1. i \in readPos..(writePos - 1)
      BY <1>a, <1>d, <2>4
    <3>2. buffer[i] = consumed + (i - readPos)
      BY <3>1 DEF BufferHoldsStream
    <3>. QED
      BY <1>a, <1>c, <3>2
  <2>5. BufferHoldsStream'
    BY <1>c, <1>d, <2>1, <2>4 DEF BufferHoldsStream, DataSize
  <2>. QED
    BY <2>2, <2>3, <2>5
<1>. QED
  BY <1>1, <1>2, <1>3

LEMMA RecvInvStep == RecvInv /\ [RecvNext]_recvVars => RecvInv'
<1>. SUFFICES ASSUME RecvInv, [RecvNext]_recvVars PROVE RecvInv'
  OBVIOUS
<1>1. CASE Arrive
  BY <1>1, ReceiveStep DEF Arrive
<1>2. CASE ReceiveNothing
  BY <1>2 DEF ReceiveNothing, RecvInv, RecvTypeOK, CursorsInBounds, RoomWhenPosted,
              BufferHoldsStream, DataSize, FreeSize
<1>3. CASE CutPacket
  BY <1>3, CutPacketStep
<1>4. CASE FinishReceive
  BY <1>4, FinishReceiveStep
<1>5. CASE UNCHANGED recvVars
  BY <1>5 DEF recvVars, RecvInv, RecvTypeOK, CursorsInBounds, RoomWhenPosted,
              BufferHoldsStream, DataSize, FreeSize
<1>. QED
  BY <1>1, <1>2, <1>3, <1>4, <1>5 DEF RecvNext, Quiet

LEMMA RecvInvariant == RecvSpec => []RecvInv
BY InitRecvInv, RecvInvStep, PTL DEF RecvSpec

\* The cursors never leave the buffer.
THEOREM BoundsHold == RecvSpec => []CursorsInBounds
<1>1. RecvInv => CursorsInBounds
  BY DEF RecvInv
<1>. QED
  BY <1>1, RecvInvariant, PTL

\* A posted receive always has room for a whole packet.
THEOREM AlwaysRoom == RecvSpec => []RoomWhenPosted
<1>1. RecvInv => RoomWhenPosted
  BY DEF RecvInv
<1>. QED
  BY <1>1, RecvInvariant, PTL

\* memcpy is never asked to copy between overlapping ranges.
THEOREM CopyIsDefined == RecvSpec => []CompactionIsDisjoint
BY CompactionLemma, RecvInvariant, PTL

\* The unread bytes are the stream.
THEOREM StreamIsKept == RecvSpec => []BufferHoldsStream
<1>1. RecvInv => BufferHoldsStream
  BY DEF RecvInv
<1>. QED
  BY <1>1, RecvInvariant, PTL
=============================================================================
