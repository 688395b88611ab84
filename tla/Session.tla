------------------------------ MODULE Session -------------------------------
(***************************************************************************)
(* One Session and the overlapped operations it posts: connecting,         *)
(* receiving, sending and disconnecting, run by the IOCP worker threads    *)
(* and by every thread that calls Send.                                    *)
(*                                                                         *)
(* At most one WSASend is outstanding.  Whoever turns _sendRegistered from *)
(* false to true owns _sendEvent and posts the send; the completion posts  *)
(* the next one while the queue is not empty.  The session lives while the *)
(* service, a posted event or a running call refers to it.                 *)
(*                                                                         *)
(* The lock is the Lock of RWLock, used as a write lock; a critical        *)
(* section that calls nothing is one step.  `stack` holds what a thread    *)
(* runs when the call it is in returns.                                    *)
(***************************************************************************)
EXTENDS Sequences, Naturals

CONSTANTS Threads,  \* worker threads, which also run the callers of Send
          None,     \* no thread
          MaxSends, \* bound: the calls of Send
          Failures  \* the calls that may fail while connected with an error
                    \* other than a reset connection: a subset of
                    \* {"send", "recv", "disconnect"}

ASSUME SessionAssumption ==
  /\ None \notin Threads
  /\ MaxSends \in Nat
  /\ Failures \subseteq {"send", "recv", "disconnect"}

Events == {"connect", "recv", "send", "disconnect"}

VARIABLES
  connected,       \* _connected
  lock,            \* the thread that owns the session's lock, or None
  sendQueue,       \* _sendQueue; a buffer is its place in the order of pushes
  sendRegistered,  \* _sendRegistered
  sendBuffers,     \* _sendEvent.sendBuffers
  owner,           \* events whose owner is set (the accept event for "connect")
  posted,          \* events whose OVERLAPPED the kernel has
  sessions,        \* this session in Service::_sessions: "out", "in", "released"
  wire,            \* the buffers handed to the kernel, in order
  accepted,        \* how many buffers have been pushed
  calls,           \* how many calls of Send have begun
  failed,          \* the Failures that have happened
  pc,              \* what each thread runs
  stack            \* where each thread returns to

vars == <<connected, lock, sendQueue, sendRegistered, sendBuffers, owner, posted,
          sessions, wire, accepted, calls, failed, pc, stack>>

sendVars == <<lock, sendQueue, sendRegistered, sendBuffers, wire, accepted, calls,
              failed>>

Init ==
  /\ connected = FALSE
  /\ lock = None
  /\ sendQueue = <<>> /\ sendRegistered = FALSE /\ sendBuffers = <<>>
  /\ owner = {"connect"} /\ posted = {"connect"}
  /\ sessions = "out"
  /\ wire = <<>> /\ accepted = 0 /\ calls = 0 /\ failed = {}
  /\ pc = [t \in Threads |-> "idle"]
  /\ stack = [t \in Threads |-> <<>>]

-----------------------------------------------------------------------------
(***************************************************************************)
(* Control                                                                 *)
(***************************************************************************)

Goto(t, label) == pc' = [pc EXCEPT ![t] = label]

\* Go on inside the current call.
Jump(t, label) == Goto(t, label) /\ UNCHANGED stack

\* Call a function that returns to `back`.
Call(t, label, back) ==
  Goto(t, label) /\ stack' = [stack EXCEPT ![t] = <<back>> \o @]

Return(t) ==
  Goto(t, Head(stack[t])) /\ stack' = [stack EXCEPT ![t] = Tail(@)]

\* A call fails although the connection is open.
Fails(e) == e \in Failures /\ failed' = failed \cup {e}

\* A thread passes a WriteLockGuard when it can have the lock, its own again.
CanLock(t) == lock \in {None, t}

\* RegisterSend returns: to Send, which holds no lock, or to ProcessSend,
\* whose guard unlocks.
LeaveRegisterSend(t) ==
  Return(t) /\ lock' = IF lock = t THEN None ELSE lock

-----------------------------------------------------------------------------
(***************************************************************************)
(* Disconnect, RegisterDisconnect and ProcessDisconnect                    *)
(***************************************************************************)

\* A seeded bug: _connected is not exchanged but stored.
DisconnectMutantStore(t) ==
  /\ pc[t] = "disconnect"
  /\ connected' = FALSE
  /\ Jump(t, "registerDisconnect")
  /\ UNCHANGED <<sendVars, owner, posted, sessions>>

\* _connected.exchange(false).
Disconnect(t) ==
  /\ pc[t] = "disconnect"
  /\ IF connected THEN connected' = FALSE /\ Jump(t, "registerDisconnect")
                  ELSE Return(t) /\ UNCHANGED connected
  /\ UNCHANGED <<sendVars, owner, posted, sessions>>

RegisterDisconnect(t) ==
  /\ pc[t] = "registerDisconnect"
  /\ owner' = owner \cup {"disconnect"}
  /\ Jump(t, "disconnectEx")
  /\ UNCHANGED <<connected, sendVars, posted, sessions>>

DisconnectEx(t) ==
  /\ pc[t] = "disconnectEx"
  /\ \/ posted' = posted \cup {"disconnect"} /\ UNCHANGED <<owner, failed>>
     \/ Fails("disconnect") /\ owner' = owner \ {"disconnect"} /\ UNCHANGED posted
  /\ Return(t)
  /\ UNCHANGED <<connected, lock, sendQueue, sendRegistered, sendBuffers, wire, accepted,
                 calls, sessions>>

\* A seeded bug: the session is not released.
ProcessDisconnectMutantKeep(t) ==
  /\ pc[t] = "processDisconnect"
  /\ owner' = owner \ {"disconnect"}
  /\ Return(t)
  /\ UNCHANGED <<connected, sendVars, posted, sessions>>

\* OnDisconnected leaves the session as it is.
ProcessDisconnect(t) ==
  /\ pc[t] = "processDisconnect"
  /\ owner' = owner \ {"disconnect"}
  /\ Jump(t, "releaseSession")
  /\ UNCHANGED <<connected, sendVars, posted, sessions>>

\* Service::ReleaseSession; the session must be in the set.
ReleaseSession(t) ==
  /\ pc[t] = "releaseSession"
  /\ IF sessions = "in" THEN sessions' = "released" /\ Return(t)
                        ELSE Jump(t, "crashed") /\ UNCHANGED sessions
  /\ UNCHANGED <<connected, sendVars, owner, posted>>

-----------------------------------------------------------------------------
(***************************************************************************)
(* ProcessConnect, RegisterRecv and ProcessRecv                            *)
(***************************************************************************)

ProcessConnect(t) ==
  /\ pc[t] = "processConnect"
  /\ owner' = owner \ {"connect"}
  /\ connected' = TRUE
  /\ Jump(t, "addSession")
  /\ UNCHANGED <<sendVars, posted, sessions>>

\* Service::AddSession, then OnConnected.
AddSession(t) ==
  /\ pc[t] = "addSession"
  /\ sessions' = "in"
  /\ Jump(t, "registerRecv")
  /\ UNCHANGED <<connected, sendVars, owner, posted>>

RegisterRecv(t) ==
  /\ pc[t] = "registerRecv"
  /\ IF connected THEN owner' = owner \cup {"recv"} /\ Jump(t, "wsaRecv")
                  ELSE Return(t) /\ UNCHANGED owner
  /\ UNCHANGED <<connected, sendVars, posted, sessions>>

\* A reset connection goes through HandleError to Disconnect; HandleError
\* only logs any other error.
WSARecv(t) ==
  /\ pc[t] = "wsaRecv"
  /\ \/ posted' = posted \cup {"recv"} /\ Return(t) /\ UNCHANGED failed
     \/ Call(t, "disconnect", "releaseRecv") /\ UNCHANGED <<posted, failed>>
     \/ ~connected /\ Jump(t, "releaseRecv") /\ UNCHANGED <<posted, failed>>
     \/ connected /\ Fails("recv") /\ Jump(t, "releaseRecv") /\ UNCHANGED posted
  /\ UNCHANGED <<connected, lock, sendQueue, sendRegistered, sendBuffers, wire, accepted,
                 calls, owner, sessions>>

ReleaseRecv(t) ==
  /\ pc[t] = "releaseRecv"
  /\ owner' = owner \ {"recv"}
  /\ Return(t)
  /\ UNCHANGED <<connected, sendVars, posted, sessions>>

\* Bytes arrived, or the connection ended and the count is 0.
ProcessRecv(t) ==
  /\ pc[t] = "processRecv"
  /\ owner' = owner \ {"recv"}
  /\ \/ Jump(t, "onRecv")
     \/ Jump(t, "disconnect")
  /\ UNCHANGED <<connected, sendVars, posted, sessions>>

\* A seeded bug: the next receive is not posted.
OnRecvDoneMutantOnce(t) ==
  /\ pc[t] = "onRecv"
  /\ Return(t)
  /\ UNCHANGED <<connected, sendVars, owner, posted, sessions>>

\* The handlers return (the cursors are RecvBuffer's).
OnRecvDone(t) ==
  /\ pc[t] = "onRecv"
  /\ Jump(t, "registerRecv")
  /\ UNCHANGED <<connected, sendVars, owner, posted, sessions>>

-----------------------------------------------------------------------------
(***************************************************************************)
(* Send, RegisterSend and ProcessSend                                      *)
(***************************************************************************)

\* A job, a broadcast or a packet handler calls Send; the session can be
\* reached once it is in the service's set.
CallSend(t) ==
  /\ pc[t] \in {"idle", "onRecv"}
  /\ sessions # "out"
  /\ calls < MaxSends
  /\ calls' = calls + 1
  /\ Call(t, "send", pc[t])
  /\ UNCHANGED <<connected, lock, sendQueue, sendRegistered, sendBuffers, owner,
                 posted, sessions, wire, accepted, failed>>

SendCheck(t) ==
  /\ pc[t] = "send"
  /\ IF connected THEN Jump(t, "sendPush") ELSE Return(t)
  /\ UNCHANGED <<connected, sendVars, owner, posted, sessions>>

\* Under the lock: push, and _sendRegistered.exchange(true).
SendPush(t) ==
  /\ pc[t] = "sendPush"
  /\ CanLock(t)
  /\ accepted' = accepted + 1
  /\ sendQueue' = Append(sendQueue, accepted')
  /\ sendRegistered' = TRUE
  /\ IF sendRegistered THEN Return(t) ELSE Jump(t, "registerSend")
  /\ UNCHANGED <<connected, lock, sendBuffers, owner, posted, sessions, wire, calls, failed>>

\* A session that is not connected leaves _sendRegistered set.
RegisterSend(t) ==
  /\ pc[t] = "registerSend"
  /\ IF connected
       THEN owner' = owner \cup {"send"} /\ Jump(t, "fillSend") /\ UNCHANGED lock
       ELSE LeaveRegisterSend(t) /\ UNCHANGED owner
  /\ UNCHANGED <<connected, sendQueue, sendRegistered, sendBuffers, posted, sessions,
                 wire, accepted, calls, failed>>

\* Under the lock: the queue moves into the event.
FillSend(t) ==
  /\ pc[t] = "fillSend"
  /\ CanLock(t)
  /\ sendBuffers' = sendBuffers \o sendQueue
  /\ sendQueue' = <<>>
  /\ Jump(t, "wsaSend")
  /\ UNCHANGED <<connected, lock, sendRegistered, owner, posted, sessions, wire,
                 accepted, calls, failed>>

WSASend(t) ==
  /\ pc[t] = "wsaSend"
  /\ \/ /\ posted' = posted \cup {"send"}
        /\ wire' = wire \o sendBuffers
        /\ LeaveRegisterSend(t) /\ UNCHANGED failed
     \/ Call(t, "disconnect", "releaseSend") /\ UNCHANGED <<posted, wire, lock, failed>>
     \/ ~connected /\ Jump(t, "releaseSend") /\ UNCHANGED <<posted, wire, lock, failed>>
     \/ connected /\ Fails("send") /\ Jump(t, "releaseSend") /\ UNCHANGED <<posted, wire, lock>>
  /\ UNCHANGED <<connected, sendQueue, sendRegistered, sendBuffers, owner, sessions,
                 accepted, calls>>

\* A seeded bug: the flag is cleared before the event is.
ReleaseSendMutantReset(t) ==
  /\ pc[t] = "releaseSend"
  /\ owner' = owner \ {"send"}
  /\ sendBuffers' = <<>>
  /\ sendRegistered' = FALSE
  /\ Jump(t, "resetSend")
  /\ UNCHANGED <<connected, lock, sendQueue, posted, sessions, wire, accepted, calls, failed>>

\* The error path: the buffers are dropped.
ReleaseSend(t) ==
  /\ pc[t] = "releaseSend"
  /\ owner' = owner \ {"send"}
  /\ sendBuffers' = <<>>
  /\ Jump(t, "resetSend")
  /\ UNCHANGED <<connected, lock, sendQueue, sendRegistered, posted, sessions, wire,
                 accepted, calls, failed>>

\* _sendRegistered.store(false), under the lock only if ProcessSend called.
ResetSend(t) ==
  /\ pc[t] = "resetSend"
  /\ sendRegistered' = FALSE
  /\ LeaveRegisterSend(t)
  /\ UNCHANGED <<connected, sendQueue, sendBuffers, owner, posted, sessions, wire,
                 accepted, calls, failed>>

\* A seeded bug: the completion keeps the buffers it has sent.
ProcessSendMutantKeep(t) ==
  /\ pc[t] = "processSend"
  /\ owner' = owner \ {"send"}
  /\ Jump(t, "nextSend")
  /\ UNCHANGED <<connected, lock, sendQueue, sendRegistered, sendBuffers, posted,
                 sessions, wire, accepted, calls, failed>>

\* The send completed, or the connection ended and the count is 0.
ProcessSend(t) ==
  /\ pc[t] = "processSend"
  /\ owner' = owner \ {"send"}
  /\ sendBuffers' = <<>>
  /\ \/ Jump(t, "nextSend")
     \/ Jump(t, "disconnect")
  /\ UNCHANGED <<connected, lock, sendQueue, sendRegistered, posted, sessions, wire,
                 accepted, calls, failed>>

\* Under the lock: nothing left to send, or the next send, with the lock kept.
NextSend(t) ==
  /\ pc[t] = "nextSend"
  /\ CanLock(t)
  /\ IF sendQueue = <<>>
       THEN sendRegistered' = FALSE /\ Return(t) /\ UNCHANGED lock
       ELSE lock' = t /\ Jump(t, "registerSend") /\ UNCHANGED sendRegistered
  /\ UNCHANGED <<connected, sendQueue, sendBuffers, owner, posted, sessions, wire,
                 accepted, calls, failed>>

-----------------------------------------------------------------------------
Handler(e) ==
  CASE e = "connect" -> "processConnect"
    [] e = "recv" -> "processRecv"
    [] e = "send" -> "processSend"
    [] e = "disconnect" -> "processDisconnect"

\* GetQueuedCompletionStatus returns the event and a reference to its owner
\* keeps the session for the call; an event without an owner is a crash.
Dispatch(t, e) ==
  /\ pc[t] = "idle"
  /\ e \in posted
  /\ posted' = posted \ {e}
  /\ IF e \in owner THEN Call(t, Handler(e), "idle")
                    ELSE Jump(t, "crashed")
  /\ UNCHANGED <<connected, sendVars, owner, sessions>>

\* Threads wait in GetQueuedCompletionStatus, or the process has crashed.
Wait == (\A t \in Threads : pc[t] \in {"idle", "crashed"}) /\ UNCHANGED vars

Step(t) ==
  \/ Disconnect(t) \/ RegisterDisconnect(t) \/ DisconnectEx(t)
  \/ ProcessDisconnect(t) \/ ReleaseSession(t)
  \/ ProcessConnect(t) \/ AddSession(t) \/ RegisterRecv(t) \/ WSARecv(t)
  \/ ReleaseRecv(t) \/ ProcessRecv(t) \/ OnRecvDone(t)
  \/ SendCheck(t) \/ SendPush(t) \/ RegisterSend(t) \/ FillSend(t) \/ WSASend(t)
  \/ ReleaseSend(t) \/ ResetSend(t) \/ ProcessSend(t) \/ NextSend(t)

Next ==
  \/ \E t \in Threads : CallSend(t) \/ Step(t) \/ \E e \in Events : Dispatch(t, e)
  \/ Wait

Spec == Init /\ [][Next]_vars

\* Threads run; the kernel completes what is posted: a send when the peer
\* reads, a receive at the latest when the socket is disconnected.
Fairness ==
  /\ \A t \in Threads : WF_vars(Step(t))
  /\ \A e \in {"send", "disconnect"} : WF_vars(\E t \in Threads : Dispatch(t, e))
  /\ WF_vars(~connected /\ \E t \in Threads : Dispatch(t, "recv"))

FairSpec == Spec /\ Fairness

-----------------------------------------------------------------------------
(***************************************************************************)
(* Properties                                                              *)
(***************************************************************************)

Labels == {"idle", "disconnect", "registerDisconnect", "disconnectEx",
           "processDisconnect", "releaseSession", "processConnect", "addSession",
           "registerRecv", "wsaRecv", "releaseRecv", "processRecv", "onRecv",
           "send", "sendPush", "registerSend", "fillSend", "wsaSend", "releaseSend",
           "resetSend", "processSend", "nextSend"}

\* Where a call returns to.
Backs == {"idle", "onRecv", "releaseRecv", "releaseSend"}

\* Every variable keeps its type; no label is "crashed".
TypeOK ==
  /\ connected \in BOOLEAN /\ sendRegistered \in BOOLEAN
  /\ lock \in Threads \cup {None}
  /\ sendQueue \in Seq(Nat) /\ sendBuffers \in Seq(Nat) /\ wire \in Seq(Nat)
  /\ owner \subseteq Events /\ posted \subseteq Events
  /\ sessions \in {"out", "in", "released"}
  /\ calls \in 0..MaxSends /\ accepted \in Nat
  /\ failed \subseteq Failures
  /\ pc \in [Threads -> Labels]
  /\ stack \in [Threads -> Seq(Backs)]

\* The thread that runs RegisterSend or ProcessSend and still uses _sendEvent.
Sending(t) ==
  \/ pc[t] \in {"registerSend", "fillSend", "wsaSend", "releaseSend", "resetSend",
                "processSend", "nextSend"}
  \/ \E i \in 1..Len(stack[t]) : stack[t][i] = "releaseSend"

\* _sendEvent, whose OVERLAPPED and buffers no lock guards, has one user at a
\* time: the kernel while a send is posted, or one thread.
OneSend ==
  /\ \A t, u \in Threads : Sending(t) /\ Sending(u) => t = u
  /\ "send" \in posted => \A t \in Threads : ~Sending(t)

\* Whatever the kernel still has, its owner reference keeps the session and
\* the OVERLAPPED inside it alive.  So Dispatch never meets a null owner, and the
\* service is asked once to release a session, which it then holds: no thread
\* crashes on either (TypeOK).
PostedIsOwned == TypeOK /\ posted \subseteq owner

AllIdle == \A t \in Threads : pc[t] = "idle"

\* A connected session on which no thread works is reading, unless WSARecv has
\* failed on it.
KeepsReading == AllIdle /\ connected => "recv" \in posted \cup failed

\* What Send queues is sent: on a connected session with no thread at work the
\* queue is empty or a send is posted, whose completion sends the rest.  This
\* is what Session.cpp:27 says of Send, whatever fails.
QueuedIsSent == AllIdle /\ connected /\ sendQueue # <<>> => "send" \in posted

\* Buffers taken from the queue and not yet handed to the kernel.
Outgoing ==
  IF \E t \in Threads : \/ pc[t] \in {"wsaSend", "releaseSend"}
                        \/ \E i \in 1..Len(stack[t]) : stack[t][i] = "releaseSend"
    THEN sendBuffers \o sendQueue ELSE sendQueue

Stream == INSTANCE OutputStream WITH
  pending <- Outgoing, open <- connected,
  Buffers <- 1..MaxSends, lossy <- "send" \in failed

\* Buffers leave in the order of the pushes, once each; one is dropped only when
\* the connection is gone or WSASend has failed; and until then all that are
\* accepted leave.
SendsAll == Stream!FairSpec

\* A disconnected session leaves the service: its events are completed and no
\* reference is left behind, unless DisconnectEx was refused.
DisconnectReleases ==
  sessions = "in" /\ ~connected ~>
    "disconnect" \in failed \/ (sessions = "released" /\ posted = {} /\ owner = {})
=============================================================================
