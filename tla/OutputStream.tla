---------------------------- MODULE OutputStream ----------------------------
(***************************************************************************)
(* What the send path of a session promises: buffers handed to Send leave  *)
(* in the order they were accepted, each at most once and in one piece,    *)
(* and none waits for ever while the connection is open.                   *)
(***************************************************************************)
EXTENDS Sequences, Naturals

CONSTANT Buffers    \* the buffers that are sent

VARIABLES pending,  \* accepted and not yet transmitted, in order
          wire,     \* transmitted, in order
          open,     \* the connection is open
          lossy     \* a write has failed on the open connection

vars == <<pending, wire, open, lossy>>

Init == pending = <<>> /\ wire = <<>> /\ open = FALSE /\ lossy = FALSE

Open == ~open /\ open' = TRUE /\ UNCHANGED <<pending, wire, lossy>>

Close == open /\ open' = FALSE /\ UNCHANGED <<pending, wire, lossy>>

\* A write fails although the connection is open.
Fail == open /\ lossy' = TRUE /\ UNCHANGED <<pending, wire, open>>

\* Send returns before the buffer is transmitted.  The connection may close
\* between Send's check and the acceptance.
Accept(b) == pending' = Append(pending, b) /\ UNCHANGED <<wire, open, lossy>>

\* The first n pending buffers leave in one gather write.
Transmit(n) ==
  /\ wire' = wire \o SubSeq(pending, 1, n)
  /\ pending' = SubSeq(pending, n + 1, Len(pending))
  /\ UNCHANGED <<open, lossy>>

\* The buffers of a failed write are lost.
Drop(n) ==
  /\ ~open \/ lossy
  /\ pending' = SubSeq(pending, n + 1, Len(pending))
  /\ UNCHANGED <<wire, open, lossy>>

TransmitSome == open /\ \E n \in 1..Len(pending) : Transmit(n)

Next ==
  \/ Open
  \/ Close
  \/ Fail
  \/ \E b \in Buffers : Accept(b)
  \/ \E n \in 1..Len(pending) : Transmit(n) \/ Drop(n)

Spec == Init /\ [][Next]_vars

\* While the connection is open and no write has failed, what is pending is
\* transmitted.
FairSpec == Spec /\ WF_vars(~lossy /\ TransmitSome)
=============================================================================
