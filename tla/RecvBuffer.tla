----------------------------- MODULE RecvBuffer -----------------------------
(***************************************************************************)
(* The receive path of one session: RecvBuffer, Session::RegisterRecv and  *)
(* ProcessRecv, and PacketSession::OnRecv, which cuts the byte stream into *)
(* packets.  One receive is outstanding at a time, so the path is          *)
(* sequential; what is hard is the arithmetic of the cursors when receives *)
(* split and join packets at any byte.                                     *)
(*                                                                         *)
(* A byte is its offset in the stream.  The size in the header of the next *)
(* packet is chosen when the packet before it has been cut.                *)
(***************************************************************************)
EXTENDS Integers

CONSTANTS BufferSize,    \* Session::BUFFER_SIZE, 0x10000
          BufferCount,   \* RecvBuffer::BUFFER_COUNT, 10
          HeaderSize,    \* sizeof(PacketHeader), 4
          MaxPacket,     \* largest value of the 16-bit PacketHeader::size
          StreamLength   \* bound: the bytes the peer sends

\* 65535 < 0x10000, and a size can be written that is the header's or more.
ASSUME RecvBufferAssumption ==
  /\ {BufferSize, BufferCount, HeaderSize, MaxPacket, StreamLength} \subseteq Nat
  /\ 0 < HeaderSize /\ HeaderSize <= MaxPacket /\ MaxPacket <= BufferSize
  /\ 3 <= BufferCount

VARIABLES
  readPos, writePos,  \* _readPos, _writePos
  buffer,             \* _buffer: the stream offset stored at each index
  stage,                 \* "posted": a WSARecv is outstanding, "parse": in
                      \* OnRecv's loop, "stopped": no receive will be posted
  processLen,         \* OnRecv's local
  cur,                \* the size in the header at readPos + processLen
  received,           \* stream offset of the byte at writePos
  consumed            \* stream offset of the byte at readPos

recvVars == <<readPos, writePos, buffer, stage, processLen, cur, received, consumed>>

\* A seeded bug: BUFFER_COUNT is one less.
CapacityMutantShort == BufferSize * (BufferCount - 1)

Capacity == BufferSize * BufferCount
DataSize == writePos - readPos
FreeSize == Capacity - writePos

\* What a peer may write into its header: nothing compares it with HeaderSize.
PacketSizes == 0..MaxPacket

RecvInit ==
  /\ readPos = 0 /\ writePos = 0
  /\ buffer = [i \in 0..(Capacity - 1) |-> 0]
  /\ stage = "posted"
  /\ processLen = 0
  /\ cur \in PacketSizes
  /\ received = 0 /\ consumed = 0

-----------------------------------------------------------------------------
(***************************************************************************)
(* Seeded bugs                                                             *)
(***************************************************************************)

\* Clean moves the data only when the buffer is full.
CleanMutantLate(r) ==
  IF writePos = r
    THEN readPos' = 0 /\ writePos' = 0 /\ UNCHANGED buffer
    ELSE IF FreeSize = 0
           THEN /\ readPos' = 0 /\ writePos' = writePos - r
                /\ buffer' = [i \in DOMAIN buffer |->
                                IF i < writePos - r THEN buffer[r + i] ELSE buffer[i]]
           ELSE readPos' = r /\ UNCHANGED <<writePos, buffer>>

\* OnRecv cuts a packet as soon as its header is there.
PacketReadyMutantHeader == DataSize - processLen >= HeaderSize

\* OnRecv waits for a byte more than the packet has.
PacketReadyMutantStrict == DataSize - processLen >= HeaderSize /\ DataSize - processLen > cur

\* Clean resets the cursors whenever something was read.
CleanMutantReset(r) == readPos' = 0 /\ writePos' = 0 /\ UNCHANGED buffer

-----------------------------------------------------------------------------
\* A completed WSARecv of n bytes at WritePos(), at most its length: OnWrite.
Receive(n) ==
  /\ stage = "posted"
  /\ IF n > FreeSize
       THEN /\ stage' = "stopped"
            /\ UNCHANGED <<writePos, buffer, received>>
       ELSE /\ buffer' = [i \in DOMAIN buffer |->
                            IF i \in writePos..(writePos + n - 1)
                              THEN received + (i - writePos) ELSE buffer[i]]
            /\ writePos' = writePos + n
            /\ received' = received + n
            /\ stage' = "parse"
  /\ processLen' = 0
  /\ UNCHANGED <<readPos, cur, consumed>>

\* The peer closed: the receive completes with 0 bytes and the session
\* disconnects.
ReceiveNothing ==
  /\ stage = "posted"
  /\ stage' = "stopped"
  /\ UNCHANGED <<readPos, writePos, buffer, processLen, cur, received, consumed>>

\* OnRecv's loop condition: the header, then the whole packet, has arrived.
PacketReady == DataSize - processLen >= HeaderSize /\ DataSize - processLen >= cur

\* OnRecvPacket is called for one packet.  With a size of 0 the next header is
\* the same one again, and OnRecv's loop never ends.  With a size below the
\* header's the next header begins inside this one: any size may follow.
CutPacket ==
  /\ stage = "parse"
  /\ PacketReady
  /\ processLen' = processLen + cur
  /\ cur' \in IF cur = 0 THEN {0} ELSE PacketSizes
  /\ UNCHANGED <<readPos, writePos, buffer, stage, received, consumed>>

\* Clean after OnRead moved the read cursor to r.  A memcpy between
\* overlapping ranges is undefined: any bytes may result.
Clean(r) ==
  IF writePos = r
    THEN readPos' = 0 /\ writePos' = 0 /\ UNCHANGED buffer
    ELSE IF FreeSize < BufferSize
           THEN /\ readPos' = 0
                /\ writePos' = writePos - r
                /\ buffer' \in IF writePos - r <= r
                     THEN {[i \in DOMAIN buffer |->
                              IF i < writePos - r THEN buffer[r + i] ELSE buffer[i]]}
                     ELSE {[i \in DOMAIN buffer |-> 0]}
           ELSE readPos' = r /\ UNCHANGED <<writePos, buffer>>

\* OnRecv returns: OnRead(processLen), Clean, RegisterRecv.  The session may
\* have been disconnected meanwhile, or WSARecv fails: then no receive is
\* posted.
FinishReceive ==
  /\ stage = "parse"
  /\ ~PacketReady
  /\ IF processLen > DataSize
       THEN stage' = "stopped" /\ UNCHANGED <<readPos, writePos, buffer, consumed>>
       ELSE /\ Clean(readPos + processLen)
            /\ consumed' = consumed + processLen
            /\ stage' \in {"posted", "stopped"}
  /\ UNCHANGED <<processLen, cur, received>>

\* The peer has sent everything, or the session is over.
Quiet ==
  /\ stage = "stopped" \/ (stage = "posted" /\ received = StreamLength)
  /\ UNCHANGED recvVars

\* The kernel fills at most the posted length and delivers what was sent.
Arrive == \E n \in 1..StreamLength :
            n <= FreeSize /\ n <= StreamLength - received /\ Receive(n)

RecvNext == Arrive \/ ReceiveNothing \/ CutPacket \/ FinishReceive \/ Quiet

RecvSpec == RecvInit /\ [][RecvNext]_recvVars

\* Bytes the peer sent arrive, and the handler runs to its end.
RecvFairness == WF_recvVars(Arrive) /\ WF_recvVars(CutPacket \/ FinishReceive)

FairRecvSpec == RecvSpec /\ RecvFairness

-----------------------------------------------------------------------------
(***************************************************************************)
(* Properties                                                              *)
(***************************************************************************)

\* Every variable keeps its type.
RecvTypeOK ==
  /\ readPos \in Nat /\ writePos \in Nat
  /\ buffer \in [0..(Capacity - 1) -> Nat]
  /\ stage \in {"posted", "parse", "stopped"}
  /\ processLen \in Nat /\ cur \in PacketSizes
  /\ received \in Nat /\ consumed \in Nat

\* The cursors stay in order and inside the buffer, and OnRecv never claims
\* more than has arrived (ProcessRecv's two "Overflow" disconnects are dead).
CursorsInBounds ==
  /\ readPos <= writePos /\ writePos <= Capacity
  /\ stage = "parse" => processLen <= DataSize

\* A receive is always posted with room for BufferSize bytes, so for the
\* rest of any packet: never with none, which would complete with 0 bytes
\* and disconnect the session.
RoomWhenPosted == stage = "posted" => FreeSize >= BufferSize

\* Clean never copies between overlapping ranges (it uses memcpy).
CompactionIsDisjoint ==
  stage = "parse" /\ ~PacketReady /\ FreeSize < BufferSize =>
    DataSize - processLen <= readPos + processLen

\* The unread part of the buffer is the stream, byte for byte and in order.
BufferHoldsStream ==
  /\ received = consumed + DataSize
  /\ \A i \in 0..(Capacity - 1) :
       i \in readPos..(writePos - 1) => buffer[i] = consumed + (i - readPos)

\* Everything the peer sends is received, and every packet that has arrived
\* whole is handed over: what stays unread is less than a header or than the
\* packet it begins.  Except that the session ends, or that OnRecv is in a
\* packet whose header says 0, which it hands over for ever.
AllReceived ==
  <>(\/ stage = "stopped"
     \/ stage = "parse" /\ cur = 0 /\ DataSize - processLen >= HeaderSize
     \/ /\ stage = "posted" /\ received = StreamLength
        /\ DataSize < HeaderSize \/ DataSize < cur)
=============================================================================
