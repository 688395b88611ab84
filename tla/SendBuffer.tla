----------------------------- MODULE SendBuffer -----------------------------
(***************************************************************************)
(* SendBufferManager: threads cut their send buffers from a chunk of their *)
(* own, buffers are shared by sessions, and a chunk goes back to the       *)
(* common pool when its last reference goes, on whatever thread that is.   *)
(*                                                                         *)
(* A chunk is referenced by the thread that cuts from it (LSendBufferChunk)*)
(* and by every live buffer cut from it; the pool holds the others.        *)
(***************************************************************************)
EXTENDS Integers, Sequences, FiniteSets

CONSTANTS Threads,
          Chunks,     \* bound: the chunks that are ever allocated
          ChunkSize,  \* SEND_BUFFER_CHUNK_SIZE, 6000
          Sizes,      \* the packet sizes
          MaxLive,    \* bound: buffers alive or being opened at a time
          None

ASSUME SendBufferAssumption ==
  /\ ChunkSize \in Nat /\ MaxLive \in Nat
  /\ Sizes \subseteq 1..ChunkSize
  /\ None \notin Chunks /\ None \notin Threads

VARIABLES
  local,    \* local[t]: LSendBufferChunk of t
  pool,     \* _sendBufferChunks
  made,     \* the chunks allocated so far
  open,     \* open[c]: _open
  used,     \* used[c]: _usedSize
  buffers,  \* the live SendBuffers
  pc,       \* where t is in SendBufferManager::Open or in a release
  size,     \* size[t]: Open's argument, 0 outside of Open
  taken     \* taken[t]: the chunk Pop returned, or the one PushGlobal returns

vars == <<local, pool, made, open, used, buffers, pc, size, taken>>

\* `by' is the thread that still fills the buffer, None once it is closed.
Buffer == [chunk : Chunks, start : 0..ChunkSize, alloc : Sizes,
           write : 0..ChunkSize, by : Threads \cup {None}]

\* The bytes that belong to a buffer.
Bytes(b) ==
  b.start..(b.start + (IF b.by = None THEN b.write ELSE b.alloc) - 1)

FreeSize(c) == ChunkSize - used[c]

Init ==
  /\ local = [t \in Threads |-> None]
  /\ pool = <<>> /\ made = {}
  /\ open = [c \in Chunks |-> FALSE]
  /\ used = [c \in Chunks |-> 0]
  /\ buffers = {}
  /\ pc = [t \in Threads |-> "idle"]
  /\ size = [t \in Threads |-> 0]
  /\ taken = [t \in Threads |-> None]

-----------------------------------------------------------------------------
Goto(t, label) == pc' = [pc EXCEPT ![t] = label]

\* A reference to c is dropped on t: the last one calls PushGlobal, else t
\* goes on with `label'.
Drop(t, c, otherRefs, label) ==
  IF c # None /\ ~otherRefs
    THEN Goto(t, "pushGlobal") /\ taken' = [taken EXCEPT ![t] = c]
    ELSE Goto(t, label) /\ taken' = [taken EXCEPT ![t] = None]

\* MakeSendBuffer calls Open; a chunk that is still open is a crash.
OpenStart(t, n) ==
  /\ pc[t] = "idle"
  /\ Cardinality(buffers) + Cardinality({u \in Threads : size[u] # 0 /\ pc[u] # "fill"})
       < MaxLive
  /\ size' = [size EXCEPT ![t] = n]
  /\ Goto(t, IF local[t] = None THEN "pop"
             ELSE IF open[local[t]] THEN "crashed"
             ELSE IF FreeSize(local[t]) < n THEN "pop" ELSE "open")
  /\ UNCHANGED <<local, pool, made, open, used, buffers, taken>>

\* Under the lock: the chunk at the back, or a new one.
Pop(t) ==
  /\ pc[t] = "pop"
  /\ \/ /\ pool # <<>>
        /\ taken' = [taken EXCEPT ![t] = pool[Len(pool)]]
        /\ pool' = SubSeq(pool, 1, Len(pool) - 1)
        /\ UNCHANGED made
     \/ /\ pool = <<>>
        /\ \E c \in Chunks \ made :
             taken' = [taken EXCEPT ![t] = c] /\ made' = made \cup {c}
        /\ UNCHANGED pool
  /\ Goto(t, "swap")
  /\ UNCHANGED <<local, open, used, buffers, size>>

\* A seeded bug: the old chunk is forgotten.
SwapMutantLeak(t) ==
  /\ pc[t] = "swap"
  /\ local' = [local EXCEPT ![t] = taken[t]]
  /\ Drop(t, None, FALSE, "reset")
  /\ UNCHANGED <<pool, made, open, used, buffers, size>>

\* LSendBufferChunk = Pop(): the old chunk loses this reference.
Swap(t) ==
  /\ pc[t] = "swap"
  /\ local' = [local EXCEPT ![t] = taken[t]]
  /\ Drop(t, local[t], \E b \in buffers : b.chunk = local[t], "reset")
  /\ UNCHANGED <<pool, made, open, used, buffers, size>>

Reset(t) ==
  /\ pc[t] = "reset"
  /\ open' = [open EXCEPT ![local[t]] = FALSE]
  /\ used' = [used EXCEPT ![local[t]] = 0]
  /\ Goto(t, "open")
  /\ UNCHANGED <<local, pool, made, buffers, size, taken>>

\* SendBufferChunk::Open; without room it returns nullptr.
OpenChunk(t) ==
  LET c == local[t] IN
  /\ pc[t] = "open"
  /\ IF open[c] \/ size[t] > FreeSize(c)
       THEN Goto(t, "crashed") /\ UNCHANGED <<open, buffers>>
       ELSE /\ open' = [open EXCEPT ![c] = TRUE]
            /\ buffers' = buffers \cup
                 {[chunk |-> c, start |-> used[c], alloc |-> size[t],
                   write |-> 0, by |-> t]}
            /\ Goto(t, "fill")
  /\ UNCHANGED <<local, pool, made, used, size, taken>>

\* A seeded bug: the chunk does not advance.
CloseMutantStill(t, b, w) ==
  /\ pc[t] = "fill"
  /\ b.by = t /\ w <= b.alloc
  /\ buffers' = (buffers \ {b}) \cup {[b EXCEPT !.write = w, !.by = None]}
  /\ used' = [used EXCEPT ![b.chunk] = @]
  /\ open' = [open EXCEPT ![b.chunk] = FALSE]
  /\ size' = [size EXCEPT ![t] = 0]
  /\ Goto(t, "idle")
  /\ UNCHANGED <<local, pool, made, taken>>

\* SendBuffer::Close(w) on the thread that opened it.
Close(t, b, w) ==
  /\ pc[t] = "fill"
  /\ b.by = t /\ w <= b.alloc
  /\ buffers' = (buffers \ {b}) \cup {[b EXCEPT !.write = w, !.by = None]}
  /\ used' = [used EXCEPT ![b.chunk] = @ + w]
  /\ open' = [open EXCEPT ![b.chunk] = FALSE]
  /\ size' = [size EXCEPT ![t] = 0]
  /\ Goto(t, "idle")
  /\ UNCHANGED <<local, pool, made, taken>>

\* The last reference to a closed buffer goes on t: a send has completed, or
\* its session is gone.
Release(t, b) ==
  /\ pc[t] = "idle"
  /\ b.by = None
  /\ buffers' = buffers \ {b}
  /\ Drop(t, b.chunk,
          \/ \E x \in buffers \ {b} : x.chunk = b.chunk
          \/ \E u \in Threads : local[u] = b.chunk, "idle")
  /\ UNCHANGED <<local, pool, made, open, used, size>>

\* Under the lock: the deleter puts the chunk back.
PushGlobal(t) ==
  /\ pc[t] = "pushGlobal"
  /\ pool' = Append(pool, taken[t])
  /\ taken' = [taken EXCEPT ![t] = None]
  /\ Goto(t, IF size[t] = 0 THEN "idle" ELSE "reset")
  /\ UNCHANGED <<local, made, open, used, buffers, size>>

Next ==
  \E t \in Threads :
    \/ \E n \in Sizes : OpenStart(t, n)
    \/ Pop(t) \/ Swap(t) \/ Reset(t) \/ OpenChunk(t) \/ PushGlobal(t)
    \/ \E b \in buffers : Release(t, b) \/ \E w \in 1..ChunkSize : Close(t, b, w)

Spec == Init /\ [][Next]_vars

-----------------------------------------------------------------------------
(***************************************************************************)
(* Properties                                                              *)
(***************************************************************************)

\* Every variable keeps its type, and Open succeeds: neither of its assertions
\* fails and nullptr is not returned.
TypeOK ==
  /\ local \in [Threads -> Chunks \cup {None}]
  /\ pool \in Seq(Chunks) /\ made \subseteq Chunks
  /\ open \in [Chunks -> BOOLEAN] /\ used \in [Chunks -> 0..ChunkSize]
  /\ buffers \subseteq Buffer
  /\ pc \in [Threads -> {"idle", "pop", "swap", "reset", "open", "fill",
                         "pushGlobal"}]
  /\ size \in [Threads -> Sizes \cup {0}]
  /\ taken \in [Threads -> Chunks \cup {None}]

\* A buffer's bytes are its own until its last reference goes: no thread
\* writes into a packet that another session still has to send.
BytesAreOwned ==
  \A a, b \in buffers :
    a # b /\ a.chunk = b.chunk => Bytes(a) \cap Bytes(b) = {}

\* A chunk is in one place: in the pool, in the hands of one thread, or only
\* kept by its buffers; a chunk of the pool is referenced by nobody, and no chunk
\* that was allocated is lost.
ChunkInOnePlace ==
  /\ TypeOK
  /\ \A i, j \in DOMAIN pool : pool[i] = pool[j] => i = j
  /\ \A i \in DOMAIN pool :
       /\ \A t \in Threads : local[t] # pool[i] /\ taken[t] # pool[i]
       /\ \A b \in buffers : b.chunk # pool[i]
  /\ \A t, u \in Threads :
       /\ t # u /\ local[t] = local[u] => local[t] = None
       /\ t # u /\ taken[t] = taken[u] => taken[t] = None
       /\ local[t] = taken[u] => local[t] = None
  /\ made = {pool[i] : i \in DOMAIN pool}
           \cup (({local[t] : t \in Threads} \cup {taken[t] : t \in Threads}) \ {None})
           \cup {b.chunk : b \in buffers}
=============================================================================
