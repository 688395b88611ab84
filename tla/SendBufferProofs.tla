-------------------------- MODULE SendBufferProofs --------------------------
(***************************************************************************)
(* Theorems about SendBuffer for any number of threads and chunks and any  *)
(* sizes.                                                                  *)
(*                                                                         *)
(* The argument: only the thread whose LSendBufferChunk a chunk is cuts    *)
(* from it, since no two threads have the same one; and a chunk is reset   *)
(* only after it came from the pool, where no buffer refers to it.  So the *)
(* closed buffers of a chunk lie below _usedSize, and the open one begins  *)
(* there.                                                                  *)
(***************************************************************************)
EXTENDS SendBuffer, TLAPS

PoolSet == {pool[i] : i \in DOMAIN pool}

\* ChunkInOnePlace without its types, and no buffer refers to a chunk that is
\* on its way from or to the pool.
OnePlace ==
  /\ \A i, j \in DOMAIN pool : pool[i] = pool[j] => i = j
  /\ \A t \in Threads : local[t] \notin PoolSet /\ taken[t] \notin PoolSet
  /\ \A b \in buffers : b.chunk \notin PoolSet
  /\ \A t, u \in Threads :
       /\ t # u /\ local[t] = local[u] => local[t] = None
       /\ t # u /\ taken[t] = taken[u] => taken[t] = None
       /\ local[t] = taken[u] => local[t] = None
  /\ \A t \in Threads : \A b \in buffers : taken[t] # b.chunk

\* No chunk is lost, and there is none that was not allocated.
NoneLost ==
  made = PoolSet \cup (({local[t] : t \in Threads} \cup {taken[t] : t \in Threads}) \ {None})
         \cup {b.chunk : b \in buffers}

\* t is between taking a chunk and resetting it.
Resetting(t) == pc[t] = "reset" \/ (pc[t] = "pushGlobal" /\ size[t] # 0)

\* What a thread knows inside a call.
Calls ==
  \A t \in Threads :
    /\ pc[t] = "idle" => size[t] = 0
    /\ pc[t] \in {"pop", "swap", "reset", "open", "fill"} => size[t] # 0
    /\ taken[t] # None <=> pc[t] \in {"swap", "pushGlobal"}
    /\ pc[t] \in {"open", "fill"} \/ Resetting(t) => local[t] # None
    /\ Resetting(t) => \A b \in buffers : b.chunk # local[t]
    /\ pc[t] = "open" => size[t] <= FreeSize(local[t])

\* A buffer that is still open is its thread's only one, at the end of what the
\* chunk has used; a closed one is in what it has used.
Cut ==
  /\ \A b \in buffers :
       IF b.by = None THEN b.start + b.write <= used[b.chunk]
       ELSE /\ pc[b.by] = "fill" /\ local[b.by] = b.chunk
            /\ b.start = used[b.chunk] /\ b.start + b.alloc <= ChunkSize
  /\ \A a, b \in buffers : a.by = b.by /\ a.by # None => a = b
  /\ \A c \in Chunks : open[c] => \E b \in buffers : b.chunk = c /\ b.by # None

IInv == TypeOK /\ OnePlace /\ NoneLost /\ Calls /\ Cut /\ BytesAreOwned

-----------------------------------------------------------------------------
\* A thread outside of fill has no open buffer on its chunk.
LEMMA NotOpen ==
  ASSUME IInv, NEW t \in Threads, local[t] # None, pc[t] # "fill"
  PROVE  /\ ~open[local[t]]
         /\ \A b \in buffers : b.chunk = local[t] => b.by = None
<1>1. ASSUME NEW b \in buffers, b.chunk = local[t], b.by # None PROVE FALSE
  BY <1>1 DEF IInv, OnePlace, Cut, TypeOK, Buffer
<1>. QED
  BY <1>1 DEF IInv, Cut, TypeOK

LEMMA OpenStartStep ==
  ASSUME IInv, NEW t \in Threads, NEW n \in Sizes, OpenStart(t, n)
  PROVE  IInv'
<1>. USE SendBufferAssumption DEF SendBufferAssumption
<1>1. n # 0 /\ pc[t] = "idle"
  BY DEF OpenStart
<1>2. pc' \in [Threads -> {"idle", "pop", "swap", "reset", "open", "fill", "pushGlobal"}]
  BY NotOpen, <1>1 DEF OpenStart, Goto, IInv, TypeOK
<1>3. TypeOK'
  BY <1>2 DEF OpenStart, IInv, TypeOK
<1>4. /\ pc' = [pc EXCEPT ![t] = pc'[t]] /\ size' = [size EXCEPT ![t] = n]
      /\ pc'[t] \in {"pop", "open"}
      /\ pc'[t] = "open" => local[t] # None /\ n <= FreeSize(local[t])
  BY NotOpen, <1>1 DEF OpenStart, Goto, IInv, TypeOK, FreeSize
<1>5. Calls'
  BY <1>1, <1>4 DEF OpenStart, IInv, TypeOK, Calls, Resetting, FreeSize
<1>6. Cut'
  BY <1>1, <1>4 DEF OpenStart, IInv, TypeOK, Cut, Buffer
<1>. QED
  BY <1>3, <1>5, <1>6 DEF OpenStart, IInv, OnePlace, NoneLost, BytesAreOwned, PoolSet, Bytes

\* The chunk that Pop takes, from the pool or new, is nowhere else.
LEMMA PopFact ==
  ASSUME IInv, NEW t \in Threads, Pop(t)
  PROVE  \E c \in Chunks :
           /\ taken' = [taken EXCEPT ![t] = c]
           /\ pool' \in Seq(Chunks) /\ PoolSet' = PoolSet \ {c} /\ made' = made \cup {c}
           /\ \A i, j \in DOMAIN pool' : pool'[i] = pool'[j] => i = j
           /\ \A u \in Threads : local[u] # c /\ taken[u] # c
           /\ \A b \in buffers : b.chunk # c
<1>. USE SendBufferAssumption DEF SendBufferAssumption
<1>1. CASE pool # <<>>
  <2>. DEFINE c == pool[Len(pool)]
  <2>1. /\ Len(pool) \in Nat /\ Len(pool) > 0 /\ DOMAIN pool = 1..Len(pool)
        /\ c \in Chunks /\ c \in PoolSet
    BY <1>1 DEF IInv, TypeOK, PoolSet
  <2>2. pool' = SubSeq(pool, 1, Len(pool) - 1) /\ taken' = [taken EXCEPT ![t] = c] /\ made' = made
    BY <1>1 DEF Pop
  <2>3. /\ pool' \in Seq(Chunks) /\ DOMAIN pool' = 1..(Len(pool) - 1)
        /\ \A i \in 1..(Len(pool) - 1) : pool'[i] = pool[i]
    BY <2>1, <2>2 DEF IInv, TypeOK
  <2>4. PoolSet' = PoolSet \ {c}
    <3>1. ASSUME NEW i \in 1..(Len(pool) - 1) PROVE pool'[i] \in PoolSet \ {c}
      BY <2>1, <2>3 DEF IInv, OnePlace, PoolSet
    <3>2. ASSUME NEW i \in DOMAIN pool, pool[i] # c PROVE i \in 1..(Len(pool) - 1) /\ pool'[i] = pool[i]
      BY <3>2, <2>1, <2>3
    <3>. HIDE DEF c
    <3>. QED
      BY <3>1, <3>2, <2>1, <2>3 DEF PoolSet
  <2>5. \A i, j \in DOMAIN pool' : pool'[i] = pool'[j] => i = j
    BY <2>1, <2>3 DEF IInv, OnePlace
  <2>6. c \in made
    BY <2>1 DEF IInv, NoneLost
  <2>7. /\ \A u \in Threads : local[u] # c /\ taken[u] # c
        /\ \A b \in buffers : b.chunk # c
    BY <2>1 DEF IInv, OnePlace
  <2>. HIDE DEF c
  <2>. QED
    BY <2>1, <2>2, <2>3, <2>4, <2>5, <2>6, <2>7
<1>2. CASE pool = <<>>
  <2>1. PICK c \in Chunks \ made : taken' = [taken EXCEPT ![t] = c] /\ made' = made \cup {c} /\ pool' = pool
    BY <1>2 DEF Pop
  <2>2. PoolSet = {} /\ PoolSet' = {}
    BY <1>2, <2>1 DEF PoolSet
  <2>3. /\ \A u \in Threads : local[u] # c /\ taken[u] # c
        /\ \A b \in buffers : b.chunk # c
    BY <2>1 DEF IInv, NoneLost
  <2>. QED
    BY <2>1, <2>2, <2>3 DEF IInv, TypeOK, OnePlace
<1>. QED
  BY <1>1, <1>2

LEMMA PopStep ==
  ASSUME IInv, NEW t \in Threads, Pop(t)
  PROVE  IInv'
<1>. USE SendBufferAssumption DEF SendBufferAssumption
<1>1. PICK c \in Chunks :
           /\ taken' = [taken EXCEPT ![t] = c]
           /\ pool' \in Seq(Chunks) /\ PoolSet' = PoolSet \ {c} /\ made' = made \cup {c}
           /\ \A i, j \in DOMAIN pool' : pool'[i] = pool'[j] => i = j
           /\ \A u \in Threads : local[u] # c /\ taken[u] # c
           /\ \A b \in buffers : b.chunk # c
  BY PopFact
<1>2. /\ pc[t] = "pop" /\ pc' = [pc EXCEPT ![t] = "swap"]
      /\ UNCHANGED <<local, open, used, buffers, size>>
  BY DEF Pop, Goto
<1>3. TypeOK'
  BY <1>1, <1>2 DEF IInv, TypeOK
<1>4. taken[t] = None
  BY <1>2 DEF IInv, Calls
<1>5. OnePlace'
  BY <1>1, <1>2 DEF IInv, TypeOK, OnePlace
<1>6. NoneLost'
  <2>1. {taken'[u] : u \in Threads} \ {None} = ({taken[u] : u \in Threads} \ {None}) \cup {c}
    BY <1>1, <1>4 DEF IInv, TypeOK
  <2>. QED
    BY <1>1, <1>2, <2>1 DEF IInv, NoneLost
<1>7. Calls'
  BY <1>1, <1>2 DEF IInv, TypeOK, Calls, Resetting, FreeSize
<1>8. Cut'
  BY <1>2 DEF IInv, TypeOK, Cut, Buffer
<1>. QED
  BY <1>2, <1>3, <1>5, <1>6, <1>7, <1>8 DEF IInv, BytesAreOwned, Bytes

\* LSendBufferChunk = Pop(), with what Drop does for the chunk it was.
LEMMA SwapStep ==
  ASSUME IInv, NEW t \in Threads, Swap(t)
  PROVE  IInv'
<1>. USE SendBufferAssumption DEF SendBufferAssumption
<1>. DEFINE held == \E b \in buffers : b.chunk = local[t]
            last == local[t] # None /\ ~held
<1>1. /\ pc[t] = "swap" /\ local' = [local EXCEPT ![t] = taken[t]]
      /\ pc' = [pc EXCEPT ![t] = IF last THEN "pushGlobal" ELSE "reset"]
      /\ taken' = [taken EXCEPT ![t] = IF last THEN local[t] ELSE None]
      /\ UNCHANGED <<pool, made, open, used, buffers, size>>
  BY DEF Swap, Drop, Goto
<1>2. /\ taken[t] \in Chunks /\ size[t] # 0
      /\ \A b \in buffers : b.chunk # taken[t]
      /\ \A u \in Threads : local[u] # taken[t]
  BY <1>1 DEF IInv, TypeOK, Calls, OnePlace
<1>3. TypeOK'
  BY <1>1, <1>2 DEF IInv, TypeOK
<1>4. PoolSet' = PoolSet
  BY <1>1 DEF PoolSet
<1>5. OnePlace'
  <2>1. \A u \in Threads : local'[u] \notin PoolSet' /\ taken'[u] \notin PoolSet'
    <3>1. None \notin PoolSet
      BY DEF PoolSet, IInv, TypeOK
    <3>. QED
      BY <3>1, <1>1, <1>4 DEF IInv, TypeOK, OnePlace
  <2>2. \A u \in Threads : u # t => local'[u] = local[u] /\ taken'[u] = taken[u]
    BY <1>1 DEF IInv, TypeOK
  <2>3. local'[t] = taken[t] /\ taken'[t] \in {local[t], None} /\ taken'[t] # taken[t]
    BY <1>1, <1>2 DEF IInv, TypeOK
  <2>4. \A u, v \in Threads :
          /\ u # v /\ local'[u] = local'[v] => local'[u] = None
          /\ u # v /\ taken'[u] = taken'[v] => taken'[u] = None
          /\ local'[u] = taken'[v] => local'[u] = None
    BY <2>2, <2>3, <1>2 DEF IInv, OnePlace
  <2>5. \A u \in Threads : \A b \in buffers : taken'[u] # b.chunk
    BY <1>1 DEF IInv, TypeOK, OnePlace, Buffer
  <2>. QED
    BY <1>1, <1>4, <2>1, <2>4, <2>5 DEF IInv, OnePlace
<1>6. NoneLost'
  <2>1. local[t] \in Chunks /\ ~last => \E b \in buffers : b.chunk = local[t]
    OBVIOUS
  <2>2. ASSUME NEW c \in Chunks
        PROVE  /\ c \in {local'[u] : u \in Threads} \cup {taken'[u] : u \in Threads} =>
                    c \in {local[u] : u \in Threads} \cup {taken[u] : u \in Threads}
               /\ c \in {local[u] : u \in Threads} \cup {taken[u] : u \in Threads} =>
                    c \in {local'[u] : u \in Threads} \cup {taken'[u] : u \in Threads}
                            \cup {b.chunk : b \in buffers}
    BY <1>1, <2>1 DEF IInv, TypeOK
  <2>. QED
    BY <2>2, <1>1, <1>3, <1>4 DEF IInv, TypeOK, NoneLost
<1>7. Calls'
  BY <1>1, <1>2 DEF IInv, TypeOK, Calls, Resetting, FreeSize
<1>8. Cut'
  BY <1>1 DEF IInv, TypeOK, Cut, Buffer
<1>. QED
  BY <1>1, <1>3, <1>5, <1>6, <1>7, <1>8 DEF IInv, BytesAreOwned, Bytes

LEMMA ResetStep ==
  ASSUME IInv, NEW t \in Threads, Reset(t)
  PROVE  IInv'
<1>. USE SendBufferAssumption DEF SendBufferAssumption
<1>1. /\ pc[t] = "reset" /\ pc' = [pc EXCEPT ![t] = "open"]
      /\ open' = [open EXCEPT ![local[t]] = FALSE] /\ used' = [used EXCEPT ![local[t]] = 0]
      /\ UNCHANGED <<local, pool, made, buffers, size, taken>>
  BY DEF Reset, Goto
<1>2. /\ local[t] \in Chunks /\ size[t] \in Sizes
      /\ \A b \in buffers : b.chunk # local[t]
      /\ \A u \in Threads : u # t => local[u] # local[t]
  BY <1>1 DEF IInv, TypeOK, Calls, Resetting, OnePlace
<1>3. TypeOK'
  BY <1>1, <1>2 DEF IInv, TypeOK
<1>4. Calls'
  <2>1. size[t] <= ChunkSize - used'[local[t]] /\ size[t] # 0
    <3>1. used'[local[t]] = 0
      BY <1>1, <1>2 DEF IInv, TypeOK
    <3>2. size[t] \in 1..ChunkSize
      BY <1>2
    <3>. QED
      BY <3>1, <3>2
  <2>2. ASSUME NEW u \in Threads, u # t, pc[u] = "open" PROVE size[u] <= ChunkSize - used'[local[u]]
    BY <2>2, <1>1, <1>2 DEF IInv, TypeOK, Calls, FreeSize
  <2>3. \A u \in Threads : u # t => pc'[u] = pc[u]
    BY <1>1 DEF IInv, TypeOK
  <2>4. pc'[t] = "open" /\ taken[t] = None /\ local[t] # None
    BY <1>1, <1>2, SendBufferAssumption DEF IInv, TypeOK, Calls, SendBufferAssumption
  <2>. QED
    BY <1>1, <2>1, <2>2, <2>3, <2>4 DEF IInv, Calls, Resetting, FreeSize
<1>5. Cut'
  BY <1>1, <1>2 DEF IInv, TypeOK, Cut, Buffer
<1>. QED
  BY <1>1, <1>3, <1>4, <1>5 DEF IInv, OnePlace, NoneLost, BytesAreOwned, Bytes, PoolSet

LEMMA OpenChunkStep ==
  ASSUME IInv, NEW t \in Threads, OpenChunk(t)
  PROVE  IInv'
<1>. USE SendBufferAssumption DEF SendBufferAssumption
<1>. DEFINE c == local[t]
            n == [chunk |-> c, start |-> used[c], alloc |-> size[t], write |-> 0, by |-> t]
<1>1. /\ pc[t] = "open" /\ c \in Chunks /\ size[t] \in Sizes /\ size[t] <= FreeSize(c)
      /\ ~open[c] /\ \A b \in buffers : b.chunk = c => b.by = None
      /\ size[t] \in Nat /\ FreeSize(c) \in Int
  <2>1. pc[t] = "open" /\ c \in Chunks /\ size[t] \in Sizes /\ size[t] <= FreeSize(c)
    BY DEF OpenChunk, IInv, TypeOK, Calls
  <2>2. ~open[c] /\ \A b \in buffers : b.chunk = c => b.by = None
    BY <2>1, NotOpen
  <2>3. size[t] \in Nat /\ used[c] \in Int
    <3>1. size[t] \in 1..ChunkSize /\ used[c] \in 0..ChunkSize
      BY <2>1 DEF IInv, TypeOK
    <3>. QED
      BY <3>1
  <2>4. FreeSize(c) \in Int
    BY <2>3 DEF FreeSize
  <2>. QED
    BY <2>1, <2>2, <2>3, <2>4
<1>2. /\ open' = [open EXCEPT ![c] = TRUE] /\ buffers' = buffers \cup {n}
      /\ pc' = [pc EXCEPT ![t] = "fill"]
      /\ UNCHANGED <<local, pool, made, used, size, taken>>
  <2>. HIDE DEF n
  <2>1. ~(open[c] \/ size[t] > FreeSize(c))
    BY <1>1
  <2>. QED
    BY <2>1 DEF OpenChunk, Goto, n
<1>3. /\ n \in Buffer /\ n.chunk = c /\ n.start = used[c] /\ n.alloc = size[t] /\ n.by = t
      /\ n.start \in Nat /\ n.alloc \in Nat /\ n.start + n.alloc <= ChunkSize
  <2>1. used[c] \in 0..ChunkSize /\ used[c] + size[t] <= ChunkSize /\ 0 \in 0..ChunkSize
    BY <1>1 DEF IInv, TypeOK, FreeSize
  <2>2. used[c] \in Nat
    BY <2>1
  <2>3. n \in Buffer
    BY <1>1, <2>1 DEF Buffer
  <2>. QED
    BY <1>1, <2>1, <2>2, <2>3
<1>. HIDE DEF n
<1>4. TypeOK'
  BY <1>1, <1>2, <1>3 DEF IInv, TypeOK
<1>5. PoolSet' = PoolSet
  BY <1>2 DEF PoolSet
<1>6. OnePlace'
  BY <1>1, <1>2, <1>3, <1>5 DEF IInv, OnePlace
<1>7. NoneLost'
  <2>1. {b.chunk : b \in buffers'} = {b.chunk : b \in buffers} \cup {c}
    BY <1>2, <1>3
  <2>. QED
    BY <2>1, <1>1, <1>2, <1>5 DEF IInv, NoneLost
<1>8. Calls'
  BY <1>1, <1>2, <1>3 DEF IInv, TypeOK, Calls, Resetting, FreeSize, OnePlace
<1>9. Cut'
  <2>1. \A b \in buffers : b.by # t
    BY <1>1 DEF IInv, Cut
  <2>2. ASSUME NEW b \in buffers
        PROVE  IF b.by = None THEN b.start + b.write <= used[b.chunk]
               ELSE /\ pc'[b.by] = "fill" /\ local[b.by] = b.chunk
                    /\ b.start = used[b.chunk] /\ b.start + b.alloc <= ChunkSize
    BY <1>2, <2>1 DEF IInv, TypeOK, Cut
  <2>3. pc'[n.by] = "fill" /\ local[n.by] = n.chunk /\ n.by # None
    BY <1>2, <1>3 DEF IInv, TypeOK
  <2>4. \A a, b \in buffers' : a.by = b.by /\ a.by # None => a = b
    BY <1>2, <1>3, <2>1 DEF IInv, Cut
  <2>5. \A d \in Chunks : open'[d] => \E b \in buffers' : b.chunk = d /\ b.by # None
    BY <1>2, <1>3, <2>3 DEF IInv, TypeOK, Cut
  <2>. QED
    BY <1>2, <1>3, <2>2, <2>3, <2>4, <2>5 DEF Cut
<1>10. BytesAreOwned'
  <2>1. ASSUME NEW b \in buffers, b.chunk = c PROVE Bytes(b) \cap Bytes(n) = {}
    <3>1. b.by = None /\ b.start + b.write <= n.start /\ b.start \in Nat /\ b.write \in Nat
      BY <2>1, <1>1, <1>3 DEF IInv, Cut, TypeOK, Buffer
    <3>2. n.by # None
      BY <1>3
    <3>. QED
      BY <3>1, <3>2, <1>3 DEF Bytes
  <2>. QED
    BY <2>1, <1>2, <1>3 DEF IInv, BytesAreOwned
<1>. QED
  BY <1>4, <1>6, <1>7, <1>8, <1>9, <1>10 DEF IInv

LEMMA CloseStep ==
  ASSUME IInv, NEW t \in Threads, NEW b \in buffers, NEW w \in 1..ChunkSize, Close(t, b, w)
  PROVE  IInv'
<1>. USE SendBufferAssumption DEF SendBufferAssumption
<1>. DEFINE n == [b EXCEPT !.write = w, !.by = None]
            c == b.chunk
<1>1. /\ pc[t] = "fill" /\ b.by = t /\ w <= b.alloc
      /\ buffers' = (buffers \ {b}) \cup {n}
      /\ used' = [used EXCEPT ![c] = @ + w] /\ open' = [open EXCEPT ![c] = FALSE]
      /\ size' = [size EXCEPT ![t] = 0] /\ pc' = [pc EXCEPT ![t] = "idle"]
      /\ UNCHANGED <<local, pool, made, taken>>
  BY DEF Close, Goto
<1>2. /\ b \in Buffer /\ c \in Chunks /\ b.start \in Nat /\ b.alloc \in Nat
      /\ local[t] = c /\ b.start = used[c] /\ b.start + b.alloc <= ChunkSize
  BY <1>1 DEF IInv, TypeOK, Cut, Buffer
<1>3. /\ n \in Buffer /\ n.chunk = c /\ n.start = b.start /\ n.write = w /\ n.by = None
  <2>1. w \in 0..ChunkSize
    OBVIOUS
  <2>2. b \in [chunk : Chunks, start : 0..ChunkSize, alloc : Sizes, write : 0..ChunkSize,
               by : Threads \cup {None}]
    BY <1>2 DEF Buffer
  <2>. QED
    BY <2>1, <2>2 DEF Buffer
<1>. HIDE DEF n
<1>4. TypeOK'
  BY <1>1, <1>2, <1>3 DEF IInv, TypeOK
<1>5. PoolSet' = PoolSet
  BY <1>1 DEF PoolSet
<1>6. OnePlace'
  BY <1>1, <1>2, <1>3, <1>5 DEF IInv, OnePlace
<1>7. NoneLost'
  <2>1. {x.chunk : x \in buffers'} = {x.chunk : x \in buffers}
    BY <1>1, <1>3
  <2>. QED
    BY <2>1, <1>1, <1>5 DEF IInv, NoneLost
<1>8. \A x \in buffers \ {b} : x.chunk = c => x.by = None
  BY <1>1, <1>2 DEF IInv, Cut, TypeOK, Buffer, OnePlace
<1>9. Calls'
  BY <1>1, <1>2, <1>3 DEF IInv, TypeOK, Calls, Resetting, FreeSize, OnePlace
<1>10. Cut'
  BY <1>1, <1>2, <1>3, <1>8 DEF IInv, TypeOK, Cut, Buffer
<1>11. BytesAreOwned'
  <2>1. Bytes(n) \subseteq Bytes(b)
    BY <1>1, <1>2, <1>3 DEF Bytes
  <2>. QED
    BY <2>1, <1>1, <1>3 DEF IInv, BytesAreOwned
<1>. QED
  BY <1>4, <1>6, <1>7, <1>9, <1>10, <1>11 DEF IInv

\* The last reference to a buffer goes, and perhaps the last one to its chunk.
LEMMA ReleaseStep ==
  ASSUME IInv, NEW t \in Threads, NEW b \in buffers, Release(t, b)
  PROVE  IInv'
<1>. USE SendBufferAssumption DEF SendBufferAssumption
<1>. DEFINE c    == b.chunk
            last == ~(\/ \E x \in buffers \ {b} : x.chunk = c
                      \/ \E u \in Threads : local[u] = c)
<1>1. c \in Chunks
  BY DEF IInv, TypeOK, Buffer
<1>2. /\ pc[t] = "idle" /\ b.by = None /\ buffers' = buffers \ {b}
      /\ pc' = [pc EXCEPT ![t] = IF last THEN "pushGlobal" ELSE "idle"]
      /\ taken' = [taken EXCEPT ![t] = IF last THEN c ELSE None]
      /\ UNCHANGED <<local, pool, made, open, used, size>>
  BY <1>1 DEF Release, Drop, Goto
<1>3. taken[t] = None /\ size[t] = 0 /\ c \notin PoolSet /\ \A u \in Threads : taken[u] # c
  BY <1>2 DEF IInv, Calls, OnePlace
<1>4. TypeOK'
  BY <1>1, <1>2 DEF IInv, TypeOK
<1>5. PoolSet' = PoolSet
  BY <1>2 DEF PoolSet
<1>6. OnePlace'
  <2>1. \A u \in Threads : u # t => taken'[u] = taken[u]
    BY <1>2 DEF IInv, TypeOK
  <2>2. taken'[t] = None \/ (taken'[t] = c /\ last)
    BY <1>2 DEF IInv, TypeOK
  <2>3. None \notin PoolSet /\ \A x \in buffers : x.chunk # None
    BY DEF PoolSet, IInv, TypeOK, Buffer
  <2>. QED
    BY <1>2, <1>3, <1>5, <2>1, <2>2, <2>3 DEF IInv, OnePlace
<1>7. NoneLost'
  <2>. DEFINE Locals  == {local[u] : u \in Threads}
              Before == {taken[u] : u \in Threads}
              After  == {taken'[u] : u \in Threads}
              Kept   == {x.chunk : x \in buffers}
              Rest   == {x.chunk : x \in buffers'}
  <2>1. After \ {None} = (Before \ {None}) \cup (IF last THEN {c} ELSE {})
    BY <1>1, <1>2, <1>3 DEF IInv, TypeOK
  <2>2. Kept = Rest \cup {c}
    BY <1>2
  <2>3. ~last => c \in Locals \cup Rest
    BY <1>2
  <2>4. made = PoolSet \cup ((Locals \cup Before) \ {None}) \cup Kept
    BY DEF IInv, NoneLost
  <2>5. c # None
    BY <1>1
  <2>6. NoneLost' <=> made = PoolSet \cup ((Locals \cup After) \ {None}) \cup Rest
    BY <1>2, <1>5 DEF NoneLost
  <2>. HIDE DEF last, c, Locals, Before, After, Kept, Rest
  <2>7. CASE last
    BY <2>1, <2>2, <2>4, <2>5, <2>6, <2>7
  <2>8. CASE ~last
    BY <2>1, <2>2, <2>3, <2>4, <2>5, <2>6, <2>8
  <2>. QED
    BY <2>7, <2>8
<1>8. Calls'
  BY <1>1, <1>2, <1>3 DEF IInv, TypeOK, Calls, Resetting, FreeSize
<1>9. Cut'
  BY <1>2 DEF IInv, TypeOK, Cut, Buffer
<1>. QED
  BY <1>2, <1>4, <1>6, <1>7, <1>8, <1>9 DEF IInv, BytesAreOwned, Bytes

LEMMA PushGlobalStep ==
  ASSUME IInv, NEW t \in Threads, PushGlobal(t)
  PROVE  IInv'
<1>. USE SendBufferAssumption DEF SendBufferAssumption
<1>. DEFINE c == taken[t]
<1>1. /\ pc[t] = "pushGlobal" /\ pool' = Append(pool, c)
      /\ taken' = [taken EXCEPT ![t] = None]
      /\ pc' = [pc EXCEPT ![t] = IF size[t] = 0 THEN "idle" ELSE "reset"]
      /\ UNCHANGED <<local, made, open, used, buffers, size>>
  BY DEF PushGlobal, Goto
<1>2. /\ c \in Chunks /\ c \notin PoolSet
      /\ \A u \in Threads : local[u] # c /\ (u # t => taken[u] # c)
      /\ \A b \in buffers : b.chunk # c
  BY <1>1 DEF IInv, TypeOK, Calls, OnePlace
<1>3. /\ pool' \in Seq(Chunks) /\ DOMAIN pool = 1..Len(pool) /\ Len(pool) \in Nat
      /\ DOMAIN pool' = 1..(Len(pool) + 1) /\ pool'[Len(pool) + 1] = c
      /\ \A i \in 1..Len(pool) : pool'[i] = pool[i]
  BY <1>1, <1>2 DEF IInv, TypeOK
<1>4. PoolSet' = PoolSet \cup {c}
  <2>1. ASSUME NEW i \in DOMAIN pool' PROVE pool'[i] \in PoolSet \cup {c}
    BY <1>3 DEF PoolSet
  <2>2. ASSUME NEW i \in DOMAIN pool PROVE i \in DOMAIN pool' /\ pool'[i] = pool[i]
    BY <1>3
  <2>3. Len(pool) + 1 \in DOMAIN pool'
    BY <1>3
  <2>. HIDE DEF c
  <2>. QED
    BY <2>1, <2>2, <2>3, <1>3 DEF PoolSet
<1>5. TypeOK'
  BY <1>1, <1>3 DEF IInv, TypeOK
<1>6. OnePlace'
  <2>1. \A i, j \in DOMAIN pool' : pool'[i] = pool'[j] => i = j
    BY <1>2, <1>3 DEF IInv, OnePlace, PoolSet
  <2>2. \A u \in Threads : taken'[u] \in {taken[u], None} /\ (taken'[u] = c => u = t) /\ taken'[t] = None
    BY <1>1, <1>2 DEF IInv, TypeOK
  <2>3. None \notin PoolSet /\ \A x \in buffers : x.chunk # None
    BY DEF PoolSet, IInv, TypeOK, Buffer
  <2>. QED
    BY <1>1, <1>2, <1>4, <2>1, <2>2, <2>3 DEF IInv, OnePlace
<1>7. NoneLost'
  <2>1. {taken[u] : u \in Threads} \ {None} = ({taken'[u] : u \in Threads} \ {None}) \cup {c}
    BY <1>1, <1>2 DEF IInv, TypeOK
  <2>. QED
    BY <2>1, <1>1, <1>4 DEF IInv, NoneLost
<1>8. Calls'
  BY <1>1, <1>2 DEF IInv, TypeOK, Calls, Resetting, FreeSize
<1>9. Cut'
  BY <1>1 DEF IInv, TypeOK, Cut, Buffer
<1>. QED
  BY <1>1, <1>5, <1>6, <1>7, <1>8, <1>9 DEF IInv, BytesAreOwned, Bytes

-----------------------------------------------------------------------------
LEMMA IInvHolds == Spec => []IInv
<1>1. Init => IInv
  <2>1. Init => PoolSet = {}
    BY DEF Init, PoolSet
  <2>. QED
    BY <2>1, SendBufferAssumption
    DEF Init, IInv, TypeOK, OnePlace, NoneLost, Calls, Resetting, Cut, BytesAreOwned,
        SendBufferAssumption
<1>2. IInv /\ [Next]_vars => IInv'
  <2>. SUFFICES ASSUME IInv, [Next]_vars PROVE IInv'
    OBVIOUS
  <2>1. CASE Next
    BY <2>1, OpenStartStep, PopStep, SwapStep, ResetStep, OpenChunkStep, CloseStep, ReleaseStep,
       PushGlobalStep DEF Next
  <2>2. CASE UNCHANGED vars
    BY <2>2 DEF vars, IInv, TypeOK, OnePlace, NoneLost, Calls, Resetting, FreeSize, Cut,
                BytesAreOwned, Bytes, PoolSet
  <2>. QED
    BY <2>1, <2>2
<1>. QED
  BY <1>1, <1>2, PTL DEF Spec

\* No byte of a send buffer belongs to another one before its last reference
\* goes, for any number of threads and chunks and any sizes of packets.
THEOREM NoByteIsShared == Spec => []BytesAreOwned
<1>1. IInv => BytesAreOwned
  BY DEF IInv
<1>. QED
  BY <1>1, IInvHolds, PTL

\* A chunk is in the pool, with one thread, or kept by its buffers alone; none is
\* lost and none of the assertions in Open fails.
THEOREM ChunksAreKept == Spec => []ChunkInOnePlace
<1>1. IInv => ChunkInOnePlace
  BY DEF IInv, OnePlace, NoneLost, ChunkInOnePlace, PoolSet
<1>. QED
  BY <1>1, IInvHolds, PTL
=============================================================================
