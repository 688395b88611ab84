# A verification of chatting_server

TLA+ modules of the server in `src/ChattingServer/chatting_server`, TLC
configurations that check them on small instances, and theorems that TLAPS
proves for every instance. Paths below are relative to that directory.

The program is an IOCP game server for Windows in C++: `ServerCore` is its
engine (sockets, jobs, locks, memory), `GameServer` the game (a lobby, rooms,
matches), `DummyClient` an interactive client. There are no tests and no
design documents in the repository; what it says of itself stands in comments,
`ASSERT_CRASH`es and the client's table of error codes.

## 1. The system

### How a server thread works

`GameServer.cpp` starts 17 threads and uses the main thread as an 18th. Each
runs `DoWorkerJob`: take at most one completion from the completion port
(waiting 10 ms) and run its handler to the end, game logic included; hand due
timer jobs to their queues; execute queues from the global queue until the
round's 64 ms are over. There is no other scheduling. Everything that follows
from it is in the models: any thread may run anything at any time, a handler
runs on the thread that got the completion, and a queue is executed by whoever
happens to push to it first.

### Components

| Component | State | Operations | What makes it correct |
|---|---|---|---|
| `JobQueue`, `LockQueue`, `GlobalQueue` | `_jobs`, `_jobCount`, the list of queues that wait for a thread, the queue each thread executes | `DoAsync`, `Push`, `Execute`, `ClearJobs`, `DoGlobalQueueWork` | jobs of one queue run one at a time, in order, all of them; no two threads in one queue; a queue goes idle |
| `Lock` and guards | the 32-bit word (owner, read count), the plain `_writeCount` | `WriteLock`, `WriteUnlock`, `ReadLock`, `ReadUnlock` | exclusion, recursion, no lost update of the plain counter, unlocks in order, no endless spin |
| `RecvBuffer`, `PacketSession` | two cursors and the bytes | `OnWrite`, `OnRecv`, `OnRead`, `Clean`, posting a receive | the packets handed over are the stream cut at its packet boundaries; room for every receive; `memcpy` of disjoint ranges |
| `Session` | `_connected`, `_sendQueue`, `_sendRegistered`, four event objects with their owner | `Send`, `Disconnect`, four `Register…`, four `Process…` | one user of `_sendEvent`; ordered, complete output; owner set whenever the kernel has an event; released once |
| `JobTimer` | the heap of reserved jobs, `_distributing` | `Reserve`, `Distribute`, `Clear` | never early, never lost or doubled, in order of time, one distributor |
| `SendBufferManager` | a chunk per thread, a pool of chunks | `Open`, `Close`, the last reference going | bytes of a live buffer are never written again; no chunk twice or lost |
| `DeadLockProfiler` (debug builds) | ids of lock names, the order graph, a stack per thread | `PushLock`, `PopLock`, `CheckCycle` | the process stops exactly at the first cycle, before a hang |
| `Memory`, `MemoryPool`, `ObjectPool` | lock-free lists by size class, two counters each, a header in front of every block | `Allocate`, `Release`, `Push`, `Pop` | a block fits, has one owner, returns to the list it came from |
| Game handlers, `Room`, `GameSession` | users, `_room`, `_users`, `isStarted`, the jobs of rooms | nine packet handlers, `Enter`, `Leave`, `Broadcast`, `OnDisconnected` | capacity; one order of events; sessions and rooms agree; the dead leave; the loser hears of it; no null or dangling reference |
| `Service`, `Listener`, `IocpCore` | the set of sessions and its count, the accept events | `AddSession`, `ReleaseSession`, `Broadcast`, `ProcessAccept`, `RegisterAccept`, `Dispatch` | a session is in the set from connection to release; no accept event is lost; a broadcast misses nobody it can reach |
| `StompAllocator` (all memory of the default build) | none | `Alloc`, `Release` | `Release` finds the base address; a block ends where its pages end |
| `ThreadManager`, `CoreTLS`, `CoreGlobal` | thread ids, thread-locals, the global objects | `Launch`, `Join` | ids are never 0 and never repeat |
| `DBConnectionPool`, `DBConnection`, `DBBind` | a list of ODBC connections | `Pop`, `Push`, queries | a connection has one user; only the start of `main` is one |
| `DummyClient` | ten sessions of one `ClientService`, menu state, the players on the screen | menus, nine packet handlers, `Broadcast` of every packet | every connected session sends what the console decides |

Unused by the program: `BufferReader`, `BufferWriter`, `RefCounting`, `TypeCast`.
Generated or third-party: the protobuf messages and library, the handler
tables made by `Tools/PacketGenerator`.

### How they interact

A completion reaches `Session::Dispatch`, `ProcessRecv` cuts packets out of
the `RecvBuffer` and calls the game handler. The handler reads rooms directly
and posts `Enter`, `Leave` and `Broadcast` as jobs of a `Room`, which is a
`JobQueue`; the first post executes the queue on the spot. A `Broadcast` sends
one `SendBuffer` through many sessions' `Send`; their `_sendEvent`s keep it
alive until the completions come, and the last one returns the chunk to the
pool, on any thread. Every class that is shared has a `Lock`, except the rooms'
`_users` when handlers read them, and `GRoomMap`.

### What is hard

Nearly everything is concurrency: atomics next to data they do not protect
(`_jobCount` and `_jobs`, `_sendRegistered` and `_sendQueue`, `_lockFlag` and
`_writeCount`), a lock given up between a test and the act it was for, code
written for one thread called from many, callbacks that re-enter their caller
(a deleter inside `Open`, a queue inside a timer), error paths without the
lock, and the death of a session while others use it. The hazards, each at its
line and with the properties that cover it, are listed in `PROJECT.json`.

## 2. Modules

A variable has the name of the field it stands for where there is one. The
grain is one atomic operation, or one critical section, or the plain code
between two accesses to shared state; a local that lives over such a point is a
field of the thread's state, `pc` (or `call[s].at`, `pushing[t].stage`) says
where the thread is. Sequential consistency is assumed: every atomic of the
program uses the default order. `PROJECT.json` maps each definition to its
lines.

| Module | Models | Extended or used by |
|---|---|---|
| `SerialExecutor` | what a job queue promises: per queue, one job at a time, in order, fairly | instantiated by `JobQueue` |
| `JobQueue` | `JobQueue.{h,cpp}`, `LockQueue.h`, `GlobalQueue`, `DoGlobalQueueWork`; the 64 ms are a free choice after each batch | `JobQueueProofs` |
| `ReaderWriter` | what a lock promises: stacks of guards that exclude each other | instantiated by `RWLock` |
| `RWLock` | `Lock.{h,cpp}`, the guards as stacks, every crash as an outcome | `RWLockProofs` |
| `RecvBuffer` | `RecvBuffer`, `Session::ProcessRecv`, `PacketSession::OnRecv`; a byte is its offset in the stream | `SessionProofs` |
| `OutputStream` | what `Send` promises: an ordered stream, with loss only after a failed write | instantiated by `Session` |
| `Session` | `Session.cpp`, the parts of `Service` and `IocpCore` it calls; a buffer is its place in the order of pushes | `SessionProofs` |
| `JobTimer` | `JobTimer`, `DoTimer`, `DistributeReservedJobs`; a clock that moves between any two steps | `JobTimerProofs` |
| `SendBuffer` | `SendBuffer.{h,cpp}`, the references that keep a chunk alive | `MCSendBuffer`, `SendBufferProofs` |
| `DeadLockProfiler` | `DeadLockProfiler.{h,cpp}` with exclusive recursive locks; the search is a parameter | `MCDeadLockProfiler`, `RWLockProofs` |
| `CycleSearch` | the recursive search, `CheckCycle` and `Dfs` | `MCDeadLockProfiler` |
| `Memory` | `Memory`, `MemoryPool`; an address is a model value with the room `malloc` gave it | `MCMemory`, `MemoryProofs` |
| `Service` | a `ClientService`, a `ServerService` with its `Listener`, and the connections between their sessions, both ends | `ServiceProofs` |
| `StompAllocator` | `StompAllocator`'s address arithmetic | `MemoryProofs` |
| `GameServer` | the packet handlers that change state, `Room`, `SessionVerificator`, `GameSession`, the manager; a room's `JobQueue` at the grain of its promise | `MCGameServer`, `GameServerProofs` |

Composition is by abstraction: `GameServer`, `JobTimer` and `Session` use the
promise of the component below (serial jobs, an exclusive lock) which that
component's own module is shown to keep. `GameServer` keeps from `JobQueue`
what it needs beyond the promise: the thread that posts the first job runs the
queue there and then and does nothing else meanwhile. `Service` composes
sessions: it has two of `Session`'s ends on each connection, with posting a call
and its failing in one step, where `Session` has one end in every detail. It keeps
the queue and the flag of `Send`, and both ways a socket call fails at once: a reset
disconnects the session, any other error is only logged (`HandleError`). Then a
`WSASend` drops its batch and the session stays (`dropped`), and a session whose
`WSARecv` fails stays and never reads again (`deaf`).

In `GameServer`, `Packets` is the script of a run: it says which kinds of packet
the i-th of a session may be, which of them a handler then accepts is the code's
choice. Three history variables say what nobody stores: the last broadcast each
user was sent (`last`), who was sent the `S_LOSE` that names it (`told`), and who
has met one of the ways in which the code itself lets a session and its room come
apart (`astray`). `LedAstray` and `CrowdedOut` list these, each at the step that
does it: entering a room after one's session has ended, or while in another room;
winning, which leaves `_room` as it is; a loser sent to the lobby who has gone
elsewhere, is moved by its own handler, or whose session has ended; a creator who
finds the room full. `RoomAgrees`, `DeadHaveLeft` and `LoserHears` are about
everybody else, so that they say: these ways, and no other.

What stays outside of a module's data: positions, names, passwords and packet
contents (no test in the handlers depends on a value other than those kept);
refused packets (they change nothing but the error reply); `S_…` replies to the
sender alone. An `RWLock` id is a thread, 0 is `None`. `JobTimer`'s heap takes
equal ticks in any order, as a priority queue does.

Definitions named `…Mutant…` are seeded bugs: each stands for a plausible
mistake in the definition after which it is named, and makes exactly the
property it is listed with in `PROJECT.json` fail. No specification uses them.

## 3. What the runs check

Twelve runs, one for each question. The ten that pass are complete: TLC visits
every state of the instance. A type invariant is a conjunct of an
invariant that a run checks; those of `JobQueue`, `RWLock` and `RecvBuffer` are parts of
proved invariants only. Every invariant a passing run checks is also a theorem (section 4).

| Run | Instance | What it shows |
|---|---|---|
| `jobqueue_serial` | 3 threads, 2 queues (one is cleared), 3 jobs | The token of a queue is never doubled (`OneOwner`) or lost (`OwnedIffCounted`), the count covers the jobs (`CountCovers`), `JobQueue` implements `SerialExecutor` with its fairness, a queue goes idle |
| `rwlock_guards` | 2 threads, 3 nested guards | Word and counter are exact at every interleaving, `RWLock` implements `ReaderWriter`, a spin ends in the lock or in the time-out crash, unlock crashes come only from write-in-read-in-write |
| `recvbuffer_stream` | buffer of 3×4 bytes, a header of 2, sizes in it of 0–4, 14 bytes | For every way a stream is split and whatever size a header says, cursors, room, copy and contents are right; every packet that has arrived is handed over, unless one says it has size 0, at which `OnRecv` loops for ever |
| `session_sends` | 3 threads, 3 sends, every call may fail | One user of `_sendEvent`, no completion without an owner, one release, a connected session goes on reading, `Session` implements `OutputStream`, a disconnected session is released |
| `session_stranded` | 2 threads, `WSASend` may fail | *violated*: see Findings |
| `jobtimer_push` | 3 threads, 2 reservations, ticks 0–2 | One distributor, nothing early, lost, repeated or overtaken, everything due is pushed |
| `sendbuffer_reuse` | 2 threads, 4 chunks of 3 bytes, 2 live buffers | No byte has two owners, no chunk is in two places or lost, no assertion fails |
| `profiler_order` | 3 threads, 4 locks of 3 classes, 3 nested | A crash if and only if the order of the classes has a cycle; as long as there is none, no circular wait but one within a class. `SearchFindsCycles`, which TLC evaluates with it, says that the search finds a cycle in exactly the graphs with one, for every graph of up to four ids |
| `memory_blocks` | 2 threads, 5 addresses, the code's classes and `malloc`, requests of 32, 2000, 3860 and 4080 bytes | Blocks fit, are in one place, return to their pool; no assertion fails; only an `Allocate` above the last class leaves the table |
| `game_rooms` | 2 sessions, a room for 2, 3 logins, 2 and 3 packets, 3 jobs per room; one session may end at any step | Never overfull; one order of broadcasts; sessions and rooms agree and the dead leave but for the listed ways; the loser hears of it unless the room is busy; while nobody leaves nothing null is followed but the room of a session that never logged in |
| `game_threads` | 2 sessions, any 4 packets each | *violated*: see Findings |
| `service_connections` | 2 clients, 1 accept event, 3 served sessions, one reset, one failure, 2 broadcasts | The sets match the connections; broadcasts come in order, none twice, and a connected session misses only the batch of a `WSASend` that failed; every connection is served or gone; both ends leave, unless `DisconnectEx` was refused or a `WSARecv` failed with a logged error |

### Why the bounds are enough

*JobQueue.* Three threads are a pusher between count and insertion, an executor
and a thread that takes from the global queue, all at once; two queues are
needed for a job that pushes to another queue; three jobs for a batch of two
and a push behind it. *RWLock.* Every guard pattern that matters is one
thread's nesting (three deep reaches each of the crashes) against one other
thread; more threads are left to the proofs. *RecvBuffer.* A packet is up to twice its header; the sizes
are 0, the one below the header, the header's, and two above. The capacity is three small buffers and the
stream is longer than it, so `Clean` runs on both of its branches and with
unread data of every size below a packet; `BUFFER_COUNT` 3 is the least the
proof allows, where the room is tightest. *Session.* Three threads: one in a
completion, one in `Send`, one disconnecting; three sends: one posted, one
taken for the next batch, one queued behind. *JobTimer.* Two items give one
overtaking pair; three threads a distributor, one that turns away and one that
reserves. *SendBuffer.* Chunks of three bytes hold one, two or three buffers.
*DeadLockProfiler.* A cycle of three classes held by three threads is the smallest
that is neither a swap nor found by comparing neighbours; two locks of one class
show what the profiler cannot tell apart. *Memory.* The
requests are one of the first class, one of the classes in the middle, one that has
no class and one for `malloc`; with two threads a block may go to the wrong class or
to both.
*GameServer.* A room for two and three logins are the race for the last place (the
session that ends may log in again before it is destroyed); `StartHp` 50 lets one
hit end a match. The script has the creator start and strike, and the other come,
get ready, or come again: more kinds of packet at a place multiply the states
without a new pair of handlers, since a handler never asks which packet came before.
Three jobs of a room are a creator's entry and the two broadcasts of an end; the
lobby would get four in a whole match (two leave, two return), of which a behaviour
has any three. *Service.* With one accept event
and two clients the second waits for the event the first has; the served sessions are
the two connections' and one more for every failure, for the retries of `AcceptEx`.
Two broadcasts are one in the kernel and one
that waits for it, which may fail in its turn. With three (the safety properties hold
there too, in five times the states) two wait and go together. The temporal properties
of this module say "again and again, all are served" or "all have left": connections
are made and reset once, and a session enters and leaves its set once, so that what is
settled stays so, and the form means that each is settled in the end.

Counters are cut by guards named in each module's CONSTANTS
(`MaxSends`, `MaxTick`, `StreamLength`, `MaxLive`, `MaxOwned`, `MaxNest`,
`MaxDepth`, `MaxLogins`, `MaxJobs`, `MaxServed`, `MaxFaults`, `MaxRounds`); everything
else is finite by itself.

Deadlock is checked in every run but three kinds: `DeadLockProfiler` and
`GameServer` end at a crash, `GameServer` when its packets are used up, and
`Service` when all connections have come and gone.

### Fairness

Liveness is checked where the code's scheduling gives a reason:

* `JobQueue`: weak fairness of each thread's steps (threads are scheduled,
  jobs return). Strong fairness of `ExecuteHandOver`: an executor that goes
  round again and again has its 64 ms run out in the end, though no single
  round has to be the last one. Pushing and clearing are never assumed.
* `RWLock`: weak fairness of the steps inside a call and of unlocking
  (critical sections end); strong fairness of the time-out, because 10 s pass
  for a thread that goes on failing. A writer may starve until then: `SpinEnds`
  says "acquires or crashes", which is what the code gives.
* `RecvBuffer`: the peer sends and the handler returns.
* `Session`: each thread goes on with its call; the completion of a posted
  send or disconnect is dispatched; that of a receive only once the session is
  disconnected, since a peer may be silent for ever.
* `JobTimer`: the clock moves, each thread goes round its loop, jobs return.

* `Service`: weak fairness of the workers' steps taken together (`Work`), nothing
  more. One condition for all of them is enough, because no step is undone (a receive
  that is posted again at once leaves nothing behind): every
  run of steps is finite, so as long as some step is left the threads take one, and
  in the end all are taken. Nobody has to dial, break or broadcast.

The other modules claim no liveness.

## 4. What is proved

TLAPS checks every step of eight modules, for all values of the constants that
satisfy the named assumptions (in the module of each component). The
assumptions are about shape only, `None` outside of the other sets, a finite
set of threads, sizes that are naturals, with three facts of the code:
`MaxPacket <= BufferSize` (a 16-bit size against 0x10000), `HeaderSize >= 1`
and `BufferCount >= 3` (it is 10). Two theorems of `RWLockProofs` have a hypothesis
besides; it is said there.

Every invariant that a passing run checks is proved, and three refinements:
`RWLock` implements `ReaderWriter`, `JobQueue` implements `SerialExecutor` and
`Session` implements `OutputStream`, each but for liveness.

**`JobQueueProofs`**: `TypeCorrect`, `ExclusiveExecution` (`OneOwner`),
`NoLostWakeup` (`OwnedIffCounted`), `CountIsEnough` (`CountCovers`),
`ExecuteNeverNests`. The inductive invariant is the conjunction of the first
four and the fact that a push past the insertion was a first push. None is
inductive alone: that `fetch_sub` may give the token up at 0 needs the count to
cover the pushers between increment and insertion; that this leaves no second
owner needs "owned if and only if counted"; that a first push finds no owner
needs it again in the other direction.

`SerialRefinement` (`RunsSerially`) maps each step to one of `SerialExecutor` or
none. What waits in a queue is what is left of its executor's batch, the running job
first, and then `_jobs`; that there is one such batch is `OneOwner`. A push is
submitted when its job is in `_jobs`, so the order promised is that of the
insertions and not that of the increments; that the job was not there already
needs every job to be made once (`MadeOnce`). `ClearJobs` cuts off the end.

**`RWLockProofs`**: `MutualExclusion`, `WordIsExact`, `WriteCountIsExact`,
`UnlockOrder`, and `Refinement`, that `RWLock` implements `ReaderWriter`. The
invariant says what a thread inside a call knows (it is not the owner while it
spins; in `free` it has exactly one write guard), that the word describes the
guards, that the owner's first guard is a write guard, and that the counter
lags the guards by one inside the two places that change it. Exclusion follows
from the word, since an exchange from the empty word finds neither an owner nor
a reader; the order of unlocks follows from the owner's first guard.

The same module has the theorems about the profiler, which every lock calls:
`CrashAtFirstCycle` (`CrashIffCycle`) and `NoUnseenDeadlock` (`NoCircularWait`).
A thread's stack of ids mirrors the guards it holds and the lock it waits for, and
neighbours in it are the same id or an edge of the graph. A graph without a cycle has
a rank that falls along its edges, hence along every stack; in a set of threads
that wait for one another the one that wants the lowest rank would be waited for by
nobody of a lower one, so that two of them want locks of one name. Both theorems
assume `SearchIsRight(n)` for every number of ids `n`: the search reports exactly
the graphs with a cycle. Its correctness is an induction over the depth of a recursive
operator, which TLAPS cannot do; TLC evaluates it for all graphs of up to four
ids (`SearchFindsCycles`).

**`SessionProofs`**: `SendsOneByOne` (`OneSend`), `PostedKeepsOwner`
(`PostedIsOwned`), `ReadsOn` (`KeepsReading`). The session hands out three tokens.
Whoever finds `_sendRegistered` clear has the send token and passes it to the kernel
with the `WSASend`; the accept or connect event begins with the receive token;
`_connected` is the disconnect token until an exchange takes it. The invariant says
with whom each token is, for each of the few stacks of calls a thread can be in,
and that only the holder clears the owner of its event. None of the
three is inductive without the tokens: that an event keeps its owner while the kernel
has it needs that nobody else is about to clear it.

`SendsInOrder` is the refinement of `OutputStream`. `_sendEvent.sendBuffers` holds
something only while its send is under way (`EmptyEvent`), so `FillSend`, which
appends, finds it empty; between that and the `WSASend` the holder of the send token
has the buffers, and pending is what it has and the queue, else the queue. The
error path drops them only when the connection is gone or `WSASend` has failed
(`LostAt`), which survives the return from `Disconnect` because no session is
connected twice. Five steps move buffers; that the four of them which touch the event
meet no other thread there is the token again. A count of the calls of `Send` that have
not pushed yet bounds what is accepted.

For the receive path, in the same module: `BoundsHold`, `AlwaysRoom`, `CopyIsDefined`,
`StreamIsKept`. The invariant joins the cursors, the room and the contents:
when `Clean` runs, less than a packet is unread; so after it either everything
is free or at least a buffer's room is left, and the source of the copy begins
beyond its target's end because the capacity is three buffers or more.

**`JobTimerProofs`**: `DistributesAlone` (`OneDistributor`), `PushesInOrder`
(`OnTimeAndInOrder`), `NoJobLost` (`InOnePlace`). The flag admits one distributor. An
item is settled when its
`Reserve` has returned: it is in the heap, with the distributor, pushed, or given up
with its queue. Since the due items are taken under the lock, with one of them every
settled item of a smaller tick is taken or was taken before, and the heap gives them
in order; the invariant orders what is taken against what is pushed and what is left.
That an item is in one place only needs the vector to have it once and the rest of
the vector to be what the distributor has not pushed yet.

**`SendBufferProofs`**: `NoByteIsShared` (`BytesAreOwned`), `ChunksAreKept`
(`ChunkInOnePlace`). No two threads have the same local chunk, so one thread cuts
from it; a chunk in the pool, or on the way there, is referred to by no buffer; the
closed buffers of a chunk lie below `_usedSize` and the open one begins there. That
`Reset` harms nobody follows from the second of these three facts.

**`MemoryProofs`**: `BlocksFit` (`BlockFits`) and `BlocksInOnePlace`
(`BlockInOnePlace`). How far a thread is in `Allocate` or `Release` says what it knows
of its block; the header repeats the size the block was made for, so that the look-up
on the way back finds the class it came from. A block goes from owner to thread to
list in single steps and is marked free before it enters a list and until it has left
it. `BlocksInOnePlace` holds for tables with a gap above the last class, as the code's
is: `Allocate` of a size in it ends there, in an entry nobody wrote (section 5), and
says so; `Release` never looks there, because the header of a block from a pool has a
size that was found.

In the same module, about `StompAllocator`: `ReleaseFindsBase`, `EndsWithItsPages`. A
block ends with its
pages and begins in the first of them, so rounding its address down gives the base,
whatever the size; and the byte after it is on a page that is not its own. Sizes are
those for which the `int32` sum in `Alloc` does not overflow. A block is aligned as
its size is: nothing rounds it up.

**`ServiceProofs`**: `SetsFollowConnections` (`SetsMatchConnections`),
`BroadcastReachesAll` (`HeardFromJoining`). A session goes one way, into its set and
out of it (`Lives`); an accept event has a session nobody else has (`Accepting`), and a
connection waits in the backlog once (`Dials`), so that the ends of a connection
belong together (`Paired`). That nobody misses a broadcast needs that the loop has the
lock: the set it walks is the set there is, and who has not joined has been told
nothing. What a client has been told is what the kernel has and what is queued behind
it; this sequence grows at its end by the broadcast under way, moves from the queue to
the kernel as a whole, or loses the batch that a failed `WSASend` had, so that it stays
increasing and, with what was dropped, complete (`Hears`). A queue that is not empty has
a `WSASend` posted before it, whose completion sends it.

**`GameServerProofs`**: `Capacity` (`NeverOverfull`), `TypeCorrect` (`TypeOK`),
`OneOrder` (`InOneOrder`), `RoomsAgree` (`RoomAgrees`), `TheDeadLeave`
(`DeadHaveLeft`), `TheLoserHears` (`LoserHears`), `NoNullBefore`
(`NullNeedsAnEnd`). Capacity rests on the rosters being finite sets and on the
test of `Enter` being in the step that inserts. `OneOrder` numbers a room's jobs as
they come: the numbers in a queue grow, the running job's is smaller than all of
them, and what a user was last sent is smaller than the running job's unless the
iteration has reached the user. Handlers and disconnections, which post from any
thread, only ever append the largest number yet (`JobsCome`). Types come first,
because the job that is taken must be known to be one.

`RoomInv` says of every user that has not gone astray where it is and where the jobs
that wait will bring it (`Bound`), at each point of each handler: it is bound for the
room its session has and for no other, except at the named points of the handler that
moves it (`Placed`) and, the other way round, a session's room has it or waits for its
`Enter` (`InItsRoom`); outside the lobby an `Enter` waits once, for one who is not in
yet, and a `Leave` only when the session has ended. `RoomsAgree` and `TheDeadLeave` are
what this says between two handlers. `TheLoserHears` adds that a member about to be
taken out has been told or is in the reach of a job that tells it, and that a room
nobody executes has no jobs. `NoNullBefore` adds that, while every connection is open,
no job's user is null, and that a session without a room owns no user, so that of all
handlers only its `C_ATTACK` follows the room it does not have. `TheDeadLeave` is about
who has not gone astray: a player whom a handler under way brings into a room after its
session has ended stays there, which the model reaches and the theorem excepts.

Writing the invariants showed three properties to be stated too strongly, which larger
instances then refuted. `DeadHaveLeft` now says that a handler which finds its user
gone posts a `Leave` of nobody, at which the process stops; `LoserHears` excepts a loser
whose second `C_ENTER_ROOM` brings it back; and `LedAstray` tests whether a session is
in a room already at the step that enters, not at the one that sets `_room`.

Only model-checked, because out of the prover's reach: liveness under fairness
(`GoesIdle`, `SpinEnds`, `AllReceived`, `DisconnectReleases`, `EventuallyPushed`,
`ServedOrGone`, `BothEndsLeave` and the fair halves of `RunsSeriallyAndFairly` and
`SendsAll`), `ENABLED`, the recursive search of the profiler, and the constructor's
table of the real sizes (`CodeTable`, a fold). The properties of the two runs
that expect a violation are false.

## 5. Findings

**A failed send strands the next one** (`session_stranded`, `Session.cpp:203`).
`RegisterSend` takes the queue under the lock, posts without it, and when
`WSASend` fails with an error that does not disconnect, drops the batch and
stores `_sendRegistered = false`, without the lock and without looking at the
queue. A buffer that another thread has queued between the two stays there with
nothing registered until somebody happens to send again; line 27 says that
`Send` starts a `RegisterSend` if none is under way.

**Rooms are not single-threaded** (`game_threads`,
`ClientPacketHandler.cpp:449`). `Room.h:7` says that `Enter`, `Leave` and
`Broadcast` are "coded as if in a single-threaded environment". They are while
they run as jobs; but `Handle_C_ATTACKED` calls `Leave` on the handler's
thread, `Handle_C_ENTER_ROOM` calls `Enter`, and `Handle_C_START` iterates over
`_users` without the lock. In the run a `C_START` stands on one of the players in its
loop; on another thread a `C_ATTACKED` ends the match and takes the player out of the room
(the `Leave` of line 449 or of line 460); the loop goes on with an erased iterator.

Seen while modelling, and no finding, since no run is about them alone. One contradicts a
comment: `Memory.h:14` says that the size classes go up to 1024 in steps of 32, to 2048 in
steps of 128 and to 4096 in steps of 256, but each loop of the constructor goes on from
the size at which the one before ended, so the second makes 1056 to 1952, the third 2080
to 3872 (`CodeTable` of `MCMemory`), the entries of `_poolTable` for 3873 to 4096 are never
written, and `Allocate` reads one (`Memory.cpp:75`; the run `memory_blocks` reaches it, and
`BlockInOnePlace` says that only such a size does). `Types.h:43` defines `_STOMP`, which
compiles this path out. Against the others no text of the repository can be held (they are
among the hazards): a packet whose header says size 0 keeps `OnRecv` in its loop for ever, and one
of 1 to 3 makes the next header begin inside it, because nothing compares the size with
`sizeof(PacketHeader)` (`Session.cpp:323`); a `C_ATTACK` before any login follows a null
room (`ClientPacketHandler.cpp:405`); a player who enters between the two loops of
`C_START` has no place in its map, and `find()` gives `end()` (line 251); a `WSASend` or
`WSARecv` that fails with an error other than a reset is only logged, so that a session
misses broadcasts, or never reads again and stays in the set (`Session.cpp:152`, `:200`);
the winner of a match goes back to the lobby while its `_room` stays
(`ClientPacketHandler.cpp:460`); a refused start leaves `isStarted` set (line
220); a handler under way when `OnDisconnected` runs may follow a null `user`
or leave a dead one in a room; two attackers can lose a hit (line 439); a
session whose `DisconnectEx` fails is never released (`Session.cpp:123`); a client's
session whose connect was refused is in the set as if it were connected, since a
completion's failure is not told apart (`IocpCore.cpp:43`); the client broadcasts
every packet to its ten sessions, so that all ten log in and act alike.

## 6. What is not modelled

* Memory order and data races as such. Where the program races on plain data
  the model interleaves the accesses; the races on `std::map` show as an
  invalid iterator only (`IteratorsStayValid`), those on `GRoomMap` not at all.
* Start-up and shut-down: they run once, on one thread, before the workers or after.
* `DBConnectionPool`, `DBConnection`, `DBBind`: `main` takes a connection before any
  worker runs, and no handler ever does, so nothing in them is concurrent or has a
  second state; the rest is calls of ODBC.
* The client's menus and screen. What it sends is what `GameServer` leaves open and
  `Service`'s broadcasts; what it shows no property is about.
* `BufferReader`, `BufferWriter`, `RefCounting`, `TypeCast`: nothing uses them.
  `NetAddress`, `SocketUtils`, `BaseAllocator`, `StlAllocator`: they forward.
* Most of the repository's lines: of some 275,000, about 5,000 are the program's own;
  the others are the vendored protobuf library with its tests and what `protoc`
  generated. Modelling these would say nothing about this server. Of the program's own
  lines the map names the state machines; what it leaves out is listed here.
* In `Session`, one connection: a reused socket would be a new session.
* In `Service`, what sessions send besides broadcasts. On the client's side another
  sender on the same session would bring in the stranding of `session_stranded`.
* In `SendBuffer`, sizes above a chunk's: `SendBuffer.cpp:44` asserts that there are
  none, and `Sizes` assumes it.
* In `GameServer`, an interleaving between adjacent reads of one step: `HitStore` stores
  the hit and tests it, `Start` tests the session and sets `isStarted`, `Count` counts the
  players and acts on it.
* In `JobQueue`, a job is pushed once and returns; jobs that throw would end the
  process.
* In `GameServer`, the exact contents of the replies, and `C_SIGNUP`, which
  touches only the database.

## 7. Plan

Order of work; the first three blocks are done.

1. Core: `JobQueue`, `RWLock`, `RecvBuffer` with proofs; `Session`, `JobTimer`,
   `SendBuffer`, `DeadLockProfiler`, `Memory` and `GameServer` checked.
2. More of the system: `Service` with `Listener` and both ends of the connections; the
   game's histories and the properties about ends and losses; locks of one class.
3. Proofs: the invariants of every module and the safety half of the three refinements.
4. Left: a room composed with `JobQueue` at its full grain, to show that the coarser
   executor of `GameServer` leaves out no order of jobs; two connections of a `Service`
   in `Session`'s detail; in the model, `GRoomMap`'s unlocked accesses.

## 8. Running it

In this directory: `tlc -config <Run>.cfg <Module>.tla` with the pairs of
`PROJECT.json`, and `tlapm <Module>.tla` for the eight `…Proofs` modules. The longest
runs are `service_connections` and `game_rooms`, a minute and a half with two workers; the
others take a minute or less. From nothing, `GameServerProofs` takes six minutes and each
of the others less than two.
