------------------------------ MODULE JobQueue ------------------------------
(***************************************************************************)
(* ServerCore's JobQueue, its LockQueue of jobs and the GlobalQueue, driven *)
(* by any number of threads.  A thread pushes from a packet handler (it is  *)
(* then in no Execute) or from inside a job it runs; an idle thread pops    *)
(* the global queue (ThreadManager::DoGlobalQueueWork).                     *)
(*                                                                         *)
(* Grain: every atomic instruction and every critical section of LockQueue *)
(* is one step; code on thread-local state is merged into the step before  *)
(* or after it.                                                            *)
(***************************************************************************)
EXTENDS Integers, Sequences, FiniteSets

CONSTANTS Threads,    \* the threads of ThreadManager, and main
          Queues,     \* the JobQueue objects (the rooms)
          Jobs,       \* the Job objects: DoAsync makes one for each push
          Clearable,  \* the queues whose owner calls ClearJobs
          None        \* nullptr

ASSUME ConstantsAssumption ==
  /\ IsFiniteSet(Threads)
  /\ Clearable \subseteq Queues
  /\ None \notin Queues \cup Jobs

VARIABLES
  jobs,         \* jobs[q]: the items of q's _jobs
  jobCount,     \* jobCount[q]: q's _jobCount
  globalQueue,  \* GGlobalQueue's items
  current,      \* current[t]: LCurrentJobQueue of t, a queue or None
  pc,           \* pc[t]: where t is in JobQueue::Execute
  batch,        \* batch[t]: Execute's local vector `jobs'
  next,         \* next[t]: Execute's loop index i
  pushing,      \* pushing[t]: t's call of JobQueue::Push in progress
  made          \* the jobs made so far

vars == <<jobs, jobCount, globalQueue, current, pc, batch, next, pushing, made>>

executeVars == <<current, pc, batch, next>>

\* A call of Push: "counted" once _jobCount is incremented, "placed" once the
\* job is in _jobs.  `first' is the code's prevCount == 0.
PushCall == [stage : {"counted", "placed"}, queue : Queues, job : Jobs,
             first : BOOLEAN, pushOnly : BOOLEAN]

NoPush == [stage |-> "none"]

Counted(t) == pushing[t].stage = "counted"
Placed(t)  == pushing[t].stage = "placed"

Init ==
  /\ jobs = [q \in Queues |-> <<>>]
  /\ jobCount = [q \in Queues |-> 0]
  /\ globalQueue = <<>>
  /\ current = [t \in Threads |-> None]
  /\ pc = [t \in Threads |-> "idle"]
  /\ batch = [t \in Threads |-> <<>>]
  /\ next = [t \in Threads |-> 1]
  /\ pushing = [t \in Threads |-> NoPush]
  /\ made = {}

-----------------------------------------------------------------------------
(***************************************************************************)
(* Seeded bugs, one for each property below: a mutation of a definition    *)
(* that the property has to notice.                                        *)
(***************************************************************************)

\* prevCount is read by a load before the increment is known to be the first.
PushCountMutantAlwaysFirst(t, q, j, pushOnly) ==
  /\ pc[t] \in {"idle", "run"}
  /\ pushing[t] = NoPush
  /\ j \notin made
  /\ made' = made \cup {j}
  /\ pushing' = [pushing EXCEPT ![t] =
       [stage |-> "counted", queue |-> q, job |-> j,
        first |-> jobs[q] = <<>>, pushOnly |-> pushOnly]]
  /\ jobCount' = [jobCount EXCEPT ![q] = @ + 1]
  /\ UNCHANGED <<jobs, globalQueue, executeVars>>

\* A thread inside a job drops the queue it should hand to another thread.
PushGlobalMutantLost(t) ==
  /\ Placed(t)
  /\ current[t] # None \/ pushing[t].pushOnly
  /\ globalQueue' = IF pushing[t].pushOnly
                      THEN Append(globalQueue, pushing[t].queue)
                      ELSE globalQueue
  /\ pushing' = [pushing EXCEPT ![t] = NoPush]
  /\ UNCHANGED <<jobs, jobCount, executeVars, made>>

\* PopAll puts the newest job first.
ExecutePopAllMutantLifo(t) ==
  /\ pc[t] = "popall"
  /\ batch' = [batch EXCEPT ![t] =
       LET s == jobs[current[t]]
       IN  [i \in DOMAIN s |-> s[Len(s) + 1 - i]]]
  /\ jobs' = [jobs EXCEPT ![current[t]] = <<>>]
  /\ next' = [next EXCEPT ![t] = 1]
  /\ pc' = [pc EXCEPT ![t] = "loop"]
  /\ UNCHANGED <<jobCount, globalQueue, current, pushing, made>>

\* The count of what is left is taken before the subtraction.
ExecuteSubMutantReset(t) ==
  /\ pc[t] = "loop"
  /\ next[t] > Len(batch[t])
  /\ jobCount' = [jobCount EXCEPT ![current[t]] = 0]
  /\ current' = [current EXCEPT ![t] = None]
  /\ pc' = [pc EXCEPT ![t] = "idle"]
  /\ batch' = [batch EXCEPT ![t] = <<>>]
  /\ next' = [next EXCEPT ![t] = 1]
  /\ UNCHANGED <<jobs, globalQueue, pushing, made>>

\* Execute leaves without handing the queue over.
ExecuteHandOverMutantDropped(t) ==
  /\ pc[t] = "tick"
  /\ current' = [current EXCEPT ![t] = None]
  /\ pc' = [pc EXCEPT ![t] = "idle"]
  /\ UNCHANGED <<jobs, jobCount, globalQueue, batch, next, pushing, made>>

-----------------------------------------------------------------------------
(***************************************************************************)
(* JobQueue::Push                                                          *)
(***************************************************************************)

\* User code (a handler, or the body of the job t runs) calls DoAsync or
\* Push; prevCount = _jobCount.fetch_add(1).
PushCount(t, q, j, pushOnly) ==
  /\ pc[t] \in {"idle", "run"}
  /\ pushing[t] = NoPush
  /\ j \notin made
  /\ made' = made \cup {j}
  /\ pushing' = [pushing EXCEPT ![t] =
       [stage |-> "counted", queue |-> q, job |-> j,
        first |-> jobCount[q] = 0, pushOnly |-> pushOnly]]
  /\ jobCount' = [jobCount EXCEPT ![q] = @ + 1]
  /\ UNCHANGED <<jobs, globalQueue, executeVars>>

\* _jobs.Push(job); a push that was not the first returns here.
PushItem(t) ==
  /\ Counted(t)
  /\ jobs' = [jobs EXCEPT ![pushing[t].queue] = Append(@, pushing[t].job)]
  /\ pushing' = [pushing EXCEPT ![t] =
       IF pushing[t].first THEN [pushing[t] EXCEPT !.stage = "placed"]
                           ELSE NoPush]
  /\ UNCHANGED <<jobCount, globalQueue, executeVars, made>>

\* The first pusher runs the queue, unless it already runs one.
PushExecute(t) ==
  /\ Placed(t)
  /\ current[t] = None
  /\ ~pushing[t].pushOnly
  /\ current' = [current EXCEPT ![t] = pushing[t].queue]
  /\ pc' = [pc EXCEPT ![t] = "popall"]
  /\ pushing' = [pushing EXCEPT ![t] = NoPush]
  /\ UNCHANGED <<jobs, jobCount, globalQueue, batch, next, made>>

\* Otherwise it leaves the queue to another thread.
PushGlobal(t) ==
  /\ Placed(t)
  /\ current[t] # None \/ pushing[t].pushOnly
  /\ globalQueue' = Append(globalQueue, pushing[t].queue)
  /\ pushing' = [pushing EXCEPT ![t] = NoPush]
  /\ UNCHANGED <<jobs, jobCount, executeVars, made>>

-----------------------------------------------------------------------------
(***************************************************************************)
(* JobQueue::Execute, entered from Push or from DoGlobalQueueWork           *)
(***************************************************************************)

\* DoGlobalQueueWork finds the global queue empty and returns: the loop of
\* DoWorkerJob turns with nothing to do.
IdlePoll(t) ==
  /\ pc[t] = "idle"
  /\ pushing[t] = NoPush
  /\ globalQueue = <<>>
  /\ UNCHANGED vars

\* DoGlobalQueueWork pops a queue and enters its Execute.
DoGlobalQueueWork(t) ==
  /\ pc[t] = "idle"
  /\ pushing[t] = NoPush
  /\ globalQueue # <<>>
  /\ globalQueue' = Tail(globalQueue)
  /\ current' = [current EXCEPT ![t] = Head(globalQueue)]
  /\ pc' = [pc EXCEPT ![t] = "popall"]
  /\ UNCHANGED <<jobs, jobCount, batch, next, pushing, made>>

\* _jobs.PopAll(jobs)
ExecutePopAll(t) ==
  /\ pc[t] = "popall"
  /\ batch' = [batch EXCEPT ![t] = jobs[current[t]]]
  /\ jobs' = [jobs EXCEPT ![current[t]] = <<>>]
  /\ next' = [next EXCEPT ![t] = 1]
  /\ pc' = [pc EXCEPT ![t] = "loop"]
  /\ UNCHANGED <<jobCount, globalQueue, current, pushing, made>>

\* jobs[i]->Execute() is called ...
JobStart(t) ==
  /\ pc[t] = "loop"
  /\ next[t] <= Len(batch[t])
  /\ pc' = [pc EXCEPT ![t] = "run"]
  /\ UNCHANGED <<jobs, jobCount, globalQueue, current, batch, next, pushing, made>>

\* ... and returns, its own calls of Push having returned.
JobReturn(t) ==
  /\ pc[t] = "run"
  /\ pushing[t] = NoPush
  /\ next' = [next EXCEPT ![t] = @ + 1]
  /\ pc' = [pc EXCEPT ![t] = "loop"]
  /\ UNCHANGED <<jobs, jobCount, globalQueue, current, batch, pushing, made>>

\* _jobCount.fetch_sub(jobCount): leave the queue when nothing is left.
ExecuteSub(t) ==
  /\ pc[t] = "loop"
  /\ next[t] > Len(batch[t])
  /\ LET q == current[t] IN
       /\ jobCount' = [jobCount EXCEPT ![q] = @ - Len(batch[t])]
       /\ IF jobCount[q] = Len(batch[t])
            THEN /\ current' = [current EXCEPT ![t] = None]
                 /\ pc' = [pc EXCEPT ![t] = "idle"]
            ELSE /\ pc' = [pc EXCEPT ![t] = "tick"]
                 /\ UNCHANGED current
  /\ batch' = [batch EXCEPT ![t] = <<>>]
  /\ next' = [next EXCEPT ![t] = 1]
  /\ UNCHANGED <<jobs, globalQueue, pushing, made>>

\* now < LEndTickCount: pop again.
ExecuteAgain(t) ==
  /\ pc[t] = "tick"
  /\ pc' = [pc EXCEPT ![t] = "popall"]
  /\ UNCHANGED <<jobs, jobCount, globalQueue, current, batch, next, pushing, made>>

\* now >= LEndTickCount: leave the queue to another thread.
ExecuteHandOver(t) ==
  /\ pc[t] = "tick"
  /\ globalQueue' = Append(globalQueue, current[t])
  /\ current' = [current EXCEPT ![t] = None]
  /\ pc' = [pc EXCEPT ![t] = "idle"]
  /\ UNCHANGED <<jobs, jobCount, batch, next, pushing, made>>

\* JobQueue::ClearJobs, from any thread: _jobCount is not touched.
ClearJobs(q) ==
  /\ q \in Clearable
  /\ jobs' = [jobs EXCEPT ![q] = <<>>]
  /\ UNCHANGED <<jobCount, globalQueue, executeVars, pushing, made>>

-----------------------------------------------------------------------------
\* What t does on its own: everything but making a new job.
ThreadStep(t) ==
  \/ PushItem(t) \/ PushExecute(t) \/ PushGlobal(t)
  \/ DoGlobalQueueWork(t)
  \/ ExecutePopAll(t) \/ JobStart(t) \/ JobReturn(t)
  \/ ExecuteSub(t) \/ ExecuteAgain(t) \/ ExecuteHandOver(t)

Next ==
  \/ \E t \in Threads : ThreadStep(t) \/ IdlePoll(t)
  \/ \E t \in Threads, q \in Queues, j \in Jobs, pushOnly \in BOOLEAN :
       PushCount(t, q, j, pushOnly)
  \/ \E q \in Queues : ClearJobs(q)

Spec == Init /\ [][Next]_vars

\* The scheduler runs every thread, jobs return, and every thread goes back
\* to DoGlobalQueueWork: DoWorkerJob never leaves its loop.  A thread that
\* turns in Execute for ever passes LEndTickCount.
Fairness == \A t \in Threads : /\ WF_vars(ThreadStep(t))
                               /\ SF_vars(ExecuteHandOver(t))

FairSpec == Spec /\ Fairness

-----------------------------------------------------------------------------
(***************************************************************************)
(* Properties                                                              *)
(***************************************************************************)

\* Every variable keeps its type; a batch exists only inside Execute.
TypeOK ==
  /\ jobs \in [Queues -> Seq(Jobs)]
  /\ jobCount \in [Queues -> Int]
  /\ globalQueue \in Seq(Queues)
  /\ current \in [Threads -> Queues \cup {None}]
  /\ pc \in [Threads -> {"idle", "popall", "loop", "run", "tick"}]
  /\ batch \in [Threads -> Seq(Jobs)]
  /\ next \in [Threads -> Nat \ {0}]
  /\ pushing \in [Threads -> PushCall \cup {NoPush}]
  /\ made \subseteq Jobs
  /\ \A t \in Threads :
       /\ current[t] = None <=> pc[t] = "idle"
       /\ pc[t] \in {"idle", "popall", "tick"} => batch[t] = <<>>
       /\ pc[t] = "run" => next[t] <= Len(batch[t])

\* Who is answerable for queue q: the thread in its Execute, the thread whose
\* push found it empty and that has not passed it on, or the global queue.
Executes(t, q) == current[t] = q

FirstPush(t, q) ==
  pushing[t] # NoPush /\ pushing[t].queue = q /\ pushing[t].first

InGlobal(q) == \E i \in DOMAIN globalQueue : globalQueue[i] = q

\* A queue never has two owners: it is in no two threads' Execute, never
\* twice in the global queue, never in the global queue while a thread runs
\* it or is about to (JobQueue.cpp: the fetch_add that returns 0 and the
\* fetch_sub that reaches 0 pass one token around).
OneOwner ==
  /\ \A t, u \in Threads : \A q \in Queues :
       /\ Executes(t, q) /\ Executes(u, q) => t = u
       /\ FirstPush(t, q) /\ FirstPush(u, q) => t = u
       /\ ~(Executes(t, q) /\ FirstPush(u, q))
  /\ \A t \in Threads : \A q \in Queues :
       InGlobal(q) => ~Executes(t, q) /\ ~FirstPush(t, q)
  /\ \A i, k \in DOMAIN globalQueue : globalQueue[i] = globalQueue[k] => i = k

Owned(q) == (\E t \in Threads : Executes(t, q) \/ FirstPush(t, q)) \/ InGlobal(q)

\* No lost wakeup: a queue whose count is not zero has an owner, and an
\* owned queue's count is not zero (the next push must not start a second
\* execution).
OwnedIffCounted == \A q \in Queues : Owned(q) <=> jobCount[q] # 0

Unplaced(q) == {t \in Threads : Counted(t) /\ pushing[t].queue = q}

\* _jobCount covers every job of the queue that is not yet run and
\* subtracted: those in _jobs, those an executor took, and those of pushers
\* between the increment and the insertion.  Were it smaller, fetch_sub could
\* reach 0 with a job left behind.
CountCovers ==
  \A q \in Queues :
    /\ jobCount[q] >= Len(jobs[q]) + Cardinality(Unplaced(q))
    /\ \A t \in Threads : Executes(t, q) =>
         jobCount[q] >= Len(jobs[q]) + Cardinality(Unplaced(q)) + Len(batch[t])

\* A thread in Execute stays with its queue until it leaves it: a job that
\* pushes to another queue never runs that queue on its own stack
\* (JobQueue.cpp:17, "run it if no JobQueue is being run already").
NoNestedExecute ==
  [][\A t \in Threads : current[t] # None => current'[t] \in {current[t], None}]_vars

\* The queue as its users see it.
Remaining(t) ==
  SubSeq(batch[t], IF pc[t] = "run" THEN next[t] + 1 ELSE next[t], Len(batch[t]))

Pending(q) ==
  IF \E t \in Threads : Executes(t, q)
    THEN Remaining(CHOOSE t \in Threads : Executes(t, q)) \o jobs[q]
    ELSE jobs[q]

Running(q) ==
  IF \E t \in Threads : Executes(t, q) /\ pc[t] = "run"
    THEN LET t == CHOOSE u \in Threads : Executes(u, q) IN batch[t][next[t]]
    ELSE None

Serial == INSTANCE SerialExecutor WITH
  pending   <- [q \in Queues |-> Pending(q)],
  running   <- [q \in Queues |-> Running(q)],
  submitted <- made \ {pushing[t].job : t \in {u \in Threads : Counted(u)}}

\* The jobs of a queue run one at a time, in the order in which they entered
\* _jobs, each at most once, whatever threads push them and run them.
RunsSerially == Serial!Spec

\* ... and a queue with work goes on running it: no job waits for ever.
RunsSeriallyAndFairly == Serial!FairSpec

\* A queue goes idle once its jobs have run: the executor does not turn on an
\* empty _jobs for ever.  (False of a queue that ClearJobs is called on.)
GoesIdle == \A q \in Queues \ Clearable : jobCount[q] # 0 ~> jobCount[q] = 0
=============================================================================
