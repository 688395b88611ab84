--------------------------- MODULE SerialExecutor ---------------------------
(***************************************************************************)
(* What a JobQueue promises the code that calls DoAsync: the jobs pushed   *)
(* to one queue run one at a time, in the order they were pushed, each at  *)
(* most once; the owner of a queue may drop its tail (ClearJobs).  Nothing *)
(* is said of threads, of counters or of the global queue.                 *)
(***************************************************************************)
EXTENDS Integers, Sequences

CONSTANTS Queues,     \* the JobQueue objects
          Jobs,       \* the Job objects, each pushed at most once
          Clearable,  \* the queues whose owner calls ClearJobs
          None        \* "no job is running"

VARIABLES pending,    \* pending[q]: the jobs of q not started, oldest first
          running,    \* running[q]: the job of q being run, or None
          submitted   \* the jobs pushed so far

vars == <<pending, running, submitted>>

Init ==
  /\ pending = [q \in Queues |-> <<>>]
  /\ running = [q \in Queues |-> None]
  /\ submitted = {}

Submit(q, j) ==
  /\ j \notin submitted
  /\ submitted' = submitted \cup {j}
  /\ pending' = [pending EXCEPT ![q] = Append(@, j)]
  /\ UNCHANGED running

Start(q) ==
  /\ running[q] = None
  /\ pending[q] # <<>>
  /\ running' = [running EXCEPT ![q] = Head(pending[q])]
  /\ pending' = [pending EXCEPT ![q] = Tail(@)]
  /\ UNCHANGED submitted

Finish(q) ==
  /\ running[q] # None
  /\ running' = [running EXCEPT ![q] = None]
  /\ UNCHANGED <<pending, submitted>>

\* The jobs an executor has already taken still run: any prefix may survive.
Discard(q) ==
  /\ q \in Clearable
  /\ \E n \in 0..Len(pending[q]) :
       pending' = [pending EXCEPT ![q] = SubSeq(@, 1, n)]
  /\ UNCHANGED <<running, submitted>>

Next == \E q \in Queues : Start(q) \/ Finish(q) \/ Discard(q)
                          \/ \E j \in Jobs : Submit(q, j)

Spec == Init /\ [][Next]_vars

\* A queue with work makes progress.
Fairness == \A q \in Queues : WF_vars(Start(q)) /\ WF_vars(Finish(q))

FairSpec == Spec /\ Fairness
=============================================================================
