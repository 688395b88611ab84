------------------------------- MODULE RWLock -------------------------------
(***************************************************************************)
(* ServerCore's Lock, a recursive reader-writer spin lock in one 32-bit    *)
(* word (owner thread id, read count) and a plain _writeCount, used through *)
(* ReadLockGuard and WriteLockGuard: guards are released innermost first.  *)
(*                                                                         *)
(* Grain: each access to _lockFlag or _writeCount that another thread's    *)
(* access may come between is a step.  What a thread reads while it owns   *)
(* the lock nobody else changes, so the owner's paths are single steps.    *)
(***************************************************************************)
EXTENDS Integers, Sequences, FiniteSets

CONSTANTS Threads,   \* LThreadId values; ThreadManager hands them out from 1
          None,      \* EMPTY_FLAG's owner, the id of no managed thread
          MaxDepth   \* bound on the guards one thread nests

ASSUME RWLockAssumption ==
  /\ None \notin Threads
  /\ None \notin {"LOCK_TIMEOUT", "INVALID_UNLOCK_ORDER", "MULTIPLE_UNLOCK"}
  /\ MaxDepth \in Nat

VARIABLES
  owner,       \* the high half of _lockFlag
  readers,     \* the low half of _lockFlag
  writeCount,  \* _writeCount
  pc,          \* pc[t]: where t is in a call of Lock
  expected,    \* expected[t]: ReadLock's local
  guards,      \* guards[t]: t's live guards, outermost first
  crashed      \* the message of the CRASH that ended the process, or None

vars == <<owner, readers, writeCount, pc, expected, guards, crashed>>

Init ==
  /\ owner = None
  /\ readers = 0
  /\ writeCount = 0
  /\ pc = [t \in Threads |-> "run"]
  /\ expected = [t \in Threads |-> 0]
  /\ guards = [t \in Threads |-> <<>>]
  /\ crashed = None

Goto(t, l) == pc' = [pc EXCEPT ![t] = l]
Enter(t, mode) == guards' = [guards EXCEPT ![t] = Append(@, mode)]
Leave(t) == guards' = [guards EXCEPT ![t] = SubSeq(@, 1, Len(@) - 1)]
Top(t) == guards[t][Len(guards[t])]

\* t's next statement is a guard's constructor, or its innermost destructor.
MayLock(t) == crashed = None /\ pc[t] = "run" /\ Len(guards[t]) < MaxDepth
MayUnlock(t, mode) ==
  crashed = None /\ pc[t] = "run" /\ guards[t] # <<>> /\ Top(t) = mode

-----------------------------------------------------------------------------
(***************************************************************************)
(* Seeded bugs                                                             *)
(***************************************************************************)

\* The inner unlock of a recursive WriteLock empties the flag.
WriteUnlockMutantEarly(t) ==
  /\ MayUnlock(t, "W")
  /\ readers = 0
  /\ writeCount' = writeCount - 1
  /\ Goto(t, "free")
  /\ UNCHANGED <<owner, readers, expected, guards, crashed>>

\* _writeCount++ is left out on the contended path.
WriteCountUpMutantLost(t) ==
  /\ crashed = None
  /\ pc[t] = "count"
  /\ Goto(t, "run")
  /\ UNCHANGED <<owner, readers, writeCount, expected, guards, crashed>>

\* The reader stores expected + 1 without comparing.
ReadExchangeMutantStore(t) ==
  /\ crashed = None
  /\ pc[t] = "readcas"
  /\ owner = None
  /\ readers' = expected[t] + 1
  /\ Enter(t, "R")
  /\ Goto(t, "run")
  /\ UNCHANGED <<owner, writeCount, expected, crashed>>

\* WriteLock never looks at the clock.
WriteTimeoutMutantNone(t) ==
  /\ crashed = None
  /\ pc[t] = "write"
  /\ owner # None \/ readers # 0
  /\ UNCHANGED vars

\* The owner takes its first read lock without counting it.
ReadLockOwnedMutantUncounted(t) ==
  /\ MayLock(t)
  /\ owner = t
  /\ Enter(t, "R")
  /\ UNCHANGED <<owner, readers, writeCount, pc, expected, crashed>>

-----------------------------------------------------------------------------
(***************************************************************************)
(* WriteLock and WriteUnlock                                               *)
(***************************************************************************)

\* The owner succeeds at once.
WriteLockOwned(t) ==
  /\ MayLock(t)
  /\ owner = t
  /\ writeCount' = writeCount + 1
  /\ Enter(t, "W")
  /\ UNCHANGED <<owner, readers, pc, expected, crashed>>

\* Anybody else starts to spin.
WriteLockSpin(t) ==
  /\ MayLock(t)
  /\ owner # t
  /\ Goto(t, "write")
  /\ UNCHANGED <<owner, readers, writeCount, expected, guards, crashed>>

\* compare_exchange_strong(EMPTY_FLAG, desired) succeeds; a failed one
\* changes nothing and is no step.
WriteAcquire(t) ==
  /\ crashed = None
  /\ pc[t] = "write"
  /\ owner = None
  /\ readers = 0
  /\ owner' = t
  /\ Enter(t, "W")
  /\ Goto(t, "count")
  /\ UNCHANGED <<readers, writeCount, expected, crashed>>

\* _writeCount++, after the exchange.
WriteCountUp(t) ==
  /\ crashed = None
  /\ pc[t] = "count"
  /\ writeCount' = writeCount + 1
  /\ Goto(t, "run")
  /\ UNCHANGED <<owner, readers, expected, guards, crashed>>

\* MAX_SPIN_COUNT exchanges failed and ACQUIRE_TIMEOUT_TICK has passed.
WriteTimeout(t) ==
  /\ crashed = None
  /\ pc[t] = "write"
  /\ owner # None \/ readers # 0
  /\ crashed' = "LOCK_TIMEOUT"
  /\ UNCHANGED <<owner, readers, writeCount, pc, expected, guards>>

WriteUnlock(t) ==
  /\ MayUnlock(t, "W")
  /\ readers = 0
  /\ writeCount' = writeCount - 1
  /\ IF writeCount' = 0
       THEN Goto(t, "free") /\ UNCHANGED guards
       ELSE Leave(t) /\ UNCHANGED pc
  /\ UNCHANGED <<owner, readers, expected, crashed>>

WriteUnlockInvalid(t) ==
  /\ MayUnlock(t, "W")
  /\ readers # 0
  /\ crashed' = "INVALID_UNLOCK_ORDER"
  /\ UNCHANGED <<owner, readers, writeCount, pc, expected, guards>>

\* _lockFlag.store(EMPTY_FLAG): both halves.
WriteStore(t) ==
  /\ crashed = None
  /\ pc[t] = "free"
  /\ owner' = None
  /\ readers' = 0
  /\ Leave(t)
  /\ Goto(t, "run")
  /\ UNCHANGED <<writeCount, expected, crashed>>

-----------------------------------------------------------------------------
(***************************************************************************)
(* ReadLock and ReadUnlock                                                 *)
(***************************************************************************)

ReadLockOwned(t) ==
  /\ MayLock(t)
  /\ owner = t
  /\ readers' = readers + 1
  /\ Enter(t, "R")
  /\ UNCHANGED <<owner, writeCount, pc, expected, crashed>>

ReadLockSpin(t) ==
  /\ MayLock(t)
  /\ owner # t
  /\ Goto(t, "read")
  /\ UNCHANGED <<owner, readers, writeCount, expected, guards, crashed>>

\* expected = _lockFlag.load() & READ_COUNT_MASK
ReadLoad(t) ==
  /\ crashed = None
  /\ pc[t] = "read"
  /\ expected' = [expected EXCEPT ![t] = readers]
  /\ Goto(t, "readcas")
  /\ UNCHANGED <<owner, readers, writeCount, guards, crashed>>

\* The exchange succeeds on a word with no owner and the count it read ...
ReadExchange(t) ==
  /\ crashed = None
  /\ pc[t] = "readcas"
  /\ owner = None
  /\ readers = expected[t]
  /\ readers' = expected[t] + 1
  /\ Enter(t, "R")
  /\ Goto(t, "run")
  /\ UNCHANGED <<owner, writeCount, expected, crashed>>

\* ... and otherwise the count is read again,
ReadRetry(t) ==
  /\ crashed = None
  /\ pc[t] = "readcas"
  /\ owner # None \/ readers # expected[t]
  /\ Goto(t, "read")
  /\ UNCHANGED <<owner, readers, writeCount, expected, guards, crashed>>

\* or the time is up.
ReadTimeout(t) ==
  /\ crashed = None
  /\ pc[t] = "readcas"
  /\ owner # None \/ readers # expected[t]
  /\ crashed' = "LOCK_TIMEOUT"
  /\ UNCHANGED <<owner, readers, writeCount, pc, expected, guards>>

ReadUnlock(t) ==
  /\ MayUnlock(t, "R")
  /\ IF readers = 0
       THEN crashed' = "MULTIPLE_UNLOCK" /\ UNCHANGED <<readers, guards>>
       ELSE readers' = readers - 1 /\ Leave(t) /\ UNCHANGED crashed
  /\ UNCHANGED <<owner, writeCount, pc, expected>>

-----------------------------------------------------------------------------
\* What a thread does without choosing to lock.
Progress(t) ==
  \/ WriteAcquire(t) \/ WriteCountUp(t)
  \/ WriteUnlock(t) \/ WriteUnlockInvalid(t) \/ WriteStore(t)
  \/ ReadLoad(t) \/ ReadExchange(t) \/ ReadRetry(t) \/ ReadUnlock(t)

Lock(t) ==
  \/ WriteLockOwned(t) \/ WriteLockSpin(t) \/ ReadLockOwned(t) \/ ReadLockSpin(t)

Timeout(t) == WriteTimeout(t) \/ ReadTimeout(t)

\* A crashed process takes no more steps.
Dead == crashed # None /\ UNCHANGED vars

Next == Dead \/ \E t \in Threads : Lock(t) \/ Progress(t) \/ Timeout(t)

Spec == Init /\ [][Next]_vars

\* Critical sections end, every thread is scheduled, and time passes for a
\* thread that goes on failing: a spin does not outlast ACQUIRE_TIMEOUT_TICK.
Fairness == \A t \in Threads : WF_vars(Progress(t)) /\ SF_vars(Timeout(t))

FairSpec == Spec /\ Fairness

-----------------------------------------------------------------------------
(***************************************************************************)
(* Properties                                                              *)
(***************************************************************************)

\* Every variable keeps its type.
TypeOK ==
  /\ owner \in Threads \cup {None}
  /\ readers \in Nat
  /\ writeCount \in Int
  /\ pc \in [Threads -> {"run", "write", "count", "free", "read", "readcas"}]
  /\ expected \in [Threads -> Nat]
  /\ guards \in [Threads -> Seq({"W", "R"})]
  /\ crashed \in {None, "LOCK_TIMEOUT", "INVALID_UNLOCK_ORDER", "MULTIPLE_UNLOCK"}

Holds(t, mode) == \E k \in DOMAIN guards[t] : guards[t][k] = mode

\* While a thread has a write guard no other thread has any guard.
Exclusion ==
  \A t, u \in Threads : t # u /\ Holds(t, "W") => guards[u] = <<>>

Shares == {s \in Threads \X (1..MaxDepth) :
             s[2] \in DOMAIN guards[s[1]] /\ guards[s[1]][s[2]] = "R"}

\* The word describes the guards: the owner is the thread with a write guard,
\* the read count is the number of read guards.
WordMatchesGuards ==
  /\ \A t \in Threads : Holds(t, "W") <=> owner = t
  /\ readers = Cardinality(Shares)

WriteDepth(t) == {k \in DOMAIN guards[t] : guards[t][k] = "W"}

\* _writeCount, which is not atomic, is the depth of the owner's write guards
\* whenever the owner is not inside WriteLock or WriteUnlock, and 0 when the
\* lock is free: no update of it is ever lost.
WriteCountExact ==
  /\ owner = None => writeCount = 0
  /\ owner # None /\ pc[owner] \notin {"count", "free"} =>
       writeCount = Cardinality(WriteDepth(owner))

\* Guards never unlock too often, and the CRASH of Lock.cpp:50 ("no
\* WriteUnlock before every ReadLock is released", Lock.cpp:48) is reached
\* only by nesting a write guard in a read guard in a write guard.
GuardsUnlockInOrder ==
  /\ crashed # "MULTIPLE_UNLOCK"
  /\ crashed = "INVALID_UNLOCK_ORDER" =>
       \E t \in Threads : \E i, j, k \in DOMAIN guards[t] :
         i < j /\ j < k /\ guards[t][i] = "W" /\ guards[t][j] = "R"
                        /\ guards[t][k] = "W"

ReaderWriterLock == INSTANCE ReaderWriter WITH held <- guards

\* The word and the counter implement reader-writer guards.
ImplementsReaderWriter == ReaderWriterLock!Spec

\* No thread spins for ever: it gets the lock, or the process has crashed.
SpinEnds ==
  \A t \in Threads :
    pc[t] \in {"write", "read", "readcas"} ~> pc[t] = "run" \/ crashed # None
=============================================================================
