------------------------- MODULE MCDeadLockProfiler -------------------------
(***************************************************************************)
(* Small instances of DeadLockProfiler.                                    *)
(***************************************************************************)
EXTENDS DeadLockProfiler, CycleSearch, TLC

CONSTANTS session1, session2, room, service

\* The first two locks belong to objects of one class, the others do not.
ClassName ==
  session1 :> "Session" @@ session2 :> "Session" @@ room :> "Room" @@ service :> "Service"

Symmetry == Permutations(Lockers) \cup Permutations({session1, session2})

\* What the theorems suppose of the search: TLC evaluates it, with the CheckCycle of
\* CycleSearch, for every order of up to four ids before it explores the states.
ASSUME SearchFindsCycles == \A n \in 0..4 : SearchIsRight(n)
=============================================================================
