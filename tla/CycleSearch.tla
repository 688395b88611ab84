---------------------------- MODULE CycleSearch -----------------------------
(***************************************************************************)
(* DeadLockProfiler::CheckCycle: a depth-first search for a cycle in the   *)
(* order of the locks, which prints the cycle it finds and crashes.        *)
(***************************************************************************)
EXTENDS Integers, SequencesExt

\* The search's state: _discoveredOrder, _discoveredCount, _finished, _parent,
\* and the edges printed once a cycle is found.
Unvisited(n) ==
  [order |-> [i \in 1..n |-> -1], count |-> 0, finished |-> {},
   parent |-> [i \in 1..n |-> 0], printed |-> <<>>]

\* The chain printed from `here' back to `there', along _parent.
RECURSIVE Chain(_, _, _)
Chain(parent, now, there) ==
  IF now = there THEN <<>>
  ELSE <<<<parent[now], now>>>> \o Chain(parent, parent[now], there)

Successors(g, here) ==
  SetToSortSeq({e[2] : e \in {e \in g : e[1] = here}}, LAMBDA a, b : a < b)

\* Once `printed' is not empty the process is gone: nothing else happens.
RECURSIVE Dfs(_, _, _)
Dfs(g, here, s) ==
  IF s.order[here] # -1 \/ s.printed # <<>> THEN s
  ELSE LET Visit(acc, there) ==
             IF acc.printed # <<>> THEN acc
             ELSE IF acc.order[there] = -1
               THEN Dfs(g, there, [acc EXCEPT !.parent[there] = here])
             ELSE IF acc.order[here] < acc.order[there] \/ there \in acc.finished
               THEN acc
             ELSE [acc EXCEPT !.printed = <<<<here, there>>>> \o Chain(acc.parent, here, there)]
           after == FoldLeft(Visit, [s EXCEPT !.order[here] = s.count, !.count = @ + 1],
                             Successors(g, here))
       IN [after EXCEPT !.finished = @ \cup {here}]

\* Dfs from every id in turn; what was printed, <<>> if there is no cycle.
CheckCycle(g, n) ==
  FoldLeft(LAMBDA s, id : Dfs(g, id, s), Unvisited(n), [i \in 1..n |-> i]).printed
=============================================================================
