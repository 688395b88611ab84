---------------------------- MODULE ReaderWriter ----------------------------
(***************************************************************************)
(* What Lock promises the users of READ_LOCK and WRITE_LOCK: recursive     *)
(* shared/exclusive guards, released in the reverse order of acquisition.  *)
(* A thread that holds only shared guards is never given the exclusive one.*)
(***************************************************************************)
EXTENDS Integers, Sequences

CONSTANT Threads

VARIABLE held   \* held[t]: the guards of t, "W" or "R", outermost first

Holds(t, mode) == \E k \in DOMAIN held[t] : held[t][k] = mode

Init == held = [t \in Threads |-> <<>>]

AcquireWrite(t) ==
  /\ Holds(t, "W") \/ held[t] = <<>>
  /\ \A u \in Threads \ {t} : held[u] = <<>>
  /\ held' = [held EXCEPT ![t] = Append(@, "W")]

AcquireRead(t) ==
  /\ \A u \in Threads \ {t} : ~Holds(u, "W")
  /\ held' = [held EXCEPT ![t] = Append(@, "R")]

Release(t) ==
  /\ held[t] # <<>>
  /\ held' = [held EXCEPT ![t] = SubSeq(@, 1, Len(@) - 1)]

Next == \E t \in Threads : AcquireWrite(t) \/ AcquireRead(t) \/ Release(t)

Spec == Init /\ [][Next]_held
=============================================================================
