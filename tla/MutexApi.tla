------------------------------ MODULE MutexApi ------------------------------
(***************************************************************************)
(* What the guest may rely on when it calls the mutex functions of the     *)
(* pthread bridge, in terms of the return codes only.                      *)
(***************************************************************************)
EXTENDS Integers

CONSTANTS Threads, Mutexes,
          Recursive      \* the mutexes of the recursive type

VARIABLE held            \* held[t][m]: how often thread t owns mutex m

Init == held = [t \in Threads |-> [m \in Mutexes |-> 0]]

\* A lock, a trylock, a wait or the end of a handoff answered 0.
Lock(t, m) ==
    /\ \A u \in Threads \ {t} : held[u][m] = 0
    /\ held[t][m] = 0 \/ m \in Recursive
    /\ held' = [held EXCEPT ![t][m] = @ + 1]

\* An unlock was accepted, or a wait or a handoff gave the mutex up.
Unlock(t, m) ==
    /\ held[t][m] > 0
    /\ held' = [held EXCEPT ![t][m] = @ - 1]

Next == \E t \in Threads, m \in Mutexes : Lock(t, m) \/ Unlock(t, m)

Spec == Init /\ [][Next]_held

=============================================================================
