------------------------------ MODULE OnceApi ------------------------------
(***************************************************************************)
(* What pthread_once of the bridge promises: an initialiser runs in one    *)
(* thread at a time, begins again only when it was abandoned, never after  *)
(* it has ended, and nobody is answered before that.                       *)
(***************************************************************************)
CONSTANTS Threads, Controls

VARIABLES
    inside,    \* inside[c]: the threads in the initialiser of c
    done,      \* the controls whose initialiser ran to its end
    answered   \* answered[t]: the controls for which t was answered 0

Init ==
    /\ inside   = [c \in Controls |-> {}]
    /\ done     = {}
    /\ answered = [t \in Threads |-> {}]

Answer(t, c) == answered' = [answered EXCEPT ![t] = @ \union {c}]

Begin(t, c) ==
    /\ c \notin done
    /\ inside[c] = {}
    /\ inside' = [inside EXCEPT ![c] = {t}]
    /\ UNCHANGED <<done, answered>>

Leave(t, c) ==
    /\ inside[c] = {t}
    /\ inside' = [inside EXCEPT ![c] = {}]

\* The thread was cancelled in the initialiser, or has ended in it.
Abandon(t, c) == Leave(t, c) /\ UNCHANGED <<done, answered>>

Finish(t, c) ==
    /\ Leave(t, c)
    /\ done' = done \union {c}
    /\ Answer(t, c)

\* A call on a control that is initialised.
Skip(t, c) ==
    /\ c \in done
    /\ Answer(t, c)
    /\ UNCHANGED <<inside, done>>

Next ==
    \E t \in Threads, c \in Controls :
        Begin(t, c) \/ Abandon(t, c) \/ Finish(t, c) \/ Skip(t, c)

Spec == Init /\ [][Next]_<<inside, done, answered>>

=============================================================================
