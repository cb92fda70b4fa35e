----------------------------- MODULE ObjectMap -----------------------------
(***************************************************************************)
(* What the object registry of the pthread bridge promises: a map from the *)
(* words of the guest to host objects, which every call reads or changes   *)
(* at one instant.  A word names one object at a time, an object is named  *)
(* once in its life, and it is not taken away from a call that works on it.*)
(***************************************************************************)

CONSTANTS
    Threads, Slots, Objects,
    None,      \* no object; no answer
    Refused    \* the answer of a getter that found no object

VARIABLES
    bound,     \* bound[s]: the object of the word s
    made,      \* the objects there have been
    answer     \* answer[t]: what the call of t works on, until it returns

Init ==
    /\ bound  = [s \in Slots |-> None]
    /\ made   = {}
    /\ answer = [t \in Threads |-> None]

New(s, o) ==
    /\ bound[s] = None
    /\ o \notin made
    /\ bound' = [bound EXCEPT ![s] = o]
    /\ made'  = made \union {o}

Answer(t, a) ==
    /\ answer[t] = None
    /\ answer' = [answer EXCEPT ![t] = a]

\* An *_init.
Create(s, o) == New(s, o) /\ UNCHANGED answer

\* The first use of a statically initialised word.
FirstUse(t, s, o) == New(s, o) /\ Answer(t, o)

Get(t, s) ==
    /\ bound[s] # None
    /\ Answer(t, bound[s])
    /\ UNCHANGED <<bound, made>>

\* A getter is refused only when the word has no object.
Refuse(t, s) ==
    /\ bound[s] = None
    /\ Answer(t, Refused)
    /\ UNCHANGED <<bound, made>>

Return(t) ==
    /\ answer[t] # None
    /\ answer' = [answer EXCEPT ![t] = None]
    /\ UNCHANGED <<bound, made>>

\* No call works on the object.
Destroy(s) ==
    /\ bound[s] # None
    /\ \A t \in Threads : answer[t] # bound[s]
    /\ bound' = [bound EXCEPT ![s] = None]
    /\ UNCHANGED <<made, answer>>

Next ==
    \E s \in Slots :
        \/ Destroy(s)
        \/ \E o \in Objects : Create(s, o)
        \/ \E t \in Threads :
              \/ Get(t, s) \/ Refuse(t, s) \/ Return(t)
              \/ \E o \in Objects : FirstUse(t, s, o)

Spec == Init /\ [][Next]_<<bound, made, answer>>

=============================================================================
