----------------------------- MODULE StreamApi ------------------------------
(***************************************************************************)
(* What the streams of the bionic stdio shim promise: an operation has the *)
(* host stream to itself or shares it with other operations, never with a  *)
(* close.  One close claims a stream, which refuses new operations from    *)
(* then on, and hands it to the host's fclose when the last one has left.  *)
(***************************************************************************)
CONSTANTS Threads, Files

VARIABLES
    made,      \* the streams there have been
    usable,    \* the streams that take operations
    users,     \* users[f]: the threads at work on the host stream of f
    closer,    \* closer[f]: the thread whose close has claimed f, if any
    hostOpen   \* the host streams that are open

vars == <<made, usable, users, closer, hostOpen>>

Init ==
    /\ made     = {}
    /\ usable   = {}
    /\ users    = [f \in Files |-> {}]
    /\ closer   = [f \in Files |-> {}]
    /\ hostOpen = {}

Open(f) ==
    /\ f \notin made
    /\ made'     = made \union {f}
    /\ usable'   = usable \union {f}
    /\ hostOpen' = hostOpen \union {f}
    /\ UNCHANGED <<users, closer>>

Use(t, f) ==
    /\ f \in usable
    /\ users' = [users EXCEPT ![f] = @ \union {t}]
    /\ UNCHANGED <<made, usable, closer, hostOpen>>

Leave(t, f) ==
    /\ t \in users[f]
    /\ users' = [users EXCEPT ![f] = @ \ {t}]
    /\ UNCHANGED <<made, usable, closer, hostOpen>>

Claim(t, f) ==
    /\ f \in usable
    /\ closer[f] = {}
    /\ usable' = usable \ {f}
    /\ closer' = [closer EXCEPT ![f] = {t}]
    /\ UNCHANGED <<made, users, hostOpen>>

HostClose(t, f) ==
    /\ closer[f] = {t}
    /\ users[f] = {}
    /\ f \in hostOpen
    /\ closer'   = [closer EXCEPT ![f] = {}]
    /\ hostOpen' = hostOpen \ {f}
    /\ UNCHANGED <<made, usable, users>>

Next ==
    \E f \in Files :
        \/ Open(f)
        \/ \E t \in Threads : Use(t, f) \/ Leave(t, f) \/ Claim(t, f) \/ HostClose(t, f)

Spec == Init /\ [][Next]_vars

=============================================================================
