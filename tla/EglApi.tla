------------------------------- MODULE EglApi -------------------------------
(***************************************************************************)
(* What the EGL shim promises of bindings: a context is bound to one       *)
(* thread at a time, what is bound is not destroyed, and nothing changes   *)
(* under a thread that presents a frame.  Each call acts at one instant;   *)
(* a binding is the only thing that is remembered of it.                   *)
(***************************************************************************)
CONSTANTS Threads, Contexts, Surfaces, None

VARIABLES
    contexts,   \* the living contexts
    surfaces,   \* the living surfaces
    bound,      \* bound[t]: the context and the two surfaces of t
    drawing     \* the threads that present a frame

vars == <<contexts, surfaces, bound, drawing>>

Binding(c, d, r) == [context |-> c, draw |-> d, read |-> r]
Nothing == Binding(None, None, None)

Init ==
    /\ contexts = {}
    /\ surfaces = {}
    /\ bound    = [t \in Threads |-> Nothing]
    /\ drawing  = {}

MakeCurrent(t, c, d, r) ==
    /\ t \notin drawing
    /\ c \in contexts
    /\ {d, r} \subseteq surfaces
    /\ \A u \in Threads \ {t} : bound[u].context # c
    /\ bound' = [bound EXCEPT ![t] = Binding(c, d, r)]
    /\ UNCHANGED <<contexts, surfaces, drawing>>

Unbind(t) ==
    /\ t \notin drawing
    /\ bound' = [bound EXCEPT ![t] = Nothing]
    /\ UNCHANGED <<contexts, surfaces, drawing>>

Draw(t) ==
    /\ bound[t] # Nothing
    /\ drawing' = drawing \union {t}
    /\ UNCHANGED <<contexts, surfaces, bound>>

Drawn(t) ==
    /\ drawing' = drawing \ {t}
    /\ UNCHANGED <<contexts, surfaces, bound>>

Create ==
    /\ \/ /\ \E c \in Contexts \ contexts : contexts' = contexts \union {c}
          /\ UNCHANGED surfaces
       \/ /\ \E s \in Surfaces \ surfaces : surfaces' = surfaces \union {s}
          /\ UNCHANGED contexts
    /\ UNCHANGED <<bound, drawing>>

DestroyContext(c) ==
    /\ \A t \in Threads : bound[t].context # c
    /\ contexts' = contexts \ {c}
    /\ UNCHANGED <<surfaces, bound, drawing>>

DestroySurface(s) ==
    /\ \A t \in Threads : s \notin {bound[t].draw, bound[t].read}
    /\ surfaces' = surfaces \ {s}
    /\ UNCHANGED <<contexts, bound, drawing>>

\* The thread that terminates may be bound itself.
Terminate(t) ==
    /\ drawing = {}
    /\ \A u \in Threads \ {t} : bound[u] = Nothing
    /\ bound'    = [u \in Threads |-> Nothing]
    /\ contexts' = {}
    /\ surfaces' = {}
    /\ UNCHANGED drawing

Next ==
    \/ Create
    \/ \E c \in Contexts : DestroyContext(c)
    \/ \E s \in Surfaces : DestroySurface(s)
    \/ \E t \in Threads :
          \/ Unbind(t) \/ Draw(t) \/ Drawn(t) \/ Terminate(t)
          \/ \E c \in Contexts, d, r \in Surfaces : MakeCurrent(t, c, d, r)

Spec == Init /\ [][Next]_vars

=============================================================================
