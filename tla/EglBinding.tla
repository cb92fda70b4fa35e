----------------------------- MODULE EglBinding -----------------------------
(***************************************************************************)
(* src/src/egl_shim.c: the EGL the engine sees, one SDL window with child  *)
(* contexts and surfaces that threads make current.                        *)
(*                                                                         *)
(* egl_state_mutex makes most calls one critical section.  Outside it run  *)
(* the first checks of the calls that create, destroy or present, the      *)
(* swap itself and the close of the window; a call in between is at pc.    *)
(* A handle that was freed may be handed out again.                        *)
(***************************************************************************)
EXTENDS Integers, FiniteSets

CONSTANTS
    Threads,
    Contexts,    \* addresses a context may get
    Surfaces,    \* addresses a surface may get
    Pbuffers,    \* those of pbuffer surfaces
    NoThread,    \* owner_valid = 0
    None,        \* NULL
    Root         \* egl_share_root, never shown to the engine

ASSUME EglAssumption ==
    /\ Pbuffers \subseteq Surfaces
    /\ IsFiniteSet(Threads)
    /\ NoThread \notin Threads
    /\ None \notin Contexts \union Surfaces
    /\ Root \notin Contexts \union {None}

VARIABLES
    window,        \* "open", "closing" (egl_terminating) or "closed"
    initialized,   \* egl_initialized
    contexts,      \* the list egl_contexts
    owner,         \* owner and owner_valid of a context
    surfaces,      \* the list egl_surfaces
    bindings,      \* binding_count of a surface
    ready,         \* graphics_ready_attempted and graphics_ready_status
    tlsContext,    \* tls_context, per thread
    tlsDraw,       \* tls_draw_surface
    tlsRead,       \* tls_read_surface
    current,       \* what SDL has current on a thread
    lost,          \* history: SDL refused to put back what was current
    pc             \* where a thread is in a call with more than one step

display == <<window, initialized>>
objects == <<contexts, owner, surfaces, bindings>>
tls     == <<tlsContext, tlsDraw, tlsRead>>
host    == <<current, lost>>
vars    == <<display, objects, ready, tls, host, pc>>

Calls == {"createSurface", "createContext", "destroySurface", "destroyContext", "swapBuffers"}

TypeOK ==
    /\ window      \in {"open", "closing", "closed"}
    /\ initialized \in BOOLEAN
    /\ contexts    \in SUBSET Contexts
    /\ owner       \in [Contexts -> Threads \union {NoThread}]
    /\ surfaces    \in SUBSET Surfaces
    /\ bindings    \in [Surfaces -> Nat]
    /\ ready       \in {"untried", "ok", "failed"}
    /\ tlsContext  \in [Threads -> Contexts \union {None}]
    /\ tlsDraw     \in [Threads -> Surfaces \union {None}]
    /\ tlsRead     \in [Threads -> Surfaces \union {None}]
    /\ current     \in [Threads -> Contexts \union {Root, None}]
    /\ lost        \in [Threads -> BOOLEAN]
    /\ pc          \in [Threads -> Calls \union {"idle", "swap", "close"}]

\* egl_shim_create_window opened the window and released the root.
Init ==
    /\ window = "open"
    /\ initialized = FALSE
    /\ contexts = {}
    /\ owner = [c \in Contexts |-> NoThread]
    /\ surfaces = {}
    /\ bindings = [s \in Surfaces |-> 0]
    /\ ready = "untried"
    /\ tlsContext = [t \in Threads |-> None]
    /\ tlsDraw = [t \in Threads |-> None]
    /\ tlsRead = [t \in Threads |-> None]
    /\ current = [t \in Threads |-> None]
    /\ lost = [t \in Threads |-> FALSE]
    /\ pc = [t \in Threads |-> "idle"]

Goto(t, label) == pc' = [pc EXCEPT ![t] = label]

-----------------------------------------------------------------------------
(* What SDL has current.  Every switch may be refused, which changes       *)
(* nothing; a context that is current on another thread is always refused. *)

Free(t, c) == \A u \in Threads \ {t} : current[u] # c

\* gl_makecurrent(egl_window, c) succeeded on t.
Switched(t, c) ==
    /\ current' = [current EXCEPT ![t] = c]
    /\ lost' = [lost EXCEPT ![t] = FALSE]

\* c is current on t and putting back what was current is refused.
LeftBehind(t, c) ==
    /\ current' = [current EXCEPT ![t] = c]
    /\ lost' = [lost EXCEPT ![t] = TRUE]

-----------------------------------------------------------------------------
(* Bindings: thread-local, with their traces in contexts and surfaces.     *)

\* One count of surface s less, as far as there is one.
Drop(counts, s) == IF s # None /\ counts[s] > 0 THEN [counts EXCEPT ![s] = @ - 1] ELSE counts

\* Mutant: the draw surface is released in place of the read surface.
DropBindingsDrawTwice(t) == Drop(Drop(bindings, tlsDraw[t]), tlsDraw[t])

\* Mutant: the same without a look at the count.
DropBindingsBlindly(t) ==
    [s \in Surfaces |-> IF s = tlsDraw[t] THEN bindings[s] - 2 ELSE bindings[s]]

\* The counts without the bindings of t.
DropBindings(t) == Drop(Drop(bindings, tlsDraw[t]), tlsRead[t])

\* The owners without t's context, unless it is c.
Disown(t, c) == [x \in Contexts |-> IF x = tlsContext[t] /\ x # c THEN NoThread ELSE owner[x]]

\* egl_release_tls_binding_locked, and what the caller did to the host before.
Release(t) ==
    /\ Switched(t, None)
    /\ bindings' = DropBindings(t)
    /\ owner' = Disown(t, None)
    /\ tlsContext' = [tlsContext EXCEPT ![t] = None]
    /\ tlsDraw' = [tlsDraw EXCEPT ![t] = None]
    /\ tlsRead' = [tlsRead EXCEPT ![t] = None]

-----------------------------------------------------------------------------
(* The display.                                                            *)

Initialize(t) ==
    /\ pc[t] = "idle"
    /\ window = "open"
    /\ initialized' = TRUE
    /\ UNCHANGED <<window, objects, ready, tls, host, pc>>

\* Once t has released its own context, none has an owner.
OthersUnbound(t) == \A c \in contexts : Disown(t, None)[c] = NoThread

\* SDL unbinds a context that is deleted from the thread that deletes it.
Deleted(t, gone) ==
    /\ current' = [current EXCEPT ![t] = IF @ \in gone THEN None ELSE @]
    /\ UNCHANGED lost

\* eglTerminate finds another thread bound; its own binding is gone by then.
TerminateRefused(t) ==
    /\ pc[t] = "idle"
    /\ window = "open"
    /\ tlsContext[t] # None
    /\ ~OthersUnbound(t)
    /\ Release(t)
    /\ UNCHANGED <<display, contexts, surfaces, ready, pc>>

\* Mutant: no look at the owners.
TerminateUnasked(t) ==
    /\ pc[t] = "idle"
    /\ window = "open"
    /\ IF tlsContext[t] # None
       THEN Release(t)
       ELSE Deleted(t, contexts) /\ UNCHANGED <<owner, bindings, tls>>
    /\ contexts' = {}
    /\ surfaces' = {}
    /\ initialized' = FALSE
    /\ window' = "closing"
    /\ Goto(t, "close")
    /\ UNCHANGED ready

Terminate(t) ==
    /\ pc[t] = "idle"
    /\ window = "open"
    /\ OthersUnbound(t)
    /\ IF tlsContext[t] # None
       THEN Release(t)
       ELSE Deleted(t, contexts) /\ UNCHANGED <<owner, bindings, tls>>
    /\ contexts' = {}
    /\ surfaces' = {}
    /\ initialized' = FALSE
    /\ window' = "closing"
    /\ Goto(t, "close")
    /\ UNCHANGED ready

\* nxgl_close_v2, without the mutex; refused, it leaves the window open.
CloseReturns(t) ==
    /\ pc[t] = "close"
    /\ window' \in {"open", "closed"}
    /\ Goto(t, "idle")
    /\ UNCHANGED <<initialized, objects, ready, tls, host>>

-----------------------------------------------------------------------------
(* Calls whose first checks run before the mutex is taken.                 *)

\* The display is valid; to create something it has to be initialised too.
Enter(t, call) ==
    /\ pc[t] = "idle"
    /\ window = "open"
    /\ call \in {"createSurface", "createContext"} => initialized
    /\ Goto(t, call)
    /\ UNCHANGED <<display, objects, ready, tls, host>>

\* A call ends without an effect: refused, or out of memory.
GiveUp(t) ==
    /\ pc[t] \in Calls
    /\ Goto(t, "idle")
    /\ UNCHANGED <<display, objects, ready, tls, host>>

\* egl_allocate_surface looks at the display no more.
CreateSurface(t, s) ==
    /\ pc[t] = "createSurface"
    /\ s \notin surfaces
    /\ surfaces' = surfaces \union {s}
    /\ bindings' = [bindings EXCEPT ![s] = 0]
    /\ Goto(t, "idle")
    /\ UNCHANGED <<display, contexts, owner, ready, tls, host>>

\* Mutant: the share root stays current.
CreateContextKeepsRoot(t, c) ==
    /\ pc[t] = "createContext"
    /\ window = "open"
    /\ Free(t, Root)
    /\ c \notin contexts
    /\ contexts' = contexts \union {c}
    /\ owner' = [owner EXCEPT ![c] = NoThread]
    /\ current' = [current EXCEPT ![t] = Root]
    /\ Goto(t, "idle")
    /\ UNCHANGED <<display, surfaces, bindings, ready, tls, lost>>

\* The share root is current while the child is created.
CreateContext(t, c) ==
    /\ pc[t] = "createContext"
    /\ window = "open"
    /\ Free(t, Root)
    /\ c \notin contexts
    /\ contexts' = contexts \union {c}
    /\ owner' = [owner EXCEPT ![c] = NoThread]
    /\ Goto(t, "idle")
    /\ UNCHANGED <<display, surfaces, bindings, ready, tls, host>>

\* What was current cannot be restored: the root stays, or nothing once the
\* child is deleted again.
CreateContextStranded(t) ==
    /\ pc[t] = "createContext"
    /\ window = "open"
    /\ Free(t, Root)
    /\ LeftBehind(t, Root) \/ LeftBehind(t, None)
    /\ Goto(t, "idle")
    /\ UNCHANGED <<display, objects, ready, tls>>

\* Mutant: a bound surface can be destroyed.
DestroySurfaceBound(t, s) ==
    /\ pc[t] = "destroySurface"
    /\ s \in surfaces
    /\ surfaces' = surfaces \ {s}
    /\ Goto(t, "idle")
    /\ UNCHANGED <<display, contexts, owner, bindings, ready, tls, host>>

DestroySurface(t, s) ==
    /\ pc[t] = "destroySurface"
    /\ s \in surfaces
    /\ bindings[s] = 0
    /\ surfaces' = surfaces \ {s}
    /\ Goto(t, "idle")
    /\ UNCHANGED <<display, contexts, owner, bindings, ready, tls, host>>

DestroyContext(t, c) ==
    /\ pc[t] = "destroyContext"
    /\ c \in contexts
    /\ owner[c] = NoThread
    /\ contexts' = contexts \ {c}
    /\ Deleted(t, {c})
    /\ Goto(t, "idle")
    /\ UNCHANGED <<display, owner, surfaces, bindings, ready, tls>>

\* The checks of eglSwapBuffers; the frame is presented without the mutex.
SwapAllowed(t, s) ==
    /\ pc[t] = "swapBuffers"
    /\ initialized
    /\ s \in surfaces \ Pbuffers
    /\ tlsDraw[t] = s
    /\ tlsContext[t] \in contexts
    /\ owner[tlsContext[t]] = t
    /\ current[t] = tlsContext[t]
    /\ Goto(t, "swap")
    /\ UNCHANGED <<display, objects, ready, tls, host>>

Present(t) ==
    /\ pc[t] = "swap"
    /\ Goto(t, "idle")
    /\ UNCHANGED <<display, objects, ready, tls, host>>

-----------------------------------------------------------------------------
(* eglMakeCurrent, one critical section.                                   *)

MayCall(t) == pc[t] = "idle" /\ window = "open" /\ initialized

Unbind(t) ==
    /\ MayCall(t)
    /\ Release(t)
    /\ UNCHANGED <<display, contexts, surfaces, ready, pc>>

\* The handles are alive, the context is t's or nobody's, SDL makes it current.
Bindable(t, c, d, r) ==
    /\ MayCall(t)
    /\ c \in contexts
    /\ {d, r} \subseteq surfaces
    /\ owner[c] \in {NoThread, t}
    /\ Free(t, c)

\* The first context made current publishes the proof of the graphics; its
\* answer stands for every later attempt.
Answers(answer) == ready = "untried" \/ ready = answer

Publish(answer) == ready' = IF ready = "untried" THEN answer ELSE ready

MakeCurrent(t, c, d, r) ==
    /\ Bindable(t, c, d, r)
    /\ Answers("ok")
    /\ Publish("ok")
    /\ Switched(t, c)
    /\ bindings' = [s \in Surfaces |-> DropBindings(t)[s] + (IF s = d THEN 1 ELSE 0)
                                                          + (IF s = r THEN 1 ELSE 0)]
    /\ owner' = [Disown(t, c) EXCEPT ![c] = t]
    /\ tlsContext' = [tlsContext EXCEPT ![t] = c]
    /\ tlsDraw' = [tlsDraw EXCEPT ![t] = d]
    /\ tlsRead' = [tlsRead EXCEPT ![t] = r]
    /\ UNCHANGED <<display, contexts, surfaces, pc>>

\* The proof was refused: what the thread had before is made current again.
MakeCurrentUnproven(t, c, d, r) ==
    /\ Bindable(t, c, d, r)
    /\ Answers("failed")
    /\ Publish("failed")
    /\ \/ current' = [current EXCEPT ![t] = tlsContext[t]] /\ UNCHANGED lost
       \/ LeftBehind(t, c)
    /\ UNCHANGED <<display, objects, tls, pc>>

-----------------------------------------------------------------------------

Next ==
    \E t \in Threads :
        \/ Initialize(t) \/ TerminateRefused(t) \/ Terminate(t) \/ CloseReturns(t)
        \/ \E call \in Calls : Enter(t, call)
        \/ GiveUp(t)
        \/ \E s \in Surfaces : CreateSurface(t, s) \/ DestroySurface(t, s) \/ SwapAllowed(t, s)
        \/ \E c \in Contexts : CreateContext(t, c) \/ DestroyContext(t, c)
        \/ CreateContextStranded(t)
        \/ Present(t)
        \/ Unbind(t)
        \/ \E c \in Contexts, d, r \in Surfaces : MakeCurrent(t, c, d, r) \/ MakeCurrentUnproven(t, c, d, r)

Spec == Init /\ [][Next]_vars

-----------------------------------------------------------------------------
(* Properties.                                                             *)

\* A thread's binding never dangles: its context is alive and its own, its
\* surfaces are alive, and no context has an owner that forgot it - although
\* other threads destroy, terminate and get freed handles again.
BindingsAlive ==
    /\ \A t \in Threads : tlsContext[t] # None =>
          /\ tlsContext[t] \in contexts
          /\ owner[tlsContext[t]] = t
          /\ {tlsDraw[t], tlsRead[t]} \subseteq surfaces
    /\ \A c \in contexts : owner[c] # NoThread => tlsContext[owner[c]] = c

\* Owners, counts, flags and the mutex implement EglApi: a context has one
\* thread, what is bound is not destroyed, and a thread that presents outside
\* the mutex is left alone, although the calls of other threads check the
\* display before they take the mutex and SDL refuses what it likes.
Bindings == [t \in Threads |->
                [context |-> tlsContext[t], draw |-> tlsDraw[t], read |-> tlsRead[t]]]
Drawing  == {t \in Threads : pc[t] = "swap"}
Api == INSTANCE EglApi WITH bound <- Bindings, drawing <- Drawing
EglApiHolds == Api!Spec

\* binding_count of a living surface counts the bindings of all threads.
Bound(f, s) == Cardinality({t \in Threads : f[t] = s})
BindingsCounted == \A s \in surfaces : bindings[s] = Bound(tlsDraw, s) + Bound(tlsRead, s)

\* While a frame is presented outside the mutex, the window is open and the
\* thread's own context is alive and current.
PresentSafe ==
    \A t \in Threads : pc[t] = "swap" =>
        /\ window = "open"
        /\ tlsContext[t] \in contexts
        /\ owner[tlsContext[t]] = t
        /\ current[t] = tlsContext[t]

\* SDL has current on a thread what the shim believes, however calls fail,
\* unless SDL itself refused to restore it; no context is current on two
\* threads; and nobody is bound without a published proof of the graphics,
\* although its answer is latched and decides every later eglMakeCurrent.
HostAgrees ==
    /\ \A t \in Threads : ~lost[t] => current[t] = tlsContext[t]
    /\ \A t, u \in Threads : t # u /\ current[t] = current[u] => current[t] = None
    /\ ready = "ok" \/ \A t \in Threads : tlsContext[t] = None

=============================================================================
