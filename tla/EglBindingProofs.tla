-------------------------- MODULE EglBindingProofs --------------------------
(***************************************************************************)
(* Proofs about EglBinding, for every finite set of threads and every set  *)
(* of handles.                                                             *)
(*                                                                         *)
(* The thread-local bindings, the owners of the contexts and the counts    *)
(* of the surfaces say the same thing three times; the invariant is that   *)
(* they agree, and with it that whoever presents a frame outside the       *)
(* mutex keeps everybody else from taking the window away.  What SDL has   *)
(* current depends on these, and they do not depend on it.                 *)
(***************************************************************************)
EXTENDS EglBinding, FiniteSetTheorems, TLAPS

\* One binding of s by the function f of the threads.
One(f, t, s) == IF f[t] = s THEN 1 ELSE 0

\* The three thread-local pointers are set and cleared together.
TogetherInv ==
    \A t \in Threads : /\ tlsContext[t] = None => tlsDraw[t] = None /\ tlsRead[t] = None
                       /\ tlsContext[t] # None => tlsDraw[t] # None /\ tlsRead[t] # None

\* A window that is closing has one closer and no contexts.
WindowInv ==
    /\ window # "open" => contexts = {}
    /\ \A t \in Threads : pc[t] = "close" => window = "closing"
    /\ \A t, u \in Threads : pc[t] = "close" /\ pc[u] = "close" => t = u

IInv ==
    /\ TypeOK
    /\ TogetherInv
    /\ WindowInv
    /\ BindingsAlive
    /\ BindingsCounted
    /\ PresentSafe

\* No thread has current what another one is bound to, even where SDL and
\* the shim have come apart.
ApartInv ==
    \A t, u \in Threads : t # u /\ tlsContext[t] # None => current[u] # tlsContext[t]

\* What the host's side adds; the bindings do not depend on it.
HostInv == HostAgrees /\ ApartInv

-----------------------------------------------------------------------------
(* Counting bindings.                                                      *)

LEMMA BoundFinite ==
    ASSUME NEW f, NEW s PROVE IsFiniteSet({t \in Threads : f[t] = s}) /\ Bound(f, s) \in Nat
  BY EglAssumption, FS_Subset, FS_CardinalityType DEF Bound

\* A thread counts once.
LEMMA BoundWithout ==
    ASSUME NEW f, NEW s, NEW t \in Threads
    PROVE  Bound(f, s) = Cardinality({u \in Threads \ {t} : f[u] = s}) + One(f, t, s)
<1> DEFINE A == {u \in Threads : f[u] = s}
           B == {u \in Threads \ {t} : f[u] = s}
<1>1. IsFiniteSet(A) /\ IsFiniteSet(B) /\ Cardinality(B) \in Nat /\ Cardinality(A) \in Nat
  BY EglAssumption, FS_Subset, FS_CardinalityType
<1>2. CASE f[t] = s
  <2>1. A = B \union {t} /\ t \notin B
    BY <1>2
  <2>2. Cardinality(A) = Cardinality(B) + 1
    BY <1>1, <2>1, FS_AddElement
  <2>3. QED
    BY <1>2, <2>2 DEF Bound, One
<1>3. CASE f[t] # s
  <2>1. A = B
    BY <1>3
  <2>2. QED
    BY <1>1, <1>3, <2>1 DEF Bound, One
<1>4. QED
  BY <1>2, <1>3

\* A thread that binds something else moves its own count alone.
LEMMA BoundMoves ==
    ASSUME NEW f, NEW g, NEW s, NEW t \in Threads,
           \A u \in Threads \ {t} : g[u] = f[u]
    PROVE  Bound(g, s) = Bound(f, s) - One(f, t, s) + One(g, t, s)
<1> DEFINE Rest(h) == Cardinality({u \in Threads \ {t} : h[u] = s})
<1>1. {u \in Threads \ {t} : f[u] = s} = {u \in Threads \ {t} : g[u] = s}
  OBVIOUS
<1>2. Rest(f) = Rest(g)
  BY <1>1
<1>3. Rest(f) \in Nat
  BY EglAssumption, FS_Subset, FS_CardinalityType
<1>4. Bound(f, s) = Rest(f) + One(f, t, s) /\ Bound(g, s) = Rest(g) + One(g, t, s)
  BY BoundWithout
<1>5. One(f, t, s) \in {0, 1} /\ One(g, t, s) \in {0, 1}
  BY DEF One
<1> HIDE DEF Rest
<1>6. QED
  BY <1>2, <1>3, <1>4, <1>5

LEMMA BoundAtLeastOne ==
    ASSUME NEW f, NEW s, NEW t \in Threads, f[t] = s PROVE Bound(f, s) \in Nat /\ Bound(f, s) > 0
<1>1. Bound(f, s) = Cardinality({u \in Threads \ {t} : f[u] = s}) + 1
  BY BoundWithout DEF One
<1>2. Cardinality({u \in Threads \ {t} : f[u] = s}) \in Nat
  BY EglAssumption, FS_Subset, FS_CardinalityType
<1>3. QED
  BY <1>1, <1>2

\* Dropping what a thread has bound never meets a count of zero.
LEMMA DropExact ==
    ASSUME IInv, NEW t \in Threads, NEW s \in surfaces
    PROVE  /\ DropBindings(t) \in [Surfaces -> Nat]
           /\ DropBindings(t)[s] = bindings[s] - One(tlsDraw, t, s) - One(tlsRead, t, s)
           /\ DropBindings(t)[s] \in Nat
<1>1. s \in Surfaces /\ bindings \in [Surfaces -> Nat]
      /\ tlsDraw[t] \in Surfaces \union {None} /\ tlsRead[t] \in Surfaces \union {None}
  BY DEF IInv, TypeOK
<1>2. bindings[s] = Bound(tlsDraw, s) + Bound(tlsRead, s)
  BY DEF IInv, BindingsCounted
<1>3. Bound(tlsDraw, s) \in Nat /\ Bound(tlsRead, s) \in Nat
  BY BoundFinite
<1>4. tlsDraw[t] = s => Bound(tlsDraw, s) > 0
  BY BoundAtLeastOne
<1>5. tlsRead[t] = s => Bound(tlsRead, s) > 0
  BY BoundAtLeastOne
<1> DEFINE d == Drop(bindings, tlsDraw[t])
<1>6. d \in [Surfaces -> Nat] /\ d[s] = bindings[s] - One(tlsDraw, t, s)
  <2>1. CASE tlsDraw[t] = s
    BY <1>1, <1>2, <1>3, <1>4, <2>1, EglAssumption DEF Drop, One
  <2>2. CASE tlsDraw[t] # s
    BY <1>1, <2>2 DEF Drop, One
  <2>3. QED
    BY <2>1, <2>2
<1>7. tlsRead[t] = s => d[s] > 0
  BY <1>1, <1>2, <1>3, <1>4, <1>5, <1>6 DEF One
<1> HIDE DEF d
<1>8. /\ Drop(d, tlsRead[t]) \in [Surfaces -> Nat]
      /\ Drop(d, tlsRead[t])[s] = d[s] - One(tlsRead, t, s)
  <2>1. CASE tlsRead[t] = s
    BY <1>1, <1>6, <1>7, <2>1, EglAssumption DEF Drop, One
  <2>2. CASE tlsRead[t] # s
    BY <1>1, <1>6, <2>2 DEF Drop, One
  <2>3. QED
    BY <2>1, <2>2
<1>9. QED
  BY <1>1, <1>6, <1>8 DEF DropBindings, d

\* The counts stay numbers for the addresses that are not in use, too.
LEMMA DropType ==
    ASSUME TypeOK, NEW t \in Threads PROVE DropBindings(t) \in [Surfaces -> Nat]
<1>1. ASSUME NEW f \in [Surfaces -> Nat], NEW s \in Surfaces \union {None}
      PROVE  Drop(f, s) \in [Surfaces -> Nat]
  <2>1. CASE s \in Surfaces /\ f[s] > 0
    <3>1. f[s] - 1 \in Nat
      BY <2>1
    <3>2. QED
      BY <2>1, <3>1 DEF Drop
  <2>2. CASE ~(s \in Surfaces /\ f[s] > 0)
    BY <2>2 DEF Drop
  <2>3. QED
    BY <2>1, <2>2
<1>2. QED
  BY <1>1 DEF TypeOK, DropBindings

-----------------------------------------------------------------------------
(* What the checks of the calls find out.                                  *)

\* A surface with a count of zero is bound nowhere.
LEMMA UnboundSurface ==
    ASSUME IInv, NEW s \in surfaces, bindings[s] = 0
    PROVE  /\ Bound(tlsDraw, s) = 0 /\ Bound(tlsRead, s) = 0
           /\ \A u \in Threads : tlsDraw[u] # s /\ tlsRead[u] # s
<1>1. Bound(tlsDraw, s) + Bound(tlsRead, s) = 0
  BY DEF IInv, BindingsCounted
<1>2. Bound(tlsDraw, s) \in Nat /\ Bound(tlsRead, s) \in Nat
  BY BoundFinite
<1>3. Bound(tlsDraw, s) = 0 /\ Bound(tlsRead, s) = 0
  BY <1>1, <1>2
<1>4. QED
  BY <1>3, BoundAtLeastOne

\* A display without owners but the caller has nobody else bound.
LEMMA TerminatorAlone ==
    ASSUME IInv, NEW t \in Threads, OthersUnbound(t), NEW u \in Threads \ {t}
    PROVE  tlsContext[u] = None
<1> SUFFICES ASSUME tlsContext[u] # None PROVE FALSE
  OBVIOUS
<1>1. /\ tlsContext[u] \in contexts /\ tlsContext[u] \in Contexts
      /\ owner[tlsContext[u]] = u
      /\ tlsContext[u] # tlsContext[t]
  BY DEF IInv, BindingsAlive, TypeOK
<1>2. Disown(t, None)[tlsContext[u]] = NoThread
  BY <1>1 DEF OthersUnbound
<1>3. QED
  BY <1>1, <1>2, EglAssumption DEF Disown

-----------------------------------------------------------------------------

LEMMA InvInitially == Init => IInv
<1> SUFFICES ASSUME Init PROVE IInv
  OBVIOUS
<1>1. TypeOK
  BY DEF Init, TypeOK, Calls
<1>2. TogetherInv /\ WindowInv /\ PresentSafe
  BY DEF Init, TogetherInv, WindowInv, PresentSafe
<1>3. BindingsAlive /\ BindingsCounted
  BY DEF Init, BindingsAlive, BindingsCounted
<1>4. QED
  BY <1>1, <1>2, <1>3 DEF IInv

\* What releasing the binding of t keeps, before anything else changes.
LEMMA ReleaseStep ==
    ASSUME IInv, NEW t \in Threads, pc[t] # "swap", Release(t)
    PROVE  /\ owner' \in [Contexts -> Threads \union {NoThread}]
           /\ bindings' \in [Surfaces -> Nat]
           /\ tlsContext' \in [Threads -> Contexts \union {None}]
           /\ tlsDraw' \in [Threads -> Surfaces \union {None}]
           /\ tlsRead' \in [Threads -> Surfaces \union {None}]
           /\ current' \in [Threads -> Contexts \union {Root, None}]
           /\ lost' \in [Threads -> BOOLEAN]
           /\ TogetherInv'
           /\ \A u \in Threads \ {t} :
                 /\ tlsContext'[u] = tlsContext[u]
                 /\ current'[u] = current[u]
                 /\ tlsContext[u] # None => owner'[tlsContext[u]] = owner[tlsContext[u]]
           /\ contexts' = contexts /\ surfaces' = surfaces => BindingsAlive' /\ BindingsCounted'
<1>1. TypeOK /\ TogetherInv /\ BindingsAlive /\ BindingsCounted
  BY DEF IInv
<1>2. /\ current' = [current EXCEPT ![t] = None] /\ lost' = [lost EXCEPT ![t] = FALSE]
      /\ bindings' = DropBindings(t) /\ owner' = Disown(t, None)
      /\ tlsContext' = [tlsContext EXCEPT ![t] = None]
      /\ tlsDraw' = [tlsDraw EXCEPT ![t] = None]
      /\ tlsRead' = [tlsRead EXCEPT ![t] = None]
  BY DEF Release, Switched
<1>3. /\ owner' \in [Contexts -> Threads \union {NoThread}]
      /\ \A c \in Contexts : owner'[c] = IF c = tlsContext[t] THEN NoThread ELSE owner[c]
  BY <1>1, <1>2, EglAssumption DEF TypeOK, Disown
<1>4. bindings' \in [Surfaces -> Nat]
  BY <1>1, <1>2, DropType
<1>5. TogetherInv'
  BY <1>1, <1>2 DEF TypeOK, TogetherInv
<1>6. \A u \in Threads \ {t} :
         /\ tlsContext'[u] = tlsContext[u]
         /\ current'[u] = current[u]
         /\ tlsContext[u] # None => owner'[tlsContext[u]] = owner[tlsContext[u]]
  <2>1. \A u \in Threads \ {t} : tlsContext[u] # None => tlsContext[u] # tlsContext[t]
    BY <1>1 DEF BindingsAlive
  <2>2. QED
    BY <1>1, <1>2, <1>3, <2>1 DEF TypeOK
<1>7. ASSUME contexts' = contexts, surfaces' = surfaces PROVE BindingsAlive'
  <2>1. ASSUME NEW u \in Threads, tlsContext'[u] # None
        PROVE  /\ tlsContext'[u] \in contexts'
               /\ owner'[tlsContext'[u]] = u
               /\ {tlsDraw'[u], tlsRead'[u]} \subseteq surfaces'
    <3>1. u # t
      BY <1>1, <1>2, <2>1 DEF TypeOK
    <3>2. tlsDraw'[u] = tlsDraw[u] /\ tlsRead'[u] = tlsRead[u]
      BY <1>1, <1>2, <3>1 DEF TypeOK
    <3>3. QED
      BY <1>1, <1>6, <1>7, <2>1, <3>1, <3>2 DEF BindingsAlive
  <2>2. ASSUME NEW c \in contexts', owner'[c] # NoThread PROVE tlsContext'[owner'[c]] = c
    <3>1. c \in Contexts /\ c # tlsContext[t] /\ owner'[c] = owner[c]
      BY <1>1, <1>3, <1>7, <2>2 DEF TypeOK
    <3>2. tlsContext[owner[c]] = c
      BY <1>1, <1>7, <2>2, <3>1 DEF BindingsAlive
    <3>3. owner[c] \in Threads
      BY <1>1, <2>2, <3>1 DEF TypeOK
    <3>4. QED
      BY <1>6, <3>1, <3>2, <3>3
  <2>3. QED
    BY <2>1, <2>2 DEF BindingsAlive
<1>8. ASSUME surfaces' = surfaces PROVE BindingsCounted'
  <2> SUFFICES ASSUME NEW s \in surfaces PROVE bindings'[s] = Bound(tlsDraw', s) + Bound(tlsRead', s)
    BY <1>8 DEF BindingsCounted, Bound
  <2>1. bindings'[s] = bindings[s] - One(tlsDraw, t, s) - One(tlsRead, t, s)
    BY <1>2, DropExact
  <2>2. s \in Surfaces /\ s # None
    BY <1>1, EglAssumption DEF TypeOK
  <2>3. \A u \in Threads \ {t} : tlsDraw'[u] = tlsDraw[u] /\ tlsRead'[u] = tlsRead[u]
    BY <1>1, <1>2 DEF TypeOK
  <2>4. One(tlsDraw', t, s) = 0 /\ One(tlsRead', t, s) = 0
    BY <1>1, <1>2, <2>2 DEF TypeOK, One
  <2>5. Bound(tlsDraw', s) = Bound(tlsDraw, s) - One(tlsDraw, t, s) + 0
    BY <2>3, <2>4, BoundMoves
  <2>6. Bound(tlsRead', s) = Bound(tlsRead, s) - One(tlsRead, t, s) + 0
    BY <2>3, <2>4, BoundMoves
  <2>7. bindings[s] = Bound(tlsDraw, s) + Bound(tlsRead, s)
    BY <1>1 DEF BindingsCounted
  <2>8. /\ Bound(tlsDraw, s) \in Nat /\ Bound(tlsRead, s) \in Nat
        /\ One(tlsDraw, t, s) \in Nat /\ One(tlsRead, t, s) \in Nat
    BY BoundFinite DEF One
  <2>9. QED
    BY <2>1, <2>5, <2>6, <2>7, <2>8
<1>9. QED
  BY <1>1, <1>2, <1>3, <1>4, <1>5, <1>6, <1>7, <1>8 DEF TypeOK

-----------------------------------------------------------------------------

\* Who presents keeps what the frame needs, as long as the others leave its
\* binding alone.
LEMMA PresentKept ==
    ASSUME IInv, NEW t \in Threads, pc[t] # "swap", pc'[t] # "swap", window' = window,
           \A u \in Threads \ {t} :
              /\ pc'[u] = pc[u]
              /\ tlsContext'[u] = tlsContext[u]
              /\ current'[u] = current[u]
              /\ tlsContext[u] # None => /\ tlsContext[u] \in contexts'
                                         /\ owner'[tlsContext[u]] = owner[tlsContext[u]]
    PROVE  PresentSafe'
<1>1. ASSUME NEW u \in Threads, pc'[u] = "swap"
      PROVE  /\ window' = "open"
             /\ tlsContext'[u] \in contexts'
             /\ owner'[tlsContext'[u]] = u
             /\ current'[u] = tlsContext'[u]
  <2>1. u # t /\ pc[u] = "swap"
    BY <1>1
  <2>2. window = "open" /\ tlsContext[u] \in contexts /\ owner[tlsContext[u]] = u
        /\ current[u] = tlsContext[u]
    BY <2>1 DEF IInv, PresentSafe
  <2>3. tlsContext[u] # None
    BY <2>2, EglAssumption DEF IInv, TypeOK
  <2>4. QED
    BY <2>1, <2>2, <2>3
<1>2. QED
  BY <1>1 DEF PresentSafe

LEMMA InvStep == IInv /\ [Next]_vars => IInv'
<1> SUFFICES ASSUME IInv, [Next]_vars PROVE IInv'
  OBVIOUS
<1> USE EglAssumption
<1>0. TypeOK /\ TogetherInv /\ WindowInv /\ BindingsAlive /\ BindingsCounted /\ PresentSafe
  BY DEF IInv
<1>1. CASE UNCHANGED vars
  <2>1. TypeOK' /\ TogetherInv' /\ WindowInv' /\ PresentSafe'
    BY <1>0, <1>1 DEF vars, display, objects, tls, host, TypeOK, TogetherInv, WindowInv, PresentSafe
  <2>2. BindingsAlive' /\ BindingsCounted'
    BY <1>0, <1>1 DEF vars, objects, tls, BindingsAlive, BindingsCounted, Bound
  <2>3. QED
    BY <2>1, <2>2 DEF IInv
\* Steps that only move a thread along, or the display.
<1>2. ASSUME NEW t \in Threads,
             \/ Initialize(t) \/ CloseReturns(t) \/ (\E call \in Calls : Enter(t, call))
             \/ GiveUp(t) \/ (\E s \in Surfaces : SwapAllowed(t, s)) \/ Present(t)
      PROVE  IInv'
  <2>1. UNCHANGED <<objects, ready, tls, host>>
    BY <1>2 DEF Initialize, CloseReturns, Enter, GiveUp, SwapAllowed, Present
  <2>2. TogetherInv' /\ BindingsAlive' /\ BindingsCounted'
    BY <1>0, <2>1 DEF objects, tls, TogetherInv, BindingsAlive, BindingsCounted, Bound
  <2>3. /\ window' \in {"open", "closing", "closed"} /\ initialized' \in BOOLEAN
        /\ pc' \in [Threads -> Calls \union {"idle", "swap", "close"}]
    <3>1. window' \in {"open", "closing", "closed"} /\ initialized' \in BOOLEAN
      BY <1>0, <1>2 DEF Initialize, CloseReturns, Enter, GiveUp, SwapAllowed, Present, TypeOK, display
    <3>2. \/ pc' = pc
          \/ \E l \in Calls \union {"idle", "swap"} : pc' = [pc EXCEPT ![t] = l]
      BY <1>2 DEF Initialize, CloseReturns, Enter, GiveUp, SwapAllowed, Present, Goto
    <3>3. QED
      BY <1>0, <3>1, <3>2 DEF TypeOK
  <2>4. TypeOK'
    BY <1>0, <2>1, <2>3 DEF TypeOK, objects, tls, host
  <2>5. \A u \in Threads \ {t} : pc'[u] = pc[u]
    BY <1>0, <1>2 DEF Initialize, CloseReturns, Enter, GiveUp, SwapAllowed, Present, Goto, TypeOK
  <2>6. CASE CloseReturns(t)
    <3>1. pc[t] = "close" /\ window = "closing" /\ pc'[t] = "idle" /\ contexts' = {}
      BY <1>0, <2>1, <2>6 DEF CloseReturns, Goto, TypeOK, WindowInv, objects
    <3>2. \A u \in Threads : pc'[u] \notin {"swap", "close"}
      BY <1>0, <2>5, <3>1 DEF WindowInv, PresentSafe
    <3>3. QED
      BY <2>2, <2>4, <3>1, <3>2 DEF IInv, WindowInv, PresentSafe
  <2>7. CASE ~CloseReturns(t)
    <3>1. window' = window /\ (pc'[t] = pc[t] \/ pc'[t] \in Calls \union {"idle", "swap"})
      BY <1>0, <1>2, <2>7 DEF Initialize, Enter, GiveUp, SwapAllowed, Present, Goto, TypeOK, display
    <3>2. WindowInv'
      BY <1>0, <2>1, <2>5, <3>1 DEF WindowInv, Calls, objects
    <3>3. pc'[t] = "swap" => \/ pc[t] = "swap"
                             \/ /\ tlsContext[t] \in contexts
                                /\ owner[tlsContext[t]] = t
                                /\ current[t] = tlsContext[t]
      BY <1>0, <1>2, <2>7 DEF Initialize, Enter, GiveUp, SwapAllowed, Present, Goto, TypeOK, Calls
    <3>4. PresentSafe'
      BY <1>0, <2>1, <2>5, <3>1, <3>3 DEF PresentSafe, WindowInv, objects, tls, host
    <3>5. QED
      BY <2>2, <2>4, <3>2, <3>4 DEF IInv
  <2>8. QED
    BY <2>6, <2>7
\* The thread gives its own binding up and nothing else happens.
<1>3. ASSUME NEW t \in Threads, TerminateRefused(t) \/ Unbind(t) PROVE IInv'
  <2>1. /\ pc[t] # "swap" /\ Release(t)
        /\ contexts' = contexts /\ surfaces' = surfaces
        /\ UNCHANGED <<window, initialized, ready, pc>>
    BY <1>3 DEF TerminateRefused, Unbind, MayCall, display
  <2>2. TypeOK' /\ TogetherInv' /\ BindingsAlive' /\ BindingsCounted'
    BY <1>0, <2>1, ReleaseStep DEF TypeOK
  <2>3. WindowInv'
    BY <1>0, <2>1 DEF WindowInv
  <2>4. \A u \in Threads : tlsContext[u] # None => tlsContext[u] \in contexts'
    BY <1>0, <2>1 DEF BindingsAlive
  <2>5. PresentSafe'
    BY <1>0, <2>1, <2>4, ReleaseStep, PresentKept
  <2>6. QED
    BY <2>2, <2>3, <2>5 DEF IInv
<1>4. ASSUME NEW t \in Threads, Terminate(t) PROVE IInv'
  <2>1. /\ pc[t] = "idle" /\ window = "open" /\ OthersUnbound(t)
        /\ contexts' = {} /\ surfaces' = {} /\ initialized' = FALSE /\ window' = "closing"
        /\ pc' = [pc EXCEPT ![t] = "close"] /\ ready' = ready
    BY <1>4 DEF Terminate, Goto
  <2>2. ASSUME NEW u \in Threads \ {t} PROVE tlsContext[u] = None
    BY <2>1, TerminatorAlone
  <2>3. /\ tlsContext'[t] = None /\ TogetherInv'
        /\ \A u \in Threads \ {t} : tlsContext'[u] = tlsContext[u]
        /\ owner' \in [Contexts -> Threads \union {NoThread}]
        /\ bindings' \in [Surfaces -> Nat]
        /\ tlsContext' \in [Threads -> Contexts \union {None}]
        /\ tlsDraw' \in [Threads -> Surfaces \union {None}]
        /\ tlsRead' \in [Threads -> Surfaces \union {None}]
        /\ current' \in [Threads -> Contexts \union {Root, None}]
        /\ lost' \in [Threads -> BOOLEAN]
    <3>1. CASE tlsContext[t] # None
      <4>1. Release(t) /\ pc[t] # "swap"
        BY <1>4, <2>1, <3>1 DEF Terminate
      <4>2. tlsContext'[t] = None
        BY <1>0, <4>1 DEF Release, TypeOK
      <4>3. QED
        BY <4>1, <4>2, ReleaseStep
    <3>2. CASE tlsContext[t] = None
      <4>1. /\ current' = [current EXCEPT ![t] = IF @ \in contexts THEN None ELSE @]
            /\ lost' = lost /\ owner' = owner /\ bindings' = bindings
            /\ tlsContext' = tlsContext /\ tlsDraw' = tlsDraw /\ tlsRead' = tlsRead
        BY <1>4, <3>2 DEF Terminate, Deleted, tls
      <4>2. TogetherInv'
        BY <1>0, <4>1 DEF TogetherInv
      <4>3. QED
        BY <1>0, <3>2, <4>1, <4>2 DEF TypeOK
    <3>3. QED
      BY <3>1, <3>2
  <2>4. BindingsAlive' /\ BindingsCounted'
    BY <2>1, <2>2, <2>3 DEF BindingsAlive, BindingsCounted
  <2>5. TypeOK'
    BY <1>0, <2>1, <2>3 DEF TypeOK
  <2>6. WindowInv'
    BY <1>0, <2>1 DEF TypeOK, WindowInv
  <2>7. PresentSafe'
    <3>1. \A u \in Threads : pc'[u] # "swap"
      BY <1>0, <2>1, <2>2 DEF TypeOK, PresentSafe
    <3>2. QED
      BY <3>1 DEF PresentSafe
  <2>8. QED
    BY <2>3, <2>4, <2>5, <2>6, <2>7 DEF IInv
<1>5. ASSUME NEW t \in Threads, NEW s \in Surfaces, CreateSurface(t, s) PROVE IInv'
  <2>1. /\ pc[t] = "createSurface" /\ pc' = [pc EXCEPT ![t] = "idle"]
        /\ s \notin surfaces /\ surfaces' = surfaces \union {s}
        /\ bindings' = [bindings EXCEPT ![s] = 0]
        /\ UNCHANGED <<window, initialized, contexts, owner, ready, tlsContext, tlsDraw, tlsRead, current, lost>>
    BY <1>5 DEF CreateSurface, Goto, display, tls, host
  <2>2. TypeOK' /\ TogetherInv' /\ WindowInv' /\ BindingsAlive' /\ PresentSafe'
    BY <1>0, <2>1 DEF TypeOK, TogetherInv, WindowInv, BindingsAlive, PresentSafe
  <2>3. \A u \in Threads : tlsDraw[u] # s /\ tlsRead[u] # s
    BY <1>0, <2>1 DEF TogetherInv, BindingsAlive
  <2>4. Bound(tlsDraw, s) = 0 /\ Bound(tlsRead, s) = 0
    BY <2>3, FS_EmptySet DEF Bound
  <2>5. BindingsCounted'
    <3>1. ASSUME NEW x \in surfaces'
          PROVE  bindings'[x] = Bound(tlsDraw, x) + Bound(tlsRead, x)
      BY <1>0, <2>1, <2>4 DEF TypeOK, BindingsCounted
    <3>2. QED
      BY <2>1, <3>1 DEF BindingsCounted, Bound
  <2>6. QED
    BY <2>2, <2>5 DEF IInv
<1>6. ASSUME NEW t \in Threads, NEW s \in Surfaces, DestroySurface(t, s) PROVE IInv'
  <2>1. /\ pc[t] = "destroySurface" /\ pc' = [pc EXCEPT ![t] = "idle"]
        /\ s \in surfaces /\ surfaces' = surfaces \ {s} /\ bindings[s] = 0
        /\ UNCHANGED <<window, initialized, contexts, owner, bindings, ready, tlsContext, tlsDraw, tlsRead, current, lost>>
    BY <1>6 DEF DestroySurface, Goto, display, tls, host
  <2>2. TypeOK' /\ TogetherInv' /\ WindowInv' /\ PresentSafe'
    BY <1>0, <2>1 DEF TypeOK, TogetherInv, WindowInv, PresentSafe
  <2>4. \A u \in Threads : tlsDraw[u] # s /\ tlsRead[u] # s
    BY <2>1, UnboundSurface
  <2>5. BindingsAlive'
    BY <1>0, <2>1, <2>4 DEF BindingsAlive
  <2>6. BindingsCounted'
    BY <1>0, <2>1 DEF BindingsCounted, Bound
  <2>7. QED
    BY <2>2, <2>5, <2>6 DEF IInv
<1>7. ASSUME NEW t \in Threads, NEW c \in Contexts, CreateContext(t, c) PROVE IInv'
  <2>1. /\ pc[t] = "createContext" /\ pc' = [pc EXCEPT ![t] = "idle"] /\ window = "open"
        /\ c \notin contexts /\ contexts' = contexts \union {c}
        /\ owner' = [owner EXCEPT ![c] = NoThread]
        /\ UNCHANGED <<window, initialized, surfaces, bindings, ready, tlsContext, tlsDraw, tlsRead, current, lost>>
    BY <1>7 DEF CreateContext, Goto, display, tls, host
  <2>2. TypeOK' /\ TogetherInv' /\ WindowInv' /\ PresentSafe'
    BY <1>0, <2>1 DEF TypeOK, TogetherInv, WindowInv, PresentSafe
  <2>3. BindingsAlive' /\ BindingsCounted'
    BY <1>0, <2>1 DEF TypeOK, BindingsAlive, BindingsCounted, Bound
  <2>4. QED
    BY <2>2, <2>3 DEF IInv
<1>8. ASSUME NEW t \in Threads, NEW c \in Contexts, DestroyContext(t, c) PROVE IInv'
  <2>1. /\ pc[t] = "destroyContext" /\ pc' = [pc EXCEPT ![t] = "idle"]
        /\ c \in contexts /\ owner[c] = NoThread /\ contexts' = contexts \ {c}
        /\ current' = [current EXCEPT ![t] = IF @ \in {c} THEN None ELSE @]
        /\ UNCHANGED <<window, initialized, owner, surfaces, bindings, ready, tlsContext, tlsDraw, tlsRead, lost>>
    BY <1>8 DEF DestroyContext, Deleted, Goto, display, tls
  <2>2. TypeOK' /\ TogetherInv' /\ WindowInv'
    BY <1>0, <2>1 DEF TypeOK, TogetherInv, WindowInv
  <2>3. \A u \in Threads : tlsContext[u] # c
    BY <1>0, <2>1 DEF TypeOK, BindingsAlive
  <2>4. BindingsAlive' /\ BindingsCounted'
    BY <1>0, <2>1, <2>3 DEF BindingsAlive, BindingsCounted, Bound
  <2>5. PresentSafe'
    BY <1>0, <2>1, <2>3 DEF TypeOK, PresentSafe
  <2>6. QED
    BY <2>2, <2>4, <2>5 DEF IInv
\* The host's side alone changes.
<1>9. ASSUME NEW t \in Threads,
             \/ CreateContextStranded(t)
             \/ \E c \in Contexts, d, r \in Surfaces : MakeCurrentUnproven(t, c, d, r)
      PROVE  IInv'
  <2>1. /\ pc[t] \in {"createContext", "idle"} /\ pc' = [pc EXCEPT ![t] = "idle"]
        /\ UNCHANGED <<window, initialized, contexts, owner, surfaces, bindings, tlsContext, tlsDraw, tlsRead>>
    BY <1>0, <1>9 DEF CreateContextStranded, MakeCurrentUnproven, Bindable, MayCall, Goto, TypeOK,
                      display, objects, tls
  <2>2. /\ \E x \in Contexts \union {Root, None} : current' = [current EXCEPT ![t] = x]
        /\ lost' \in [Threads -> BOOLEAN] /\ ready' \in {"untried", "ok", "failed"}
    <3>1. /\ lost \in [Threads -> BOOLEAN] /\ ready \in {"untried", "ok", "failed"}
          /\ tlsContext[t] \in Contexts \union {None}
      BY <1>0 DEF TypeOK
    <3>2. CASE CreateContextStranded(t)
      BY <3>1, <3>2 DEF CreateContextStranded, LeftBehind
    <3>3. CASE \E c \in Contexts, d, r \in Surfaces : MakeCurrentUnproven(t, c, d, r)
      <4>1. PICK c \in Contexts : \E d, r \in Surfaces : MakeCurrentUnproven(t, c, d, r)
        BY <3>3
      <4>2. ready' \in {"untried", "ok", "failed"}
        BY <3>1, <4>1 DEF MakeCurrentUnproven, Publish
      <4>3. \/ current' = [current EXCEPT ![t] = tlsContext[t]] /\ lost' = lost
            \/ current' = [current EXCEPT ![t] = c] /\ lost' = [lost EXCEPT ![t] = TRUE]
        BY <4>1 DEF MakeCurrentUnproven, LeftBehind
      <4>4. QED
        BY <3>1, <4>2, <4>3
    <3>4. QED
      BY <1>9, <3>2, <3>3
  <2>3. TypeOK' /\ TogetherInv' /\ WindowInv'
    <3>1. current' \in [Threads -> Contexts \union {Root, None}]
      BY <1>0, <2>2 DEF TypeOK
    <3>2. pc' \in [Threads -> Calls \union {"idle", "swap", "close"}]
      BY <1>0, <2>1 DEF TypeOK
    <3>3. TypeOK'
      BY <1>0, <2>1, <2>2, <3>1, <3>2 DEF TypeOK
    <3>4. TogetherInv'
      BY <1>0, <2>1 DEF TogetherInv
    <3>5. WindowInv'
      BY <1>0, <2>1 DEF TypeOK, WindowInv
    <3>6. QED
      BY <3>3, <3>4, <3>5
  <2>4. BindingsAlive' /\ BindingsCounted'
    BY <1>0, <2>1 DEF BindingsAlive, BindingsCounted, Bound
  <2>5. PresentSafe'
    BY <1>0, <2>1, <2>2 DEF TypeOK, PresentSafe
  <2>6. QED
    BY <2>3, <2>4, <2>5 DEF IInv
<1>10. ASSUME NEW t \in Threads, NEW c \in Contexts, NEW d \in Surfaces, NEW r \in Surfaces,
              MakeCurrent(t, c, d, r)
       PROVE  IInv'
  <2>1. /\ pc[t] = "idle" /\ c \in contexts /\ d \in surfaces /\ r \in surfaces
        /\ owner[c] \in {NoThread, t}
        /\ ready' \in {"untried", "ok", "failed"}
        /\ current' = [current EXCEPT ![t] = c] /\ lost' = [lost EXCEPT ![t] = FALSE]
        /\ tlsContext' = [tlsContext EXCEPT ![t] = c]
        /\ tlsDraw' = [tlsDraw EXCEPT ![t] = d]
        /\ tlsRead' = [tlsRead EXCEPT ![t] = r]
        /\ owner' = [Disown(t, c) EXCEPT ![c] = t]
        /\ UNCHANGED <<window, initialized, contexts, surfaces, pc>>
    BY <1>0, <1>10 DEF MakeCurrent, Bindable, MayCall, Publish, Switched, TypeOK, display
  <2>2. bindings' = [s \in Surfaces |-> DropBindings(t)[s] + (IF s = d THEN 1 ELSE 0)
                                                          + (IF s = r THEN 1 ELSE 0)]
    BY <1>10 DEF MakeCurrent
  <2>3. bindings' \in [Surfaces -> Nat]
    BY <1>0, <2>2, DropType
  <2>4. /\ owner' \in [Contexts -> Threads \union {NoThread}]
        /\ owner'[c] = t
        /\ \A x \in Contexts \ {c} : owner'[x] = IF x = tlsContext[t] THEN NoThread ELSE owner[x]
    BY <1>0, <2>1 DEF TypeOK, Disown
  <2>5. \A u \in Threads \ {t} : /\ tlsContext'[u] = tlsContext[u] /\ current'[u] = current[u]
                                 /\ tlsDraw'[u] = tlsDraw[u] /\ tlsRead'[u] = tlsRead[u]
    BY <1>0, <2>1 DEF TypeOK
  <2>6. /\ tlsContext'[t] = c /\ tlsDraw'[t] = d /\ tlsRead'[t] = r
    BY <1>0, <2>1 DEF TypeOK
  <2>7. TypeOK'
    BY <1>0, <2>1, <2>3, <2>4 DEF TypeOK
  <2>8. TogetherInv' /\ WindowInv'
    BY <1>0, <2>1, <2>5, <2>6 DEF TypeOK, TogetherInv, WindowInv
  <2>9. ASSUME NEW u \in Threads \ {t}, tlsContext[u] # None
        PROVE  tlsContext[u] \in contexts' /\ owner'[tlsContext[u]] = owner[tlsContext[u]]
    <3>1. tlsContext[u] \in contexts /\ tlsContext[u] \in Contexts /\ owner[tlsContext[u]] = u
      BY <1>0, <2>9 DEF BindingsAlive, TypeOK
    <3>2. tlsContext[u] # c /\ tlsContext[u] # tlsContext[t]
      BY <1>0, <2>1, <3>1, <2>9 DEF BindingsAlive
    <3>3. QED
      BY <2>1, <2>4, <3>1, <3>2
  <2>10. BindingsAlive'
    <3>1. ASSUME NEW u \in Threads, tlsContext'[u] # None
          PROVE  /\ tlsContext'[u] \in contexts'
                 /\ owner'[tlsContext'[u]] = u
                 /\ {tlsDraw'[u], tlsRead'[u]} \subseteq surfaces'
      <4>1. CASE u = t
        BY <2>1, <2>4, <2>6, <4>1
      <4>2. CASE u # t
        BY <1>0, <2>1, <2>5, <2>9, <3>1, <4>2 DEF BindingsAlive
      <4>3. QED
        BY <4>1, <4>2
    <3>2. ASSUME NEW x \in contexts', owner'[x] # NoThread PROVE tlsContext'[owner'[x]] = x
      <4>1. CASE x = c
        BY <2>4, <2>6, <4>1
      <4>2. CASE x # c
        <5>1. x \in Contexts /\ x \in contexts /\ owner'[x] = owner[x] /\ x # tlsContext[t]
          BY <1>0, <2>1, <2>4, <3>2, <4>2 DEF TypeOK
        <5>2. owner[x] \in Threads /\ tlsContext[owner[x]] = x
          BY <1>0, <3>2, <5>1 DEF TypeOK, BindingsAlive
        <5>3. QED
          BY <2>5, <5>1, <5>2
      <4>3. QED
        BY <4>1, <4>2
    <3>3. QED
      BY <3>1, <3>2 DEF BindingsAlive
  <2>11. BindingsCounted'
    <3> SUFFICES ASSUME NEW s \in surfaces
                 PROVE  bindings'[s] = Bound(tlsDraw', s) + Bound(tlsRead', s)
      BY <2>1 DEF BindingsCounted, Bound
    <3>1. s \in Surfaces
      BY <1>0 DEF TypeOK
    <3>2. One(tlsDraw', t, s) = (IF s = d THEN 1 ELSE 0) /\ One(tlsRead', t, s) = (IF s = r THEN 1 ELSE 0)
      BY <2>6 DEF One
    <3>3. bindings'[s] = DropBindings(t)[s] + One(tlsDraw', t, s) + One(tlsRead', t, s)
      BY <2>2, <3>1, <3>2
    <3>4. DropBindings(t)[s] = bindings[s] - One(tlsDraw, t, s) - One(tlsRead, t, s)
      BY DropExact
    <3>5. Bound(tlsDraw', s) = Bound(tlsDraw, s) - One(tlsDraw, t, s) + One(tlsDraw', t, s)
      BY <2>5, BoundMoves
    <3>6. Bound(tlsRead', s) = Bound(tlsRead, s) - One(tlsRead, t, s) + One(tlsRead', t, s)
      BY <2>5, BoundMoves
    <3>7. bindings[s] = Bound(tlsDraw, s) + Bound(tlsRead, s)
      BY <1>0 DEF BindingsCounted
    <3>8. /\ Bound(tlsDraw, s) \in Nat /\ Bound(tlsRead, s) \in Nat
          /\ One(tlsDraw, t, s) \in Nat /\ One(tlsRead, t, s) \in Nat
          /\ One(tlsDraw', t, s) \in Nat /\ One(tlsRead', t, s) \in Nat
      BY BoundFinite DEF One
    <3>9. QED
      BY <3>3, <3>4, <3>5, <3>6, <3>7, <3>8
  <2>12. PresentSafe'
    <3>1. pc[t] # "swap" /\ pc'[t] # "swap"
      BY <2>1
    <3>2. QED
      BY <2>1, <2>5, <2>9, <3>1, PresentKept
  <2>13. QED
    BY <2>7, <2>8, <2>10, <2>11, <2>12 DEF IInv
<1>11. QED
  BY <1>1, <1>2, <1>3, <1>4, <1>5, <1>6, <1>7, <1>8, <1>9, <1>10 DEF Next

-----------------------------------------------------------------------------
(* SDL's side: what is current where.                                      *)

LEMMA HostInitially == Init => HostInv
  BY DEF Init, HostInv, HostAgrees, ApartInv

\* Nothing current, bound or lost changes.
LEMMA HostKept ==
    ASSUME HostInv, UNCHANGED <<tlsContext, current, lost, ready>> PROVE HostInv'
  BY DEF HostInv, HostAgrees, ApartInv

\* A thread may have x current when it is bound to x or lost, nobody else has
\* x current or is bound to it, and nobody else has current what t is bound to.
LEMMA HostMoves ==
    ASSUME TypeOK, HostInv, NEW t \in Threads, NEW x,
           current' = [current EXCEPT ![t] = x],
           \A u \in Threads \ {t} : tlsContext'[u] = tlsContext[u] /\ lost'[u] = lost[u],
           lost'[t] \/ x = tlsContext'[t],
           tlsContext'[t] # None => \A u \in Threads \ {t} : current[u] # tlsContext'[t],
           x # None => \A u \in Threads \ {t} : current[u] # x /\ tlsContext[u] # x,
           ready' = "ok" \/ \A u \in Threads : tlsContext'[u] = None
    PROVE  HostInv'
<1>1. current'[t] = x /\ \A u \in Threads \ {t} : current'[u] = current[u]
  BY DEF TypeOK
<1>2. \A u \in Threads : ~lost'[u] => current'[u] = tlsContext'[u]
  BY <1>1 DEF HostInv, HostAgrees
<1>3. \A u, v \in Threads : u # v /\ current'[u] = current'[v] => current'[u] = None
  BY <1>1 DEF HostInv, HostAgrees
<1>4. ApartInv'
  BY <1>1 DEF HostInv, ApartInv
<1>5. QED
  BY <1>2, <1>3, <1>4 DEF HostInv, HostAgrees

\* Nothing is current on the thread that let its binding go.
LEMMA HostReleased ==
    ASSUME TypeOK, HostInv, NEW t \in Threads, Release(t), ready' = ready PROVE HostInv'
<1>1. /\ current' = [current EXCEPT ![t] = None]
      /\ lost' = [lost EXCEPT ![t] = FALSE]
      /\ tlsContext' = [tlsContext EXCEPT ![t] = None]
  BY DEF Release, Switched
<1>2. /\ tlsContext'[t] = None
      /\ \A u \in Threads \ {t} : tlsContext'[u] = tlsContext[u] /\ lost'[u] = lost[u]
  BY <1>1 DEF TypeOK
<1>3. ready' = "ok" \/ \A u \in Threads : tlsContext'[u] = None
  BY <1>2 DEF HostInv, HostAgrees
<1>4. QED
  BY <1>1, <1>2, <1>3, HostMoves

LEMMA HostStep == IInv /\ HostInv /\ [Next]_vars => HostInv'
<1> SUFFICES ASSUME IInv, HostInv, [Next]_vars PROVE HostInv'
  OBVIOUS
<1>0. TypeOK /\ BindingsAlive
  BY DEF IInv
<1>1. CASE UNCHANGED vars
  BY <1>1, HostKept DEF vars, tls, host
\* The host is not asked.
<1>2. ASSUME NEW t \in Threads,
             \/ Initialize(t) \/ CloseReturns(t) \/ GiveUp(t) \/ Present(t)
             \/ \E call \in Calls : Enter(t, call)
             \/ \E s \in Surfaces : CreateSurface(t, s) \/ DestroySurface(t, s) \/ SwapAllowed(t, s)
             \/ \E c \in Contexts : CreateContext(t, c)
      PROVE  HostInv'
  <2>1. UNCHANGED <<tlsContext, current, lost, ready>>
    BY <1>2 DEF Initialize, CloseReturns, GiveUp, Present, Enter, CreateSurface, DestroySurface,
                SwapAllowed, CreateContext, tls, host
  <2>2. QED
    BY <2>1, HostKept
<1>3. ASSUME NEW t \in Threads, TerminateRefused(t) \/ Unbind(t) PROVE HostInv'
  <2>1. Release(t) /\ ready' = ready
    BY <1>3 DEF TerminateRefused, Unbind
  <2>2. QED
    BY <1>0, <2>1, HostReleased
\* SDL unbinds a context that is deleted; nobody is bound to it.
<1>4. ASSUME NEW t \in Threads, NEW gone, Deleted(t, gone), tlsContext[t] \notin gone,
             UNCHANGED <<tlsContext, ready>>
      PROVE  HostInv'
  <2>1. CASE current[t] \in gone
    <3>1. lost[t]
      BY <1>4, <2>1 DEF HostInv, HostAgrees
    <3>2. current' = [current EXCEPT ![t] = None] /\ lost' = lost
      BY <1>4, <2>1 DEF Deleted
    <3>3. tlsContext[t] # None => \A u \in Threads \ {t} : current[u] # tlsContext[t]
      BY DEF HostInv, ApartInv
    <3>4. ready' = "ok" \/ \A u \in Threads : tlsContext'[u] = None
      BY <1>4 DEF HostInv, HostAgrees
    <3>5. QED
      BY <1>0, <1>4, <3>1, <3>2, <3>3, <3>4, HostMoves
  <2>2. CASE current[t] \notin gone
    <3>1. current' = current /\ lost' = lost
      BY <1>0, <1>4, <2>2 DEF Deleted, TypeOK
    <3>2. QED
      BY <1>4, <3>1, HostKept
  <2>3. QED
    BY <2>1, <2>2
<1>5. ASSUME NEW t \in Threads, Terminate(t) PROVE HostInv'
  <2>1. CASE tlsContext[t] # None
    <3>1. Release(t) /\ ready' = ready
      BY <1>5, <2>1 DEF Terminate
    <3>2. QED
      BY <1>0, <3>1, HostReleased
  <2>2. CASE tlsContext[t] = None
    <3>1. Deleted(t, contexts) /\ UNCHANGED <<tlsContext, ready>>
      BY <1>5, <2>2 DEF Terminate, tls
    <3>2. tlsContext[t] \notin contexts
      BY <1>0, <2>2, EglAssumption DEF TypeOK
    <3>3. QED
      BY <1>4, <3>1, <3>2
  <2>3. QED
    BY <2>1, <2>2
<1>6. ASSUME NEW t \in Threads, NEW c \in Contexts, DestroyContext(t, c) PROVE HostInv'
  <2>1. c \in contexts /\ owner[c] = NoThread /\ Deleted(t, {c}) /\ UNCHANGED <<tlsContext, ready>>
    BY <1>6 DEF DestroyContext, tls
  <2>2. tlsContext[t] # c
    BY <1>0, <2>1, EglAssumption DEF TypeOK, BindingsAlive
  <2>3. QED
    BY <1>4, <2>1, <2>2
<1>7. ASSUME NEW t \in Threads, CreateContextStranded(t) PROVE HostInv'
  <2>1. PICK x \in {Root, None} : LeftBehind(t, x)
    BY <1>7 DEF CreateContextStranded
  <2>2. Free(t, Root) /\ UNCHANGED <<tlsContext, ready>>
    BY <1>7 DEF CreateContextStranded, tls
  <2>3. /\ current' = [current EXCEPT ![t] = x]
        /\ lost'[t] /\ \A u \in Threads \ {t} : lost'[u] = lost[u]
    BY <1>0, <2>1 DEF LeftBehind, TypeOK
  <2>4. x # None => \A u \in Threads \ {t} : current[u] # x /\ tlsContext[u] # x
    BY <1>0, <2>1, <2>2, EglAssumption DEF Free, TypeOK
  <2>5. tlsContext[t] # None => \A u \in Threads \ {t} : current[u] # tlsContext[t]
    BY DEF HostInv, ApartInv
  <2>6. ready' = "ok" \/ \A u \in Threads : tlsContext'[u] = None
    BY <2>2 DEF HostInv, HostAgrees
  <2>7. QED
    BY <1>0, <2>2, <2>3, <2>4, <2>5, <2>6, HostMoves
\* A context that t may bind is nobody else's.
<1>8. ASSUME NEW t \in Threads, NEW c \in Contexts, NEW d, NEW r, Bindable(t, c, d, r)
      PROVE  c # None /\ \A u \in Threads \ {t} : current[u] # c /\ tlsContext[u] # c
  <2>1. c \in contexts /\ owner[c] \in {NoThread, t} /\ Free(t, c)
    BY <1>8 DEF Bindable
  <2>2. ASSUME NEW u \in Threads \ {t} PROVE tlsContext[u] # c
    BY <1>0, <2>1, EglAssumption DEF BindingsAlive
  <2>3. QED
    BY <2>1, <2>2, EglAssumption DEF Free
<1>9. ASSUME NEW t \in Threads, NEW c \in Contexts, NEW d \in Surfaces, NEW r \in Surfaces,
             MakeCurrent(t, c, d, r)
      PROVE  HostInv'
  <2>1. /\ Bindable(t, c, d, r) /\ ready' = "ok"
        /\ current' = [current EXCEPT ![t] = c]
        /\ lost' = [lost EXCEPT ![t] = FALSE]
        /\ tlsContext' = [tlsContext EXCEPT ![t] = c]
    BY <1>9 DEF MakeCurrent, Answers, Publish, Switched
  <2>2. c # None /\ \A u \in Threads \ {t} : current[u] # c /\ tlsContext[u] # c
    BY <1>8, <2>1
  <2>3. /\ tlsContext'[t] = c
        /\ \A u \in Threads \ {t} : tlsContext'[u] = tlsContext[u] /\ lost'[u] = lost[u]
    BY <1>0, <2>1 DEF TypeOK
  <2>4. QED
    BY <1>0, <2>1, <2>2, <2>3, HostMoves
<1>10. ASSUME NEW t \in Threads, NEW c \in Contexts, NEW d \in Surfaces, NEW r \in Surfaces,
              MakeCurrentUnproven(t, c, d, r)
       PROVE  HostInv'
  <2>1. /\ Bindable(t, c, d, r) /\ Answers("failed") /\ Publish("failed")
        /\ tlsContext' = tlsContext
    BY <1>10 DEF MakeCurrentUnproven, tls
  \* The answer is latched: nobody was bound before it.
  <2>2. \A u \in Threads : tlsContext'[u] = None
    BY <2>1 DEF Answers, HostInv, HostAgrees
  <2>3. c # None /\ \A u \in Threads \ {t} : current[u] # c /\ tlsContext[u] # c
    BY <1>8, <2>1
  <2>4. CASE current' = [current EXCEPT ![t] = tlsContext[t]] /\ lost' = lost
    <3>1. current' = [current EXCEPT ![t] = None] /\ None = tlsContext'[t]
      BY <2>1, <2>2, <2>4
    <3>2. QED
      BY <1>0, <2>1, <2>2, <2>4, <3>1, HostMoves
  <2>5. CASE LeftBehind(t, c)
    <3>1. /\ current' = [current EXCEPT ![t] = c]
          /\ lost'[t] /\ \A u \in Threads \ {t} : lost'[u] = lost[u]
      BY <1>0, <2>5 DEF LeftBehind, TypeOK
    <3>2. QED
      BY <1>0, <2>1, <2>2, <2>3, <3>1, HostMoves
  <2>6. QED
    BY <1>10, <2>4, <2>5 DEF MakeCurrentUnproven
<1>11. QED
  BY <1>1, <1>2, <1>3, <1>5, <1>6, <1>7, <1>9, <1>10 DEF Next

-----------------------------------------------------------------------------
(* The theorems.                                                           *)

\* The invariant holds in every reachable state.
THEOREM Invariance == Spec => []IInv
  BY InvInitially, InvStep, PTL DEF Spec

\* Every thread's binding, every owner and every count keeps its type.
THEOREM TypeCorrect == Spec => []TypeOK
<1>1. IInv => TypeOK
  BY DEF IInv
<1>2. QED
  BY <1>1, Invariance, PTL

\* No thread is left with a destroyed context or surface, whatever the others
\* destroy or terminate and however handles are reused.
THEOREM NothingDangles == Spec => []BindingsAlive
<1>1. IInv => BindingsAlive
  BY DEF IInv
<1>2. QED
  BY <1>1, Invariance, PTL

\* The count that guards eglDestroySurface is exact.
THEOREM CountsExact == Spec => []BindingsCounted
<1>1. IInv => BindingsCounted
  BY DEF IInv
<1>2. QED
  BY <1>1, Invariance, PTL

\* Presenting without the mutex is safe: the owner of a current context keeps
\* eglTerminate and eglDestroyContext away.
THEOREM SwapIsSafe == Spec => []PresentSafe
<1>1. IInv => PresentSafe
  BY DEF IInv
<1>2. QED
  BY <1>1, Invariance, PTL

\* SDL has current on every thread what the shim believes, unless SDL itself
\* refused to restore it; no context is current on two threads; and a bound
\* thread has a published proof of the graphics behind it.
THEOREM HostInStep == Spec => []HostAgrees
<1>1. HostInv => HostAgrees
  BY DEF HostInv
<1>2. QED
  BY <1>1, HostInitially, HostStep, Invariance, PTL DEF Spec

-----------------------------------------------------------------------------
(* The bindings of EglApi.                                                 *)

Mapped == <<contexts, surfaces, Bindings, Drawing>>

\* Unbound is unbound altogether.
LEMMA UnboundIsNothing ==
    ASSUME IInv, NEW t \in Threads
    PROVE  Bindings[t] = Api!Nothing <=> tlsContext[t] = None
  BY DEF IInv, TogetherInv, Bindings, Api!Nothing, Api!Binding

\* One thread is bound to something else.
LEMMA OneRebinds ==
    ASSUME TypeOK, NEW t \in Threads, NEW c, NEW d, NEW r,
           tlsContext' = [tlsContext EXCEPT ![t] = c],
           tlsDraw' = [tlsDraw EXCEPT ![t] = d],
           tlsRead' = [tlsRead EXCEPT ![t] = r]
    PROVE  Bindings' = [Bindings EXCEPT ![t] = Api!Binding(c, d, r)]
<1>1. \A u \in Threads : /\ tlsContext'[u] = IF u = t THEN c ELSE tlsContext[u]
                         /\ tlsDraw'[u] = IF u = t THEN d ELSE tlsDraw[u]
                         /\ tlsRead'[u] = IF u = t THEN r ELSE tlsRead[u]
  BY DEF TypeOK
<1>2. QED
  BY <1>1 DEF Bindings, Api!Binding

\* A thread that goes on without presenting leaves Drawing alone.
LEMMA DrawingKept ==
    ASSUME TypeOK, NEW t \in Threads, NEW l, pc' = [pc EXCEPT ![t] = l],
           pc[t] # "swap", l # "swap"
    PROVE  Drawing' = Drawing
  BY DEF TypeOK, Drawing

\* However the calls of the threads interleave and whatever SDL refuses: one
\* thread per context, nothing bound is destroyed, and whoever presents is left
\* alone.
THEOREM ImplementsEgl == Spec => EglApiHolds
<1>1. Init => Api!Init
  BY DEF Init, Api!Init, Api!Nothing, Api!Binding, Bindings, Drawing
<1>2. IInv /\ [Next]_vars => [Api!Next]_Mapped
  <2> SUFFICES ASSUME IInv, [Next]_vars PROVE Api!Next \/ UNCHANGED Mapped
    OBVIOUS
  <2>0. TypeOK /\ TogetherInv /\ BindingsAlive /\ PresentSafe
    BY DEF IInv
  <2>1. CASE UNCHANGED vars
    BY <2>1 DEF vars, objects, tls, Mapped, Bindings, Drawing
  \* The display, what SDL has current and what a call does first.
  <2>2. ASSUME NEW t \in Threads,
               \/ Initialize(t) \/ CloseReturns(t) \/ GiveUp(t) \/ CreateContextStranded(t)
               \/ \E call \in Calls : Enter(t, call)
               \/ \E c \in Contexts, d, r \in Surfaces : MakeCurrentUnproven(t, c, d, r)
        PROVE  UNCHANGED Mapped
    <3>1. UNCHANGED <<objects, tls>>
      BY <2>2 DEF Initialize, CloseReturns, GiveUp, CreateContextStranded, Enter,
                  MakeCurrentUnproven
    <3>2. \/ pc' = pc
          \/ /\ pc[t] # "swap"
             /\ \E l \in Calls \union {"idle"} : pc' = [pc EXCEPT ![t] = l]
      BY <2>2 DEF Initialize, CloseReturns, GiveUp, CreateContextStranded, Enter,
                  MakeCurrentUnproven, Goto, Calls
    <3>3. Drawing' = Drawing
      BY <2>0, <3>2, DrawingKept DEF Calls, Drawing
    <3>4. QED
      BY <3>1, <3>3 DEF objects, tls, Mapped, Bindings
  <2>3. ASSUME NEW t \in Threads, TerminateRefused(t) \/ Unbind(t) PROVE Api!Next
    <3>1. Release(t) /\ pc[t] = "idle" /\ UNCHANGED <<contexts, surfaces, pc>>
      BY <2>3 DEF TerminateRefused, Unbind, MayCall
    <3>2. Bindings' = [Bindings EXCEPT ![t] = Api!Nothing]
      BY <2>0, <3>1, OneRebinds DEF Release, Api!Nothing
    <3>3. t \notin Drawing /\ Drawing' = Drawing
      BY <3>1 DEF Drawing
    <3>4. Api!Unbind(t)
      BY <3>1, <3>2, <3>3 DEF Api!Unbind
    <3>5. QED
      BY <3>4 DEF Api!Next
  <2>4. ASSUME NEW t \in Threads, Terminate(t) PROVE Api!Next
    <3>1. /\ OthersUnbound(t) /\ pc[t] = "idle" /\ pc' = [pc EXCEPT ![t] = "close"]
          /\ contexts' = {} /\ surfaces' = {}
      BY <2>4 DEF Terminate, Goto
    <3>2. \A u \in Threads \ {t} : tlsContext[u] = None
      BY <3>1, TerminatorAlone
    <3>3. \A u \in Threads \ {t} : Bindings[u] = Api!Nothing
      BY <3>2, UnboundIsNothing
    <3>4. Drawing = {} /\ Drawing' = Drawing
      <4>1. \A u \in Threads : pc[u] # "swap"
        BY <2>0, <3>1, <3>2, EglAssumption DEF PresentSafe, TypeOK
      <4>2. QED
        BY <2>0, <3>1, <4>1, DrawingKept DEF Drawing
    <3>5. Bindings' = [Bindings EXCEPT ![t] = Api!Nothing]
      <4>1. CASE tlsContext[t] # None
        <5>1. Release(t)
          BY <2>4, <4>1 DEF Terminate
        <5>2. QED
          BY <2>0, <5>1, OneRebinds DEF Release, Api!Nothing
      <4>2. CASE tlsContext[t] = None
        <5>1. Bindings' = Bindings /\ Bindings[t] = Api!Nothing
          BY <2>4, <4>2, UnboundIsNothing DEF Terminate, tls, Bindings
        <5>2. QED
          BY <5>1 DEF Bindings
      <4>3. QED
        BY <4>1, <4>2
    <3>6. Bindings' = [u \in Threads |-> Api!Nothing]
      BY <3>3, <3>5 DEF Bindings
    <3>7. Api!Terminate(t)
      BY <3>1, <3>3, <3>4, <3>6 DEF Api!Terminate
    <3>8. QED
      BY <3>7 DEF Api!Next
  <2>5. ASSUME NEW t \in Threads,
               \/ \E c \in Contexts : CreateContext(t, c)
               \/ \E s \in Surfaces : CreateSurface(t, s)
        PROVE  Api!Next
    <3>1. /\ pc[t] \in Calls /\ pc' = [pc EXCEPT ![t] = "idle"]
          /\ UNCHANGED <<tlsContext, tlsDraw, tlsRead>>
          /\ \/ /\ \E c \in Contexts \ contexts : contexts' = contexts \union {c}
                /\ UNCHANGED surfaces
             \/ /\ \E s \in Surfaces \ surfaces : surfaces' = surfaces \union {s}
                /\ UNCHANGED contexts
      BY <2>5 DEF CreateContext, CreateSurface, Goto, Calls, tls
    <3>2. Drawing' = Drawing
      BY <2>0, <3>1, DrawingKept DEF Calls
    <3>3. Bindings' = Bindings
      BY <3>1 DEF Bindings
    <3>4. Api!Create
      BY <3>1, <3>2, <3>3 DEF Api!Create
    <3>5. QED
      BY <3>4 DEF Api!Next
  <2>6. ASSUME NEW t \in Threads, NEW s \in Surfaces, DestroySurface(t, s) PROVE Api!Next
    <3>1. /\ s \in surfaces /\ bindings[s] = 0
          /\ pc[t] = "destroySurface" /\ pc' = [pc EXCEPT ![t] = "idle"]
          /\ surfaces' = surfaces \ {s}
          /\ UNCHANGED <<contexts, tlsContext, tlsDraw, tlsRead>>
      BY <2>6 DEF DestroySurface, Goto, tls
    <3>2. \A u \in Threads : s \notin {Bindings[u].draw, Bindings[u].read}
      BY <3>1, UnboundSurface DEF Bindings
    <3>3. Drawing' = Drawing /\ Bindings' = Bindings
      BY <2>0, <3>1, DrawingKept DEF Bindings
    <3>4. Api!DestroySurface(s)
      BY <3>1, <3>2, <3>3 DEF Api!DestroySurface
    <3>5. QED
      BY <3>4 DEF Api!Next
  <2>7. ASSUME NEW t \in Threads, NEW c \in Contexts, DestroyContext(t, c) PROVE Api!Next
    <3>1. /\ c \in contexts /\ owner[c] = NoThread
          /\ pc[t] = "destroyContext" /\ pc' = [pc EXCEPT ![t] = "idle"]
          /\ contexts' = contexts \ {c}
          /\ UNCHANGED <<surfaces, tlsContext, tlsDraw, tlsRead>>
      BY <2>7 DEF DestroyContext, Goto, tls
    <3>2. \A u \in Threads : tlsContext[u] # c
      BY <2>0, <3>1, EglAssumption DEF TypeOK, BindingsAlive
    <3>3. \A u \in Threads : Bindings[u].context # c
      BY <3>2 DEF Bindings
    <3>4. Drawing' = Drawing /\ Bindings' = Bindings
      BY <2>0, <3>1, DrawingKept DEF Bindings
    <3>5. Api!DestroyContext(c)
      BY <3>1, <3>3, <3>4 DEF Api!DestroyContext
    <3>6. QED
      BY <3>5 DEF Api!Next
  <2>8. ASSUME NEW t \in Threads, NEW s \in Surfaces, SwapAllowed(t, s) PROVE Api!Next
    <3>1. /\ tlsContext[t] \in contexts /\ pc' = [pc EXCEPT ![t] = "swap"]
          /\ UNCHANGED <<contexts, surfaces, tlsContext, tlsDraw, tlsRead>>
      BY <2>8 DEF SwapAllowed, Goto, objects, tls
    <3>2. Bindings[t] # Api!Nothing
      BY <2>0, <3>1, UnboundIsNothing, EglAssumption DEF TypeOK
    <3>3. Drawing' = Drawing \union {t} /\ Bindings' = Bindings
      BY <2>0, <3>1 DEF TypeOK, Drawing, Bindings
    <3>4. Api!Draw(t)
      BY <3>1, <3>2, <3>3 DEF Api!Draw
    <3>5. QED
      BY <3>4 DEF Api!Next
  <2>9. ASSUME NEW t \in Threads, Present(t) PROVE Api!Next
    <3>1. /\ pc' = [pc EXCEPT ![t] = "idle"]
          /\ UNCHANGED <<contexts, surfaces, tlsContext, tlsDraw, tlsRead>>
      BY <2>9 DEF Present, Goto, objects, tls
    <3>2. Drawing' = Drawing \ {t} /\ Bindings' = Bindings
      BY <2>0, <3>1 DEF TypeOK, Drawing, Bindings
    <3>3. Api!Drawn(t)
      BY <3>1, <3>2 DEF Api!Drawn
    <3>4. QED
      BY <3>3 DEF Api!Next
  <2>10. ASSUME NEW t \in Threads, NEW c \in Contexts, NEW d \in Surfaces, NEW r \in Surfaces,
                MakeCurrent(t, c, d, r)
         PROVE  Api!Next
    <3>1. /\ c \in contexts /\ {d, r} \subseteq surfaces /\ owner[c] \in {NoThread, t}
          /\ pc[t] = "idle" /\ UNCHANGED <<contexts, surfaces, pc>>
          /\ tlsContext' = [tlsContext EXCEPT ![t] = c]
          /\ tlsDraw' = [tlsDraw EXCEPT ![t] = d]
          /\ tlsRead' = [tlsRead EXCEPT ![t] = r]
      BY <2>10 DEF MakeCurrent, Bindable, MayCall
    <3>2. \A u \in Threads \ {t} : tlsContext[u] # c
      BY <2>0, <3>1, EglAssumption DEF TypeOK, BindingsAlive
    <3>3. \A u \in Threads \ {t} : Bindings[u].context # c
      BY <3>2 DEF Bindings
    <3>4. Bindings' = [Bindings EXCEPT ![t] = Api!Binding(c, d, r)]
      BY <2>0, <3>1, OneRebinds
    <3>5. t \notin Drawing /\ Drawing' = Drawing
      BY <3>1 DEF Drawing
    <3>6. Api!MakeCurrent(t, c, d, r)
      BY <3>1, <3>3, <3>4, <3>5 DEF Api!MakeCurrent
    <3>7. QED
      BY <3>6 DEF Api!Next
  <2>11. QED
    BY <2>1, <2>2, <2>3, <2>4, <2>5, <2>6, <2>7, <2>8, <2>9, <2>10 DEF Next
<1>3. QED
  BY <1>1, <1>2, Invariance, PTL DEF Spec, EglApiHolds, Api!Spec, Api!vars, Mapped

=============================================================================
