----------------------------- MODULE GuestOnce ------------------------------
(***************************************************************************)
(* pthread_once of the pthread bridge (src/src/pthread_bridge.c).          *)
(*                                                                         *)
(* All once controls share once_lock and once_cond.  The initialiser runs  *)
(* without the lock; it may call pthread_once on other controls, and its   *)
(* thread may be cancelled or exit in it, which unwinds every initialiser  *)
(* the thread is in, the innermost first.  Cancellation is disabled while  *)
(* a thread is anywhere else in the function, so it never strikes there.   *)
(*                                                                         *)
(* A critical section of once_lock is one step; the wait on once_cond ends *)
(* one and begins another.  A guest word starts at PTHREAD_ONCE_INIT (0):  *)
(* the EINVAL answer to any other initial value is left out.               *)
(*                                                                         *)
(* completed and returned are history variables.                           *)
(***************************************************************************)
EXTENDS Integers

CONSTANTS
    Threads,
    Controls,
    Nested,  \* <<c, d>>: the initialiser of c may call pthread_once on d
    Guest    \* the guest code outside any initialiser

ASSUME OnceAssumption ==
    /\ Guest \notin Controls
    /\ Nested \in SUBSET (Controls \X Controls)

VARIABLES
    word,       \* word[c]: 0 not initialised, 1 being initialised, 2 initialised
    ph,         \* ph[t][c]: where t is in its call on c
    caller,     \* caller[t][c]: the initialiser that made the call, or Guest
    top,        \* top[t]: the innermost call of t, or Guest
    dying,      \* threads that are unwinding or gone
    completed,  \* completed[c]: how often an initialiser of c ran to its end
    returned    \* returned[t]: the controls for which t was answered 0

vars == <<word, ph, caller, top, dying, completed, returned>>

Phases == {"out", "enter", "asleep", "run"}

TypeOK ==
    /\ word      \in [Controls -> 0 .. 2]
    /\ ph        \in [Threads -> [Controls -> Phases]]
    /\ caller    \in [Threads -> [Controls -> Controls \union {Guest}]]
    /\ top       \in [Threads -> Controls \union {Guest}]
    /\ dying     \in SUBSET Threads
    /\ completed \in [Controls -> Nat]
    /\ returned  \in [Threads -> SUBSET Controls]
    /\ \A t \in Threads : top[t] # Guest => ph[t][top[t]] # "out"

Init ==
    /\ word      = [c \in Controls |-> 0]
    /\ ph        = [t \in Threads |-> [c \in Controls |-> "out"]]
    /\ caller    = [t \in Threads |-> [c \in Controls |-> Guest]]
    /\ top       = [t \in Threads |-> Guest]
    /\ dying     = {}
    /\ completed = [c \in Controls |-> 0]
    /\ returned  = [t \in Threads |-> {}]

-----------------------------------------------------------------------------
In(t, phase) == top[t] # Guest /\ ph[t][top[t]] = phase

Become(t, phase) == ph' = [ph EXCEPT ![t][top[t]] = phase]

Pop(t) == /\ top'    = [top EXCEPT ![t] = caller[t][top[t]]]
          /\ caller' = [caller EXCEPT ![t][top[t]] = Guest]

\* Mutant: one sleeper is woken, not all.
LeaveAndSignal(t) ==
    /\ \/ /\ \A u \in Threads, c \in Controls : ph[u][c] # "asleep"
          /\ Become(t, "out")
       \/ \E u \in Threads, c \in Controls :
             /\ ph[u][c] = "asleep"
             /\ ph' = [ph EXCEPT ![u][c] = "enter", ![t][top[t]] = "out"]
    /\ Pop(t)

\* Mutant: nobody is woken.
LeaveQuietly(t) == Become(t, "out") /\ Pop(t)

\* t leaves its innermost call and wakes everybody who waits, on any control.
LeaveAndBroadcast(t) ==
    /\ ph' = [u \in Threads |-> [c \in Controls |->
                IF u = t /\ c = top[t] THEN "out"
                ELSE IF ph[u][c] = "asleep" THEN "enter" ELSE ph[u][c]]]
    /\ Pop(t)

\* The guest or a running initialiser calls pthread_once.  A control that is
\* initialised by way of itself never ends, on any system: guests do not.
Call(t, c) ==
    /\ t \notin dying
    /\ \/ top[t] = Guest
       \/ In(t, "run") /\ <<top[t], c>> \in Nested
    /\ ph[t][c] = "out"
    /\ ph'     = [ph EXCEPT ![t][c] = "enter"]
    /\ caller' = [caller EXCEPT ![t][c] = top[t]]
    /\ top'    = [top EXCEPT ![t] = c]
    /\ UNCHANGED <<word, dying, completed, returned>>

Sleep(t) ==
    /\ In(t, "enter")
    /\ word[top[t]] = 1
    /\ Become(t, "asleep")
    /\ UNCHANGED <<word, caller, top, dying, completed, returned>>

AlreadyDone(t) ==
    /\ In(t, "enter")
    /\ word[top[t]] = 2
    /\ returned' = [returned EXCEPT ![t] = @ \union {top[t]}]
    /\ Become(t, "out")
    /\ Pop(t)
    /\ UNCHANGED <<word, dying, completed>>

\* Mutant: the control is not marked while its initialiser runs.
StartInitUnmarked(t) ==
    /\ In(t, "enter")
    /\ word[top[t]] = 0
    /\ Become(t, "run")
    /\ UNCHANGED <<word, caller, top, dying, completed, returned>>

StartInit(t) ==
    /\ In(t, "enter")
    /\ word[top[t]] = 0
    /\ word' = [word EXCEPT ![top[t]] = 1]
    /\ Become(t, "run")
    /\ UNCHANGED <<caller, top, dying, completed, returned>>

FinishInit(t) ==
    /\ In(t, "run")
    /\ t \notin dying
    /\ word'      = [word EXCEPT ![top[t]] = 2]
    /\ completed' = [completed EXCEPT ![top[t]] = @ + 1]
    /\ returned'  = [returned EXCEPT ![t] = @ \union {top[t]}]
    /\ LeaveAndBroadcast(t)
    /\ UNCHANGED dying

\* The thread is cancelled, or exits, in an initialiser.
Cancel(t) ==
    /\ In(t, "run")
    /\ t \notin dying
    /\ dying' = dying \union {t}
    /\ UNCHANGED <<word, ph, caller, top, completed, returned>>

\* Mutant: no clean-up handler resets the control.
InitCancelledKeepsWord(t) ==
    /\ t \in dying
    /\ In(t, "run")
    /\ LeaveAndBroadcast(t)
    /\ UNCHANGED <<word, dying, completed, returned>>

\* once_init_cancelled, for the innermost initialiser that is left.
InitCancelled(t) ==
    /\ t \in dying
    /\ In(t, "run")
    /\ word' = [word EXCEPT ![top[t]] = IF @ = 1 THEN 0 ELSE @]
    /\ LeaveAndBroadcast(t)
    /\ UNCHANGED <<dying, completed, returned>>

\* The host wakes a sleeper for no reason.
SpuriousWake(t) ==
    /\ In(t, "asleep")
    /\ Become(t, "enter")
    /\ UNCHANGED <<word, caller, top, dying, completed, returned>>

-----------------------------------------------------------------------------
Step(t) == Sleep(t) \/ AlreadyDone(t) \/ StartInit(t) \/ InitCancelled(t)

Next ==
    \E t \in Threads :
        \/ \E c \in Controls : Call(t, c)
        \/ Step(t)
        \/ FinishInit(t)
        \/ Cancel(t)
        \/ SpuriousWake(t)

Spec == Init /\ [][Next]_vars

\* A thread in the function keeps running, and an initialiser ends, however
\* often it calls pthread_once before.
FairSpec == Spec /\ \A t \in Threads : WF_vars(Step(t)) /\ SF_vars(FinishInit(t))

-----------------------------------------------------------------------------
(* Properties *)

\* Two threads are never in the same initialiser, and the control says that
\* it is being initialised exactly while one is: a cancelled initialiser
\* leaves no control behind that nobody will ever finish.
OneInitialiser ==
    \A c \in Controls :
        /\ \A t, u \in Threads : ph[t][c] = "run" /\ ph[u][c] = "run" => t = u
        /\ word[c] = 1 <=> \E t \in Threads : ph[t][c] = "run"

\* Whoever was answered 0 finds the control initialised, once and for all.
ReturnsInitialised ==
    \A c \in Controls :
        /\ \A t \in Threads : c \in returned[t] => completed[c] = 1
        /\ completed[c] # 0 => completed[c] = 1 /\ word[c] = 2

\* Seen through the answers and the initialisers, the words and the one lock of
\* all controls are a once: an initialiser that has run to its end is never
\* begun again, and nobody is answered before.
Running(c) == {t \in Threads : ph[t][c] = "run"}
Api == INSTANCE OnceApi WITH inside   <- [c \in Controls |-> Running(c)],
                             done     <- {c \in Controls : word[c] = 2},
                             answered <- returned
OnceApiHolds == Api!Spec

\* Nobody sleeps on a control that no thread is going to finish: the one
\* condition variable of all controls loses no wake-up.
NoLostWakeup ==
    \A t \in Threads, c \in Controls :
        ph[t][c] = "asleep" => \E u \in Threads \ {t} : ph[u][c] = "run"

\* Every call comes back, however many initialisers are cancelled before.
CallReturns ==
    \A t \in Threads, c \in Controls : (ph[t][c] = "enter") ~> (ph[t][c] = "out")

=============================================================================
