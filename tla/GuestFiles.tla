----------------------------- MODULE GuestFiles -----------------------------
(***************************************************************************)
(* The stdio streams of the guest (src/src/bionic_compat.c).               *)
(*                                                                         *)
(* A guest stream is the first field of a wrapper around a host stream.    *)
(* Open wrappers are chained in a hash bucket; an operation finds the      *)
(* wrapper, counts itself in, works on the host stream without the lock    *)
(* and counts itself out; a close waits until nobody is counted in, takes  *)
(* the wrapper off the chain and closes the host stream.                   *)
(*                                                                         *)
(* One bucket is modelled, and each critical section of asm2_file_mutex is *)
(* one step; the wait on asm2_file_condition splits a close in two.        *)
(* Wrappers are never freed, so they are numbered in the order they are    *)
(* opened and no number comes back.  The standard streams are never        *)
(* closed and the flags in the guest's image are left out.                 *)
(*                                                                         *)
(* hostOpen is a history variable.                                         *)
(***************************************************************************)
EXTENDS Integers, FiniteSets

CONSTANTS
    Threads,
    MaxFiles   \* bound on the streams ever opened

ASSUME FilesAssumption ==
    /\ IsFiniteSet(Threads)
    /\ MaxFiles \in Nat

Files == 1 .. MaxFiles
Nil   == 0

VARIABLES
    state,     \* state[f]: the wrapper's state, "free" before it exists
    ops,       \* active_operations
    head,      \* the bucket
    next,      \* hash_next
    last,      \* the number of wrappers made so far
    count,     \* the counters of asm2_bionic_get_file_stats
    hostOpen,  \* the host stream of f has not been closed
    asleep,    \* threads asleep in asm2_file_condition
    pc,
    stream,    \* stream[t]: the wrapper t works on
    link       \* link[t]: the link a close found it by; Nil is the bucket

chain  == <<head, next, last>>
vars   == <<state, ops, chain, count, hostOpen, asleep, pc, stream, link>>

States == {"free", "open", "closing", "closed"}
PCs    == {"idle", "io", "waiting", "fclose", "rejected"}

TypeOK ==
    /\ state    \in [Files -> States]
    /\ ops      \in [Files -> Nat]
    /\ head     \in Files \union {Nil}
    /\ next     \in [Files -> Files \union {Nil}]
    /\ last     \in 0 .. MaxFiles
    /\ count    \in [created : Nat, open : Nat, closed : Nat]
    /\ hostOpen \in SUBSET Files
    /\ asleep   \in SUBSET Threads
    /\ pc       \in [Threads -> PCs]
    /\ stream   \in [Threads -> Files \union {Nil}]
    /\ link     \in [Threads -> Files \union {Nil}]
    /\ \A t \in Threads : pc[t] # "idle" => stream[t] \in Files

Init ==
    /\ state    = [f \in Files |-> "free"]
    /\ ops      = [f \in Files |-> 0]
    /\ head     = Nil
    /\ next     = [f \in Files |-> Nil]
    /\ last     = 0
    /\ count    = [created |-> 0, open |-> 0, closed |-> 0]
    /\ hostOpen = {}
    /\ asleep   = {}
    /\ pc       = [t \in Threads |-> "idle"]
    /\ stream   = [t \in Threads |-> Nil]
    /\ link     = [t \in Threads |-> Nil]

-----------------------------------------------------------------------------
Goto(t, label) == pc' = [pc EXCEPT ![t] = label]

Work(t, label, f) ==
    /\ Goto(t, label)
    /\ stream' = [stream EXCEPT ![t] = f]

Return(t) ==
    /\ Work(t, "idle", Nil)
    /\ link' = [link EXCEPT ![t] = Nil]

\* What a walk from the bucket meets (asm2_find_active_file_locked).
Chained ==
    LET Reached[f \in Files \union {Nil}] ==
            IF f = Nil THEN {} ELSE {f} \union Reached[next[f]]
    IN  Reached[head]

\* The links a walk follows: l leads to f, and Nil stands for the bucket.
Links         == Files \union {Nil}
LinksTo(l, f) == IF l = Nil THEN head = f ELSE l \in Chained /\ next[l] = f
Found(f)      == \E l \in Links : LinksTo(l, f)

\* The guest's streams: those a successful open returned, closed ones too.
Handles == 1 .. last

\* Mutant: the bucket is stored before the link, which then points to itself.
OpenHeadFirst(t) ==
    /\ pc[t] = "idle"
    /\ last < MaxFiles
    /\ LET f == last + 1 IN
          /\ state'    = [state EXCEPT ![f] = "open"]
          /\ next'     = [next EXCEPT ![f] = f]
          /\ head'     = f
          /\ last'     = f
          /\ hostOpen' = hostOpen \union {f}
    /\ count' = [created |-> count.created + 1, open |-> count.open + 1,
                 closed  |-> count.closed]
    /\ UNCHANGED <<ops, asleep, pc, stream, link>>

\* fopen and fdopen: the host opens, then asm2_wrap_file.
Open(t) ==
    /\ pc[t] = "idle"
    /\ last < MaxFiles
    /\ LET f == last + 1 IN
          /\ state'    = [state EXCEPT ![f] = "open"]
          /\ next'     = [next EXCEPT ![f] = head]
          /\ head'     = f
          /\ last'     = f
          /\ hostOpen' = hostOpen \union {f}
    /\ count' = [created |-> count.created + 1, open |-> count.open + 1,
                 closed  |-> count.closed]
    /\ UNCHANGED <<ops, asleep, pc, stream, link>>

\* Mutant: the reference does not keep the wrapper.
AcquireForgets(t, f) ==
    /\ pc[t] = "idle"
    /\ Found(f)
    /\ state[f] = "open"
    /\ ops' = [ops EXCEPT ![f] = @ + 1]
    /\ Goto(t, "io")
    /\ UNCHANGED <<state, chain, count, hostOpen, asleep, stream, link>>

\* asm2_acquire_stream; what is not open and found there is EBADF.
Acquire(t, f) ==
    /\ pc[t] = "idle"
    /\ Found(f)
    /\ state[f] = "open"
    /\ ops' = [ops EXCEPT ![f] = @ + 1]
    /\ Work(t, "io", f)
    /\ UNCHANGED <<state, chain, count, hostOpen, asleep, link>>

\* Mutant: the last operation to leave wakes nobody.
ReleaseQuietly(t) ==
    /\ pc[t] = "io"
    /\ ops' = [ops EXCEPT ![stream[t]] = IF @ > 0 THEN @ - 1 ELSE @]
    /\ Return(t)
    /\ UNCHANGED <<state, chain, count, hostOpen, asleep>>

\* asm2_release_stream, after the host call.
Release(t) ==
    /\ pc[t] = "io"
    /\ LET f == stream[t] IN
          /\ ops' = [ops EXCEPT ![f] = IF @ > 0 THEN @ - 1 ELSE @]
          /\ asleep' = IF state[f] = "closing" /\ ops'[f] = 0 THEN {} ELSE asleep
    /\ Return(t)
    /\ UNCHANGED <<state, chain, count, hostOpen>>

-----------------------------------------------------------------------------
(* asm2_take_file_for_close, then the host's fclose. *)

CloseRejected(t, f) ==
    /\ pc[t] = "idle"
    /\ ~Found(f) \/ state[f] # "open"
    /\ Work(t, "rejected", f)
    /\ UNCHANGED <<state, ops, chain, count, hostOpen, asleep, link>>

RejectReturns(t) ==
    /\ pc[t] = "rejected"
    /\ Return(t)
    /\ UNCHANGED <<state, ops, chain, count, hostOpen, asleep>>

\* Everything after the wait.  l is the link found before it.
Take(f, l) ==
    /\ state' = [state EXCEPT ![f] = "closed"]
    /\ head'  = IF l = Nil THEN next[f] ELSE head
    /\ next'  = [g \in Files |-> IF g = f THEN Nil
                                 ELSE IF g = l THEN next[f] ELSE next[g]]
    /\ count' = [created |-> count.created, closed |-> count.closed + 1,
                 open    |-> IF count.open # 0 THEN count.open - 1 ELSE 0]
    /\ UNCHANGED last

\* Mutant: operations in flight are not waited for.
CloseRegardless(t, f) ==
    /\ pc[t] = "idle"
    /\ state[f] = "open"
    /\ \E l \in Links : LinksTo(l, f) /\ Take(f, l)
    /\ Work(t, "fclose", f)
    /\ UNCHANGED <<ops, hostOpen, asleep, link>>

\* Mutant: a stream that is being closed may be closed.
CloseClosing(t, f) ==
    /\ pc[t] = "idle"
    /\ ops[f] = 0
    /\ \E l \in Links : LinksTo(l, f) /\ Take(f, l)
    /\ Work(t, "fclose", f)
    /\ UNCHANGED <<ops, hostOpen, asleep, link>>

CloseAtOnce(t, f) ==
    /\ pc[t] = "idle"
    /\ state[f] = "open"
    /\ ops[f] = 0
    /\ \E l \in Links : LinksTo(l, f) /\ Take(f, l)
    /\ Work(t, "fclose", f)
    /\ UNCHANGED <<ops, hostOpen, asleep, link>>

CloseWaits(t, f) ==
    /\ pc[t] = "idle"
    /\ state[f] = "open"
    /\ ops[f] # 0
    /\ state'  = [state EXCEPT ![f] = "closing"]
    /\ \E l \in Links : LinksTo(l, f) /\ link' = [link EXCEPT ![t] = l]
    /\ asleep' = asleep \union {t}
    /\ Work(t, "waiting", f)
    /\ UNCHANGED <<ops, chain, count, hostOpen>>

\* pthread_cond_wait may return for no reason.
SpuriousWake(t) ==
    /\ t \in asleep
    /\ asleep' = asleep \ {t}
    /\ UNCHANGED <<state, ops, chain, count, hostOpen, pc, stream, link>>

\* Woken for no reason or for somebody else's stream: the loop waits again.
WaitAgain(t) ==
    /\ pc[t] = "waiting"
    /\ t \notin asleep
    /\ ops[stream[t]] # 0
    /\ asleep' = asleep \union {t}
    /\ UNCHANGED <<state, ops, chain, count, hostOpen, pc, stream, link>>

CloseAfterWait(t) ==
    /\ pc[t] = "waiting"
    /\ t \notin asleep
    /\ ops[stream[t]] = 0
    /\ Take(stream[t], link[t])
    /\ Goto(t, "fclose")
    /\ UNCHANGED <<ops, hostOpen, asleep, stream, link>>

HostClose(t) ==
    /\ pc[t] = "fclose"
    /\ hostOpen' = hostOpen \ {stream[t]}
    /\ Return(t)
    /\ UNCHANGED <<state, ops, chain, count, asleep>>

-----------------------------------------------------------------------------
Close(t) ==
    \/ \E f \in Handles : CloseRejected(t, f) \/ CloseAtOnce(t, f) \/ CloseWaits(t, f)
    \/ RejectReturns(t) \/ SpuriousWake(t) \/ WaitAgain(t) \/ CloseAfterWait(t) \/ HostClose(t)

Next ==
    \E t \in Threads :
        \/ Open(t)
        \/ \E f \in Handles : Acquire(t, f)
        \/ Release(t)
        \/ Close(t)

Spec == Init /\ [][Next]_vars

\* Host calls on a stream return, and a thread that was woken runs.
FairSpec == Spec /\ \A t \in Threads : WF_vars(Release(t)) /\ WF_vars(CloseAfterWait(t))
                                       /\ WF_vars(WaitAgain(t))

-----------------------------------------------------------------------------
(* Properties *)

\* No operation works on a host stream that a concurrent close has closed
\* (active_operations and the wait of asm2_take_file_for_close).
NoUseAfterClose == \A t \in Threads : pc[t] = "io" => stream[t] \in hostOpen

\* A stream closed by several threads is closed once: the host's fclose gets
\* every stream at most once, while it is open.
ClosedOnce ==
    \A t, u \in Threads : pc[t] = "fclose" =>
        /\ stream[t] \in hostOpen
        /\ pc[u] = "fclose" /\ stream[u] = stream[t] => u = t

\* Seen through who works on a stream and who has claimed it, the counters, the
\* states and the waits are the streams of StreamApi: a close has the host
\* stream to itself, and it is the only one.
Users(f)   == {t \in Threads : pc[t] = "io" /\ stream[t] = f}
Closers(f) == {t \in Threads : pc[t] \in {"waiting", "fclose"} /\ stream[t] = f}
Streams == INSTANCE StreamApi WITH made   <- Handles,
                                   usable <- {f \in Files : state[f] = "open"},
                                   users  <- [f \in Files |-> Users(f)],
                                   closer <- [f \in Files |-> Closers(f)]
StreamApiHolds == Streams!Spec

\* Whatever the waits do to the links, they lead from younger to older
\* wrappers: a walk of a bucket under asm2_file_mutex ends.
ChainOlder == head <= last /\ \A f \in Files : next[f] < f

\* A close that waits gets its stream once the operations on it return.
CloseTerminates == \A t \in Threads : (pc[t] = "waiting") ~> (pc[t] = "fclose")

\* A close is refused only for a stream that is being closed or is closed:
\* the message the code logs for every refusal calls the close stale.
RejectedCloseIsStale ==
    \A t \in Threads : pc[t] = "rejected" => state[stream[t]] # "open"

=============================================================================
