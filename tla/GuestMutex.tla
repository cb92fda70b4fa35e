----------------------------- MODULE GuestMutex -----------------------------
(***************************************************************************)
(* Mutexes and condition variables of the pthread bridge                   *)
(* (src/src/pthread_bridge.c), after the registry lookup.                  *)
(*                                                                         *)
(* A guest mutex is a host mutex plus a record of its owner and depth,     *)
(* which the bridge keeps beside it and consults without any lock before   *)
(* it lets the host unlock or wait.  Every store to a record is a step of  *)
(* its own.  The host mutex and the host condition variable are external:  *)
(* they do what POSIX says, spurious wake-ups included.                    *)
(*                                                                         *)
(* held is a history variable: how often the return codes told a thread    *)
(* that it owns a mutex.                                                   *)
(***************************************************************************)
EXTENDS Integers

CONSTANTS
    Threads,
    Mutexes,
    Conds,
    Recursive,   \* mutexes of type recursive
    ErrorCheck,  \* mutexes of type errorcheck; the others are normal
    MaxDepth,    \* bound on the recursion of one owner
    Nobody,      \* no thread owns it
    None         \* no mutex, no condition variable

ASSUME MutexAssumption ==
    /\ Nobody \notin Threads
    /\ None \notin Mutexes \union Conds
    /\ Recursive \in SUBSET Mutexes
    /\ ErrorCheck \in SUBSET (Mutexes \ Recursive)
    /\ MaxDepth \in Nat \ {0}

VARIABLES
    hostOwner, hostCount,   \* the host mutex
    waiters,                \* waiters[c]: threads asleep in the host condition
    recOwner, recDepth,     \* mutex_owner and mutex_depth of the bridge object
    held,
    handoff,                \* handoff[t]: the mutex t has handed off
    pc, op, mtx, cnd, prev  \* the call t is in and its local variables

host   == <<hostOwner, hostCount, waiters>>
record == <<recOwner, recDepth>>
locals == <<op, mtx, cnd, prev>>
vars   == <<host, record, held, handoff, pc, locals>>

Waits == {"wait", "timedwait"}
Ops   == Waits \union {"none", "lock", "trylock", "unlock", "handoffBegin", "handoffEnd"}
PCs   == {"idle", "hostLock", "acquired", "setOwner", "release", "clearDepth",
          "hostUnlock", "restoreDepth", "restoreOwner", "hostWait", "waiting"}

TypeOK ==
    /\ hostOwner \in [Mutexes -> Threads \union {Nobody}]
    /\ hostCount \in [Mutexes -> Nat]
    /\ waiters   \in [Conds -> SUBSET Threads]
    /\ recOwner  \in [Mutexes -> Threads \union {Nobody}]
    /\ recDepth  \in [Mutexes -> Nat]
    /\ held      \in [Threads -> [Mutexes -> Nat]]
    /\ handoff   \in [Threads -> Mutexes \union {None}]
    /\ pc        \in [Threads -> PCs]
    /\ op        \in [Threads -> Ops]
    /\ mtx       \in [Threads -> Mutexes \union {None}]
    /\ cnd       \in [Threads -> Conds \union {None}]
    /\ prev      \in [Threads -> Nat]
    /\ \A t \in Threads : pc[t] # "idle" => mtx[t] \in Mutexes
    /\ \A t \in Threads : op[t] \in Waits => cnd[t] \in Conds

Init ==
    /\ hostOwner = [m \in Mutexes |-> Nobody]
    /\ hostCount = [m \in Mutexes |-> 0]
    /\ waiters   = [c \in Conds |-> {}]
    /\ recOwner  = [m \in Mutexes |-> Nobody]
    /\ recDepth  = [m \in Mutexes |-> 0]
    /\ held      = [t \in Threads |-> [m \in Mutexes |-> 0]]
    /\ handoff   = [t \in Threads |-> None]
    /\ pc        = [t \in Threads |-> "idle"]
    /\ op        = [t \in Threads |-> "none"]
    /\ mtx       = [t \in Threads |-> None]
    /\ cnd       = [t \in Threads |-> None]
    /\ prev      = [t \in Threads |-> 0]

-----------------------------------------------------------------------------
Goto(t, label) == pc' = [pc EXCEPT ![t] = label]

Enter(t, label, o, m, c) ==
    /\ pc[t] = "idle"
    /\ Goto(t, label)
    /\ op'  = [op EXCEPT ![t] = o]
    /\ mtx' = [mtx EXCEPT ![t] = m]
    /\ cnd' = [cnd EXCEPT ![t] = c]
    /\ UNCHANGED prev

Return(t) ==
    /\ Goto(t, "idle")
    /\ op'   = [op EXCEPT ![t] = "none"]
    /\ mtx'  = [mtx EXCEPT ![t] = None]
    /\ cnd'  = [cnd EXCEPT ![t] = None]
    /\ prev' = [prev EXCEPT ![t] = 0]

\* The call that takes a mutex answers 0; it ends a handoff if it is one.
Granted(t) ==
    /\ held'    = [held EXCEPT ![t][mtx[t]] = @ + 1]
    /\ handoff' = IF op[t] = "handoffEnd" THEN [handoff EXCEPT ![t] = None] ELSE handoff

GivenUp(t) == held' = [held EXCEPT ![t][mtx[t]] = @ - 1]

\* The only bound: an owner stops nesting at MaxDepth.
MayNest(t, m) == hostOwner[m] = t => hostCount[m] < MaxDepth

BeginLock(t, m, o) ==
    /\ o \in {"lock", "trylock"}
    /\ MayNest(t, m)
    /\ Enter(t, "hostLock", o, m, None)
    /\ UNCHANGED <<host, record, held, handoff>>

\* Any thread may try to unlock, owner or not.
BeginUnlock(t, m) ==
    /\ Enter(t, "release", "unlock", m, None)
    /\ UNCHANGED <<host, record, held, handoff>>

BeginWait(t, m, c, o) ==
    /\ o \in Waits
    /\ Enter(t, "release", o, m, c)
    /\ UNCHANGED <<host, record, held, handoff>>

\* One handoff structure per thread, which the bridge's caller does not reuse
\* while it is active.
HandoffBegin(t, m) ==
    /\ handoff[t] = None
    /\ Enter(t, "release", "handoffBegin", m, None)
    /\ UNCHANGED <<host, record, held, handoff>>

HandoffEnd(t) ==
    /\ handoff[t] # None
    /\ MayNest(t, handoff[t])
    /\ Enter(t, "hostLock", "handoffEnd", handoff[t], None)
    /\ UNCHANGED <<host, record, held, handoff>>

-----------------------------------------------------------------------------
(* Acquisition *)

HostLock(t) ==
    /\ pc[t] = "hostLock"
    /\ LET m == mtx[t] IN
          /\ \/ hostOwner[m] = Nobody
             \/ hostOwner[m] = t /\ m \in Recursive
          /\ hostOwner' = [hostOwner EXCEPT ![m] = t]
          /\ hostCount' = [hostCount EXCEPT ![m] = @ + 1]
    /\ Goto(t, "acquired")
    /\ UNCHANGED <<waiters, record, held, handoff, locals>>

\* Mutant: the acquisition is recorded whatever the host answered.
HostLockFailsUnchecked(t) ==
    /\ pc[t] = "hostLock"
    /\ op[t] = "trylock" /\ hostOwner[mtx[t]] \notin {Nobody, t}
    /\ Goto(t, "acquired")
    /\ UNCHANGED <<host, record, held, handoff, locals>>

\* EBUSY from a trylock, EDEADLK from an errorcheck mutex.  A thread that locks
\* its normal mutex again stays in the host for good, as on any system.
HostLockFails(t) ==
    /\ pc[t] = "hostLock"
    /\ LET m == mtx[t] IN
          \/ /\ op[t] = "trylock"
             /\ hostOwner[m] # Nobody
             /\ ~(hostOwner[m] = t /\ m \in Recursive)
          \/ hostOwner[m] = t /\ m \in ErrorCheck
    /\ Return(t)
    /\ UNCHANGED <<host, record, held, handoff>>

\* mutex_record_acquired, nested: the owner takes the mutex once more.
RecordNested(t) ==
    /\ pc[t] = "acquired"
    /\ recOwner[mtx[t]] = t
    /\ recDepth' = [recDepth EXCEPT ![mtx[t]] = @ + 1]
    /\ Granted(t)
    /\ Return(t)
    /\ UNCHANGED <<host, recOwner>>

\* mutex_record_acquired, first time: the depth is stored before the owner.
RecordDepth(t) ==
    /\ pc[t] = "acquired"
    /\ recOwner[mtx[t]] # t
    /\ recDepth' = [recDepth EXCEPT ![mtx[t]] = 1]
    /\ Goto(t, "setOwner")
    /\ UNCHANGED <<host, recOwner, held, handoff, locals>>

RecordOwner(t) ==
    /\ pc[t] = "setOwner"
    /\ recOwner' = [recOwner EXCEPT ![mtx[t]] = t]
    /\ Granted(t)
    /\ Return(t)
    /\ UNCHANGED <<host, recDepth>>

-----------------------------------------------------------------------------
(* Release: unlock, wait and handoff *)

\* Mutant: the owner is not compared.
OwnsAnybody(t, m) == recDepth[m] # 0

Owns(t, m) == recOwner[m] = t /\ recDepth[m] # 0

\* EPERM; a handoff also answers 0 for a mutex held more than once.
ReleaseRefused(t) ==
    /\ pc[t] = "release"
    /\ \/ ~Owns(t, mtx[t])
       \/ op[t] = "handoffBegin" /\ recDepth[mtx[t]] # 1
    /\ Return(t)
    /\ UNCHANGED <<host, record, held, handoff>>

\* Mutant: a wait does not test the depth and goes to the host.
ReleaseNestedWaits(t) ==
    /\ pc[t] = "release"
    /\ Owns(t, mtx[t])
    /\ recDepth[mtx[t]] > 1
    /\ op[t] # "handoffBegin"
    /\ recDepth' = [recDepth EXCEPT ![mtx[t]] = @ - 1]
    /\ Goto(t, IF op[t] \in Waits THEN "hostWait" ELSE "hostUnlock")
    /\ GivenUp(t)
    /\ UNCHANGED <<host, recOwner, handoff, locals>>

\* mutex_record_releasing at depth > 1.  A wait has to undo it.
ReleaseNested(t) ==
    /\ pc[t] = "release"
    /\ Owns(t, mtx[t])
    /\ recDepth[mtx[t]] > 1
    /\ op[t] # "handoffBegin"
    /\ prev' = [prev EXCEPT ![t] = recDepth[mtx[t]]]
    /\ recDepth' = [recDepth EXCEPT ![mtx[t]] = @ - 1]
    /\ IF op[t] \in Waits
       THEN Goto(t, "restoreDepth") /\ UNCHANGED held
       ELSE Goto(t, "hostUnlock") /\ GivenUp(t)
    /\ UNCHANGED <<host, recOwner, handoff, op, mtx, cnd>>

\* Mutant: a wait goes to the host without releasing the record.
ReleaseLastKeepsRecord(t) ==
    /\ pc[t] = "release"
    /\ Owns(t, mtx[t])
    /\ recDepth[mtx[t]] = 1
    /\ op[t] \in Waits
    /\ GivenUp(t)
    /\ Goto(t, "hostWait")
    /\ UNCHANGED <<host, record, handoff, locals>>

\* Mutant: the host mutex is unlocked before its record is released.
ReleaseLastUnlocksFirst(t) ==
    /\ pc[t] = "release"
    /\ Owns(t, mtx[t])
    /\ recDepth[mtx[t]] = 1
    /\ hostOwner' = [hostOwner EXCEPT ![mtx[t]] = Nobody]
    /\ hostCount' = [hostCount EXCEPT ![mtx[t]] = 0]
    /\ Goto(t, "clearDepth")
    /\ UNCHANGED <<waiters, record, held, handoff, locals>>

\* mutex_record_releasing at depth 1: the owner is cleared before the depth.
ReleaseLast(t) ==
    /\ pc[t] = "release"
    /\ Owns(t, mtx[t])
    /\ recDepth[mtx[t]] = 1
    /\ prev' = [prev EXCEPT ![t] = 1]
    /\ recOwner' = [recOwner EXCEPT ![mtx[t]] = Nobody]
    /\ GivenUp(t)
    /\ Goto(t, "clearDepth")
    /\ UNCHANGED <<host, recDepth, handoff, op, mtx, cnd>>

ClearDepth(t) ==
    /\ pc[t] = "clearDepth"
    /\ recDepth' = [recDepth EXCEPT ![mtx[t]] = 0]
    /\ Goto(t, IF op[t] \in Waits THEN "hostWait" ELSE "hostUnlock")
    /\ UNCHANGED <<host, recOwner, held, handoff, locals>>

\* The host can only refuse an unlock by a thread that is not the owner; the
\* code then restores the record.  HostCallsOwned says it never has to.
HostUnlock(t) ==
    /\ pc[t] = "hostUnlock"
    /\ LET m == mtx[t] IN
          /\ hostOwner[m] = t
          /\ hostCount' = [hostCount EXCEPT ![m] = @ - 1]
          /\ hostOwner' = [hostOwner EXCEPT ![m] = IF hostCount[m] = 1 THEN Nobody ELSE t]
          /\ handoff'   = IF op[t] = "handoffBegin" THEN [handoff EXCEPT ![t] = m] ELSE handoff
    /\ Return(t)
    /\ UNCHANGED <<waiters, record, held>>

\* mutex_record_restore after a wait on a mutex held more than once: EINVAL.
RestoreDepth(t) ==
    /\ pc[t] = "restoreDepth"
    /\ recDepth' = [recDepth EXCEPT ![mtx[t]] = prev[t]]
    /\ Goto(t, "restoreOwner")
    /\ UNCHANGED <<host, recOwner, held, handoff, locals>>

RestoreOwner(t) ==
    /\ pc[t] = "restoreOwner"
    /\ recOwner' = [recOwner EXCEPT ![mtx[t]] = t]
    /\ Return(t)
    /\ UNCHANGED <<host, recDepth, held, handoff>>

-----------------------------------------------------------------------------
(* Condition variables *)

\* The host gives the mutex up and goes to sleep in one step.
HostWait(t) ==
    /\ pc[t] = "hostWait"
    /\ hostOwner[mtx[t]] = t
    /\ hostOwner' = [hostOwner EXCEPT ![mtx[t]] = Nobody]
    /\ hostCount' = [hostCount EXCEPT ![mtx[t]] = @ - 1]
    /\ waiters'   = [waiters EXCEPT ![cnd[t]] = @ \union {t}]
    /\ Goto(t, "waiting")
    /\ UNCHANGED <<record, held, handoff, locals>>

\* Mutant: a wait that fails is not recorded as holding the mutex again.
HostWaitRefusedUnrecorded(t) ==
    /\ pc[t] = "hostWait"
    /\ op[t] = "timedwait"
    /\ Return(t)
    /\ UNCHANGED <<host, record, held, handoff>>

\* The host refuses the deadline (EINVAL) and keeps the mutex.
HostWaitRefused(t) ==
    /\ pc[t] = "hostWait"
    /\ op[t] = "timedwait"
    /\ Goto(t, "acquired")
    /\ UNCHANGED <<host, record, held, handoff, locals>>

Signal(t, c) ==
    /\ pc[t] = "idle"
    /\ \E u \in waiters[c] : waiters' = [waiters EXCEPT ![c] = @ \ {u}]
    /\ UNCHANGED <<hostOwner, hostCount, record, held, handoff, pc, locals>>

Broadcast(t, c) ==
    /\ pc[t] = "idle"
    /\ waiters[c] # {}
    /\ waiters' = [waiters EXCEPT ![c] = {}]
    /\ UNCHANGED <<hostOwner, hostCount, record, held, handoff, pc, locals>>

\* A deadline passes, or the host wakes the thread for no reason.
LeaveWait(t) ==
    /\ pc[t] = "waiting"
    /\ t \in waiters[cnd[t]]
    /\ waiters' = [waiters EXCEPT ![cnd[t]] = @ \ {t}]
    /\ UNCHANGED <<hostOwner, hostCount, record, held, handoff, pc, locals>>

\* The host returns from the wait with the mutex, whatever woke the thread.
HostReacquire(t) ==
    /\ pc[t] = "waiting"
    /\ t \notin waiters[cnd[t]]
    /\ hostOwner[mtx[t]] = Nobody
    /\ hostOwner' = [hostOwner EXCEPT ![mtx[t]] = t]
    /\ hostCount' = [hostCount EXCEPT ![mtx[t]] = 1]
    /\ Goto(t, "acquired")
    /\ UNCHANGED <<waiters, record, held, handoff, locals>>

-----------------------------------------------------------------------------
Call(t) ==
    \/ \E m \in Mutexes :
          \/ \E o \in {"lock", "trylock"} : BeginLock(t, m, o)
          \/ BeginUnlock(t, m)
          \/ HandoffBegin(t, m)
          \/ \E c \in Conds, o \in Waits : BeginWait(t, m, c, o)
    \/ HandoffEnd(t)
    \/ \E c \in Conds : Signal(t, c) \/ Broadcast(t, c)

Acquire(t) ==
    HostLock(t) \/ HostLockFails(t) \/ RecordNested(t) \/ RecordDepth(t) \/ RecordOwner(t)
Release(t) ==
    \/ ReleaseRefused(t) \/ ReleaseNested(t) \/ ReleaseLast(t) \/ ClearDepth(t)
    \/ HostUnlock(t) \/ RestoreDepth(t) \/ RestoreOwner(t)
Wait(t) == HostWait(t) \/ HostWaitRefused(t) \/ LeaveWait(t) \/ HostReacquire(t)

Next == \E t \in Threads : Call(t) \/ Acquire(t) \/ Release(t) \/ Wait(t)

Spec == Init /\ [][Next]_vars

-----------------------------------------------------------------------------
(* Properties *)

\* The record never names a thread that does not own the host mutex: every
\* lock-free test of mutex_owner against the caller relies on it.
RecordImpliesHost ==
    \A m \in Mutexes : recOwner[m] # Nobody => hostOwner[m] = recOwner[m]

\* The host is asked to unlock only for its owner, and to wait only on a mutex
\* held exactly once (the depth test of cond_wait and cond_timedwait).
HostCallsOwned ==
    \A t \in Threads :
        /\ pc[t] = "hostUnlock" => hostOwner[mtx[t]] = t
        /\ pc[t] = "hostWait" => hostOwner[mtx[t]] = t /\ hostCount[mtx[t]] = 1

\* Between calls, the host mutex, the record and what the return codes said
\* agree, error paths included.
IdleAgreement ==
    \A t \in Threads, m \in Mutexes : pc[t] = "idle" =>
        /\ hostOwner[m] = t <=> recOwner[m] = t
        /\ hostOwner[m] = t => hostCount[m] = recDepth[m]
        /\ held[t][m] = IF recOwner[m] = t THEN recDepth[m] ELSE 0

\* Only the owner of the host mutex ever writes the record of the mutex.
RecordWrittenByOwner ==
    [][\A m \in Mutexes :
          (recOwner'[m] # recOwner[m] \/ recDepth'[m] # recDepth[m]) =>
              /\ hostOwner[m] # Nobody
              /\ hostOwner'[m] = hostOwner[m]
              /\ recOwner'[m] \in {Nobody, hostOwner[m]}]_vars

\* The bridge gives the guest mutual exclusion: seen through the return codes
\* its mutexes are mutexes.
Api == INSTANCE MutexApi WITH Threads <- Threads, Mutexes <- Mutexes,
                             Recursive <- Recursive, held <- held
MutexApiHolds == Api!Spec

=============================================================================
