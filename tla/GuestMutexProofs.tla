-------------------------- MODULE GuestMutexProofs --------------------------
(***************************************************************************)
(* Proofs about GuestMutex, for every number of threads, mutexes and       *)
(* condition variables.                                                    *)
(*                                                                         *)
(* RecordImpliesHost is not inductive: between the host call and the       *)
(* stores that follow it the record lags behind.  The invariant says by    *)
(* how much at each of those points, and that only the owner of the host   *)
(* mutex can be at one of them.                                            *)
(***************************************************************************)
EXTENDS GuestMutex, TLAPS

\* Between the host call and the last store to the record, or back.
BusyPCs == {"acquired", "setOwner", "clearDepth", "hostUnlock", "hostWait",
            "restoreDepth", "restoreOwner"}
Busy(t, m) == pc[t] \in BusyPCs /\ mtx[t] = m

Agrees(t, m) == recOwner[m] = t /\ recDepth[m] = hostCount[m]

MutexInv(m) ==
    /\ hostOwner[m] = Nobody => hostCount[m] = 0 /\ recDepth[m] = 0
    /\ hostOwner[m] # Nobody => hostCount[m] > 0
    /\ hostCount[m] > 1 => m \in Recursive
    /\ recOwner[m] # Nobody => recOwner[m] = hostOwner[m] /\ recDepth[m] > 0
    /\ \A t \in Threads : hostOwner[m] = t => Busy(t, m) \/ Agrees(t, m)

\* The record of the mutex m while its owner t is busy with it.
Unrecorded(m, depth) == recOwner[m] = Nobody /\ recDepth[m] = depth /\ hostCount[m] = 1
Lags(t, m) == recOwner[m] = t /\ recDepth[m] + 1 = hostCount[m]

ThreadInv(t) ==
    LET m == mtx[t] IN
    /\ pc[t] \in BusyPCs => hostOwner[m] = t
    /\ pc[t] = "acquired" => Lags(t, m) \/ Unrecorded(m, 0)
    /\ pc[t] = "setOwner" => Unrecorded(m, 1)
    /\ pc[t] = "clearDepth" => Unrecorded(m, 1)
    /\ pc[t] = "hostWait" => Unrecorded(m, 0)
    /\ pc[t] = "hostUnlock" => Lags(t, m) \/ Unrecorded(m, 0)
    /\ pc[t] = "restoreDepth" => Lags(t, m) /\ prev[t] = hostCount[m]
    /\ pc[t] = "restoreOwner" => Agrees(t, m)

\* A thread owns a mutex, as far as the return codes tell, as deep as the
\* record says; a refused wait alone lowers the depth in passing.
HeldInv(t, m) ==
    held[t][m] = IF recOwner[m] # t THEN 0
                 ELSE IF pc[t] = "restoreDepth" /\ mtx[t] = m THEN prev[t]
                 ELSE recDepth[m]

IInv ==
    /\ TypeOK
    /\ \A m \in Mutexes : MutexInv(m)
    /\ \A t \in Threads : ThreadInv(t)
    /\ \A t \in Threads, m \in Mutexes : HeldInv(t, m)

-----------------------------------------------------------------------------

LEMMA InvStep == IInv /\ [Next]_vars => IInv'
<1> SUFFICES ASSUME IInv, [Next]_vars PROVE IInv'
  OBVIOUS
<1> USE MutexAssumption DEF Busy, BusyPCs, Agrees, Unrecorded, Lags
<1>1. TypeOK
  BY DEF IInv
<1>2. CASE UNCHANGED vars
  BY <1>2 DEF vars, host, record, locals, IInv, TypeOK, MutexInv, ThreadInv, HeldInv
<1>3. ASSUME NEW t \in Threads, NEW m \in Mutexes, NEW o \in {"lock", "trylock"}, BeginLock(t, m, o)
      PROVE  IInv'
  <2>1. TypeOK'
    BY <1>1, <1>3 DEF BeginLock, Enter, Goto, host, record, IInv, TypeOK, PCs, Ops, Waits, MutexInv, ThreadInv, HeldInv
  <2>2. \A q \in Mutexes : MutexInv(q)'
    BY <1>1, <1>3 DEF BeginLock, Enter, Goto, host, record, IInv, TypeOK, MutexInv, ThreadInv
  <2>3. \A u \in Threads : ThreadInv(u)'
    BY <1>1, <1>3 DEF BeginLock, Enter, Goto, host, record, IInv, TypeOK, MutexInv, ThreadInv
  <2>4. \A u \in Threads, q \in Mutexes : HeldInv(u, q)'
    BY <1>1, <1>3 DEF BeginLock, Enter, Goto, host, record, IInv, TypeOK, MutexInv, ThreadInv, HeldInv
  <2>5. QED
    BY <2>1, <2>2, <2>3, <2>4 DEF IInv
<1>4. ASSUME NEW t \in Threads, NEW m \in Mutexes, BeginUnlock(t, m)
      PROVE  IInv'
  <2>1. TypeOK'
    BY <1>1, <1>4 DEF BeginUnlock, Enter, Goto, host, record, IInv, TypeOK, PCs, Ops, Waits, MutexInv, ThreadInv, HeldInv
  <2>2. \A q \in Mutexes : MutexInv(q)'
    BY <1>1, <1>4 DEF BeginUnlock, Enter, Goto, host, record, IInv, TypeOK, MutexInv, ThreadInv
  <2>3. \A u \in Threads : ThreadInv(u)'
    BY <1>1, <1>4 DEF BeginUnlock, Enter, Goto, host, record, IInv, TypeOK, MutexInv, ThreadInv
  <2>4. \A u \in Threads, q \in Mutexes : HeldInv(u, q)'
    BY <1>1, <1>4 DEF BeginUnlock, Enter, Goto, host, record, IInv, TypeOK, MutexInv, ThreadInv, HeldInv
  <2>5. QED
    BY <2>1, <2>2, <2>3, <2>4 DEF IInv
<1>5. ASSUME NEW t \in Threads, NEW m \in Mutexes, NEW c \in Conds, NEW o \in Waits, BeginWait(t, m, c, o)
      PROVE  IInv'
  <2>1. TypeOK'
    BY <1>1, <1>5 DEF BeginWait, Enter, Goto, host, record, IInv, TypeOK, PCs, Ops, Waits, MutexInv, ThreadInv, HeldInv
  <2>2. \A q \in Mutexes : MutexInv(q)'
    BY <1>1, <1>5 DEF BeginWait, Enter, Goto, host, record, IInv, TypeOK, MutexInv, ThreadInv
  <2>3. \A u \in Threads : ThreadInv(u)'
    BY <1>1, <1>5 DEF BeginWait, Enter, Goto, host, record, IInv, TypeOK, MutexInv, ThreadInv
  <2>4. \A u \in Threads, q \in Mutexes : HeldInv(u, q)'
    BY <1>1, <1>5 DEF BeginWait, Enter, Goto, host, record, IInv, TypeOK, MutexInv, ThreadInv, HeldInv
  <2>5. QED
    BY <2>1, <2>2, <2>3, <2>4 DEF IInv
<1>6. ASSUME NEW t \in Threads, NEW m \in Mutexes, HandoffBegin(t, m)
      PROVE  IInv'
  <2>1. TypeOK'
    BY <1>1, <1>6 DEF HandoffBegin, Enter, Goto, host, record, IInv, TypeOK, PCs, Ops, Waits, MutexInv, ThreadInv, HeldInv
  <2>2. \A q \in Mutexes : MutexInv(q)'
    BY <1>1, <1>6 DEF HandoffBegin, Enter, Goto, host, record, IInv, TypeOK, MutexInv, ThreadInv
  <2>3. \A u \in Threads : ThreadInv(u)'
    BY <1>1, <1>6 DEF HandoffBegin, Enter, Goto, host, record, IInv, TypeOK, MutexInv, ThreadInv
  <2>4. \A u \in Threads, q \in Mutexes : HeldInv(u, q)'
    BY <1>1, <1>6 DEF HandoffBegin, Enter, Goto, host, record, IInv, TypeOK, MutexInv, ThreadInv, HeldInv
  <2>5. QED
    BY <2>1, <2>2, <2>3, <2>4 DEF IInv
<1>7. ASSUME NEW t \in Threads, HandoffEnd(t)
      PROVE  IInv'
  <2>1. TypeOK'
    BY <1>1, <1>7 DEF HandoffEnd, Enter, Goto, host, record, IInv, TypeOK, PCs, Ops, Waits, MutexInv, ThreadInv, HeldInv
  <2>2. \A q \in Mutexes : MutexInv(q)'
    BY <1>1, <1>7 DEF HandoffEnd, Enter, Goto, host, record, IInv, TypeOK, MutexInv, ThreadInv
  <2>3. \A u \in Threads : ThreadInv(u)'
    BY <1>1, <1>7 DEF HandoffEnd, Enter, Goto, host, record, IInv, TypeOK, MutexInv, ThreadInv
  <2>4. \A u \in Threads, q \in Mutexes : HeldInv(u, q)'
    BY <1>1, <1>7 DEF HandoffEnd, Enter, Goto, host, record, IInv, TypeOK, MutexInv, ThreadInv, HeldInv
  <2>5. QED
    BY <2>1, <2>2, <2>3, <2>4 DEF IInv
<1>8. ASSUME NEW t \in Threads, NEW c \in Conds, Signal(t, c)
      PROVE  IInv'
  <2>1. TypeOK'
    BY <1>1, <1>8 DEF Signal, record, locals, IInv, TypeOK, PCs, Ops, Waits, MutexInv, ThreadInv, HeldInv
  <2>2. \A q \in Mutexes : MutexInv(q)'
    BY <1>1, <1>8 DEF Signal, record, locals, IInv, TypeOK, MutexInv, ThreadInv
  <2>3. \A u \in Threads : ThreadInv(u)'
    BY <1>1, <1>8 DEF Signal, record, locals, IInv, TypeOK, MutexInv, ThreadInv
  <2>4. \A u \in Threads, q \in Mutexes : HeldInv(u, q)'
    BY <1>1, <1>8 DEF Signal, record, locals, IInv, TypeOK, MutexInv, ThreadInv, HeldInv
  <2>5. QED
    BY <2>1, <2>2, <2>3, <2>4 DEF IInv
<1>9. ASSUME NEW t \in Threads, NEW c \in Conds, Broadcast(t, c)
      PROVE  IInv'
  <2>1. TypeOK'
    BY <1>1, <1>9 DEF Broadcast, record, locals, IInv, TypeOK, PCs, Ops, Waits, MutexInv, ThreadInv, HeldInv
  <2>2. \A q \in Mutexes : MutexInv(q)'
    BY <1>1, <1>9 DEF Broadcast, record, locals, IInv, TypeOK, MutexInv, ThreadInv
  <2>3. \A u \in Threads : ThreadInv(u)'
    BY <1>1, <1>9 DEF Broadcast, record, locals, IInv, TypeOK, MutexInv, ThreadInv
  <2>4. \A u \in Threads, q \in Mutexes : HeldInv(u, q)'
    BY <1>1, <1>9 DEF Broadcast, record, locals, IInv, TypeOK, MutexInv, ThreadInv, HeldInv
  <2>5. QED
    BY <2>1, <2>2, <2>3, <2>4 DEF IInv
<1>10. ASSUME NEW t \in Threads, HostLock(t)
      PROVE  IInv'
  <2>1. TypeOK'
    BY <1>1, <1>10 DEF HostLock, Goto, record, locals, IInv, TypeOK, PCs, Ops, Waits, MutexInv, ThreadInv, HeldInv
  <2>2. \A q \in Mutexes : MutexInv(q)'
    BY <1>1, <1>10 DEF HostLock, Goto, record, locals, IInv, TypeOK, MutexInv, ThreadInv
  <2>3. \A u \in Threads : ThreadInv(u)'
    BY <1>1, <1>10 DEF HostLock, Goto, record, locals, IInv, TypeOK, MutexInv, ThreadInv
  <2>4. \A u \in Threads, q \in Mutexes : HeldInv(u, q)'
    BY <1>1, <1>10 DEF HostLock, Goto, record, locals, IInv, TypeOK, MutexInv, ThreadInv, HeldInv
  <2>5. QED
    BY <2>1, <2>2, <2>3, <2>4 DEF IInv
<1>11. ASSUME NEW t \in Threads, HostLockFails(t)
      PROVE  IInv'
  <2>1. TypeOK'
    BY <1>1, <1>11 DEF HostLockFails, Return, Goto, host, record, IInv, TypeOK, PCs, Ops, Waits, MutexInv, ThreadInv, HeldInv
  <2>2. \A q \in Mutexes : MutexInv(q)'
    BY <1>1, <1>11 DEF HostLockFails, Return, Goto, host, record, IInv, TypeOK, MutexInv, ThreadInv
  <2>3. \A u \in Threads : ThreadInv(u)'
    BY <1>1, <1>11 DEF HostLockFails, Return, Goto, host, record, IInv, TypeOK, MutexInv, ThreadInv
  <2>4. \A u \in Threads, q \in Mutexes : HeldInv(u, q)'
    BY <1>1, <1>11 DEF HostLockFails, Return, Goto, host, record, IInv, TypeOK, MutexInv, ThreadInv, HeldInv
  <2>5. QED
    BY <2>1, <2>2, <2>3, <2>4 DEF IInv
<1>12. ASSUME NEW t \in Threads, RecordNested(t)
      PROVE  IInv'
  <2>1. TypeOK'
    BY <1>1, <1>12 DEF RecordNested, Granted, Return, Goto, host, IInv, TypeOK, PCs, Ops, Waits, MutexInv, ThreadInv, HeldInv
  <2>2. \A q \in Mutexes : MutexInv(q)'
    BY <1>1, <1>12 DEF RecordNested, Granted, Return, Goto, host, IInv, TypeOK, MutexInv, ThreadInv
  <2>3. \A u \in Threads : ThreadInv(u)'
    BY <1>1, <1>12 DEF RecordNested, Granted, Return, Goto, host, IInv, TypeOK, MutexInv, ThreadInv
  <2>4. \A u \in Threads, q \in Mutexes : HeldInv(u, q)'
    BY <1>1, <1>12 DEF RecordNested, Granted, Return, Goto, host, IInv, TypeOK, MutexInv, ThreadInv, HeldInv
  <2>5. QED
    BY <2>1, <2>2, <2>3, <2>4 DEF IInv
<1>13. ASSUME NEW t \in Threads, RecordDepth(t)
      PROVE  IInv'
  <2>1. TypeOK'
    BY <1>1, <1>13 DEF RecordDepth, Goto, host, locals, IInv, TypeOK, PCs, Ops, Waits, MutexInv, ThreadInv, HeldInv
  <2>2. \A q \in Mutexes : MutexInv(q)'
    BY <1>1, <1>13 DEF RecordDepth, Goto, host, locals, IInv, TypeOK, MutexInv, ThreadInv
  <2>3. \A u \in Threads : ThreadInv(u)'
    BY <1>1, <1>13 DEF RecordDepth, Goto, host, locals, IInv, TypeOK, MutexInv, ThreadInv
  <2>4. \A u \in Threads, q \in Mutexes : HeldInv(u, q)'
    BY <1>1, <1>13 DEF RecordDepth, Goto, host, locals, IInv, TypeOK, MutexInv, ThreadInv, HeldInv
  <2>5. QED
    BY <2>1, <2>2, <2>3, <2>4 DEF IInv
<1>14. ASSUME NEW t \in Threads, RecordOwner(t)
      PROVE  IInv'
  <2>1. TypeOK'
    BY <1>1, <1>14 DEF RecordOwner, Granted, Return, Goto, host, IInv, TypeOK, PCs, Ops, Waits, MutexInv, ThreadInv, HeldInv
  <2>2. \A q \in Mutexes : MutexInv(q)'
    BY <1>1, <1>14 DEF RecordOwner, Granted, Return, Goto, host, IInv, TypeOK, MutexInv, ThreadInv
  <2>3. \A u \in Threads : ThreadInv(u)'
    BY <1>1, <1>14 DEF RecordOwner, Granted, Return, Goto, host, IInv, TypeOK, MutexInv, ThreadInv
  <2>4. \A u \in Threads, q \in Mutexes : HeldInv(u, q)'
    BY <1>1, <1>14 DEF RecordOwner, Granted, Return, Goto, host, IInv, TypeOK, MutexInv, ThreadInv, HeldInv
  <2>5. QED
    BY <2>1, <2>2, <2>3, <2>4 DEF IInv
<1>15. ASSUME NEW t \in Threads, ReleaseRefused(t)
      PROVE  IInv'
  <2>1. TypeOK'
    BY <1>1, <1>15 DEF ReleaseRefused, Return, Goto, host, record, IInv, TypeOK, PCs, Ops, Waits, MutexInv, ThreadInv, HeldInv
  <2>2. \A q \in Mutexes : MutexInv(q)'
    BY <1>1, <1>15 DEF ReleaseRefused, Return, Goto, host, record, IInv, TypeOK, MutexInv, ThreadInv
  <2>3. \A u \in Threads : ThreadInv(u)'
    BY <1>1, <1>15 DEF ReleaseRefused, Return, Goto, host, record, IInv, TypeOK, MutexInv, ThreadInv
  <2>4. \A u \in Threads, q \in Mutexes : HeldInv(u, q)'
    BY <1>1, <1>15 DEF ReleaseRefused, Return, Goto, host, record, IInv, TypeOK, MutexInv, ThreadInv, HeldInv
  <2>5. QED
    BY <2>1, <2>2, <2>3, <2>4 DEF IInv
<1>16. ASSUME NEW t \in Threads, ReleaseNested(t)
      PROVE  IInv'
  <2>1. TypeOK'
    <3>1. mtx[t] \in Mutexes /\ recDepth[mtx[t]] - 1 \in Nat
      BY <1>1, <1>16 DEF ReleaseNested, TypeOK
    <3>2. held[t][mtx[t]] - 1 \in Nat
      BY <1>1, <1>16, <3>1 DEF ReleaseNested, Owns, IInv, HeldInv
    <3>3. held' \in [Threads -> [Mutexes -> Nat]]
      <4>1. CASE op[t] \in Waits
        <5>1. UNCHANGED held
          BY <1>16, <4>1 DEF ReleaseNested
        <5>2. QED
          BY <1>1, <5>1 DEF TypeOK
      <4>2. CASE op[t] \notin Waits
        <5>1. held' = [held EXCEPT ![t][mtx[t]] = @ - 1]
          BY <1>16, <4>2 DEF ReleaseNested, GivenUp
        <5>2. QED
          BY <1>1, <3>1, <3>2, <5>1 DEF TypeOK
      <4>3. QED
        BY <4>1, <4>2
    <3>4. pc' \in [Threads -> PCs] /\ \A u \in Threads : pc'[u] # "idle" => mtx[u] \in Mutexes
      <4>1. PICK l \in {"restoreDepth", "hostUnlock"} : pc' = [pc EXCEPT ![t] = l]
        BY <1>16 DEF ReleaseNested, Goto
      <4>2. QED
        BY <1>1, <3>1, <4>1 DEF TypeOK, PCs
    <3>5. recDepth' \in [Mutexes -> Nat] /\ prev' \in [Threads -> Nat]
      BY <1>1, <1>16, <3>1 DEF ReleaseNested, TypeOK
    <3>6. QED
      BY <1>1, <1>16, <3>3, <3>4, <3>5 DEF ReleaseNested, host, TypeOK
  <2>2. \A q \in Mutexes : MutexInv(q)'
    BY <1>1, <1>16 DEF ReleaseNested, Owns, GivenUp, Goto, host, IInv, TypeOK, MutexInv, ThreadInv
  <2>3. \A u \in Threads : ThreadInv(u)'
    BY <1>1, <1>16 DEF ReleaseNested, Owns, GivenUp, Goto, host, IInv, TypeOK, MutexInv, ThreadInv
  <2>4. \A u \in Threads, q \in Mutexes : HeldInv(u, q)'
    BY <1>1, <1>16 DEF ReleaseNested, Owns, GivenUp, Goto, host, IInv, TypeOK, MutexInv, ThreadInv, HeldInv
  <2>5. QED
    BY <2>1, <2>2, <2>3, <2>4 DEF IInv
<1>17. ASSUME NEW t \in Threads, ReleaseLast(t)
      PROVE  IInv'
  <2>1. TypeOK'
    <3>1. mtx[t] \in Mutexes /\ held[t][mtx[t]] - 1 \in Nat
      <4>1. mtx[t] \in Mutexes /\ pc[t] = "release" /\ recOwner[mtx[t]] = t /\ recDepth[mtx[t]] = 1
        BY <1>1, <1>17 DEF ReleaseLast, Owns, TypeOK
      <4>2. QED
        BY <1>1, <4>1 DEF IInv, HeldInv
    <3>2. held' \in [Threads -> [Mutexes -> Nat]]
      BY <1>1, <1>17, <3>1 DEF ReleaseLast, GivenUp, TypeOK
    <3>3. pc' \in [Threads -> PCs] /\ \A u \in Threads : pc'[u] # "idle" => mtx[u] \in Mutexes
      BY <1>1, <1>17, <3>1 DEF ReleaseLast, Goto, TypeOK, PCs
    <3>4. recOwner' \in [Mutexes -> Threads \union {Nobody}] /\ prev' \in [Threads -> Nat]
      BY <1>1, <1>17, <3>1 DEF ReleaseLast, TypeOK
    <3>5. QED
      BY <1>1, <1>17, <3>2, <3>3, <3>4 DEF ReleaseLast, host, TypeOK
  <2>2. \A q \in Mutexes : MutexInv(q)'
    BY <1>1, <1>17 DEF ReleaseLast, Owns, GivenUp, Goto, host, IInv, TypeOK, MutexInv, ThreadInv
  <2>3. \A u \in Threads : ThreadInv(u)'
    <3>1. /\ mtx[t] \in Mutexes
          /\ recOwner[mtx[t]] = t
          /\ hostOwner[mtx[t]] = t
          /\ hostCount[mtx[t]] = 1
          /\ recDepth[mtx[t]] = 1
      <4>1. /\ mtx[t] \in Mutexes
            /\ recOwner[mtx[t]] = t
            /\ recDepth[mtx[t]] = 1
            /\ pc[t] = "release"
        BY <1>1, <1>17 DEF ReleaseLast, Owns, TypeOK
      <4>2. MutexInv(mtx[t])
        BY <4>1 DEF IInv
      <4>3. QED
        BY <4>1, <4>2 DEF MutexInv
    <3>2. ThreadInv(t)'
      BY <1>1, <1>17, <3>1 DEF ReleaseLast, Goto, host, TypeOK, ThreadInv
    <3>3. ASSUME NEW u \in Threads, u # t PROVE ThreadInv(u)'
      <4>1. /\ pc'[u] = pc[u] /\ prev'[u] = prev[u]
            /\ mtx[u] # mtx[t] => recOwner'[mtx[u]] = recOwner[mtx[u]]
        BY <1>1, <1>17, <3>1, <3>3 DEF ReleaseLast, Goto, TypeOK
      <4>2. UNCHANGED <<host, recDepth, mtx>>
        BY <1>17 DEF ReleaseLast
      <4>3. ThreadInv(u)
        BY DEF IInv
      <4>4. CASE pc[u] \in BusyPCs
        <5>1. mtx[u] # mtx[t]
          BY <3>1, <3>3, <4>3, <4>4 DEF ThreadInv
        <5>2. QED
          BY <4>1, <4>2, <4>3, <4>4, <5>1 DEF host, ThreadInv
      <4>5. CASE pc[u] \notin BusyPCs
        BY <4>1, <4>5 DEF ThreadInv
      <4>6. QED
        BY <4>4, <4>5
    <3>4. QED
      BY <3>2, <3>3
  <2>4. \A u \in Threads, q \in Mutexes : HeldInv(u, q)'
    BY <1>1, <1>17 DEF ReleaseLast, Owns, GivenUp, Goto, host, IInv, TypeOK, MutexInv, ThreadInv, HeldInv
  <2>5. QED
    BY <2>1, <2>2, <2>3, <2>4 DEF IInv
<1>18. ASSUME NEW t \in Threads, ClearDepth(t)
      PROVE  IInv'
  <2>1. TypeOK'
    BY <1>1, <1>18 DEF ClearDepth, Goto, host, locals, IInv, TypeOK, PCs, Ops, Waits, MutexInv, ThreadInv, HeldInv
  <2>2. \A q \in Mutexes : MutexInv(q)'
    BY <1>1, <1>18 DEF ClearDepth, Goto, host, locals, IInv, TypeOK, MutexInv, ThreadInv
  <2>3. \A u \in Threads : ThreadInv(u)'
    BY <1>1, <1>18 DEF ClearDepth, Goto, host, locals, IInv, TypeOK, MutexInv, ThreadInv
  <2>4. \A u \in Threads, q \in Mutexes : HeldInv(u, q)'
    BY <1>1, <1>18 DEF ClearDepth, Goto, host, locals, IInv, TypeOK, MutexInv, ThreadInv, HeldInv
  <2>5. QED
    BY <2>1, <2>2, <2>3, <2>4 DEF IInv
<1>19. ASSUME NEW t \in Threads, HostUnlock(t)
      PROVE  IInv'
  <2>1. TypeOK'
    BY <1>1, <1>19 DEF HostUnlock, Return, Goto, record, IInv, TypeOK, PCs, Ops, Waits, MutexInv, ThreadInv, HeldInv
  <2>2. \A q \in Mutexes : MutexInv(q)'
    BY <1>1, <1>19 DEF HostUnlock, Return, Goto, record, IInv, TypeOK, MutexInv, ThreadInv
  <2>3. \A u \in Threads : ThreadInv(u)'
    BY <1>1, <1>19 DEF HostUnlock, Return, Goto, record, IInv, TypeOK, MutexInv, ThreadInv
  <2>4. \A u \in Threads, q \in Mutexes : HeldInv(u, q)'
    BY <1>1, <1>19 DEF HostUnlock, Return, Goto, record, IInv, TypeOK, MutexInv, ThreadInv, HeldInv
  <2>5. QED
    BY <2>1, <2>2, <2>3, <2>4 DEF IInv
<1>20. ASSUME NEW t \in Threads, RestoreDepth(t)
      PROVE  IInv'
  <2>1. TypeOK'
    BY <1>1, <1>20 DEF RestoreDepth, Goto, host, locals, IInv, TypeOK, PCs, Ops, Waits, MutexInv, ThreadInv, HeldInv
  <2>2. \A q \in Mutexes : MutexInv(q)'
    BY <1>1, <1>20 DEF RestoreDepth, Goto, host, locals, IInv, TypeOK, MutexInv, ThreadInv
  <2>3. \A u \in Threads : ThreadInv(u)'
    BY <1>1, <1>20 DEF RestoreDepth, Goto, host, locals, IInv, TypeOK, MutexInv, ThreadInv
  <2>4. \A u \in Threads, q \in Mutexes : HeldInv(u, q)'
    BY <1>1, <1>20 DEF RestoreDepth, Goto, host, locals, IInv, TypeOK, MutexInv, ThreadInv, HeldInv
  <2>5. QED
    BY <2>1, <2>2, <2>3, <2>4 DEF IInv
<1>21. ASSUME NEW t \in Threads, RestoreOwner(t)
      PROVE  IInv'
  <2>1. TypeOK'
    BY <1>1, <1>21 DEF RestoreOwner, Return, Goto, host, IInv, TypeOK, PCs, Ops, Waits, MutexInv, ThreadInv, HeldInv
  <2>2. \A q \in Mutexes : MutexInv(q)'
    BY <1>1, <1>21 DEF RestoreOwner, Return, Goto, host, IInv, TypeOK, MutexInv, ThreadInv
  <2>3. \A u \in Threads : ThreadInv(u)'
    BY <1>1, <1>21 DEF RestoreOwner, Return, Goto, host, IInv, TypeOK, MutexInv, ThreadInv
  <2>4. \A u \in Threads, q \in Mutexes : HeldInv(u, q)'
    BY <1>1, <1>21 DEF RestoreOwner, Return, Goto, host, IInv, TypeOK, MutexInv, ThreadInv, HeldInv
  <2>5. QED
    BY <2>1, <2>2, <2>3, <2>4 DEF IInv
<1>22. ASSUME NEW t \in Threads, HostWait(t)
      PROVE  IInv'
  <2>1. TypeOK'
    <3>1. mtx[t] \in Mutexes /\ hostCount[mtx[t]] = 1
      BY <1>1, <1>22 DEF HostWait, IInv, TypeOK, ThreadInv
    <3>2. hostCount' \in [Mutexes -> Nat] /\ hostOwner' \in [Mutexes -> Threads \union {Nobody}]
      BY <1>1, <1>22, <3>1 DEF HostWait, TypeOK
    <3>3. waiters' \in [Conds -> SUBSET Threads] /\ pc' \in [Threads -> PCs]
      BY <1>1, <1>22 DEF HostWait, Goto, TypeOK, PCs
    <3>4. \A u \in Threads : pc'[u] # "idle" => mtx[u] \in Mutexes
      BY <1>1, <1>22, <3>1 DEF HostWait, Goto, TypeOK
    <3>5. QED
      BY <1>1, <1>22, <3>2, <3>3, <3>4 DEF HostWait, record, locals, TypeOK
  <2>2. \A q \in Mutexes : MutexInv(q)'
    BY <1>1, <1>22 DEF HostWait, Goto, record, locals, IInv, TypeOK, MutexInv, ThreadInv
  <2>3. \A u \in Threads : ThreadInv(u)'
    BY <1>1, <1>22 DEF HostWait, Goto, record, locals, IInv, TypeOK, MutexInv, ThreadInv
  <2>4. \A u \in Threads, q \in Mutexes : HeldInv(u, q)'
    BY <1>1, <1>22 DEF HostWait, Goto, record, locals, IInv, TypeOK, MutexInv, ThreadInv, HeldInv
  <2>5. QED
    BY <2>1, <2>2, <2>3, <2>4 DEF IInv
<1>23. ASSUME NEW t \in Threads, HostWaitRefused(t)
      PROVE  IInv'
  <2>1. TypeOK'
    BY <1>1, <1>23 DEF HostWaitRefused, Goto, host, record, locals, IInv, TypeOK, PCs, Ops, Waits, MutexInv, ThreadInv, HeldInv
  <2>2. \A q \in Mutexes : MutexInv(q)'
    BY <1>1, <1>23 DEF HostWaitRefused, Goto, host, record, locals, IInv, TypeOK, MutexInv, ThreadInv
  <2>3. \A u \in Threads : ThreadInv(u)'
    BY <1>1, <1>23 DEF HostWaitRefused, Goto, host, record, locals, IInv, TypeOK, MutexInv, ThreadInv
  <2>4. \A u \in Threads, q \in Mutexes : HeldInv(u, q)'
    BY <1>1, <1>23 DEF HostWaitRefused, Goto, host, record, locals, IInv, TypeOK, MutexInv, ThreadInv, HeldInv
  <2>5. QED
    BY <2>1, <2>2, <2>3, <2>4 DEF IInv
<1>24. ASSUME NEW t \in Threads, LeaveWait(t)
      PROVE  IInv'
  <2>1. TypeOK'
    <3>1. waiters' \in [Conds -> SUBSET Threads]
      BY <1>1, <1>24 DEF LeaveWait, TypeOK
    <3>2. QED
      BY <1>1, <1>24, <3>1 DEF LeaveWait, record, locals, TypeOK
  <2>2. \A q \in Mutexes : MutexInv(q)'
    BY <1>1, <1>24 DEF LeaveWait, record, locals, IInv, TypeOK, MutexInv, ThreadInv
  <2>3. \A u \in Threads : ThreadInv(u)'
    BY <1>1, <1>24 DEF LeaveWait, record, locals, IInv, TypeOK, MutexInv, ThreadInv
  <2>4. \A u \in Threads, q \in Mutexes : HeldInv(u, q)'
    BY <1>1, <1>24 DEF LeaveWait, record, locals, IInv, TypeOK, MutexInv, ThreadInv, HeldInv
  <2>5. QED
    BY <2>1, <2>2, <2>3, <2>4 DEF IInv
<1>25. ASSUME NEW t \in Threads, HostReacquire(t)
      PROVE  IInv'
  <2>1. TypeOK'
    BY <1>1, <1>25 DEF HostReacquire, Goto, record, locals, IInv, TypeOK, PCs, Ops, Waits, MutexInv, ThreadInv, HeldInv
  <2>2. \A q \in Mutexes : MutexInv(q)'
    BY <1>1, <1>25 DEF HostReacquire, Goto, record, locals, IInv, TypeOK, MutexInv, ThreadInv
  <2>3. \A u \in Threads : ThreadInv(u)'
    BY <1>1, <1>25 DEF HostReacquire, Goto, record, locals, IInv, TypeOK, MutexInv, ThreadInv
  <2>4. \A u \in Threads, q \in Mutexes : HeldInv(u, q)'
    BY <1>1, <1>25 DEF HostReacquire, Goto, record, locals, IInv, TypeOK, MutexInv, ThreadInv, HeldInv
  <2>5. QED
    BY <2>1, <2>2, <2>3, <2>4 DEF IInv
<1>26. QED
  BY <1>2, <1>3, <1>4, <1>5, <1>6, <1>7, <1>8, <1>9, <1>10, <1>11, <1>12, <1>13, <1>14, <1>15, <1>16, <1>17, <1>18, <1>19, <1>20, <1>21, <1>22, <1>23, <1>24, <1>25
     DEF Next, Call, Acquire, Release, Wait

LEMMA InvInitially == Init => IInv
  BY MutexAssumption
     DEF Init, IInv, TypeOK, PCs, Ops, Waits, MutexInv, ThreadInv, HeldInv, BusyPCs

THEOREM Invariance == Spec => []IInv
  BY InvInitially, InvStep, PTL DEF Spec

-----------------------------------------------------------------------------

\* Every variable keeps its type: no depth and no count goes below zero.
THEOREM TypeCorrect == Spec => []TypeOK
<1>1. IInv => TypeOK
  BY DEF IInv
<1>2. QED
  BY <1>1, Invariance, PTL

\* The owner record of a mutex is never ahead of the host mutex.
THEOREM RecordSound == Spec => []RecordImpliesHost
<1>1. IInv => RecordImpliesHost
  BY DEF IInv, MutexInv, RecordImpliesHost
<1>2. QED
  BY <1>1, Invariance, PTL

\* The host is asked to unlock, and to wait, only by the owner of the mutex.
THEOREM HostCalls == Spec => []HostCallsOwned
<1>1. IInv => HostCallsOwned
  BY DEF IInv, ThreadInv, BusyPCs, Unrecorded, HostCallsOwned
<1>2. QED
  BY <1>1, Invariance, PTL

\* Between calls the host, the record and the return codes agree.
THEOREM Idle == Spec => []IdleAgreement
<1>1. ASSUME IInv PROVE IdleAgreement
  <2>1. SUFFICES ASSUME NEW t \in Threads, NEW m \in Mutexes, pc[t] = "idle"
                 PROVE  /\ hostOwner[m] = t <=> recOwner[m] = t
                        /\ hostOwner[m] = t => hostCount[m] = recDepth[m]
                        /\ held[t][m] = IF recOwner[m] = t THEN recDepth[m] ELSE 0
    BY DEF IdleAgreement
  <2>2. MutexInv(m) /\ HeldInv(t, m)
    BY <1>1 DEF IInv
  <2>3. QED
    BY <2>1, <2>2, MutexAssumption DEF MutexInv, HeldInv, Busy, BusyPCs, Agrees
<1>2. QED
  BY <1>1, Invariance, PTL

\* Whoever writes the record of a mutex owns the host mutex throughout.
THEOREM WrittenByOwner == Spec => RecordWrittenByOwner
<1> DEFINE Written(m) ==
      (recOwner'[m] # recOwner[m] \/ recDepth'[m] # recDepth[m]) =>
          /\ hostOwner[m] # Nobody
          /\ hostOwner'[m] = hostOwner[m]
          /\ recOwner'[m] \in {Nobody, hostOwner[m]}
<1>1. ASSUME IInv, [Next]_vars, NEW m \in Mutexes
      PROVE  Written(m)
  <2>1. CASE UNCHANGED record
    BY <2>1 DEF record
  <2>2. ASSUME NEW t \in Threads,
               \/ RecordNested(t) \/ RecordDepth(t) \/ RecordOwner(t) \/ ReleaseNested(t)
               \/ ReleaseLast(t) \/ ClearDepth(t) \/ RestoreDepth(t) \/ RestoreOwner(t)
        PROVE  Written(m)
    <3> USE DEF record, host
    <3>1. /\ UNCHANGED hostOwner
          /\ recDepth' = [recDepth EXCEPT ![mtx[t]] = recDepth'[mtx[t]]]
          /\ \E o \in {recOwner[mtx[t]], Nobody, t} :
                recOwner' = [recOwner EXCEPT ![mtx[t]] = o]
      BY <1>1, <2>2
         DEF IInv, TypeOK, RecordNested, RecordDepth, RecordOwner, ReleaseNested, ReleaseLast,
             ClearDepth, RestoreDepth, RestoreOwner
    <3>2. hostOwner[mtx[t]] = t
      BY <1>1, <2>2, MutexAssumption
         DEF IInv, TypeOK, MutexInv, ThreadInv, BusyPCs, Owns,
             RecordNested, RecordDepth, RecordOwner, ReleaseNested, ReleaseLast,
             ClearDepth, RestoreDepth, RestoreOwner
    <3>3. recOwner[m] \in {Nobody, hostOwner[m]}
      BY <1>1 DEF IInv, MutexInv
    <3>4. mtx[t] \in Mutexes
      BY <1>1, <2>2
         DEF IInv, TypeOK, RecordNested, RecordDepth, RecordOwner, ReleaseNested, ReleaseLast,
             ClearDepth, RestoreDepth, RestoreOwner
    <3>5. QED
      BY <1>1, <3>1, <3>2, <3>3, <3>4, MutexAssumption DEF IInv, TypeOK
  <2>3. QED
    BY <1>1, <2>1, <2>2
       DEF vars, Next, Call, Acquire, Release, Wait, record, locals, host,
           BeginLock, BeginUnlock, BeginWait, HandoffBegin, HandoffEnd, Signal, Broadcast,
           HostLock, HostLockFails, ReleaseRefused, HostUnlock,
           HostWait, HostWaitRefused, LeaveWait, HostReacquire
<1>2. IInv /\ [Next]_vars => [\A m \in Mutexes : Written(m)]_vars
  BY <1>1
<1>3. QED
  BY <1>2, Invariance, PTL DEF Spec, RecordWrittenByOwner

\* Mutual exclusion: seen through the return codes, the bridge's mutexes are
\* mutexes, recursive ones included, and a wait gives up and takes back its own.
THEOREM ImplementsApi == Spec => MutexApiHolds
<1>1. Init => Api!Init
  BY DEF Init, Api!Init
<1>2. ASSUME IInv, [Next]_vars PROVE [Api!Next]_held
  <2>1. CASE UNCHANGED held
    BY <2>1
  <2>2. ASSUME NEW t \in Threads, RecordNested(t) \/ RecordOwner(t) PROVE Api!Next
    <3>1. /\ mtx[t] \in Mutexes
          /\ hostOwner[mtx[t]] = t
          /\ held' = [held EXCEPT ![t][mtx[t]] = @ + 1]
      BY <1>2, <2>2 DEF IInv, TypeOK, ThreadInv, BusyPCs, RecordNested, RecordOwner, Granted
    <3>2. \A u \in Threads \ {t} : held[u][mtx[t]] = 0
      BY <1>2, <3>1, MutexAssumption DEF IInv, MutexInv, HeldInv
    <3>3. held[t][mtx[t]] = 0 \/ mtx[t] \in Recursive
      <4>1. CASE RecordNested(t)
        BY <1>2, <3>1, <4>1, MutexAssumption
           DEF IInv, TypeOK, MutexInv, ThreadInv, RecordNested, Lags, Unrecorded
      <4>2. CASE RecordOwner(t)
        BY <1>2, <3>1, <4>2, MutexAssumption
           DEF IInv, ThreadInv, HeldInv, RecordOwner, Unrecorded
      <4>3. QED
        BY <2>2, <4>1, <4>2
    <3>4. QED
      BY <3>1, <3>2, <3>3 DEF Api!Next, Api!Lock
  <2>3. ASSUME NEW t \in Threads, ReleaseNested(t) \/ ReleaseLast(t), held' # held
        PROVE  Api!Next
    <3>1. mtx[t] \in Mutexes /\ held' = [held EXCEPT ![t][mtx[t]] = @ - 1]
      BY <1>2, <2>3 DEF IInv, TypeOK, ReleaseNested, ReleaseLast, GivenUp
    <3>2. held[t][mtx[t]] > 0
      BY <1>2, <2>3, <3>1 DEF IInv, TypeOK, HeldInv, ReleaseNested, ReleaseLast, Owns
    <3>3. QED
      BY <3>1, <3>2 DEF Api!Next, Api!Unlock
  <2>4. QED
    BY <1>2, <2>1, <2>2, <2>3
       DEF vars, Next, Call, Acquire, Release, Wait,
           BeginLock, BeginUnlock, BeginWait, HandoffBegin, HandoffEnd, Signal, Broadcast,
           HostLock, HostLockFails, RecordDepth, ReleaseRefused, ClearDepth, HostUnlock,
           RestoreDepth, RestoreOwner, HostWait, HostWaitRefused, LeaveWait, HostReacquire
<1>3. QED
  BY <1>1, <1>2, Invariance, PTL DEF Spec, MutexApiHolds, Api!Spec

=============================================================================
