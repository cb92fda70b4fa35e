------------------------- MODULE GuestRegistryProofs -------------------------
(***************************************************************************)
(* Proofs about GuestRegistry, for every number of threads, slots and      *)
(* objects.                                                                *)
(*                                                                         *)
(* NoSpuriousMiss is not inductive: that a walk finds its object needs     *)
(* the shape of the chain.  Objects are numbered by age and the chain runs *)
(* from younger to older, so the argument is that no link, not even one    *)
(* kept by a retired object, ever jumps over an object still on the chain. *)
(* The same order makes every walk end.                                    *)
(***************************************************************************)
EXTENDS GuestRegistry, TLAPS

\* registry_lock is held exactly in the critical sections.
LockInv == \A t \in Threads : pc[t] \in CriticalPCs <=> lock = t

\* The POSIX rule the guest follows, kept along the calls.
ExclusiveInv ==
    \A t, u \in Threads :
        t # u /\ pc[t] # "idle" /\ pc[u] # "idle" /\ slot[t] = slot[u]
            => call[t] \notin Exclusive

\* No link jumps over a linked object.
ChainInv ==
    /\ linked \in SUBSET (1 .. last)
    /\ head \in 0 .. last
    /\ \A o \in linked : o <= head
    /\ \A c \in 1 .. last : next[c] < c
    /\ \A c \in 1 .. last : \A o \in linked : o < c => o <= next[c]

\* A handle in a slot names a linked object of that slot.
WordInv ==
    \A s \in Slots : word[s] # Nil =>
        /\ word[s] \in linked
        /\ owner[word[s]] = s
        /\ \/ active[word[s]]
           \/ \E t \in Threads : pc[t] = "clear" /\ slot[t] = s

\* An active object is named by its slot or is about to be.
ActiveInv ==
    \A o \in Objects : active[o] =>
        /\ o <= last
        /\ \/ word[owner[o]] = o
           \/ \E t \in Threads : pc[t] \in {"link", "word"} /\ obj[t] = o

\* The thread's object is the live object of its slot.
Holds(t, o) ==
    /\ o \in linked
    /\ active[o]
    /\ owner[o] = slot[t]
    /\ word[slot[t]] = o

ThreadInv(t) ==
    /\ pc[t] \in {"head", "walk"} => Holds(t, raw[t])
    /\ pc[t] = "walk" => raw[t] <= cur[t] /\ cur[t] <= last
    /\ pc[t] = "miss" => raw[t] = Nil
    /\ pc[t] \in {"found", "use", "retire", "deactivate"} => Holds(t, obj[t])
    /\ pc[t] = "link" => /\ obj[t] = last
                         /\ last \in Objects
                         /\ last \notin linked
                         /\ next[last] = head
                         /\ head < last
                         /\ active[last]
                         /\ owner[last] = slot[t]
                         /\ word[slot[t]] = Nil
    /\ pc[t] = "word" => /\ obj[t] \in linked
                         /\ active[obj[t]]
                         /\ owner[obj[t]] = slot[t]
                         /\ word[slot[t]] = Nil
    /\ pc[t] \in {"clear", "unlink"} => /\ obj[t] \in linked
                                        /\ ~active[obj[t]]
                                        /\ owner[obj[t]] = slot[t]
    /\ pc[t] = "clear" => word[slot[t]] = obj[t]
    /\ pc[t] = "unlink" => word[slot[t]] = Nil
    /\ pc[t] \in {"retire", "deactivate", "clear", "unlink"} => call[t] \in {"destroy", "drop"}
    /\ pc[t] = "retire" => call[t] = "destroy"
    /\ call[t] = "drop" => pc[t] \in {"idle", "lock", "recheck", "deactivate", "clear", "unlink"}
    /\ call[t] = "init" => pc[t] \in {"idle", "lock", "recheck", "link", "word"}

IInv ==
    /\ TypeOK
    /\ LockInv
    /\ ExclusiveInv
    /\ ChainInv
    /\ WordInv
    /\ ActiveInv
    /\ \A t \in Threads : ThreadInv(t)

-----------------------------------------------------------------------------

LEMMA TypeInitially == Init => TypeOK
<1>1. Init => AnySlot \in Slots
  BY RegistryAssumption DEF AnySlot
<1>2. QED
  BY <1>1, RegistryAssumption DEF Init, TypeOK, Objects, Nil, Calls, PCs, CriticalPCs, ObjectPCs

LEMMA TypeStep == TypeOK /\ [Next]_vars => TypeOK'
<1> SUFFICES ASSUME TypeOK, [Next]_vars PROVE TypeOK'
  OBVIOUS
<1>1. AnySlot \in Slots
  BY RegistryAssumption DEF AnySlot
<1>2. CASE UNCHANGED vars
  BY <1>2 DEF vars, shared, locals, TypeOK
<1>3. ASSUME NEW t \in Threads, NEW s \in Slots, NEW k \in Calls, Begin(t, s, k)
      PROVE  TypeOK'
  BY <1>3 DEF Begin, Locked, Goto, shared, TypeOK, PCs, CriticalPCs, ObjectPCs
<1>4. ASSUME NEW t \in Threads, Step(t)
      PROVE  TypeOK'
  <2> USE <1>1, RegistryAssumption DEF Objects, Nil, Calls, PCs, CriticalPCs, ObjectPCs
  <2>1. CASE LoadWord(t)
    BY <2>1 DEF LoadWord, Goto, shared, TypeOK
  <2>2. CASE LoadHead(t)
    BY <2>2 DEF LoadHead, StandOn, Goto, shared, TypeOK
  <2>3. CASE WalkFound(t)
    BY <2>3 DEF WalkFound, Goto, shared, TypeOK
  <2>4. CASE WalkNext(t)
    BY <2>4 DEF WalkNext, StandOn, Goto, shared, TypeOK
  <2>6. CASE MissReturns(t)
    BY <2>6 DEF MissReturns, Return, Goto, shared, TypeOK
  <2>7. CASE MissLocks(t)
    BY <2>7 DEF MissLocks, Goto, shared, locals, TypeOK
  <2>8. CASE Found(t)
    BY <2>8 DEF Found, Goto, shared, locals, TypeOK
  <2>9. CASE Use(t)
    BY <2>9 DEF Use, Return, Goto, shared, TypeOK
  <2>10. CASE AcquireLock(t)
    BY <2>10 DEF AcquireLock, Goto, shared, locals, TypeOK
  <2>11. CASE RecheckFound(t)
    BY <2>11 DEF RecheckFound, Registered, Goto, shared, TypeOK
  <2>12. CASE LockedRefuses(t)
    BY <2>12 DEF LockedRefuses, Return, Goto, shared, TypeOK
  <2>13. CASE Allocate(t)
    BY <2>13 DEF Allocate, Goto, TypeOK
  <2>14. CASE CreateFails(t)
    BY <2>14 DEF CreateFails, Return, Goto, shared, TypeOK
  <2>15. CASE PublishHead(t)
    BY <2>15 DEF PublishHead, Goto, locals, TypeOK
  <2>16. CASE PublishWord(t)
    <3>1. stats' \in [created : Nat, active : Nat, retired : Nat]
      BY <2>16 DEF PublishWord, TypeOK
    <3>2. word' \in [Slots -> Objects \union {Nil}]
      BY <2>16 DEF PublishWord, TypeOK, ObjectPCs
    <3>3. lock' \in Threads \union {NoThread}
      BY <2>16 DEF PublishWord
    <3>4. CASE call[t] = "init"
      <4>1. Return(t) /\ UNCHANGED <<head, next, owner, active, last, linked>>
        BY <2>16, <3>4 DEF PublishWord
      <4>2. QED
        BY <3>1, <3>2, <3>3, <4>1 DEF Return, Goto, TypeOK
    <3>5. CASE call[t] # "init"
      <4>1. Goto(t, "found") /\ UNCHANGED <<locals, head, next, owner, active, last, linked>>
        BY <2>16, <3>5 DEF PublishWord
      <4>2. obj[t] \in Objects
        BY <2>16 DEF PublishWord, TypeOK, ObjectPCs
      <4>3. QED
        BY <3>1, <3>2, <3>3, <4>1, <4>2 DEF Goto, locals, TypeOK
    <3>6. QED
      BY <3>4, <3>5
  <2>17. CASE BeginRetire(t)
    BY <2>17 DEF BeginRetire, Goto, shared, locals, TypeOK
  <2>18. CASE HostBusy(t)
    BY <2>18 DEF HostBusy, Return, Goto, shared, TypeOK
  <2>19. CASE Deactivate(t)
    BY <2>19 DEF Deactivate, Goto, locals, TypeOK
  <2>20. CASE ClearWord(t)
    BY <2>20 DEF ClearWord, Goto, locals, TypeOK
  <2>21. CASE Unlink(t)
    <3>1. stats' \in [created : Nat, active : Nat, retired : Nat]
      BY <2>21 DEF Unlink, TypeOK
    <3>2. next' \in [Objects -> Objects \union {Nil}]
      BY <2>21 DEF Unlink, TypeOK, ObjectPCs
    <3>3. head' \in Objects \union {Nil} /\ linked' \in SUBSET Objects
      BY <2>21 DEF Unlink, TypeOK, ObjectPCs
    <3>4. QED
      BY <2>21, <3>1, <3>2, <3>3 DEF Unlink, Return, Goto, TypeOK
  <2>22. CASE RecheckDrops(t)
    BY <2>22 DEF RecheckDrops, Registered, Goto, shared, TypeOK
  <2>23. QED
    BY <2>22, <1>4, <2>1, <2>2, <2>3, <2>4, <2>6, <2>7, <2>8, <2>9, <2>10, <2>11, <2>12, <2>13, <2>14, <2>15, <2>16, <2>17, <2>18, <2>19, <2>20, <2>21
       DEF Step, Lookup, Miss, Create, Retire
<1>5. QED
  BY <1>2, <1>3, <1>4 DEF Next

\* A step keeps the invariant: by what changes in it, one conjunct at a time.
LEMMA InvStep == IInv /\ [Next]_vars => IInv'
<1> SUFFICES ASSUME IInv, [Next]_vars PROVE IInv'
  OBVIOUS
<1> USE RegistryAssumption DEF Objects, Nil
<1>1. TypeOK /\ TypeOK'
  BY TypeStep DEF IInv
<1>2. CASE UNCHANGED vars
  BY <1>1, <1>2 DEF vars, shared, locals, IInv, LockInv, ExclusiveInv, ChainInv,
     WordInv, ActiveInv, ThreadInv, Holds
<1>3. ASSUME NEW t \in Threads, \E s \in Slots, k \in Calls : Begin(t, s, k)
      PROVE  IInv'
  <2>1. LockInv'
    BY <1>1, <1>3
         DEF IInv, TypeOK, ObjectPCs, Begin, Locked, MayBegin, Goto, shared,
             LockInv, CriticalPCs
  <2>2. ExclusiveInv'
    BY <1>1, <1>3
         DEF IInv, TypeOK, ObjectPCs, Begin, Locked, MayBegin, Goto, shared,
             ExclusiveInv, Exclusive
  <2>3. ChainInv'
    <3>1. UNCHANGED <<head, next, last, linked>>
      BY <1>3 DEF Begin, shared
    <3>2. QED
      BY <3>1 DEF IInv, ChainInv
  <2>4. WordInv'
    BY <1>1, <1>3
         DEF IInv, TypeOK, ObjectPCs, Begin, Locked, MayBegin, Goto, shared,
             WordInv, LockInv, CriticalPCs, ThreadInv, Holds
  <2>5. ActiveInv'
    BY <1>1, <1>3
         DEF IInv, TypeOK, ObjectPCs, Begin, Locked, MayBegin, Goto, shared,
             ActiveInv, ChainInv, LockInv, CriticalPCs, ThreadInv, Holds
  <2>6. \A u \in Threads : ThreadInv(u)'
    BY <1>1, <1>3
         DEF IInv, TypeOK, ObjectPCs, Begin, Locked, MayBegin, Goto, shared,
             LockInv, CriticalPCs, ExclusiveInv, Exclusive, ChainInv,
             WordInv, ActiveInv, ThreadInv, Holds
  <2>7. QED
    BY <1>1, <2>1, <2>2, <2>3, <2>4, <2>5, <2>6 DEF IInv
<1>4. ASSUME NEW t \in Threads, Lookup(t)
      PROVE  IInv'
  <2>1. LockInv'
    BY <1>1, <1>4
         DEF IInv, TypeOK, ObjectPCs, Lookup, LoadWord, LoadHead, WalkFound, WalkNext, StandOn, Matches,
             Goto, shared, locals,
             LockInv, CriticalPCs
  <2>2. ExclusiveInv'
    <3>1. UNCHANGED <<call, slot>> /\ \A u \in Threads : pc[u] = "idle" => pc'[u] = "idle"
      BY <1>1, <1>4 DEF TypeOK, Lookup, LoadWord, LoadHead, WalkFound, WalkNext, StandOn,
                        Goto, shared, locals
    <3>2. QED
      BY <3>1 DEF IInv, ExclusiveInv
  <2>3. ChainInv'
    <3>1. UNCHANGED <<linked, head, next, last>>
      BY <1>4 DEF Lookup, LoadWord, LoadHead, WalkFound, WalkNext, shared
    <3>2. QED
      BY <3>1 DEF IInv, ChainInv
  <2>4. UNCHANGED shared /\ \A u \in Threads : pc[u] \in {"clear", "link", "word"} =>
                                 pc'[u] = pc[u] /\ slot'[u] = slot[u] /\ obj'[u] = obj[u]
    <3>1. UNCHANGED <<shared, slot>>
      BY <1>4 DEF Lookup, LoadWord, LoadHead, WalkFound, WalkNext
    <3>2. /\ pc[t] \in {"load", "head", "walk"}
          /\ \A u \in Threads \ {t} : pc'[u] = pc[u] /\ obj'[u] = obj[u]
      BY <1>1, <1>4 DEF TypeOK, Lookup, LoadWord, LoadHead, WalkFound, WalkNext, StandOn, Goto
    <3>3. QED
      BY <3>1, <3>2
  <2>5. WordInv' /\ ActiveInv'
    BY <2>4 DEF IInv, WordInv, ActiveInv, shared
  <2>6. ASSUME NEW u \in Threads PROVE ThreadInv(u)'
    <3>0. ASSUME NEW v \in Threads, pc[v] = "clear", pc[t] = "load"
          PROVE  slot[v] # slot[t]
      <4>1. call[v] \in Exclusive
        BY <3>0 DEF IInv, ThreadInv, Exclusive
      <4>2. QED
        BY <3>0, <4>1 DEF IInv, ExclusiveInv
    <3> USE <1>1 DEF IInv, TypeOK, ObjectPCs, ChainInv, WordInv, ThreadInv, Holds,
                     Goto, shared, locals
    <3>1. CASE LoadWord(t)
      <4>1. word[slot[t]] # Nil => Holds(t, word[slot[t]])
        BY <3>0, <3>1 DEF LoadWord
      <4>2. QED
        BY <3>1, <4>1 DEF LoadWord
    <3>2. CASE LoadHead(t)
      BY <3>2 DEF LoadHead, StandOn
    <3>3. CASE WalkFound(t)
      BY <3>3 DEF WalkFound, Matches
    <3>4. CASE WalkNext(t)
      BY <3>4 DEF WalkNext, StandOn, Matches
    <3>5. QED
      BY <1>4, <3>1, <3>2, <3>3, <3>4 DEF Lookup
  <2>7. QED
    BY <1>1, <2>1, <2>2, <2>3, <2>5, <2>6 DEF IInv
<1>5. ASSUME NEW t \in Threads, Miss(t) \/ Found(t) \/ Use(t) \/ HostBusy(t)
      PROVE  IInv'
  <2>1. LockInv'
    <3>1. UNCHANGED lock
      BY <1>5 DEF Miss, MissReturns, MissLocks, Found, Use, HostBusy
    <3>2. pc[t] \in {"miss", "found", "use", "retire"} /\ pc'[t] \in {"idle", "lock", "use", "retire"}
      BY <1>1, <1>5 DEF TypeOK, Miss, MissReturns, MissLocks, Found, Use, HostBusy, Return, Goto
    <3>3. \A u \in Threads \ {t} : pc'[u] = pc[u]
      BY <1>1, <1>5 DEF TypeOK, Miss, MissReturns, MissLocks, Found, Use, HostBusy, Return, Goto
    <3>4. QED
      BY <3>1, <3>2, <3>3 DEF IInv, LockInv, CriticalPCs
  <2>2. ExclusiveInv'
    BY <1>1, <1>5
         DEF IInv, TypeOK, ObjectPCs, Miss, MissReturns, MissLocks, Found, Use, HostBusy,
             Return, Goto, shared, locals,
             ExclusiveInv, Exclusive
  <2>3. ChainInv'
    BY <1>1, <1>5
         DEF IInv, TypeOK, ObjectPCs, Miss, MissReturns, MissLocks, Found, Use, HostBusy,
             Return, Goto, shared, locals,
             ChainInv, LockInv, CriticalPCs, ThreadInv, Holds
  <2>4. WordInv'
    BY <1>1, <1>5
         DEF IInv, TypeOK, ObjectPCs, Miss, MissReturns, MissLocks, Found, Use, HostBusy,
             Return, Goto, shared, locals,
             WordInv, LockInv, CriticalPCs, ThreadInv, Holds
  <2>5. ActiveInv'
    <3>1. /\ UNCHANGED shared
          /\ \A u \in Threads :
                pc[u] \in {"link", "word"} => pc'[u] = pc[u] /\ obj'[u] = obj[u]
      BY <1>1, <1>5 DEF TypeOK, Miss, MissReturns, MissLocks, Found, Use, HostBusy,
                        Return, Goto, shared, locals
    <3>2. QED
      BY <3>1 DEF IInv, ActiveInv, shared
  <2>6. ASSUME NEW u \in Threads PROVE ThreadInv(u)'
    <3>1. ThreadInv(u) /\ ThreadInv(t)
      BY DEF IInv
    <3>2. UNCHANGED shared
      BY <1>5 DEF Miss, MissReturns, MissLocks, Found, Use, HostBusy, shared
    <3>3. CASE u # t
      <4>1. /\ pc'[u] = pc[u] /\ call'[u] = call[u] /\ slot'[u] = slot[u]
            /\ raw'[u] = raw[u] /\ cur'[u] = cur[u] /\ obj'[u] = obj[u]
        BY <1>1, <1>5, <3>3 DEF TypeOK, Miss, MissReturns, MissLocks, Found, Use, HostBusy,
                                Return, Goto, locals
      <4>2. QED
        BY <3>1, <3>2, <4>1 DEF ThreadInv, Holds, shared
    <3>4. CASE u = t /\ pc'[t] = "idle"
      <4>1. call'[t] = "get"
        BY <1>1, <1>5, <3>4 DEF TypeOK, Miss, MissReturns, MissLocks, Found, Use, HostBusy,
                                Return, Goto, locals
      <4>2. QED
        BY <3>4, <4>1 DEF ThreadInv
    <3>5. CASE u = t /\ pc'[t] # "idle"
      <4>1. /\ UNCHANGED locals
            /\ \/ pc[t] = "miss" /\ call[t] # "peek" /\ pc'[t] = "lock"
               \/ pc[t] = "found" /\ pc'[t] = IF call[t] = "destroy" THEN "retire" ELSE "use"
        BY <1>1, <1>5, <3>5 DEF TypeOK, Miss, MissReturns, MissLocks, Found, Use, HostBusy,
                                Return, Goto
      <4>2. CASE pc[t] = "miss"
        BY <3>1, <3>2, <3>5, <4>1, <4>2 DEF ThreadInv, Holds, shared, locals
      <4>3. CASE pc[t] = "found"
        BY <3>1, <3>2, <3>5, <4>1, <4>3 DEF ThreadInv, Holds, shared, locals
      <4>4. QED
        BY <4>1, <4>2, <4>3
    <3>6. QED
      BY <3>3, <3>4, <3>5
  <2>7. QED
    BY <1>1, <2>1, <2>2, <2>3, <2>4, <2>5, <2>6 DEF IInv
<1>6. ASSUME NEW t \in Threads, AcquireLock(t) \/ RecheckFound(t) \/ RecheckDrops(t) \/ LockedRefuses(t) \/ CreateFails(t) \/ BeginRetire(t)
      PROVE  IInv'
  <2>1. LockInv'
    <3>1. \A u \in Threads \ {t} : pc'[u] = pc[u]
      BY <1>1, <1>6 DEF TypeOK, AcquireLock, RecheckFound, RecheckDrops, Locked, LockedRefuses,
                        CreateFails, BeginRetire, Return, Goto
    <3>2. CASE AcquireLock(t) \/ BeginRetire(t)
      <4>1. lock = NoThread /\ lock' = t /\ pc'[t] \in CriticalPCs
        BY <1>1, <3>2 DEF TypeOK, AcquireLock, BeginRetire, Goto, CriticalPCs
      <4>2. QED
        BY <3>1, <4>1, RegistryAssumption DEF IInv, LockInv
    <3>3. CASE RecheckDrops(t)
      <4>1. lock' = lock /\ pc[t] \in CriticalPCs /\ pc'[t] \in CriticalPCs
        BY <1>1, <3>3 DEF TypeOK, RecheckDrops, Goto, CriticalPCs
      <4>2. QED
        BY <3>1, <4>1 DEF IInv, LockInv
    <3>4. CASE RecheckFound(t) \/ LockedRefuses(t) \/ CreateFails(t)
      <4>1. lock' = NoThread /\ pc[t] \in CriticalPCs
        BY <3>4 DEF RecheckFound, LockedRefuses, CreateFails, CriticalPCs
      <4>2. pc'[t] \notin CriticalPCs
        BY <1>1, <3>4 DEF TypeOK, RecheckFound, LockedRefuses, CreateFails, Return, Goto, CriticalPCs
      <4>3. QED
        BY <3>1, <4>1, <4>2, RegistryAssumption DEF IInv, LockInv
    <3>5. QED
      BY <1>6, <3>2, <3>3, <3>4
  <2>2. ExclusiveInv'
    BY <1>1, <1>6
         DEF IInv, TypeOK, ObjectPCs, AcquireLock, RecheckFound, RecheckDrops, Locked, LockedRefuses, CreateFails, BeginRetire,
             Registered, Matches, Return, Goto, shared, locals,
             ExclusiveInv, Exclusive
  <2>3. ChainInv'
    <3>1. UNCHANGED <<linked, head, next, last>>
      BY <1>6 DEF AcquireLock, RecheckFound, RecheckDrops, LockedRefuses, CreateFails, BeginRetire, shared
    <3>2. QED
      BY <3>1 DEF IInv, ChainInv
  <2>4. WordInv'
    <3>1. UNCHANGED <<word, linked, owner, active, last>>
      BY <1>6 DEF AcquireLock, RecheckFound, RecheckDrops, LockedRefuses, CreateFails, BeginRetire, shared
    <3>2. \A u \in Threads : pc[u] = "clear" => pc'[u] = pc[u] /\ slot'[u] = slot[u]
      <4>1. /\ pc[t] \in {"lock", "recheck", "retire"}
            /\ \A u \in Threads \ {t} : pc'[u] = pc[u] /\ slot'[u] = slot[u]
        BY <1>1, <1>6 DEF TypeOK, AcquireLock, RecheckFound, RecheckDrops, Locked, LockedRefuses,
                          CreateFails, BeginRetire, Return, Goto, locals
      <4>2. QED
        BY <4>1
    <3>3. QED
      BY <3>1, <3>2 DEF IInv, WordInv
  <2>5. ActiveInv'
    <3>1. UNCHANGED <<word, linked, owner, active, last>>
      BY <1>6 DEF AcquireLock, RecheckFound, RecheckDrops, LockedRefuses, CreateFails, BeginRetire, shared
    <3>2. \A u \in Threads : pc[u] \in {"link", "word"} => pc'[u] = pc[u] /\ obj'[u] = obj[u]
      <4>1. /\ pc[t] \in {"lock", "recheck", "retire"}
            /\ \A u \in Threads \ {t} : pc'[u] = pc[u] /\ obj'[u] = obj[u]
        BY <1>1, <1>6 DEF TypeOK, AcquireLock, RecheckFound, RecheckDrops, Locked, LockedRefuses,
                          CreateFails, BeginRetire, Return, Goto, locals
      <4>2. QED
        BY <4>1
    <3>3. QED
      BY <3>1, <3>2 DEF IInv, ActiveInv
  <2>6. ASSUME NEW u \in Threads PROVE ThreadInv(u)'
    <3> USE <1>1 DEF IInv, TypeOK, ObjectPCs, ThreadInv, Holds, Goto, shared, locals
    <3>1. CASE AcquireLock(t)
      BY <3>1 DEF AcquireLock
    <3>2. CASE RecheckFound(t)
      BY <3>2 DEF RecheckFound, Locked, Registered, Matches
    <3>3. CASE RecheckDrops(t)
      BY <3>3 DEF RecheckDrops, Registered, Matches
    <3>4. CASE LockedRefuses(t)
      BY <3>4 DEF LockedRefuses, Return
    <3>5. CASE CreateFails(t)
      BY <3>5 DEF CreateFails, Return
    <3>6. CASE BeginRetire(t)
      BY <3>6 DEF BeginRetire
    <3>7. QED
      BY <1>6, <3>1, <3>2, <3>3, <3>4, <3>5, <3>6
  <2>7. QED
    BY <1>1, <2>1, <2>2, <2>3, <2>4, <2>5, <2>6 DEF IInv
<1>7. ASSUME NEW t \in Threads, Allocate(t)
      PROVE  IInv'
  <2>1. LockInv'
    BY <1>1, <1>7
         DEF IInv, TypeOK, ObjectPCs, Allocate, Registered, Matches, Goto,
             LockInv, CriticalPCs
  <2>2. ExclusiveInv'
    BY <1>1, <1>7
         DEF IInv, TypeOK, ObjectPCs, Allocate, Registered, Matches, Goto,
             ExclusiveInv, Exclusive
  <2>3. ChainInv'
    <3>1. /\ UNCHANGED <<head, linked>>
          /\ last \in 0 .. MaxObjects /\ last < MaxObjects /\ last' = last + 1
          /\ next' = [next EXCEPT ![last + 1] = head]
          /\ next \in [Objects -> Objects \union {Nil}]
      BY <1>1, <1>7 DEF IInv, TypeOK, Allocate
    <3>2. QED
      BY <3>1 DEF IInv, ChainInv
  <2>4. WordInv'
    <3>1. last + 1 \notin linked
      BY <1>1 DEF IInv, TypeOK, ChainInv
    <3>2. \A o \in linked : owner'[o] = owner[o] /\ active'[o] = active[o]
      BY <1>1, <1>7, <3>1 DEF Allocate, TypeOK
    <3>3. /\ UNCHANGED <<word, linked, slot>>
          /\ \A u \in Threads : pc[u] = "clear" => pc'[u] = "clear"
      BY <1>1, <1>7 DEF Allocate, Goto, TypeOK
    <3>4. QED
      BY <3>2, <3>3 DEF IInv, WordInv
  <2>5. ActiveInv'
    BY <1>1, <1>7
         DEF IInv, TypeOK, ObjectPCs, Allocate, Registered, Matches, Goto,
             ActiveInv, ChainInv, LockInv, CriticalPCs, ThreadInv, Holds
  <2>6. ASSUME NEW u \in Threads PROVE ThreadInv(u)'
    <3>1. last \in Nat /\ last + 1 \in Objects /\ last + 1 \notin linked
      BY <1>1, <1>7 DEF IInv, Allocate, TypeOK, ChainInv
    <3>2. \A o \in linked : owner'[o] = owner[o] /\ active'[o] = active[o]
      BY <1>1, <1>7, <3>1 DEF Allocate, TypeOK
    <3>3. word[slot[t]] = Nil
      BY <1>1, <1>7 DEF IInv, Allocate, Registered, Matches, TypeOK, WordInv, LockInv,
         CriticalPCs
    <3>4. CASE u = t
      BY <1>1, <1>7, <3>1, <3>3, <3>4 DEF IInv, Allocate, Goto, TypeOK, ChainInv, ThreadInv
    <3>5. CASE u # t
      <4>1. /\ pc'[u] = pc[u] /\ obj'[u] = obj[u] /\ pc[u] \notin CriticalPCs
            /\ UNCHANGED <<word, linked, call, slot, raw, cur>>
        BY <1>1, <1>7, <3>5 DEF IInv, Allocate, Goto, TypeOK, LockInv, CriticalPCs
      <4>2. cur[u] \in Nat /\ last' = last + 1
        BY <1>1, <1>7 DEF Allocate, TypeOK
      <4>3. QED
        BY <3>1, <3>2, <4>1, <4>2 DEF IInv, ThreadInv, Holds, CriticalPCs
    <3>6. QED
      BY <3>4, <3>5
  <2>7. QED
    BY <1>1, <2>1, <2>2, <2>3, <2>4, <2>5, <2>6 DEF IInv
<1>8. ASSUME NEW t \in Threads, PublishHead(t)
      PROVE  IInv'
  <2>1. LockInv'
    BY <1>1, <1>8
         DEF IInv, TypeOK, ObjectPCs, PublishHead, Goto, locals,
             LockInv, CriticalPCs
  <2>2. ExclusiveInv'
    BY <1>1, <1>8
         DEF IInv, TypeOK, ObjectPCs, PublishHead, Goto, locals,
             ExclusiveInv, Exclusive
  <2>3. ChainInv'
    BY <1>1, <1>8
         DEF IInv, TypeOK, ObjectPCs, PublishHead, Goto, locals,
             ChainInv, LockInv, CriticalPCs, ThreadInv, Holds
  <2>4. WordInv'
    BY <1>1, <1>8
         DEF IInv, TypeOK, ObjectPCs, PublishHead, Goto, locals,
             WordInv, LockInv, CriticalPCs, ThreadInv, Holds
  <2>5. ActiveInv'
    BY <1>1, <1>8
         DEF IInv, TypeOK, ObjectPCs, PublishHead, Goto, locals,
             ActiveInv, ChainInv, LockInv, CriticalPCs, ThreadInv, Holds
  <2>6. \A u \in Threads : ThreadInv(u)'
    BY <1>1, <1>8
         DEF IInv, TypeOK, ObjectPCs, PublishHead, Goto, locals,
             LockInv, CriticalPCs, ExclusiveInv, Exclusive, ChainInv,
             WordInv, ActiveInv, ThreadInv, Holds
  <2>7. QED
    BY <1>1, <2>1, <2>2, <2>3, <2>4, <2>5, <2>6 DEF IInv
<1>9. ASSUME NEW t \in Threads, PublishWord(t)
      PROVE  IInv'
  <2>0. /\ pc[t] = "word" /\ lock' = NoThread
        /\ owner[obj[t]] = slot[t]
        /\ word' = [word EXCEPT ![slot[t]] = obj[t]]
        /\ UNCHANGED <<head, next, owner, active, last, linked>>
        /\ Return(t) \/ (Goto(t, "found") /\ UNCHANGED locals /\ call[t] # "init")
    BY <1>1, <1>9 DEF IInv, PublishWord, ThreadInv
  <2>1. LockInv'
    <3>1. pc'[t] \in {"idle", "found"} /\ \A u \in Threads : u # t => pc'[u] = pc[u]
      BY <1>1, <2>0 DEF TypeOK, Return, Goto
    <3>2. lock = t /\ \A u \in Threads : pc[u] \in CriticalPCs <=> lock = u
      BY <2>0 DEF IInv, LockInv, CriticalPCs
    <3>3. QED
      BY <2>0, <3>1, <3>2 DEF LockInv, CriticalPCs
  <2>2. ExclusiveInv'
    <3>1. \A u \in Threads : u # t => pc'[u] = pc[u] /\ call'[u] = call[u] /\ slot'[u] = slot[u]
      BY <1>1, <2>0 DEF TypeOK, Return, Goto, locals
    <3>2. pc'[t] = "idle" \/ (pc[t] # "idle" /\ call'[t] = call[t] /\ slot'[t] = slot[t])
      BY <1>1, <2>0 DEF TypeOK, Return, Goto, locals
    <3>3. QED
      BY <3>1, <3>2 DEF IInv, ExclusiveInv
  <2>3. ChainInv'
    BY <1>1, <1>9
         DEF IInv, TypeOK, ObjectPCs, PublishWord, Return, Goto, locals,
             ChainInv, LockInv, CriticalPCs, ThreadInv, Holds
  <2>4. WordInv'
    BY <1>1, <1>9
         DEF IInv, TypeOK, ObjectPCs, PublishWord, Return, Goto, locals,
             WordInv, LockInv, CriticalPCs, ThreadInv, Holds
  <2>5. ActiveInv'
    <3>1. /\ slot[t] \in Slots /\ word[slot[t]] = Nil /\ Nil \notin Objects
          /\ word \in [Slots -> Objects \union {Nil}] /\ owner \in [Objects -> Slots]
      BY <1>1, <2>0 DEF IInv, TypeOK, ThreadInv, Objects, Nil
    <3>2. \A u \in Threads : u # t => pc'[u] = pc[u] /\ obj'[u] = obj[u]
      BY <1>1, <2>0 DEF TypeOK, Return, Goto, locals
    <3>3. ASSUME NEW o \in Objects, active[o]
          PROVE  o <= last /\ (word'[owner[o]] = o
                               \/ \E u \in Threads : pc'[u] \in {"link", "word"} /\ obj'[u] = o)
      <4>1. CASE o = obj[t]
        BY <2>0, <3>1, <3>3, <4>1 DEF IInv, ActiveInv
      <4>2. CASE o # obj[t] /\ word[owner[o]] = o
        BY <2>0, <3>1, <3>3, <4>2 DEF IInv, ActiveInv
      <4>3. CASE o # obj[t] /\ \E u \in Threads : pc[u] \in {"link", "word"} /\ obj[u] = o
        BY <3>2, <3>3, <4>3 DEF IInv, ActiveInv
      <4>4. QED
        BY <3>3, <4>1, <4>2, <4>3 DEF IInv, ActiveInv
    <3>4. QED
      BY <2>0, <3>3 DEF ActiveInv
  <2>6. ASSUME NEW u \in Threads PROVE ThreadInv(u)'
    <3>1. /\ obj[t] \in linked /\ active[obj[t]] /\ slot[t] \in Slots
          /\ word[slot[t]] = Nil
          /\ Nil \notin linked
      BY <1>1, <2>0 DEF IInv, TypeOK, ThreadInv, ChainInv
    <3>2. CASE u = t
      <4>1. CASE Return(t)
        BY <1>1, <3>2, <4>1 DEF TypeOK, Return, Goto, ThreadInv
      <4>2. CASE Goto(t, "found") /\ UNCHANGED locals /\ call[t] # "init"
        <5>1. call[t] # "drop"
          BY <2>0 DEF IInv, ThreadInv
        <5>2. Holds(t, obj[t])' /\ pc'[t] = "found" /\ call'[t] = call[t]
          BY <1>1, <2>0, <3>1, <4>2 DEF TypeOK, Goto, locals, Holds
        <5>3. QED
          BY <3>2, <4>2, <5>1, <5>2 DEF ThreadInv
      <4>3. QED
        BY <2>0, <4>1, <4>2
    <3>3. CASE u # t
      <4>1. /\ pc'[u] = pc[u] /\ obj'[u] = obj[u] /\ raw'[u] = raw[u] /\ cur'[u] = cur[u]
            /\ call'[u] = call[u] /\ slot'[u] = slot[u] /\ pc[u] \notin CriticalPCs
        BY <1>1, <2>0, <3>3 DEF IInv, TypeOK, Return, Goto, locals, LockInv, CriticalPCs
      <4>2. \A o \in linked : word[slot[u]] = o => word'[slot[u]] = o
        BY <1>1, <2>0, <3>1 DEF TypeOK
      <4>3. QED
        BY <2>0, <4>1, <4>2 DEF IInv, ThreadInv, Holds, CriticalPCs
    <3>4. QED
      BY <3>2, <3>3
  <2>7. QED
    BY <1>1, <2>1, <2>2, <2>3, <2>4, <2>5, <2>6 DEF IInv
<1>10. ASSUME NEW t \in Threads, Deactivate(t)
      PROVE  IInv'
  <2>1. LockInv'
    BY <1>1, <1>10
         DEF IInv, TypeOK, ObjectPCs, Deactivate, Goto, locals,
             LockInv, CriticalPCs
  <2>2. ExclusiveInv'
    BY <1>1, <1>10
         DEF IInv, TypeOK, ObjectPCs, Deactivate, Goto, locals,
             ExclusiveInv, Exclusive
  <2>3. ChainInv'
    BY <1>1, <1>10
         DEF IInv, TypeOK, ObjectPCs, Deactivate, Goto, locals,
             ChainInv, LockInv, CriticalPCs, ThreadInv, Holds
  <2>4. WordInv'
    BY <1>1, <1>10
         DEF IInv, TypeOK, ObjectPCs, Deactivate, Goto, locals,
             WordInv, LockInv, CriticalPCs, ThreadInv, Holds
  <2>5. ActiveInv'
    BY <1>1, <1>10
         DEF IInv, TypeOK, ObjectPCs, Deactivate, Goto, locals,
             ActiveInv, ChainInv, LockInv, CriticalPCs, ThreadInv, Holds
  <2>6. \A u \in Threads : ThreadInv(u)'
    BY <1>1, <1>10
         DEF IInv, TypeOK, ObjectPCs, Deactivate, Goto, locals,
             LockInv, CriticalPCs, ExclusiveInv, Exclusive, ChainInv,
             WordInv, ActiveInv, ThreadInv, Holds
  <2>7. QED
    BY <1>1, <2>1, <2>2, <2>3, <2>4, <2>5, <2>6 DEF IInv
<1>11. ASSUME NEW t \in Threads, ClearWord(t)
      PROVE  IInv'
  <2>1. LockInv'
    BY <1>1, <1>11
         DEF IInv, TypeOK, ObjectPCs, ClearWord, Goto, locals,
             LockInv, CriticalPCs
  <2>2. ExclusiveInv'
    BY <1>1, <1>11
         DEF IInv, TypeOK, ObjectPCs, ClearWord, Goto, locals,
             ExclusiveInv, Exclusive
  <2>3. ChainInv'
    BY <1>1, <1>11
         DEF IInv, TypeOK, ObjectPCs, ClearWord, Goto, locals,
             ChainInv, LockInv, CriticalPCs, ThreadInv, Holds
  <2>4. WordInv'
    BY <1>1, <1>11
         DEF IInv, TypeOK, ObjectPCs, ClearWord, Goto, locals,
             WordInv, LockInv, CriticalPCs, ThreadInv, Holds
  <2>5. ActiveInv'
    BY <1>1, <1>11
         DEF IInv, TypeOK, ObjectPCs, ClearWord, Goto, locals,
             ActiveInv, ChainInv, LockInv, CriticalPCs, ThreadInv, Holds
  <2>6. \A u \in Threads : ThreadInv(u)'
    BY <1>1, <1>11
         DEF IInv, TypeOK, ObjectPCs, ClearWord, Goto, locals,
             LockInv, CriticalPCs, ExclusiveInv, Exclusive, ChainInv,
             WordInv, ActiveInv, ThreadInv, Holds
  <2>7. QED
    BY <1>1, <2>1, <2>2, <2>3, <2>4, <2>5, <2>6 DEF IInv
<1>12. ASSUME NEW t \in Threads, Unlink(t)
      PROVE  IInv'
  <2>1. LockInv'
    BY <1>1, <1>12
         DEF IInv, TypeOK, ObjectPCs, Unlink, Return, Goto,
             LockInv, CriticalPCs
  <2>2. ExclusiveInv'
    BY <1>1, <1>12
         DEF IInv, TypeOK, ObjectPCs, Unlink, Return, Goto,
             ExclusiveInv, Exclusive
  <2>3. ChainInv'
    BY <1>1, <1>12
         DEF IInv, TypeOK, ObjectPCs, Unlink, Return, Goto,
             ChainInv, LockInv, CriticalPCs, ThreadInv, Holds
  <2>4. WordInv'
    BY <1>1, <1>12
         DEF IInv, TypeOK, ObjectPCs, Unlink, Return, Goto,
             WordInv, LockInv, CriticalPCs, ThreadInv, Holds
  <2>5. ActiveInv'
    BY <1>1, <1>12
         DEF IInv, TypeOK, ObjectPCs, Unlink, Return, Goto,
             ActiveInv, ChainInv, LockInv, CriticalPCs, ThreadInv, Holds
  <2>6. \A u \in Threads : ThreadInv(u)'
    BY <1>1, <1>12
         DEF IInv, TypeOK, ObjectPCs, Unlink, Return, Goto,
             LockInv, CriticalPCs, ExclusiveInv, Exclusive, ChainInv,
             WordInv, ActiveInv, ThreadInv, Holds
  <2>7. QED
    BY <1>1, <2>1, <2>2, <2>3, <2>4, <2>5, <2>6 DEF IInv
<1>13. QED
  BY <1>2, <1>3, <1>4, <1>5, <1>6, <1>7, <1>8, <1>9, <1>10, <1>11, <1>12
     DEF Next, Step, Create, Retire

LEMMA InvInitially == Init => IInv
<1> SUFFICES ASSUME Init PROVE IInv
  OBVIOUS
<1>1. TypeOK
  BY TypeInitially
<1>2. QED
  BY <1>1, RegistryAssumption
     DEF Init, IInv, LockInv, ExclusiveInv, ChainInv, WordInv, ActiveInv, ThreadInv, Holds,
         CriticalPCs, Exclusive, Nil, Objects

THEOREM Invariance == Spec => []IInv
  BY InvInitially, InvStep, PTL DEF Spec

-----------------------------------------------------------------------------

\* Every variable keeps its type.
THEOREM TypeCorrect == Spec => []TypeOK
<1>1. IInv => TypeOK
  BY DEF IInv
<1>2. QED
  BY <1>1, Invariance, PTL

\* A lookup that loaded a handle ends on the object, whatever other threads
\* publish or retire on the chain while it walks (registry_find).
THEOREM LookupComplete == Spec => []NoSpuriousMiss
<1>1. IInv => NoSpuriousMiss
  BY DEF IInv, ThreadInv, NoSpuriousMiss
<1>2. QED
  BY <1>1, Invariance, PTL

\* Racing first users share one object (the re-check under registry_lock).
THEOREM OneObject == Spec => []OneObjectPerSlot
<1>1. ASSUME IInv PROVE OneObjectPerSlot
  <2>1. SUFFICES ASSUME NEW a \in Objects, NEW b \in Objects,
                        active[a], active[b], owner[a] = owner[b]
                 PROVE  a = b
    BY DEF OneObjectPerSlot
  <2>2. ASSUME NEW o \in Objects, active[o], word[owner[o]] # o
        PROVE  \E t \in Threads : /\ lock = t
                                  /\ obj[t] = o
                                  /\ word[owner[o]] = Nil
    <3>1. PICK t \in Threads : pc[t] \in {"link", "word"} /\ obj[t] = o
      BY <1>1, <2>2 DEF IInv, ActiveInv
    <3>2. lock = t
      BY <1>1, <3>1 DEF IInv, LockInv, CriticalPCs
    <3>3. word[owner[o]] = Nil
      BY <1>1, <3>1 DEF IInv, ThreadInv
    <3>4. QED
      BY <3>1, <3>2, <3>3
  <2>3. QED
    BY <2>1, <2>2 DEF Objects, Nil
<1>2. QED
  BY <1>1, Invariance, PTL

\* A caller never works on a retired object or on one its slot does not name.
THEOREM UsesLive == Spec => []UsesLiveObject
<1>1. IInv => UsesLiveObject
  BY DEF IInv, ThreadInv, Holds, UsesLiveObject
<1>2. QED
  BY <1>1, Invariance, PTL

\* registry_find: each step of a walk goes to an older object, never beyond
\* the one it looks for, or ends on that object; what others publish or retire
\* meanwhile neither moves a walker nor lengthens its way.
WalkDescends ==
    [][\A t \in Threads : pc[t] = "walk" =>
           \/ pc'[t] = "walk" /\ cur'[t] = cur[t]
           \/ pc'[t] = "walk" /\ cur'[t] < cur[t] /\ raw[t] <= cur'[t]
           \/ pc'[t] = "found" /\ obj'[t] = raw[t]]_vars

\* A thread moves by its own steps only.
Moves(u) == (\E s \in Slots, k \in Calls : Begin(u, s, k)) \/ Step(u)

LEMMA OthersStandStill ==
    ASSUME TypeOK, NEW t \in Threads, NEW u \in Threads, t # u, Moves(u)
    PROVE  /\ pc'[t] = pc[t] /\ cur'[t] = cur[t]
           /\ call'[t] = call[t] /\ obj'[t] = obj[t]
<1>1. /\ pc \in [Threads -> PCs] /\ cur \in [Threads -> Objects \union {Nil}]
      /\ call \in [Threads -> Calls] /\ obj \in [Threads -> Objects \union {Nil}]
  BY DEF TypeOK
<1>2. CASE \E s \in Slots, k \in Calls : Begin(u, s, k)
  BY <1>1, <1>2 DEF Begin, Goto
<1>3. CASE Lookup(u) \/ Miss(u) \/ Found(u) \/ Use(u)
  BY <1>1, <1>3 DEF Lookup, Miss, LoadWord, LoadHead, WalkFound, WalkNext, MissReturns,
                    MissLocks, Found, Use, StandOn, Return, Goto, locals
<1>4. CASE Create(u)
  BY <1>1, <1>4 DEF Create, AcquireLock, RecheckFound, RecheckDrops, LockedRefuses, Allocate,
                    CreateFails, PublishHead, PublishWord, Return, Goto, locals
<1>5. CASE Retire(u)
  BY <1>1, <1>5 DEF Retire, BeginRetire, HostBusy, Deactivate, ClearWord, Unlink,
                    Return, Goto, locals
<1>6. QED
  BY <1>2, <1>3, <1>4, <1>5 DEF Moves, Step

\* A walk makes at most as many steps as there are objects between the head it
\* loaded and the object it looks for, for any number of threads: it ends.
THEOREM WalksDescend == Spec => WalkDescends
<1> DEFINE Descends(t) ==
      pc[t] = "walk" =>
           \/ pc'[t] = "walk" /\ cur'[t] = cur[t]
           \/ pc'[t] = "walk" /\ cur'[t] < cur[t] /\ raw[t] <= cur'[t]
           \/ pc'[t] = "found" /\ obj'[t] = raw[t]
<1>1. IInv /\ [Next]_vars => [\A t \in Threads : Descends(t)]_vars
  <2> SUFFICES ASSUME IInv, Next, NEW t \in Threads, pc[t] = "walk" PROVE Descends(t)
    OBVIOUS
  <2>1. /\ TypeOK /\ ChainInv /\ ThreadInv(t)
        /\ pc \in [Threads -> PCs] /\ cur \in [Threads -> Objects \union {Nil}]
    BY DEF IInv, TypeOK
  <2>2. /\ Holds(t, raw[t]) /\ raw[t] \in 1 .. last /\ cur[t] \in 1 .. last
        /\ raw[t] <= cur[t]
    <3>1. Holds(t, raw[t]) /\ raw[t] <= cur[t] /\ cur[t] <= last
      BY <2>1 DEF ThreadInv
    <3>2. raw[t] \in linked /\ cur[t] \in Objects /\ last \in Nat
      BY <2>1, <3>1, RegistryAssumption DEF Holds, TypeOK
    <3>3. linked \subseteq 1 .. last
      BY <2>1 DEF ChainInv
    <3>4. raw[t] \in 1 .. last
      BY <3>2, <3>3
    <3>5. cur[t] \in Nat /\ cur[t] >= 1
      BY <3>2, RegistryAssumption DEF Objects
    <3>6. QED
      BY <3>1, <3>2, <3>4, <3>5
  <2>3. CASE WalkFound(t)
    BY <2>1, <2>3 DEF WalkFound, Matches, Goto, TypeOK
  <2>4. CASE WalkNext(t)
    <3>1. cur[t] # raw[t]
      BY <2>2, <2>4 DEF WalkNext, Matches, Holds
    <3>2. raw[t] < cur[t]
      BY <2>2, <3>1
    <3>3. next[cur[t]] < cur[t] /\ raw[t] <= next[cur[t]]
      BY <2>1, <2>2, <3>2 DEF ChainInv, Holds
    <3>4. next[cur[t]] # Nil /\ cur'[t] = next[cur[t]]
      <4>1. cur'[t] = next[cur[t]]
        BY <2>1, <2>4 DEF WalkNext, StandOn
      <4>2. next[cur[t]] \in Objects \union {Nil}
        BY <2>1, <2>2 DEF TypeOK
      <4>3. QED
        BY <2>2, <3>3, <4>1, <4>2 DEF Nil
    <3>5. pc'[t] = "walk"
      BY <2>1, <2>4, <3>4 DEF WalkNext, StandOn, Goto
    <3>6. QED
      BY <3>3, <3>4, <3>5
  <2>5. CASE ~WalkFound(t) /\ ~WalkNext(t)
    <3>1. ~Moves(t)
      BY <2>5 DEF Moves, Step, Lookup, Miss, Create, Retire, Begin, LoadWord, LoadHead, MissReturns,
                  MissLocks, Found, Use, AcquireLock, RecheckFound, RecheckDrops, LockedRefuses,
                  Allocate, CreateFails, PublishHead, PublishWord, BeginRetire, HostBusy,
                  Deactivate, ClearWord, Unlink
    <3>2. PICK u \in Threads : Moves(u)
      BY DEF Next, Moves
    <3>3. QED
      BY <2>1, <3>1, <3>2, OthersStandStill
  <2>6. QED
    BY <2>3, <2>4, <2>5
<1>2. QED
  BY <1>1, Invariance, PTL DEF Spec, WalkDescends

-----------------------------------------------------------------------------
(* The registry is an atomic map. *)

Answers == [t \in Threads |-> Answered(t)]

\* Only the answer to the thread that moves changes.
LEMMA OneAnswerChanges ==
    ASSUME TypeOK, NEW t \in Threads, Moves(t)
    PROVE  Answers' = [Answers EXCEPT ![t] = Answered(t)']
<1>1. ASSUME NEW u \in Threads, u # t PROVE Answered(u)' = Answered(u)
  BY <1>1, OthersStandStill DEF Answered
<1>2. QED
  BY <1>1 DEF Answers

\* What is published changes only with the store to the slot.
LEMMA OnePublished ==
    ASSUME IInv, IInv', NEW t \in Threads, Moves(t)
    PROVE  IF PublishWord(t) THEN /\ obj[t] \notin Published
                                  /\ Published' = Published \union {obj[t]}
                             ELSE Published' = Published
<1> DEFINE Fresh(u) == pc[u] \in {"link", "word"}
<1>0. TypeOK /\ LockInv /\ LockInv' /\ last \in Nat
  BY RegistryAssumption DEF IInv, TypeOK
<1>1. ASSUME NEW u \in Threads, u # t
      PROVE  pc'[u] = pc[u] /\ obj'[u] = obj[u]
  BY <1>0, <1>1, OthersStandStill
<1>2. \A u \in Threads : Fresh(u) => lock = u
  BY <1>0 DEF LockInv, CriticalPCs
<1>3. \A u \in Threads : Fresh(u)' => lock' = u
  BY <1>0 DEF LockInv, CriticalPCs
<1>4. CASE Allocate(t)
  <2>1. /\ pc[t] = "recheck" /\ last' = last + 1
        /\ pc'[t] = "link" /\ obj'[t] = last + 1
    BY <1>0, <1>4 DEF Allocate, Goto, TypeOK
  <2>2. \A u \in Threads : ~Fresh(u)
    BY <1>0, <1>2, <2>1 DEF LockInv, CriticalPCs
  <2>3. Published = 1 .. last
    BY <2>2 DEF Published
  <2>4. Published' = 1 .. last
    BY <1>0, <1>1, <2>1, <2>2 DEF Published
  <2>5. ~PublishWord(t)
    BY <2>1 DEF PublishWord
  <2>6. QED
    BY <2>3, <2>4, <2>5
<1>5. CASE PublishWord(t)
  <2>1. /\ pc[t] = "word" /\ last' = last /\ ~Fresh(t)'
    BY <1>0, <1>5 DEF PublishWord, Return, Goto, TypeOK
  <2>2. obj[t] \in 1 .. last
    BY <2>1 DEF IInv, ThreadInv, ChainInv
  <2>3. \A u \in Threads : Fresh(u) <=> u = t
    BY <1>2, <2>1
  <2>4. \A u \in Threads : ~Fresh(u)'
    BY <1>1, <2>1, <2>3
  <2>5. Published = (1 .. last) \ {obj[t]}
    BY <2>3 DEF Published
  <2>6. Published' = 1 .. last
    BY <2>1, <2>4 DEF Published
  <2>7. QED
    BY <1>5, <2>2, <2>5, <2>6
<1>6. CASE ~Allocate(t) /\ ~PublishWord(t)
  <2>1. last' = last /\ (Fresh(t)' <=> Fresh(t)) /\ (Fresh(t) => obj'[t] = obj[t])
    <3>1. pc \in [Threads -> PCs] /\ obj \in [Threads -> Objects \union {Nil}]
      BY <1>0 DEF TypeOK
    <3>2. CASE \E s \in Slots, k \in Calls : Begin(t, s, k)
      BY <3>1, <3>2 DEF Begin, Goto, shared
    <3>3. CASE Lookup(t) \/ Miss(t) \/ Found(t) \/ Use(t)
      BY <3>1, <3>3 DEF Lookup, Miss, LoadWord, LoadHead, WalkFound, WalkNext, MissReturns,
                        MissLocks, Found, Use, StandOn, Return, Goto, locals, shared
    <3>4. CASE Create(t)
      BY <1>6, <3>1, <3>4 DEF Create, AcquireLock, RecheckFound, RecheckDrops, LockedRefuses,
                              CreateFails, PublishHead, Return, Goto, locals, shared
    <3>5. CASE Retire(t)
      BY <3>1, <3>5 DEF Retire, BeginRetire, HostBusy, Deactivate, ClearWord, Unlink,
                        Return, Goto, locals, shared
    <3>6. QED
      BY <3>2, <3>3, <3>4, <3>5 DEF Moves, Step
  <2>2. \A u \in Threads : (Fresh(u)' <=> Fresh(u)) /\ (Fresh(u) => obj'[u] = obj[u])
    BY <1>1, <2>1
  <2>3. Published' = Published
    BY <2>1, <2>2 DEF Published
  <2>4. QED
    BY <1>6, <2>3
<1>7. QED
  BY <1>4, <1>5, <1>6

\* A lookup is answered with what the slot names when the walk ends.
LEMMA LookupMaps ==
    ASSUME IInv, IInv', NEW t \in Threads, Lookup(t)
    PROVE  \/ \E s \in Slots : Map!Get(t, s) \/ Map!Refuse(t, s)
           \/ UNCHANGED <<word, Published, Answers>>
<1>1. TypeOK /\ ThreadInv(t) /\ ThreadInv(t)' /\ slot[t] \in Slots
  BY DEF IInv, TypeOK
<1>2. Moves(t) /\ ~PublishWord(t) /\ UNCHANGED <<word, call, slot>>
  BY DEF Moves, Step, Lookup, LoadWord, LoadHead, WalkFound, WalkNext, PublishWord, shared
<1>3. /\ Published' = Published
      /\ Answers' = [Answers EXCEPT ![t] = Answered(t)']
      /\ Answers[t] = Answered(t) /\ Answered(t) = Nil
  <2>1. pc[t] \in {"load", "head", "walk"}
    BY DEF Lookup, LoadWord, LoadHead, WalkFound, WalkNext
  <2>2. QED
    BY <1>1, <1>2, <2>1, OnePublished, OneAnswerChanges DEF Answers, Answered
<1>4. CASE WalkFound(t)
  <2>1. word[slot[t]] = cur[t] /\ word[slot[t]] # Nil
    BY <1>1, <1>4, RegistryAssumption
       DEF WalkFound, Matches, ThreadInv, Holds, TypeOK, Objects, Nil
  <2>2. Answered(t)' = cur[t]
    BY <1>1, <1>4 DEF WalkFound, Goto, Answered, TypeOK
  <2>3. Map!Get(t, slot[t])
    BY <1>2, <1>3, <2>1, <2>2 DEF Map!Get, Map!Answer, Answers
  <2>4. QED
    BY <1>1, <2>3
<1>5. CASE LoadWord(t) /\ word[slot[t]] = Nil /\ call[t] = "peek"
  <2>1. Answered(t)' = Refused
    BY <1>1, <1>2, <1>5 DEF LoadWord, Goto, Answered, TypeOK
  <2>2. Map!Refuse(t, slot[t])
    BY <1>2, <1>3, <1>5, <2>1 DEF Map!Refuse, Map!Answer, Answers
  <2>3. QED
    BY <1>1, <2>2
<1>6. CASE ~WalkFound(t) /\ ~(LoadWord(t) /\ word[slot[t]] = Nil /\ call[t] = "peek")
  <2>1. pc'[t] \in {"miss", "head", "walk"} /\ (pc'[t] = "miss" => LoadWord(t) /\ word[slot[t]] = Nil)
    <3>1. CASE LoadWord(t)
      BY <1>1, <3>1 DEF LoadWord, Goto, TypeOK
    <3>2. CASE LoadHead(t) \/ WalkNext(t)
      <4>1. raw[t] # Nil /\ raw'[t] = raw[t] /\ pc'[t] \in {"miss", "walk"}
        BY <1>1, <3>2, RegistryAssumption
           DEF LoadHead, WalkNext, StandOn, Goto, TypeOK, ThreadInv, Holds, Objects, Nil
      <4>2. QED
        BY <1>1, <4>1 DEF ThreadInv
    <3>3. QED
      BY <1>6, <3>1, <3>2 DEF Lookup
  <2>2. Answered(t)' = Nil
    BY <1>2, <1>6, <2>1 DEF Answered
  <2>3. QED
    BY <1>2, <1>3, <2>2 DEF Answers
<1>7. QED
  BY <1>4, <1>5, <1>6

\* The registry is an atomic map from slots to objects, for every number of
\* threads, slots and objects (registry_find, object_publish_locked,
\* object_retire_locked).
THEOREM ImplementsObjectMap == Spec => ObjectMapHolds
<1>1. Init => Map!Init
  BY RegistryAssumption DEF Init, Map!Init, Published, Answered
<1>2. ASSUME IInv, IInv', [Next]_vars
      PROVE  [Map!Next]_<<word, Published, Answers>>
  <2>1. CASE UNCHANGED vars
    BY <2>1 DEF vars, shared, locals, Published, Answers, Answered
  <2>2. ASSUME NEW t \in Threads, Moves(t)
        PROVE  Map!Next \/ UNCHANGED <<word, Published, Answers>>
    <3>1. /\ TypeOK /\ ThreadInv(t) /\ ThreadInv(t)' /\ slot[t] \in Slots /\ pc[t] \in PCs
          /\ Answers' = [Answers EXCEPT ![t] = Answered(t)']
          /\ Answers[t] = Answered(t)
      BY <1>2, <2>2, OneAnswerChanges DEF IInv, TypeOK, Answers
    <3>2. CASE Lookup(t)
      BY <1>2, <3>2, LookupMaps DEF Map!Next
    <3>3. CASE RecheckFound(t)
      <4>1. /\ pc[t] = "recheck" /\ pc'[t] = "found" /\ UNCHANGED word
            /\ obj'[t] = word[slot[t]] /\ obj'[t] # Nil
        BY <1>2, <3>1, <3>3, RegistryAssumption
           DEF RecheckFound, Registered, Matches, Goto, TypeOK, Objects, Nil, shared
      <4>2. Published' = Published
        BY <1>2, <2>2, <4>1, OnePublished DEF PublishWord
      <4>3. Answered(t) = Nil /\ Answered(t)' = word[slot[t]]
        BY <4>1 DEF Answered
      <4>4. Map!Get(t, slot[t])
        BY <3>1, <4>1, <4>2, <4>3 DEF Map!Get, Map!Answer, Answers
      <4>5. QED
        BY <3>1, <4>4 DEF Map!Next
    <3>4. CASE PublishWord(t)
      <4>1. /\ pc[t] = "word" /\ obj[t] \in Objects /\ word[slot[t]] = Nil
            /\ word' = [word EXCEPT ![slot[t]] = obj[t]]
            /\ Answered(t) = Nil
        BY <3>1, <3>4 DEF PublishWord, ThreadInv, TypeOK, ObjectPCs, Answered
      <4>2. obj[t] \notin Published /\ Published' = Published \union {obj[t]}
        BY <1>2, <2>2, <3>4, OnePublished
      <4>3. Map!New(slot[t], obj[t])
        BY <4>1, <4>2 DEF Map!New
      <4>4. CASE call[t] = "init"
        <5>1. Answered(t)' = Nil
          BY <3>1, <3>4, <4>4 DEF PublishWord, Return, Goto, Answered, TypeOK
        <5>2. Map!Create(slot[t], obj[t])
          BY <3>1, <4>1, <4>3, <5>1 DEF Map!Create, Answers
        <5>3. QED
          BY <3>1, <4>1, <5>2 DEF Map!Next
      <4>5. CASE call[t] # "init"
        <5>1. Answered(t)' = obj[t]
          BY <3>1, <3>4, <4>5 DEF PublishWord, Goto, Answered, TypeOK, locals
        <5>2. Map!FirstUse(t, slot[t], obj[t])
          BY <3>1, <4>1, <4>3, <5>1 DEF Map!FirstUse, Map!Answer, Answers
        <5>3. QED
          BY <3>1, <4>1, <5>2 DEF Map!Next
      <4>6. QED
        BY <4>4, <4>5
    <3>5. CASE ClearWord(t)
      <4>1. /\ pc[t] = "clear" /\ pc'[t] = "unlink" /\ word[slot[t]] = obj[t]
            /\ obj[t] # Nil /\ ~active[obj[t]]
            /\ word' = [word EXCEPT ![slot[t]] = Nil]
        <5>1. pc[t] = "clear" /\ pc'[t] = "unlink"
          BY <3>1, <3>5 DEF ClearWord, Goto, TypeOK
        <5>2. word[slot[t]] = obj[t] /\ owner[obj[t]] = slot[t] /\ ~active[obj[t]]
          BY <3>1, <5>1 DEF ThreadInv
        <5>3. obj[t] # Nil
          BY <3>1, <5>1, RegistryAssumption DEF TypeOK, ObjectPCs, Objects, Nil
        <5>4. word' = [word EXCEPT ![slot[t]] = Nil]
          BY <3>5, <5>2 DEF ClearWord
        <5>5. QED
          BY <5>1, <5>2, <5>3, <5>4
      <4>2. Published' = Published /\ Answers' = Answers
        BY <1>2, <2>2, <3>1, <4>1, OnePublished DEF PublishWord, Answered, Answers
      <4>3. ASSUME NEW u \in Threads PROVE Answers[u] # word[slot[t]]
        <5>1. CASE pc[u] \in {"found", "use", "retire"}
          BY <1>2, <4>1, <5>1 DEF IInv, ThreadInv, Holds, Answers, Answered
        <5>2. CASE pc[u] \notin {"found", "use", "retire"}
          <6>1. Answers[u] \in {Nil, Refused}
            BY <5>2 DEF Answers, Answered
          <6>2. obj[t] \in Objects
            BY <3>1, <4>1 DEF TypeOK, ObjectPCs
          <6>3. QED
            BY <4>1, <6>1, <6>2, RegistryAssumption DEF Objects, Nil, Refused
        <5>3. QED
          BY <5>1, <5>2
      <4>4. Map!Destroy(slot[t])
        BY <4>1, <4>2, <4>3 DEF Map!Destroy, Answers
      <4>5. QED
        BY <3>1, <4>4 DEF Map!Next
    <3>6. CASE MissReturns(t) \/ Use(t) \/ HostBusy(t) \/ BeginRetire(t)
      <4>1. /\ pc[t] \in {"miss", "use", "retire"} /\ UNCHANGED word
            /\ pc'[t] \in {"idle", "deactivate"}
            /\ pc[t] = "miss" => call[t] = "peek"
        BY <3>1, <3>6 DEF MissReturns, Use, HostBusy, BeginRetire, Return, Goto, TypeOK, shared
      <4>2. Published' = Published
        BY <1>2, <2>2, <4>1, OnePublished DEF PublishWord
      <4>3. Answered(t)' = Nil
        BY <4>1 DEF Answered
      <4>4. Answered(t) # Nil
        <5>1. pc[t] # "miss" => obj[t] \in Objects
          BY <3>1, <4>1 DEF TypeOK, ObjectPCs
        <5>2. QED
          BY <4>1, <5>1, RegistryAssumption DEF Answered, Refused, Objects, Nil
      <4>5. Map!Return(t)
        BY <3>1, <4>1, <4>2, <4>3, <4>4 DEF Map!Return, Answers
      <4>6. QED
        BY <3>1, <4>5 DEF Map!Next
    <3>7. CASE \/ \E s \in Slots, k \in Calls : Begin(t, s, k)
               \/ MissLocks(t) \/ Found(t) \/ AcquireLock(t) \/ RecheckDrops(t)
               \/ LockedRefuses(t) \/ Allocate(t) \/ CreateFails(t) \/ PublishHead(t)
               \/ Deactivate(t) \/ Unlink(t)
      <4>1. UNCHANGED word /\ ~PublishWord(t)
        BY <3>7 DEF Begin, MissLocks, Found, AcquireLock, RecheckDrops, LockedRefuses, Allocate,
                    CreateFails, PublishHead, Deactivate, Unlink, PublishWord, shared
      <4>2. Published' = Published
        BY <1>2, <2>2, <4>1, OnePublished
      <4>3. Answered(t)' = Answered(t)
        <5>1. CASE Found(t)
          BY <3>1, <5>1 DEF Found, Goto, TypeOK, Answered, locals
        <5>2. CASE ~Found(t)
          BY <3>1, <3>7, <5>2
             DEF Begin, MissLocks, AcquireLock, RecheckDrops, LockedRefuses, Allocate, Return,
                 CreateFails, PublishHead, Deactivate, Unlink, Goto, TypeOK, Answered, locals,
                 Locked
        <5>3. QED
          BY <5>1, <5>2
      <4>4. QED
        BY <3>1, <4>1, <4>2, <4>3 DEF Answers
    <3>8. QED
      BY <2>2, <3>2, <3>3, <3>4, <3>5, <3>6, <3>7 DEF Moves, Step, Miss, Create, Retire
  <2>3. QED
    BY <1>2, <2>1, <2>2 DEF Next, Moves
<1>3. QED
  BY <1>1, <1>2, InvStep, Invariance, PTL DEF Spec, ObjectMapHolds, Map!Spec, Answers

=============================================================================
