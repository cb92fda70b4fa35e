-------------------------- MODULE GuestFilesProofs --------------------------
(***************************************************************************)
(* Proofs about GuestFiles, for every finite set of threads and every      *)
(* number of streams.                                                      *)
(*                                                                         *)
(* NoUseAfterClose rests on counting: active_operations is the number of   *)
(* threads at work on the stream, so zero means nobody.  None of it needs  *)
(* the chain to be right, and it is not always right.  A close that sleeps *)
(* has somebody at work on its stream, and they only get fewer.            *)
(***************************************************************************)
EXTENDS GuestFiles, FiniteSetTheorems, TLAPS

\* active_operations counts the threads at work on the stream.
OpsInv == \A f \in Files : ops[f] = Cardinality(Users(f))

\* The host stream lives as long as the wrapper is open or closing.
HostInv ==
    \A f \in Files :
        /\ state[f] = "free" <=> f > last
        /\ state[f] \in {"open", "closing"} => f \in hostOpen

\* A closing stream belongs to one close.
CloseInv ==
    /\ \A t \in Threads :
          /\ pc[t] = "io" => state[stream[t]] \in {"open", "closing"}
          /\ pc[t] = "waiting" => state[stream[t]] = "closing"
          /\ pc[t] = "fclose" => state[stream[t]] = "closed" /\ stream[t] \in hostOpen
    /\ \A t, u \in Threads :
          pc[t] = "fclose" /\ pc[u] = "fclose" /\ stream[t] = stream[u] => t = u
    /\ \A t, u \in Threads :
          pc[t] = "waiting" /\ pc[u] = "waiting" /\ stream[t] = stream[u] => t = u

\* However stale, the link a close keeps is the bucket or a younger wrapper.
LinkInv == \A t \in Threads : pc[t] = "waiting" => link[t] = Nil \/ link[t] > stream[t]

IInv ==
    /\ TypeOK
    /\ OpsInv
    /\ HostInv
    /\ CloseInv
    /\ ChainOlder
    /\ LinkInv

-----------------------------------------------------------------------------

\* A thread enters Users(f) or leaves it; the counter follows.
LEMMA UsersFinite == ASSUME NEW f PROVE IsFiniteSet(Users(f)) /\ Cardinality(Users(f)) \in Nat
  BY FilesAssumption, FS_Subset, FS_CardinalityType DEF Users

LEMMA UsersSame ==
    ASSUME OpsInv, UNCHANGED ops,
           \A t \in Threads : pc[t] = "io" \/ pc'[t] = "io" =>
                pc'[t] = pc[t] /\ stream'[t] = stream[t]
    PROVE  OpsInv'
<1>1. \A f : Users(f)' = Users(f)
  BY DEF Users
<1>2. QED
  BY <1>1 DEF OpsInv

\* What taking a wrapper off by any link to an older or equal place keeps.
LEMMA TakeKeepsOrder ==
    ASSUME TypeOK, HostInv, ChainOlder,
           NEW f \in Files, NEW l \in Links, l = Nil \/ l > f, state[f] # "free",
           Take(f, l)
    PROVE  /\ ChainOlder'
           /\ head' \in Files \union {Nil}
           /\ next' \in [Files -> Files \union {Nil}]
           /\ count' \in [created : Nat, open : Nat, closed : Nat]
<1>1. f <= last /\ next[f] < f
  BY DEF TypeOK, HostInv, ChainOlder, Files
<1>2. head' <= last'
  BY <1>1 DEF TypeOK, ChainOlder, Take, Files, Nil
<1>3. ASSUME NEW g \in Files PROVE next'[g] < g
  BY <1>1, <1>3 DEF TypeOK, ChainOlder, Take, Links, Files, Nil
<1>4. QED
  BY <1>2, <1>3 DEF TypeOK, ChainOlder, Take

\* A link that leads to f comes from the bucket or from a younger wrapper.
LEMMA LinksAreYounger ==
    ASSUME TypeOK, ChainOlder, NEW f \in Files, NEW l \in Links, LinksTo(l, f)
    PROVE  l = Nil \/ l > f
  BY DEF ChainOlder, LinksTo, Links, Files

-----------------------------------------------------------------------------

LEMMA InvInitially == Init => IInv
<1> SUFFICES ASSUME Init PROVE IInv
  OBVIOUS
<1>1. TypeOK
  <2>1. count \in [created : Nat, open : Nat, closed : Nat] /\ last \in 0 .. MaxFiles
    BY FilesAssumption DEF Init
  <2>2. QED
    BY <2>1 DEF Init, TypeOK, Nil, States, PCs
<1>2. \A f : Users(f) = {}
  BY DEF Init, Users
<1>3. OpsInv
  BY <1>2, FS_EmptySet DEF Init, OpsInv
<1>4. HostInv /\ CloseInv /\ ChainOlder /\ LinkInv
  BY DEF Init, HostInv, CloseInv, ChainOlder, LinkInv, Files, Nil
<1>5. QED
  BY <1>1, <1>3, <1>4 DEF IInv

LEMMA InvStep == IInv /\ [Next]_vars => IInv'
<1> SUFFICES ASSUME IInv, [Next]_vars PROVE IInv'
  OBVIOUS
<1> USE FilesAssumption DEF Files, Nil, PCs, States
<1>1. TypeOK /\ OpsInv /\ HostInv /\ CloseInv /\ ChainOlder /\ LinkInv
  BY DEF IInv
<1>2. CASE UNCHANGED vars
  <2>1. OpsInv'
    BY <1>1, <1>2, UsersSame DEF vars
  <2>2. QED
    BY <1>1, <1>2, <2>1 DEF vars, chain, IInv, TypeOK, HostInv, CloseInv, ChainOlder, LinkInv
<1>3. ASSUME NEW t \in Threads, Open(t) PROVE IInv'
  <2>1. OpsInv'
    BY <1>1, <1>3, UsersSame DEF Open
  <2>2. TypeOK'
    <3>1. last + 1 \in Files
      BY <1>1, <1>3 DEF Open, TypeOK
    <3>2. count' \in [created : Nat, open : Nat, closed : Nat]
      BY <1>1, <1>3 DEF Open, TypeOK
    <3>3. head' \in Files /\ next' \in [Files -> Files \union {Nil}] /\ last' \in 0 .. MaxFiles
      BY <1>1, <1>3, <3>1 DEF Open, TypeOK
    <3>4. state' \in [Files -> States] /\ hostOpen' \in SUBSET Files
      BY <1>1, <1>3, <3>1 DEF Open, TypeOK
    <3>5. QED
      BY <1>1, <1>3, <3>2, <3>3, <3>4 DEF Open, TypeOK
  <2>3. /\ last + 1 \in Files /\ last' = last + 1 /\ UNCHANGED <<pc, stream, link>>
        /\ state[last + 1] = "free" /\ state' = [state EXCEPT ![last + 1] = "open"]
        /\ hostOpen' = hostOpen \union {last + 1}
    BY <1>1, <1>3 DEF Open, TypeOK, HostInv
  <2>4. HostInv'
    BY <1>1, <2>3 DEF TypeOK, HostInv
  <2>5. CloseInv' /\ LinkInv'
    BY <1>1, <2>3 DEF TypeOK, CloseInv, LinkInv
  <2>6. ChainOlder'
    BY <1>1, <1>3 DEF Open, TypeOK, ChainOlder
  <2>7. QED
    BY <2>1, <2>2, <2>4, <2>5, <2>6 DEF IInv
<1>4. ASSUME NEW t \in Threads, NEW f \in Handles, Acquire(t, f) PROVE IInv'
  <2>1. f \in Files
    BY <1>1 DEF TypeOK, Handles
  <2>2. TypeOK'
    BY <1>1, <1>4, <2>1 DEF Acquire, Work, Goto, chain, TypeOK
  <2>3. Users(f)' = Users(f) \union {t} /\ t \notin Users(f)
    BY <1>1, <1>4, <2>1 DEF Acquire, Work, Goto, TypeOK, Users
  <2>4. \A g \in Files \ {f} : Users(g)' = Users(g)
    BY <1>1, <1>4, <2>1 DEF Acquire, Work, Goto, TypeOK, Users
  <2>5. Cardinality(Users(f)') = Cardinality(Users(f)) + 1
    BY <2>3, UsersFinite, FS_AddElement
  <2>6. OpsInv'
    BY <1>1, <1>4, <2>1, <2>4, <2>5 DEF Acquire, TypeOK, OpsInv
  <2>7. HostInv' /\ CloseInv' /\ ChainOlder' /\ LinkInv'
    BY <1>1, <1>4, <2>1
       DEF Acquire, Work, Goto, chain, TypeOK, HostInv, CloseInv, ChainOlder, LinkInv
  <2>8. QED
    BY <2>2, <2>6, <2>7 DEF IInv
<1>5. ASSUME NEW t \in Threads, Release(t) PROVE IInv'
  <2>1. PICK f \in Files : f = stream[t]
    BY <1>1, <1>5 DEF Release, TypeOK
  <2>2. Users(f)' = Users(f) \ {t} /\ t \in Users(f)
    BY <1>1, <1>5, <2>1 DEF Release, Return, Work, Goto, TypeOK, Users
  <2>3. \A g \in Files \ {f} : Users(g)' = Users(g)
    BY <1>1, <1>5, <2>1 DEF Release, Return, Work, Goto, TypeOK, Users
  <2>4. Cardinality(Users(f)') = Cardinality(Users(f)) - 1 /\ Cardinality(Users(f)) > 0
    <3>1. IsFiniteSet(Users(f)) /\ Cardinality(Users(f)) \in Nat
      BY UsersFinite
    <3>2. Cardinality(Users(f) \ {t}) = Cardinality(Users(f)) - 1
      BY <2>2, <3>1, FS_RemoveElement
    <3>3. Cardinality(Users(f)) # 0
      BY <2>2, <3>1, FS_EmptySet
    <3>4. QED
      BY <2>2, <3>1, <3>2, <3>3
  <2>5. ops' = [ops EXCEPT ![f] = @ - 1] /\ ops[f] > 0
    BY <1>1, <1>5, <2>1, <2>4 DEF Release, TypeOK, OpsInv
  <2>6. OpsInv'
    BY <1>1, <2>1, <2>3, <2>4, <2>5 DEF TypeOK, OpsInv
  <2>7. TypeOK'
    <3>1. ops' \in [Files -> Nat] /\ asleep' \in SUBSET Threads
      BY <1>1, <1>5, <2>1, <2>5 DEF Release, TypeOK
    <3>2. /\ pc' \in [Threads -> PCs] /\ stream' \in [Threads -> Files \union {Nil}]
          /\ link' \in [Threads -> Files \union {Nil}]
          /\ \A u \in Threads : pc'[u] # "idle" => stream'[u] \in Files
      BY <1>1, <1>5 DEF Release, Return, Work, Goto, TypeOK
    <3>3. QED
      BY <1>1, <1>5, <3>1, <3>2 DEF Release, chain, TypeOK
  <2>8. HostInv' /\ CloseInv' /\ ChainOlder' /\ LinkInv'
    BY <1>1, <1>5
       DEF Release, Return, Work, Goto, chain, TypeOK, HostInv, CloseInv, ChainOlder, LinkInv
  <2>9. QED
    BY <2>6, <2>7, <2>8 DEF IInv
<1>6. ASSUME NEW t \in Threads, NEW f \in Handles, CloseRejected(t, f) PROVE IInv'
  <2>1. OpsInv'
    BY <1>1, <1>6, UsersSame DEF CloseRejected, Work, Goto, TypeOK
  <2>2. f \in Files
    BY <1>1 DEF TypeOK, Handles
  <2>3. /\ UNCHANGED <<state, hostOpen, head, next, last, link>>
        /\ pc' = [pc EXCEPT ![t] = "rejected"] /\ stream' = [stream EXCEPT ![t] = f]
    BY <1>6 DEF CloseRejected, Work, Goto, chain
  <2>4. TypeOK'
    BY <1>1, <1>6, <2>2, <2>3 DEF CloseRejected, TypeOK
  <2>5. HostInv' /\ ChainOlder'
    BY <1>1, <2>3 DEF HostInv, ChainOlder
  <2>6. CloseInv' /\ LinkInv'
    BY <1>1, <2>3 DEF TypeOK, CloseInv, LinkInv
  <2>7. QED
    BY <2>1, <2>4, <2>5, <2>6 DEF IInv
<1>7. ASSUME NEW t \in Threads, RejectReturns(t) PROVE IInv'
  <2>1. OpsInv'
    BY <1>1, <1>7, UsersSame DEF RejectReturns, Return, Work, Goto, TypeOK
  <2>2. QED
    BY <1>1, <1>7, <2>1
       DEF RejectReturns, Return, Work, Goto, chain, IInv, TypeOK, HostInv, CloseInv, ChainOlder,
           LinkInv
<1>8. ASSUME NEW t \in Threads, NEW f \in Handles, CloseAtOnce(t, f) PROVE IInv'
  <2>1. f \in Files /\ state[f] = "open" /\ pc[t] = "idle"
    BY <1>1, <1>8 DEF CloseAtOnce, TypeOK, Handles
  <2>2. PICK l \in Links : LinksTo(l, f) /\ Take(f, l)
    BY <1>8 DEF CloseAtOnce
  <2>3. l = Nil \/ l > f
    BY <1>1, <2>1, <2>2, LinksAreYounger
  <2>4. /\ ChainOlder'
        /\ head' \in Files \union {Nil}
        /\ next' \in [Files -> Files \union {Nil}]
        /\ count' \in [created : Nat, open : Nat, closed : Nat]
    BY <1>1, <2>1, <2>2, <2>3, TakeKeepsOrder
  <2>5. state' = [state EXCEPT ![f] = "closed"] /\ last' = last
    BY <2>2 DEF Take
  <2>6. Users(f) = {}
    BY <1>1, <1>8, <2>1, UsersFinite, FS_EmptySet DEF CloseAtOnce, OpsInv
  <2>7. OpsInv'
    BY <1>1, <1>8, UsersSame DEF CloseAtOnce, Work, Goto, TypeOK
  <2>8. TypeOK'
    BY <1>1, <1>8, <2>1, <2>4, <2>5 DEF CloseAtOnce, Work, Goto, TypeOK
  <2>9. HostInv' /\ CloseInv' /\ LinkInv'
    BY <1>1, <1>8, <2>1, <2>5, <2>6
       DEF CloseAtOnce, Work, Goto, TypeOK, HostInv, CloseInv, LinkInv, Users
  <2>10. QED
    BY <2>4, <2>7, <2>8, <2>9 DEF IInv
<1>9. ASSUME NEW t \in Threads, NEW f \in Handles, CloseWaits(t, f) PROVE IInv'
  <2>1. f \in Files /\ state[f] = "open" /\ pc[t] = "idle"
    BY <1>1, <1>9 DEF CloseWaits, TypeOK, Handles
  <2>2. PICK l \in Links : LinksTo(l, f) /\ link' = [link EXCEPT ![t] = l]
    BY <1>9 DEF CloseWaits
  <2>3. l = Nil \/ l > f
    BY <1>1, <2>1, <2>2, LinksAreYounger
  <2>4. OpsInv'
    BY <1>1, <1>9, UsersSame DEF CloseWaits, Work, Goto, TypeOK
  <2>5. TypeOK'
    BY <1>1, <1>9, <2>1, <2>2 DEF CloseWaits, Work, Goto, chain, Links, TypeOK
  <2>6. HostInv' /\ CloseInv' /\ ChainOlder'
    BY <1>1, <1>9, <2>1
       DEF CloseWaits, Work, Goto, chain, TypeOK, HostInv, CloseInv, ChainOlder
  <2>7. LinkInv'
    BY <1>1, <1>9, <2>1, <2>2, <2>3 DEF CloseWaits, Work, Goto, TypeOK, LinkInv
  <2>8. QED
    BY <2>4, <2>5, <2>6, <2>7 DEF IInv
<1>10. ASSUME NEW t \in Threads, WaitAgain(t) PROVE IInv'
  <2>1. OpsInv'
    BY <1>1, <1>10, UsersSame DEF WaitAgain
  <2>2. QED
    BY <1>1, <1>10, <2>1
       DEF WaitAgain, chain, IInv, TypeOK, HostInv, CloseInv, ChainOlder, LinkInv
<1>11. ASSUME NEW t \in Threads, CloseAfterWait(t) PROVE IInv'
  <2>1. PICK f \in Files :
            f = stream[t] /\ state[f] = "closing" /\ pc[t] = "waiting" /\ ops[f] = 0
    BY <1>1, <1>11 DEF CloseAfterWait, TypeOK, CloseInv
  <2>2. Take(f, link[t]) /\ link[t] \in Links /\ (link[t] = Nil \/ link[t] > f)
    BY <1>1, <1>11, <2>1 DEF CloseAfterWait, TypeOK, Links, LinkInv
  <2>3. /\ ChainOlder'
        /\ head' \in Files \union {Nil}
        /\ next' \in [Files -> Files \union {Nil}]
        /\ count' \in [created : Nat, open : Nat, closed : Nat]
    BY <1>1, <2>1, <2>2, TakeKeepsOrder
  <2>4. state' = [state EXCEPT ![f] = "closed"] /\ last' = last
    BY <2>2 DEF Take
  <2>5. Users(f) = {}
    BY <1>1, <2>1, UsersFinite, FS_EmptySet DEF OpsInv
  <2>6. OpsInv'
    BY <1>1, <1>11, UsersSame DEF CloseAfterWait, Goto, TypeOK
  <2>7. TypeOK'
    BY <1>1, <1>11, <2>1, <2>3, <2>4 DEF CloseAfterWait, Goto, TypeOK
  <2>8. HostInv' /\ CloseInv' /\ LinkInv'
    BY <1>1, <1>11, <2>1, <2>4, <2>5
       DEF CloseAfterWait, Goto, TypeOK, HostInv, CloseInv, LinkInv, Users
  <2>9. QED
    BY <2>3, <2>6, <2>7, <2>8 DEF IInv
<1>12. ASSUME NEW t \in Threads, HostClose(t) PROVE IInv'
  <2>1. OpsInv'
    BY <1>1, <1>12, UsersSame DEF HostClose, Return, Work, Goto, TypeOK
  <2>2. stream[t] \in Files /\ state[stream[t]] = "closed"
    BY <1>1, <1>12 DEF HostClose, TypeOK, CloseInv
  <2>3. TypeOK' /\ ChainOlder' /\ LinkInv'
    BY <1>1, <1>12 DEF HostClose, Return, Work, Goto, chain, TypeOK, ChainOlder, LinkInv
  <2>4. HostInv' /\ CloseInv'
    BY <1>1, <1>12, <2>2
       DEF HostClose, Return, Work, Goto, chain, TypeOK, HostInv, CloseInv
  <2>5. QED
    BY <2>1, <2>3, <2>4 DEF IInv
<1>13. ASSUME NEW t \in Threads, SpuriousWake(t) PROVE IInv'
  <2>1. OpsInv'
    BY <1>1, <1>13, UsersSame DEF SpuriousWake
  <2>2. QED
    BY <1>1, <1>13, <2>1
       DEF SpuriousWake, chain, IInv, TypeOK, HostInv, CloseInv, ChainOlder, LinkInv
<1>14. QED
  BY <1>2, <1>3, <1>4, <1>5, <1>6, <1>7, <1>8, <1>9, <1>10, <1>11, <1>12, <1>13 DEF Next, Close

THEOREM Invariance == Spec => []IInv
  BY InvInitially, InvStep, PTL DEF Spec

-----------------------------------------------------------------------------

\* Every variable keeps its type: active_operations does not wrap.
THEOREM TypeCorrect == Spec => []TypeOK
<1>1. IInv => TypeOK
  BY DEF IInv
<1>2. QED
  BY <1>1, Invariance, PTL

\* An operation in flight keeps its host stream open, whoever closes it.
THEOREM UseBeforeClose == Spec => []NoUseAfterClose
<1>1. IInv => NoUseAfterClose
  BY DEF IInv, TypeOK, HostInv, CloseInv, NoUseAfterClose
<1>2. QED
  BY <1>1, Invariance, PTL

\* However many threads close a stream, the host closes it once.
THEOREM HostClosesOnce == Spec => []ClosedOnce
<1>1. IInv => ClosedOnce
  BY DEF IInv, CloseInv, ClosedOnce
<1>2. QED
  BY <1>1, Invariance, PTL

\* Stale as the links may be that a waiting close writes through, no chain
\* ever turns back on itself.
THEOREM ChainsEnd == Spec => []ChainOlder
<1>1. IInv => ChainOlder
  BY DEF IInv
<1>2. QED
  BY <1>1, Invariance, PTL

-----------------------------------------------------------------------------
(* What a close that waits can rely on. *)

\* Who sleeps in asm2_file_condition waits for its stream to be left.
SleepInv == \A t \in asleep : pc[t] = "waiting" /\ ops[stream[t]] # 0

\* Every step keeps it: the last operation to leave wakes everybody.
LEMMA SleepStep == IInv /\ SleepInv /\ [Next]_vars => SleepInv'
<1> SUFFICES ASSUME IInv, SleepInv, [Next]_vars PROVE SleepInv'
  OBVIOUS
<1>1. TypeOK /\ CloseInv
  BY DEF IInv
<1>2. CASE UNCHANGED vars
  BY <1>2 DEF vars, SleepInv
<1>3. ASSUME NEW t \in Threads, Open(t) PROVE SleepInv'
  BY <1>3 DEF Open, SleepInv
<1>4. ASSUME NEW t \in Threads, NEW f \in Handles, Acquire(t, f) PROVE SleepInv'
  <2>1. t \notin asleep /\ f \in Files
    BY <1>1, <1>4, FilesAssumption DEF Acquire, SleepInv, TypeOK, Handles, Files
  <2>2. /\ ops' = [ops EXCEPT ![f] = @ + 1] /\ asleep' = asleep
        /\ \A u \in asleep : pc'[u] = pc[u] /\ stream'[u] = stream[u]
    BY <1>1, <1>4, <2>1 DEF Acquire, Work, Goto, TypeOK
  <2>3. \A g \in Files : ops[g] # 0 => ops'[g] # 0
    BY <1>1, <2>1, <2>2 DEF TypeOK
  <2>4. \A u \in asleep : stream[u] \in Files
    BY <1>1 DEF TypeOK, SleepInv
  <2>5. QED
    BY <2>2, <2>3, <2>4 DEF SleepInv
<1>5. ASSUME NEW t \in Threads, Release(t) PROVE SleepInv'
  <2>1. stream[t] \in Files /\ t \notin asleep
    BY <1>1, <1>5 DEF Release, TypeOK, SleepInv
  <2>2. \A u \in asleep : pc'[u] = pc[u] /\ stream'[u] = stream[u]
    BY <1>1, <1>5, <2>1 DEF Release, Return, Work, Goto, TypeOK
  <2>3. CASE asleep' = {}
    BY <2>3 DEF SleepInv
  <2>4. CASE asleep' # {}
    <3>1. /\ asleep' = asleep
          /\ state[stream[t]] = "closing" => ops'[stream[t]] # 0
          /\ \A g \in Files : g # stream[t] => ops'[g] = ops[g]
      BY <1>1, <1>5, <2>1, <2>4 DEF Release, TypeOK
    <3>2. \A u \in asleep : stream[u] \in Files /\ state[stream[u]] = "closing"
      BY <1>1 DEF TypeOK, CloseInv, SleepInv
    <3>3. ASSUME NEW u \in asleep PROVE ops'[stream[u]] # 0
      BY <3>1, <3>2 DEF SleepInv
    <3>4. QED
      BY <2>2, <3>1, <3>3 DEF SleepInv
  <2>5. QED
    BY <2>3, <2>4
<1>6. ASSUME NEW t \in Threads, NEW f \in Handles, CloseWaits(t, f) PROVE SleepInv'
  <2>1. /\ pc'[t] = "waiting" /\ stream'[t] = f /\ ops[f] # 0 /\ ops' = ops
        /\ asleep' = asleep \union {t}
        /\ \A u \in Threads \ {t} : pc'[u] = pc[u] /\ stream'[u] = stream[u]
    BY <1>1, <1>6 DEF CloseWaits, Work, Goto, TypeOK
  <2>2. asleep \subseteq Threads
    BY <1>1 DEF TypeOK
  <2>3. QED
    BY <2>1, <2>2 DEF SleepInv
<1>7. ASSUME NEW t \in Threads, WaitAgain(t) PROVE SleepInv'
  BY <1>7 DEF WaitAgain, SleepInv
<1>8. ASSUME NEW t \in Threads, SpuriousWake(t) PROVE SleepInv'
  BY <1>8 DEF SpuriousWake, SleepInv
\* A thread that is not asleep goes on, and no counter changes.
<1>9. ASSUME NEW t \in Threads,
             \/ RejectReturns(t) \/ CloseAfterWait(t) \/ HostClose(t)
             \/ \E f \in Handles : CloseRejected(t, f) \/ CloseAtOnce(t, f)
      PROVE  SleepInv'
  <2>1. t \notin asleep /\ UNCHANGED <<ops, asleep>>
    BY <1>9 DEF RejectReturns, CloseAfterWait, HostClose, CloseRejected, CloseAtOnce, SleepInv
  <2>2. \A u \in Threads \ {t} : pc'[u] = pc[u] /\ stream'[u] = stream[u]
    BY <1>1, <1>9
       DEF RejectReturns, CloseAfterWait, HostClose, CloseRejected, CloseAtOnce, Return, Work,
           Goto, TypeOK
  <2>3. asleep \subseteq Threads
    BY <1>1 DEF TypeOK
  <2>4. QED
    BY <2>1, <2>2, <2>3 DEF SleepInv
<1>10. QED
  BY <1>2, <1>3, <1>4, <1>5, <1>6, <1>7, <1>8, <1>9 DEF Next, Close

\* asm2_take_file_for_close: for every close that sleeps there is a thread at
\* work on its stream, which has to come by asm2_release_stream.
SleeperHasUser ==
    \A t \in asleep : \E u \in Threads : pc[u] = "io" /\ stream[u] = stream[t]

\* No close sleeps on a stream that nobody uses: the wake-up it waits for is
\* still to come.
THEOREM NoCloseForgotten == Spec => []SleeperHasUser
<1>1. Init => SleepInv
  BY DEF Init, SleepInv
<1>2. Spec => []SleepInv
  BY <1>1, SleepStep, Invariance, PTL DEF Spec
<1>3. IInv /\ SleepInv => SleeperHasUser
  <2> SUFFICES ASSUME IInv, SleepInv, NEW t \in asleep
               PROVE  \E u \in Threads : pc[u] = "io" /\ stream[u] = stream[t]
    BY DEF SleeperHasUser
  <2>1. stream[t] \in Files /\ ops[stream[t]] # 0
    BY DEF IInv, TypeOK, SleepInv
  <2>2. Cardinality(Users(stream[t])) # 0
    BY <2>1 DEF IInv, OpsInv
  <2>3. Users(stream[t]) # {}
    BY <2>2, FS_EmptySet
  <2>4. QED
    BY <2>3 DEF Users
<1>4. QED
  BY <1>2, <1>3, Invariance, PTL

\* asm2_acquire_stream refuses a stream that is closing: nobody joins those
\* who are at work on it, and it does not open again.
ClosingDrains ==
    [][\A f \in Files : state[f] = "closing" =>
           ops'[f] <= ops[f] /\ state'[f] \in {"closing", "closed"}]_vars

\* What a close waits for only ever gets less.
THEOREM ClosingOnlyDrains == Spec => ClosingDrains
<1> DEFINE Drains(f) == state[f] = "closing" =>
                            ops'[f] <= ops[f] /\ state'[f] \in {"closing", "closed"}
<1>1. IInv /\ [Next]_vars => [\A f \in Files : Drains(f)]_vars
  <2> SUFFICES ASSUME IInv, Next, NEW f \in Files, state[f] = "closing"
               PROVE  ops'[f] <= ops[f] /\ state'[f] \in {"closing", "closed"}
    OBVIOUS
  <2>1. TypeOK /\ HostInv /\ CloseInv /\ ops[f] \in Nat
    BY DEF IInv, TypeOK
  <2>2. PICK t \in Threads :
            \/ Open(t) \/ Release(t) \/ Close(t) \/ \E g \in Handles : Acquire(t, g)
    BY DEF Next
  <2>3. CASE Open(t)
    <3>1. last + 1 \in Files /\ state[last + 1] = "free"
      BY <2>1, <2>3, FilesAssumption DEF Open, TypeOK, HostInv, Files
    <3>2. state' = [state EXCEPT ![last + 1] = "open"] /\ ops' = ops
      BY <2>3 DEF Open
    <3>3. QED
      BY <2>1, <3>1, <3>2 DEF TypeOK
  <2>4. CASE \E g \in Handles : Acquire(t, g)
    <3>1. PICK g \in Handles : Acquire(t, g)
      BY <2>4
    <3>2. /\ g # f /\ state' = state /\ ops' = [ops EXCEPT ![g] = @ + 1]
      BY <3>1 DEF Acquire
    <3>3. ops'[f] = ops[f]
      BY <2>1, <3>2 DEF TypeOK
    <3>4. QED
      BY <2>1, <3>2, <3>3
  <2>5. CASE Release(t)
    <3>1. state' = state /\ ops' = [ops EXCEPT ![stream[t]] = IF @ > 0 THEN @ - 1 ELSE @]
      BY <2>5 DEF Release
    <3>2. QED
      BY <2>1, <3>1 DEF TypeOK
  <2>6. CASE Close(t)
    <3>1. ops' = ops
      BY <2>6 DEF Close, CloseRejected, CloseAtOnce, CloseWaits, RejectReturns, SpuriousWake,
                  WaitAgain, CloseAfterWait, HostClose
    <3>2. \/ state' = state
          \/ \E g \in Files : state' = [state EXCEPT ![g] = "closed"]
          \/ \E g \in Files : state[g] = "open" /\ state' = [state EXCEPT ![g] = "closing"]
      <4>1. \A g \in Handles : g \in Files
        BY <2>1, FilesAssumption DEF TypeOK, Handles, Files
      <4>2. CASE \E g \in Handles : CloseAtOnce(t, g)
        BY <4>1, <4>2 DEF CloseAtOnce, Take
      <4>3. CASE \E g \in Handles : CloseWaits(t, g)
        BY <4>1, <4>3 DEF CloseWaits
      <4>4. CASE CloseAfterWait(t)
        BY <2>1, <4>4 DEF CloseAfterWait, Take, TypeOK
      <4>5. CASE \/ \E g \in Handles : CloseRejected(t, g)
                 \/ RejectReturns(t) \/ SpuriousWake(t) \/ WaitAgain(t) \/ HostClose(t)
        BY <4>5 DEF CloseRejected, RejectReturns, SpuriousWake, WaitAgain, HostClose
      <4>6. QED
        BY <2>6, <4>2, <4>3, <4>4, <4>5 DEF Close
    <3>3. QED
      BY <2>1, <3>1, <3>2 DEF TypeOK
  <2>7. QED
    BY <2>2, <2>3, <2>4, <2>5, <2>6
<1>2. QED
  BY <1>1, Invariance, PTL DEF Spec, ClosingDrains

-----------------------------------------------------------------------------
(* The streams of StreamApi. *)

Usable    == {f \in Files : state[f] = "open"}
UsersOf   == [f \in Files |-> Users(f)]
ClosersOf == [f \in Files |-> Closers(f)]
Mapped    == <<Handles, Usable, UsersOf, ClosersOf, hostOpen>>

\* Nobody but t goes on.
Stays(t) == \A u \in Threads \ {t} : pc'[u] = pc[u] /\ stream'[u] = stream[u]

\* No thread starts or ends an operation or a close.
LEMMA NobodyMoves ==
    ASSUME NEW t \in Threads, Stays(t),
           \A f \in Files : (t \in Users(f)') = (t \in Users(f)),
           \A f \in Files : (t \in Closers(f)') = (t \in Closers(f))
    PROVE  UNCHANGED <<UsersOf, ClosersOf>>
<1>1. \A f \in Files : Users(f)' = Users(f)
  BY DEF Stays, Users
<1>2. \A f \in Files : Closers(f)' = Closers(f)
  BY DEF Stays, Closers
<1>3. QED
  BY <1>1, <1>2 DEF UsersOf, ClosersOf

\* The close of t on f is the first and only one.
LEMMA OneClaims ==
    ASSUME IInv, NEW t \in Threads, NEW f \in Files, pc[t] = "idle", state[f] = "open",
           Work(t, "waiting", f) \/ Work(t, "fclose", f)
    PROVE  /\ ClosersOf[f] = {}
           /\ ClosersOf' = [ClosersOf EXCEPT ![f] = {t}]
           /\ UNCHANGED UsersOf
<1>1. TypeOK /\ CloseInv
  BY DEF IInv
<1>2. /\ Stays(t) /\ stream'[t] = f
      /\ pc'[t] \in {"waiting", "fclose"}
  BY <1>1 DEF Work, Goto, Stays, TypeOK
<1>3. Closers(f) = {}
  BY <1>1 DEF CloseInv, Closers
<1>4. \A g \in Files : Closers(g)' = IF g = f THEN {t} ELSE Closers(g)
  BY <1>2, <1>3 DEF Stays, Closers
<1>5. \A g \in Files : Users(g)' = Users(g)
  BY <1>2 DEF Stays, Users
<1>6. QED
  BY <1>3, <1>4, <1>5 DEF UsersOf, ClosersOf

\* However many threads open, use and close streams, and however stale the
\* links they close them by: an operation never meets a close on the host
\* stream, and of all closes of a stream one is let through.
THEOREM ImplementsStreams == Spec => StreamApiHolds
<1>1. Init => Streams!Init
  <2> SUFFICES ASSUME Init PROVE Streams!Init
    OBVIOUS
  <2>1. Handles = {}
    BY DEF Init, Handles
  <2>2. \A f \in Files : state[f] = "free" /\ Users(f) = {} /\ Closers(f) = {}
    BY DEF Init, Users, Closers
  <2>3. QED
    BY <2>1, <2>2 DEF Init, Streams!Init
<1>2. IInv /\ [Next]_vars => [Streams!Next]_Mapped
  <2> SUFFICES ASSUME IInv, [Next]_vars PROVE Streams!Next \/ UNCHANGED Mapped
    OBVIOUS
  <2>0. TypeOK /\ OpsInv /\ HostInv /\ CloseInv
    BY DEF IInv
  <2>h. \A f \in Handles : f \in Files
    BY <2>0, FilesAssumption DEF TypeOK, Handles, Files
  <2>1. CASE UNCHANGED vars
    BY <2>1 DEF vars, chain, Mapped, Handles, Usable, UsersOf, ClosersOf, Users, Closers
  <2>2. ASSUME NEW t \in Threads, Open(t) PROVE Streams!Next
    <3>1. /\ last + 1 \in Files \ Handles /\ last' = last + 1
          /\ state' = [state EXCEPT ![last + 1] = "open"]
          /\ hostOpen' = hostOpen \union {last + 1}
          /\ UNCHANGED <<pc, stream>>
      BY <2>0, <2>2, FilesAssumption DEF Open, TypeOK, Files, Handles
    <3>2. Handles' = Handles \union {last + 1}
      BY <2>0, <3>1, FilesAssumption DEF TypeOK, Handles, Files
    <3>3. Usable' = Usable \union {last + 1}
      BY <2>0, <3>1 DEF TypeOK, Usable
    <3>4. UNCHANGED <<UsersOf, ClosersOf>>
      BY <3>1 DEF UsersOf, ClosersOf, Users, Closers
    <3>5. \E f \in Files : Streams!Open(f)
      BY <3>1, <3>2, <3>3, <3>4 DEF Streams!Open, Usable, UsersOf, ClosersOf
    <3>6. QED
      BY <3>5 DEF Streams!Next
  <2>3. ASSUME NEW t \in Threads, NEW f \in Handles, Acquire(t, f) PROVE Streams!Next
    <3>1. /\ f \in Files /\ f \in Usable /\ pc[t] = "idle" /\ Stays(t)
          /\ pc'[t] = "io" /\ stream'[t] = f
          /\ UNCHANGED <<state, last, hostOpen>>
      BY <2>0, <2>h, <2>3 DEF Acquire, Work, Goto, chain, TypeOK, Stays, Usable
    <3>2. \A g \in Files : Users(g)' = IF g = f THEN Users(g) \union {t} ELSE Users(g)
      BY <3>1 DEF Stays, Users
    <3>3. \A g \in Files : Closers(g)' = Closers(g)
      BY <3>1 DEF Stays, Closers
    <3>4. /\ UsersOf' = [UsersOf EXCEPT ![f] = @ \union {t}]
          /\ UNCHANGED <<Handles, Usable, ClosersOf>>
      BY <3>1, <3>2, <3>3 DEF Handles, Usable, UsersOf, ClosersOf
    <3>5. Streams!Use(t, f)
      BY <3>1, <3>4 DEF Streams!Use, Usable, UsersOf, ClosersOf
    <3>6. QED
      BY <3>1, <3>5 DEF Streams!Next
  <2>4. ASSUME NEW t \in Threads, Release(t) PROVE Streams!Next
    <3>1. PICK f \in Files : f = stream[t]
      BY <2>0, <2>4 DEF Release, TypeOK
    <3>2. /\ pc[t] = "io" /\ Stays(t) /\ pc'[t] = "idle"
          /\ UNCHANGED <<state, last, hostOpen>>
      BY <2>0, <2>4 DEF Release, Return, Work, Goto, chain, TypeOK, Stays
    <3>3. /\ t \in Users(f)
          /\ \A g \in Files : Users(g)' = IF g = f THEN Users(g) \ {t} ELSE Users(g)
      BY <3>1, <3>2 DEF Stays, Users
    <3>4. \A g \in Files : Closers(g)' = Closers(g)
      BY <3>2 DEF Stays, Closers
    <3>5. /\ t \in UsersOf[f] /\ UsersOf' = [UsersOf EXCEPT ![f] = @ \ {t}]
          /\ UNCHANGED <<Handles, Usable, ClosersOf>>
      BY <3>2, <3>3, <3>4 DEF Handles, Usable, UsersOf, ClosersOf
    <3>6. Streams!Leave(t, f)
      BY <3>2, <3>5 DEF Streams!Leave, Usable, UsersOf, ClosersOf
    <3>7. QED
      BY <3>6 DEF Streams!Next
  <2>5. ASSUME NEW t \in Threads, NEW f \in Handles, CloseAtOnce(t, f) \/ CloseWaits(t, f)
        PROVE  Streams!Next
    <3>1. /\ f \in Files /\ f \in Usable /\ pc[t] = "idle" /\ state[f] = "open"
          /\ Work(t, "waiting", f) \/ Work(t, "fclose", f)
      BY <2>h, <2>5 DEF CloseAtOnce, CloseWaits, Usable
    <3>2. /\ UNCHANGED <<last, hostOpen>>
          /\ \/ state' = [state EXCEPT ![f] = "closed"]
             \/ state' = [state EXCEPT ![f] = "closing"]
      BY <2>5 DEF CloseAtOnce, CloseWaits, Take, chain
    <3>3. Handles' = Handles /\ Usable' = Usable \ {f}
      BY <2>0, <3>1, <3>2 DEF TypeOK, Handles, Usable
    <3>4. Streams!Claim(t, f)
      BY <3>1, <3>2, <3>3, OneClaims DEF Streams!Claim, Usable, UsersOf, ClosersOf
    <3>5. QED
      BY <3>1, <3>4 DEF Streams!Next
  <2>6. ASSUME NEW t \in Threads, HostClose(t) PROVE Streams!Next
    <3>1. PICK f \in Files : f = stream[t]
      BY <2>0, <2>6 DEF HostClose, TypeOK
    <3>2. /\ pc[t] = "fclose" /\ Stays(t) /\ pc'[t] = "idle"
          /\ hostOpen' = hostOpen \ {f} /\ UNCHANGED <<state, last>>
      BY <2>0, <2>6, <3>1 DEF HostClose, Return, Work, Goto, chain, TypeOK, Stays
    <3>3. state[f] = "closed" /\ f \in hostOpen /\ Users(f) = {}
      BY <2>0, <3>1, <3>2 DEF CloseInv, Users
    <3>4. Closers(f) = {t}
      BY <2>0, <3>1, <3>2, <3>3 DEF CloseInv, Closers
    <3>5. \A g \in Files : Closers(g)' = IF g = f THEN {} ELSE Closers(g)
      BY <3>1, <3>2, <3>4 DEF Stays, Closers
    <3>6. \A g \in Files : Users(g)' = Users(g)
      BY <3>2 DEF Stays, Users
    <3>7. /\ ClosersOf[f] = {t} /\ ClosersOf' = [ClosersOf EXCEPT ![f] = {}]
          /\ UsersOf[f] = {} /\ UNCHANGED <<Handles, Usable, UsersOf>>
      BY <3>2, <3>3, <3>4, <3>5, <3>6 DEF Handles, Usable, UsersOf, ClosersOf
    <3>8. Streams!HostClose(t, f)
      BY <3>2, <3>3, <3>7 DEF Streams!HostClose, Usable, UsersOf, ClosersOf
    <3>9. QED
      BY <3>8 DEF Streams!Next
  \* A refusal, and the waits of a close that has been let through.
  <2>7. ASSUME NEW t \in Threads,
               \/ RejectReturns(t) \/ SpuriousWake(t) \/ WaitAgain(t) \/ CloseAfterWait(t)
               \/ \E f \in Handles : CloseRejected(t, f)
        PROVE  UNCHANGED Mapped
    <3>1. Stays(t) /\ UNCHANGED <<last, hostOpen>>
      BY <2>0, <2>7
         DEF RejectReturns, SpuriousWake, WaitAgain, CloseAfterWait, CloseRejected, Take, Return,
             Work, Goto, chain, TypeOK, Stays
    <3>2. /\ pc'[t] \in {"waiting", "fclose"} <=> pc[t] \in {"waiting", "fclose"}
          /\ pc'[t] \in {"waiting", "fclose"} => stream'[t] = stream[t]
          /\ pc'[t] = "io" <=> pc[t] = "io"
          /\ pc'[t] = "io" => stream'[t] = stream[t]
      BY <2>0, <2>7
         DEF RejectReturns, SpuriousWake, WaitAgain, CloseAfterWait, CloseRejected, Return, Work,
             Goto, TypeOK
    <3>3. UNCHANGED <<UsersOf, ClosersOf>>
      <4>1. \A f \in Files : t \in Users(f)' <=> t \in Users(f)
        BY <3>2 DEF Users
      <4>2. \A f \in Files : t \in Closers(f)' <=> t \in Closers(f)
        BY <3>2 DEF Closers
      <4>3. QED
        BY <3>1, <4>1, <4>2, NobodyMoves
    <3>4. Usable' = Usable
      <4>1. CASE CloseAfterWait(t)
        <5>1. state[stream[t]] = "closing" /\ state' = [state EXCEPT ![stream[t]] = "closed"]
          BY <2>0, <4>1 DEF CloseAfterWait, Take, CloseInv
        <5>2. QED
          BY <2>0, <5>1 DEF TypeOK, Usable
      <4>2. CASE state' = state
        BY <4>2 DEF Usable
      <4>3. QED
        BY <2>7, <4>1, <4>2 DEF RejectReturns, SpuriousWake, WaitAgain, CloseRejected
    <3>5. QED
      BY <3>1, <3>3, <3>4 DEF Mapped, Handles
  <2>8. QED
    BY <2>1, <2>2, <2>3, <2>4, <2>5, <2>6, <2>7 DEF Next, Close
<1>3. QED
  BY <1>1, <1>2, Invariance, PTL
  DEF Spec, StreamApiHolds, Streams!Spec, Streams!vars, Mapped, Usable, UsersOf, ClosersOf

=============================================================================
