--------------------------- MODULE GuestOnceProofs ---------------------------
(***************************************************************************)
(* Proofs about GuestOnce, for every set of threads and controls and       *)
(* whatever initialisers call which.                                       *)
(*                                                                         *)
(* The three invariants are not inductive without two facts: the calls a   *)
(* thread is in form a stack, so ending one touches no other, and a thread *)
(* sleeps only on a control that is marked as being initialised.           *)
(***************************************************************************)
EXTENDS GuestOnce, TLAPS

\* The calls of a thread form a stack: each was made by a running initialiser
\* that made no other, and the innermost made none.
StackInv ==
    \A t \in Threads, c \in Controls : caller[t][c] # Guest =>
        /\ ph[t][c] # "out"
        /\ ph[t][caller[t][c]] = "run"
        /\ caller[t][c] # top[t]
        /\ caller[t][c] # c
        /\ \A d \in Controls : caller[t][d] = caller[t][c] => d = c

\* The word counts the life of its control.
WordInv ==
    \A c \in Controls :
        /\ word[c] = 2 => completed[c] = 1
        /\ word[c] # 2 => completed[c] = 0
        /\ \A t \in Threads : c \in returned[t] => word[c] = 2
        /\ \A t \in Threads : ph[t][c] = "asleep" => word[c] = 1

IInv ==
    /\ TypeOK
    /\ StackInv
    /\ OneInitialiser
    /\ WordInv

-----------------------------------------------------------------------------

LEMMA InvInitially == Init => IInv
  BY OnceAssumption DEF Init, IInv, TypeOK, Phases, StackInv, OneInitialiser, WordInv

LEMMA InvStep == IInv /\ [Next]_vars => IInv'
<1> SUFFICES ASSUME IInv, [Next]_vars PROVE IInv'
  OBVIOUS
<1> USE OnceAssumption DEF Phases
<1>1. TypeOK /\ StackInv /\ OneInitialiser /\ WordInv
  BY DEF IInv
<1>2. CASE UNCHANGED vars
  BY <1>1, <1>2 DEF vars, IInv, TypeOK, StackInv, OneInitialiser, WordInv
<1>3. ASSUME NEW t \in Threads, NEW c \in Controls, Call(t, c) PROVE IInv'
  <2>1. TypeOK'
    BY <1>1, <1>3 DEF Call, TypeOK
  <2>2. StackInv'
    BY <1>1, <1>3 DEF Call, In, TypeOK, StackInv
  <2>3. OneInitialiser' /\ WordInv'
    BY <1>1, <1>3 DEF Call, TypeOK, OneInitialiser, WordInv
  <2>4. QED
    BY <2>1, <2>2, <2>3 DEF IInv
<1>4. ASSUME NEW t \in Threads, Sleep(t) PROVE IInv'
  <2>1. TypeOK'
    BY <1>1, <1>4 DEF Sleep, In, Become, TypeOK
  <2>2. StackInv'
    BY <1>1, <1>4 DEF Sleep, In, Become, TypeOK, StackInv
  <2>3. OneInitialiser' /\ WordInv'
    BY <1>1, <1>4 DEF Sleep, In, Become, TypeOK, OneInitialiser, WordInv
  <2>4. QED
    BY <2>1, <2>2, <2>3 DEF IInv
<1>5. ASSUME NEW t \in Threads, AlreadyDone(t) PROVE IInv'
  <2>1. TypeOK'
    BY <1>1, <1>5 DEF AlreadyDone, In, Become, Pop, TypeOK, StackInv
  <2>2. StackInv'
    BY <1>1, <1>5 DEF AlreadyDone, In, Become, Pop, TypeOK, StackInv
  <2>3. OneInitialiser' /\ WordInv'
    BY <1>1, <1>5 DEF AlreadyDone, In, Become, TypeOK, OneInitialiser, WordInv
  <2>4. QED
    BY <2>1, <2>2, <2>3 DEF IInv
<1>6. ASSUME NEW t \in Threads, StartInit(t) PROVE IInv'
  <2>1. TypeOK'
    BY <1>1, <1>6 DEF StartInit, In, Become, TypeOK
  <2>2. StackInv'
    BY <1>1, <1>6 DEF StartInit, In, Become, TypeOK, StackInv
  <2>3. OneInitialiser' /\ WordInv'
    BY <1>1, <1>6 DEF StartInit, In, Become, TypeOK, OneInitialiser, WordInv
  <2>4. QED
    BY <2>1, <2>2, <2>3 DEF IInv
<1>7. ASSUME NEW t \in Threads, In(t, "run"), LeaveAndBroadcast(t)
      PROVE  /\ ph' \in [Threads -> [Controls -> Phases]]
             /\ caller' \in [Threads -> [Controls -> Controls \union {Guest}]]
             /\ top' \in [Threads -> Controls \union {Guest}]
             /\ \A u \in Threads : top'[u] # Guest => ph'[u][top'[u]] # "out"
             /\ StackInv'
  <2>1. top[t] \in Controls
    BY <1>1, <1>7 DEF In, TypeOK
  <2>2. ph' \in [Threads -> [Controls -> Phases]]
    BY <1>1, <1>7 DEF LeaveAndBroadcast, TypeOK
  <2>3. /\ caller' \in [Threads -> [Controls -> Controls \union {Guest}]]
        /\ top' \in [Threads -> Controls \union {Guest}]
    BY <1>1, <1>7, <2>1 DEF LeaveAndBroadcast, Pop, TypeOK
  <2>4. \A u \in Threads, d \in Controls :
            ph[u][d] # "out" /\ ~(u = t /\ d = top[t]) => ph'[u][d] # "out"
    BY <1>1, <1>7 DEF LeaveAndBroadcast, TypeOK
  <2>5. \A u \in Threads : top'[u] # Guest => ph'[u][top'[u]] # "out"
    BY <1>1, <1>7, <2>1, <2>4 DEF LeaveAndBroadcast, Pop, TypeOK, StackInv
  <2>6. \A u \in Threads, d \in Controls :
            ph[u][d] = "run" /\ ~(u = t /\ d = top[t]) => ph'[u][d] = "run"
    BY <1>1, <1>7 DEF LeaveAndBroadcast, TypeOK
  <2>7. StackInv'
    BY <1>1, <1>7, <2>1, <2>4, <2>6 DEF LeaveAndBroadcast, Pop, TypeOK, StackInv
  <2>8. QED
    BY <2>2, <2>3, <2>5, <2>7
<1>8. ASSUME NEW t \in Threads, FinishInit(t) PROVE IInv'
  <2>1. In(t, "run") /\ LeaveAndBroadcast(t) /\ top[t] \in Controls /\ word[top[t]] = 1
    BY <1>1, <1>8 DEF FinishInit, In, TypeOK, OneInitialiser
  <2>2. TypeOK' /\ StackInv'
    BY <1>1, <1>7, <1>8, <2>1 DEF FinishInit, TypeOK
  <2>3. OneInitialiser' /\ WordInv'
    BY <1>1, <1>8, <2>1
       DEF FinishInit, In, LeaveAndBroadcast, TypeOK, OneInitialiser, WordInv
  <2>4. QED
    BY <2>2, <2>3 DEF IInv
<1>9. ASSUME NEW t \in Threads, Cancel(t) PROVE IInv'
  BY <1>1, <1>9 DEF Cancel, IInv, TypeOK, StackInv, OneInitialiser, WordInv
<1>10. ASSUME NEW t \in Threads, InitCancelled(t) PROVE IInv'
  <2>1. In(t, "run") /\ LeaveAndBroadcast(t) /\ top[t] \in Controls /\ word[top[t]] = 1
    BY <1>1, <1>10 DEF InitCancelled, In, TypeOK, OneInitialiser
  <2>2. TypeOK' /\ StackInv'
    BY <1>1, <1>7, <1>10, <2>1 DEF InitCancelled, TypeOK
  <2>3. OneInitialiser' /\ WordInv'
    BY <1>1, <1>10, <2>1
       DEF InitCancelled, In, LeaveAndBroadcast, TypeOK, OneInitialiser, WordInv
  <2>4. QED
    BY <2>2, <2>3 DEF IInv
<1>11. ASSUME NEW t \in Threads, SpuriousWake(t) PROVE IInv'
  <2>1. TypeOK'
    BY <1>1, <1>11 DEF SpuriousWake, In, Become, TypeOK
  <2>2. StackInv'
    BY <1>1, <1>11 DEF SpuriousWake, In, Become, TypeOK, StackInv
  <2>3. OneInitialiser' /\ WordInv'
    BY <1>1, <1>11 DEF SpuriousWake, In, Become, TypeOK, OneInitialiser, WordInv
  <2>4. QED
    BY <2>1, <2>2, <2>3 DEF IInv
<1>12. QED
  BY <1>2, <1>3, <1>4, <1>5, <1>6, <1>8, <1>9, <1>10, <1>11 DEF Next, Step

THEOREM Invariance == Spec => []IInv
  BY InvInitially, InvStep, PTL DEF Spec

-----------------------------------------------------------------------------

\* Every variable keeps its type.
THEOREM TypeCorrect == Spec => []TypeOK
<1>1. IInv => TypeOK
  BY DEF IInv
<1>2. QED
  BY <1>1, Invariance, PTL

\* An initialiser runs in one thread, and one marked as running does run.
THEOREM RunsOnce == Spec => []OneInitialiser
<1>1. IInv => OneInitialiser
  BY DEF IInv
<1>2. QED
  BY <1>1, Invariance, PTL

\* The answer 0 means that the initialiser has run to its end, exactly once.
THEOREM Initialised == Spec => []ReturnsInitialised
<1>1. IInv => ReturnsInitialised
  BY DEF IInv, TypeOK, WordInv, ReturnsInitialised
<1>2. QED
  BY <1>1, Invariance, PTL

\* Whoever sleeps waits for a thread that is in the initialiser.
THEOREM WakeupsKept == Spec => []NoLostWakeup
<1>1. IInv => NoLostWakeup
  BY DEF IInv, OneInitialiser, WordInv, NoLostWakeup
<1>2. QED
  BY <1>1, Invariance, PTL

-----------------------------------------------------------------------------
(* pthread_once is a once. *)

Inside == [c \in Controls |-> Running(c)]
Done   == {c \in Controls : word[c] = 2}

\* A thread that leaves an initialiser leaves no other.
LEMMA OneLeaves ==
    ASSUME IInv, NEW t \in Threads, In(t, "run"), LeaveAndBroadcast(t)
    PROVE  /\ top[t] \in Controls /\ word[top[t]] = 1
           /\ Api!Leave(t, top[t])
<1>1. TypeOK /\ OneInitialiser
  BY DEF IInv
<1>2. top[t] \in Controls /\ ph[t][top[t]] = "run" /\ word[top[t]] = 1
  BY <1>1 DEF In, TypeOK, OneInitialiser
<1>3. Running(top[t]) = {t}
  BY <1>1, <1>2 DEF OneInitialiser, Running
<1>4. ASSUME NEW c \in Controls
      PROVE  Running(c)' = IF c = top[t] THEN {} ELSE Running(c)
  <2>1. \A u \in Threads : ph'[u][c] = "run" <=> ph[u][c] = "run" /\ ~(u = t /\ c = top[t])
    BY DEF LeaveAndBroadcast
  <2>2. QED
    BY <1>3, <2>1 DEF Running
<1>5. QED
  BY <1>2, <1>3, <1>4 DEF Api!Leave

\* Whatever threads, controls and nested calls: an initialiser runs in one
\* thread, again only after it was abandoned, and 0 is answered only after it
\* has ended.
THEOREM ImplementsOnce == Spec => OnceApiHolds
<1>1. Init => Api!Init
  BY DEF Init, Api!Init, Running
<1>2. IInv /\ [Next]_vars => [Api!Next]_<<Inside, Done, returned>>
  <2> SUFFICES ASSUME IInv, [Next]_vars
               PROVE  Api!Next \/ UNCHANGED <<Inside, Done, returned>>
    OBVIOUS
  <2>0. TypeOK /\ OneInitialiser /\ WordInv
    BY DEF IInv
  <2>1. CASE UNCHANGED vars
    BY <2>1 DEF vars, Inside, Done, Running
  <2>2. ASSUME NEW t \in Threads,
               (\E c \in Controls : Call(t, c)) \/ Sleep(t) \/ SpuriousWake(t) \/ Cancel(t)
        PROVE  UNCHANGED <<Inside, Done, returned>>
    <3>1. UNCHANGED <<word, returned>>
      BY <2>2 DEF Call, Sleep, SpuriousWake, Cancel
    <3>2. \A u \in Threads, c \in Controls : ph'[u][c] = "run" <=> ph[u][c] = "run"
      <4>1. CASE \E c \in Controls : Call(t, c)
        BY <2>0, <4>1 DEF Call, TypeOK
      <4>2. CASE Sleep(t) \/ SpuriousWake(t)
        BY <2>0, <4>2 DEF Sleep, SpuriousWake, In, Become, TypeOK
      <4>3. CASE Cancel(t)
        BY <4>3 DEF Cancel
      <4>4. QED
        BY <2>2, <4>1, <4>2, <4>3
    <3>3. QED
      BY <3>1, <3>2 DEF Inside, Done, Running
  <2>3. ASSUME NEW t \in Threads, AlreadyDone(t) PROVE Api!Next
    <3>1. top[t] \in Controls /\ word[top[t]] = 2
      BY <2>0, <2>3 DEF AlreadyDone, In, TypeOK
    <3>2. \A u \in Threads, c \in Controls : ph'[u][c] = "run" <=> ph[u][c] = "run"
      BY <2>0, <2>3 DEF AlreadyDone, In, Become, TypeOK
    <3>3. /\ UNCHANGED <<Inside, Done>>
          /\ returned' = [returned EXCEPT ![t] = @ \union {top[t]}]
      BY <2>3, <3>2 DEF AlreadyDone, Inside, Done, Running
    <3>4. Api!Skip(t, top[t])
      BY <3>1, <3>3 DEF Api!Skip, Api!Answer, Inside, Done
    <3>5. QED
      BY <3>1, <3>4 DEF Api!Next
  <2>4. ASSUME NEW t \in Threads, StartInit(t) PROVE Api!Next
    <3>1. /\ top[t] \in Controls /\ word[top[t]] = 0 /\ UNCHANGED returned
          /\ word' = [word EXCEPT ![top[t]] = 1]
          /\ ph' = [ph EXCEPT ![t][top[t]] = "run"]
      BY <2>0, <2>4 DEF StartInit, In, Become, TypeOK
    <3>2. Running(top[t]) = {}
      BY <2>0, <3>1 DEF OneInitialiser, Running
    <3>3. ASSUME NEW c \in Controls
          PROVE  Running(c)' = IF c = top[t] THEN {t} ELSE Running(c)
      <4>1. \A u \in Threads : ph'[u][c] = "run" <=> ph[u][c] = "run" \/ (u = t /\ c = top[t])
        BY <2>0, <3>1 DEF TypeOK
      <4>2. QED
        BY <3>2, <4>1 DEF Running
    <3>4. Done' = Done
      BY <2>0, <3>1 DEF Done, TypeOK
    <3>5. Inside' = [Inside EXCEPT ![top[t]] = {t}] /\ Inside[top[t]] = {}
      BY <3>1, <3>2, <3>3 DEF Inside
    <3>6. Api!Begin(t, top[t])
      BY <3>1, <3>4, <3>5 DEF Api!Begin, Done, Inside
    <3>7. QED
      BY <3>1, <3>6 DEF Api!Next
  <2>5. ASSUME NEW t \in Threads, FinishInit(t) PROVE Api!Next
    <3>1. /\ top[t] \in Controls /\ Api!Leave(t, top[t])
          /\ word' = [word EXCEPT ![top[t]] = 2]
          /\ returned' = [returned EXCEPT ![t] = @ \union {top[t]}]
      BY <2>5, OneLeaves DEF FinishInit
    <3>2. Done' = Done \union {top[t]}
      BY <2>0, <3>1 DEF Done, TypeOK
    <3>3. \E c \in Controls : Api!Finish(t, c)
      BY <3>1, <3>2 DEF Api!Finish, Api!Answer, Done
    <3>4. QED
      BY <3>3 DEF Api!Next
  <2>6. ASSUME NEW t \in Threads, InitCancelled(t) PROVE Api!Next
    <3>1. /\ top[t] \in Controls /\ word[top[t]] = 1 /\ Api!Leave(t, top[t])
          /\ word' = [word EXCEPT ![top[t]] = 0] /\ UNCHANGED returned
      BY <2>6, OneLeaves DEF InitCancelled
    <3>2. Done' = Done
      BY <2>0, <3>1 DEF Done, TypeOK
    <3>3. Api!Abandon(t, top[t])
      BY <3>1, <3>2 DEF Api!Abandon, Done
    <3>4. QED
      BY <3>1, <3>3 DEF Api!Next
  <2>7. QED
    BY <2>1, <2>2, <2>3, <2>4, <2>5, <2>6 DEF Next, Step
<1>3. QED
  BY <1>1, <1>2, Invariance, PTL DEF Spec, OnceApiHolds, Api!Spec, Inside, Done

=============================================================================
