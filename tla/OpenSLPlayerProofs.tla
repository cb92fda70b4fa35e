------------------------- MODULE OpenSLPlayerProofs -------------------------
(***************************************************************************)
(* Proofs about OpenSLPlayer, for every ring size, for a guest that keeps  *)
(* its calls and its callback apart (~Overlap): with that, one producer at *)
(* a time is between the store of a buffer and the store of ring_head, and *)
(* no reset of the ring falls in between.  The latch of the end of a sound *)
(* needs less: that the guest clears a player before it plays it again.    *)
(***************************************************************************)
EXTENDS OpenSLPlayer, SequenceTheorems, TLAPS

Pending == \E p \in Producers : pc[p] \in {"load", "store"}

\* The guest's call and its callback are never inside bq_Enqueue together.
ApartInv == ~(pc["guest"] # "idle" /\ InCallback)

\* The buffers in the ring are the last ones written.
CountInv ==
    /\ tail <= head
    /\ head - tail <= RingSize
    /\ ~Pending => last + 1 = first + head

\* A producer between its two stores owns the cell at ring_head.
PendingInv ==
    /\ Pending => /\ last = first + head
                  /\ head - tail < RingSize
                  /\ ring[head % RingSize] = last
    /\ \A p \in Producers : pc[p] = "store" => ldHead[p] = head

OrderInv == \A k \in tail .. head - 1 : ring[k % RingSize] = first + k

\* What the locals of a pass need for their types.
LocalsInv ==
    /\ mixer = "consume" => mixQueued > 0
    /\ InCallback \/ pc["pump"] = "returned" => calls > 0

IInv ==
    /\ TypeOK
    /\ ApartInv
    /\ CountInv
    /\ PendingInv
    /\ OrderInv
    /\ LocalsInv

-----------------------------------------------------------------------------
(* Positions that are less than a ring apart are different cells. *)

LEMMA DivMod ==
    ASSUME NEW a \in Nat, NEW n \in Nat \ {0}
    PROVE  /\ a = (n * (a \div n)) + (a % n)
           /\ a % n \in 0 .. n - 1
           /\ a \div n \in Nat
  OBVIOUS

LEMMA Multiple == ASSUME NEW n \in Nat \ {0}, NEW q \in Int, n * q > 0 PROVE n * q >= n
<1>1. q > 0
  OBVIOUS
<1>2. QED
  BY <1>1

LEMMA CellsDiffer ==
    ASSUME NEW n \in Nat \ {0}, NEW a \in Nat, NEW b \in Nat, a < b, b - a < n
    PROVE  a % n # b % n
<1> SUFFICES ASSUME a % n = b % n PROVE FALSE
  OBVIOUS
<1>1. PICK q \in Nat : a = (n * q) + (a % n)
  BY DivMod
<1>2. PICK s \in Nat : b = (n * s) + (b % n)
  BY DivMod
<1>3. b - a = n * (s - q)
  BY <1>1, <1>2, DivMod
<1>4. QED
  BY <1>3, Multiple

-----------------------------------------------------------------------------

LEMMA InvInitially == Init => IInv
<1> SUFFICES ASSUME Init PROVE IInv
  OBVIOUS
<1> USE PlayerAssumption DEF Init, Producers
<1>1. TypeOK
  <2>1. ring \in [0 .. RingSize - 1 -> 0 .. MaxBuffers]
    OBVIOUS
  <2>2. calls \in 0 .. MaxCalls /\ last \in 0 .. MaxBuffers /\ first \in 1 .. MaxBuffers + 1
    OBVIOUS
  <2>3. pc \in [Producers -> PumpPCs \union EnqueuePCs] /\ pc["guest"] = "idle"
    BY DEF PumpPCs
  <2>4. ldHead \in [Producers -> Nat] /\ ldQueued \in [Producers -> Nat]
    OBVIOUS
  <2>5. /\ active \in BOOLEAN /\ callback \in BOOLEAN /\ ever \in BOOLEAN
        /\ done \in BOOLEAN /\ fired \in BOOLEAN /\ over \in BOOLEAN
    OBVIOUS
  <2>6. /\ state \in {"STOPPED", "PAUSED", "PLAYING"} /\ mixer \in {"idle", "consume"}
        /\ head \in Nat /\ tail \in Nat /\ queued \in Nat /\ counter \in Nat
        /\ mixQueued \in Nat /\ readable \in Int /\ before \in Nat
    OBVIOUS
  <2>7. QED
    BY <2>1, <2>2, <2>3, <2>4, <2>5, <2>6 DEF TypeOK
<1>2. ~Pending /\ ~InCallback
  BY DEF Pending, InCallback, EnqueuePCs
<1>3. ApartInv /\ CountInv /\ PendingInv /\ OrderInv /\ LocalsInv
  BY <1>2 DEF ApartInv, CountInv, PendingInv, OrderInv, LocalsInv
<1>4. QED
  BY <1>1, <1>3 DEF IInv

\* A step that leaves the ring and the producers alone.
LEMMA RingUntouched ==
    ASSUME IInv, UNCHANGED <<store, ldHead>>,
           \A p \in Producers : pc'[p] \in {"load", "store"} \/ pc[p] \in {"load", "store"}
                                    => pc'[p] = pc[p]
    PROVE  CountInv' /\ PendingInv' /\ OrderInv'
<1>1. Pending' <=> Pending
  BY DEF Pending
<1>2. QED
  BY <1>1 DEF IInv, CountInv, PendingInv, OrderInv, store

\* A reset of the ring while no producer is between its stores.
LEMMA RingResets ==
    ASSUME IInv, RingReset, UNCHANGED pc, ~Pending
    PROVE  /\ CountInv' /\ PendingInv' /\ OrderInv'
           /\ head' = 0 /\ tail' = 0 /\ ring' = ring /\ last' = last
           /\ first' \in 1 .. MaxBuffers + 1
<1> USE PlayerAssumption
<1>1. ~Pending'
  BY DEF Pending
<1>2. head' = 0 /\ tail' = 0 /\ first' = last' + 1 /\ ring' = ring /\ last' = last
  BY DEF RingReset
<1>3. CountInv' /\ OrderInv' /\ first' \in 1 .. MaxBuffers + 1
  BY <1>1, <1>2 DEF IInv, TypeOK, CountInv, OrderInv
<1>4. PendingInv'
  BY <1>1 DEF Pending, PendingInv
<1>5. QED
  BY <1>2, <1>3, <1>4

\* While the guest calls from outside, nobody is inside bq_Enqueue.
LEMMA NobodyInside == ASSUME IInv, GuestMayCall, ~Overlap PROVE ~Pending /\ ~InCallback
  BY DEF GuestMayCall, InCallback, Pending, Producers, EnqueuePCs

\* Steps of bq_Enqueue, in either producer.
LEMMA EnqueueStep ==
    ASSUME IInv, NEW p \in Producers, Enqueue(p)
    PROVE  IInv'
<1> USE PlayerAssumption
<1>0. /\ p = "pump" \/ p = "guest"
      /\ TypeOK /\ ApartInv /\ CountInv /\ PendingInv /\ OrderInv /\ LocalsInv
  BY DEF IInv, Producers
<1>1. pc[p] \in EnqueuePCs /\ pc' = [pc EXCEPT ![p] = pc'[p]]
  BY <1>0 DEF Enqueue, Write, WriteFull, LoadHead, StoreHead, LoadQueued, Enqueued, Goto,
              EnqueuePCs, TypeOK
<1>2. pc'[p] \in EnqueuePCs \union {Returned(p)}
  BY <1>0 DEF Enqueue, Write, WriteFull, LoadHead, StoreHead, LoadQueued, Enqueued, Goto,
              EnqueuePCs, TypeOK
<1>3. \A q \in Producers : q # p => pc'[q] = pc[q] /\ pc[q] \notin EnqueuePCs
  BY <1>0, <1>1 DEF TypeOK, ApartInv, InCallback, Producers, EnqueuePCs
<1>4. pc' \in [Producers -> PumpPCs \union EnqueuePCs]
      /\ pc'["guest"] \in {"idle"} \union EnqueuePCs
  BY <1>0, <1>1, <1>2, <1>3 DEF TypeOK, Returned, PumpPCs, Producers
<1>5. ApartInv'
  BY <1>0, <1>1, <1>2, <1>3 DEF ApartInv, InCallback, Returned, Producers, EnqueuePCs
<1>6. LocalsInv'
  <2>1. UNCHANGED <<mix, calls>>
    BY DEF Enqueue, Write, WriteFull, LoadHead, StoreHead, LoadQueued, Enqueued, mix, pump
  <2>2. InCallback' \/ pc'["pump"] = "returned" => InCallback \/ pc["pump"] = "returned"
    BY <1>0, <1>1, <1>3 DEF InCallback, Producers
  <2>3. QED
    BY <1>0, <2>1, <2>2 DEF LocalsInv, mix
<1>7. Pending <=> pc[p] \in {"load", "store"}
  BY <1>3 DEF Pending, EnqueuePCs
<1>8. Pending' <=> pc'[p] \in {"load", "store"}
  BY <1>3 DEF Pending, EnqueuePCs
<1>9. \A q \in Producers : pc'[q] = "store" => q = p
  BY <1>3 DEF EnqueuePCs
<1>10. CASE Write(p)
  <2>1. /\ last' = last + 1 /\ UNCHANGED <<head, tail, first>>
        /\ ring' = [ring EXCEPT ![head % RingSize] = last + 1]
        /\ head - tail < RingSize
        /\ last < MaxBuffers
    BY <1>0, <1>10 DEF Write, CountInv, TypeOK
  <2>2. pc[p] = "write" /\ pc'[p] = "load"
    BY <1>0, <1>10 DEF Write, Goto, TypeOK
  <2>3. head % RingSize \in 0 .. RingSize - 1
    BY <1>0, DivMod DEF TypeOK
  <2>4. CountInv'
    BY <1>0, <1>7, <1>8, <2>1, <2>2 DEF CountInv
  <2>5. PendingInv'
    BY <1>0, <1>7, <1>8, <1>9, <2>1, <2>2, <2>3 DEF CountInv, PendingInv, TypeOK
  <2>6. OrderInv'
    <3>1. ASSUME NEW k \in tail .. head - 1 PROVE ring'[k % RingSize] = first + k
      <4>1. k \in Nat /\ k < head /\ head - k < RingSize
        BY <1>0, <2>1 DEF TypeOK
      <4>2. k % RingSize # head % RingSize /\ k % RingSize \in 0 .. RingSize - 1
        BY <1>0, <4>1, CellsDiffer, DivMod DEF TypeOK
      <4>3. QED
        BY <1>0, <2>1, <4>2 DEF TypeOK, OrderInv
    <3>2. QED
      BY <2>1, <3>1 DEF OrderInv
  <2>7. TypeOK'
    BY <1>0, <1>4, <1>10, <2>1, <2>3
       DEF Write, TypeOK, slots, flags, loads, mix, pump
  <2>8. QED
    BY <1>5, <1>6, <2>4, <2>5, <2>6, <2>7 DEF IInv
<1>11. CASE StoreHead(p)
  <2>1. /\ pc[p] = "store" /\ pc'[p] = "push"
        /\ UNCHANGED <<tail, first, ring, last, ldHead>>
        /\ head' = head + 1
        /\ last = first + head /\ head - tail < RingSize
        /\ ring[head % RingSize] = last
    BY <1>0, <1>7, <1>11 DEF StoreHead, Goto, PendingInv, TypeOK, loads
  <2>2. CountInv'
    BY <1>0, <1>8, <2>1 DEF CountInv, TypeOK
  <2>3. PendingInv'
    BY <1>8, <1>9, <2>1 DEF PendingInv
  <2>4. OrderInv'
    <3>1. ASSUME NEW k \in tail .. head PROVE ring[k % RingSize] = first + k
      <4>1. CASE k = head
        BY <2>1, <4>1
      <4>2. CASE k \in tail .. head - 1
        BY <1>0, <4>2 DEF OrderInv
      <4>3. QED
        BY <1>0, <4>1, <4>2 DEF TypeOK
    <3>2. head' - 1 = head
      BY <1>0, <2>1 DEF TypeOK
    <3>3. QED
      BY <2>1, <3>1, <3>2 DEF OrderInv
  <2>5. TypeOK'
    <3>1. head' \in Nat
      BY <1>0, <2>1 DEF TypeOK
    <3>2. UNCHANGED <<over, slots, state, tail, ring, last, first, queued, flags, loads, mix, pump>>
      BY <1>11 DEF StoreHead
    <3>3. QED
      BY <1>0, <1>4, <3>1, <3>2 DEF TypeOK, slots, flags, loads, mix, pump
  <2>6. QED
    BY <1>5, <1>6, <2>2, <2>3, <2>4, <2>5 DEF IInv
<1>12. CASE LoadHead(p)
  <2>1. /\ pc[p] = "load" /\ pc'[p] = "store" /\ UNCHANGED <<head, tail, ring, last, first>>
        /\ ldHead' = [ldHead EXCEPT ![p] = head]
    BY <1>0, <1>12 DEF LoadHead, Goto, TypeOK, store
  <2>2. CountInv' /\ OrderInv'
    BY <1>0, <1>7, <1>8, <2>1 DEF CountInv, OrderInv
  <2>3. PendingInv'
    BY <1>0, <1>7, <1>8, <1>9, <2>1 DEF PendingInv, TypeOK
  <2>4. TypeOK'
    BY <1>0, <1>4, <1>12, <2>1 DEF LoadHead, TypeOK, slots, flags, mix, pump
  <2>5. QED
    BY <1>5, <1>6, <2>2, <2>3, <2>4 DEF IInv
<1>13. CASE WriteFull(p) \/ LoadQueued(p) \/ Enqueued(p)
  <2>1. UNCHANGED <<store, ldHead>>
    BY <1>13 DEF WriteFull, LoadQueued, Enqueued, store, loads
  <2>2. pc[p] \notin {"load", "store"} /\ pc'[p] \notin {"load", "store"}
    BY <1>0, <1>13 DEF WriteFull, LoadQueued, Enqueued, Goto, Returned, TypeOK
  <2>3. CountInv' /\ PendingInv' /\ OrderInv'
    BY <1>3, <2>1, <2>2, RingUntouched
  <2>4. TypeOK'
    <3>1. UNCHANGED <<slots, state, store, done, fired, ldHead, mix, pump, over>>
      BY <1>13 DEF WriteFull, LoadQueued, Enqueued, flags, loads
    <3>2. /\ queued' \in Nat /\ counter' \in Nat /\ ever' \in BOOLEAN
          /\ ldQueued' \in [Producers -> Nat]
      <4>1. CASE WriteFull(p)
        BY <1>0, <4>1 DEF WriteFull, flags, loads, TypeOK
      <4>2. CASE LoadQueued(p)
        BY <1>0, <4>2 DEF LoadQueued, flags, TypeOK
      <4>3. CASE Enqueued(p)
        BY <1>0, <4>3 DEF Enqueued, loads, TypeOK
      <4>4. QED
        BY <1>13, <4>1, <4>2, <4>3
    <3>3. QED
      BY <1>0, <1>4, <3>1, <3>2 DEF TypeOK, slots, store, mix, pump
  <2>5. QED
    BY <1>5, <1>6, <2>3, <2>4 DEF IInv
<1>14. QED
  BY <1>10, <1>11, <1>12, <1>13 DEF Enqueue

LEMMA CloserToHead ==
    ASSUME NEW h \in Nat, NEW a \in Nat, NEW b \in Nat, NEW r \in Nat, a <= b
    PROVE  /\ h - a <= r => h - b <= r
           /\ h - a < r => h - b < r
  OBVIOUS

\* The mixer takes the oldest buffer.
LEMMA MixerStep == ASSUME IInv, Mixer PROVE IInv'
<1> USE PlayerAssumption
<1>0. TypeOK /\ ApartInv /\ CountInv /\ PendingInv /\ OrderInv /\ LocalsInv
  BY DEF IInv
<1>1. /\ head' = head /\ ring' = ring /\ first' = first /\ last' = last /\ pc' = pc
      /\ UNCHANGED <<ldHead, pump>>
      /\ tail' \in {tail, tail + 1}
  BY DEF Mixer, MixRead, MixConsume, store, loads
<1>2. tail' = tail + 1 => head # tail
  BY <1>0 DEF Mixer, MixRead, MixConsume, store, TypeOK
<1>3. ApartInv' /\ (Pending' <=> Pending) /\ (InCallback' <=> InCallback)
  BY <1>0, <1>1 DEF ApartInv, InCallback, Pending
<1>4. CountInv' /\ PendingInv' /\ OrderInv'
  <2>1. /\ tail \in Nat /\ tail' \in Nat /\ head \in Nat /\ RingSize \in Nat
        /\ head - tail <= RingSize /\ tail <= tail' /\ tail' <= head
    BY <1>0, <1>1, <1>2 DEF CountInv, TypeOK
  <2>6. head - tail' <= RingSize /\ (head - tail < RingSize => head - tail' < RingSize)
    BY <2>1, CloserToHead
  <2>2. CountInv'
    <3>1. head' - tail' <= RingSize
      BY <1>1, <2>6
    <3>2. ~Pending' => last' + 1 = first' + head'
      BY <1>0, <1>1, <1>3 DEF CountInv
    <3>3. QED
      BY <1>1, <2>1, <3>1, <3>2 DEF CountInv
  <2>3. PendingInv'
    <3>1. CASE Pending
      BY <1>0, <1>1, <2>6, <3>1 DEF PendingInv
    <3>2. CASE ~Pending
      BY <1>0, <1>1, <1>3, <3>2 DEF PendingInv
    <3>3. QED
      BY <3>1, <3>2
  <2>4. OrderInv'
    <3>1. ASSUME NEW k \in tail' .. head - 1 PROVE k \in tail .. head - 1
      BY <2>1
    <3>2. QED
      BY <1>0, <1>1, <3>1 DEF OrderInv
  <2>5. QED
    BY <2>2, <2>3, <2>4
<1>5. LocalsInv'
  BY <1>0, <1>1, <1>3 DEF Mixer, MixRead, MixConsume, LocalsInv, TypeOK, pump
<1>6. TypeOK'
  <2>1. /\ tail' \in Nat /\ queued' \in Nat /\ mixQueued' \in Nat /\ mixer' \in {"idle", "consume"}
    BY <1>0, <1>1 DEF Mixer, MixRead, MixConsume, LocalsInv, TypeOK, store
  <2>2. UNCHANGED <<over, slots, state, flags, loads, pump>>
    BY DEF Mixer, MixRead, MixConsume
  <2>3. QED
    BY <1>0, <1>1, <2>1, <2>2 DEF TypeOK, slots, flags, loads, pump
<1>7. QED
  BY <1>3, <1>4, <1>5, <1>6 DEF IInv

\* The pump's own steps leave the ring alone.
LEMMA PumpStep == ASSUME IInv, Pump, ~Enqueue("pump"), ~Overlap PROVE IInv'
<1> USE PlayerAssumption
<1>0. TypeOK /\ ApartInv /\ CountInv /\ PendingInv /\ OrderInv /\ LocalsInv
  BY DEF IInv
<1>1. UNCHANGED <<store, loads, mix>> /\ pc' = [pc EXCEPT !["pump"] = pc'["pump"]]
  BY <1>0 DEF Pump, PumpBegin, PumpCalls, PumpFilled, CallbackFeeds, CallbackDry, PumpFoundDry,
         PumpContinues, PumpDrain, HeadAtEnd, NotAtEnd, PumpStops, Goto, TypeOK, Producers
<1>2. pc["pump"] \in PumpPCs /\ pc'["pump"] \in PumpPCs \union {"write"}
  BY <1>0 DEF Pump, PumpBegin, PumpCalls, PumpFilled, CallbackFeeds, CallbackDry, PumpFoundDry,
         PumpContinues, PumpDrain, HeadAtEnd, NotAtEnd, PumpStops, Goto, TypeOK, Producers, PumpPCs
<1>3. InCallback' => InCallback \/ pc["guest"] = "idle"
  BY <1>0 DEF Pump, PumpBegin, PumpCalls, PumpFilled, CallbackFeeds, CallbackDry, PumpFoundDry,
         PumpContinues, PumpDrain, HeadAtEnd, NotAtEnd, PumpStops, Goto, TypeOK, Producers,
         InCallback, EnqueuePCs
<1>4. pc'["guest"] = pc["guest"] /\ pc' \in [Producers -> PumpPCs \union EnqueuePCs]
  BY <1>0, <1>1, <1>2 DEF TypeOK, Producers, EnqueuePCs
<1>5. ApartInv'
  BY <1>0, <1>3, <1>4 DEF ApartInv
<1>6. CountInv' /\ PendingInv' /\ OrderInv'
  BY <1>1, <1>2, <1>4, RingUntouched DEF Producers, PumpPCs, loads
<1>7. calls' \in 0 .. MaxCalls
      /\ (InCallback' \/ pc'["pump"] = "returned" => calls' > 0)
  <2>1. CASE PumpBegin
    BY <1>0, <2>1 DEF PumpBegin, Goto, TypeOK, Producers, InCallback, EnqueuePCs
  <2>2. CASE PumpCalls
    BY <1>0, <2>2 DEF PumpCalls, AskMore, TypeOK
  <2>3. CASE PumpContinues
    <3>1. calls > 0 /\ calls' = calls - 1 /\ pc'["pump"] = "fill"
      BY <1>0, <2>3 DEF PumpContinues, Goto, TypeOK, Producers, LocalsInv
    <3>2. QED
      BY <1>0, <3>1 DEF TypeOK, InCallback, EnqueuePCs
  <2>4. CASE CallbackFeeds \/ CallbackDry
    <3>1. InCallback /\ UNCHANGED calls
      BY <2>4 DEF CallbackFeeds, CallbackDry, InCallback, pump
    <3>2. QED
      BY <1>0, <3>1 DEF TypeOK, LocalsInv
  <2>5. CASE \/ PumpFilled \/ PumpFoundDry \/ PumpDrain \/ HeadAtEnd \/ NotAtEnd \/ PumpStops
    <3>1. UNCHANGED calls
      BY <2>5 DEF PumpFilled, PumpFoundDry, PumpDrain, HeadAtEnd, NotAtEnd, PumpStops, pump
    <3>2. PICK l \in {"drain", "end", "stop", "idle"} : pc' = [pc EXCEPT !["pump"] = l]
      BY <2>5 DEF PumpFilled, PumpFoundDry, PumpDrain, HeadAtEnd, NotAtEnd, PumpStops, Goto
    <3>3. pc'["pump"] \in {"drain", "end", "stop", "idle"}
      BY <1>0, <3>2 DEF TypeOK, Producers
    <3>4. QED
      BY <1>0, <3>1, <3>3 DEF TypeOK, InCallback, EnqueuePCs
  <2>6. QED
    BY <2>1, <2>2, <2>3, <2>4, <2>5 DEF Pump
<1>8. LocalsInv'
  BY <1>0, <1>1, <1>7 DEF LocalsInv, mix
<1>9. /\ readable' \in Int /\ before' \in Nat /\ queued' \in Nat /\ counter' \in Nat
      /\ state' \in {"STOPPED", "PAUSED", "PLAYING"}
  <2>1. CASE PumpBegin \/ PumpContinues
    <3>1. readable' = head - tail /\ UNCHANGED <<before, queued, counter, state>>
      BY <2>1 DEF PumpBegin, PumpContinues, flags
    <3>2. QED
      BY <1>0, <3>1 DEF TypeOK
  <2>2. CASE PumpCalls
    BY <1>0, <2>2 DEF PumpCalls, TypeOK, flags
  <2>3. CASE PumpStops
    BY <1>0, <2>3 DEF PumpStops, TypeOK, flags, pump
  <2>4. CASE \/ PumpFilled \/ CallbackFeeds \/ CallbackDry \/ PumpFoundDry \/ PumpDrain
             \/ HeadAtEnd \/ NotAtEnd
    <3>1. UNCHANGED <<readable, before, queued, counter, state>>
      BY <2>4 DEF PumpFilled, CallbackFeeds, CallbackDry, PumpFoundDry, PumpDrain, HeadAtEnd,
                  NotAtEnd, flags, pump
    <3>2. QED
      BY <1>0, <3>1 DEF TypeOK
  <2>5. QED
    BY <1>0, <2>1, <2>2, <2>3, <2>4 DEF Pump
<1>10. /\ UNCHANGED <<slots, ever>>
       /\ done' \in BOOLEAN /\ fired' \in BOOLEAN /\ over' \in BOOLEAN
  BY <1>0 DEF Pump, PumpBegin, PumpCalls, PumpFilled, CallbackFeeds, CallbackDry, PumpFoundDry,
         PumpContinues, PumpDrain, HeadAtEnd, NotAtEnd, PumpStops, TypeOK, pump, flags
<1>11. TypeOK'
  BY <1>0, <1>1, <1>4, <1>7, <1>9, <1>10 DEF TypeOK, slots, store, loads, mix
<1>12. QED
  BY <1>5, <1>6, <1>8, <1>11 DEF IInv

\* The guest's calls from outside: nobody is inside bq_Enqueue.
LEMMA GuestStep == ASSUME IInv, Guest, ~Enqueue("guest"), ~Overlap PROVE IInv'
<1> USE PlayerAssumption
<1>0. TypeOK /\ ApartInv /\ CountInv /\ PendingInv /\ OrderInv /\ LocalsInv
  BY DEF IInv
<1>1. GuestMayCall /\ UNCHANGED <<loads, mix, pump>>
  BY DEF Guest, Create, Destroy, BeginEnqueue, Stop, Play, Clear
<1>2. ~Pending /\ ~InCallback
  BY <1>1, NobodyInside
<1>3. /\ pc'["pump"] = pc["pump"] /\ pc'["guest"] \in {"idle", "write"}
      /\ pc' \in [Producers -> PumpPCs \union EnqueuePCs]
  BY <1>0, <1>1 DEF Guest, Create, Destroy, BeginEnqueue, Stop, Play, Clear, Goto, GuestMayCall,
                    TypeOK, Producers, EnqueuePCs
<1>4. ~InCallback' /\ ApartInv' /\ LocalsInv'
  BY <1>0, <1>1, <1>2, <1>3 DEF InCallback, ApartInv, LocalsInv, mix, pump
<1>5. CASE \/ \E cb \in BOOLEAN : Create(cb)
           \/ Stop \/ Clear
  <2>1. RingReset /\ UNCHANGED pc
    BY <1>5 DEF Create, Stop, Clear
  <2>2. /\ CountInv' /\ PendingInv' /\ OrderInv'
        /\ head' = 0 /\ tail' = 0 /\ ring' = ring /\ last' = last
        /\ first' \in 1 .. MaxBuffers + 1
    BY <1>2, <2>1, RingResets
  <2>3. /\ queued' \in Nat /\ counter' \in Nat
        /\ state' \in {"STOPPED", "PAUSED", "PLAYING"}
    BY <1>0, <1>5 DEF Create, Stop, Clear, TypeOK
  <2>4. /\ active' \in BOOLEAN /\ callback' \in BOOLEAN /\ ever' \in BOOLEAN
        /\ done' \in BOOLEAN /\ fired' \in BOOLEAN /\ over' \in BOOLEAN
    BY <1>0, <1>5 DEF Create, Stop, Clear, TypeOK, slots
  <2>5. TypeOK'
    BY <1>0, <1>1, <1>3, <2>1, <2>2, <2>3, <2>4 DEF TypeOK, loads, mix, pump
  <2>6. QED
    BY <1>4, <2>2, <2>5 DEF IInv
<1>6. CASE \/ Destroy \/ BeginEnqueue
           \/ \E s \in {"PLAYING", "PAUSED"} : Play(s)
  <2>1. UNCHANGED <<store, queued, flags, callback, over>>
        /\ active' \in BOOLEAN /\ state' \in {"STOPPED", "PAUSED", "PLAYING"}
    BY <1>0, <1>6 DEF Destroy, BeginEnqueue, Play, slots, TypeOK
  <2>2. \A p \in Producers : pc'[p] \notin {"load", "store"} /\ pc[p] \notin {"load", "store"}
    BY <1>2, <1>3 DEF Pending, Producers
  <2>3. CountInv' /\ PendingInv' /\ OrderInv'
    BY <1>1, <2>1, <2>2, RingUntouched DEF loads
  <2>4. TypeOK'
    BY <1>0, <1>1, <1>3, <2>1 DEF TypeOK, EnqueuePCs, store, flags, loads, mix, pump
  <2>5. QED
    BY <1>4, <2>3, <2>4 DEF IInv
<1>7. QED
  BY <1>5, <1>6 DEF Guest

LEMMA InvStep == ASSUME IInv, [Next]_vars, ~Overlap PROVE IInv'
<1>1. CASE UNCHANGED vars
  <2>1. CountInv' /\ PendingInv' /\ OrderInv'
    BY <1>1, RingUntouched DEF vars, loads
  <2>2. TypeOK' /\ ApartInv' /\ LocalsInv'
    BY <1>1 DEF IInv, vars, slots, store, flags, loads, mix, pump, TypeOK, ApartInv, LocalsInv,
                InCallback
  <2>3. QED
    BY <2>1, <2>2 DEF IInv
<1>2. CASE Enqueue("pump") \/ Enqueue("guest")
  BY <1>2, EnqueueStep DEF Producers
<1>3. QED
  BY <1>1, <1>2, MixerStep, PumpStep, GuestStep DEF Next

THEOREM Invariance == ASSUME ~Overlap PROVE Spec => []IInv
<1>1. IInv /\ [Next]_vars => IInv'
  BY InvStep
<1>2. QED
  BY <1>1, InvInitially, PTL DEF Spec

-----------------------------------------------------------------------------

\* Every variable keeps its type: no count and no index of the pump or the
\* mixer goes below zero.
THEOREM TypeCorrect == ASSUME ~Overlap PROVE Spec => []TypeOK
<1>1. IInv => TypeOK
  BY DEF IInv
<1>2. QED
  BY <1>1, Invariance, PTL

\* The mixer gets what was enqueued since the last reset, in order, each
\* buffer once, for a ring of any size.
THEOREM Fifo == ASSUME ~Overlap PROVE Spec => []RingFifo
<1>1. IInv => RingFifo
  BY DEF IInv, TypeOK, CountInv, OrderInv, RingFifo
<1>2. QED
  BY <1>1, Invariance, PTL

-----------------------------------------------------------------------------
(* The latch of the end of a sound. *)

\* It is set only with the guest told, and a player of which the guest was
\* told is stopped or about to be.
LatchInv ==
    /\ fired => over
    /\ state # "STOPPED" /\ over => pc["pump"] = "stop"

\* Where the producers are; it holds for any guest.
PlaceInv == pc \in [Producers -> PumpPCs \union EnqueuePCs]

\* Every step leads to a place.
LEMMA PlaceStep == PlaceInv /\ [Next]_vars => PlaceInv'
<1> SUFFICES ASSUME PlaceInv, [Next]_vars PROVE PlaceInv'
  OBVIOUS
<1> USE DEF PlaceInv, Goto, Returned, PumpPCs, EnqueuePCs, Producers
<1>1. CASE UNCHANGED vars
  BY <1>1 DEF vars
<1>2. CASE Mixer
  BY <1>2 DEF Mixer, MixRead, MixConsume
<1>3. ASSUME NEW p \in Producers, Enqueue(p) PROVE PlaceInv'
  BY <1>3 DEF Enqueue, Write, WriteFull, LoadHead, StoreHead, LoadQueued, Enqueued
<1>4. CASE Pump
  BY <1>3, <1>4 DEF Pump, PumpBegin, PumpCalls, PumpFilled, CallbackFeeds, CallbackDry,
                    PumpFoundDry, PumpContinues, PumpDrain, HeadAtEnd, NotAtEnd, PumpStops
<1>5. CASE Guest
  BY <1>3, <1>5 DEF Guest, Create, Destroy, BeginEnqueue, Stop, Clear, Play
<1>6. QED
  BY <1>1, <1>2, <1>4, <1>5 DEF Next

\* The steps of the pump keep the latch.
LEMMA LatchPump == LatchInv /\ Pump /\ PlaceInv => LatchInv'
<1> SUFFICES ASSUME LatchInv, Pump, PlaceInv PROVE LatchInv'
  OBVIOUS
<1>1. pc \in [Producers -> PumpPCs \union EnqueuePCs] /\ "pump" \in Producers
  BY DEF PlaceInv, Producers
<1>2. CASE HeadAtEnd
  BY <1>1, <1>2 DEF HeadAtEnd, Goto, LatchInv
<1>3. CASE PumpStops
  BY <1>3 DEF PumpStops, flags, LatchInv
<1>4. CASE \/ PumpBegin \/ PumpCalls \/ PumpFilled \/ CallbackFeeds \/ CallbackDry
           \/ PumpFoundDry \/ PumpContinues \/ PumpDrain \/ NotAtEnd
  <2>1. pc["pump"] # "stop" /\ UNCHANGED <<state, fired, over>>
    BY <1>4 DEF PumpBegin, PumpCalls, PumpFilled, CallbackFeeds, CallbackDry, PumpFoundDry,
                PumpContinues, PumpDrain, NotAtEnd, flags
  <2>2. QED
    BY <2>1 DEF LatchInv
<1>5. CASE Enqueue("pump")
  <2>1. pc["pump"] # "stop" /\ UNCHANGED <<state, fired, over>>
    BY <1>5 DEF Enqueue, Write, WriteFull, LoadHead, StoreHead, LoadQueued, Enqueued, flags
  <2>2. QED
    BY <2>1 DEF LatchInv
<1>6. QED
  BY <1>2, <1>3, <1>4, <1>5 DEF Pump

\* So do the guest, which clears a player that ended before it plays it again,
\* and the mixer.
LEMMA LatchStep == ClearOnReuse /\ PlaceInv /\ LatchInv /\ [Next]_vars => LatchInv'
<1> SUFFICES ASSUME ClearOnReuse, PlaceInv, LatchInv, [Next]_vars PROVE LatchInv'
  OBVIOUS
<1>1. pc \in [Producers -> PumpPCs \union EnqueuePCs]
      /\ "pump" \in Producers /\ "guest" \in Producers /\ "pump" # "guest"
  BY DEF PlaceInv, Producers
<1>2. CASE UNCHANGED vars
  BY <1>2 DEF vars, flags, LatchInv
<1>3. CASE Mixer
  BY <1>3 DEF Mixer, MixRead, MixConsume, flags, LatchInv
<1>4. CASE Pump
  BY <1>4, LatchPump
<1>5. CASE Enqueue("guest")
  <2>1. pc'["pump"] = pc["pump"] /\ UNCHANGED <<state, fired, over>>
    BY <1>1, <1>5 DEF Enqueue, Write, WriteFull, LoadHead, StoreHead, LoadQueued, Enqueued,
                      Goto, Returned, flags
  <2>2. QED
    BY <2>1 DEF LatchInv
<1>6. CASE \/ \E cb \in BOOLEAN : Create(cb)
           \/ Destroy \/ BeginEnqueue \/ Stop \/ Clear
           \/ \E s \in {"PLAYING", "PAUSED"} : Play(s)
  <2>1. pc'["pump"] = pc["pump"]
    BY <1>1, <1>6 DEF Create, Destroy, BeginEnqueue, Stop, Clear, Play, Goto
  <2>2. CASE \E cb \in BOOLEAN : Create(cb)
    BY <2>2 DEF Create, LatchInv
  <2>3. CASE Destroy \/ Stop
    BY <2>3 DEF Destroy, Stop, flags, LatchInv
  <2>4. CASE Clear
    BY <2>4 DEF Clear, LatchInv
  <2>5. CASE BeginEnqueue
    BY <2>1, <2>5 DEF BeginEnqueue, flags, LatchInv
  <2>6. CASE \E s \in {"PLAYING", "PAUSED"} : Play(s)
    BY <2>6 DEF Play, flags, LatchInv
  <2>7. QED
    BY <1>6, <2>2, <2>3, <2>4, <2>5, <2>6
<1>7. QED
  BY <1>2, <1>3, <1>4, <1>5, <1>6 DEF Next, Guest

\* opensles_pump_locked: HEADATEND of a sound that plays has not been spent,
\* unless the pump is just about to stop it.
LatchFree == state = "PLAYING" /\ fired => pc["pump"] = "stop"

\* The latch of one sound is never in the way of the next, for a guest that
\* clears what it plays again, however its calls overlap.  For another guest
\* it is (HeadAtEndFires is violated).
THEOREM NextSoundCanEnd == ASSUME ClearOnReuse PROVE Spec => []LatchFree
<1>1. Init => LatchInv /\ PlaceInv
  BY DEF Init, LatchInv, PlaceInv, PumpPCs
<1>2. LatchInv /\ PlaceInv /\ [Next]_vars => LatchInv' /\ PlaceInv'
  BY LatchStep, PlaceStep
<1>3. LatchInv => LatchFree
  BY DEF LatchInv, LatchFree
<1>4. QED
  BY <1>1, <1>2, <1>3, PTL DEF Spec

-----------------------------------------------------------------------------
(* The ring is a queue. *)

\* The n buffers that follow buffer a.
Run(a, n) == [i \in 1 .. n |-> a + i]

LEMMA RunIsSeq ==
    ASSUME NEW a \in Nat, NEW n \in Nat
    PROVE  /\ Run(a, n) \in Seq(Nat)
           /\ Len(Run(a, n)) = n
           /\ \A i \in 1 .. n : Run(a, n)[i] = a + i
<1>1. Run(a, n) \in [1 .. n -> Nat]
  BY DEF Run
<1>2. Run(a, n) \in Seq(Nat)
  BY <1>1, SeqDef
<1>3. DOMAIN Run(a, n) = 1 .. n /\ DOMAIN Run(a, n) = 1 .. Len(Run(a, n))
  BY <1>2, LenProperties DEF Run
<1>4. Len(Run(a, n)) = n
  BY <1>2, <1>3, LenProperties
<1>5. QED
  BY <1>2, <1>4 DEF Run

LEMMA RunAppend ==
    ASSUME NEW a \in Nat, NEW n \in Nat
    PROVE  Append(Run(a, n), a + n + 1) = Run(a, n + 1)
<1> DEFINE s == Append(Run(a, n), a + n + 1)
           t == Run(a, n + 1)
<1>1. /\ s \in Seq(Nat) /\ Len(s) = n + 1
      /\ \A i \in 1 .. n : s[i] = a + i
      /\ s[n + 1] = a + n + 1
  <2>1. Run(a, n) \in Seq(Nat) /\ Len(Run(a, n)) = n /\ \A i \in 1 .. n : Run(a, n)[i] = a + i
    BY RunIsSeq
  <2>2. a + n + 1 \in Nat
    OBVIOUS
  <2>3. /\ s \in Seq(Nat) /\ Len(s) = Len(Run(a, n)) + 1
        /\ \A i \in 1 .. Len(Run(a, n)) : s[i] = Run(a, n)[i]
        /\ s[Len(Run(a, n)) + 1] = a + n + 1
    BY <2>1, <2>2, AppendProperties
  <2> HIDE DEF s
  <2>4. QED
    BY <2>1, <2>3
<1>2. t \in Seq(Nat) /\ Len(t) = n + 1 /\ \A i \in 1 .. n + 1 : t[i] = a + i
  BY RunIsSeq, n + 1 \in Nat
<1>3. ASSUME NEW i \in 1 .. Len(s) PROVE s[i] = t[i]
  <2>1. i \in 1 .. n \/ i = n + 1
    BY <1>1, <1>3
  <2>2. QED
    BY <1>1, <1>2, <2>1
<1> HIDE DEF s, t
<1>4. s = t
  BY <1>1, <1>2, <1>3, SeqEqual
<1>5. QED
  BY <1>4 DEF s, t

LEMMA RunTail ==
    ASSUME NEW a \in Nat, NEW n \in Nat \ {0}
    PROVE  Run(a, n) # <<>> /\ Tail(Run(a, n)) = Run(a + 1, n - 1)
<1> DEFINE r == Run(a, n)
           s == Tail(r)
           t == Run(a + 1, n - 1)
<1>1. r \in Seq(Nat) /\ Len(r) = n /\ \A i \in 1 .. n : r[i] = a + i
  BY RunIsSeq
<1>2. r # <<>>
  BY <1>1, EmptySeq
<1>3. t \in Seq(Nat) /\ Len(t) = n - 1 /\ \A i \in 1 .. n - 1 : t[i] = a + 1 + i
  BY RunIsSeq, a + 1 \in Nat, n - 1 \in Nat
<1> HIDE DEF r, t
<1>4. s \in Seq(Nat) /\ Len(s) = n - 1 /\ \A i \in 1 .. n - 1 : s[i] = r[i + 1]
  BY <1>1, <1>2, HeadTailProperties
<1>5. ASSUME NEW i \in 1 .. n - 1 PROVE s[i] = t[i]
  BY <1>1, <1>3, <1>4
<1> HIDE DEF s
<1>6. s = t
  BY <1>3, <1>4, <1>5, SeqEqual
<1>7. QED
  BY <1>2, <1>6 DEF r, s, t

\* What the mixer can read is the run of buffers from its position on.
IsRun ==
    /\ first + tail - 1 \in Nat /\ head - tail \in 0 .. RingSize
    /\ Readable = Run(first + tail - 1, head - tail)

LEMMA ReadableIsRun == IInv => IsRun
<1> SUFFICES ASSUME IInv PROVE IsRun
  OBVIOUS
<1>1. /\ first \in Nat \ {0} /\ head \in Nat /\ tail \in Nat
      /\ head - tail \in 0 .. RingSize /\ OrderInv
  BY PlayerAssumption DEF IInv, TypeOK, CountInv
<1>2. ASSUME NEW i \in 1 .. head - tail
      PROVE  ring[(tail + i - 1) % RingSize] = first + tail - 1 + i
  <2>1. tail + i - 1 \in tail .. head - 1
    BY <1>1
  <2>2. ring[(tail + i - 1) % RingSize] = first + (tail + i - 1)
    BY <1>1, <2>1 DEF OrderInv
  <2>3. QED
    BY <1>1, <2>2
<1>3. QED
  <2>1. first + tail - 1 \in Nat
    BY <1>1
  <2>2. Readable = Run(first + tail - 1, head - tail)
    BY <1>2 DEF Readable, Run
  <2>3. QED
    BY <1>1, <2>1, <2>2 DEF IsRun

LEMMA ReadableStaysRun == IInv' => IsRun'
  BY ReadableIsRun, PTL

\* Where the queue ends, if nothing but the ring itself has changed.
LEMMA QueueStays ==
    ASSUME IInv, IInv', UNCHANGED <<head, tail, first>>
    PROVE  UNCHANGED <<Readable, first + head - 1>>
  BY ReadableIsRun, ReadableStaysRun DEF IsRun

\* The store of ring_head enqueues a buffer.
LEMMA StorePuts ==
    ASSUME IInv, IInv', NEW p \in Producers, StoreHead(p)
    PROVE  Queue!Put
<1>1. /\ first \in Nat /\ head \in Nat /\ tail \in Nat /\ RingSize \in Nat
      /\ tail <= head
  BY PlayerAssumption DEF IInv, TypeOK, CountInv
<1>2. head' = head + 1 /\ tail' = tail /\ first' = first
  BY DEF StoreHead, IInv, PendingInv
<1>3. Pending /\ head - tail < RingSize
  BY DEF StoreHead, IInv, PendingInv, Pending
<1> DEFINE a == first + tail - 1
           n == head - tail
<1>4. /\ a \in Nat /\ n \in Nat /\ Readable = Run(a, n)
      /\ Readable' = Run(a, n + 1)
  <2>1. a \in Nat /\ n \in Nat /\ Readable = Run(a, n)
    BY ReadableIsRun, PlayerAssumption DEF IsRun
  <2>2. Readable' = Run(first' + tail' - 1, head' - tail')
    BY ReadableStaysRun DEF IsRun
  <2>3. head' - tail' = n + 1
    BY <1>1, <1>2
  <2>4. QED
    BY <1>2, <2>1, <2>2, <2>3
<1>5. Len(Readable) = n /\ first + head - 1 + 1 = a + n + 1
  <2>1. Len(Readable) = n
    BY <1>4, RunIsSeq
  <2>2. first + head - 1 + 1 = a + n + 1
    BY <1>1
  <2>3. QED
    BY <2>1, <2>2
<1>6. Readable' = Append(Readable, a + n + 1)
  BY <1>4, RunAppend
<1>7. first' + head' - 1 = first + head - 1 + 1
  BY <1>1, <1>2
<1>8. QED
  BY <1>3, <1>5, <1>6, <1>7 DEF Queue!Put

\* A pass of the mixer takes the oldest buffer.
LEMMA MixerTakes ==
    ASSUME IInv, IInv', MixRead
    PROVE  Queue!Take
<1>1. /\ first \in Nat /\ head \in Nat /\ tail \in Nat
      /\ tail <= head
  BY PlayerAssumption DEF IInv, TypeOK, CountInv
<1>2. head' = head /\ tail' = tail + 1 /\ first' = first /\ head # tail
  BY DEF MixRead
<1> DEFINE a == first + tail - 1
           n == head - tail
<1>3. a \in Nat /\ n \in Nat \ {0} /\ Readable = Run(a, n)
  BY <1>1, <1>2, ReadableIsRun DEF IsRun
<1>4. Readable' = Run(a + 1, n - 1)
  <2>1. Readable' = Run(first' + tail' - 1, head' - tail')
    BY ReadableStaysRun DEF IsRun
  <2>2. first' + tail' - 1 = a + 1 /\ head' - tail' = n - 1
    BY <1>1, <1>2
  <2>3. QED
    BY <2>1, <2>2
<1>5. Readable # <<>> /\ Readable' = Tail(Readable)
  BY <1>3, <1>4, RunTail
<1>6. QED
  BY <1>2, <1>5 DEF Queue!Take

\* A reset of the ring removes all that waits.
LEMMA ResetEmpties ==
    ASSUME IInv, RingReset, ~Pending
    PROVE  Queue!Empty
<1>1. first \in Nat /\ head \in Nat /\ last + 1 = first + head
  BY PlayerAssumption DEF IInv, TypeOK, CountInv
<1>2. head' = 0 /\ tail' = 0 /\ first' = last + 1
  BY DEF RingReset
<1>3. Readable' = <<>>
  BY <1>2 DEF Readable
<1>4. first' + head' - 1 = first + head - 1
  BY <1>1, <1>2
<1>5. QED
  BY <1>3, <1>4 DEF Queue!Empty

\* The ring implements a bounded queue, for every size of the ring and a guest
\* that keeps its calls apart: bq_Enqueue, the mixer and the resets.
THEOREM ImplementsQueue == ASSUME ~Overlap PROVE Spec => SoundQueueHolds
<1>1. Init => Queue!Init
  BY DEF Init, Queue!Init, Readable
<1>2. IInv /\ IInv' /\ [Next]_vars => [Queue!Next]_<<Readable, first + head - 1>>
  <2> SUFFICES ASSUME IInv, IInv', [Next]_vars
               PROVE  Queue!Next \/ UNCHANGED <<Readable, first + head - 1>>
    OBVIOUS
  <2>1. CASE UNCHANGED <<head, tail, first>>
    BY <2>1, QueueStays
  <2>2. CASE \E p \in Producers : Enqueue(p)
    <3>1. PICK p \in Producers : Enqueue(p)
      BY <2>2
    <3>2. StoreHead(p) \/ UNCHANGED <<head, tail, first>>
      BY <3>1 DEF Enqueue, Write, WriteFull, LoadHead, LoadQueued, Enqueued, store
    <3>3. QED
      BY <2>1, <3>2, StorePuts DEF Queue!Next
  <2>3. CASE Mixer
    BY <2>1, <2>3, MixerTakes DEF Mixer, MixConsume, store, Queue!Next
  <2>4. CASE Guest /\ ~Enqueue("guest")
    <3>1. RingReset \/ UNCHANGED <<head, tail, first>>
      BY <2>4 DEF Guest, Create, Destroy, BeginEnqueue, Stop, Play, Clear, store
    <3>2. ~Pending
      BY <2>4, NobodyInside DEF Guest, Create, Destroy, BeginEnqueue, Stop, Play, Clear
    <3>3. QED
      BY <2>1, <3>1, <3>2, ResetEmpties DEF Queue!Next
  <2>5. CASE Pump /\ ~Enqueue("pump")
    <3>1. UNCHANGED <<head, tail, first>>
      BY <2>5 DEF Pump, PumpBegin, PumpCalls, PumpFilled, CallbackFeeds, CallbackDry,
                  PumpFoundDry, PumpContinues, PumpDrain, HeadAtEnd, NotAtEnd, PumpStops, store
    <3>2. QED
      BY <2>1, <3>1
  <2>6. CASE UNCHANGED vars
    BY <2>1, <2>6 DEF vars, store
  <2>7. QED
    BY <2>2, <2>3, <2>4, <2>5, <2>6 DEF Next, Producers
<1>3. IInv /\ [Next]_vars => IInv'
  BY InvStep
<1>4. QED
  BY <1>1, <1>2, <1>3, InvInitially, PTL DEF Spec, SoundQueueHolds, Queue!Spec

=============================================================================
