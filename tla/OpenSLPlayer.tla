---------------------------- MODULE OpenSLPlayer ----------------------------
(***************************************************************************)
(* One audio player of the OpenSL ES shim (src/src/opensles_shim.c).       *)
(*                                                                         *)
(* Three parties share a player and no lock covers them all: the guest     *)
(* creates, feeds, starts, stops, clears and destroys it; the pump thread  *)
(* asks the guest's callback for buffers and ends a sound that has run     *)
(* dry; SDL's mixer takes buffers out, holding the device lock.  Start,    *)
(* stop, clear and destroy hold the device lock, bq_Enqueue does not.      *)
(*                                                                         *)
(* A unit of the ring is one buffer, numbered in the order of the writes;  *)
(* the mixer takes one per pass.  A buffer that finds the ring full is     *)
(* dropped.  The queue is its length, and 64 entries are never exceeded.   *)
(* COI_FADEOUT_STOP and COI_AUDIO_CBGUARD are off, as by default.          *)
(*                                                                         *)
(* first is a history variable: the number of the buffer that belongs at   *)
(* position 0 since the last reset of the ring.                            *)
(***************************************************************************)
EXTENDS Integers

CONSTANTS
    RingSize,      \* buffers the ring holds
    Refill,        \* refill_threshold: below it the callback is asked for more
    MaxCalls,      \* callbacks of one pump pass (4 in the code)
    MaxBuffers,    \* bound on the buffers ever written: sounds are finite
    Overlap,       \* the guest stops, clears and feeds a player inside its callback
    ClearOnReuse   \* the guest clears a player that ended before it plays it again

ASSUME PlayerAssumption ==
    /\ RingSize \in Nat \ {0}
    /\ Refill \in 0 .. RingSize
    /\ MaxCalls \in Nat
    /\ MaxBuffers \in Nat
    /\ Overlap \in BOOLEAN
    /\ ClearOnReuse \in BOOLEAN

Producers == {"pump", "guest"}

VARIABLES
    active,    \* the slot is in use
    state,     \* play_state
    callback,  \* a buffer callback is registered
    head,      \* ring_head
    tail,      \* ring_tail
    ring,      \* ring[i]: the number of the buffer there
    queued,    \* queued_count
    counter,   \* enqueue_counter
    ever,      \* ever_enqueued
    done,      \* decoder_done
    fired,     \* headatend_fired
    pc,        \* pc["pump"], pc["guest"]
    ldHead,    \* what `ring_head += len` loaded, per producer
    ldQueued,  \* what `queued_count++` loaded, per producer
    mixer,     \* the mixer: "idle", or "consume" with the device lock held
    mixQueued, \* what its `queued_count--` loaded
    readable,  \* the pump's locals
    before,
    calls,
    over,      \* the guest was told HEADATEND and has not cleared since
    last,      \* the number of buffers written so far
    first      \* history, see above

slots == <<active, callback>>
store == <<head, tail, ring, last, first>>
flags == <<counter, ever, done, fired>>
mix   == <<mixer, mixQueued>>
pump  == <<readable, before, calls>>
loads == <<ldHead, ldQueued>>
vars  == <<slots, state, store, queued, flags, pc, loads, mix, pump, over>>

EnqueuePCs == {"write", "load", "store", "push", "pushed"}
PumpPCs    == {"idle", "fill", "callback", "returned", "drain", "end", "stop"}

TypeOK ==
    /\ active    \in BOOLEAN
    /\ state     \in {"STOPPED", "PAUSED", "PLAYING"}
    /\ callback  \in BOOLEAN
    /\ head      \in Nat
    /\ tail      \in Nat
    /\ ring      \in [0 .. RingSize - 1 -> 0 .. MaxBuffers]
    /\ queued    \in Nat
    /\ counter   \in Nat
    /\ ever      \in BOOLEAN
    /\ done      \in BOOLEAN
    /\ fired     \in BOOLEAN
    /\ pc        \in [Producers -> PumpPCs \union EnqueuePCs]
    /\ pc["guest"] \in {"idle"} \union EnqueuePCs
    /\ ldHead    \in [Producers -> Nat]
    /\ ldQueued  \in [Producers -> Nat]
    /\ mixer     \in {"idle", "consume"}
    /\ mixQueued \in Nat
    /\ readable  \in Int
    /\ before    \in Nat
    /\ calls     \in 0 .. MaxCalls
    /\ over      \in BOOLEAN
    /\ last      \in 0 .. MaxBuffers
    /\ first     \in 1 .. MaxBuffers + 1

Init ==
    /\ active    = FALSE
    /\ state     = "STOPPED"
    /\ callback  = FALSE
    /\ head      = 0
    /\ tail      = 0
    /\ ring      = [i \in 0 .. RingSize - 1 |-> 0]
    /\ queued    = 0
    /\ counter   = 0
    /\ ever      = FALSE
    /\ done      = FALSE
    /\ fired     = FALSE
    /\ pc        = [p \in Producers |-> "idle"]
    /\ ldHead    = [p \in Producers |-> 0]
    /\ ldQueued  = [p \in Producers |-> 0]
    /\ mixer     = "idle"
    /\ mixQueued = 0
    /\ readable  = 0
    /\ before    = 0
    /\ calls     = 0
    /\ over      = FALSE
    /\ last      = 0
    /\ first     = 1

-----------------------------------------------------------------------------
Goto(p, label) == pc' = [pc EXCEPT ![p] = label]

InCallback == pc["pump"] \in EnqueuePCs \union {"callback"}

\* The guest's own locking, if it has any, keeps its calls and its callback apart.
GuestMayCall == pc["guest"] = "idle" /\ (Overlap \/ ~InCallback)

\* SDL_LockAudioDevice keeps the mixer out; the mixer's pass holds it.
DeviceLock == mixer = "idle"

\* ring_head = ring_tail = 0; what is written from now on belongs at 0.
RingReset ==
    /\ head'  = 0
    /\ tail'  = 0
    /\ first' = last + 1
    /\ UNCHANGED <<ring, last>>

-----------------------------------------------------------------------------
(* bq_Enqueue, in the guest or in its callback on the pump thread. *)

Returned(p) == IF p = "pump" THEN "returned" ELSE "idle"

\* Mutant: the room in the ring is not looked at.
WriteRegardless(p) ==
    /\ pc[p] = "write"
    /\ last < MaxBuffers
    /\ last' = last + 1
    /\ ring' = [ring EXCEPT ![head % RingSize] = last + 1]
    /\ Goto(p, "load")
    /\ UNCHANGED <<over, slots, state, head, tail, first, queued, flags, loads, mix, pump>>

Write(p) ==
    /\ pc[p] = "write"
    /\ head - tail # RingSize
    /\ last < MaxBuffers
    /\ last' = last + 1
    /\ ring' = [ring EXCEPT ![head % RingSize] = last + 1]
    /\ Goto(p, "load")
    /\ UNCHANGED <<over, slots, state, head, tail, first, queued, flags, loads, mix, pump>>

WriteFull(p) ==
    /\ pc[p] = "write"
    /\ head - tail = RingSize
    /\ Goto(p, Returned(p))
    /\ UNCHANGED <<over, slots, state, store, queued, flags, loads, mix, pump>>

LoadHead(p) ==
    /\ pc[p] = "load"
    /\ ldHead' = [ldHead EXCEPT ![p] = head]
    /\ Goto(p, "store")
    /\ UNCHANGED <<over, slots, state, store, queued, flags, ldQueued, mix, pump>>

StoreHead(p) ==
    /\ pc[p] = "store"
    /\ head' = ldHead[p] + 1
    /\ Goto(p, "push")
    /\ UNCHANGED <<over, slots, state, tail, ring, last, first, queued, flags, loads, mix, pump>>

LoadQueued(p) ==
    /\ pc[p] = "push"
    /\ ldQueued' = [ldQueued EXCEPT ![p] = queued]
    /\ Goto(p, "pushed")
    /\ UNCHANGED <<over, slots, state, store, queued, flags, ldHead, mix, pump>>

Enqueued(p) ==
    /\ pc[p] = "pushed"
    /\ queued'  = ldQueued[p] + 1
    /\ counter' = counter + 1
    /\ ever'    = TRUE
    /\ Goto(p, Returned(p))
    /\ UNCHANGED <<over, slots, state, store, done, fired, loads, mix, pump>>

Enqueue(p) ==
    Write(p) \/ WriteFull(p) \/ LoadHead(p) \/ StoreHead(p) \/ LoadQueued(p) \/ Enqueued(p)

-----------------------------------------------------------------------------
(* The guest. *)

\* engine_CreateAudioPlayer on a free slot, then RegisterCallback or not.
Create(cb) ==
    /\ GuestMayCall
    /\ ~active
    /\ active'   = TRUE
    /\ callback' = cb
    /\ state'    = "STOPPED"
    /\ queued'   = 0
    /\ counter'  = 0
    /\ ever'     = FALSE
    /\ done'     = FALSE
    /\ fired'    = FALSE
    /\ over'    = FALSE
    /\ RingReset
    /\ UNCHANGED <<pc, loads, mix, pump>>

Destroy ==
    /\ GuestMayCall
    /\ DeviceLock
    /\ active
    /\ active' = FALSE
    /\ state'  = "STOPPED"
    /\ UNCHANGED <<over, callback, store, queued, flags, pc, loads, mix, pump>>

BeginEnqueue ==
    /\ GuestMayCall
    /\ active
    /\ last < MaxBuffers
    /\ Goto("guest", "write")
    /\ UNCHANGED <<over, slots, state, store, queued, flags, loads, mix, pump>>

\* SetPlayState(STOPPED); on a stopped player it changes nothing.
Stop ==
    /\ GuestMayCall
    /\ DeviceLock
    /\ active
    /\ state # "STOPPED"
    /\ state'  = "STOPPED"
    /\ fired'  = FALSE
    /\ done'   = FALSE
    /\ queued' = 0
    /\ RingReset
    /\ UNCHANGED <<over, slots, counter, ever, pc, loads, mix, pump>>

\* SetPlayState(PLAYING) and SetPlayState(PAUSED).
Play(s) ==
    /\ GuestMayCall
    /\ DeviceLock
    /\ active
    /\ state # s
    /\ ClearOnReuse => ~over
    /\ state' = s
    /\ UNCHANGED <<over, slots, store, queued, flags, pc, loads, mix, pump>>

\* Mutant: clearing leaves the latch of the end of the sound.
ClearKeepsLatch ==
    /\ GuestMayCall
    /\ DeviceLock
    /\ active
    /\ queued'  = 0
    /\ counter' = 0
    /\ ever'    = FALSE
    /\ done'    = FALSE
    /\ over'    = FALSE
    /\ RingReset
    /\ UNCHANGED <<slots, state, fired, pc, loads, mix, pump>>

Clear ==
    /\ GuestMayCall
    /\ DeviceLock
    /\ active
    /\ queued'  = 0
    /\ counter' = 0
    /\ ever'    = FALSE
    /\ fired'   = FALSE
    /\ done'    = FALSE
    /\ over'    = FALSE
    /\ RingReset
    /\ UNCHANGED <<slots, state, pc, loads, mix, pump>>

Guest ==
    \/ \E cb \in BOOLEAN : Create(cb)
    \/ Destroy \/ BeginEnqueue \/ Stop \/ Clear
    \/ \E s \in {"PLAYING", "PAUSED"} : Play(s)
    \/ Enqueue("guest")

-----------------------------------------------------------------------------
(* sdl_audio_callback, for this player. *)

\* Mutant: the queue is counted down although it may be empty.
MixReadUncounted ==
    /\ mixer = "idle"
    /\ active
    /\ state = "PLAYING"
    /\ head # tail
    /\ tail' = tail + 1
    /\ mixer' = "consume"
    /\ mixQueued' = queued
    /\ UNCHANGED <<over, slots, state, head, ring, last, first, queued, flags, pc, loads, pump>>

MixRead ==
    /\ mixer = "idle"
    /\ active
    /\ state = "PLAYING"
    /\ head # tail
    /\ tail' = tail + 1
    /\ mixer' = IF queued > 0 THEN "consume" ELSE "idle"
    /\ mixQueued' = queued
    /\ UNCHANGED <<over, slots, state, head, ring, last, first, queued, flags, pc, loads, pump>>

MixConsume ==
    /\ mixer = "consume"
    /\ queued' = mixQueued - 1
    /\ mixer' = "idle"
    /\ UNCHANGED <<over, slots, state, store, flags, pc, loads, mixQueued, pump>>

Mixer == MixRead \/ MixConsume

-----------------------------------------------------------------------------
(* opensles_pump_locked, for this player. *)

PumpBegin ==
    /\ pc["pump"] = "idle"
    /\ active
    /\ state = "PLAYING"
    /\ readable' = head - tail
    /\ calls' = MaxCalls
    /\ Goto("pump", "fill")
    /\ UNCHANGED <<over, slots, state, store, queued, flags, loads, mix, before>>

AskMore == callback /\ readable <= Refill /\ calls > 0

PumpCalls ==
    /\ pc["pump"] = "fill"
    /\ AskMore
    /\ Overlap \/ pc["guest"] = "idle"
    /\ before' = counter
    /\ Goto("pump", "callback")
    /\ UNCHANGED <<over, slots, state, store, queued, flags, loads, mix, readable, calls>>

PumpFilled ==
    /\ pc["pump"] = "fill"
    /\ ~AskMore
    /\ Goto("pump", "drain")
    /\ UNCHANGED <<over, slots, state, store, queued, flags, loads, mix, pump>>

\* The guest's callback: it enqueues a buffer or it has none left.
CallbackFeeds ==
    /\ pc["pump"] = "callback"
    /\ last < MaxBuffers
    /\ Goto("pump", "write")
    /\ UNCHANGED <<over, slots, state, store, queued, flags, loads, mix, pump>>

CallbackDry ==
    /\ pc["pump"] = "callback"
    /\ Goto("pump", "returned")
    /\ UNCHANGED <<over, slots, state, store, queued, flags, loads, mix, pump>>

PumpFoundDry ==
    /\ pc["pump"] = "returned"
    /\ ever /\ ~done /\ counter = before
    /\ done' = TRUE
    /\ Goto("pump", "drain")
    /\ UNCHANGED <<over, slots, state, store, queued, counter, ever, fired, loads, mix, pump>>

PumpContinues ==
    /\ pc["pump"] = "returned"
    /\ ~(ever /\ ~done /\ counter = before)
    /\ readable' = head - tail
    /\ calls' = calls - 1
    /\ Goto("pump", "fill")
    /\ UNCHANGED <<over, slots, state, store, queued, flags, loads, mix, before>>

\* Without a callback the sound is over when its queue is.
PumpDrain ==
    /\ pc["pump"] = "drain"
    /\ done' = (done \/ (~callback /\ ever /\ queued = 0 /\ readable = 0))
    /\ Goto("pump", "end")
    /\ UNCHANGED <<over, slots, state, store, queued, counter, ever, fired, loads, mix, pump>>

\* HEADATEND goes to the play callback here.
HeadAtEnd ==
    /\ pc["pump"] = "end"
    /\ done /\ ~fired /\ head = tail
    /\ fired' = TRUE
    /\ over' = TRUE
    /\ Goto("pump", "stop")
    /\ UNCHANGED <<slots, state, store, queued, counter, ever, done, loads, mix, pump>>

NotAtEnd ==
    /\ pc["pump"] = "end"
    /\ ~(done /\ ~fired /\ head = tail)
    /\ Goto("pump", "idle")
    /\ UNCHANGED <<over, slots, state, store, queued, flags, loads, mix, pump>>

PumpStops ==
    /\ pc["pump"] = "stop"
    /\ DeviceLock
    /\ state'  = "STOPPED"
    /\ queued' = 0
    /\ Goto("pump", "idle")
    /\ UNCHANGED <<over, slots, store, flags, loads, mix, pump>>

Pump ==
    \/ PumpBegin \/ PumpCalls \/ PumpFilled \/ CallbackFeeds \/ CallbackDry
    \/ PumpFoundDry \/ PumpContinues \/ PumpDrain \/ HeadAtEnd \/ NotAtEnd \/ PumpStops
    \/ Enqueue("pump")

-----------------------------------------------------------------------------
Next == Guest \/ Mixer \/ Pump

Spec == Init /\ [][Next]_vars

\* The pump thread and SDL's audio thread run, and a begun bq_Enqueue returns.
FairSpec ==
    /\ Spec
    /\ WF_vars(Mixer)
    /\ WF_vars(Pump)
    /\ WF_vars(Enqueue("guest"))

-----------------------------------------------------------------------------
(* Properties *)

\* What the mixer can read is what was enqueued since the last stop, clear or
\* create, each buffer once and in order (ring_write, ring_read and the resets).
RingFifo ==
    /\ head - tail \in 0 .. RingSize
    /\ \A k \in tail .. head - 1 : ring[k % RingSize] = first + k

\* The ring, its two positions and the stores of bq_Enqueue make a queue: seen
\* from the mixer a buffer is enqueued by the store of ring_head, whole and
\* behind all others, heard from the front, or removed with all the rest.
Readable == [i \in 1 .. head - tail |-> ring[(tail + i - 1) % RingSize]]
Queue == INSTANCE SoundQueue WITH Size <- RingSize, queue <- Readable,
                                  sent <- first + head - 1
SoundQueueHolds == Queue!Spec

\* A sound that has run dry ends: a player fed by its callback does not keep
\* playing silence, so the slot can be reused (opensles_pump_locked).
SoundEnds ==
    (callback /\ active /\ ever /\ state = "PLAYING")
        ~> (state # "PLAYING" \/ ~ever)

\* "HEADATEND: fire play callback when decoder done and ring drained".
HeadAtEndFires ==
    (active /\ state = "PLAYING" /\ done /\ head = tail)
        ~> (state # "PLAYING" \/ ~done \/ head # tail)

\* "The ring head/tail tracking ensures we never read unwritten data": what
\* the mixer can read was written since the ring was last reset, or by the
\* bq_Enqueue the reset fell into.
ReadableIsWritten == \A k \in tail .. head - 1 : ring[k % RingSize] >= first - 1

=============================================================================
