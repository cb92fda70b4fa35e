---------------------------- MODULE GuestRegistry ----------------------------
(***************************************************************************)
(* The object registry of the pthread bridge (src/src/pthread_bridge.c).   *)
(*                                                                         *)
(* A bionic mutex, condition variable, semaphore or attribute is one guest *)
(* word (a "slot").  The bridge keeps the host object elsewhere and stores *)
(* its 32-bit handle in the slot.  A lookup walks one bucket chain with no *)
(* lock; objects are published and retired under registry_lock, with every *)
(* store of those two functions visible to the walkers on its own.         *)
(*                                                                         *)
(* One bucket is modelled: chains of different buckets share nothing.      *)
(* Objects are numbered in the order they are allocated (an address is     *)
(* never reused: a published object is never freed), so a handle is a      *)
(* number and 0 is the statically initialised slot.  The object kind is    *)
(* left out: the guest uses a slot with one kind.  What a lookup is for is *)
(* kept in call[t]:                                                        *)
(*   "get"     lock, unlock, wait, signal, post: create on first use       *)
(*   "peek"    attribute getters: object_get, EINVAL on a miss             *)
(*   "init"    mutex_init, cond_init, sem_init: create unless active       *)
(*   "destroy" mutex_destroy, cond_destroy, sem_destroy: as "get", retire  *)
(*   "drop"    attr_destroy, mutexattr_destroy: retire if active           *)
(* The guest follows POSIX: an Exclusive call on a slot overlaps no other  *)
(* call on the same slot.                                                  *)
(***************************************************************************)
EXTENDS Integers

CONSTANTS
    Threads,     \* guest threads
    Slots,       \* guest words used as pthread objects
    MaxObjects,  \* bound on the objects ever allocated; beyond it calloc fails
    NoThread     \* registry_lock is free

ASSUME RegistryAssumption ==
    /\ NoThread \notin Threads
    /\ Slots # {}
    /\ MaxObjects \in Nat

Objects   == 1 .. MaxObjects
Nil       == 0
Calls     == {"get", "peek", "init", "destroy", "drop"}
Exclusive == {"init", "destroy", "drop"}
Locked    == {"init", "drop"}            \* look the slot up under registry_lock only
AnySlot   == CHOOSE s \in Slots : TRUE   \* where nothing reads the value

VARIABLES
    word,    \* word[s]: the guest slot, Nil or the handle of an object
    head,    \* registry[bucket]
    next,    \* next[o]: active_next of an object, kept after retirement
    owner,   \* owner[o]: the slot the object was made for
    active,  \* active[o]: the object's active flag
    last,    \* the number of objects allocated so far
    linked,  \* the objects on the chain that starts at head
    lock,    \* the holder of registry_lock
    stats,   \* registry_stats
    pc,      \* where each thread is
    call,    \* the call it makes, see above
    slot,    \* the slot it makes it on
    raw,     \* the word it loaded
    cur,     \* the object its walk looks at
    obj      \* the object it found, created or retires

shared == <<word, head, next, owner, active, last, linked, stats>>
locals == <<call, slot, raw, cur, obj>>
vars   == <<shared, lock, pc, locals>>

CriticalPCs == {"recheck", "link", "word", "deactivate", "clear", "unlink"}
PCs == CriticalPCs \union
       {"idle", "load", "head", "walk", "miss", "lock", "found", "retire", "use"}
ObjectPCs == {"found", "use", "link", "word", "retire", "deactivate", "clear", "unlink"}

TypeOK ==
    /\ word   \in [Slots -> Objects \union {Nil}]
    /\ head   \in Objects \union {Nil}
    /\ next   \in [Objects -> Objects \union {Nil}]
    /\ owner  \in [Objects -> Slots]
    /\ active \in [Objects -> BOOLEAN]
    /\ last   \in 0 .. MaxObjects
    /\ linked \in SUBSET Objects
    /\ lock   \in Threads \union {NoThread}
    /\ stats  \in [created : Nat, active : Nat, retired : Nat]
    /\ pc     \in [Threads -> PCs]
    /\ call   \in [Threads -> Calls]
    /\ slot   \in [Threads -> Slots]
    /\ raw    \in [Threads -> Objects \union {Nil}]
    /\ cur    \in [Threads -> Objects \union {Nil}]
    /\ obj    \in [Threads -> Objects \union {Nil}]
    /\ \A t \in Threads : pc[t] \in ObjectPCs => obj[t] \in Objects
    /\ \A t \in Threads : pc[t] = "walk" => cur[t] \in Objects

Init ==
    /\ word   = [s \in Slots |-> Nil]
    /\ head   = Nil
    /\ next   = [o \in Objects |-> Nil]
    /\ owner  = [o \in Objects |-> AnySlot]
    /\ active = [o \in Objects |-> FALSE]
    /\ last   = 0
    /\ linked = {}
    /\ lock   = NoThread
    /\ stats  = [created |-> 0, active |-> 0, retired |-> 0]
    /\ pc     = [t \in Threads |-> "idle"]
    /\ call   = [t \in Threads |-> "get"]
    /\ slot   = [t \in Threads |-> AnySlot]
    /\ raw    = [t \in Threads |-> Nil]
    /\ cur    = [t \in Threads |-> Nil]
    /\ obj    = [t \in Threads |-> Nil]

-----------------------------------------------------------------------------
Goto(t, label) == pc' = [pc EXCEPT ![t] = label]

\* The call returns to the guest and its local variables are gone.
Return(t) ==
    /\ Goto(t, "idle")
    /\ call' = [call EXCEPT ![t] = "get"]
    /\ slot' = [slot EXCEPT ![t] = AnySlot]
    /\ raw'  = [raw EXCEPT ![t] = Nil]
    /\ cur'  = [cur EXCEPT ![t] = Nil]
    /\ obj'  = [obj EXCEPT ![t] = Nil]

\* The guest's side of the contract: who may be inside a call on s.
MayBegin(s, k) ==
    \A u \in Threads : pc[u] # "idle" /\ slot[u] = s =>
        k \notin Exclusive /\ call[u] \notin Exclusive

Begin(t, s, k) ==
    /\ pc[t] = "idle"
    /\ MayBegin(s, k)
    /\ call' = [call EXCEPT ![t] = k]
    /\ slot' = [slot EXCEPT ![t] = s]
    /\ Goto(t, IF k \in Locked THEN "lock" ELSE "load")
    /\ UNCHANGED <<shared, lock, raw, cur, obj>>

\* The walk moves to object o, or ends without a match when there is none.
StandOn(t, o) ==
    /\ cur' = [cur EXCEPT ![t] = o]
    /\ Goto(t, IF o = Nil THEN "miss" ELSE "walk")

\* registry_find, without registry_lock.  A zero word matches nothing.
LoadWord(t) ==
    /\ pc[t] = "load"
    /\ raw' = [raw EXCEPT ![t] = word[slot[t]]]
    /\ Goto(t, IF word[slot[t]] = Nil THEN "miss" ELSE "head")
    /\ UNCHANGED <<shared, lock, call, slot, cur, obj>>

LoadHead(t) ==
    /\ pc[t] = "head"
    /\ StandOn(t, head)
    /\ UNCHANGED <<shared, lock, call, slot, raw, obj>>

\* Mutant: neither the handle nor the slot is compared.
MatchesActive(o, handle, s) == active[o]

Matches(o, handle, s) == o = handle /\ owner[o] = s /\ active[o]

WalkFound(t) ==
    /\ pc[t] = "walk"
    /\ Matches(cur[t], raw[t], slot[t])
    /\ obj' = [obj EXCEPT ![t] = cur[t]]
    /\ Goto(t, "found")
    /\ UNCHANGED <<shared, lock, call, slot, raw, cur>>

WalkNext(t) ==
    /\ pc[t] = "walk"
    /\ ~Matches(cur[t], raw[t], slot[t])
    /\ StandOn(t, next[cur[t]])
    /\ UNCHANGED <<shared, lock, call, slot, raw, obj>>

\* object_get answers EINVAL; *_get_or_create goes on under the lock.
MissReturns(t) ==
    /\ pc[t] = "miss"
    /\ call[t] = "peek"
    /\ Return(t)
    /\ UNCHANGED <<shared, lock>>

MissLocks(t) ==
    /\ pc[t] = "miss"
    /\ call[t] # "peek"
    /\ Goto(t, "lock")
    /\ UNCHANGED <<shared, lock, locals>>

Found(t) ==
    /\ pc[t] = "found"
    /\ Goto(t, IF call[t] = "destroy" THEN "retire" ELSE "use")
    /\ UNCHANGED <<shared, lock, locals>>

\* The caller's host call on the object (lock, wait, signal, read of an attr).
Use(t) ==
    /\ pc[t] = "use"
    /\ Return(t)
    /\ UNCHANGED <<shared, lock>>

-----------------------------------------------------------------------------
(* Creation: *_get_or_create after a miss, and *_init. *)

AcquireLock(t) ==
    /\ pc[t] = "lock"
    /\ lock = NoThread
    /\ lock' = t
    /\ Goto(t, "recheck")
    /\ UNCHANGED <<shared, locals>>

\* registry_find under registry_lock: no chain or flag can change meanwhile.
Registered(s) == {o \in linked : Matches(o, word[s], s)}

\* Mutant: the object found under registry_lock is not handed on.
RecheckForgets(t) ==
    /\ pc[t] = "recheck"
    /\ call[t] \notin Locked
    /\ Registered(slot[t]) # {}
    /\ Goto(t, "found")
    /\ lock' = NoThread
    /\ UNCHANGED <<shared, locals>>

RecheckFound(t) ==
    /\ pc[t] = "recheck"
    /\ call[t] \notin Locked
    /\ \E o \in Registered(slot[t]) : obj' = [obj EXCEPT ![t] = o]
    /\ Goto(t, "found")
    /\ lock' = NoThread
    /\ UNCHANGED <<shared, call, slot, raw, cur>>

\* attr_destroy keeps the lock and retires what it found.
RecheckDrops(t) ==
    /\ pc[t] = "recheck"
    /\ call[t] = "drop"
    /\ \E o \in Registered(slot[t]) : obj' = [obj EXCEPT ![t] = o]
    /\ Goto(t, "deactivate")
    /\ UNCHANGED <<shared, lock, call, slot, raw, cur>>

\* *_init answers EBUSY, the slot still names an active object; the host
\* refuses attr_destroy or mutexattr_destroy, and the object stays.
LockedRefuses(t) ==
    /\ pc[t] = "recheck"
    /\ call[t] \in Locked
    /\ Registered(slot[t]) # {}
    /\ Return(t)
    /\ lock' = NoThread
    /\ UNCHANGED shared

\* Mutant: no second look at the slot under registry_lock.
AllocateUnchecked(t) ==
    /\ pc[t] = "recheck"
    /\ call[t] # "drop"
    /\ last < MaxObjects
    /\ last'   = last + 1
    /\ active' = [active EXCEPT ![last + 1] = TRUE]
    /\ owner'  = [owner EXCEPT ![last + 1] = slot[t]]
    /\ next'   = [next EXCEPT ![last + 1] = head]
    /\ obj'    = [obj EXCEPT ![t] = last + 1]
    /\ Goto(t, "link")
    /\ UNCHANGED <<word, head, linked, stats, lock, call, slot, raw, cur>>

\* object_allocate_locked and the first store of object_publish_locked.
Allocate(t) ==
    /\ pc[t] = "recheck"
    /\ call[t] # "drop"
    /\ Registered(slot[t]) = {}
    /\ last < MaxObjects
    /\ last'   = last + 1
    /\ active' = [active EXCEPT ![last + 1] = TRUE]
    /\ owner'  = [owner EXCEPT ![last + 1] = slot[t]]
    /\ next'   = [next EXCEPT ![last + 1] = head]
    /\ obj'    = [obj EXCEPT ![t] = last + 1]
    /\ Goto(t, "link")
    /\ UNCHANGED <<word, head, linked, stats, lock, call, slot, raw, cur>>

\* ENOMEM, EOVERFLOW or a failing host init: nothing was published.  EINVAL
\* from attr_destroy: there is nothing to retire.
CreateFails(t) ==
    /\ pc[t] = "recheck"
    /\ Registered(slot[t]) = {}
    /\ lock' = NoThread
    /\ Return(t)
    /\ UNCHANGED shared

\* Mutant: the head is stored before the link, which then points to itself.
PublishHeadFirst(t) ==
    /\ pc[t] = "link"
    /\ head'   = obj[t]
    /\ next'   = [next EXCEPT ![obj[t]] = obj[t]]
    /\ linked' = linked \union {obj[t]}
    /\ Goto(t, "word")
    /\ UNCHANGED <<word, owner, active, last, stats, lock, locals>>

PublishHead(t) ==
    /\ pc[t] = "link"
    /\ head'   = obj[t]
    /\ linked' = linked \union {obj[t]}
    /\ Goto(t, "word")
    /\ UNCHANGED <<word, next, owner, active, last, stats, lock, locals>>

PublishWord(t) ==
    /\ pc[t] = "word"
    /\ word'  = [word EXCEPT ![owner[obj[t]]] = obj[t]]
    /\ stats' = [created |-> stats.created + 1, active |-> stats.active + 1,
                 retired |-> stats.retired]
    /\ lock'  = NoThread
    /\ IF call[t] = "init" THEN Return(t) ELSE Goto(t, "found") /\ UNCHANGED locals
    /\ UNCHANGED <<head, next, owner, active, last, linked>>

-----------------------------------------------------------------------------
(* Retirement: *_destroy, after the host object was destroyed. *)

BeginRetire(t) ==
    /\ pc[t] = "retire"
    /\ lock = NoThread
    /\ lock' = t
    /\ Goto(t, "deactivate")
    /\ UNCHANGED <<shared, locals>>

\* The host refuses (EBUSY): the object stays registered.
HostBusy(t) ==
    /\ pc[t] = "retire"
    /\ lock = NoThread
    /\ Return(t)
    /\ UNCHANGED <<shared, lock>>

Deactivate(t) ==
    /\ pc[t] = "deactivate"
    /\ active' = [active EXCEPT ![obj[t]] = FALSE]
    /\ Goto(t, "clear")
    /\ UNCHANGED <<word, head, next, owner, last, linked, stats, lock, locals>>

ClearWord(t) ==
    /\ pc[t] = "clear"
    /\ word' = [word EXCEPT ![owner[obj[t]]] = Nil]
    /\ Goto(t, "unlink")
    /\ UNCHANGED <<head, next, owner, active, last, linked, stats, lock, locals>>

\* Mutant: the retired object's own link is cleared.
UnlinkClearsNext(t) ==
    /\ pc[t] = "unlink"
    /\ LET o == obj[t] IN
          /\ head'   = IF head = o THEN next[o] ELSE head
          /\ next'   = [p \in Objects |->
                          CASE p = o -> Nil
                            [] p \in linked \ {o} /\ next[p] = o -> next[o]
                            [] OTHER -> next[p]]
          /\ linked' = linked \ {o}
    /\ stats' = [created |-> stats.created, retired |-> stats.retired + 1,
                 active  |-> IF stats.active # 0 THEN stats.active - 1 ELSE 0]
    /\ lock'  = NoThread
    /\ Return(t)
    /\ UNCHANGED <<word, owner, active, last>>

\* The object keeps its own active_next: walkers standing on it go on.
Unlink(t) ==
    /\ pc[t] = "unlink"
    /\ LET o == obj[t] IN
          /\ head'   = IF head = o THEN next[o] ELSE head
          /\ next'   = [p \in Objects |->
                          IF p \in linked /\ next[p] = o THEN next[o] ELSE next[p]]
          /\ linked' = linked \ {o}
    /\ stats' = [created |-> stats.created, retired |-> stats.retired + 1,
                 active  |-> IF stats.active # 0 THEN stats.active - 1 ELSE 0]
    /\ lock'  = NoThread
    /\ Return(t)
    /\ UNCHANGED <<word, owner, active, last>>

-----------------------------------------------------------------------------
Lookup(t) == LoadWord(t) \/ LoadHead(t) \/ WalkFound(t) \/ WalkNext(t)
Miss(t)   == MissReturns(t) \/ MissLocks(t)
Create(t) == \/ AcquireLock(t) \/ RecheckFound(t) \/ RecheckDrops(t) \/ LockedRefuses(t) \/ Allocate(t)
             \/ CreateFails(t) \/ PublishHead(t) \/ PublishWord(t)
Retire(t) == \/ BeginRetire(t) \/ HostBusy(t) \/ Deactivate(t) \/ ClearWord(t)
             \/ Unlink(t)
Step(t)   == Lookup(t) \/ Miss(t) \/ Found(t) \/ Use(t) \/ Create(t) \/ Retire(t)

Next ==
    \E t \in Threads :
        \/ \E s \in Slots, k \in Calls : Begin(t, s, k)
        \/ Step(t)

Spec == Init /\ [][Next]_vars

\* A thread inside a lookup keeps running: the lookup blocks on nothing.
FairSpec == Spec /\ \A t \in Threads : WF_vars(Lookup(t))

-----------------------------------------------------------------------------
(* Properties *)

\* Lock-free lookups are complete: a walk that started from a non-zero slot
\* finds the object, whatever is published or retired on the same chain
\* meanwhile (registry_find; "Entries are immutable and never freed;
\* publishing the bucket head and active flag ... is enough").  A miss here is
\* EINVAL from an attribute getter or a second object for a locked mutex.
NoSpuriousMiss == \A t \in Threads : pc[t] = "miss" => raw[t] = Nil

\* First users racing on a statically initialised slot get one object: two
\* host mutexes behind one guest mutex would exclude nobody
\* (the re-check of *_get_or_create under registry_lock).
OneObjectPerSlot ==
    \A a, b \in Objects : active[a] /\ active[b] /\ owner[a] = owner[b] => a = b

\* The object a caller goes on to use is live and is the one its slot names.
UsesLiveObject ==
    \A t \in Threads : pc[t] = "use" => /\ active[obj[t]]
                                        /\ word[slot[t]] = obj[t]

\* The objects that were published: the one between its allocation and the
\* store to the slot is not.
Published == {o \in 1 .. last :
                \A t \in Threads : pc[t] \in {"link", "word"} => obj[t] # o}

\* What the call of t works on; a getter that missed is about to return EINVAL.
Refused == -1
Answered(t) ==
    IF pc[t] \in {"found", "use", "retire"} THEN obj[t]
    ELSE IF pc[t] = "miss" /\ call[t] = "peek" THEN Refused
    ELSE Nil

\* The registry is an atomic map from slots to objects, although a lookup reads
\* the slot, the head and every link at different times: the answer it
\* gives is what the slot names at the instant the walk ends, a getter is
\* refused only while the slot names nothing, and an object is retired
\* only when no call works on it.
Map == INSTANCE ObjectMap WITH None <- Nil, bound <- word, made <- Published,
                               answer <- [t \in Threads |-> Answered(t)]
ObjectMapHolds == Map!Spec

\* A walk ends however many objects are published and retired in the meantime.
LookupTerminates ==
    \A t \in Threads : (pc[t] = "walk") ~> (pc[t] \in {"found", "miss"})

=============================================================================
