# Titan Souls for Linux: a verification project

The port runs the Android build of Titan Souls (`libag.so`, `libfmodex.so`,
ARMv7 bionic) inside a Linux process. It is an *adapter*: it loads the two
modules, gives them a bionic C library, pthreads, EGL, OpenSL ES, JNI and an
Android activity, and hands them the thread. Nearly everything that can go
wrong without being noticed happens in the shims, where guest threads, SDL's
threads and the adapter's own threads meet. This directory models those shims
in TLA+, checks them with TLC and proves the central invariants with TLAPS.

Paths are relative to the repository; line numbers are in `PROJECT.json`
("map": definition to code, "hazards": what the properties are for).

## 1. Inventory

### The parts and how they interact

```
 main.c ── lifecycle.c ── (nxandroid) ─┐      framework_bridge.c (nxcompat registry)
   │                                   │         ▲ graphics   ▲ input    ▲ audio
   ├─ ts_loader.c ── (nxloader) ── guest modules │            │          │
   │                     │ imports               │            │          │
   └─ hooks around FMOD  ▼                       │            │          │
        pthread_bridge.c  bionic_compat.c   egl_shim.c   android_shim.c  opensles_shim.c
                                                 │            │          │
                                                 └────────── SDL ────────┘
```

The guest calls the shims through its import table (`imports.c`). Three shims
report to the framework bridge, which decides when the port is READY: EGL from
inside the first `eglMakeCurrent`, input at start-up, OpenSL when the device
is open. FMOD, inside the guest, calls OpenSL; OpenSL's pump thread calls FMOD
back.

| Component | State | Operations | What is hard | Correct when |
|---|---|---|---|---|
| pthread bridge, registry (`pthread_bridge.c`) | hash chains of objects, `registry_lock`, the guest's slots, counters | lookup, create on first use, `*_init`, `*_destroy` | lookups take no lock while others publish and retire | a lookup finds what is registered; one object per slot; nobody gets a retired one |
| pthread bridge, mutex and condition | host mutex, `mutex_owner`, `mutex_depth`, handoffs | lock, trylock, unlock, wait, timedwait, signal, broadcast, handoff | the record is two atomics read without the mutex; waits that are refused or time out | the record never claims more than the host grants; the return codes are those of a mutex |
| pthread bridge, once | control words, one lock and one condition for all | `pthread_once` | nesting, cancellation inside an initialiser, shared wake-ups | one initialiser, one completion, no lost wake-up |
| pthread bridge, threads | none | create, join, detach, scheduling | - | forwarding |
| bionic stdio (`bionic_compat.c`) | wrappers in hash chains, `active_operations`, one mutex and condition | open, every stream call, close | a close waits for operations and continues with what it found before | no call on a closed host stream, one host close, closes get through |
| EGL shim (`egl_shim.c`) | context and surface lists, binding counts, thread-local bindings, owners, the graphics latch | initialise, terminate, create, destroy, make current, swap | threads, refused host calls, work outside the mutex, reused handles | no dangling binding, exact counts, a frame only with a living context |
| OpenSL ES player (`opensles_shim.c`) | ring, queue length, play state, end-of-sound latches | enqueue, play, stop, clear, destroy; the pump; the mixer | three parties, only two of which lock | buffers in order and once; a sound that has run dry ends |
| OpenSL ES engine and device | SDL device, "initialised" latch, pool of 16 slots | create engine, open with one ALSA retry, destroy | slots recycled while the guest holds them | one device, no player without it |
| Android input and activity (`android_shim.c`) | event ring of 128, looper descriptors, command pipe, shutdown clock | pump SDL, poll, get/finish event, send/process command, shutdown | full ring; exit against a clock | no key stuck, save before exit |
| framework bridge (`framework_bridge.c`) | published flags, generations, READY latch | preflight, publish graphics/input/audio, READY | publications on three threads without a lock, a rejected gate | READY opens on the complete set, is not missed and never closes |
| module loader (`ts_loader.c`, `loader_compat.c`) | stage, two slots, views of the mappings | create, prepare, hook, finalise, initialise, bind views, destroy | failing half-way | guest code runs only when everything is in place |
| life cycle (`lifecycle.c`) | delegated flag, graphics report | four steps, graphics report | the report comes from inside a step | ends well only with one verified report |
| program and FMOD hooks (`main.c`, `audio_recovery_policy.c`) | original entry points, retry count | start, FMOD output recovery, stream mode ladder | bounded retries over the leavings of a failed attempt | success is never reported of what did not happen |
| language menu (`language_menu.c`) | selected index, locale, hooks | extend the menu, apply | failing half-way | index, locale and engine agree |
| JNI, assets, paths, imports, conversions | string ring, fixed answers, offsets | | wrap of the ring | |

`PROJECT.json` lists every part with what is modelled of it and, where nothing
is, the reason. Vendored code (`hashmap.h`), legacy code the universal build
rejects (`so_util.c`) and packaging are out of scope.

## 2. The modules

| Module | Models | Extends / composes |
|---|---|---|
| `ObjectMap` | what the registry promises: a map read and changed at one instant | |
| `GuestRegistry` | the object registry | `ObjectMap` by INSTANCE, as refinement |
| `MutexApi` | what a set of pthread mutexes promises, in return codes only | |
| `GuestMutex` | mutexes, conditions, handoffs | `MutexApi` by INSTANCE, as refinement |
| `OnceApi` | what `pthread_once` promises | |
| `GuestOnce` | `pthread_once` | `OnceApi` by INSTANCE, as refinement |
| `StreamApi` | what a stream promises: operations and closes kept apart | |
| `GuestFiles` | stdio streams | `StreamApi` by INSTANCE, as refinement |
| `EglApi` | what EGL promises of bindings | |
| `EglBinding` | the EGL shim | `EglApi` by INSTANCE, as refinement |
| `SoundQueue` | what a buffer queue promises: bounded, first in first out | |
| `OpenSLPlayer` | one player, the pump and the mixer | `SoundQueue` by INSTANCE, as refinement |
| `ReadyGate` | what the capability gate promises | |
| `Framework` | the three publications and the READY gate | `ReadyGate` by INSTANCE, as refinement |
| `ModuleLoader` | the loader, both modules, the unwinder's views | |
| `Lifecycle` | the nxandroid profile and the graphics report | |
| `AudioOutput` | FMOD's System::init, its recovery, the one SDL device | |
| `Boot` | `main()`, the graphics thread, the sound thread | extends the four above |
| `LanguageMenu` | the options menu with seven languages | |
| `GuestInput` | input, looper, commands, ways out | |
| `MC*` | the same for TLC: symmetry sets and the relation `Nested` | |
| `*Proofs` | theorems about each, for every value of the constants | extend the module named before `Proofs` |
| `ActivityProofs` | the same for what the game sees of Android | extends `GuestInput` and `LanguageMenu` |

### GuestRegistry

`word` is the guest's slot, `head`/`next` one bucket's chain, `active` and
`owner` the fields of an object, `lock` is `registry_lock`. Every load of
`registry_find` (`LoadWord`, `LoadHead`, `WalkFound`/`WalkNext`) and every store
of `object_publish_locked` and `object_retire_locked` (`Allocate`,
`PublishHead`, `PublishWord`; `Deactivate`, `ClearWord`, `Unlink`) is a step. A
call is one of five kinds, which differ in what a miss does and in who may be
on the same slot: the guest follows POSIX and does not initialise or destroy an
object that is in use. One bucket suffices because chains share nothing but the
lock; object numbers are never reused because a published object is never
freed.

`ObjectMap` is the promise: every call reads or changes a map from words to
objects at one instant, and no object is taken away from a call that works on
it. Its map is `word` itself, so a publication takes effect with the store of the
slot (what was pushed on the chain before is not yet `Published`), a retirement
with the clearing of the slot, and a lookup when its walk ends (`Answered`) - not
when it loaded the slot, which may be long before.

### GuestMutex and MutexApi

`hostOwner`, `hostCount`, `waiters` are the host's mutex and condition
(external, POSIX, spurious wake-ups included); `recOwner`, `recDepth` are the
bridge's atomics. `HostLock`, `RecordDepth`, `RecordOwner` are the three steps
of an acquisition, `Release*`, `ClearDepth`, `HostUnlock` those of a release; a
wait goes through release, sleep and reacquisition, or is refused and restores
the record (`HostWaitRefused`, `RestoreDepth`, `RestoreOwner`). `held` counts what return
codes granted. `MutexApi` is the promise: a mutex is granted to a thread only
if nobody else holds it, and given up by its holder alone. The refinement maps
`held` to itself: everything between two return codes is a stutter.

### GuestOnce

`word[c]` is the control, `ph[t][c]` the point a thread is at in its call on
`c`, `caller`/`top` the stack of nested calls. `Cancel` strikes in an
initialiser only, since the code disables cancellation elsewhere;
`InitCancelled` is the clean-up handler, innermost first. The guest's import
table has no `pthread_cancel` and no `pthread_exit`; the code handles both, and
so does the model. `OnceApi` knows of who is inside an initialiser (`Running`),
which controls are done (word 2) and who was answered 0; the lock, the sleeps and
the wake-ups are stutters.

### GuestFiles

Each critical section of `asm2_file_mutex` is a step; the wait on
`asm2_file_condition` cuts a close into `CloseWaits`, `WaitAgain` and
`CloseAfterWait`, which writes through the link found *before* the wait
(`link[t]`), exactly as the code does. `Chained` is what a walk meets.
`StreamApi` has no chain and no counter: a stream has users, and a close
that has claimed it (`Closers`: from the critical section that marks it to the
host's `fclose`). The stale link of section 3 is no violation of it: a stream
that dropped out of its bucket is one that nobody can use or claim any more.

### EglBinding

`contexts`/`surfaces` are the two lists, `owner`, `bindings` and the
thread-local triple the three traces of a binding; `current` is SDL's side.
`eglMakeCurrent` and `eglTerminate` (but for the close of the window) are one
critical section each and one action each. The other calls check the display
first and take the mutex later: `Enter` is the check, and between it and the
effect anything may happen. `SwapAllowed` and `Present` are the two halves of
`eglSwapBuffers`. SDL may refuse any switch (`LeftBehind`: also the way back).
Contexts and surfaces are addresses, so a destroyed one may come back. Which
addresses are pbuffers is fixed. `EglApi` knows the living contexts and
surfaces, one binding per thread (`Bindings`, the thread-local triple) and who
presents (`Drawing`); owners, counts, flags and SDL's side do not exist in it.

### OpenSLPlayer

One slot of the pool. `bq_Enqueue` runs without the device lock, in the guest
or inside the guest's callback on the pump thread; `ring_head += len` and
`queued_count++` are a load and a store each. `MixRead`/`MixConsume` are the
mixer's pass under the device lock. The pump's pass is cut at every place where
another party can come in. `Overlap` says whether the guest stops, clears and
feeds a player while its callback runs; `ClearOnReuse` whether it clears a player
that ended before it plays it again. `SoundQueue` is the queue the mixer sees
(`Readable`): a buffer is in it with the store of `ring_head`, whole and behind all
others, and leaves it from the front or with all the rest.

### Boot and its parts

`Framework`, `ModuleLoader`, `Lifecycle` and `AudioOutput` each hold the state
and the operations of one file (or of one concern of two files) and leave the
rest of the world alone; `Boot` conjoins them with the program counter of
`main()` (`at`) and the local progress of the graphics report (`gfx`).

* A publication is `Mark` (the registry took the receipt), then the steps of
  `maybe_validate_ready` and `ts_framework_ready`, which read the three marks and
  the latch without a lock. Graphics, input and audio publish on three threads,
  so these steps interleave. What the registry and its evaluation answer is a
  choice; a graphics report is a record of what its validation reads.
* The loader's calls are one action each with the failure of every step beside
  it, because only `main()` calls them; initialisers, where guest code runs
  first, are a step per module. `TearDown` is the label `fail` in its order.
* FMOD is external: on OpenSL an init creates the engine and asks it for a
  player, and destroys the engine when that fails. `ensure_audio_initialized` is
  `DeviceOpens`/`DeviceFails`, `RetryOpens`/`NoDevice`, `Published`; the latch of a
  failed attempt survives the engine, as in the code.
* Of the game is assumed that it starts its threads from `android_main` and
  calls `System::init` on one system at a time. Not that it ever does so, nor
  that its threads have ended when `android_main` returns.

### LanguageMenu

A label, a choice and a locale are indices in the table of the policy. The
game rebuilds its two-entry menu (`MenuBuilt`) and moves the toggle; the hooks
extend the menu completely (`OptionsAdded`) or as far as labels could be
constructed (`OptionsAddedPart`), and apply a choice completely or without its
last half (`ApplyLanguage`, `ApplyFails`). `spoken` is the game's side. What
every module has (`Init`, `Next`, `Spec`, `TypeOK`) is called `MenuInit` and so
on here, so that one module of proofs can speak of both the menu and the
activity.

### GuestInput

The game's one loop is cut into the pump - any number of SDL events before the
first button of the first pad is asked for, then `EmitButton`, one button of one
pad after the other, then `PollEnd` (axes, ways out, memory, the answer of
`poll`) - the handler of a command, before and after the game's own part of it,
and the handler of the input queue. Only a signal and the clock come in between.

`held`, per device, `arrows` and `stick` are the truth about the pads and the
keyboard, `edges` what nxinput has not handed out yet, and `hat` is the one
`g_kb_hat_*` of the code. An event names no device, and devices share codes: all
pads push the same ones, START and Enter are both `AKEYCODE_MENU` (`Menu`), the
other keys of the fallback are codes of buttons too or, as K and L, of the
keyboard alone. `keys`, `axis` are what the game makes of the events, the last
word of the ring about each code and about the axis (`LastWord`). They are
compared with what all devices together hold (`Heard`, `arrows`, `LeadAxis`), and
where the two may differ is said by two histories: `lost`, the codes whose newest
event a full ring dropped, and `crossed`, the codes whose newest event is the
release of one device while another, or the same one again, holds the code.

`told` is what the game was told, the command it is handling included. `elapsed`
and `alarm` count ticks.

## 3. The runs

| Run | Instance | States | Shows |
|---|---|---|---|
| `registry` | 2 threads, 2 slots, 4 objects | 247 557 | complete lookups, one object per slot, and `ObjectMap`; a walk ends although the chain changes |
| `mutex` | 2 threads; a recursive, an errorcheck, a normal mutex; 1 condition; depth 2 | 538 085 | the record against the host, and `MutexApi` |
| `once` | 3 threads, 2 controls, one nested | 6 795 | exclusion, `OnceApi`, no lost wake-up, every call returns |
| `files` | 3 threads, 4 streams | 145 065 | use before close, `StreamApi`, links lead to older streams, closes end |
| `egl` | 3 threads, 2 contexts, 2 surfaces (one pbuffer) | 142 537 | `EglApi`, counts, swaps, host state |
| `player` | ring of 2, refill at 1, 2 callbacks a pass, 3 buffers | 487 211 | `SoundQueue`, sounds end |
| `boot` | 2 inits per system, 8 kinds of report | 581 024 | the READY gate and its refinement, guest code only in a complete process, success only with a verified report, sound only with a device |
| `language` | the 7 choices of the program | 5 881 | the language is that of the label, index and locale agree |
| `input` | 2 pads, 2 buttons, a shared key and one of the keyboard alone, ring of 4, 3 stimuli, grace 1, alarm 2 | 606 861 | the game's view of all devices together, the shutdown sequence, the process ends |
| `files_stale` | 2 threads, 3 streams | *violation* | a refused close is not always stale |
| `player_overlap` | as `player`, overlapping guest | *violation* | the mixer reads what a stop should have removed |
| `player_reuse` | as `player`, no clear before reuse | *violation* | HEADATEND never fires again |

### Why the bounds are enough

* `registry`: a walker and whoever publishes or retires under it; 4
  objects make a chain on which the walker's object has a younger and an older
  neighbour and one of them is replaced. `MaxObjects` stands for a failing
  `calloc`, which `CreateFails` allows anyway. For more threads there are the
  proofs.
* `mutex`: the record is per mutex and per thread; two threads give every
  conflict, depth 2 every nesting path, and the three types every answer of the
  host. `MaxDepth` stops an owner from nesting on.
* `once`: a third thread is needed for a waiter on either control while the
  other is cancelled.
* `files`: two closers and one operation in flight. Two streams are enough for a
  stale link at the head of a bucket, which cuts off the stream that was opened
  meanwhile; with a third the link is inside the chain, and the fourth is opened
  over the damage. `MaxFiles` caps opens.
* `egl`: an owner, a contender and a terminator; two contexts for a switch, two
  surfaces for draw and read. Handles are reused, so creation is not bounded.
* `player`: a full ring, an empty one and one wrap, and one buffer more than the
  ring holds. `MaxBuffers` says that sounds are finite; `MaxCalls` is 4 in
  the code and acts from 2 on.
* `boot`: `MaxInits` = 2 gives an init on the default output that fails, its
  repetition on OpenSL, and a second init, with a system released and created
  in between, over what the first left behind. `Reports` varies the owner, the
  handles and one disagreement of the views: each of them decides once.
* `language`: the table of the program, no bound.
* `input`: a ring of 4 holds 3 events, so a press, an arrow (two events) and the
  release overflow it and the key sticks. Three stimuli also are: two devices
  press one code and one of them releases it; two opposite arrows, one released;
  a release and a press between two polls; the hotkey (two keys) and another way
  out; any three of the ways out and the signal. Each of these states - a lost
  key and a lost axis, a crossed key and a crossed axis, a key held by the
  keyboard alone, a key held on both pads - is reached in the run between two
  polls with an empty ring, where `ViewConverges` speaks. Longer histories are
  the matter of the proofs, which have no such bounds. `Grace` < `AlarmTime` is
  all the order of the two clocks needs.

`once`, `mutex`, `egl`, `boot` and `input` check no deadlock: in `boot` and
`input` the process exits, in `once` every thread may be
cancelled, in `mutex` guests may deadlock each other by lock order or lock a
normal mutex twice, and after a successful `eglTerminate` no call is left.

### Fairness

* `LookupTerminates`: weak fairness of each thread's own lookup steps, which
  block on nothing.
* `CloseTerminates`: host calls return (`Release`), and a thread that was woken
  takes the mutex in the end. Nothing keeps openers or readers back: a stream
  that is closing refuses new operations, so the count falls.
* `CallReturns`: threads in `pthread_once` keep running (weak), and an
  initialiser finishes although it is interrupted by nested calls (strong). A
  cancelled thread does run its clean-up handlers.
* `SoundEnds`: SDL's audio thread and the pump thread run, and a `bq_Enqueue`
  that has begun returns. Nothing is asked of the guest.
* `ProcessEnds`: time passes, and a pending alarm fires. Nothing is asked of the
  game: it may never poll again.

### Disagreements met

Three runs show the code doing something else than its own text says; the
quotations are in `PROJECT.json`, "findings".

* **`files_stale`** A close that waits keeps the link it found. In the run this
  is the head of the bucket, since the stream is the only one in it. While the
  close waits for the operation of another thread, this thread leaves the
  operation and opens a second stream, which becomes the head. The close wakes and
  writes the head with what is behind its own wrapper: the stream just opened is
  cut off its bucket, and its close is refused and logged as stale. `ChainOlder`
  (proved) says that the damage stays a lost stream: no chain becomes a loop.
* **`player_overlap`** A stop or a clear between the write and `ring_head +=`
  of a `bq_Enqueue` on the pump thread makes an old buffer readable.
* **`player_reuse`** The latch of the end of a sound survives in a stopped player.

Two more places read otherwise than they run, without a run of their own.
`android_shim.c:386` says that the process is not killed before the save of the
engine is written; 397-401 end it by the clock alone, and `ShutdownSequence`
claims the order and the number of the commands only, not that they were
handled. `opensles_shim.c:517` says that a failed attempt is latched for an
engine lifetime; 1247 clears the latch only with an open device.

## 4. The proofs

Each theorem holds for every value of the constants under the named assumption
of the module (`RegistryAssumption`, `MutexAssumption`, `OnceAssumption`,
`FilesAssumption`, `EglAssumption`, `PlayerAssumption`, `MaxInitsAssumption`,
`LastChoiceAssumption`, `InputAssumption`), which TLC evaluates in
every run. The pattern is the same in all eight modules: an `IInv` with
`InvInitially`, `InvStep` (one step per action), `Invariance`, and the
properties as consequences.

| Module | Proved | The invariant, and why it is needed |
|---|---|---|
| `GuestRegistryProofs` | `TypeOK`, `NoSpuriousMiss`, `OneObjectPerSlot`, `UsesLiveObject`, `ObjectMapHolds`, `WalkDescends` | `ChainInv`: links lead to older objects and none, a retired object's included, jumps over a linked one - the reason a retired object keeps its own link: whoever stands on it still reaches everything older. `LockInv` and `ExclusiveInv` say who can be in a publication or a retirement, `WordInv`/`ActiveInv` what the slots name in between. `WalkDescends` gives the variant of a walk: each of its steps goes to an older object, and nobody else moves it. For `ObjectMapHolds` each store is a step of the map or none, and the object a call works on is neither retired nor replaced (`UsesLiveObject`, `ExclusiveInv`). |
| `GuestMutexProofs` | `TypeOK`, `RecordImpliesHost`, `HostCallsOwned`, `IdleAgreement`, `RecordWrittenByOwner`, `MutexApiHolds` | For each point of each call, how host, record and granted count relate: they differ by at most one and only for the thread that owns the host mutex. |
| `GuestOnceProofs` | `TypeOK`, `OneInitialiser`, `ReturnsInitialised`, `OnceApiHolds`, `NoLostWakeup` | `StackInv`: what lies below the innermost call is running; with it the control word tells who is inside, so that leaving the innermost initialiser leaves no other (`OneLeaves`) and an initialiser begins where nobody is. |
| `GuestFilesProofs` | `TypeOK`, `NoUseAfterClose`, `ClosedOnce`, `StreamApiHolds`, `ChainOlder`, `SleeperHasUser`, `ClosingDrains` | `OpsInv`: the counter is the number of threads inside, so a close that sees zero is alone; with `CloseInv`, a closing stream belongs to one close, that is what `StreamApi` asks for. `LinkInv`: even a stale link comes from a younger wrapper, so links never turn back. `SleepInv`: who sleeps waits for a stream that is in use, so the last operation on it has yet to wake the sleeper; and the users of a closing stream only get fewer. |
| `EglBindingProofs` | `TypeOK`, `BindingsAlive`, `EglApiHolds`, `BindingsCounted`, `PresentSafe`, `HostAgrees` | Thread-local triples, owners and counts agree (`TogetherInv` and the properties themselves); a window that closes has no contexts (`WindowInv`). Releasing a binding never meets a zero count, which makes the guard of `--binding_count` dead code. What a call finds out from an owner or a count is what `EglApi` asks of the bindings (`TerminatorAlone`, `UnboundSurface`). `HostInv` adds SDL's side: a thread that could not go back after a refused switch is left with another context than the shim believes, but never with one that a different thread is bound to (`ApartInv`). |
| `OpenSLPlayerProofs` | `TypeOK`, `RingFifo`, `SoundQueueHolds`, all for `~Overlap`; `LatchFree` for `ClearOnReuse` | `ApartInv`: at most one producer is between its stores; `PendingInv`: the cell it owns is outside what the mixer can read; `OrderInv`: positions and buffer numbers run in step, so what can be read is a run of consecutive numbers (`ReadableIsRun`), which the store of `ring_head` lengthens by one and the mixer shortens by one. The latch of the end of a sound needs none of this: `LatchInv` says that a player of which the guest was told is stopped or about to be, however the calls overlap. |
| `BootProofs` | `TypeOK`, `CompleteMeansReady`, `GateHolds`, `GuestCodeGuarded`, `SuccessMeansVerified`, `AudioIsReal` | First of `Framework` alone: `PendingInv` says that as long as the set is complete and READY is not validated, some publication is still on its way to the gate or has been refused - the reason why no interleaving misses READY. The frame lemmas (`MainFrame`, `GraphicsFrame`, `SoundFrame`) then make every step of `Boot` a step of `Framework` or a stutter (`FwOfBoot`), which carries the refinement over. `LoadInv` is what `main()` relies on at each of its points, `GfxInv` the course of the one report, `AudioInv` what an open device, an engine and an accepted receipt know of each other. |
| `ActivityProofs`, of `GuestInput` | `TypeOK`, `ViewConverges`, `ShutdownSequence`, `Watched` | `ViewInv`, for any number of pads that share their codes with each other and the keyboard: of a code that is not `lost`, what the game will believe when it has read the ring is down only if a device holds it or has its release still waiting with nxinput (`KeyInv`), and is down if a device holds it and has nothing waiting, but for what is `crossed`; the axis is where it was last pushed (`AxisInv`). It needs `EdgesInv` (what waits of a button ends with what is true of it), `PlaceInv` (between two polls nothing waits) and lemmas on what a push does to the last word of a ring. `StreamInv`: what was told and what is in the pipe are together the life of an activity, as far as it is due, with LOW_MEMORY anywhere in it; `SavedInv` is what follows for the save. `WatchInv`: the alarm is never set for less than the grace has left. `Watched`: a process that was asked to leave and lives has an alarm pending, and never one that cuts the grace short. |
| `ActivityProofs`, of `LanguageMenu` | `MenuTypeOK`, `IndexIsLabel`, `SpokenAsShown` | `MenuInv`: a menu of two entries is the game's own, one with all choices has them in the order of the policy, and the locale is that of the index. |

The player's theorems about the ring are false with `Overlap`, as
`player_overlap` shows, and `LatchFree` is false without `ClearOnReuse`, as
`player_reuse` shows.

Only model-checked are the five liveness properties, because fairness and
ENABLED are out of the prover's reach. What each of them rests on, apart from
steps that are taken in the end, is proved:

| Liveness (TLC) | Rests on (TLAPS) |
|---|---|
| `LookupTerminates` | `WalkDescends`: a walk has a variant no other thread can raise |
| `CloseTerminates` | `SleeperHasUser`, `ClosingDrains`: a sleeping close has somebody who will wake it, and what it waits for never grows |
| `CallReturns` | `NoLostWakeup`: a sleeper has another thread inside the initialiser, which will wake it |
| `SoundEnds` | `LatchFree`: the pump can end what plays |
| `ProcessEnds` | `Watched`: as long as the process lives there is an alarm that ends it |

## 5. What is left out

* Data: names, attributes of pthread objects, semaphore values, sample
  conversion and mixing, volumes, EGL attributes, query calls.
* `pthread_create`, `join`, `detach` and the scheduling calls forward to the
  host. A thread that ends while an EGL context is bound to it is not modelled.
* The opt-in switches `COI_FADEOUT_STOP` and `COI_AUDIO_CBGUARD` (off by default).
* The guest's `FILE` image in a wrapper; the standard streams, never closed.
* The pool of OpenSL slots and the start of the pump thread.
* In `Boot`: the generations of the receipts, the contents of providers, ELF
  reports and mapping reports, the crash handlers, the update pump in
  `AgThread::sleep`, the ladder of `createStream`. The graphics latch of
  `egl_shim.c` is in `EglBinding`; `Boot` allows a report at any time.
* In `GuestInput`: the zoom, the second axis and the triggers, the codes of the
  arrow keys (pushed, but ignored by this build of the game), getters that answer
  constants.
* In `EglBinding`: `egl_shim_ensure_current` (301-327), which binds again for SDL
  what its own thread is bound to and changes nothing of the shim's state.
* In `GuestRegistry`: a guest that copies a pthread object, or goes on using the
  handle of a destroyed one, which POSIX leaves undefined.
* Steps that are coarser than the code: `Enqueued` makes the stores that end
  `bq_Enqueue` (`opensles_shim.c:174`, 943-944) together, and the two loads of
  `ring_readable` are one step; `ReportGraphics` is the load of the runtime
  (`main.c:601`), the check that it is delegated and the store of the report
  (`lifecycle.c:86-91`).
* The other parts `PROJECT.json` lists as not modelled: pure conversions of
  layouts (`bionic_compat.c`, `softfp_bridge.c`), tables (`imports.c`,
  `platform_shims.c`, `jni_shim.c`), file I/O (`asset_shim.c`,
  `cpuinfo_compat.c`), shader and vertex edits. They hold no state that two
  parties share; where a bad input matters there is a unit test.
* Weak memory: loads and stores of different threads interleave in one order.
  The bridge's atomics use acquire and release, which suffices for the
  publications modelled; the plain fields of a player have no such order, so
  what is shown for it holds for the interleavings alone.

## 6. Plan

Done, most important first: registry, mutexes, once, streams, player, EGL - the
places where guest threads meet - then the start of the program with its
receipts, the sound output, the language menu and the input. Next:

1. **Pool** of OpenSL slots: recycling of slots the guest still holds.
2. **Composition** of `Boot` with `EglBinding`, where the graphics report is made
   inside `eglMakeCurrent` under its mutex.
3. **Refinement** of what the game is told of its activity.
4. **JNI strings**: a ring of 32 handles, once it is known which the game keeps.
