----------------------------- MODULE AudioOutput -----------------------------
(***************************************************************************)
(* How the game gets sound: main.c interposes System::init of FMOD and     *)
(* moves FMOD to its OpenSL output when the default one is missing         *)
(* (audio_recovery_policy.c), and opensles_shim.c opens one SDL device for *)
(* the OpenSL engine that FMOD then creates, publishing its receipt.       *)
(*                                                                         *)
(* External: FMOD (which output it has, how an init on the default output  *)
(* ends, that it creates engine and player during an init on OpenSL and    *)
(* destroys the engine when the init fails or the system is released) and  *)
(* SDL (whether a device opens).                                           *)
(***************************************************************************)
EXTENDS Naturals

CONSTANT MaxInits  \* bound: calls of System::init that are explored

ASSUME MaxInitsAssumption == MaxInits \in Nat

VARIABLES
  host,      \* what is fixed for the run: see Hosts
  system,    \* g_fmod_system: the game has an FMOD system
  output,    \* the output FMOD has selected for it
  retries,   \* g_fmod_opensl_retry_count
  init,      \* how far ts_fmod_init has come
  result,    \* the last result of a real System::init or of setOutput
  sound,     \* what the game was last told: "none", "ok" or "failed"
  engine,    \* an OpenSL engine exists
  device,    \* g_audio_dev is open
  latched,   \* g_audio_initialized
  opening,   \* how far ensure_audio_initialized has come
  calls      \* history: calls of System::init by the game on this system

auVars == <<host, system, output, retries, init, result, sound, engine,
            device, latched, opening, calls>>

\* disabled: TS_NOAUDIO; audited: the version of FMOD is the one that was
\* studied and could be read; readable: getOutput answers; spare: SDL has
\* ALSA, it was not the driver that failed and no driver was pinned.
Hosts == [disabled : BOOLEAN, audited : BOOLEAN, readable : BOOLEAN,
          spare : BOOLEAN]

Outputs   == {"auto", "nosound", "opensl"}
InitSteps == {"idle", "first", "recover", "second"}
OpenSteps == {"idle", "open", "retry", "publish"}
Results   == {"none", "ok", "output", "other"}

AuTypeOK ==
  /\ host \in Hosts
  /\ system \in BOOLEAN /\ engine \in BOOLEAN
  /\ device \in BOOLEAN /\ latched \in BOOLEAN
  /\ output \in Outputs
  /\ retries \in 0..MaxInits
  /\ init \in InitSteps /\ opening \in OpenSteps
  /\ result \in Results
  /\ sound \in {"none", "ok", "failed"}
  /\ calls \in 0..MaxInits

AuInit ==
  /\ host \in Hosts
  /\ system = FALSE /\ output = "auto" /\ retries = 0
  /\ init = "idle" /\ result = "none" /\ sound = "none"
  /\ engine = FALSE /\ device = FALSE /\ latched = FALSE
  /\ opening = "idle"
  /\ calls = 0

-----------------------------------------------------------------------------
\* audio_recovery_policy.c

SelectPreinit ==
  ~host.disabled /\ host.audited /\ host.readable /\ output = "nosound"

OutputFailure == result = "output"

\* Whether the failed first init is repeated on OpenSL.
RetryOpenSL ==
  /\ ~host.disabled /\ host.audited
  /\ ~(host.readable /\ output = "opensl")
  /\ retries = 0
  /\ OutputFailure

-----------------------------------------------------------------------------
\* The game and FMOD

\* ts_FMOD_System_Create
SystemCreate ==
  /\ ~system
  /\ system' = TRUE /\ output' = "auto" /\ retries' = 0
  /\ sound' = "none"
  /\ calls' = 0
  /\ UNCHANGED <<host, init, result, engine, device, latched, opening>>

\* External: without a driver the game selects the output without sound.
GameSelectsNoSound ==
  /\ system /\ init = "idle" /\ sound # "ok"
  /\ output # "nosound"
  /\ output' = "nosound"
  /\ UNCHANGED <<host, system, retries, init, result, sound, engine, device,
                 latched, opening, calls>>

\* ts_fmod_init up to its first real init: OpenSL replaces an output without
\* sound; when setOutput fails, its result is the answer.
InitCall ==
  /\ system /\ init = "idle" /\ sound # "ok"
  /\ calls < MaxInits
  /\ calls' = calls + 1
  /\ \/ /\ ~SelectPreinit
        /\ init' = "first"
        /\ UNCHANGED <<output, sound>>
     \/ /\ SelectPreinit
        /\ init' = "first" /\ output' = "opensl"
        /\ UNCHANGED sound
     \/ /\ SelectPreinit
        /\ sound' = "failed"
        /\ UNCHANGED <<init, output>>
  /\ UNCHANGED <<host, system, retries, result, engine, device, latched,
                 opening>>

\* What ts_fmod_init does with the result r of a real init at step s.
Answer(s, r) ==
  /\ result' = r
  /\ \/ r = "ok" /\ sound' = "ok" /\ init' = "idle"
     \/ /\ s = "first" /\ r # "ok"
        /\ init' = "recover"
        /\ UNCHANGED sound
     \/ s = "second" /\ r # "ok" /\ sound' = "failed" /\ init' = "idle"

\* A real init on an output of FMOD itself; the one without sound succeeds.
InitDefault ==
  /\ init = "first" /\ output # "opensl"
  /\ \E r \in Results \ {"none"} :
       /\ output = "nosound" => r = "ok"
       /\ Answer(init, r)
  /\ UNCHANGED <<host, system, output, retries, engine, device, latched,
                 opening, calls>>

\* A real init on OpenSL creates the engine and asks it for a player.
InitOpenSL ==
  /\ init \in {"first", "second"} /\ output = "opensl"
  /\ opening = "idle"
  /\ ~engine
  /\ engine' = TRUE
  /\ opening' = "open"
  /\ UNCHANGED <<host, system, output, retries, init, result, sound, device,
                 latched, calls>>

\* engine_obj_Destroy: only an open device is closed and forgotten.
CloseDevice ==
  /\ engine' = FALSE
  /\ device' = FALSE
  /\ latched' = IF device THEN FALSE ELSE latched

\* The end of ensure_audio_initialized, and of the real init that waits for
\* it: without a device CreateAudioPlayer answers RESOURCE_ERROR, FMOD
\* destroys the engine and reports a failure of its output.
Opened(dev, latch) ==
  /\ opening' = "idle"
  /\ IF dev
     THEN /\ Answer(init, "ok")
          /\ device' = TRUE /\ latched' = latch
          /\ UNCHANGED engine
     ELSE /\ Answer(init, "output")
          /\ engine' = FALSE /\ device' = FALSE /\ latched' = latch

\* ts_fmod_init after a first init that failed.
Recover ==
  /\ init = "recover" /\ RetryOpenSL
  /\ retries' = retries + 1
  /\ \/ init' = "second" /\ output' = "opensl" /\ UNCHANGED sound
     \/ init' = "idle" /\ sound' = "failed" /\ UNCHANGED output
  /\ UNCHANGED <<host, system, result, engine, device, latched, opening,
                 calls>>

GiveUp ==
  /\ init = "recover" /\ ~RetryOpenSL
  /\ init' = "idle" /\ sound' = "failed"
  /\ UNCHANGED <<host, system, output, retries, result, engine, device,
                 latched, opening, calls>>

\* External: the game releases the system, FMOD its engine.
SystemRelease ==
  /\ system /\ init = "idle"
  /\ system' = FALSE
  /\ sound' = "none"
  /\ CloseDevice
  /\ UNCHANGED <<host, output, retries, init, result, opening, calls>>

-----------------------------------------------------------------------------
\* ensure_audio_initialized, called by engine_CreateAudioPlayer

\* A finished attempt is not repeated.
AlreadyTried ==
  /\ opening = "open" /\ latched
  /\ Opened(device, TRUE)
  /\ UNCHANGED <<host, system, output, retries, calls>>

OpenStep(dev, next) ==
  /\ device' = dev
  /\ opening' = next
  /\ UNCHANGED <<host, system, output, retries, init, result, sound, engine,
                 latched, calls>>

DeviceOpens == opening = "open" /\ ~latched /\ OpenStep(TRUE, "publish")

DeviceFails == opening = "open" /\ ~latched /\ OpenStep(FALSE, "retry")

\* One more attempt, on ALSA, when the policy of nxaudio allows it.
RetryOpens == opening = "retry" /\ host.spare /\ OpenStep(TRUE, "publish")

NoDevice ==
  /\ opening = "retry"
  /\ Opened(FALSE, TRUE)
  /\ UNCHANGED <<host, system, output, retries, calls>>

\* Mutant: the device is used whatever the framework answered.
PublishedAnyway(accepted) ==
  /\ opening = "publish"
  /\ Opened(TRUE, TRUE)
  /\ UNCHANGED <<host, system, output, retries, calls>>

\* The answer of ts_framework_publish_audio is in: keep or close the device.
Published(accepted) ==
  /\ opening = "publish"
  /\ Opened(accepted, TRUE)
  /\ UNCHANGED <<host, system, output, retries, calls>>
=============================================================================
