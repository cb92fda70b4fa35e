-------------------------------- MODULE Boot --------------------------------
(***************************************************************************)
(* main.c: the start of the program and the run of the game, composed of   *)
(* the framework contracts, the loader, the life cycle and the audio       *)
(* output.  main() is one thread; while android_main() runs, a thread of   *)
(* the game reports the graphics (inside eglMakeCurrent, under the lock of *)
(* the EGL shim) and a thread initialises the sound.  The three interleave *)
(* freely until the process exits.                                         *)
(***************************************************************************)
EXTENDS Framework, ModuleLoader, AudioOutput, Lifecycle

CONSTANT Reports  \* the graphics reports of nxgl that are explored

VARIABLES
  at,         \* the program point of main()
  exit,       \* how the process ended
  pump,       \* TS_NO_FMOD_PUMP is not set
  bound,      \* the exports of both modules that main() binds are bound
  running,    \* g_active_runtime and its lifecycle_runtime are set
  attempted,  \* runtime_state.graphics_attempted
  gPublished, \* runtime_state.graphics_published
  gfx         \* how far ts_runtime_graphics_ready has come

mainVars == <<at, exit, pump, bound, running, attempted, gPublished, gfx>>
vars == <<fwVars, ldVars, auVars, lcVars, mainVars>>

Points == {"preflight", "menu", "sdl", "window", "create", "prepare", "bind",
           "views", "pump", "hooks", "finalize", "initializers", "lifecycle",
           "receipt", "guest", "returned", "verdict", "leave",
           "fail", "destroy", "die", "exited"}

MainTypeOK ==
  /\ at \in Points
  /\ exit \in {"none", "ok", "failed", "shim"}
  /\ pump \in BOOLEAN /\ bound \in BOOLEAN /\ running \in BOOLEAN
  /\ attempted \in BOOLEAN /\ gPublished \in BOOLEAN
  /\ gfx \in {"idle", "publish", "report", "verify", "done"}

TypeOK ==
  FwTypeOK /\ LdTypeOK /\ AuTypeOK /\ LcTypeOK /\ MainTypeOK

Init ==
  /\ FwInit /\ LdInit /\ AuInit /\ LcInit
  /\ at = "preflight" /\ exit = "none"
  /\ pump \in BOOLEAN
  /\ bound = FALSE /\ running = FALSE
  /\ attempted = FALSE /\ gPublished = FALSE /\ gfx = "idle"

Alive == exit = "none"

\* main() moves on; the graphics thread and the other flags stay.
Goto(p, q) ==
  /\ Alive /\ at = p /\ at' = q
  /\ UNCHANGED <<exit, pump, running, attempted, gPublished, gfx>>

\* return 1 before anything has to be undone.
Quit(p) ==
  /\ Alive /\ at = p
  /\ at' = "exited" /\ exit' = "failed"
  /\ UNCHANGED <<pump, bound, running, attempted, gPublished, gfx>>

Fail(p) == Goto(p, "fail") /\ UNCHANGED bound
Pass(p, q) == Goto(p, q) /\ UNCHANGED bound

-----------------------------------------------------------------------------
\* main() up to the window

\* The game directory, then ts_framework_preflight.
Preflight ==
  /\ \/ Quit("preflight") /\ (ContractRefused \/ PreflightFails)
     \/ (Quit("preflight") \/ Pass("preflight", "menu")) /\ PreflightEvaluated
  /\ UNCHANGED <<ldVars, auVars, lcVars>>

\* ts_language_menu_prepare: see LanguageMenu.
LanguagePreflight ==
  /\ Quit("menu") \/ Pass("menu", "sdl")
  /\ UNCHANGED <<fwVars, ldVars, auVars, lcVars>>

OpenWindow ==
  /\ \/ Quit("sdl") \/ Pass("sdl", "window")
     \/ Fail("window") \/ Pass("window", "create")
  /\ UNCHANGED <<fwVars, ldVars, auVars, lcVars>>

-----------------------------------------------------------------------------
\* main() and the loader

Load ==
  /\ \/ Pass("create", "prepare") /\ CreateLoader
     \/ Fail("create") /\ UNCHANGED ldVars
     \/ Pass("prepare", "bind") /\ PrepareModules
     \/ Fail("prepare") /\ \E m \in Modules, s \in DOMAIN PrepareSteps :
                             PrepareFails(m, s)
  /\ UNCHANGED <<fwVars, auVars, lcVars>>

\* bind_fmod_sync, android_main, the symbols of the zoom (which may be
\* absent), no JNI_OnLoad, the mapping of the game; then the views.
Bind ==
  /\ \/ Goto("bind", "views") /\ bound' = TRUE /\ UNCHANGED ldVars
     \/ Fail("bind") /\ UNCHANGED ldVars
     \/ Pass("views", "pump") /\ BindViews
     \/ Fail("views") /\ UNCHANGED ldVars
  /\ UNCHANGED <<fwVars, auVars, lcVars>>

\* Mutant: a hook that is refused is passed over.
PatchIfPossible(h, p, q) ==
  \/ Pass(p, q) /\ InstallHook(h)
  \/ Pass(p, q) /\ UNCHANGED ldVars

\* install_fmod_update_pump, then ts_language_menu_install: exports and entry
\* signatures are compared before the first hook, the hooks go in one by one.
Patch(h, p, q) ==
  \/ Pass(p, q) /\ InstallHook(h)
  \/ Fail(p) /\ (InstallHookFails \/ UNCHANGED ldVars)

InstallPump ==
  /\ \/ pump /\ Patch("sleep", "pump", "hooks")
     \/ ~pump /\ Pass("pump", "hooks") /\ UNCHANGED ldVars
  /\ UNCHANGED <<fwVars, auVars, lcVars>>

InstallMenuHooks ==
  /\ IF "added" \notin hooks THEN Patch("added", "hooks", "hooks")
     ELSE IF "apply" \notin hooks THEN Patch("apply", "hooks", "hooks")
     ELSE Patch("locale", "hooks", "finalize")
  /\ UNCHANGED <<fwVars, auVars, lcVars>>

Seal ==
  /\ \/ Pass("finalize", "initializers") /\ FinalizeModules
     \/ Fail("finalize") /\ \E m \in Modules : FinalizeFails(m)
     \/ Pass("initializers", "initializers") /\ InitializeModule(Fmod)
     \/ Pass("initializers", "lifecycle") /\ InitializeModule(Game)
     \/ Fail("initializers") /\ \E m \in Modules : InitializeFails(m)
  /\ UNCHANGED <<fwVars, auVars, lcVars>>

-----------------------------------------------------------------------------
\* main() inside ts_lifecycle_run

BeginLifecycle ==
  /\ \/ Pass("lifecycle", "lifecycle") /\ LcBegin
     \/ lcStep = 0 /\ Fail("lifecycle") /\ LcRefused
  /\ UNCHANGED <<fwVars, ldVars, auVars>>

\* lifecycle_verify_module
VerifyModule(step, m) ==
  /\ \/ /\ slot[m] = "initialized"
        /\ Pass("lifecycle", "lifecycle") /\ StepDone(step)
     \/ Fail("lifecycle") /\ StepFails(step)
  /\ UNCHANGED <<fwVars, ldVars, auVars>>

\* lifecycle_create_activity: nxinput, its receipt, the pipes and the looper.
CreateActivity ==
  /\ Due("activity")
  /\ \/ Pass("lifecycle", "receipt") /\ PublishInput /\ UNCHANGED lcVars
     \/ Fail("lifecycle") /\ StepFails("activity") /\ UNCHANGED fwVars
  /\ UNCHANGED <<ldVars, auVars>>

InputReceipt ==
  /\ Pass("receipt", "receipt")
  /\ GateStep("input")
  /\ UNCHANGED <<ldVars, auVars, lcVars>>

ActivityCreated ==
  /\ Idle("input")
  /\ \/ /\ answer["input"] = "ok"
        /\ Pass("receipt", "lifecycle") /\ StepDone("activity")
     \/ Fail("receipt") /\ StepFails("activity")
  /\ UNCHANGED <<fwVars, ldVars, auVars>>

\* lifecycle_run_android_main: the runtime becomes visible, then android_main
\* runs until the game returns from it.
EnterGuest ==
  /\ Alive /\ at = "lifecycle" /\ at' = "guest"
  /\ RuntimeEnter
  /\ running' = TRUE
  /\ UNCHANGED <<exit, pump, bound, attempted, gPublished, gfx>>
  /\ UNCHANGED <<fwVars, ldVars, auVars>>

GuestReturns ==
  /\ Alive /\ at = "guest" /\ at' = "returned"
  /\ running' = FALSE
  /\ UNCHANGED <<exit, pump, bound, attempted, gPublished, gfx>>
  /\ UNCHANGED <<fwVars, ldVars, auVars, lcVars>>

LeaveLifecycle ==
  /\ \/ Pass("returned", "verdict") /\ RuntimeLeave
     \/ /\ Pass("verdict", IF reported /\ verified THEN "leave" ELSE "fail")
        /\ RuntimeVerdict
  /\ UNCHANGED <<fwVars, ldVars, auVars>>

\* _exit(0): only after a run the life cycle has accepted.
ExitOk ==
  /\ Alive /\ at = "leave"
  /\ at' = "exited" /\ exit' = "ok"
  /\ UNCHANGED <<pump, bound, running, attempted, gPublished, gfx>>
  /\ UNCHANGED <<fwVars, ldVars, auVars, lcVars>>

\* The label fail: no runtime, no views, no loader, _exit(1).  The threads of
\* the game are not stopped.
TearDown ==
  /\ \/ /\ Alive /\ at = "fail" /\ at' = "destroy"
        /\ running' = FALSE
        /\ UNCHANGED <<exit, pump, bound, attempted, gPublished, gfx>>
        /\ UnbindViews
     \/ /\ stage # "none"
        /\ Goto("destroy", "die") /\ bound' = FALSE
        /\ DestroyLoader
     \/ stage = "none" /\ Pass("destroy", "die") /\ UNCHANGED ldVars
     \/ Quit("die") /\ UNCHANGED ldVars
  /\ UNCHANGED <<fwVars, auVars, lcVars>>

\* android_shim.c ends the process from inside the game's event loop.
ShimExits ==
  /\ Alive /\ at = "guest"
  /\ at' = "exited" /\ exit' = "shim"
  /\ UNCHANGED <<pump, bound, running, attempted, gPublished, gfx>>
  /\ UNCHANGED <<fwVars, ldVars, auVars, lcVars>>

Main ==
  \/ Preflight \/ LanguagePreflight \/ OpenWindow
  \/ Load \/ Bind \/ InstallPump \/ InstallMenuHooks \/ Seal
  \/ BeginLifecycle \/ VerifyModule("fmod", Fmod) \/ VerifyModule("game", Game)
  \/ CreateActivity \/ InputReceipt \/ ActivityCreated
  \/ EnterGuest \/ LeaveLifecycle \/ ExitOk \/ TearDown

-----------------------------------------------------------------------------
\* The graphics thread: ts_runtime_graphics_ready

GfxTo(p, q) ==
  /\ Alive /\ gfx = p /\ gfx' = q
  /\ UNCHANGED <<at, exit, pump, bound, running>>

\* One attempt: the receipt is published ...
GfxAttempt ==
  /\ running /\ ~attempted
  /\ GfxTo("idle", "publish")
  /\ attempted' = TRUE
  /\ \E report \in Reports : PublishGraphics(report)
  /\ UNCHANGED gPublished
  /\ UNCHANGED <<ldVars, auVars, lcVars>>

GfxGate ==
  /\ Alive
  /\ GateStep("graphics")
  /\ UNCHANGED <<ldVars, auVars, lcVars, mainVars>>

\* Mutant: the answer of the framework is not looked at.
GfxPublishedAnyway ==
  /\ Idle("graphics")
  /\ GfxTo("publish", "report")
  /\ gPublished' = TRUE
  /\ UNCHANGED attempted
  /\ UNCHANGED <<fwVars, ldVars, auVars, lcVars>>

\* ... then, when it was accepted, the life cycle is told.
GfxPublished ==
  /\ Idle("graphics")
  /\ \/ /\ answer["graphics"] = "ok"
        /\ GfxTo("publish", "report")
        /\ gPublished' = TRUE
     \/ /\ answer["graphics"] = "refused"
        /\ GfxTo("publish", "done")
        /\ UNCHANGED gPublished
  /\ UNCHANGED attempted
  /\ UNCHANGED <<fwVars, ldVars, auVars, lcVars>>

GfxReport ==
  /\ \/ GfxTo("report", "verify") /\ ReportGraphics(running)
     \/ /\ ReportOutside(running)
        /\ GfxTo("report", "done") /\ UNCHANGED lcVars
     \/ GfxTo("verify", "done") /\ ReportVerified(gPublished)
  /\ UNCHANGED <<attempted, gPublished>>
  /\ UNCHANGED <<fwVars, ldVars, auVars>>

Graphics == GfxAttempt \/ GfxGate \/ GfxPublished \/ GfxReport

-----------------------------------------------------------------------------
\* The thread that initialises the sound, through the bindings of main()

\* What the game starts, it starts while android_main runs.
SoundCall ==
  /\ Alive /\ at = "guest" /\ bound
  /\ \/ SystemCreate \/ GameSelectsNoSound \/ InitCall \/ SystemRelease
  /\ UNCHANGED <<fwVars, ldVars, lcVars, mainVars>>

SoundInit ==
  /\ Alive
  /\ \/ InitDefault \/ InitOpenSL \/ Recover \/ GiveUp
     \/ AlreadyTried \/ DeviceFails \/ NoDevice
  /\ UNCHANGED <<fwVars, ldVars, lcVars, mainVars>>

\* A device has opened: publish it before it is used.
SoundDevice ==
  /\ Alive
  /\ DeviceOpens \/ RetryOpens
  /\ PublishAudio
  /\ UNCHANGED <<ldVars, lcVars, mainVars>>

SoundGate ==
  /\ Alive
  /\ GateStep("audio")
  /\ UNCHANGED <<ldVars, auVars, lcVars, mainVars>>

SoundPublished ==
  /\ Alive
  /\ Idle("audio")
  /\ Published(answer["audio"] = "ok")
  /\ UNCHANGED <<fwVars, ldVars, lcVars, mainVars>>

Sound ==
  SoundCall \/ SoundInit \/ SoundDevice \/ SoundGate \/ SoundPublished

Next == Main \/ GuestReturns \/ ShimExits \/ Graphics \/ Sound

Spec == Init /\ [][Next]_vars
-----------------------------------------------------------------------------
\* Properties

\* Code of the game has run, or runs.
GuestCode == at = "guest" \/ \E m \in Modules : slot[m] = "initialized"

\* Code of the game runs, in its initialisers or in android_main, only in a
\* process that is complete: both modules sealed, the initialisers of FMOD
\* before those of the game, every hook of the build in place, the imports of
\* main() bound and the tables of the unwinder published.  A start that lost
\* any of them on the way has left by the label fail, and there the tables go
\* before the modules they point into.
GuestCodeGuarded ==
  /\ GuestCode /\ at \notin {"fail", "destroy", "die", "exited"} =>
       /\ {"added", "apply", "locale"} \subseteq hooks
       /\ pump => "sleep" \in hooks
       /\ bound
       /\ \A m \in Modules :
            TableFound(m) /\ slot[m] \in {"finalized", "initialized"}
  /\ slot[Game] = "initialized" => slot[Fmod] = "initialized"
  /\ at = "guest" => slot[Game] = "initialized" /\ "input" \in published
  /\ views => \A m \in Modules : slot[m] # "absent"

\* main() reports success only when a thread of the game has shown a real
\* context: its receipt was accepted by the framework, and the life cycle
\* took that report, once, while android_main was running.
SuccessMeansVerified ==
  exit = "ok" =>
    /\ reported /\ verified /\ gPublished
    /\ {"graphics", "input"} \subseteq published
    /\ answer["graphics"] = "ok"

\* Sound is never pretended: when an init of the audited FMOD has answered
\* success, its output is not the silent one, and if it is OpenSL then a
\* device is open and its receipt was accepted.  This spans the choice of the
\* output, the one recovery, the latch of a failed attempt and the device.
AudioIsReal ==
  sound = "ok" /\ host.audited /\ host.readable /\ ~host.disabled =>
    /\ output # "nosound"
    /\ output = "opensl" =>
         device /\ engine /\ "audio" \in published /\ answer["audio"] = "ok"
=============================================================================
