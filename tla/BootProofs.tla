----------------------------- MODULE BootProofs -----------------------------
(***************************************************************************)
(* Theorems about Boot and the components it composes.  Each invariant is  *)
(* the property itself with what the points of its thread know; the groups *)
(* of actions that leave its variables alone are dealt with once, in the   *)
(* lemmas of the first section.                                            *)
(***************************************************************************)
EXTENDS Boot, TLAPS

-----------------------------------------------------------------------------
(* The capability gate, for any interleaving of publications.              *)

PendingInv ==
  /\ ready => published = Receipts
  /\ \A k \in Receipts :
       /\ answer[k] = "ok" => gate[k] = "idle" /\ k \in published
       /\ gate[k] # "idle" => k \in published
       /\ gate[k] \in {"latch", "evaluate"} => published = Receipts
  /\ published = Receipts /\ ~ready =>
       \E k \in Receipts : gate[k] # "idle" \/ answer[k] = "refused"

FwInv == FwTypeOK /\ PendingInv

\* Nothing is published at the start.
LEMMA FwInitially == FwInit => FwInv
  BY DEF FwInit, FwInv, FwTypeOK, PendingInv, Receipts, GateSteps, Answers

\* Every step of a publication keeps the invariant.
LEMMA FwStep == FwInv /\ [FwNext]_fwVars => FwInv'
<1> SUFFICES ASSUME FwInv, [FwNext]_fwVars PROVE FwInv'
  OBVIOUS
<1> USE DEF FwInv, FwTypeOK, PendingInv, GateSteps, Answers
<1>1. CASE ContractRefused \/ PreflightFails \/ PreflightEvaluated
  <2>1. UNCHANGED <<published, ready, gate, answer>>
    BY <1>1 DEF ContractRefused, PreflightFails, PreflightEvaluated, fwVars
  <2>2. fwUp' \in BOOLEAN /\ contract' \in BOOLEAN
    BY <1>1 DEF ContractRefused, PreflightFails, PreflightEvaluated, fwVars
  <2> QED BY <2>1, <2>2
<1>2. ASSUME NEW k \in Receipts, Mark(k) PROVE FwInv'
  BY <1>2 DEF Mark, Idle
<1>3. ASSUME NEW k \in Receipts, Refuse(k) PROVE FwInv'
  BY <1>3 DEF Refuse, Idle
<1>4. ASSUME NEW k \in Receipts, GateStep(k) PROVE FwInv'
  <2>1. CASE GatePending(k)
    BY <1>4, <2>1 DEF GatePending, Return
  <2>2. CASE GateComplete(k)
    BY <1>4, <2>2 DEF GateComplete
  <2>3. CASE GateLate(k)
    BY <1>4, <2>3 DEF GateLate, Return
  <2>4. CASE GateEvaluate(k)
    BY <1>4, <2>4 DEF GateEvaluate
  <2>5. CASE GateAccept(k)
    BY <1>4, <2>5 DEF GateAccept, Return
  <2>6. CASE GateReject(k)
    BY <1>4, <2>6 DEF GateReject, Return
  <2> QED BY <1>4, <2>1, <2>2, <2>3, <2>4, <2>5, <2>6 DEF GateStep
<1>5. CASE UNCHANGED fwVars
  BY <1>5 DEF fwVars
<1> QED BY <1>1, <1>2, <1>3, <1>4, <1>5 DEF FwNext

\* The last answer of the trio finds the gate open.
LEMMA PendingDecides == FwInv => CompleteMeansReady
<1> SUFFICES ASSUME FwInv, \A k \in Receipts : answer[k] = "ok" PROVE ready
  BY DEF CompleteMeansReady
<1>1. published = Receipts
  BY DEF FwInv, FwTypeOK, PendingInv
<1>2. ~ \E k \in Receipts : gate[k] # "idle" \/ answer[k] = "refused"
  BY DEF FwInv, PendingInv
<1> QED BY <1>1, <1>2 DEF FwInv, FwTypeOK, PendingInv

\* A step of a publication collects a receipt, opens the gate or stutters.
LEMMA GateRefines ==
  FwInv /\ [FwNext]_fwVars => [Gate!Next]_<<published, ready>>
<1> SUFFICES ASSUME FwInv, [FwNext]_fwVars
             PROVE [Gate!Next]_<<published, ready>>
  OBVIOUS
<1>1. CASE ContractRefused \/ PreflightFails \/ PreflightEvaluated
  BY <1>1 DEF ContractRefused, PreflightFails, PreflightEvaluated, fwVars
<1>2. ASSUME NEW k \in Receipts, Mark(k) PROVE Gate!Next
  BY <1>2 DEF Mark, Gate!Next, Gate!Receive
<1>3. ASSUME NEW k \in Receipts, Refuse(k)
      PROVE UNCHANGED <<published, ready>>
  BY <1>3 DEF Refuse
<1>4. ASSUME NEW k \in Receipts, GateStep(k)
      PROVE [Gate!Next]_<<published, ready>>
  BY <1>4 DEF GateStep, GatePending, GateComplete, GateLate, GateEvaluate,
     GateAccept, GateReject, FwInv, PendingInv, Gate!Next, Gate!Open
<1>5. CASE UNCHANGED fwVars
  BY <1>5 DEF fwVars
<1> QED BY <1>1, <1>2, <1>3, <1>4, <1>5 DEF FwNext

\* framework_bridge: when the last publication of every kind has answered
\* success, READY was validated.
THEOREM ReadyNotMissed == FwSpec => []CompleteMeansReady
<1>1. FwSpec => []FwInv
  BY FwInitially, FwStep, PTL DEF FwSpec
<1> QED BY <1>1, PendingDecides, PTL

\* framework_bridge implements ReadyGate: the gate opens on the complete set
\* of receipts only, and stays open.
THEOREM ImplementsGate == FwSpec => GateHolds
<1>1. FwInit => Gate!Init
  BY DEF FwInit, Gate!Init
<1>2. FwSpec => []FwInv
  BY FwInitially, FwStep, PTL DEF FwSpec
<1> QED BY <1>1, <1>2, GateRefines, PTL DEF FwSpec, GateHolds, Gate!Spec

-----------------------------------------------------------------------------
(* Frames: what the steps of one thread leave to the others.               *)

FrameOf(kinds) ==
  /\ published \subseteq published'
  /\ \A k \in kinds : gate'[k] = gate[k] /\ answer'[k] = answer[k]

\* A publication of kind k touches what is of kind k.
LEMMA PublicationFrame ==
  ASSUME FwTypeOK, NEW k \in Receipts, Mark(k) \/ Refuse(k) \/ GateStep(k)
  PROVE  FrameOf(Receipts \ {k})
<1> USE DEF FrameOf, FwTypeOK
<1>1. CASE Mark(k)
  BY <1>1 DEF Mark
<1>2. CASE Refuse(k)
  BY <1>2 DEF Refuse
<1>3. CASE GateStep(k)
  <2>1. UNCHANGED published
    BY <1>3 DEF GateStep, GatePending, GateComplete, GateLate, GateEvaluate,
       GateAccept, GateReject
  <2>2. ASSUME NEW j \in Receipts \ {k}
        PROVE gate'[j] = gate[j] /\ answer'[j] = answer[j]
    BY <1>3 DEF GateStep, GatePending, GateComplete, GateLate, GateEvaluate,
       GateAccept, GateReject, Return
  <2> QED BY <2>1, <2>2
<1> QED BY <1>1, <1>2, <1>3

MainStep == Main \/ GuestReturns \/ ShimExits

\* main(), with the return of the game and the exit of the shim.
LEMMA MainFrame ==
  ASSUME FwTypeOK, MainStep
  PROVE  /\ UNCHANGED <<auVars, pump, attempted, gPublished, gfx>>
         /\ FrameOf({"graphics", "audio"})
<1> USE DEF Goto, Pass, Fail, Quit
<1>1. CASE Preflight
  <2>1. UNCHANGED <<published, gate, answer>>
    BY <1>1 DEF Preflight, ContractRefused, PreflightFails,
       PreflightEvaluated, fwVars
  <2> QED BY <1>1, <2>1 DEF Preflight, FrameOf
<1>2. CASE CreateActivity
  <2>1. UNCHANGED <<auVars, pump, attempted, gPublished, gfx>>
    BY <1>2 DEF CreateActivity
  <2>2. CASE UNCHANGED fwVars
    BY <2>1, <2>2 DEF fwVars, FrameOf
  <2>3. CASE PublishInput
    BY <2>1, <2>3, PublicationFrame DEF PublishInput, FrameOf, Receipts
  <2> QED BY <1>2, <2>2, <2>3 DEF CreateActivity
<1>3. CASE InputReceipt
  <2>1. UNCHANGED <<auVars, pump, attempted, gPublished, gfx>>
    BY <1>3 DEF InputReceipt
  <2>2. GateStep("input")
    BY <1>3 DEF InputReceipt
  <2> QED BY <2>1, <2>2, PublicationFrame DEF FrameOf, Receipts
<1>4. CASE UNCHANGED <<fwVars, auVars, pump, attempted, gPublished, gfx>>
  BY <1>4 DEF fwVars, FrameOf
<1>5. CASE LanguagePreflight \/ OpenWindow \/ Load \/ Bind
  BY <1>5, <1>4 DEF LanguagePreflight, OpenWindow, Load, Bind
<1>6. CASE InstallPump \/ InstallMenuHooks \/ Seal
  BY <1>6, <1>4 DEF InstallPump, InstallMenuHooks, Patch, Seal
<1>7. CASE BeginLifecycle \/ VerifyModule("fmod", Fmod)
           \/ VerifyModule("game", Game) \/ ActivityCreated
  BY <1>7, <1>4 DEF BeginLifecycle, VerifyModule, ActivityCreated
<1>8. CASE EnterGuest \/ LeaveLifecycle \/ ExitOk \/ TearDown
           \/ GuestReturns \/ ShimExits
  BY <1>8, <1>4 DEF EnterGuest, LeaveLifecycle, ExitOk, TearDown,
     GuestReturns, ShimExits
<1> QED BY <1>1, <1>2, <1>3, <1>5, <1>6, <1>7, <1>8 DEF MainStep, Main

\* The graphics thread.
LEMMA GraphicsFrame ==
  ASSUME FwTypeOK, Graphics
  PROVE  /\ UNCHANGED <<ldVars, auVars, at, exit, pump, bound, running,
                        lcStep, verdict, active>>
         /\ FrameOf({"input", "audio"})
<1>1. CASE GfxAttempt
  <2>1. Mark("graphics") \/ Refuse("graphics")
    BY <1>1 DEF GfxAttempt, PublishGraphics
  <2>2. FrameOf({"input", "audio"})
    BY <2>1, PublicationFrame DEF FrameOf, Receipts
  <2> QED BY <1>1, <2>2 DEF GfxAttempt, GfxTo, lcVars
<1>2. CASE GfxGate
  <2>1. FrameOf({"input", "audio"})
    BY <1>2, PublicationFrame DEF GfxGate, FrameOf, Receipts
  <2> QED BY <1>2, <2>1 DEF GfxGate, lcVars, mainVars
<1>3. CASE GfxPublished
  BY <1>3 DEF GfxPublished, GfxTo, lcVars, fwVars, FrameOf
<1>4. CASE GfxReport
  BY <1>4 DEF GfxReport, GfxTo, ReportGraphics, ReportVerified, lcVars,
     fwVars, FrameOf
<1> QED BY <1>1, <1>2, <1>3, <1>4 DEF Graphics

\* The sound thread.
LEMMA SoundFrame ==
  ASSUME FwTypeOK, Sound
  PROVE  /\ UNCHANGED <<ldVars, lcVars, mainVars>>
         /\ FrameOf({"input", "graphics"})
<1>1. CASE SoundDevice
  <2>1. Mark("audio") \/ Refuse("audio")
    BY <1>1 DEF SoundDevice, PublishAudio
  <2>2. FrameOf({"input", "graphics"})
    BY <2>1, PublicationFrame DEF FrameOf, Receipts
  <2> QED BY <1>1, <2>2 DEF SoundDevice
<1>2. CASE SoundGate
  <2>1. FrameOf({"input", "graphics"})
    BY <1>2, PublicationFrame DEF SoundGate, FrameOf, Receipts
  <2> QED BY <1>2, <2>1 DEF SoundGate
<1>3. CASE SoundCall \/ SoundInit \/ SoundPublished
  BY <1>3 DEF SoundCall, SoundInit, SoundPublished, fwVars, FrameOf
<1> QED BY <1>1, <1>2, <1>3 DEF Sound

\* One of the three threads moves, or nothing does.
LEMMA NextCases ==
  ASSUME [Next]_vars
  PROVE  MainStep \/ Graphics \/ Sound \/ UNCHANGED vars
  BY DEF Next, MainStep

\* The contracts of the process are those of the bridge alone.
LEMMA FwOfBoot == [Next]_vars => [FwNext]_fwVars
<1> SUFFICES ASSUME [Next]_vars PROVE [FwNext]_fwVars
  OBVIOUS
<1>1. ASSUME NEW k \in Receipts, Mark(k) \/ Refuse(k) \/ GateStep(k)
      PROVE FwNext
  BY <1>1 DEF FwNext
<1>2. CASE MainStep
  <2>1. CASE Preflight
    BY <2>1 DEF Preflight, FwNext
  <2>2. CASE CreateActivity
    BY <2>2, <1>1 DEF CreateActivity, PublishInput, Receipts
  <2>3. CASE InputReceipt
    BY <2>3, <1>1 DEF InputReceipt, Receipts
  <2>4. CASE LanguagePreflight \/ OpenWindow \/ Load \/ Bind
    BY <2>4 DEF LanguagePreflight, OpenWindow, Load, Bind
  <2>5. CASE InstallPump \/ InstallMenuHooks \/ Seal
    BY <2>5 DEF InstallPump, InstallMenuHooks, Seal
  <2>6. CASE BeginLifecycle \/ VerifyModule("fmod", Fmod)
             \/ VerifyModule("game", Game) \/ ActivityCreated
    BY <2>6 DEF BeginLifecycle, VerifyModule, ActivityCreated
  <2>7. CASE EnterGuest \/ LeaveLifecycle \/ ExitOk \/ TearDown
             \/ GuestReturns \/ ShimExits
    BY <2>7 DEF EnterGuest, LeaveLifecycle, ExitOk, TearDown, GuestReturns,
       ShimExits
  <2> QED BY <1>2, <2>1, <2>2, <2>3, <2>4, <2>5, <2>6, <2>7
     DEF MainStep, Main
<1>3. CASE Graphics
  BY <1>3, <1>1 DEF Graphics, GfxAttempt, PublishGraphics, GfxGate,
     GfxPublished, GfxReport, Receipts
<1>4. CASE Sound
  BY <1>4, <1>1 DEF Sound, SoundCall, SoundInit, SoundDevice, PublishAudio,
     SoundGate, SoundPublished, Receipts
<1>5. CASE UNCHANGED vars
  BY <1>5 DEF vars
<1> QED BY <1>2, <1>3, <1>4, <1>5, NextCases

\* The invariant of the receipts holds in the whole program.
LEMMA BootFw == Spec => []FwInv
<1>1. Init => FwInv
  BY FwInitially DEF Init
<1>2. FwInv /\ [Next]_vars => FwInv'
  BY FwStep, FwOfBoot
<1> QED BY <1>1, <1>2, PTL DEF Spec

\* In the whole program, whatever main(), the graphics thread and the sound
\* thread do: three accepted publications mean that READY was validated.
THEOREM BootReadyNotMissed == Spec => []CompleteMeansReady
  BY BootFw, PendingDecides, PTL

\* The whole program implements ReadyGate.
THEOREM BootImplementsGate == Spec => GateHolds
<1>1. Init => FwInit
  BY DEF Init
<1>2. Spec => FwSpec
  BY <1>1, FwOfBoot, PTL DEF Spec, FwSpec
<1> QED BY <1>2, ImplementsGate, PTL

-----------------------------------------------------------------------------
(* The loader under main().                                                *)

Hooked ==
  /\ bound /\ views
  /\ {"added", "apply", "locale"} \subseteq hooks
  /\ pump => "sleep" \in hooks

Bare == hooks = {} /\ ~views /\ slot[1] = "absent" /\ slot[2] = "absent"

\* What main() relies on at each point.
AtInv ==
  /\ at \in {"preflight", "menu", "sdl", "window", "create"} =>
       Bare /\ stage = "none" /\ ~bound
  /\ at = "prepare" => Bare /\ stage = "registry" /\ ~bound
  /\ at \in {"bind", "views", "pump", "hooks", "finalize"} =>
       stage = "prepared" /\ slot[1] = "resolved" /\ slot[2] = "resolved"
  /\ at \in {"bind", "views"} => ~views
  /\ at \in {"views", "pump", "hooks"} => bound
  /\ at \in {"pump", "hooks"} => views
  /\ at = "hooks" => (pump => "sleep" \in hooks)
  /\ at \in {"finalize", "initializers", "lifecycle", "receipt", "guest",
             "returned", "verdict", "leave"} => Hooked
  /\ at = "initializers" =>
       /\ slot[1] \in {"finalized", "initialized"}
       /\ slot[2] = "finalized" /\ stage = "finalized"
  /\ at \in {"lifecycle", "receipt", "guest", "returned", "verdict",
             "leave"} => slot[1] = "initialized" /\ slot[2] = "initialized"
  /\ at \in {"guest", "returned", "verdict", "leave"} => lcStep = 4
  /\ at \in {"destroy", "die"} => ~views

\* What holds at every point, those of a failed start included.
LoadInv ==
  /\ LdTypeOK /\ MainTypeOK /\ lcStep \in 0..4
  /\ slot[2] = "initialized" => slot[1] = "initialized"
  /\ views => slot[1] # "absent" /\ slot[2] # "absent"
  /\ lcStep = 4 => "input" \in published
  /\ AtInv

\* The two modules, and what a module that stopped on its way is not.
LEMMA SlotFacts ==
  /\ Modules = {1, 2} /\ Game = 2 /\ Fmod = 1
  /\ {"absent", "finalized", "initialized", "resolved"} \subseteq SlotStates
  /\ \A i \in 1..6 : PrepareSteps[i] \in SlotStates \ {"initialized"}
  /\ DOMAIN PrepareSteps = 1..6
  BY DEF Modules, Game, Fmod, SlotStates, PrepareSteps

\* There is no loader at the start.
LEMMA LoadInitially == Init => LoadInv
<1> SUFFICES ASSUME Init PROVE LoadInv
  OBVIOUS
<1>1. LdTypeOK /\ Bare /\ stage = "none"
  BY SlotFacts DEF Init, LdInit, LdTypeOK, Bare, Stages
<1>2. MainTypeOK /\ lcStep = 0 /\ at = "preflight" /\ ~bound
  BY DEF Init, LcInit, MainTypeOK, Points
<1> QED BY <1>1, <1>2 DEF LoadInv, AtInv, Bare

\* The other threads leave the loader and main() alone.
LEMMA LoadFrame ==
  ASSUME LoadInv, published \subseteq published', MainTypeOK',
         UNCHANGED <<ldVars, at, pump, bound, lcStep>>
  PROVE  LoadInv'
  BY DEF LoadInv, LdTypeOK, AtInv, Hooked, Bare, ldVars

\* Every step of main() arrives where its next point expects it.
LEMMA LoadStep == FwInv /\ LoadInv /\ [Next]_vars => LoadInv'
<1> SUFFICES ASSUME FwInv, LoadInv, [Next]_vars PROVE LoadInv'
  OBVIOUS
<1>1. CASE Graphics
  <2>1. MainTypeOK'
    BY <1>1, GraphicsFrame DEF FwInv, LoadInv, MainTypeOK, Graphics,
       GfxAttempt, GfxGate, GfxPublished, GfxReport, GfxTo, mainVars
  <2> QED BY <1>1, <2>1, GraphicsFrame, LoadFrame DEF FwInv, FrameOf
<1>2. CASE Sound
  <2>1. MainTypeOK'
    BY <1>2, SoundFrame DEF FwInv, LoadInv, MainTypeOK, mainVars
  <2> QED BY <1>2, <2>1, SoundFrame, LoadFrame
     DEF FwInv, FrameOf, lcVars, mainVars
<1>3. CASE UNCHANGED vars
  BY <1>3 DEF vars, ldVars, fwVars, lcVars, mainVars, LoadInv, LdTypeOK,
     MainTypeOK, AtInv, Hooked, Bare
<1>4. CASE MainStep
  <2> USE SlotFacts DEF FwInv, Goto, Pass, Fail, Quit, Alive
  <2>0. published \subseteq published' /\ pump' = pump
    BY <1>4, MainFrame DEF FrameOf
  <2> DEFINE Ends == at' \in {"fail", "exited"}
  <2>1. ASSUME UNCHANGED <<ldVars, bound>>, lcStep' = lcStep, MainTypeOK',
               Ends
        PROVE  LoadInv'
    BY <2>0, <2>1 DEF LoadInv, LdTypeOK, AtInv, ldVars
  <2>2. ASSUME UNCHANGED <<ldVars, bound>>, lcStep' = lcStep, MainTypeOK',
               at' = at
        PROVE  LoadInv'
    BY <2>0, <2>2 DEF LoadInv, LdTypeOK, AtInv, Hooked, Bare, ldVars
  <2>3. CASE Preflight \/ LanguagePreflight \/ OpenWindow
    <3>1. UNCHANGED <<ldVars, bound>> /\ lcStep' = lcStep
      BY <2>3 DEF Preflight, LanguagePreflight, OpenWindow, lcVars
    <3>2. /\ MainTypeOK'
          /\ \/ Ends
             \/ /\ at \in {"preflight", "menu", "sdl", "window"}
                /\ at' \in {"menu", "sdl", "window", "create"}
      BY <2>3 DEF Preflight, LanguagePreflight, OpenWindow, LoadInv,
         MainTypeOK, Points
    <3> QED BY <2>0, <2>1, <3>1, <3>2 DEF LoadInv, LdTypeOK, AtInv, Bare,
         ldVars
  <2>4. CASE Load
    <3>0. MainTypeOK' /\ lcStep' = lcStep
      BY <2>4 DEF Load, LoadInv, MainTypeOK, Points, lcVars
    <3>1. CASE Pass("create", "prepare") /\ CreateLoader
      BY <2>0, <3>0, <3>1 DEF CreateLoader, LoadInv, LdTypeOK, AtInv, Bare,
         Stages
    <3>2. CASE Fail("create") /\ UNCHANGED ldVars
      BY <2>1, <3>0, <3>2
    <3>3. CASE Pass("prepare", "bind") /\ PrepareModules
      BY <2>0, <3>0, <3>3 DEF PrepareModules, LoadInv, LdTypeOK, AtInv, Bare,
         Stages
    <3>4. ASSUME Fail("prepare"), NEW m \in Modules,
                 NEW s \in DOMAIN PrepareSteps, PrepareFails(m, s)
          PROVE  LoadInv'
      <4>1. s - 1 \in 1..6 \/ s = 1
        BY SlotFacts
      <4>2. PICK here \in SlotStates \ {"initialized"} :
              slot' = StoppedAt(m, "resolved", here)
        BY <3>4, <4>1 DEF PrepareFails
      <4>3. slot'[2] # "initialized" /\ slot' \in [Modules -> SlotStates]
        BY <3>4, <4>2 DEF StoppedAt, LoadInv, LdTypeOK, AtInv, Bare
      <4> QED BY <2>0, <3>0, <3>4, <4>3 DEF PrepareFails, Error, LoadInv,
           LdTypeOK, AtInv, Bare, Stages
    <3> QED BY <2>4, <3>1, <3>2, <3>3, <3>4 DEF Load
  <2>5. CASE Bind
    <3>0. MainTypeOK' /\ lcStep' = lcStep
      BY <2>5 DEF Bind, LoadInv, MainTypeOK, Points, lcVars
    <3>1. CASE Goto("bind", "views") /\ bound' = TRUE /\ UNCHANGED ldVars
      BY <2>0, <3>0, <3>1 DEF LoadInv, LdTypeOK, AtInv, ldVars
    <3>2. CASE (Fail("bind") \/ Fail("views")) /\ UNCHANGED ldVars
      BY <2>1, <3>0, <3>2
    <3>3. CASE Pass("views", "pump") /\ BindViews
      BY <2>0, <3>0, <3>3 DEF BindViews, LoadInv, LdTypeOK, AtInv
    <3> QED BY <2>5, <3>1, <3>2, <3>3 DEF Bind
  <2>6. CASE InstallPump
    <3>0. MainTypeOK' /\ lcStep' = lcStep
      BY <2>6 DEF InstallPump, Patch, LoadInv, MainTypeOK, Points, lcVars
    <3>1. CASE pump /\ Pass("pump", "hooks") /\ InstallHook("sleep")
      BY <2>0, <3>0, <3>1 DEF InstallHook, LoadInv, LdTypeOK, AtInv, AllHooks
    <3>2. CASE Fail("pump") /\ InstallHookFails
      BY <2>0, <3>0, <3>2 DEF InstallHookFails, Error, LoadInv, LdTypeOK,
         AtInv, Stages
    <3>3. CASE Fail("pump") /\ UNCHANGED ldVars
      BY <2>1, <3>0, <3>3
    <3>4. CASE ~pump /\ Pass("pump", "hooks") /\ UNCHANGED ldVars
      BY <2>0, <3>0, <3>4 DEF LoadInv, LdTypeOK, AtInv, ldVars
    <3> QED BY <2>6, <3>1, <3>2, <3>3, <3>4 DEF InstallPump, Patch
  <2>7. CASE InstallMenuHooks
    <3>0. MainTypeOK' /\ lcStep' = lcStep
      BY <2>7 DEF InstallMenuHooks, Patch, LoadInv, MainTypeOK, Points, lcVars
    <3>1. ASSUME Pass("hooks", "hooks"), NEW h \in {"added", "apply"},
                 InstallHook(h)
          PROVE  LoadInv'
      <4>1. hooks \subseteq hooks' /\ hooks' \subseteq AllHooks
        BY <3>1 DEF InstallHook, LoadInv, LdTypeOK, AllHooks
      <4>2. at = "hooks" /\ at' = "hooks" /\ UNCHANGED <<stage, slot, views>>
        BY <3>1 DEF InstallHook
      <4> QED BY <2>0, <3>0, <3>1, <4>1, <4>2 DEF LoadInv, LdTypeOK, AtInv
    <3>2. CASE {"added", "apply"} \subseteq hooks
               /\ Pass("hooks", "finalize") /\ InstallHook("locale")
      BY <2>0, <3>0, <3>2 DEF InstallHook, LoadInv, LdTypeOK, AtInv, AllHooks,
         Hooked
    <3>3. CASE Fail("hooks") /\ InstallHookFails
      BY <2>0, <3>0, <3>3 DEF InstallHookFails, Error, LoadInv, LdTypeOK,
         AtInv, Stages
    <3>4. CASE Fail("hooks") /\ UNCHANGED ldVars
      BY <2>1, <3>0, <3>4
    <3> QED BY <2>7, <3>1, <3>2, <3>3, <3>4 DEF InstallMenuHooks, Patch
  <2>8. CASE Seal
    <3>0. MainTypeOK' /\ lcStep' = lcStep
      BY <2>8 DEF Seal, LoadInv, MainTypeOK, Points, lcVars
    <3>1. CASE Pass("finalize", "initializers") /\ FinalizeModules
      BY <2>0, <3>0, <3>1 DEF FinalizeModules, LoadInv, LdTypeOK, AtInv,
         Hooked, Stages
    <3>2. ASSUME Fail("finalize"), NEW m \in Modules, FinalizeFails(m)
          PROVE  LoadInv'
      <4>1. slot' \in [Modules -> SlotStates] /\ slot'[1] # "absent"
            /\ slot'[2] = "resolved"
        BY <3>2 DEF FinalizeFails, StoppedAt, LoadInv, LdTypeOK, AtInv
      <4> QED BY <2>0, <3>0, <3>2, <4>1 DEF FinalizeFails, Error, LoadInv,
           LdTypeOK, AtInv, Stages
    <3>3. CASE Pass("initializers", "initializers") /\ InitializeModule(Fmod)
      BY <2>0, <3>0, <3>3 DEF InitializeModule, LoadInv, LdTypeOK, AtInv,
         Hooked, Stages
    <3>4. CASE Pass("initializers", "lifecycle") /\ InitializeModule(Game)
      <4>1. slot[1] = "initialized"
        BY <3>4 DEF InitializeModule
      <4> QED BY <2>0, <3>0, <3>4, <4>1 DEF InitializeModule, LoadInv,
           LdTypeOK, AtInv, Hooked, Stages
    <3>5. ASSUME Fail("initializers"), NEW m \in Modules, InitializeFails(m)
          PROVE  LoadInv'
      BY <2>0, <3>0, <3>5 DEF InitializeFails, Error, LoadInv, LdTypeOK,
         AtInv, Stages
    <3> QED BY <2>8, <3>1, <3>2, <3>3, <3>4, <3>5 DEF Seal
  <2>9. CASE BeginLifecycle \/ VerifyModule("fmod", Fmod)
             \/ VerifyModule("game", Game)
    <3>0. MainTypeOK' /\ UNCHANGED <<ldVars, bound>>
      BY <2>9 DEF BeginLifecycle, VerifyModule, LoadInv, MainTypeOK, Points
    <3>1. at = "lifecycle" /\ ((Ends /\ lcStep' = lcStep) \/ at' = at)
      BY <2>9 DEF BeginLifecycle, VerifyModule, StepFails, LcRefused
    <3>2. lcStep' \in 0..3 \/ lcStep' = lcStep
      BY <2>9 DEF BeginLifecycle, VerifyModule, StepFails, LcRefused, LcBegin,
         StepDone, Due, LcSteps, LoadInv
    <3> QED BY <2>0, <2>1, <3>0, <3>1, <3>2 DEF LoadInv, LdTypeOK, AtInv,
         Hooked, ldVars
  <2>10. CASE CreateActivity \/ InputReceipt
    <3>0. MainTypeOK' /\ lcStep' = lcStep /\ UNCHANGED <<ldVars, bound>>
      BY <2>10 DEF CreateActivity, InputReceipt, StepFails, LoadInv,
         MainTypeOK, Points, lcVars
    <3>1. \/ Ends
          \/ at \in {"lifecycle", "receipt"} /\ at' = "receipt"
      BY <2>10 DEF CreateActivity, InputReceipt
    <3> QED BY <2>0, <2>1, <3>0, <3>1 DEF LoadInv, LdTypeOK, AtInv, Hooked,
         ldVars
  <2>11. CASE ActivityCreated
    <3>0. MainTypeOK' /\ UNCHANGED <<ldVars, bound, published>>
      BY <2>11 DEF ActivityCreated, LoadInv, MainTypeOK, Points, fwVars
    <3>1. CASE Fail("receipt") /\ StepFails("activity")
      BY <2>1, <3>0, <3>1 DEF StepFails
    <3>2. CASE /\ answer["input"] = "ok"
               /\ Pass("receipt", "lifecycle") /\ StepDone("activity")
      <4>1. "input" \in published
        BY <3>2 DEF PendingInv, Receipts
      <4>2. lcStep' \in 0..4
        BY <3>2 DEF StepDone, Due, LcSteps, LoadInv
      <4> QED BY <2>0, <3>0, <3>2, <4>1, <4>2 DEF LoadInv, LdTypeOK, AtInv,
           Hooked, ldVars
    <3> QED BY <2>11, <3>1, <3>2 DEF ActivityCreated
  <2>12. CASE EnterGuest \/ GuestReturns
    <3>0. /\ MainTypeOK' /\ lcStep' = lcStep /\ UNCHANGED <<ldVars, bound>>
          /\ at' \in {"guest", "returned"}
      BY <2>12 DEF EnterGuest, RuntimeEnter, GuestReturns, LoadInv,
         MainTypeOK, Points, lcVars
    <3>1. at \in {"lifecycle", "guest"} /\ lcStep = 4
      BY <2>12 DEF EnterGuest, RuntimeEnter, GuestReturns, Due, LcSteps,
         LoadInv, AtInv
    <3> QED BY <2>0, <3>0, <3>1 DEF LoadInv, LdTypeOK, AtInv, Hooked, ldVars
  <2>13. CASE LeaveLifecycle
    <3>0. MainTypeOK' /\ lcStep' = lcStep /\ UNCHANGED <<ldVars, bound>>
      BY <2>13 DEF LeaveLifecycle, RuntimeLeave, RuntimeVerdict, LoadInv,
         MainTypeOK, Points
    <3>1. /\ at \in {"returned", "verdict"}
          /\ at' \in {"verdict", "leave", "fail"}
      BY <2>13 DEF LeaveLifecycle
    <3> QED BY <2>0, <3>0, <3>1 DEF LoadInv, LdTypeOK, AtInv, Hooked, ldVars
  <2>14. CASE ExitOk \/ ShimExits
    BY <2>1, <2>14 DEF ExitOk, ShimExits, LoadInv, MainTypeOK, Points, lcVars
  <2>15. CASE TearDown
    <3>0. MainTypeOK' /\ lcStep' = lcStep
      BY <2>15 DEF TearDown, LoadInv, MainTypeOK, Points, lcVars
    <3>1. CASE at = "fail" /\ at' = "destroy" /\ UnbindViews
               /\ bound' = bound
      BY <2>0, <3>0, <3>1 DEF UnbindViews, LoadInv, LdTypeOK, AtInv
    <3>2. CASE Goto("destroy", "die") /\ bound' = FALSE /\ DestroyLoader
      <4>1. slot' \in [Modules -> SlotStates] /\ slot'[2] = "absent"
        BY <3>2 DEF DestroyLoader
      <4> QED BY <2>0, <3>0, <3>2, <4>1 DEF DestroyLoader, LoadInv, LdTypeOK,
           AtInv, Stages
    <3>3. CASE Pass("destroy", "die") /\ UNCHANGED ldVars
      BY <2>0, <3>0, <3>3 DEF LoadInv, LdTypeOK, AtInv, ldVars
    <3>4. CASE Quit("die") /\ UNCHANGED ldVars
      BY <2>1, <3>0, <3>4
    <3> QED BY <2>15, <3>1, <3>2, <3>3, <3>4 DEF TearDown
  <2> QED BY <1>4, <2>3, <2>4, <2>5, <2>6, <2>7, <2>8, <2>9, <2>10, <2>11,
     <2>12, <2>13, <2>14, <2>15 DEF MainStep, Main
<1> QED BY <1>1, <1>2, <1>3, <1>4, NextCases

\* What the points know is what the code of the game needs.
LEMMA LoadGuards == LoadInv => GuestCodeGuarded
<1> SUFFICES ASSUME LoadInv PROVE GuestCodeGuarded
  OBVIOUS
<1> QED BY SlotFacts DEF LoadInv, GuestCodeGuarded, GuestCode, AtInv, Hooked,
     Bare, TableFound, MainTypeOK, Points

\* The invariant of the loader under main().
LEMMA BootLoad == Spec => []LoadInv
  BY BootFw, LoadInitially, LoadStep, PTL DEF Spec

\* main.c and ts_loader.c: the code of the game runs only in a complete,
\* patched and unwindable process.
THEOREM GuestGuarded == Spec => []GuestCodeGuarded
  BY BootLoad, LoadGuards, PTL

-----------------------------------------------------------------------------
(* The one graphics report of the run.                                     *)

Late == {"guest", "returned", "verdict", "leave", "fail", "destroy", "die",
         "exited"}

GfxInv ==
  /\ LcTypeOK
  /\ running => at \in {"guest", "exited"}
  /\ attempted => at \in Late
  /\ ~attempted => gfx = "idle" /\ ~reported
  /\ gfx = "idle" => ~attempted
  /\ gfx \in {"idle", "publish"} => ~gPublished
  /\ gfx = "verify" => reported
  /\ gPublished => /\ answer["graphics"] = "ok" /\ gate["graphics"] = "idle"
                   /\ "graphics" \in published
  /\ verified => reported /\ gPublished /\ gfx = "done"
  /\ at = "leave" => reported /\ verified
  /\ exit = "ok" => reported /\ verified /\ lcStep = 4 /\ at = "exited"
  /\ at = "exited" <=> exit # "none"

\* Nothing is reported at the start.
LEMMA GfxInitially == Init => GfxInv
<1> SUFFICES ASSUME Init PROVE GfxInv
  OBVIOUS
<1>1. 0 \in 0..Len(LcSteps)
  BY DEF LcSteps
<1>2. LcTypeOK /\ ~reported /\ ~verified
  BY <1>1 DEF Init, LcInit, LcTypeOK
<1> QED BY <1>2 DEF Init, GfxInv

\* One attempt, one report, one verdict: no step goes back.
LEMMA GfxStep == FwInv /\ LoadInv /\ GfxInv /\ [Next]_vars => GfxInv'
<1> SUFFICES ASSUME FwInv, LoadInv, GfxInv, [Next]_vars PROVE GfxInv'
  OBVIOUS
<1> USE DEF FwInv
<1>1. CASE Graphics
  <2> USE DEF GfxTo, Alive
  <2>1. UNCHANGED <<at, exit, running, lcStep, verdict, active>>
    BY <1>1, GraphicsFrame
  <2>2. CASE GfxAttempt
    <3>1. /\ at = "guest" /\ gfx = "idle" /\ gfx' = "publish" /\ attempted'
          /\ ~gPublished' /\ UNCHANGED lcVars /\ ~attempted
      BY <2>2, <2>1 DEF GfxAttempt, GfxInv
    <3> QED BY <2>1, <3>1 DEF GfxInv, LcTypeOK, lcVars, Late
  <2>3. CASE GfxGate
    <3>1. UNCHANGED <<lcVars, mainVars>> /\ GateStep("graphics")
      BY <2>3 DEF GfxGate
    <3>2. ~gPublished
      BY <3>1 DEF GfxInv, GateStep, GatePending, GateComplete, GateLate,
         GateEvaluate, GateAccept, GateReject
    <3> QED BY <3>1, <3>2 DEF GfxInv, LcTypeOK, lcVars, mainVars, Late
  <2>4. CASE GfxPublished
    <3>1. /\ gfx = "publish" /\ gfx' \in {"report", "done"}
          /\ UNCHANGED <<attempted, fwVars, lcVars>>
          /\ gPublished' => answer["graphics"] = "ok"
          /\ gate["graphics"] = "idle"
      BY <2>4 DEF GfxPublished, Idle, GfxInv
    <3>2. gPublished' => "graphics" \in published
      BY <3>1 DEF PendingInv, Receipts
    <3> QED BY <2>1, <3>1, <3>2 DEF GfxInv, LcTypeOK, lcVars, fwVars, Late
  <2>5. CASE GfxReport
    <3>0. UNCHANGED <<attempted, gPublished, fwVars>>
      BY <2>5 DEF GfxReport
    <3>1. CASE GfxTo("report", "verify") /\ ReportGraphics(running)
      BY <2>1, <3>0, <3>1 DEF ReportGraphics, GfxInv, LcTypeOK, fwVars, Late
    <3>2. CASE GfxTo("report", "done") /\ UNCHANGED lcVars
      BY <2>1, <3>0, <3>2 DEF GfxInv, LcTypeOK, fwVars, lcVars, Late
    <3>3. CASE GfxTo("verify", "done") /\ ReportVerified(gPublished)
      BY <2>1, <3>0, <3>3 DEF ReportVerified, GfxInv, LcTypeOK, fwVars, Late,
         LoadInv, MainTypeOK
    <3> QED BY <2>5, <3>1, <3>2, <3>3 DEF GfxReport
  <2> QED BY <1>1, <2>2, <2>3, <2>4, <2>5 DEF Graphics
<1>2. CASE Sound
  <2>1. UNCHANGED <<lcVars, mainVars>> /\ FrameOf({"input", "graphics"})
    BY <1>2, SoundFrame
  <2> QED BY <2>1 DEF FrameOf, GfxInv, LcTypeOK, lcVars, mainVars, Late
<1>3. CASE UNCHANGED vars
  BY <1>3 DEF vars, GfxInv, LcTypeOK, fwVars, lcVars, mainVars, Late
<1>4. CASE MainStep
  <2> USE DEF Goto, Pass, Fail, Quit, Alive
  <2>1. /\ UNCHANGED <<attempted, gPublished, gfx>>
        /\ published \subseteq published'
        /\ gate'["graphics"] = gate["graphics"]
        /\ answer'["graphics"] = answer["graphics"]
    BY <1>4, MainFrame DEF FrameOf
  <2>2. CASE UNCHANGED <<lcVars, running, exit>> /\ at \notin Late
             /\ at' \notin {"leave", "exited"} /\ exit = "none"
    BY <2>1, <2>2 DEF GfxInv, LcTypeOK, lcVars, Late
  <2>3. CASE UNCHANGED <<lcVars, running>> /\ at \notin {"guest", "leave"}
             /\ at' = "exited" /\ exit' = "failed" /\ exit = "none"
    BY <2>1, <2>3 DEF GfxInv, LcTypeOK, lcVars, Late
  <2>4. CASE UNCHANGED <<running, exit, active, reported, verified>>
             /\ at \notin Late /\ at' \notin {"leave", "exited"}
             /\ exit = "none" /\ LcTypeOK'
    BY <2>1, <2>4 DEF GfxInv, Late
  <2>5. CASE Preflight \/ LanguagePreflight \/ OpenWindow
    BY <2>5, <2>2, <2>3 DEF Preflight, LanguagePreflight, OpenWindow, Late
  <2>6. CASE Load \/ Bind \/ InstallPump
    BY <2>6, <2>2 DEF Load, Bind, InstallPump, Patch, Late
  <2>7. CASE InstallMenuHooks \/ Seal
    BY <2>7, <2>2 DEF InstallMenuHooks, Patch, Seal, Late
  <2>8. CASE BeginLifecycle \/ VerifyModule("fmod", Fmod)
             \/ VerifyModule("game", Game) \/ CreateActivity
             \/ ActivityCreated
    <3>1. LcTypeOK' /\ UNCHANGED <<active, reported, verified>>
      BY <2>8 DEF BeginLifecycle, VerifyModule, CreateActivity,
         ActivityCreated, LcBegin, LcRefused, StepDone, StepFails, Due,
         LcSteps, LcTypeOK, lcVars, GfxInv
    <3> QED BY <2>8, <2>4, <3>1 DEF BeginLifecycle, VerifyModule,
         CreateActivity, ActivityCreated, Late
  <2>9. CASE InputReceipt
    BY <2>9, <2>2 DEF InputReceipt, Late
  <2>10. CASE EnterGuest
    <3>1. /\ at = "lifecycle" /\ at' = "guest" /\ exit = "none" /\ exit' = exit
          /\ active' /\ ~reported' /\ ~verified' /\ running'
          /\ UNCHANGED <<lcStep, verdict>>
      BY <2>10 DEF EnterGuest, RuntimeEnter
    <3>2. ~attempted /\ gfx = "idle" /\ ~gPublished
      BY <3>1 DEF GfxInv, Late
    <3>3. LcTypeOK'
      BY <2>10 DEF EnterGuest, RuntimeEnter, GfxInv, LcTypeOK
    <3> QED BY <2>1, <3>1, <3>2, <3>3 DEF GfxInv, Late
  <2>11. CASE GuestReturns
    BY <2>1, <2>11 DEF GuestReturns, GfxInv, LcTypeOK, lcVars, Late
  <2>12. CASE LeaveLifecycle
    <3>1. /\ at \in {"returned", "verdict"} /\ exit = "none"
          /\ at' \in {"verdict", "leave", "fail"}
          /\ UNCHANGED <<exit, running, lcStep, reported, verified>>
          /\ at' = "leave" => reported /\ verified
      BY <2>12 DEF LeaveLifecycle, RuntimeLeave, RuntimeVerdict
    <3>2. LcTypeOK'
      BY <2>12 DEF LeaveLifecycle, RuntimeLeave, RuntimeVerdict, GfxInv,
         LcTypeOK
    <3> QED BY <2>1, <3>1, <3>2 DEF GfxInv, Late
  <2>13. CASE ExitOk
    <3>1. lcStep = 4
      BY <2>13 DEF ExitOk, LoadInv, AtInv
    <3> QED BY <2>1, <2>13, <3>1 DEF ExitOk, GfxInv, LcTypeOK, lcVars, Late
  <2>14. CASE ShimExits
    BY <2>1, <2>14 DEF ShimExits, GfxInv, LcTypeOK, lcVars, Late
  <2>15. CASE TearDown
    <3>1. \/ /\ at = "fail" /\ at' = "destroy" /\ running' = FALSE
             /\ exit' = exit /\ exit = "none"
          \/ /\ at = "destroy" /\ at' = "die" /\ UNCHANGED <<exit, running>>
             /\ exit = "none"
          \/ /\ at = "die" /\ at' = "exited" /\ exit' = "failed"
             /\ running' = running /\ exit = "none"
      BY <2>15 DEF TearDown
    <3>2. UNCHANGED lcVars
      BY <2>15 DEF TearDown
    <3> QED BY <2>1, <3>1, <3>2 DEF GfxInv, LcTypeOK, lcVars, Late
  <2> QED BY <1>4, <2>5, <2>6, <2>7, <2>8, <2>9, <2>10, <2>11, <2>12, <2>13,
     <2>14, <2>15 DEF MainStep, Main
<1> QED BY <1>1, <1>2, <1>3, <1>4, NextCases

\* The invariant of the graphics report.
LEMMA BootGfx == Spec => []GfxInv
  BY BootFw, BootLoad, GfxInitially, GfxStep, PTL DEF Spec

\* Success is left only after a verified report.
LEMMA GfxDecides == LoadInv /\ GfxInv => SuccessMeansVerified
  BY DEF LoadInv, GfxInv, SuccessMeansVerified

\* lifecycle.c and main.c: the process answers success only when a real
\* context was reported, its receipt accepted and the report verified.
THEOREM SuccessVerified == Spec => []SuccessMeansVerified
  BY BootLoad, BootGfx, GfxDecides, PTL

-----------------------------------------------------------------------------
(* The sound.                                                              *)

Sane == host.audited /\ host.readable /\ ~host.disabled

AudioInv ==
  /\ AuTypeOK
  /\ opening # "idle" =>
       init \in {"first", "second"} /\ output = "opensl" /\ engine
  /\ opening \in {"open", "retry"} => ~device
  /\ opening = "publish" => device
  /\ gate["audio"] # "idle" => opening = "publish"
  /\ device => engine
  /\ opening = "idle" /\ device =>
       "audio" \in published /\ answer["audio"] = "ok"
  /\ init \in {"first", "second"} /\ Sane => output # "nosound"
  /\ init # "idle" => system /\ calls > 0 /\ sound # "ok"
  /\ sound = "ok" => opening = "idle"
  /\ sound = "ok" /\ output = "opensl" => device
  /\ sound = "ok" /\ Sane => output # "nosound"

\* There is no sound at the start.
LEMMA AudioInitially == Init => AudioInv
<1> SUFFICES ASSUME Init PROVE AudioInv
  OBVIOUS
<1>1. 0 \in 0..MaxInits
  BY MaxInitsAssumption
<1>2. AuTypeOK
  BY <1>1 DEF Init, AuInit, AuTypeOK, Outputs, InitSteps, OpenSteps, Results
<1>3. gate["audio"] = "idle"
  BY DEF Init, FwInit, Receipts
<1> QED BY <1>2, <1>3 DEF Init, AuInit, AudioInv

\* Every step of an init keeps output, engine and device together.
LEMMA AudioStep == FwInv /\ AudioInv /\ [Next]_vars => AudioInv'
<1> SUFFICES ASSUME FwInv, AudioInv, [Next]_vars PROVE AudioInv'
  OBVIOUS
<1> USE MaxInitsAssumption DEF FwInv, Outputs, InitSteps, OpenSteps, Results
<1>0. ASSUME UNCHANGED auVars, published \subseteq published',
             gate'["audio"] = gate["audio"], answer'["audio"] = answer["audio"]
      PROVE  AudioInv'
  BY <1>0 DEF auVars, AudioInv, AuTypeOK, Sane
<1>1. CASE MainStep
  BY <1>0, <1>1, MainFrame DEF FrameOf
<1>2. CASE Graphics
  BY <1>0, <1>2, GraphicsFrame DEF FrameOf
<1>3. CASE UNCHANGED vars
  BY <1>0, <1>3 DEF vars, fwVars
<1>4. CASE SoundCall
  <2>1. UNCHANGED fwVars
    BY <1>4 DEF SoundCall
  <2>2. CASE SystemCreate
    BY <2>1, <2>2 DEF SystemCreate, AudioInv, AuTypeOK, Sane, fwVars
  <2>3. CASE GameSelectsNoSound
    BY <2>1, <2>3 DEF GameSelectsNoSound, AudioInv, AuTypeOK, Sane, fwVars
  <2>4. CASE InitCall
    BY <2>1, <2>4 DEF InitCall, SelectPreinit, AudioInv, AuTypeOK, Sane,
       fwVars
  <2>5. CASE SystemRelease
    BY <2>1, <2>5 DEF SystemRelease, CloseDevice, AudioInv, AuTypeOK, Sane,
       fwVars
  <2> QED BY <1>4, <2>2, <2>3, <2>4, <2>5 DEF SoundCall
<1>5. CASE SoundInit
  <2>1. UNCHANGED fwVars
    BY <1>5 DEF SoundInit
  <2>2. CASE InitDefault
    BY <2>1, <2>2 DEF InitDefault, Answer, AudioInv, AuTypeOK, Sane, fwVars
  <2>3. CASE InitOpenSL
    BY <2>1, <2>3 DEF InitOpenSL, AudioInv, AuTypeOK, Sane, fwVars
  <2>4. CASE Recover
    BY <2>1, <2>4 DEF Recover, RetryOpenSL, AudioInv, AuTypeOK, Sane, fwVars
  <2>5. CASE GiveUp
    BY <2>1, <2>5 DEF GiveUp, AudioInv, AuTypeOK, Sane, fwVars
  <2>6. CASE AlreadyTried
    BY <2>1, <2>6 DEF AlreadyTried, Opened, Answer, AudioInv, AuTypeOK, Sane,
       fwVars
  <2>7. CASE DeviceFails
    BY <2>1, <2>7 DEF DeviceFails, OpenStep, AudioInv, AuTypeOK, Sane, fwVars
  <2>8. CASE NoDevice
    BY <2>1, <2>8 DEF NoDevice, Opened, Answer, AudioInv, AuTypeOK, Sane,
       fwVars
  <2> QED BY <1>5, <2>2, <2>3, <2>4, <2>5, <2>6, <2>7, <2>8 DEF SoundInit
<1>6. CASE SoundDevice
  <2>1. published \subseteq published'
    BY <1>6 DEF SoundDevice, PublishAudio, Mark, Refuse
  <2>2. /\ opening \in {"open", "retry"} /\ opening' = "publish" /\ device'
        /\ UNCHANGED <<host, system, output, retries, init, result, sound,
                       engine, latched, calls>>
    BY <1>6 DEF SoundDevice, DeviceOpens, RetryOpens, OpenStep
  <2> QED BY <2>1, <2>2 DEF AudioInv, AuTypeOK, Sane
<1>7. CASE SoundGate
  <2>1. UNCHANGED <<auVars, published>>
    BY <1>7 DEF SoundGate, GateStep, GatePending, GateComplete, GateLate,
       GateEvaluate, GateAccept, GateReject
  <2>2. gate["audio"] # "idle"
    BY <1>7 DEF SoundGate, GateStep, GatePending, GateComplete, GateLate,
       GateEvaluate, GateAccept, GateReject
  <2>3. opening = "publish"
    BY <2>2 DEF AudioInv
  <2> QED BY <2>1, <2>3 DEF auVars, AudioInv, AuTypeOK, Sane
<1>8. CASE SoundPublished
  <2>1. UNCHANGED fwVars /\ gate["audio"] = "idle"
    BY <1>8 DEF SoundPublished, Idle
  <2>2. CASE answer["audio"] = "ok"
    <3>1. "audio" \in published
      BY <2>2 DEF PendingInv, Receipts
    <3> QED BY <1>8, <2>1, <2>2, <3>1 DEF SoundPublished, Published, Opened,
         Answer, AudioInv, AuTypeOK, Sane, fwVars
  <2>3. CASE answer["audio"] # "ok"
    BY <1>8, <2>1, <2>3 DEF SoundPublished, Published, Opened, Answer,
       AudioInv, AuTypeOK, Sane, fwVars
  <2> QED BY <2>2, <2>3
<1> QED BY <1>1, <1>2, <1>3, <1>4, <1>5, <1>6, <1>7, <1>8, NextCases
   DEF Sound

\* The invariant of the sound.
LEMMA BootAudio == Spec => []AudioInv
  BY BootFw, AudioInitially, AudioStep, PTL DEF Spec

\* What an init that answered success has left behind.
LEMMA AudioDecides == AudioInv => AudioIsReal
  BY DEF AudioInv, AudioIsReal, Sane

\* main.c and opensles_shim.c: an init of the audited FMOD that the game saw
\* succeed is never silent, and on OpenSL it has an open, published device.
THEOREM AudioReal == Spec => []AudioIsReal
  BY BootAudio, AudioDecides, PTL

\* The type invariant of the composed program.
THEOREM BootTypes == Spec => []TypeOK
<1>1. FwInv /\ LoadInv /\ GfxInv /\ AudioInv => TypeOK
  BY DEF FwInv, LoadInv, GfxInv, AudioInv, TypeOK
<1> QED BY <1>1, BootFw, BootLoad, BootGfx, BootAudio, PTL
=============================================================================
