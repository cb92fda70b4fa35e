------------------------------ MODULE Lifecycle ------------------------------
(***************************************************************************)
(* lifecycle.c: the nxandroid profile of the program.  The two modules are *)
(* verified, the activity is created, and the rest of the run is delegated *)
(* to android_main(); from inside it, a thread of the game reports the     *)
(* first real graphics context.  The nxandroid library, external, invokes  *)
(* the steps in order and stops at the first that fails.                   *)
(***************************************************************************)
EXTENDS Naturals, Sequences

LcSteps == <<"fmod", "game", "activity", "runtime">>

VARIABLES
  lcStep,     \* index of the step that is due; 0 before ts_lifecycle_run
  verdict,    \* what ts_lifecycle_run answers
  active,     \* runtime.delegated_active
  reported,   \* runtime.graphics_reported
  verified    \* runtime.graphics_verified

lcVars == <<lcStep, verdict, active, reported, verified>>

LcTypeOK ==
  /\ lcStep \in 0..Len(LcSteps)
  /\ verdict \in {"none", "ok", "failed"}
  /\ active \in BOOLEAN /\ reported \in BOOLEAN /\ verified \in BOOLEAN

LcInit ==
  /\ lcStep = 0 /\ verdict = "none"
  /\ active = FALSE /\ reported = FALSE /\ verified = FALSE

Due(step) == verdict = "none" /\ lcStep > 0 /\ LcSteps[lcStep] = step

\* ts_lifecycle_run: the operations and the profile are valid, the context
\* is created.
LcBegin ==
  /\ lcStep = 0
  /\ lcStep' = 1
  /\ UNCHANGED <<verdict, active, reported, verified>>

LcRefused ==
  /\ verdict = "none"
  /\ verdict' = "failed"
  /\ UNCHANGED <<lcStep, active, reported, verified>>

\* Mutant: a step is counted by its callback and by the profile.
StepDoneTwice(step) ==
  /\ Due(step) /\ step # "runtime"
  /\ lcStep' = lcStep + 2
  /\ UNCHANGED <<verdict, active, reported, verified>>

\* lifecycle_invoke of a step before the last.
StepDone(step) ==
  /\ Due(step) /\ step # "runtime"
  /\ lcStep' = lcStep + 1
  /\ UNCHANGED <<verdict, active, reported, verified>>

StepFails(step) ==
  /\ Due(step)
  /\ verdict' = "failed"
  /\ UNCHANGED <<lcStep, active, reported, verified>>

\* lifecycle_invoke of the delegated runtime: around run_android_main ...
RuntimeEnter ==
  /\ Due("runtime") /\ ~active
  /\ active' = TRUE /\ reported' = FALSE /\ verified' = FALSE
  /\ UNCHANGED <<lcStep, verdict>>

RuntimeLeave ==
  /\ Due("runtime") /\ active
  /\ active' = FALSE
  /\ UNCHANGED <<lcStep, verdict, reported, verified>>

\* ... and after it: one report that was verified, or the run has failed.
RuntimeVerdict ==
  /\ Due("runtime") /\ ~active
  /\ verdict' = IF reported /\ verified THEN "ok" ELSE "failed"
  /\ UNCHANGED <<lcStep, active, reported, verified>>

\* ts_lifecycle_graphics_ready, on a thread of the game: the report counts
\* once, while the runtime is active; verify_graphics_ready decides it.
ReportOutside(handle) == ~handle \/ ~active

ReportGraphics(handle) ==
  /\ ~ReportOutside(handle)
  /\ ~reported
  /\ reported' = TRUE
  /\ UNCHANGED <<lcStep, verdict, active, verified>>

ReportVerified(proof) ==
  /\ verified' = proof
  /\ UNCHANGED <<lcStep, verdict, active, reported>>
=============================================================================
