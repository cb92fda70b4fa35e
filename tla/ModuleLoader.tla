---------------------------- MODULE ModuleLoader ----------------------------
(***************************************************************************)
(* ts_loader.c: the two guest modules, libfmodex.so and libTestSuite.so,   *)
(* brought from a file to initialised code by the nxloader library, and    *)
(* loader_compat.c, which publishes views of their mappings.  Each call    *)
(* takes both modules through its steps in order; the failure of a step    *)
(* leaves what was done before it and puts the loader in its ERROR stage,  *)
(* where every later call is refused.  Whether a step of nxloader succeeds *)
(* is external: a call that fails names the module and the step.           *)
(***************************************************************************)
EXTENDS Naturals, Sequences

Modules == {1, 2}
Fmod == 1
Game == 2

\* The steps of ts_prepare_module, by the state they leave the module in.
PrepareSteps ==
  <<"created", "loaded", "validated", "relocated", "registered", "resolved">>

Stages == {"none", "empty", "registry", "prepared", "finalized",
           "initialized", "error"}
SlotStates == {"absent", "finalized", "initialized"} \cup
              {PrepareSteps[i] : i \in DOMAIN PrepareSteps}
AllHooks == {"sleep", "added", "apply", "locale"}

VARIABLES
  stage,   \* loader->stage; "none" when there is no loader
  slot,    \* slot[m]: what nxloader has done with module m
  hooks,   \* the entries of the game that have been patched
  views    \* loader_compat.c: compat_bound, with exidx_views and text_base

ldVars == <<stage, slot, hooks, views>>

LdTypeOK ==
  /\ stage \in Stages
  /\ slot \in [Modules -> SlotStates]
  /\ hooks \subseteq AllHooks
  /\ views \in BOOLEAN

LdInit ==
  /\ stage = "none"
  /\ slot = [m \in Modules |-> "absent"]
  /\ hooks = {}
  /\ views = FALSE

\* Module m failed on its way: those before it have arrived at "to".
StoppedAt(m, to, here) ==
  [x \in Modules |-> IF x < m THEN to ELSE IF x = m THEN here ELSE slot[x]]

\* ts_fail: the stage of no return.
Error == stage' = "error"

-----------------------------------------------------------------------------
\* ts_loader_create: the registry with its host, adapter and softfp
\* providers.  When one of them is refused the loader is destroyed at once
\* and the caller gets none.
CreateLoader ==
  /\ stage = "none"
  /\ stage' = "registry"
  /\ UNCHANGED <<slot, hooks, views>>

\* ts_loader_prepare: FMOD, whose exports the game binds to, before the game.
PrepareModules ==
  /\ stage = "registry"
  /\ stage' = "prepared"
  /\ slot' = [m \in Modules |-> "resolved"]
  /\ UNCHANGED <<hooks, views>>

PrepareFails(m, step) ==
  /\ stage = "registry"
  /\ Error
  /\ slot' = StoppedAt(m, "resolved",
               IF step = 1 THEN "absent" ELSE PrepareSteps[step - 1])
  /\ UNCHANGED <<hooks, views>>

\* ts_loader_install_hook: only between resolve and finalize.
HookWindow(m) == stage = "prepared" /\ slot[m] = "resolved"

InstallHook(h) ==
  /\ HookWindow(Game)
  /\ hooks' = hooks \cup {h}
  /\ UNCHANGED <<stage, slot, views>>

InstallHookFails ==
  /\ HookWindow(Game)
  /\ Error
  /\ UNCHANGED <<slot, hooks, views>>

\* ts_loader_finalize: permissions and RELRO of both, in order.
FinalizeModules ==
  /\ stage = "prepared"
  /\ stage' = "finalized"
  /\ slot' = [m \in Modules |-> "finalized"]
  /\ UNCHANGED <<hooks, views>>

FinalizeFails(m) ==
  /\ stage = "prepared"
  /\ Error
  /\ slot' = StoppedAt(m, "finalized", slot[m])
  /\ UNCHANGED <<hooks, views>>

\* ts_loader_call_initializers: guest code runs for the first time, the
\* init_array of one module per step of the loop.
InitializeModule(m) ==
  /\ stage = "finalized"
  /\ \A x \in Modules : x < m => slot[x] = "initialized"
  /\ slot[m] = "finalized"
  /\ slot' = [slot EXCEPT ![m] = "initialized"]
  /\ stage' = IF m = Game THEN "initialized" ELSE stage
  /\ UNCHANGED <<hooks, views>>

InitializeFails(m) ==
  /\ stage = "finalized"
  /\ \A x \in Modules : x < m => slot[x] = "initialized"
  /\ slot[m] = "finalized"
  /\ Error
  /\ UNCHANGED <<slot, hooks, views>>

\* ts_loader_find_export, and get_info which main() relies on, read the
\* module of a slot that has one.
Findable(m) == stage # "none" /\ slot[m] # "absent"

\* ts_loader_compat_bind: both views or neither.
BindViews ==
  /\ ~views /\ \A m \in Modules : Findable(m)
  /\ views' = TRUE
  /\ UNCHANGED <<stage, slot, hooks>>

\* ts_loader_compat_unbind
UnbindViews ==
  /\ views' = FALSE
  /\ UNCHANGED <<stage, slot, hooks>>

\* so_find_exidx: the unwinder of a guest exception finds the table of the
\* module that holds the program counter.
TableFound(m) == views /\ slot[m] # "absent"

\* ts_loader_destroy: the registry, the game, then FMOD.  The memory of the
\* modules, and the patches in it, go with them.
DestroyLoader ==
  /\ stage # "none"
  /\ stage' = "none"
  /\ slot' = [m \in Modules |-> "absent"]
  /\ hooks' = {}
  /\ UNCHANGED views
=============================================================================
