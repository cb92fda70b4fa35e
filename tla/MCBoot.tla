------------------------------- MODULE MCBoot -------------------------------
(***************************************************************************)
(* Boot for model checking: two calls of System::init on each system, and  *)
(* reports that differ in what their validity reads.                       *)
(***************************************************************************)
EXTENDS Boot

MCReports ==
  {[selected |-> TRUE, complete |-> TRUE, owner |-> o, sdlHandles |-> h,
    nativeDisplay |-> TRUE, legacy |-> 1, handles |-> 1, egl |-> e] :
     o \in {"sdl", "raw"}, h \in BOOLEAN, e \in {1, 2}}
=============================================================================
