---------------------------- MODULE MCGuestFiles ----------------------------
(* GuestFiles for TLC.  The symmetry serves the run without liveness. *)
EXTENDS GuestFiles, TLC

ThreadSymmetry == Permutations(Threads)

=============================================================================
