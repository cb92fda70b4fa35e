---------------------------- MODULE MCGuestMutex ----------------------------
(* GuestMutex for TLC. *)
EXTENDS GuestMutex, TLC

ThreadSymmetry == Permutations(Threads)

=============================================================================
