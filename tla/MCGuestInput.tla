----------------------------- MODULE MCGuestInput -----------------------------
(* GuestInput for TLC. *)
EXTENDS GuestInput
=============================================================================
