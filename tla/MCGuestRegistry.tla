--------------------------- MODULE MCGuestRegistry ---------------------------
(* GuestRegistry for TLC. *)
EXTENDS GuestRegistry
=============================================================================
