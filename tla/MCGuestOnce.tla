---------------------------- MODULE MCGuestOnce -----------------------------
(* GuestOnce for TLC: the initialiser of a calls that of b. *)
EXTENDS GuestOnce, TLC

CONSTANTS a, b

MCNested == {<<a, b>>}

=============================================================================
