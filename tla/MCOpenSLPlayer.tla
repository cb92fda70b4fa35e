--------------------------- MODULE MCOpenSLPlayer ---------------------------
(* OpenSLPlayer for TLC. *)
EXTENDS OpenSLPlayer

=============================================================================
