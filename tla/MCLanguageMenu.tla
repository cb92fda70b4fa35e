--------------------------- MODULE MCLanguageMenu ---------------------------
(***************************************************************************)
(* LanguageMenu for model checking, with the seven choices of the program. *)
(***************************************************************************)
EXTENDS LanguageMenu
=============================================================================
