---------------------------- MODULE MCEglBinding ----------------------------
(* EglBinding for TLC: threads and handles are interchangeable. *)
EXTENDS EglBinding, TLC

HandleSymmetry == Permutations(Threads) \union Permutations(Contexts)

=============================================================================
