------------------------------ MODULE ReadyGate ------------------------------
(***************************************************************************)
(* What the capability gate of framework_bridge promises: receipts are     *)
(* collected in any order, the gate opens only when all of them are there, *)
(* and it never closes again.                                              *)
(***************************************************************************)
CONSTANT Receipts

VARIABLES received,  \* the kinds of receipts collected so far
          open       \* the gate has accepted the complete set

Init == received = {} /\ open = FALSE

Receive(k) ==
    /\ received' = received \cup {k}
    /\ UNCHANGED open

Open ==
    /\ received = Receipts
    /\ open' = TRUE
    /\ UNCHANGED received

Next == Open \/ \E k \in Receipts : Receive(k)

Spec == Init /\ [][Next]_<<received, open>>
=============================================================================
