------------------------------ MODULE MCField ------------------------------
(* Field on small sets, for TLC. *)
EXTENDS Field, TLC

\* What sends an order back to its contractor.
Rework == {"issue_found", "assigned"}

Interchangeable ==
    Permutations(Orders) \cup Permutations(Acts) \cup Permutations(Slots)
        \cup Permutations(Taps) \cup Permutations(Sends)
=============================================================================
