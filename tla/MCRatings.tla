----------------------------- MODULE MCRatings -----------------------------
(* Ratings on small sets, for TLC. *)
EXTENDS Readers, TLC

\* A passed check scores 100 at most; a failed one may be almost as high.
Scores == [verdict \in Verdict |-> IF verdict = "pass" THEN 100 ELSE 70]

\* What sends an order back to its contractor.
Rework == {"issue_found", "assigned"}

Interchangeable ==
    Permutations(Orders) \cup Permutations(Acts) \cup Permutations(Batches)
=============================================================================
