--------------------------- MODULE MCActLifecycle ---------------------------
(* ActLifecycle on small sets, for TLC. *)
EXTENDS ActProperties, TLC

\* Statuses a manager writes by hand when acts produce all the others.
ManualStatuses == {"draft", "assigned", "in_progress", "issue_found",
                   "cancelled"}

\* The statuses acts produce, and those that lead to them again.
ByHand == {"assigned", "in_progress", "submitted", "auto_confirmed",
           "delayed_verification", "issue_found", "confirmed"}

Interchangeable ==
    Permutations(Orders) \cup Permutations(Contractors)
        \cup Permutations(Batches)
        \cup Permutations(Slots) \cup Permutations(Acts)
=============================================================================
