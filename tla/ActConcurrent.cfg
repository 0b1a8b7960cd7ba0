\* Two requests interleave on one order and two acts.
SPECIFICATION Spec
CONSTANTS
    Orders = {o1}
    Acts = {a1, a2}
    Contractors = {c1}
    Reviewers = {u1}
    Batches = {n1}
    Slots = {s1, s2}
    PatchTargets <- ManualStatuses
    MaxDeaths = 1
    None = None
    Keep = Keep
SYMMETRY Interchangeable
INVARIANTS SessionsStayValid SubmittedIsBeingChecked ConfirmedIsAccountedFor OutcomeHasVerdict
