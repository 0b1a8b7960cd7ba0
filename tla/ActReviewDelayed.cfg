\* The review of an act that failed its automatic check.
SPECIFICATION Spec
CONSTANTS
    Orders = {o1}
    Acts = {a1, a2}
    Contractors = {c1}
    Reviewers = {u1}
    Batches = {n1, n2}
    Slots = {s1}
    PatchTargets <- WorkOrderStatus
    MaxDeaths = 0
    None = None
    Keep = Keep
SYMMETRY Interchangeable
INVARIANTS DelayedActCanBeReviewed
