\* Requests that overlap are for different orders; managers write by hand the
\* statuses acts produce, and those that lead to them again.
SPECIFICATION Spec
CONSTANTS
    Orders = {o1, o2}
    Acts = {a1, a2}
    Contractors = {c1}
    Reviewers = {u1}
    Batches = {n1, n2}
    Slots = {s1, s2}
    PatchTargets <- ByHand
    MaxDeaths = 1
    None = None
    Keep = Keep
CONSTRAINT Apart
SYMMETRY Interchangeable
INVARIANTS AuditTellsStatus ConfirmedIsEarned VerdictIsAboutResponses
PROPERTIES ActFollowsTable OrderBoardSpec
