\* One request at a time among the queries of a recalculation.
SPECIFICATION ReaderSpec
CONSTANTS
    Orders = {o1, o2}
    Acts = {a1, a2}
    Contractors = {c1}
    Reviewers = {u1}
    Batches = {n1, n2}
    Slots = {s1}
    PatchTargets <- Rework
    MaxDeaths = 1
    None = None
    Keep = Keep
    Contractor = c1
    auto_check_score <- Scores
    MaxRecalcs = 1
SYMMETRY Interchangeable
INVARIANTS ReaderTypeOK OrderBackedByAct
PROPERTIES CountsAccepted ScaleHoldsWithoutRework DetailTellsVerdict SummaryAddsUp
