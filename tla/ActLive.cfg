\* Two requests interleave, none dies: submitted acts are decided.
SPECIFICATION FairSpec
CONSTANTS
    Orders = {o1}
    Acts = {a1}
    Contractors = {c1}
    Reviewers = {u1}
    Batches = {n1, n2}
    Slots = {s1, s2}
    PatchTargets <- ManualStatuses
    MaxDeaths = 0
    None = None
    Keep = Keep
PROPERTIES SubmittedIsAlwaysDecided
