\* One page, two orders, an answer lost and a request of somebody else.
CHECK_DEADLOCK FALSE
SPECIFICATION FieldSpec
CONSTANTS
    Orders = {o1, o2}
    Acts = {a1, a2}
    Contractors = {c1}
    Reviewers = {u1}
    Batches = {}
    Slots = {s1, s2}
    PatchTargets <- Rework
    MaxDeaths = 1
    None = None
    Keep = Keep
    Me = c1
    Taps = {t1, t2}
    Sends = {j1, j2}
    MaxTaps = 2
    MaxTrouble = 1
SYMMETRY Interchangeable
INVARIANTS OneDraft ShownTogether
