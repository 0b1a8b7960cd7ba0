\* Two calls in two seconds of three ticks each, from one address.
SPECIFICATION LoginSpec
CONSTANTS
    Keys = {ip1}
    max_calls = 2
    window_sec = 2
    Second = 3
    MaxTime = 11
    Users = {u1}
    Slots = {s1, s2}
    None = None
SYMMETRY Interchangeable
INVARIANTS LoginTypeOK WindowIsRespected AttemptsAreAudited
PROPERTIES BackInTimeIsServed DeactivatedGetsNothing
