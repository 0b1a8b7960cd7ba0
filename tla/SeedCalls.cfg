\* Three calls at once, and a midnight.
SPECIFICATION Spec
CONSTANTS
    Calls = {k1, k2, k3}
    LastDay = 1
SYMMETRY Interchangeable
INVARIANTS TypeOK AnsweredIsComplete
PROPERTIES SeededOnce
