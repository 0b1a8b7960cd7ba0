\* Two photos, one file lost; no symmetry, for the liveness property.
SPECIFICATION Spec
CONSTANTS
    Photos = {p1, p2}
    MaxLost = 1
    None = None
INVARIANTS TypeOK RowHasItsFile CheckedWereAnswered
PROPERTIES CheckEnds
