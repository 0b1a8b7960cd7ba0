\* Two required steps, one with a norm, and an optional one; up to two rows of
\* each, as overlapping submits leave them.
SPECIFICATION Spec
CONSTANTS
    Steps = {s1, s2, s3}
    Required = {s1, s2}
    Normed = {s1}
    MaxListed = 2
INVARIANTS TypeOK GeoDecidesShortChecklists
PROPERTIES CorrectionNeverHurts
