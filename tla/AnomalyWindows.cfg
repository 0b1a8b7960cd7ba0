\* The code's windows; a rate in order, halved, a little off, or not sent.
SPECIFICATION Spec
CONSTANTS
    CURRENT_WINDOW_HOURS = 6
    BASELINE_WINDOW_HOURS = 24
    MIN_BASELINE_POINTS = 8
    DATA_GAP_HOURS = 4
    Values = {50, 95, 100, 105}
    MaxChanges = 2
INVARIANTS HalvedRateIsReported NoiseIsQuiet
PROPERTIES AlarmsClear
