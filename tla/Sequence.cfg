SPECIFICATION SequenceSpec
CONSTANTS
    Starts = {0, 300, 1757}
    Period = 4
    MaxFlight = 4
INVARIANT
    NeverWrongNumber
CHECK_DEADLOCK FALSE
