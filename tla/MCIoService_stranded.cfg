\* A task sent while the idle worker leaves is never answered.
SPECIFICATION FairSpec
CONSTANTS
    a = a
    b = b
    Callers <- TwoCallers
    Capacity = 1
PROPERTIES
    CallersAnswered
CHECK_DEADLOCK FALSE
