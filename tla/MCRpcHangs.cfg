SPECIFICATION Spec
CONSTANTS
    Requests = {r1}
    OVERFLOW = 2
    MaxResends = 1
    MaxCloses = 1
    MaxRefused = 0
    MaxErrors = 0
PROPERTIES EveryCallEnds
CHECK_DEADLOCK FALSE
