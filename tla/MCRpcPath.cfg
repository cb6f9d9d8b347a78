SPECIFICATION Spec
CONSTANTS
    Requests = {r1, r2, r3}
    OVERFLOW = 2
    MaxResends = 1
    MaxCloses = 1
    MaxRefused = 1
    MaxErrors = 1
INVARIANTS EachAnsweredOnce
PROPERTIES CallsEndUnlessCut
CHECK_DEADLOCK FALSE
