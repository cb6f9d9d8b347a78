CONSTANTS
    NRings = 3
    Entered = {3}
    Calls = {c1, c2}
    MaxCrashes = 2
SPECIFICATION FairSpec
PROPERTIES ImplementsObjectStore CallsEndUnlessUpsaveWaits
CHECK_DEADLOCK FALSE
