SPECIFICATION Spec
CONSTANTS
    Calls = {c1, c2, c3}
    Background = {c3}
    Restarts = {r1}
    MaxLate = 1
    MaxLocks = 1
    MaxFrameFailures = 1
    Nodes = {n1, n2}
    Workers = {1, 2}
    Leader = n1
    Agents = {a}
    Resident = b
    NumReplicas = {0, 1}
    MaxOps = 3
    MaxFailures = 1
    MaxCrashes = 1
INVARIANTS FrameIsOrderly PlacementsAgree
PROPERTIES CallsAndStopsEnd OperationsEnd
CHECK_DEADLOCK FALSE
