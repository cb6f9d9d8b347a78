SPECIFICATION Spec
CONSTANTS
    MaxVersion = 2
    Slots = 3
    MaxFailures = 1
    MaxReloads = 1
    n1 = n1
    n2 = n2
    None = None
    Nodes = {n1, n2}
    Workers = {1, 2}
    Deployments <- MCDeployments
    Places <- MCPlaces
    Requests <- MCRequests
    Booting <- MCBooting
    MaxChanges = 1
    Objects = {o1, o2}
    NServers = 2
    MaxCalls = 3
    MaxEdits = 2
INVARIANTS MissingAgentIsReported
CHECK_DEADLOCK FALSE
