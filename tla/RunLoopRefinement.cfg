SPECIFICATION FairSpec
CONSTANTS
    NoOne = NoOne
    Hosts = {h1}
    Calls = {k1}
    Posts = {p1}
    MaxGens = 2
    MaxGuards = 2
    HostContext = FALSE
PROPERTIES
    EveryCallReturns
    AcceptedPostRuns
    ServiceSpec
CHECK_DEADLOCK FALSE
