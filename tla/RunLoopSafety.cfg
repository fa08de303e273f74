SPECIFICATION Spec
CONSTANTS
    NoOne = NoOne
    Hosts = {h1, h2}
    Calls = {k1, k2}
    Posts = {p1}
    MaxGens = 2
    MaxGuards = 2
    HostContext = TRUE
SYMMETRY Symmetry
INVARIANTS
    TypeOK
    GuardedLoop
    InstanceThreadOnly
    NoStrandedCaller
    ErrMeansDown
PROPERTY
    ServiceSteps
CHECK_DEADLOCK FALSE
