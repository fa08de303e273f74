SPECIFICATION Spec
CONSTANTS
    Views = {v1, v3}
    Children = {v1}
    Parents = {p1, p2}
    Sizes = {"small", "large"}
    Pages = {"a"}
    Failures = {"position", "env callback", "controller", "controller callback", "init", "focus"}
    MaxRequests = 2
    v1 = v1
    v3 = v3
    p1 = p1
    p2 = p2
INVARIANTS
    LastRequestHolds
    ControllersInv
PROPERTY
    CreationEnds
CHECK_DEADLOCK FALSE
