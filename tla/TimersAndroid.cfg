SPECIFICATION Spec
CONSTANTS
    Timers = {1}
    Delays = {0, 1}
    Backends = {"android"}
    MaxPosts = 0
PROPERTY
    EveryTimerFires
CHECK_DEADLOCK FALSE
