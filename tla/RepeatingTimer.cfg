SPECIFICATION RTSpec
CONSTANTS
    Timers = {1, 2, 3, 4, 5}
    Ticks = {2, 3, 4, 5}
    Delays = {0, 1}
    Interval = 1
    Backends = {"darwin", "linux", "win32"}
    MaxPosts = 1
INVARIANTS
    EarliestTimerArmed
    TicksInv
PROPERTIES
    CancelIsFinal
    TimerFires
CHECK_DEADLOCK FALSE
