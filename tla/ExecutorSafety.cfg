SPECIFICATION Spec
CONSTANTS
    Tasks = {t1, t2}
    Main = Main
    Ext = Ext
    Stale = Stale
    NoOne = NoOne
    Backends = {TRUE, FALSE}
    TimedWaits = {FALSE}
    MaxCallbacks = 1
    MaxBlocks = 1
    MaxRewakes = 1
SYMMETRY Symmetry
INVARIANTS
    ExecutorInv
CHECK_DEADLOCK FALSE
