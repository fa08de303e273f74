SPECIFICATION FairSpec
CONSTANTS
    Tasks = {t1}
    Main = Main
    Ext = Ext
    Stale = Stale
    NoOne = NoOne
    Backends = {FALSE}
    TimedWaits = {TRUE}
    MaxCallbacks = 0
    MaxBlocks = 2
    MaxRewakes = 0
PROPERTY
    BlockOnReturns
CHECK_DEADLOCK FALSE
