SPECIFICATION FairSpec
CONSTANTS
    Tasks = {t1, t2}
    Main = Main
    Ext = Ext
    Stale = Stale
    NoOne = NoOne
    Backends = {FALSE}
    TimedWaits = {FALSE}
    MaxCallbacks = 1
    MaxBlocks = 1
    MaxRewakes = 0
PROPERTIES
    WokenTaskIsPolled
    JoinerResumes
    BlockOnReturns
CHECK_DEADLOCK FALSE
