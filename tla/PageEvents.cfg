SPECIFICATION Spec
CONSTANTS
    Backends = {"gtk", "wk", "webview2"}
    MaxLoads = 2
    MaxEvals = 2
    MaxPosts = 1
    MaxResources = 1
    MaxDownloads = 2
    MaxPopups = 3
    MaxDrags = 3
    MaxCookieCalls = 3
    MaxViews = 3
    ViewIds = {"a", "b"}
    Protocols = {"p", "q"}
    Windows = {"w", "x"}
INVARIANTS
    PageInv
    KeyOfRunningTask
    DownloadIsReported
    ViewGoesWithItsWindow
    EventsTellOfTheirDrag
    ViewKeepsItsParts
PROPERTIES
    EvalRuns
    AnswerArrives
    CookieCallReturns
CHECK_DEADLOCK FALSE
