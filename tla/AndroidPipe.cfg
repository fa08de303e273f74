SPECIFICATION Spec
CONSTANTS
    Views = {v1}
    Capacity = 3
    MaxCalls = 2
    MaxLives = 2
    v1 = v1
INVARIANTS
    PipeInv
    ConfigurationChangeKeepsView
    PanicsOnlyLate
PROPERTY
    SendReturns
CHECK_DEADLOCK FALSE
