SPECIFICATION Spec
CONSTANTS
    Views = {1, 2}
    MaxInvokes = 2
    MaxPages = 2
    EvalFails = {TRUE, FALSE}
    Parses = {TRUE, FALSE}
INVARIANTS
    CommandInv
    CommandsStartInOrder
PROPERTY
    EveryInvokeSettles
CHECK_DEADLOCK FALSE
