SPECIFICATION Spec
CONSTANTS
    Views = {w1}
    View = w1
    Clones = {c1, c2}
    First = c1
    OnLoop = {c1}
    Droppers = {c2}
    MaxSends = 3
    EvalFails = {TRUE, FALSE}
    Serializes = {TRUE, FALSE}
INVARIANTS
    DeliveredInOrder
    StoreInv
PROPERTY
    MessageIsDelivered
CHECK_DEADLOCK FALSE
