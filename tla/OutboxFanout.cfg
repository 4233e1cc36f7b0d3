SPECIFICATION Spec
CONSTANTS
    Users = {1, 2, 3}
    Points = {p1}
    Batch = 1
    Limit = 1
    MaxSeq = 6
    NoPoint = NoPoint
INVARIANTS
    DoneIsDelivered
PROPERTIES
    Implements
    AllDelivered
CHECK_DEADLOCK FALSE
