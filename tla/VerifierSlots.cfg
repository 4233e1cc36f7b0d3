SPECIFICATION Spec
CONSTANTS
    Requests = {r1, r2, r3}
    Slots <- MCSlots
    Seconds <- MCSeconds
    Grace = 3
    Pause = 1
    Kill = 1
    NoRequest = NoRequest
    r1 = r1
    r2 = r2
    r3 = r3
INVARIANTS
    FetchesBounded
PROPERTIES
    SlotsRecover
