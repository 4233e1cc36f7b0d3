SPECIFICATION LinksSpec
CONSTANTS
    Servers = {a, b}
    Links = {l1, l2}
    Threads = {t1, t2}
    Consents <- MCConsents
    Pending = 1
    Lifetime = 1
    Room = 2
    MaxNow = 1
    NoLink = NoLink
    NoThread = NoThread
    Unused = Unused
    Gone = Gone
    Idle = Idle
SYMMETRY MCSymmetry
CHECK_DEADLOCK FALSE
INVARIANTS
    KnownTokenRetained
