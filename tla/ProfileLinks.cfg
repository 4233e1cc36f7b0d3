SPECIFICATION LinksSpec
CONSTANTS
    Servers = {a, b}
    Links = {l1, l2, l3}
    Threads = {t1, t2}
    Consents <- MCConsents
    Pending = 2
    Lifetime = 3
    Room = 2
    MaxNow = 6
    NoLink = NoLink
    NoThread = NoThread
    Unused = Unused
    Gone = Gone
    Idle = Idle
SYMMETRY MCSymmetry
CHECK_DEADLOCK FALSE
INVARIANTS
    TypeOK
    GrantAccounted
    PairAgrees
PROPERTIES
    RoundDelivers
