SPECIFICATION WorkerSpec
CONSTANTS
    A = a
    B = b
    Keys = {1, 2}
    Kind <- MCKind
    Home <- MCHome
    Old <- MCOld
    Skew <- MCSkew
    Ahead = 3
    Forth = {"favorites"}
    Back = {"favorites", "own_points"}
    Choices <- MCChoices
    PageSize = 1
    Threads = {w, h}
    Worker = w
    MaxEdits = 2
    MaxStalls = 0
    None = None
    Links = {l1, l2}
    Rooms = 2
    Unused = Unused
    Gone = Gone
CHECK_DEADLOCK FALSE
PROPERTIES
    VersionsForward
    ConsentAtApply
    Convergence
    RevocationDelivered
