SPECIFICATION ManagementSpec
CONSTANTS
    Users = {u1}
    Tokens = {t1, t2}
    Slots = {w1, w2}
    Sites = {s1}
    Requests = {r1, r2}
    SessionLife = 2
    PendingLife = 1
    CodeLife = 1
    MaxRecoveries = 1
    Room = 2
    MaxCodes = 2
    None = None
    Gone = Gone
    Server = "server"
    SiteScopes = {"s"}
    Members = {"a", "b", "u"}
    Points = {"p"}
    Owner <- MCOwner
    Author <- MCAuthor
    Reporters = {"a", "u"}
    Retention = 2
    Durations = {0, 1}
    Grants = {"none", "moderator", "admin"}
    MaxNow = 2
    Involved = {"a", "u"}
    Editors = {1, 2}
    MaxRevisions = 3
    MaxTexts = 3
    Unloaded = Unloaded
    Maximum = 2
    Seconds = 3
    People = {1, 2, 3}
    Targets = {1, 2, 3}
    Units = 2
    MaxShare = 4
SYMMETRY MCSymmetry
CHECK_DEADLOCK FALSE
INVARIANTS
    InfluenceConserved
    SessionsCurrent
    ConnectsOnce
    RetentionCounts
    LimitExact
PROPERTIES
    WidgetObeys
    AdminRemains
    QuarantineHolds
    NothingOverwritten
