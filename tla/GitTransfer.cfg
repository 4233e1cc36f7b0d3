SPECIFICATION MovingSpec
CONSTANTS
    s1 = s1 s2 = s2 p1 = p1 p2 = p2 p3 = p3 r1 = r1
    Sites = {s1, s2}
    Repos = {p1, p2, p3}
    Roots = {r1}
    Requests = {q1}
    Worker = w
    None = None
    MaxGen = 2
    MaxCommit = 2
    MaxIdentity = 2
    MaxPreviews = 3
    MaxSettings = 2
    For <- MCFor
    Carries <- MCCarries
PROPERTY
    TransfersConfirmed
