SPECIFICATION Spec
CONSTANTS
    Users = {u1}
    Sites = {s1, s2}
    Origins = {o1, o2}
    Requests = {r1, r2}
    Owner <- MCOwner
    Life = 1
    MaxAttempts = 2
    MaxNonce = 3
    NoSite = NoSite
    NoRequest = NoRequest
SYMMETRY MCSymmetry
CONSTRAINT FewServed
INVARIANTS
    ActiveIsShown
    AttemptsPaid
