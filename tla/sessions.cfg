SPECIFICATION Spec
CONSTANTS
    Requests = {r1, r2}
    Users = {alice}
    SessionIds = {s1, s2}
    MaxTokens = 3
    NoUser = NoUser
    NoSession = NoSession
    RefreshTtl = 2
    AccessTtl = 1
    MaxNow = 2
SYMMETRY Symmetry
INVARIANTS TypeOK CurrentTokenDelivered
PROPERTIES ImplementsSessionLife ReplayIsRefused
