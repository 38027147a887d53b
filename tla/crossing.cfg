SPECIFICATION Spec
CONSTANTS
    Users = {ann, bob}
    Tasks = {t1, t2}
    MaxKeys = 2
    MaxMessages = 2
    NoUser = NoUser
    MaxPuts = 2
    MaxEvents = 0
SYMMETRY Symmetry
INVARIANT CachesAgree
CHECK_DEADLOCK FALSE
