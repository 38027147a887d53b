SPECIFICATION Spec
CONSTANTS
    Users = {ann, bob}
    Tasks = {t1, t2}
    MaxKeys = 2
    MaxMessages = 2
    NoUser = NoUser
    MaxPuts = 1
    MaxEvents = 1
SYMMETRY Symmetry
INVARIANTS TypeOK KeysAreAnnounced KeysHaveASource
CHECK_DEADLOCK FALSE
