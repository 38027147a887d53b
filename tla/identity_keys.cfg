SPECIFICATION Spec
CONSTANTS
    Users = {ann}
    Browsers = {b1, b2}
    Passwords = {p1, p2}
    Unlocks = {t1, t2}
    NoUser = NoUser
    NoWrap = NoWrap
    MaxIds = 3
    MaxEvents = 2
SYMMETRY Symmetry
INVARIANTS TypeOK NewestIsActive KeyIdNamesItsPair
CHECK_DEADLOCK FALSE
