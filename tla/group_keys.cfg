SPECIFICATION Spec
CONSTANTS
    alice = alice
    Users = {alice, bob, carol}
    Admin = alice
    MaxKeys = 2
    MaxLog = 3
    MaxChanges = 2
SYMMETRY Symmetry
INVARIANTS TypeOK NothingBeforeJoining CurrentIsNewestHeld KeysAreBoundToEpochs
CHECK_DEADLOCK FALSE
