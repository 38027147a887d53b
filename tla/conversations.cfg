SPECIFICATION Spec
CONSTANTS
    Requests = {r1, r2, r3}
    Users = {alice, bob, carol}
    Convs = {c1}
    NoUser = NoUser
    NoConv = NoConv
    MaxMessages = 2
SYMMETRY Symmetry
INVARIANTS TypeOK NoWaitCycle
PROPERTIES ImplementsMemberLife RemovalUndoneByAdminOnly MembershipChangesAuthorized
