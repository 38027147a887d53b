SPECIFICATION MfaSpec
CONSTANTS
    Requests = {r1, r2}
    MaxFactors = 2
SYMMETRY Symmetry
INVARIANT AtMostOneActive
CHECK_DEADLOCK FALSE
