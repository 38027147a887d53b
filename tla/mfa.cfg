SPECIFICATION MfaSpec
CONSTANTS
    Requests = {r1, r2, r3}
    MaxFactors = 3
SYMMETRY Symmetry
INVARIANTS MfaTypeOK ActiveWasProved
PROPERTIES DisabledForGood
CHECK_DEADLOCK FALSE
