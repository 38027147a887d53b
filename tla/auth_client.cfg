SPECIFICATION Spec
CONSTANTS
    Tabs = {t1, t2}
    Calls = {c1, c2}
    MaxTokens = 3
    NoTab = NoTab
    Visited = TRUE
    MaxEvents = 1
SYMMETRY Symmetry
INVARIANTS TypeOK OneRefreshPerTab SessionNotAheadOfBearer WaitersHaveARefresh
PROPERTIES ImplementsSessionLife
CHECK_DEADLOCK FALSE
