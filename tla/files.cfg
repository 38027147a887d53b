SPECIFICATION Spec
CONSTANTS
    Files = {f1, f2}
    Browsers = {ann, bob}
    Sender = ann
    Loads = {l1, l2, l3}
    MaxEvents = 2
SYMMETRY Symmetry
INVARIANTS TypeOK ServedIsWhole ObjectIsThere OneDownloadPerFile
CHECK_DEADLOCK FALSE
