\* Two reads at a time.
CONSTANTS
    Kinds = {"none", "total", "any", "now", "interval"}
    Urbs = 2
    UrbSize = 2
    RingSize = 2
    ReadLength <- MCReadLength
    MaxBytes = 3
    MaxReads = 2
    MaxRequests = 1
    NONE = NONE
SPECIFICATION Spec
INVARIANTS
    ReadsReturn
CHECK_DEADLOCK FALSE
