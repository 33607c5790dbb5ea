SPECIFICATION Spec
CONSTANTS
    NumURBs = 3
    BufLen = 4
    UrbLen = 2
    ReadSizes <- MCReadSizes
    MaxBytes = 7
    Consumers = {c1}
    Dpl = FALSE
    Suspends = TRUE
    NONE = NONE
INVARIANTS StreamIntact ReaderWindow URBNotLost FreeSpaceAgrees
PROPERTY StreamSpec
CHECK_DEADLOCK FALSE
