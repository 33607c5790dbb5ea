SPECIFICATION Spec
CONSTANTS
    Readers = {r1, r2}
    RequestIds <- MCAll
    ResponseIds <- MCAll
    MaxResponses = 2
    Interrupts = TRUE
    NONE = NONE
INVARIANT NoDanglingUp
CHECK_DEADLOCK FALSE
