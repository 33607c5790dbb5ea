\* Reads of every class of time-outs under all that can reach the thread.
CONSTANTS
    Kinds = {"none", "total", "any", "now", "interval"}
    Urbs = 2
    UrbSize = 2
    RingSize = 2
    ReadLength <- MCReadLength
    MaxBytes = 3
    MaxReads = 2
    MaxRequests = 2
    NONE = NONE
SPECIFICATION Spec
INVARIANTS
    ServedInOrder
    WaiterGetsData
    WaitingReadTimed
    WaiterFed
\* A closed port, or one with all reads served, stops.
CHECK_DEADLOCK FALSE
