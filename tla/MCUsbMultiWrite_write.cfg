\* The multi-write path under every event that can reach its thread.
CONSTANTS
    Bufs = {b1, b2}
    MaxWrites = 2
    LongWrites = {2}
    Retries = 1
    MaxRequests = 2
    NONE = NONE
SPECIFICATION Spec
INVARIANTS
    WriteInOnePlace
    WriterAwake
    DeliveredInOrder
    RequestsRemembered
    DrainGoesOn
\* A closed transport, or one whose device is gone, stops.
CHECK_DEADLOCK FALSE
