SPECIFICATION FairSpec
CONSTANTS
    Readers = {r1, r2}
    RequestIds <- MCAnyOrOne
    ResponseIds <- MCOneOrTwo
    MaxResponses = 2
    Interrupts = TRUE
    NONE = NONE
INVARIANT NoOrphanWaiter
PROPERTIES StoreSpec ReadSyncReturns
CHECK_DEADLOCK FALSE
