SPECIFICATION FairSpec
CONSTANTS
    Readers = {r1, r2, r3}
    PoolSize = 3
    MaxStored = 2
    NONE = NONE
INVARIANTS SingleCopier FillHasData HeadIsTold
PROPERTY ReaderServed
CHECK_DEADLOCK FALSE
