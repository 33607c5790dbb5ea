SPECIFICATION Spec
CONSTANTS
    ClientIds <- MCClientIds
    QMICTL <- MCQMICTL
    MaxRequests = 4
    MaxIndications = 2
    QMIWDS <- MCQMIWDS
    Limits <- MCLimits
    NONE = NONE
    Files = {f1, f2}
    DEREG = DEREG
    TxMod = 3
    END = END
INVARIANTS OwnAnswer IDsDistinct OneTransfer IndicationsCounted HandledInOrder
SYMMETRY Symmetry
CHECK_DEADLOCK FALSE
