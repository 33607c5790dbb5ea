\* Requests of NDIS, the messages they become, their answers, and a reset.
CONSTANTS
    Services = {s1}
    Oids = {o1, o2}
    NumReads = 1
    MaxPendingQMIReqs = 1
    RESET_TIMEOUT = 1
    MaxRequests = 2
    MaxFaults = 1
    NONE = NONE
SPECIFICATION FairSpec
INVARIANTS
    OwnAnswer
    LimitKept
    CountsAgree
PROPERTY RequestEnds
\* All requests made and answered, the model stops.
CHECK_DEADLOCK FALSE
