SPECIFICATION Spec
CONSTANTS
    w1 = w1
    w2 = w2
    w3 = w3
    ctl = ctl
    file = file
    Writers = {w1, w2, w3}
    Clients = {ctl, file}
    ClientOf <- Sharing
    MaxURBs = 1
    Releases = TRUE
    Timeouts = FALSE
INVARIANT InFlightNotFreed
CHECK_DEADLOCK FALSE
