SPECIFICATION MCSpec
CONSTANTS
    w1 = w1
    w2 = w2
    w3 = w3
    ctl = ctl
    file = file
    Writers = {w1, w2, w3}
    Clients = {ctl, file}
    ClientOf <- Sharing
    MaxURBs = 2
    Releases = TRUE
    Timeouts = TRUE
    Devs = {usb0, mux1}
    Main = usb0
    Lens <- MCLens
    Probed <- MCProbed
    Negotiated <- MCNegotiated
    RestartBelow = 2
    PendingCnt = 2
    MaxPackets = 3
    NoFrame = NoFrame
INVARIANTS
    PopsOwnURB SemaphoreInScope NoURBLost FreedAtRest
    OrderKept EveryPacketOnce FrameFits HeldHasTimer
PROPERTIES WriteSyncReturns PacketLeaves
CHECK_DEADLOCK FALSE
