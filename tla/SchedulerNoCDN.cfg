SPECIFICATION MCSpec
CONSTANTS
    Clients = {c1, c2}
    CDNs = {d1}
    NoPeer = NoPeer
    Hosts = {c1, c2, d1}
    HostOf <- OwnHost
    TotalUploadLoad = 1
    BackSourceCount = 1
    MaxRescheduleTimes = 0
    CDNEnabled = FALSE
    MaxPieces = 2
    Faults = {"disconnect", "busy", "outlier", "late", "ownSource",
              "idle", "expire", "taskIdle"}
    MaxInFlight = 1
    MaxQueue = 1
    MaxDisturbances = 1
SYMMETRY Symmetry
INVARIANT NoForgottenPeer
PROPERTY DoneStaysDone
CHECK_DEADLOCK FALSE
