SPECIFICATION MCFairSpec
CONSTANTS
    Clients = {c1, c2}
    CDNs = {d1}
    NoPeer = NoPeer
    Hosts = {c1, c2, d1}
    HostOf <- OwnHost
    TotalUploadLoad = 1
    BackSourceCount = 1
    MaxRescheduleTimes = 0
    CDNEnabled = TRUE
    MaxPieces = 1
    Faults = {"leave"}
    MaxInFlight = 1
    MaxQueue = 1
    MaxDisturbances = 1

PROPERTY WaiterAnswered
CHECK_DEADLOCK FALSE
