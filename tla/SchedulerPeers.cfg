SPECIFICATION MCSpec
CONSTANTS
    Clients = {c1, c2}
    CDNs = {d1}
    NoPeer = NoPeer
    Hosts = {c1, c2, d1}
    HostOf <- OwnHost
    TotalUploadLoad = 1
    BackSourceCount = 1
    MaxRescheduleTimes = 0
    CDNEnabled = TRUE
    MaxPieces = 2
    Faults = {"fail", "leave", "pieceFail", "seedFail"}
    MaxInFlight = 1
    MaxQueue = 1
    MaxDisturbances = 1
SYMMETRY Symmetry
INVARIANTS TypeOK NoForgottenPeer TreeShape
PROPERTY DoneStaysDone
CHECK_DEADLOCK FALSE
