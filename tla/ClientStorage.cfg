SPECIFICATION MCSpec
CONSTANTS
    Peers = {p1, p2}
    Nobody = nobody
    NPieces = 2
    Quota = 1
    KeepStorage = FALSE
    MaxDisturbances = 2
INVARIANTS TypeOK ReusedIsWhole CompletedSurvives NoStrayDirectory MarkedIsListed
PROPERTIES LeaveBeforeRemoval
SYMMETRY Symmetry
CHECK_DEADLOCK FALSE
