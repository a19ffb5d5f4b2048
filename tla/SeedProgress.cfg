SPECIFICATION MCSpec
CONSTANTS
    Watchers = {w1, w2}
    MaxPieces = 2
    Capacity = 1
    MaxObjects = 2
    MaxTriggers = 2
    MaxWriters = 1
    MaxDisturbances = 1
SYMMETRY Symmetry
INVARIANTS TypeOK CaughtUp ClosedIsDrained NoneLeftBehind OneDownload
CHECK_DEADLOCK FALSE
