SPECIFICATION MCFairSpec
CONSTANTS
    Workers = {w1}
    Pull = pull
    Sizes = {1, 4}
    PieceSize = 2
    BufferSize = 1
    CalculateDigest = TRUE
    MaxDisturbances = 1
PROPERTIES BackSourceEnds CancelEnds
CHECK_DEADLOCK FALSE
