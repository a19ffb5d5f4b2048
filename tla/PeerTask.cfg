SPECIFICATION MCSpec
CONSTANTS
    Workers = {w1, w2}
    Pull = pull
    Sizes = {1, 4}
    PieceSize = 2
    BufferSize = 1
    CalculateDigest = TRUE
    MaxDisturbances = 1
INVARIANTS TypeOK SuccessIsWhole FinishedStreamIsWhole OverIsReported ToldOnce
SYMMETRY Symmetry
CHECK_DEADLOCK FALSE
