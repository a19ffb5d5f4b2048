SPECIFICATION MCSpec
CONSTANTS
    c1 = c1
    c2 = c2
    k1 = k1
    k2 = k2
    n1 = n1
    n2 = n2
    Callers = {c1, c2}
    Keys = {k1, k2}
    Nodes = {n1, n2}
    Nowhere = nowhere
    Order <- RingOrder
    KindsOf <- CallerKinds
    MaxAttempts = 2
    MaxDisturbances = 1
PROPERTIES CallEnds GivesUpAfterAsking StickyKeys StreamKept
CHECK_DEADLOCK FALSE
