SPECIFICATION MCSpec
CONSTANTS
    Schedulers = {s1, s2}
    NoList = NoList
    MaxDisturbances = 6
PROPERTY ListConverges
CHECK_DEADLOCK FALSE
