SPECIFICATION FairSpec
CONSTANTS
    Threads = {t1, t2, t3}
    Keys = {k1}
    Mutexes = {x1, x2, x3, x4}
    NoKey = NoKey
    NoMutex = NoMutex
PROPERTY EventuallyLocked
CHECK_DEADLOCK FALSE
