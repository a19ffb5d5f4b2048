SPECIFICATION FairSpec
CONSTANTS
    Threads = {t1, t2, t3}
    Keys = {k1, k2}
    Lockers = {l1, l2, l3}
    NoKey = NoKey
    NoLocker = NoLocker
INVARIANTS TypeOK MutualExclusion CountIsUsers PooledIsClean
PROPERTIES ImplementsKeyedRWLock EventuallyLocked
