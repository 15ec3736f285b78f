CONSTANTS
    w1 = w1  w2 = w2  w3 = w3
    k1 = k1  k2 = k2  k3 = k3
    Workers <- MCWorkers
    Keys <- MCKeys
    Routed <- MCRouted
    Cleaner = Cleaner  NoThread = NoThread  NoKey = NoKey
    NoAnswer = NoAnswer  Garbage = Garbage
SYMMETRY Symmetry
SPECIFICATION SafeSpec
INVARIANTS TypeOK IteratorValid NobodyWaitsWithTheLock
PROPERTIES EraseOnlyExpired StableUnderLock UndisturbedCopyIsCurrent
