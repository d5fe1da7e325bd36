\* Three clients that do not nest locks.
CONSTANTS
    Threads = {t1, t2, t3}
    NoThread = NoThread
    MaxNest = 1
SPECIFICATION LiveSpec
CHECK_DEADLOCK FALSE
INVARIANT MutualExclusion
PROPERTIES ImplementsReentrantLock Progress
