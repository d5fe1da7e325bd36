\* Three clients that nest up to three locks.
CONSTANTS
    Threads = {t1, t2, t3}
    NoThread = NoThread
    MaxNest = 3
SPECIFICATION Spec
CHECK_DEADLOCK FALSE
INVARIANTS TypeOK OwnerHoldsBackend NoLeak
PROPERTY ImplementsDepthLock
