\* Two threads with the mutex the code relies on, and one with the mutex as
\* shipped or as coded.  Names and indices beyond the arrays' room, so that
\* each array grows, and a pool of two selectors, so that it is renewed.
CONSTANTS
    Threads = {t1, t2}
    NoThread = NoThread
    Mutexes = {"none", "depth", "promised"}
    Names = {copy, free}
    NoName = NoName
    Types = {untyped, typed}
    Untyped = untyped
    BucketSize = 1
    GrowSlack = 0
    InitialCapacity = 2
    PoolSize = 2
    Calls = 2
    MaxList = 2
SPECIFICATION LiveSpec
INVARIANTS SelectorsUnique FoundAgain
PROPERTIES EveryCallReturns ImplementsRegistry
CHECK_DEADLOCK FALSE
