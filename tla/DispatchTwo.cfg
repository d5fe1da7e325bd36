\* Two threads and the recursive lock the code relies on.
CONSTANTS
    Threads = {t1, t2}
    NoThread = NoThread
    Nodes <- TwoNodes
    NoNode = "Nil"
    Super <- TwoSuper
    ClassOf <- TwoClassOf
    Mutexes = {"promised"}
    Calls = 3
SPECIFICATION CarefulSpec
CHECK_DEADLOCK FALSE
INVARIANTS AssertionsHold InitializedOnce LookupsSeeUpdates NothingHalfDone
PROPERTY EveryCallReturns
