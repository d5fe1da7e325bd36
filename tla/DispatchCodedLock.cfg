\* Two threads and a runtime lock of thread.c.
CONSTANTS
    Threads = {t1, t2}
    NoThread = NoThread
    Nodes <- MCNodes
    NoNode = "Nil"
    Super <- MCSuper
    ClassOf <- MCClassOf
    Mutexes = {"depth"}
    Calls = 2
SPECIFICATION CarefulSpec
CHECK_DEADLOCK FALSE
INVARIANT InstallAssertions
