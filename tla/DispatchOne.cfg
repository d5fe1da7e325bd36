\* One thread; no lock, as the library is shipped, or a mutex of thread.c.
CONSTANTS
    Threads = {t1}
    NoThread = NoThread
    Nodes <- MCNodes
    NoNode = "Nil"
    Super <- MCSuper
    ClassOf <- MCClassOf
    Mutexes = {"none", "depth"}
    Calls = 4
SPECIFICATION Spec
CHECK_DEADLOCK FALSE
INVARIANTS InstalledIsInitialized TablesAgree
