\* One thread whose +initialize may message the class itself.
CONSTANTS
    Threads = {t1}
    NoThread = NoThread
    Nodes <- MCNodes
    NoNode = "Nil"
    Super <- MCSuper
    ClassOf <- MCClassOf
    Mutexes = {"none"}
    Calls = 2
SPECIFICATION Spec
CHECK_DEADLOCK FALSE
INVARIANT PreparedLookupAssertion
