\* Three threads, the main one included, and a table of two blocks that may be
\* in use, on the garbage list, and in use anew.
CONSTANTS
    Threads = {t1, t2, t3}
    NoThread = NoThread
    First = t1
    Mutexes = {"depth", "promised"}
    Blocks = {b1, b2, b3, b4}
    TableSize = 2
    Calls = 2
SPECIFICATION Spec
INVARIANTS NoFreedRead CountExact GarbageExact
SYMMETRY BlockSymmetry
CHECK_DEADLOCK FALSE
