\* A root with a class that has two subclasses, in one chain or two, in several orders,
\* some of them registered by the calls of three threads.
CONSTANTS
    Threads = {t1, t2, t3}
    NoThread = NoThread
    root = root
    middle = middle
    left = left
    right = right
    Classes = {root, middle, left, right}
    Nil = Nil
    SuperOf <- Fork
    Registered <- NoneSomeAll
    Buckets = 2
    Calls = 3
SPECIFICATION Spec
INVARIANTS OneNodePerName EnumerationComplete PosesHold
PROPERTY ImplementsMap
SYMMETRY ThreadSymmetry
CHECK_DEADLOCK FALSE
