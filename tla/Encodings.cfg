\* Methods and structures over types two levels deep.
CONSTANTS
    Methods <- MCMethods
    Structures <- MCStructures
    MaxNumber = 5
SPECIFICATION Spec
CHECK_DEADLOCK FALSE
INVARIANTS SkipsExactly SizesCover 
PROPERTY ImplementsArgumentList
