\* From 1 bucket to 64, with an unsigned int in which size * 75 wraps from 16
\* buckets on: expansions of a table of 1 bucket, or of 8, nest.
CONSTANTS
    k1 = k1  k2 = k2  k3 = k3  k4 = k4  k5 = k5  k6 = k6
    Keys <- MCKeys
    HashOf <- MCHashOf
    Values = {v0, v1}
    InitialSize = 1
    UInt = 1024
SPECIFICATION LiveSpec
INVARIANTS PlacedByHash UsedExact LoadBounded
PROPERTIES AddReturns ImplementsMap
