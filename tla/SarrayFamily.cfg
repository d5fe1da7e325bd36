\* A family of up to three arrays.  Buckets of two elements, so that a write
\* copies the element beside it; the third index is beyond a bucket.
CONSTANTS
    Arrays = {a1, a2, a3}
    Buckets = {b1, b2, b3}
    NoArray = NoArray
    NoBucket = NoBucket
    Values = {v0, v1}
    BucketSize = 2
    GrowSlack = 1
    MaxIndex = 2
SPECIFICATION Spec
INVARIANTS NoDangling RefCountExact OneOwner NothingLost CountersExact
PROPERTY LazyCopyIsCopy
SYMMETRY Symmetry
