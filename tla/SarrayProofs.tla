---------------------------- MODULE SarrayProofs ----------------------------
(* What holds of the sparse arrays for any blocks, values and bucket size.   *)
(* The inductive invariant is about the family tree of the lazy copies: an   *)
(* array with copies is not written, so what a copy points at and does not   *)
(* own is still what its original points at.                                 *)
EXTENDS Sarray, FiniteSetTheorems, TLAPS

Vector == UNION {[0..(k - 1) -> Buckets] : k \in Nat \ {0}}
Record == [buckets : Vector, empty : Buckets, version : Nat, refs : Nat,
           copyOf : Arrays \cup {NoArray}]
Elems == [elems : [0..(BucketSize - 1) -> Values], version : Nat]

(* The blocks a struct sarray points at.                                     *)
Ptrs(r) == {r.buckets[s] : s \in DOMAIN r.buckets} \cup {r.empty}

TypesOK ==
    /\ array \in [Arrays -> Record \cup {NoRecord}]
    /\ \A a \in LiveArrays : array[a] \in Record
    /\ bucket \in [Buckets -> Elems \cup {NoElems}]
    /\ \A b \in LiveBuckets : bucket[b] \in Elems
    /\ memory \in [Blocks -> {"free", "live", "garbage"}]
    /\ held \subseteq LiveArrays
    /\ freeing \in (LiveArrays \ held) \cup {NoArray}

(* A copy carries the version after its original's, which is still there.    *)
Ancestry ==
    \A a \in LiveArrays :
        \/ array[a].copyOf = NoArray /\ array[a].version = 0
        \/ \E p \in LiveArrays :
               array[a].copyOf = p /\ array[a].version = array[p].version + 1

(* What an array points at is there, and is its own or its original's too.   *)
Sharing ==
    \A a \in LiveArrays : \A b \in Ptrs(array[a]) :
        /\ b \in LiveBuckets
        /\ \/ bucket[b].version = array[a].version
           \/ /\ bucket[b].version < array[a].version
              /\ \E p \in LiveArrays : array[a].copyOf = p /\ b \in Ptrs(array[p])

(* The references are counted, and only sarray_free sees a count of none.    *)
Counted ==
    /\ IsFiniteSet(LiveArrays)
    /\ RefCountExact
    /\ \A a \in LiveArrays : a # freeing => array[a].refs # 0
    /\ freeing # NoArray => Copies(freeing) = {}

Owned == \A b \in LiveBuckets : \E a \in LiveArrays : b \in OwnBuckets(a)

(* The empty bucket holds one value, which reads beyond the capacity return. *)
Uniform ==
    \A a \in LiveArrays : \A i \in 0..(BucketSize - 1) :
        bucket[array[a].empty].elems[i] = bucket[array[a].empty].elems[0]

(* Only the empty bucket is in several slots of an array.                    *)
InOneSlot(r) ==
    \A s, t \in DOMAIN r.buckets :
        r.buckets[s] = r.buckets[t] => s = t \/ r.buckets[s] = r.empty
OneSlot == \A a \in LiveArrays : InOneSlot(array[a])

(* The counters count what is in use.                                        *)
Tallied ==
    /\ IsFiniteSet(LiveBuckets)
    /\ IsFiniteSet(SlotsInUse)
    /\ CountersExact

IInv ==
    /\ TypesOK /\ Ancestry /\ Sharing /\ OneOwner
    /\ Counted /\ Owned /\ Uniform /\ OneSlot /\ Tallied

-----------------------------------------------------------------------------
(* A set of natural numbers has a least element: of the sets 0..x one        *)
(* contains no other.  It stands in for induction, which the library states  *)
(* for an operator.                                                          *)
LEMMA LeastElement ==
  ASSUME NEW T \in SUBSET Nat, T # {}
  PROVE  \E x \in T : \A y \in T : x <= y
<1> DEFINE Down == {0..x : x \in T}
<1>1. Down \subseteq FiniteSubsetsOf(Nat) /\ Down # {}
  <2>1. ASSUME NEW x \in T PROVE IsFiniteSet(0..x) /\ 0..x \subseteq Nat
    BY FS_Interval
  <2> QED
    BY <2>1 DEF FiniteSubsetsOf
<1>2. \E D \in Down : \A E \in Down : ~(<<E, D>> \in StrictSubsetOrdering(Nat))
  BY <1>1, FS_StrictSubsetOrderingWellFounded, WFMin
<1>3. PICK x \in T : \A y \in T : ~(<<0..y, 0..x>> \in StrictSubsetOrdering(Nat))
  BY <1>2
<1>4. ASSUME NEW y \in T, y < x PROVE FALSE
  <2>1. 0..y \subseteq 0..x /\ 0..y # 0..x
    BY <1>4
  <2>2. <<0..y, 0..x>> \in StrictSubsetOrdering(Nat)
    BY <2>1 DEF StrictSubsetOrdering
  <2> QED
    BY <1>3, <2>2
<1> QED
  BY <1>4

(* The bucket and the place in it are those of one index only.               *)
LEMMA SamePlace ==
  ASSUME NEW i \in Nat, NEW j \in Nat, NEW B \in Nat \ {0},
         i \div B = j \div B, i % B = j % B
  PROVE  i = j
<1> DEFINE q == i \div B
           r == i % B
           p == j \div B
           t == j % B
<1>1. i = B * q + r
  OBVIOUS
<1>2. j = B * p + t
  OBVIOUS
<1>3. p = q /\ t = r
  OBVIOUS
<1> HIDE DEF p, q, r, t
<1> QED
  BY <1>1, <1>2, <1>3

(* An index is within a number of whole buckets when its bucket is.          *)
LEMMA WholeBuckets ==
  ASSUME NEW i \in Nat, NEW B \in Nat \ {0}, NEW k \in Nat
  PROVE  /\ i \div B \in Nat /\ i % B \in 0..(B - 1)
         /\ i < k * B <=> i \div B < k
<1> DEFINE q == i \div B
           r == i % B
<1>1. q \in Nat /\ r \in 0..(B - 1) /\ i = B * q + r
  OBVIOUS
<1> HIDE DEF q, r
<1>2. CASE q < k
  <2>1. PICK d \in Nat : k = q + 1 + d
    <3>1. k - q - 1 \in Nat /\ k = q + 1 + (k - q - 1)
      BY <1>1, <1>2
    <3> QED
      BY <3>1
  <2>2. k * B = B * q + B + B * d /\ B * d \in Nat
    BY <1>1, <2>1
  <2>3. i < k * B
    BY <1>1, <2>2
  <2> QED
    BY <1>1, <1>2, <2>3 DEF q, r
<1>3. CASE ~(q < k)
  <2>1. PICK d \in Nat : q = k + d
    <3>1. q - k \in Nat /\ q = k + (q - k)
      BY <1>1, <1>3
    <3> QED
      BY <3>1
  <2>2. B * q = k * B + B * d /\ B * d \in Nat /\ k * B \in Nat
    BY <2>1
  <2>3. ~(i < k * B)
    BY <1>1, <2>2
  <2> QED
    BY <1>1, <1>3, <2>3 DEF q, r
<1> QED
  BY <1>2, <1>3

-----------------------------------------------------------------------------
(* The parts of an array in use.                                             *)
LEMMA RecordParts ==
  ASSUME TypesOK, NEW x \in LiveArrays
  PROVE  /\ x \in Arrays /\ x # NoArray /\ x \notin Buckets /\ x \in Blocks
         /\ array[x] \in Record /\ array[x].buckets \in Vector
         /\ array[x].empty \in Buckets /\ array[x].version \in Nat
         /\ array[x].refs \in Nat /\ array[x].copyOf \in Arrays \cup {NoArray}
         /\ Ptrs(array[x]) \subseteq Buckets
         /\ \E k \in Nat \ {0} : Slots(x) = 0..(k - 1) /\ array[x].buckets \in [0..(k - 1) -> Buckets]
<1>1. x \in Arrays /\ x # NoArray /\ x \notin Buckets /\ x \in Blocks
  BY BlocksAssumption DEF LiveArrays, Blocks
<1>2. array[x] \in Record
  BY DEF TypesOK
<1>3. /\ array[x].buckets \in Vector /\ array[x].empty \in Buckets
      /\ array[x].version \in Nat /\ array[x].refs \in Nat
      /\ array[x].copyOf \in Arrays \cup {NoArray}
  BY <1>2 DEF Record
<1>4. PICK k \in Nat \ {0} : array[x].buckets \in [0..(k - 1) -> Buckets]
  BY <1>3 DEF Vector
<1>5. Slots(x) = 0..(k - 1) /\ Ptrs(array[x]) \subseteq Buckets
  BY <1>3, <1>4 DEF Slots, Ptrs
<1> QED
  BY <1>1, <1>2, <1>3, <1>4, <1>5

(* The buckets an array owns are those it points at that carry its version.  *)
LEMMA OwnIs ==
  /\ \A x, b : b \in OwnBuckets(x) <=> b \in Ptrs(array[x]) /\ bucket[b].version = array[x].version
  /\ \A x, b : b \in OwnBuckets(x)' <=>
                  b \in Ptrs(array'[x]) /\ bucket'[b].version = array'[x].version
BY DEF OwnBuckets, Ptrs, Slots

(* The copies of an array.                                                   *)
LEMMA CopiesAre ==
  /\ \A x, c : c \in Copies(x) <=> c \in LiveArrays /\ array[c].copyOf = x
  /\ \A x, c : c \in Copies(x)' <=> c \in LiveArrays' /\ array'[c].copyOf = x
BY DEF Copies

(* What belongs to an array without copies no other array points at: of the  *)
(* others that did, one of least version would own it, or its original did.  *)
LEMMA OnlyOwnerPoints ==
  ASSUME TypesOK, Ancestry, Sharing, OneOwner,
         NEW a \in LiveArrays, Copies(a) = {}, NEW b \in OwnBuckets(a),
         NEW c \in LiveArrays, b \in Ptrs(array[c])
  PROVE  c = a
<1> SUFFICES ASSUME c # a PROVE FALSE
  OBVIOUS
<1> DEFINE Others == {y \in LiveArrays : y # a /\ b \in Ptrs(array[y])}
           T == {array[y].version : y \in Others}
<1>1. T \in SUBSET Nat /\ T # {}
  BY RecordParts
<1>2. PICK m \in T : \A n \in T : m <= n
  BY <1>1, LeastElement
<1>3. PICK x \in Others : array[x].version = m
  BY <1>2
<1>4. \A y \in Others : array[x].version <= array[y].version
  BY <1>2, <1>3
<1>5. bucket[b].version # array[x].version
  <2> SUFFICES ASSUME bucket[b].version = array[x].version PROVE FALSE
    OBVIOUS
  <2>1. b \in OwnBuckets(x)
    BY <1>3, OwnIs
  <2> QED
    BY <1>3, <2>1 DEF OneOwner
<1>6. PICK p \in LiveArrays : array[x].copyOf = p /\ b \in Ptrs(array[p])
  BY <1>3, <1>5 DEF Sharing
<1>7. p # a
  BY <1>3, <1>6 DEF Copies
<1>8. array[x].version = array[p].version + 1
  BY <1>3, <1>6, RecordParts DEF Ancestry
<1>9. array[p].version \in Nat
  BY <1>6, RecordParts
<1> QED
  BY <1>4, <1>6, <1>7, <1>8, <1>9

-----------------------------------------------------------------------------
(* Slots of the arrays L of arr, counted array by array.                     *)
Rows(arr, L) == UNION {{x} \X DOMAIN arr[x].buckets : x \in L}

(* The slots of all arrays in use, as rows of a family of vectors.           *)
LEMMA SlotsAreRows == /\ SlotsInUse = Rows(array, LiveArrays)
                      /\ SlotsInUse' = Rows(array', LiveArrays')
BY DEF SlotsInUse, Rows, Slots

(* One array more adds as many slots as it has.                              *)
LEMMA RowsAdded ==
  ASSUME NEW arr, NEW L, NEW a, a \notin L,
         IsFiniteSet(Rows(arr, L)), IsFiniteSet(DOMAIN arr[a].buckets)
  PROVE  /\ IsFiniteSet(Rows(arr, L \cup {a}))
         /\ Cardinality(Rows(arr, L \cup {a})) =
                Cardinality(Rows(arr, L)) + Cardinality(DOMAIN arr[a].buckets)
<1> DEFINE row == {a} \X DOMAIN arr[a].buckets
<1>1. IsFiniteSet(row) /\ Cardinality(row) = Cardinality(DOMAIN arr[a].buckets)
  <2>1. IsFiniteSet({a}) /\ Cardinality({a}) = 1
    BY FS_Singleton
  <2>2. Cardinality(DOMAIN arr[a].buckets) \in Nat
    BY FS_CardinalityType
  <2>3. IsFiniteSet(row) /\ Cardinality(row) = 1 * Cardinality(DOMAIN arr[a].buckets)
    BY <2>1, FS_Product
  <2> QED
    BY <2>2, <2>3
<1>2. Rows(arr, L \cup {a}) = Rows(arr, L) \cup row
  BY DEF Rows
<1>3. Rows(arr, L) \cap row = {}
  BY DEF Rows
<1> HIDE DEF row
<1>4. /\ Cardinality(Rows(arr, L)) \in Nat /\ Cardinality(row) \in Nat
      /\ Cardinality(Rows(arr, L) \cap row) = 0
  BY <1>1, <1>3, FS_CardinalityType, FS_EmptySet
<1>5. /\ IsFiniteSet(Rows(arr, L) \cup row)
      /\ Cardinality(Rows(arr, L) \cup row) =
             Cardinality(Rows(arr, L)) + Cardinality(row) - Cardinality(Rows(arr, L) \cap row)
  BY <1>1, FS_Union
<1>6. Cardinality(Rows(arr, L) \cup row) = Cardinality(Rows(arr, L)) + Cardinality(row)
  BY <1>4, <1>5
<1> QED
  BY <1>1, <1>2, <1>5, <1>6

(* Vectors as long as before have the slots they had.                        *)
LEMMA RowsSame ==
  ASSUME NEW arr, NEW brr, NEW L,
         \A x \in L : DOMAIN arr[x].buckets = DOMAIN brr[x].buckets
  PROVE  Rows(arr, L) = Rows(brr, L)
BY DEF Rows

(* A vector has finitely many slots.                                         *)
LEMMA VectorFinite == \A v \in Vector : IsFiniteSet(DOMAIN v)
<1> SUFFICES ASSUME NEW v \in Vector PROVE IsFiniteSet(DOMAIN v)
  OBVIOUS
<1>1. PICK k \in Nat \ {0} : DOMAIN v = 0..(k - 1)
  BY DEF Vector
<1>2. IsFiniteSet(0..(k - 1))
  BY FS_Interval
<1> QED
  BY <1>1, <1>2

(* Fewer arrays have finitely many slots.                                    *)
LEMMA RowsFewer ==
  ASSUME NEW arr, NEW L, IsFiniteSet(Rows(arr, L)), NEW K \in SUBSET L
  PROVE  IsFiniteSet(Rows(arr, K))
<1>1. Rows(arr, K) \subseteq Rows(arr, L)
  BY DEF Rows
<1> QED
  BY <1>1, FS_Subset

(* One vector that grows adds its growth.                                    *)
LEMMA RowsChanged ==
  ASSUME NEW arr, NEW brr, NEW L, NEW a \in L, IsFiniteSet(Rows(arr, L)),
         IsFiniteSet(DOMAIN arr[a].buckets), IsFiniteSet(DOMAIN brr[a].buckets),
         \A x \in L : x # a => DOMAIN arr[x].buckets = DOMAIN brr[x].buckets
  PROVE  /\ IsFiniteSet(Rows(brr, L))
         /\ Cardinality(Rows(brr, L)) = Cardinality(Rows(arr, L))
                + Cardinality(DOMAIN brr[a].buckets) - Cardinality(DOMAIN arr[a].buckets)
<1> PICK K : K = L \ {a}
  OBVIOUS
<1>1. L = K \cup {a} /\ a \notin K /\ K \in SUBSET L
  OBVIOUS
<1>2. Rows(arr, K) = Rows(brr, K)
  BY RowsSame
<1>3. IsFiniteSet(Rows(arr, K)) /\ IsFiniteSet(Rows(brr, K))
  BY <1>1, <1>2, RowsFewer
<1>4. Cardinality(Rows(arr, L)) = Cardinality(Rows(arr, K)) + Cardinality(DOMAIN arr[a].buckets)
  BY <1>1, <1>3, RowsAdded
<1>5. /\ IsFiniteSet(Rows(brr, L))
      /\ Cardinality(Rows(brr, L)) = Cardinality(Rows(brr, K)) + Cardinality(DOMAIN brr[a].buckets)
  BY SMTT(30), <1>1, <1>3, RowsAdded
<1>6. /\ Cardinality(Rows(arr, K)) \in Nat /\ Cardinality(DOMAIN arr[a].buckets) \in Nat
      /\ Cardinality(DOMAIN brr[a].buckets) \in Nat
  BY <1>3, FS_CardinalityType
<1> QED
  BY <1>2, <1>4, <1>5, <1>6

-----------------------------------------------------------------------------
(* At first nothing is in use.                                               *)
LEMMA InitInv == Init => IInv
<1> SUFFICES ASSUME Init PROVE IInv
  OBVIOUS
<1>1. LiveArrays = {} /\ LiveBuckets = {}
  BY DEF Init, LiveArrays, LiveBuckets, Live, Blocks
<1>2. SlotsInUse = {}
  BY <1>1 DEF SlotsInUse
<1>3. TypesOK
  BY <1>1 DEF TypesOK, Init
<1>4. Ancestry /\ Sharing /\ OneOwner /\ Owned /\ Uniform /\ OneSlot
  BY <1>1 DEF Ancestry, Sharing, OneOwner, Owned, Uniform, OneSlot
<1>5. Counted
  BY <1>1, FS_EmptySet DEF Init, Counted, RefCountExact
<1>6. Tallied
  BY <1>1, <1>2, FS_EmptySet DEF Init, Tallied, CountersExact
<1> QED
  BY <1>3, <1>4, <1>5, <1>6 DEF IInv

(* A new array and its empty bucket belong to nobody else.                   *)
LEMMA NewStep ==
  ASSUME IInv, NEW a \in Arrays, NEW e \in Buckets, NEW size \in Nat \ {0},
         NEW default \in Values, New(a, e, size, default)
  PROVE  IInv'
<1> PICK k : k = (size - 1) \div BucketSize + 1
  OBVIOUS
<1> PICK vec : vec = [s \in 0..(k - 1) |-> e]
  OBVIOUS
<1> PICK rec : rec = [buckets |-> vec, empty |-> e, version |-> 0, refs |-> 1, copyOf |-> NoArray]
  OBVIOUS
<1> PICK new : new = [elems |-> [i \in 0..(BucketSize - 1) |-> default], version |-> 0]
  OBVIOUS
<1>1. k \in Nat \ {0} /\ k - 1 = (size - 1) \div BucketSize
  BY SizeAssumption
<1>2. vec \in Vector /\ rec \in Record /\ new \in Elems
  BY <1>1 DEF Vector, Record, Elems
<1>3. /\ TypesOK /\ Ancestry /\ Sharing /\ OneOwner
      /\ Counted /\ Owned /\ Uniform /\ OneSlot /\ Tallied
  BY DEF IInv
<1>4. /\ LiveArrays' = LiveArrays \cup {a} /\ LiveBuckets' = LiveBuckets \cup {e}
      /\ a \notin LiveArrays /\ e \notin LiveBuckets
      /\ memory' \in [Blocks -> {"free", "live", "garbage"}]
  BY ZenonT(30), <1>3, BlocksAssumption
     DEF New, FreeArrays, FreeBuckets, LiveArrays, LiveBuckets, Live, Blocks, TypesOK
<1>5. /\ array' = [array EXCEPT ![a] = rec] /\ bucket' = [bucket EXCEPT ![e] = new]
      /\ held' = held \cup {a} /\ freeing = NoArray /\ freeing' = NoArray
      /\ nbuckets' = nbuckets + 1 /\ narrays' = narrays + 1
      /\ idx_size' = idx_size + Cardinality(0..(k - 1))
  BY <1>1 DEF New
<1>6. /\ array' \in [Arrays -> Record \cup {NoRecord}] /\ array'[a] = rec
      /\ \A x \in LiveArrays : x # a /\ array'[x] = array[x]
      /\ bucket' \in [Buckets -> Elems \cup {NoElems}] /\ bucket'[e] = new
      /\ \A b \in LiveBuckets : b # e /\ bucket'[b] = bucket[b]
  BY <1>2, <1>3, <1>4, <1>5 DEF TypesOK, LiveArrays, LiveBuckets
<1>7. /\ rec.buckets = vec /\ rec.empty = e /\ rec.version = 0 /\ rec.refs = 1
      /\ rec.copyOf = NoArray /\ new.version = 0
      /\ \A i \in 0..(BucketSize - 1) : new.elems[i] = default
  OBVIOUS
<1>8. \A x \in LiveArrays : OwnBuckets(x)' = OwnBuckets(x)
  <2> SUFFICES ASSUME NEW x \in LiveArrays PROVE OwnBuckets(x)' = OwnBuckets(x)
    OBVIOUS
  <2>1. \A b \in Ptrs(array[x]) : bucket'[b] = bucket[b]
    BY <1>3, <1>6 DEF Sharing
  <2>2. array'[x] = array[x]
    BY <1>6
  <2>3. \A b : b \in OwnBuckets(x)' <=> b \in OwnBuckets(x)
    BY <2>1, <2>2, OwnIs
  <2> QED
    BY <2>3
<1>9. Ptrs(rec) = {e} /\ OwnBuckets(a)' = {e}
  <2>1. Ptrs(rec) = {e}
    BY <1>1, <1>7 DEF Ptrs
  <2>2. Ptrs(array'[a]) = {e} /\ array'[a].version = bucket'[e].version
    BY <1>6, <1>7, <2>1
  <2>3. \A b : b \in OwnBuckets(a)' <=> b = e
    BY <2>2, OwnIs
  <2> QED
    BY <2>1, <2>3
<1>10. \A x \in LiveArrays : array[x].copyOf \in LiveArrays \cup {NoArray} /\ x # NoArray
  BY <1>3, RecordParts DEF Ancestry
<1>11. (\A x \in LiveArrays : Copies(x)' = Copies(x)) /\ Copies(a)' = {}
  <2>1. a # NoArray
    BY BlocksAssumption
  <2>2. \A x \in LiveArrays : \A c : c \in Copies(x)' <=> c \in Copies(x)
    BY <1>4, <1>6, <1>7, <1>10, CopiesAre
  <2>3. \A c : c \notin Copies(a)'
    BY <1>4, <1>6, <1>7, <1>10, <2>1, CopiesAre
  <2> QED
    BY <2>2, <2>3
<1>12. TypesOK'
  BY <1>2, <1>3, <1>4, <1>5, <1>6 DEF TypesOK
<1>13. Ancestry'
  <2>1. array'[a].copyOf = NoArray /\ array'[a].version = 0
    BY <1>6, <1>7
  <2>2. ASSUME NEW x \in LiveArrays
        PROVE  \/ array'[x].copyOf = NoArray /\ array'[x].version = 0
               \/ \E p \in LiveArrays' :
                      array'[x].copyOf = p /\ array'[x].version = array'[p].version + 1
    BY <1>3, <1>4, <1>6 DEF Ancestry
  <2> QED
    BY <1>4, <2>1, <2>2 DEF Ancestry
<1>14. Sharing'
  <2>1. \A b \in Ptrs(array'[a]) : b \in LiveBuckets' /\ bucket'[b].version = array'[a].version
    BY <1>4, <1>6, <1>7, <1>9
  <2>2. ASSUME NEW x \in LiveArrays, NEW b \in Ptrs(array'[x])
        PROVE  /\ b \in LiveBuckets'
               /\ \/ bucket'[b].version = array'[x].version
                  \/ /\ bucket'[b].version < array'[x].version
                     /\ \E p \in LiveArrays' : array'[x].copyOf = p /\ b \in Ptrs(array'[p])
    <3>1. array'[x] = array[x] /\ \A p \in LiveArrays : array'[p] = array[p]
      BY <1>6
    <3>2. b \in Ptrs(array[x])
      BY <3>1
    <3>3. /\ b \in LiveBuckets
          /\ \/ bucket[b].version = array[x].version
             \/ /\ bucket[b].version < array[x].version
                /\ \E p \in LiveArrays : array[x].copyOf = p /\ b \in Ptrs(array[p])
      BY <1>3, <3>2 DEF Sharing
    <3> QED
      BY <1>4, <1>6, <3>1, <3>3
  <2> QED
    BY <1>4, <2>1, <2>2 DEF Sharing
<1>15. OneOwner'
  <2>1. \A x \in LiveArrays : OwnBuckets(x) \subseteq LiveBuckets
    BY <1>3, OwnIs DEF Sharing
  <2> QED
    BY <1>3, <1>4, <1>8, <1>9, <2>1 DEF OneOwner
<1>16. Counted'
  <2>1. IsFiniteSet(LiveArrays')
    BY <1>3, <1>4, FS_AddElement DEF Counted
  <2>2. \A x \in LiveArrays' : array'[x].refs # 0
    BY <1>3, <1>4, <1>5, <1>6, <1>7, <1>10 DEF Counted
  <2>3. \A x \in LiveArrays : x \in held <=> x \in held'
    BY <1>4, <1>5
  <2>4. \A x \in LiveArrays :
            array'[x].refs = Cardinality(Copies(x)') + (IF x \in held' THEN 1 ELSE 0)
    BY <1>3, <1>5, <1>6, <1>10, <1>11, <2>3 DEF Counted, RefCountExact
  <2>5. array'[a].refs = Cardinality(Copies(a)') + (IF a \in held' THEN 1 ELSE 0)
    BY <1>5, <1>6, <1>7, <1>11, FS_EmptySet
  <2>6. RefCountExact'
    BY <1>4, <2>4, <2>5 DEF RefCountExact
  <2> QED
    BY <1>5, <2>1, <2>2, <2>6 DEF Counted
<1>17. Owned'
  BY <1>3, <1>4, <1>8, <1>9 DEF Owned
<1>18. Uniform'
  <2>1. \A x \in LiveArrays : array[x].empty \in LiveBuckets
    BY <1>3 DEF Sharing, Ptrs
  <2>2. 0 \in 0..(BucketSize - 1)
    BY SizeAssumption
  <2>3. \A i \in 0..(BucketSize - 1) :
            bucket'[array'[a].empty].elems[i] = bucket'[array'[a].empty].elems[0]
    <3>1. bucket'[array'[a].empty] = new
      BY <1>6, <1>7
    <3> QED
      BY <1>7, <2>2, <3>1
  <2>4. \A x \in LiveArrays : \A i \in 0..(BucketSize - 1) :
            bucket'[array'[x].empty].elems[i] = bucket'[array'[x].empty].elems[0]
    <3>1. \A x \in LiveArrays : bucket'[array'[x].empty] = bucket[array[x].empty]
      BY <1>6, <2>1
    <3> QED
      BY <1>3, <3>1 DEF Uniform
  <2> QED
    BY <1>4, <2>3, <2>4 DEF Uniform
<1>19. Tallied'
  <2>1. IsFiniteSet(LiveBuckets') /\ nbuckets' = Cardinality(LiveBuckets')
    BY <1>3, <1>4, <1>5, FS_AddElement DEF Tallied, CountersExact
  <2>2. narrays' = Cardinality(LiveArrays')
    BY <1>3, <1>4, <1>5, FS_AddElement DEF Counted, Tallied, CountersExact
  <2>3. IsFiniteSet(Rows(array', LiveArrays)) /\ Cardinality(Rows(array', LiveArrays)) = idx_size
    <3>1. Rows(array', LiveArrays) = Rows(array, LiveArrays)
      BY <1>6, RowsSame
    <3>2. SlotsInUse = Rows(array, LiveArrays)
      BY SlotsAreRows
    <3>3. IsFiniteSet(SlotsInUse) /\ idx_size = Cardinality(SlotsInUse)
      BY <1>3 DEF Tallied, CountersExact
    <3> QED
      BY <3>1, <3>2, <3>3
  <2>4. DOMAIN array'[a].buckets = 0..(k - 1) /\ IsFiniteSet(0..(k - 1))
    <3>1. array'[a].buckets = [s \in 0..(k - 1) |-> e]
      BY <1>6, <1>7
    <3>2. IsFiniteSet(0..(k - 1))
      BY <1>1, FS_Interval
    <3> QED
      BY <3>1, <3>2
  <2>5. IsFiniteSet(SlotsInUse') /\ idx_size' = Cardinality(SlotsInUse')
    <3>1. PICK arr : arr = array'
      OBVIOUS
    <3>2. /\ IsFiniteSet(Rows(arr, LiveArrays \cup {a}))
          /\ Cardinality(Rows(arr, LiveArrays \cup {a})) = idx_size + Cardinality(0..(k - 1))
      BY <1>4, <2>3, <2>4, <3>1, RowsAdded
    <3>3. SlotsInUse' = Rows(arr, LiveArrays \cup {a})
      BY <1>4, <3>1, SlotsAreRows
    <3> QED
      BY <1>5, <3>2, <3>3
  <2> QED
    BY <2>1, <2>2, <2>5 DEF Tallied, CountersExact
<1>20. OneSlot'
  <2>1. InOneSlot(rec)
    BY <1>7 DEF InOneSlot
  <2> QED
    BY <1>3, <1>4, <1>6, <2>1 DEF OneSlot
<1> QED
  BY <1>12, <1>13, <1>14, <1>15, <1>16, <1>17, <1>18, <1>19, <1>20 DEF IInv

(* A copy owns nothing yet: what it points at is its original's.             *)
LEMMA CopyStep ==
  ASSUME IInv, NEW a \in Arrays, NEW c \in Arrays, LazyCopy(a, c)
  PROVE  IInv'
<1>1. PICK old : old = array[a]
  OBVIOUS
<1>2. PICK seen : seen = [old EXCEPT !.refs = old.refs + 1]
  OBVIOUS
<1>3. PICK new : new = [old EXCEPT !.version = old.version + 1, !.refs = 1, !.copyOf = a]
  OBVIOUS
<1>4. /\ TypesOK /\ Ancestry /\ Sharing /\ OneOwner
      /\ Counted /\ Owned /\ Uniform /\ OneSlot /\ Tallied
  BY DEF IInv
<1>5. /\ a \in held /\ a \in LiveArrays /\ a # c /\ c \notin LiveArrays /\ freeing = NoArray
      /\ LiveArrays' = LiveArrays \cup {c} /\ LiveBuckets' = LiveBuckets
      /\ memory' \in [Blocks -> {"free", "live", "garbage"}]
  BY <1>4, BlocksAssumption
     DEF LazyCopy, FreeArrays, LiveArrays, LiveBuckets, Live, Blocks, TypesOK
<1>6. /\ old \in Record /\ old.version \in Nat /\ old.refs \in Nat
      /\ seen \in Record /\ new \in Record
      /\ seen.buckets = old.buckets /\ seen.empty = old.empty
      /\ seen.version = old.version /\ seen.refs = old.refs + 1 /\ seen.copyOf = old.copyOf
      /\ new.buckets = old.buckets /\ new.empty = old.empty
      /\ new.version = old.version + 1 /\ new.refs = 1 /\ new.copyOf = a
  <2>1. old \in Record
    BY <1>4, <1>5, <1>1 DEF TypesOK
  <2>2. old.version \in Nat /\ old.refs \in Nat
    BY <2>1 DEF Record
  <2>3. /\ seen = [buckets |-> old.buckets, empty |-> old.empty, version |-> old.version,
                   refs |-> old.refs + 1, copyOf |-> old.copyOf]
        /\ new = [buckets |-> old.buckets, empty |-> old.empty, version |-> old.version + 1,
                  refs |-> 1, copyOf |-> a]
    BY <1>2, <1>3, <2>1 DEF Record
  <2>4. old.buckets \in Vector /\ old.empty \in Buckets /\ old.copyOf \in Arrays \cup {NoArray}
    BY <2>1 DEF Record
  <2>5. seen \in Record /\ new \in Record
    BY <2>2, <2>3, <2>4 DEF Record
  <2> QED
    BY <2>1, <2>2, <2>3, <2>5
<1>7. /\ array' = [array EXCEPT ![a] = seen, ![c] = new]
      /\ UNCHANGED <<bucket, freeing, nbuckets>>
      /\ held' = held \cup {c} /\ narrays' = narrays + 1
      /\ idx_size' = idx_size + Cardinality(DOMAIN old.buckets)
  <2>1. array' = [array EXCEPT ![a].refs = array[a].refs + 1,
                               ![c] = [array[a] EXCEPT !.version = array[a].version + 1,
                                                       !.refs = 1, !.copyOf = a]]
    BY DEF LazyCopy
  <2> QED
    BY <1>1, <1>2, <1>3, <2>1 DEF LazyCopy, Slots
<1>8. /\ array' \in [Arrays -> Record \cup {NoRecord}] /\ array'[c] = new /\ array'[a] = seen
      /\ \A x \in LiveArrays : x # a => array'[x] = array[x]
  BY <1>4, <1>5, <1>6, <1>7 DEF TypesOK, LiveArrays
<1>9. /\ \A x \in LiveArrays : /\ array'[x].buckets = array[x].buckets
                               /\ array'[x].empty = array[x].empty
                               /\ array'[x].version = array[x].version
                               /\ array'[x].copyOf = array[x].copyOf
      /\ \A x \in LiveArrays : x # a => array'[x].refs = array[x].refs
  BY <1>6, <1>8, <1>1
<1>10. /\ \A x \in LiveArrays : Ptrs(array'[x]) = Ptrs(array[x])
      /\ Ptrs(array'[c]) = Ptrs(array[a])
  BY <1>6, <1>8, <1>9, <1>1 DEF Ptrs
<1>11. \A b \in Ptrs(array[a]) : b \in LiveBuckets /\ bucket[b].version < old.version + 1
  <2>1. \A b \in Ptrs(array[a]) : bucket[b].version = old.version \/ bucket[b].version < old.version
    BY <1>4, <1>5, <1>1 DEF Sharing
  <2>2. \A b \in LiveBuckets : bucket[b].version \in Nat
    BY <1>4 DEF TypesOK, Elems
  <2>3. \A b \in Ptrs(array[a]) : b \in LiveBuckets
    BY <1>4, <1>5 DEF Sharing
  <2> QED
    BY <1>6, <2>1, <2>2, <2>3
<1>12. (\A x \in LiveArrays : OwnBuckets(x)' = OwnBuckets(x)) /\ OwnBuckets(c)' = {}
  <2>1. ASSUME NEW x \in LiveArrays PROVE OwnBuckets(x)' = OwnBuckets(x)
    <3>1. /\ Ptrs(array'[x]) = Ptrs(array[x]) /\ array'[x].version = array[x].version
          /\ bucket' = bucket
      BY <1>7, <1>9, <1>10
    <3>2. \A b : b \in OwnBuckets(x)' <=> b \in OwnBuckets(x)
      BY <3>1, OwnIs
    <3> QED
      BY <3>2
  <2>2. \A b \in Ptrs(array'[c]) : bucket'[b].version # array'[c].version
    <3>1. array'[c].version = old.version + 1
      BY <1>6, <1>8
    <3>2. \A b \in Ptrs(array'[c]) : bucket[b].version < old.version + 1
      BY <1>10, <1>11
    <3>3. \A b \in Ptrs(array'[c]) : bucket[b].version \in Nat
      BY <1>4, <1>10, <1>11 DEF TypesOK, Elems
    <3>4. bucket' = bucket /\ old.version \in Nat
      BY <1>6, <1>7
    <3> QED
      BY <3>1, <3>2, <3>3, <3>4
  <2>3. \A b : b \notin OwnBuckets(c)'
    BY <2>2, OwnIs
  <2> QED
    BY <2>1, <2>3
<1>13. \A x \in LiveArrays : array[x].copyOf \in LiveArrays \cup {NoArray} /\ x # NoArray
  BY <1>4, RecordParts DEF Ancestry
<1>14. /\ \A x \in LiveArrays : x # a => Copies(x)' = Copies(x)
       /\ Copies(a)' = Copies(a) \cup {c} /\ Copies(c)' = {} /\ c \notin Copies(a)
  <2>1. c # NoArray
    BY BlocksAssumption
  <2>2. \A x \in LiveArrays : x # a => \A y : y \in Copies(x)' <=> y \in Copies(x)
    BY <1>5, <1>6, <1>8, <1>9, CopiesAre
  <2>3. \A y : y \in Copies(a)' <=> y \in Copies(a) \cup {c}
    BY <1>5, <1>6, <1>8, <1>9, CopiesAre
  <2>4. \A y : y \notin Copies(c)'
    BY <1>5, <1>6, <1>8, <1>9, <1>13, <2>1, CopiesAre
  <2>5. c \notin Copies(a)
    BY <1>5, CopiesAre
  <2>6. \A x \in LiveArrays : x # a => Copies(x)' = Copies(x)
    BY <2>2
  <2>7. Copies(a)' = Copies(a) \cup {c}
    BY <2>3
  <2> QED
    BY <2>4, <2>5, <2>6, <2>7
<1>15. TypesOK'
  <2>1. \A x \in LiveArrays' : array'[x] \in Record
    BY <1>4, <1>5, <1>6, <1>8 DEF TypesOK
  <2> QED
    BY <1>4, <1>5, <1>7, <1>8, <2>1 DEF TypesOK
<1>16. Ancestry'
  <2>1. array'[c].copyOf = a /\ array'[c].version = array'[a].version + 1
    BY <1>6, <1>8
  <2>2. ASSUME NEW x \in LiveArrays
        PROVE  \/ array'[x].copyOf = NoArray /\ array'[x].version = 0
               \/ \E p \in LiveArrays' :
                      array'[x].copyOf = p /\ array'[x].version = array'[p].version + 1
    BY <1>4, <1>5, <1>9 DEF Ancestry
  <2> QED
    BY <1>5, <2>1, <2>2 DEF Ancestry
<1>17. Sharing'
  <2>1. \A b \in Ptrs(array'[c]) : /\ b \in LiveBuckets' /\ bucket'[b].version < array'[c].version
                                   /\ array'[c].copyOf = a /\ b \in Ptrs(array'[a])
    BY <1>5, <1>6, <1>7, <1>8, <1>10, <1>11
  <2>2. ASSUME NEW x \in LiveArrays, NEW b \in Ptrs(array'[x])
        PROVE  /\ b \in LiveBuckets'
               /\ \/ bucket'[b].version = array'[x].version
                  \/ /\ bucket'[b].version < array'[x].version
                     /\ \E p \in LiveArrays' : array'[x].copyOf = p /\ b \in Ptrs(array'[p])
    <3>1. b \in Ptrs(array[x])
      BY <1>10
    <3>2. /\ b \in LiveBuckets
          /\ \/ bucket[b].version = array[x].version
             \/ /\ bucket[b].version < array[x].version
                /\ \E p \in LiveArrays : array[x].copyOf = p /\ b \in Ptrs(array[p])
      BY <1>4, <3>1 DEF Sharing
    <3> QED
      BY <1>5, <1>7, <1>9, <1>10, <3>2
  <2> QED
    BY <1>5, <2>1, <2>2 DEF Sharing
<1>18. OneOwner'
  BY <1>4, <1>5, <1>12 DEF OneOwner
<1>19. Counted'
  <2>1. IsFiniteSet(LiveArrays')
    BY <1>4, <1>5, FS_AddElement DEF Counted
  <2>2. \A x \in LiveArrays' : array'[x].refs # 0
    BY <1>4, <1>5, <1>6, <1>8, <1>9, <1>13 DEF Counted
  <2>3. \A x \in LiveArrays : x \in held <=> x \in held'
    BY <1>5, <1>7
  <2>4. \A x \in LiveArrays :
            x # a => array'[x].refs = Cardinality(Copies(x)') + (IF x \in held' THEN 1 ELSE 0)
    BY <1>4, <1>5, <1>9, <1>13, <1>14, <2>3 DEF Counted, RefCountExact
  <2>5. array'[c].refs = Cardinality(Copies(c)') + (IF c \in held' THEN 1 ELSE 0)
    BY <1>6, <1>7, <1>8, <1>14, FS_EmptySet
  <2>6. array'[a].refs = Cardinality(Copies(a)') + (IF a \in held' THEN 1 ELSE 0)
    <3>1. IsFiniteSet(Copies(a))
      <4>1. Copies(a) \subseteq LiveArrays
        BY CopiesAre
      <4> QED
        BY <1>4, <4>1, FS_Subset DEF Counted
    <3>2. Cardinality(Copies(a)') = Cardinality(Copies(a)) + 1 /\ Cardinality(Copies(a)) \in Nat
      BY <1>14, <3>1, FS_AddElement, FS_CardinalityType
    <3>3. old.refs = Cardinality(Copies(a)) + 1
      BY <1>4, <1>5, <1>13, <1>1 DEF Counted, RefCountExact
    <3> QED
      BY <1>5, <1>6, <1>7, <1>8, <3>2, <3>3
  <2>7. RefCountExact'
    BY <1>5, <2>4, <2>5, <2>6 DEF RefCountExact
  <2> QED
    BY <1>5, <1>7, <2>1, <2>2, <2>7 DEF Counted
<1>20. Owned'
  BY <1>4, <1>5, <1>12 DEF Owned
<1>21. Uniform'
  <2>1. \A x \in LiveArrays : \A i \in 0..(BucketSize - 1) :
            bucket'[array'[x].empty].elems[i] = bucket'[array'[x].empty].elems[0]
    BY ZenonT(30), <1>4, <1>7, <1>9 DEF Uniform
  <2>2. array'[c].empty = array'[a].empty
    BY <1>6, <1>8
  <2> QED
    BY <1>5, <2>1, <2>2 DEF Uniform
<1>22. Tallied'
  <2>1. IsFiniteSet(LiveBuckets') /\ nbuckets' = Cardinality(LiveBuckets')
    BY <1>4, <1>5, <1>7 DEF Tallied, CountersExact
  <2>2. narrays' = Cardinality(LiveArrays')
    BY <1>4, <1>5, <1>7, FS_AddElement DEF Counted, Tallied, CountersExact
  <2>3. IsFiniteSet(Rows(array', LiveArrays)) /\ Cardinality(Rows(array', LiveArrays)) = idx_size
    <3>1. Rows(array', LiveArrays) = Rows(array, LiveArrays)
      BY <1>9, RowsSame
    <3>2. SlotsInUse = Rows(array, LiveArrays)
      BY SlotsAreRows
    <3>3. IsFiniteSet(SlotsInUse) /\ idx_size = Cardinality(SlotsInUse)
      BY <1>4 DEF Tallied, CountersExact
    <3> QED
      BY <3>1, <3>2, <3>3
  <2>4. DOMAIN array'[c].buckets = DOMAIN old.buckets /\ IsFiniteSet(DOMAIN old.buckets)
    <3>1. PICK k \in Nat \ {0} : DOMAIN old.buckets = 0..(k - 1)
      BY <1>4, <1>5, <1>1, RecordParts DEF Slots
    <3>2. IsFiniteSet(0..(k - 1))
      BY FS_Interval
    <3> QED
      BY <1>6, <1>8, <3>1, <3>2
  <2>5. IsFiniteSet(SlotsInUse') /\ idx_size' = Cardinality(SlotsInUse')
    <3>1. PICK arr : arr = array'
      OBVIOUS
    <3>2. /\ IsFiniteSet(Rows(arr, LiveArrays \cup {c}))
          /\ Cardinality(Rows(arr, LiveArrays \cup {c})) = idx_size + Cardinality(DOMAIN old.buckets)
      BY <1>5, <2>3, <2>4, <3>1, RowsAdded
    <3>3. SlotsInUse' = Rows(arr, LiveArrays \cup {c})
      BY <1>5, <3>1, SlotsAreRows
    <3> QED
      BY <1>7, <3>2, <3>3
  <2> QED
    BY <2>1, <2>2, <2>5 DEF Tallied, CountersExact
<1>23. OneSlot'
  <2>1. \A x \in LiveArrays : InOneSlot(array'[x])
    BY <1>4, <1>9 DEF OneSlot, InOneSlot
  <2>2. InOneSlot(array'[c])
    BY <1>4, <1>5, <1>6, <1>8, <1>1 DEF OneSlot, InOneSlot
  <2> QED
    BY <1>5, <2>1, <2>2 DEF OneSlot
<1> QED
  BY <1>15, <1>16, <1>17, <1>18, <1>19, <1>20, <1>21, <1>22, <1>23 DEF IInv

-----------------------------------------------------------------------------
(* The vector after room was made: the old slots, and the empty bucket.      *)
LEMMA GrownIs ==
  ASSUME TypesOK, NEW a \in LiveArrays, NEW size \in Nat \ {0}, NEW g, g = Grown(a, size)
  PROVE  /\ g \in Vector /\ DOMAIN g = SlotsFor(a, size)
         /\ Slots(a) \subseteq DOMAIN g /\ (size - 1) \div BucketSize \in DOMAIN g
         /\ \A s \in Slots(a) : g[s] = array[a].buckets[s]
         /\ \A s \in DOMAIN g : s \notin Slots(a) => g[s] = array[a].empty
<1> DEFINE q == (size - 1) \div BucketSize
<1>1. PICK k \in Nat \ {0} : Slots(a) = 0..(k - 1) /\ array[a].buckets \in [0..(k - 1) -> Buckets]
  BY RecordParts
<1>2. array[a].empty \in Buckets
  BY RecordParts
<1>3. q \in Nat /\ (size - 1 < k * BucketSize <=> q < k)
  <2>1. size - 1 \in Nat /\ k \in Nat /\ BucketSize \in Nat \ {0}
    BY SizeAssumption
  <2> QED
    BY <2>1, WholeBuckets
<1>4. Capacity(a) = k * BucketSize /\ k * BucketSize \in Nat
  <2>1. Cardinality(0..(k - 1)) = k
    BY FS_Interval
  <2> QED
    BY <1>1, <2>1, SizeAssumption DEF Capacity
<1> HIDE DEF q
<1>5. \E m \in Nat \ {0} : SlotsFor(a, size) = 0..(m - 1) /\ k <= m /\ q \in 0..(m - 1)
  <2>1. CASE size <= Capacity(a)
    <3>1. q < k
      BY <1>3, <1>4, <2>1
    <3> QED
      BY <1>1, <1>3, <2>1, <3>1 DEF SlotsFor
  <2>2. CASE ~(size <= Capacity(a))
    <3>1. ~(q < k)
      BY <1>3, <1>4, <2>2
    <3>2. SlotsFor(a, size) = 0..((q + GrowSlack + 1) - 1)
      BY <1>3, <2>2, SizeAssumption DEF SlotsFor, q
    <3>3. q + GrowSlack + 1 \in Nat \ {0} /\ k <= q + GrowSlack + 1
          /\ q \in 0..((q + GrowSlack + 1) - 1)
      BY <1>3, <3>1, SizeAssumption
    <3> QED
      BY <3>2, <3>3
  <2> QED
    BY <2>1, <2>2
<1>6. PICK m \in Nat \ {0} : SlotsFor(a, size) = 0..(m - 1) /\ k <= m /\ q \in 0..(m - 1)
  BY <1>5
<1>7. /\ DOMAIN g = 0..(m - 1) /\ Slots(a) \subseteq 0..(m - 1)
      /\ \A s \in 0..(m - 1) : g[s] = IF s \in Slots(a) THEN array[a].buckets[s] ELSE array[a].empty
  BY <1>1, <1>6 DEF Grown
<1>8. \A s \in 0..(m - 1) : g[s] \in Buckets
  BY <1>1, <1>2, <1>7
<1>9. g \in [0..(m - 1) -> Buckets]
  <2>1. g = [s \in 0..(m - 1) |-> g[s]]
    BY <1>6 DEF Grown
  <2> QED
    BY <1>8, <2>1
<1>10. g \in Vector
  BY <1>9 DEF Vector
<1> QED
  BY <1>6, <1>7, <1>10 DEF q

(* An array whose only reference is its client's has no copies.              *)
LEMMA NoCopies ==
  ASSUME IInv, NEW a \in held, array[a].refs = 1, freeing = NoArray
  PROVE  Copies(a) = {}
<1>1. TypesOK /\ Counted
  BY DEF IInv
<1>2. a \in LiveArrays /\ a # NoArray
  BY <1>1, RecordParts DEF TypesOK
<1>3. IsFiniteSet(Copies(a))
  <2>1. Copies(a) \subseteq LiveArrays
    BY CopiesAre
  <2> QED
    BY <1>1, <2>1, FS_Subset DEF Counted
<1>4. Cardinality(Copies(a)) \in Nat /\ 1 = Cardinality(Copies(a)) + 1
  BY <1>1, <1>2, <1>3, FS_CardinalityType DEF Counted, RefCountExact
<1> QED
  BY <1>3, <1>4, FS_EmptySet

(* A change to an array that has no copies: buckets N of its own more, and   *)
(* new elements in others of its own but not in the empty bucket.            *)
LEMMA ChangeStep ==
  ASSUME IInv, NEW a \in held, array[a].refs = 1, freeing = NoArray,
         NEW vec \in Vector, array' = [array EXCEPT ![a].buckets = vec],
         NEW N \in SUBSET Buckets, IsFiniteSet(N), N \cap LiveBuckets = {},
         LiveArrays' = LiveArrays, LiveBuckets' = LiveBuckets \cup N,
         memory' \in [Blocks -> {"free", "live", "garbage"}],
         Ptrs(array'[a]) \subseteq Ptrs(array[a]) \cup N,
         OwnBuckets(a) \cup N \subseteq Ptrs(array'[a]),
         InOneSlot(array'[a]),
         bucket' \in [Buckets -> Elems \cup {NoElems}],
         \A b \in LiveBuckets' : bucket'[b] \in Elems,
         \A b \in LiveBuckets : bucket'[b].version = bucket[b].version,
         \A b \in N : bucket'[b].version = array[a].version,
         \A b \in LiveBuckets :
             b \notin OwnBuckets(a) \/ b = array[a].empty => bucket'[b] = bucket[b],
         held' = held, freeing' = freeing, narrays' = narrays,
         nbuckets' = nbuckets + Cardinality(N),
         idx_size' = idx_size + Cardinality(DOMAIN vec) - Cardinality(Slots(a))
  PROVE  IInv'
<1>1. /\ TypesOK /\ Ancestry /\ Sharing /\ OneOwner
      /\ Counted /\ Owned /\ Uniform /\ OneSlot /\ Tallied
  BY DEF IInv
<1>2. a \in LiveArrays /\ a # NoArray /\ array[a] \in Record
  BY <1>1, RecordParts DEF TypesOK
<1>3. Copies(a) = {}
  BY NoCopies
<1>4. /\ array' \in [Arrays -> Record \cup {NoRecord}] /\ array'[a] \in Record
      /\ array'[a].buckets = vec
      /\ \A x \in LiveArrays : /\ array'[x].empty = array[x].empty
                               /\ array'[x].version = array[x].version
                               /\ array'[x].refs = array[x].refs
                               /\ array'[x].copyOf = array[x].copyOf
      /\ \A x \in LiveArrays : x # a => array'[x] = array[x]
  <2> PICK new : new = [array[a] EXCEPT !.buckets = vec]
    OBVIOUS
  <2>1. new = [buckets |-> vec, empty |-> array[a].empty, version |-> array[a].version,
               refs |-> array[a].refs, copyOf |-> array[a].copyOf]
    BY <1>2 DEF Record
  <2>2. new \in Record
    BY <1>2, <2>1 DEF Record
  <2>3. /\ new.buckets = vec /\ new.empty = array[a].empty /\ new.version = array[a].version
        /\ new.refs = array[a].refs /\ new.copyOf = array[a].copyOf
    BY <2>1
  <2>4. array' = [array EXCEPT ![a] = new]
    OBVIOUS
  <2>5. array'[a] = new /\ \A x \in LiveArrays : x # a => array'[x] = array[x]
    BY <1>1, <1>2, <2>4 DEF TypesOK, LiveArrays
  <2>6. array' \in [Arrays -> Record \cup {NoRecord}]
    BY <1>1, <1>2, <2>2, <2>4 DEF TypesOK, LiveArrays
  <2> QED
    BY <2>2, <2>3, <2>5, <2>6
<1>5. \A x \in LiveArrays : Ptrs(array[x]) \subseteq LiveBuckets /\ OwnBuckets(x) \subseteq LiveBuckets
  BY <1>1, OwnIs DEF Sharing
<1>6. \A x \in LiveArrays : x # a => OwnBuckets(x)' = OwnBuckets(x)
  <2> SUFFICES ASSUME NEW x \in LiveArrays, x # a PROVE OwnBuckets(x)' = OwnBuckets(x)
    OBVIOUS
  <2>1. array'[x] = array[x]
    BY <1>4
  <2>2. \A b \in Ptrs(array[x]) : bucket'[b].version = bucket[b].version
    BY <1>5
  <2>3. \A b : b \in OwnBuckets(x)' <=> b \in OwnBuckets(x)
    BY <2>1, <2>2, OwnIs
  <2> QED
    BY <2>3
<1>7. OwnBuckets(a)' = OwnBuckets(a) \cup N
  <2>1. array'[a].version = array[a].version
    BY <1>2, <1>4
  <2>2. \A b \in Ptrs(array[a]) : bucket'[b].version = bucket[b].version
    BY <1>2, <1>5
  <2>3. ASSUME NEW b, b \in OwnBuckets(a)' PROVE b \in OwnBuckets(a) \cup N
    <3>1. b \in Ptrs(array'[a]) /\ bucket'[b].version = array[a].version
      BY <2>1, <2>3, OwnIs
    <3> QED
      BY <2>2, <3>1, OwnIs
  <2>4. ASSUME NEW b \in OwnBuckets(a) \cup N PROVE b \in OwnBuckets(a)'
    <3>1. b \in Ptrs(array'[a])
      OBVIOUS
    <3>2. bucket'[b].version = array[a].version
      BY <2>2, OwnIs
    <3> QED
      BY <2>1, <3>1, <3>2, OwnIs
  <2> QED
    BY <2>3, <2>4
<1>8. \A x \in LiveArrays : Copies(x)' = Copies(x)
  <2>1. \A x \in LiveArrays : \A y : y \in Copies(x)' <=> y \in Copies(x)
    BY <1>4, CopiesAre
  <2> QED
    BY <2>1
<1>9. TypesOK'
  <2>1. \A x \in LiveArrays' : array'[x] \in Record
    BY <1>1, <1>4 DEF TypesOK
  <2> QED
    BY <1>1, <1>4, <2>1 DEF TypesOK
<1>10. Ancestry'
  BY <1>1, <1>4 DEF Ancestry
<1>11. Sharing'
  <2> SUFFICES ASSUME NEW x \in LiveArrays, NEW b \in Ptrs(array'[x])
               PROVE  /\ b \in LiveBuckets'
                      /\ \/ bucket'[b].version = array'[x].version
                         \/ /\ bucket'[b].version < array'[x].version
                            /\ \E p \in LiveArrays' : array'[x].copyOf = p /\ b \in Ptrs(array'[p])
    BY DEF Sharing
  <2>1. CASE b \in Ptrs(array[x])
    <3>1. /\ b \in LiveBuckets
          /\ \/ bucket[b].version = array[x].version
             \/ /\ bucket[b].version < array[x].version
                /\ \E p \in LiveArrays : array[x].copyOf = p /\ b \in Ptrs(array[p])
      BY <1>1, <2>1 DEF Sharing
    <3>2. array[x].copyOf # a
      BY <1>3, CopiesAre
    <3> QED
      BY <1>4, <3>1, <3>2
  <2>2. CASE b \notin Ptrs(array[x])
    <3>1. x = a /\ b \in N
      BY <1>4, <2>2
    <3> QED
      BY <1>2, <1>4, <3>1
  <2> QED
    BY <2>1, <2>2
<1>12. OneOwner'
  <2>1. \A x \in LiveArrays : OwnBuckets(x) \cap N = {}
    BY <1>5
  <2> QED
    BY <1>1, <1>2, <1>6, <1>7, <2>1 DEF OneOwner
<1>13. Counted'
  <2>1. RefCountExact'
    BY <1>1, <1>4, <1>8 DEF Counted, RefCountExact
  <2> QED
    BY <1>1, <1>4, <2>1 DEF Counted
<1>14. Owned'
  BY <1>1, <1>2, <1>6, <1>7 DEF Owned
<1>15. Uniform'
  <2> SUFFICES ASSUME NEW x \in LiveArrays
               PROVE  bucket'[array[x].empty] = bucket[array[x].empty]
    BY <1>1, <1>4 DEF Uniform
  <2>1. array[x].empty \in Ptrs(array[x])
    BY DEF Ptrs
  <2>2. array[x].empty \in OwnBuckets(a) => x = a
    BY <1>1, <1>2, <1>3, <2>1, OnlyOwnerPoints
  <2> QED
    BY <1>5, <2>1, <2>2
<1>16. Tallied'
  <2>1. IsFiniteSet(LiveBuckets') /\ nbuckets' = Cardinality(LiveBuckets')
    <3>1. IsFiniteSet(LiveBuckets) /\ nbuckets = Cardinality(LiveBuckets)
      BY <1>1 DEF Tallied, CountersExact
    <3>2. LiveBuckets \cap N = {} /\ Cardinality(LiveBuckets \cap N) = 0
      BY FS_EmptySet
    <3>3. /\ IsFiniteSet(LiveBuckets \cup N)
          /\ Cardinality(LiveBuckets \cup N) =
                 Cardinality(LiveBuckets) + Cardinality(N) - Cardinality(LiveBuckets \cap N)
      BY <3>1, FS_Union
    <3>4. Cardinality(LiveBuckets) \in Nat /\ Cardinality(N) \in Nat
      BY <3>1, FS_CardinalityType
    <3> QED
      BY <3>1, <3>2, <3>3, <3>4
  <2>2. narrays' = Cardinality(LiveArrays')
    BY <1>1 DEF Tallied, CountersExact
  <2>3. IsFiniteSet(SlotsInUse') /\ idx_size' = Cardinality(SlotsInUse')
    <3>1. IsFiniteSet(Rows(array, LiveArrays)) /\ idx_size = Cardinality(Rows(array, LiveArrays))
      BY <1>1, SlotsAreRows DEF Tallied, CountersExact
    <3>2. IsFiniteSet(DOMAIN array[a].buckets) /\ IsFiniteSet(DOMAIN array'[a].buckets)
      BY <1>1, <1>2, <1>4, VectorFinite, RecordParts
    <3>3. PICK arr : arr = array'
      OBVIOUS
    <3>4. \A x \in LiveArrays : x # a => DOMAIN array[x].buckets = DOMAIN arr[x].buckets
      BY <1>4, <3>3
    <3>5. /\ IsFiniteSet(Rows(arr, LiveArrays))
          /\ Cardinality(Rows(arr, LiveArrays)) = Cardinality(Rows(array, LiveArrays))
                 + Cardinality(DOMAIN arr[a].buckets) - Cardinality(DOMAIN array[a].buckets)
      <4>1. PICK old : old = array
        OBVIOUS
      <4>2. PICK L : L = LiveArrays
        OBVIOUS
      <4>3. /\ a \in L /\ IsFiniteSet(Rows(old, L))
            /\ IsFiniteSet(DOMAIN old[a].buckets) /\ IsFiniteSet(DOMAIN arr[a].buckets)
        BY <1>2, <3>1, <3>2, <3>3, <4>1, <4>2
      <4>4. \A x \in L : x # a => DOMAIN old[x].buckets = DOMAIN arr[x].buckets
        BY <3>4, <4>1, <4>2
      <4>5. /\ IsFiniteSet(Rows(arr, L))
            /\ Cardinality(Rows(arr, L)) = Cardinality(Rows(old, L))
                   + Cardinality(DOMAIN arr[a].buckets) - Cardinality(DOMAIN old[a].buckets)
        BY <4>3, <4>4, RowsChanged
      <4> QED
        BY <4>1, <4>2, <4>5
    <3>6. SlotsInUse' = Rows(arr, LiveArrays)
      BY <3>3, SlotsAreRows
    <3>7. Slots(a) = DOMAIN array[a].buckets /\ DOMAIN vec = DOMAIN arr[a].buckets
      BY <1>4, <3>3 DEF Slots
    <3> QED
      BY <3>1, <3>5, <3>6, <3>7
  <2> QED
    BY <2>1, <2>2, <2>3 DEF Tallied, CountersExact
<1>17. OneSlot'
  BY <1>1, <1>4 DEF OneSlot
<1> QED
  BY <1>9, <1>10, <1>11, <1>12, <1>13, <1>14, <1>15, <1>16, <1>17 DEF IInv

(* The pointers of an array whose vector was exchanged.                      *)
LEMMA Repointed ==
  ASSUME TypesOK, NEW a \in LiveArrays, NEW vec \in Vector,
         array' = [array EXCEPT ![a].buckets = vec]
  PROVE  /\ \A b : b \in Ptrs(array'[a]) <=> b = array[a].empty \/ \E s \in DOMAIN vec : b = vec[s]
         /\ array'[a].buckets = vec /\ array'[a].empty = array[a].empty
         /\ \A x \in LiveArrays : x # a => array'[x] = array[x]
<1>1. array[a] \in Record /\ a \in Arrays
  BY RecordParts
<1> PICK new : new = [array[a] EXCEPT !.buckets = vec]
  OBVIOUS
<1>2. new.buckets = vec /\ new.empty = array[a].empty
  BY <1>1 DEF Record
<1>3. array'[a] = new /\ \A x \in LiveArrays : x # a => array'[x] = array[x]
  BY <1>1 DEF TypesOK, LiveArrays
<1>4. \A b : b \in Ptrs(new) <=> b = array[a].empty \/ \E s \in DOMAIN vec : b = vec[s]
  BY <1>2 DEF Ptrs
<1> QED
  BY <1>2, <1>3, <1>4

(* A grown vector points where it did, and from the new slots at the empty   *)
(* bucket.                                                                   *)
LEMMA GrownPtrs ==
  ASSUME TypesOK, OneSlot, NEW a \in LiveArrays, NEW size \in Nat \ {0}, NEW g, g = Grown(a, size)
  PROVE  /\ \A s \in DOMAIN g : g[s] \in Ptrs(array[a])
         /\ \A b \in Ptrs(array[a]) : b = array[a].empty \/ \E s \in DOMAIN g : b = g[s]
         /\ \A s, t \in DOMAIN g : g[s] = g[t] => s = t \/ g[s] = array[a].empty
<1>1. /\ Slots(a) \subseteq DOMAIN g
      /\ \A s \in Slots(a) : g[s] = array[a].buckets[s]
      /\ \A s \in DOMAIN g : s \notin Slots(a) => g[s] = array[a].empty
  BY GrownIs
<1>2. Slots(a) = DOMAIN array[a].buckets
  BY DEF Slots
<1>3. \A s \in DOMAIN g : g[s] \in Ptrs(array[a])
  BY <1>1, <1>2 DEF Ptrs
<1>4. \A b \in Ptrs(array[a]) : b = array[a].empty \/ \E s \in DOMAIN g : b = g[s]
  BY <1>1, <1>2 DEF Ptrs
<1>5. \A s, t \in DOMAIN g : g[s] = g[t] => s = t \/ g[s] = array[a].empty
  BY <1>1, <1>2 DEF OneSlot, InOneSlot
<1> QED
  BY <1>3, <1>4, <1>5

(* The same of the vector that has a slot for an index.                      *)
LEMMA GrownPtrsAt ==
  ASSUME TypesOK, OneSlot, NEW a \in LiveArrays, NEW i \in Nat, NEW g, g = Grown(a, i + 1)
  PROVE  /\ \A s \in DOMAIN g : g[s] \in Ptrs(array[a])
         /\ \A b \in Ptrs(array[a]) : b = array[a].empty \/ \E s \in DOMAIN g : b = g[s]
         /\ \A s, t \in DOMAIN g : g[s] = g[t] => s = t \/ g[s] = array[a].empty
<1>1. PICK size : size = i + 1
  OBVIOUS
<1>2. size \in Nat \ {0} /\ g = Grown(a, size)
  BY <1>1
<1> QED
  BY <1>2, GrownPtrs

(* The blocks in use stay in use when the garbage list goes with a vector.   *)
SameInUse(m) ==
    /\ m \in [Blocks -> {"free", "live", "garbage"}]
    /\ \A b \in Blocks : m[b] = "live" <=> memory[b] = "live"

(* sarray_realloc frees garbage only.                                        *)
LEMMA MemoryKept ==
  ASSUME TypesOK, NEW a, NEW size
  PROVE  SameInUse(MemoryFor(a, size))
<1>1. memory \in [Blocks -> {"free", "live", "garbage"}]
  BY DEF TypesOK
<1>2. SameInUse(memory)
  BY <1>1 DEF SameInUse
<1>3. SameInUse(Discarded({}))
  BY <1>1 DEF SameInUse, Discarded
<1> QED
  BY <1>2, <1>3 DEF MemoryFor

(* Making room adds pointers to the empty bucket only.                       *)
LEMMA GrowStep ==
  ASSUME IInv, NEW a \in held, array[a].refs = 1, freeing = NoArray,
         NEW size \in Nat \ {0}, array' = [array EXCEPT ![a].buckets = Grown(a, size)],
         Grow(a, size), memory' = MemoryFor(a, size),
         UNCHANGED <<bucket, held, freeing, nbuckets, narrays>>
  PROVE  IInv'
<1>1. PICK g : g = Grown(a, size)
  OBVIOUS
<1>2. TypesOK /\ OneSlot /\ a \in LiveArrays
  BY DEF IInv, TypesOK
<1>3. g \in Vector /\ DOMAIN g = SlotsFor(a, size)
  BY <1>2, <1>1, GrownIs
<1>4. array' = [array EXCEPT ![a].buckets = g]
  BY <1>1
<1>5. \A b : b \in Ptrs(array'[a]) <=> b \in Ptrs(array[a])
  <2>1. array[a].empty \in Ptrs(array[a])
    BY DEF Ptrs
  <2>2. /\ \A s \in DOMAIN g : g[s] \in Ptrs(array[a])
        /\ \A b \in Ptrs(array[a]) : b = array[a].empty \/ \E s \in DOMAIN g : b = g[s]
    BY <1>2, <1>1, GrownPtrs
  <2>3. \A b : b \in Ptrs(array'[a]) <=> b = array[a].empty \/ \E s \in DOMAIN g : b = g[s]
    BY <1>2, <1>3, <1>4, Repointed
  <2> QED
    BY <2>1, <2>2, <2>3
<1>6. InOneSlot(array'[a])
  <2>1. array'[a].buckets = g /\ array'[a].empty = array[a].empty
    BY <1>2, <1>3, <1>4, Repointed
  <2>2. \A s, t \in DOMAIN g : g[s] = g[t] => s = t \/ g[s] = array[a].empty
    BY <1>2, <1>1, GrownPtrs
  <2> QED
    BY <2>1, <2>2 DEF InOneSlot
<1>7. PICK N : N = {}
  OBVIOUS
<1>8. /\ N \in SUBSET Buckets /\ IsFiniteSet(N) /\ N \cap LiveBuckets = {} /\ Cardinality(N) = 0
  BY <1>7, FS_EmptySet
<1>9. /\ LiveArrays' = LiveArrays /\ LiveBuckets' = LiveBuckets \cup N
      /\ memory' \in [Blocks -> {"free", "live", "garbage"}]
      /\ bucket' \in [Buckets -> Elems \cup {NoElems}]
      /\ \A b \in LiveBuckets' : bucket'[b] \in Elems
  <2>1. SameInUse(memory')
    BY <1>2, MemoryKept
  <2>2. LiveArrays' = LiveArrays /\ LiveBuckets' = LiveBuckets
    BY <2>1 DEF SameInUse, LiveArrays, LiveBuckets, Live, Blocks
  <2> QED
    BY <1>2, <1>7, <2>1, <2>2 DEF SameInUse, TypesOK
<1>10. Ptrs(array'[a]) \subseteq Ptrs(array[a]) \cup N /\ OwnBuckets(a) \cup N \subseteq Ptrs(array'[a])
  BY <1>5, <1>7, OwnIs
<1>11. /\ bucket' = bucket /\ held' = held /\ freeing' = freeing /\ narrays' = narrays
       /\ nbuckets' = nbuckets + Cardinality(N)
       /\ idx_size' = idx_size + Cardinality(DOMAIN g) - Cardinality(Slots(a))
  <2>1. nbuckets \in Nat
    BY FS_CardinalityType DEF IInv, Tallied, CountersExact
  <2> QED
    BY <1>3, <1>8, <2>1 DEF Grow
<1> QED
  BY <1>3, <1>4, <1>6, <1>7, <1>8, <1>9, <1>10, <1>11, ChangeStep

(* sarray_at_put writes to a bucket of the array's own ...                   *)
LEMMA WriteStep ==
  ASSUME IInv, NEW a \in held, array[a].refs = 1, freeing = NoArray,
         NEW i \in Nat, NEW v \in Values, NEW g, g = Grown(a, i + 1),
         NEW b, b = g[i \div BucketSize], MayWrite(a, b),
         bucket' = [bucket EXCEPT ![b] = Written(b, i, v, @.version)],
         array' = [array EXCEPT ![a].buckets = g],
         Grow(a, i + 1), memory' = MemoryFor(a, i + 1),
         UNCHANGED <<held, freeing, nbuckets, narrays>>
  PROVE  /\ IInv'
         /\ b \in OwnBuckets(a) /\ b # array[a].empty
<1>1. TypesOK /\ OneSlot /\ Sharing /\ a \in LiveArrays
  BY DEF IInv, TypesOK
<1>2. i + 1 \in Nat \ {0} /\ (i + 1) - 1 = i
  OBVIOUS
<1>3. g \in Vector /\ DOMAIN g = SlotsFor(a, i + 1) /\ i \div BucketSize \in DOMAIN g
  <2>1. g \in Vector /\ DOMAIN g = SlotsFor(a, i + 1) /\ ((i + 1) - 1) \div BucketSize \in DOMAIN g
    BY <1>1, <1>2, GrownIs
  <2> QED
    BY <1>2, <2>1
<1>4. b \in OwnBuckets(a) /\ b # array[a].empty /\ b \in LiveBuckets
  <2>1. b \in Ptrs(array[a])
    BY <1>1, <1>3, GrownPtrsAt
  <2> QED
    BY <1>1, <2>1, OwnIs DEF MayWrite, Sharing
<1>5. \A c : c \in Ptrs(array'[a]) <=> c \in Ptrs(array[a])
  <2>1. array[a].empty \in Ptrs(array[a])
    BY DEF Ptrs
  <2>2. /\ \A s \in DOMAIN g : g[s] \in Ptrs(array[a])
        /\ \A c \in Ptrs(array[a]) : c = array[a].empty \/ \E s \in DOMAIN g : c = g[s]
    BY <1>1, GrownPtrsAt
  <2>3. \A c : c \in Ptrs(array'[a]) <=> c = array[a].empty \/ \E s \in DOMAIN g : c = g[s]
    BY <1>1, <1>3, Repointed
  <2> QED
    BY <2>1, <2>2, <2>3
<1>6. InOneSlot(array'[a])
  <2>1. array'[a].buckets = g /\ array'[a].empty = array[a].empty
    BY <1>1, <1>3, Repointed
  <2>2. \A s, t \in DOMAIN g : g[s] = g[t] => s = t \/ g[s] = array[a].empty
    BY <1>1, GrownPtrsAt
  <2> QED
    BY <2>1, <2>2 DEF InOneSlot
<1>7. PICK N : N = {}
  OBVIOUS
<1>8. N \in SUBSET Buckets /\ IsFiniteSet(N) /\ N \cap LiveBuckets = {} /\ Cardinality(N) = 0
  BY <1>7, FS_EmptySet
<1>9. PICK new : new = Written(b, i, v, bucket[b].version)
  OBVIOUS
<1>10. new \in Elems /\ new.version = bucket[b].version
  <2>1. bucket[b] \in Elems
    BY <1>1, <1>4 DEF TypesOK
  <2>2. bucket[b].version \in Nat /\ bucket[b].elems \in [0..(BucketSize - 1) -> Values]
    BY <2>1 DEF Elems
  <2>3. [bucket[b].elems EXCEPT ![i % BucketSize] = v] \in [0..(BucketSize - 1) -> Values]
    BY <2>2
  <2> QED
    BY <1>9, <2>2, <2>3 DEF Written, Elems
<1>11. /\ bucket' = [bucket EXCEPT ![b] = new]
       /\ bucket' \in [Buckets -> Elems \cup {NoElems}] /\ bucket'[b] = new
       /\ \A c \in LiveBuckets : c # b => bucket'[c] = bucket[c]
  BY <1>1, <1>4, <1>9, <1>10 DEF TypesOK, LiveBuckets
<1>12. /\ LiveArrays' = LiveArrays /\ LiveBuckets' = LiveBuckets \cup N
       /\ memory' \in [Blocks -> {"free", "live", "garbage"}]
  <2>1. SameInUse(memory')
    BY <1>1, MemoryKept
  <2>2. LiveArrays' = LiveArrays /\ LiveBuckets' = LiveBuckets
    BY <2>1 DEF SameInUse, LiveArrays, LiveBuckets, Live, Blocks
  <2> QED
    BY <1>7, <2>1, <2>2 DEF SameInUse
<1>13. Ptrs(array'[a]) \subseteq Ptrs(array[a]) \cup N /\ OwnBuckets(a) \cup N \subseteq Ptrs(array'[a])
  BY <1>5, <1>7, OwnIs
<1>14. /\ \A c \in LiveBuckets' : bucket'[c] \in Elems
       /\ \A c \in LiveBuckets : bucket'[c].version = bucket[c].version
       /\ \A c \in LiveBuckets :
              c \notin OwnBuckets(a) \/ c = array[a].empty => bucket'[c] = bucket[c]
  <2>1. \A c \in LiveBuckets : bucket[c] \in Elems
    BY <1>1 DEF TypesOK
  <2> QED
    BY <1>4, <1>7, <1>10, <1>11, <1>12, <2>1
<1>15. /\ held' = held /\ freeing' = freeing /\ narrays' = narrays
       /\ nbuckets' = nbuckets + Cardinality(N)
       /\ idx_size' = idx_size + Cardinality(DOMAIN g) - Cardinality(Slots(a))
  <2>1. nbuckets \in Nat
    BY FS_CardinalityType DEF IInv, Tallied, CountersExact
  <2> QED
    BY <1>3, <1>8, <2>1 DEF Grow
<1>16. IInv'
  BY <1>3, <1>6, <1>7, <1>8, <1>11, <1>12, <1>13, <1>14, <1>15, ChangeStep
<1> QED
  BY <1>4, <1>16

(* ... or to a copy of the bucket, which the slot then points at.            *)
LEMMA CopyWriteStep ==
  ASSUME IInv, NEW a \in held, array[a].refs = 1, freeing = NoArray,
         NEW i \in Nat, NEW v \in Values, NEW g, g = Grown(a, i + 1),
         NEW b, b = g[i \div BucketSize], ~MayWrite(a, b),
         NEW n \in Buckets, MemoryFor(a, i + 1)[n] = "free",
         bucket' = [bucket EXCEPT ![n] = Written(b, i, v, array[a].version)],
         array' = [array EXCEPT ![a].buckets = [g EXCEPT ![i \div BucketSize] = n]],
         memory' = [MemoryFor(a, i + 1) EXCEPT ![n] = "live"], nbuckets' = nbuckets + 1,
         Grow(a, i + 1), UNCHANGED <<held, freeing, narrays>>
  PROVE  IInv' /\ n \notin LiveBuckets
<1>1. TypesOK /\ OneSlot /\ Sharing /\ a \in LiveArrays
  BY DEF IInv, TypesOK
<1>2. i + 1 \in Nat \ {0} /\ (i + 1) - 1 = i
  OBVIOUS
<1>3. PICK slot : slot = i \div BucketSize
  OBVIOUS
<1>4. PICK vec : vec = [g EXCEPT ![slot] = n]
  OBVIOUS
<1>5. /\ n \in Buckets /\ n \notin LiveBuckets
      /\ LiveArrays' = LiveArrays /\ LiveBuckets' = LiveBuckets \cup {n}
      /\ memory' \in [Blocks -> {"free", "live", "garbage"}]
  <2>1. PICK m : m = MemoryFor(a, i + 1)
    OBVIOUS
  <2>2. SameInUse(m) /\ m[n] = "free" /\ memory' = [m EXCEPT ![n] = "live"]
    BY <1>1, <2>1, MemoryKept
  <2>3. memory' \in [Blocks -> {"free", "live", "garbage"}]
    BY <2>2 DEF SameInUse
  <2>4. \A x \in Blocks : memory'[x] = "live" <=> memory[x] = "live" \/ x = n
    BY <2>2 DEF SameInUse
  <2>5. n \in Buckets /\ n \notin Arrays /\ memory[n] # "live"
    BY <2>2, BlocksAssumption DEF SameInUse, Blocks
  <2> QED
    BY <2>3, <2>4, <2>5 DEF LiveArrays, LiveBuckets, Live, Blocks
<1>6. g \in Vector /\ DOMAIN g = SlotsFor(a, i + 1) /\ slot \in DOMAIN g /\ b = g[slot]
  <2>1. g \in Vector /\ DOMAIN g = SlotsFor(a, i + 1) /\ ((i + 1) - 1) \div BucketSize \in DOMAIN g
    BY <1>1, <1>2, GrownIs
  <2> QED
    BY <1>2, <1>3, <2>1
<1>7. /\ vec \in Vector /\ DOMAIN vec = DOMAIN g /\ vec[slot] = n
      /\ \A s \in DOMAIN g : s # slot => vec[s] = g[s]
  <2>1. PICK k \in Nat \ {0} : g \in [0..(k - 1) -> Buckets]
    BY <1>6 DEF Vector
  <2>2. vec \in [0..(k - 1) -> Buckets]
    BY <1>4, <1>5, <2>1
  <2> QED
    BY <1>4, <1>6, <2>1, <2>2 DEF Vector
<1>8. array' = [array EXCEPT ![a].buckets = vec]
  BY <1>3, <1>4
<1>9. \A c : c \in Ptrs(array'[a]) <=> c = array[a].empty \/ \E s \in DOMAIN vec : c = vec[s]
  BY <1>1, <1>7, <1>8, Repointed
<1>10. /\ \A s \in DOMAIN g : g[s] \in Ptrs(array[a])
       /\ \A c \in Ptrs(array[a]) : c = array[a].empty \/ \E s \in DOMAIN g : c = g[s]
       /\ \A s, t \in DOMAIN g : g[s] = g[t] => s = t \/ g[s] = array[a].empty
       /\ array[a].empty \in Ptrs(array[a]) /\ n \notin Ptrs(array[a])
  <2>1. array[a].empty \in Ptrs(array[a])
    BY DEF Ptrs
  <2>2. n \notin Ptrs(array[a])
    BY <1>1, <1>5 DEF Sharing
  <2>3. /\ \A s \in DOMAIN g : g[s] \in Ptrs(array[a])
        /\ \A c \in Ptrs(array[a]) : c = array[a].empty \/ \E s \in DOMAIN g : c = g[s]
        /\ \A s, t \in DOMAIN g : g[s] = g[t] => s = t \/ g[s] = array[a].empty
    BY <1>1, GrownPtrsAt
  <2> QED
    BY <2>1, <2>2, <2>3
<1>11. Ptrs(array'[a]) \subseteq Ptrs(array[a]) \cup {n}
  BY <1>7, <1>9, <1>10
<1>12. OwnBuckets(a) \cup {n} \subseteq Ptrs(array'[a])
  <2>1. n \in Ptrs(array'[a])
    BY <1>6, <1>7, <1>9
  <2>2. ASSUME NEW c \in OwnBuckets(a) PROVE c \in Ptrs(array'[a])
    <3>1. c \in Ptrs(array[a]) /\ bucket[c].version = array[a].version
      BY OwnIs
    <3>2. c = array[a].empty \/ c # b
      BY <3>1 DEF MayWrite
    <3> QED
      BY <1>6, <1>7, <1>9, <1>10, <3>1, <3>2
  <2> QED
    BY <2>1, <2>2
<1>13. InOneSlot(array'[a])
  <2>1. array'[a].buckets = vec /\ array'[a].empty = array[a].empty
    <3>1. vec \in Vector
      BY <1>7
    <3> QED
      BY <1>1, <1>8, <3>1, Repointed
  <2>2. ASSUME NEW s \in DOMAIN vec, NEW t \in DOMAIN vec, vec[s] = vec[t]
        PROVE  s = t \/ vec[s] = array[a].empty
    <3>1. \A u \in DOMAIN vec : u # slot => vec[u] # n
      BY <1>7, <1>10
    <3> QED
      BY <1>7, <1>10, <2>2, <3>1
  <2> QED
    BY <2>1, <2>2 DEF InOneSlot
<1>14. PICK new : new = Written(b, i, v, array[a].version)
  OBVIOUS
<1>15. new \in Elems /\ new.version = array[a].version
  <2>1. b \in LiveBuckets
    BY <1>1, <1>6, <1>10 DEF Sharing
  <2>2. bucket[b].elems \in [0..(BucketSize - 1) -> Values]
    BY <1>1, <2>1 DEF TypesOK, Elems
  <2>3. [bucket[b].elems EXCEPT ![i % BucketSize] = v] \in [0..(BucketSize - 1) -> Values]
    BY <2>2
  <2>4. array[a].version \in Nat
    BY <1>1, RecordParts
  <2> QED
    BY <1>14, <2>3, <2>4 DEF Written, Elems
<1>16. /\ bucket' \in [Buckets -> Elems \cup {NoElems}] /\ bucket'[n] = new
       /\ \A c \in LiveBuckets : bucket'[c] = bucket[c] /\ bucket[c] \in Elems
  <2>1. bucket' = [bucket EXCEPT ![n] = new]
    BY <1>14
  <2> QED
    BY <1>1, <1>5, <1>15, <2>1 DEF TypesOK, LiveBuckets
<1>17. PICK N : N = {n}
  OBVIOUS
<1>18. N \in SUBSET Buckets /\ IsFiniteSet(N) /\ N \cap LiveBuckets = {} /\ Cardinality(N) = 1
  BY <1>5, <1>17, FS_Singleton
<1>19. /\ LiveBuckets' = LiveBuckets \cup N
       /\ Ptrs(array'[a]) \subseteq Ptrs(array[a]) \cup N
       /\ OwnBuckets(a) \cup N \subseteq Ptrs(array'[a])
  BY <1>5, <1>11, <1>12, <1>17
<1>20. /\ \A c \in LiveBuckets' : bucket'[c] \in Elems
       /\ \A c \in LiveBuckets : bucket'[c].version = bucket[c].version
       /\ \A c \in N : bucket'[c].version = array[a].version
       /\ \A c \in LiveBuckets :
              c \notin OwnBuckets(a) \/ c = array[a].empty => bucket'[c] = bucket[c]
  BY <1>5, <1>15, <1>16, <1>17
<1>21. /\ held' = held /\ freeing' = freeing /\ narrays' = narrays
       /\ nbuckets' = nbuckets + Cardinality(N)
       /\ idx_size' = idx_size + Cardinality(DOMAIN vec) - Cardinality(Slots(a))
  BY <1>6, <1>7, <1>18 DEF Grow
<1>22. IInv'
  BY <1>5, <1>7, <1>8, <1>13, <1>16, <1>18, <1>19, <1>20, <1>21, ChangeStep
<1> QED
  BY <1>5, <1>22

(* A reference given up changes the count alone.                             *)
LEMMA FewerRefs ==
  ASSUME NEW r \in Record, r.refs # 0, NEW q, q = [r EXCEPT !.refs = @ - 1]
  PROVE  /\ q \in Record /\ q.buckets = r.buckets /\ q.empty = r.empty
         /\ q.version = r.version /\ q.copyOf = r.copyOf /\ q.refs = r.refs - 1
<1>1. q = [buckets |-> r.buckets, empty |-> r.empty, version |-> r.version,
           refs |-> r.refs - 1, copyOf |-> r.copyOf]
  BY DEF Record
<1>2. r.refs - 1 \in Nat
  BY DEF Record
<1>3. q \in Record
  BY <1>1, <1>2 DEF Record
<1> QED
  BY <1>1, <1>3

(* The client's reference is given up.                                       *)
LEMMA FreeStep ==
  ASSUME IInv, NEW a \in Arrays, Free(a)
  PROVE  IInv'
<1>1. /\ TypesOK /\ Ancestry /\ Sharing /\ OneOwner
      /\ Counted /\ Owned /\ Uniform /\ OneSlot /\ Tallied
  BY DEF IInv
<1>2. /\ a \in held /\ a \in LiveArrays /\ a # NoArray /\ freeing = NoArray
      /\ held' = held \ {a} /\ UNCHANGED <<bucket, memory, counters>>
      /\ array[a] \in Record /\ array[a].refs \in Nat
  BY <1>1, RecordParts DEF Free, TypesOK
<1>3. LiveArrays' = LiveArrays /\ LiveBuckets' = LiveBuckets
  BY <1>2 DEF LiveArrays, LiveBuckets, Live
<1>4. /\ freeing' \in {NoArray, a}
      /\ freeing' = a <=> array[a].refs = 1
  BY <1>2 DEF Free, Unref
<1>5. /\ array' \in [Arrays -> Record \cup {NoRecord}]
      /\ \A x \in LiveArrays : /\ array'[x] \in Record
                               /\ array'[x].buckets = array[x].buckets
                               /\ array'[x].empty = array[x].empty
                               /\ array'[x].version = array[x].version
                               /\ array'[x].copyOf = array[x].copyOf
      /\ \A x \in LiveArrays : x # a => array'[x].refs = array[x].refs
      /\ array'[a].refs = array[a].refs - 1
  <2>1. PICK q : q = [array[a] EXCEPT !.refs = @ - 1]
    OBVIOUS
  <2>2. array[a].refs # 0
    BY <1>1, <1>2 DEF Counted
  <2>3. /\ q \in Record /\ q.buckets = array[a].buckets /\ q.empty = array[a].empty
        /\ q.version = array[a].version /\ q.copyOf = array[a].copyOf
        /\ q.refs = array[a].refs - 1
    BY <1>2, <2>1, <2>2, FewerRefs
  <2>4. array' = [array EXCEPT ![a] = q]
    BY <2>1 DEF Free
  <2>5. array'[a] = q /\ \A x \in LiveArrays : x # a => array'[x] = array[x]
    BY <1>1, <2>4 DEF TypesOK, LiveArrays
  <2>6. array' \in [Arrays -> Record \cup {NoRecord}]
    BY <1>1, <2>3, <2>4 DEF TypesOK
  <2>7. \A x \in LiveArrays : array[x] \in Record
    BY <1>1 DEF TypesOK
  <2> QED
    BY <2>3, <2>5, <2>6, <2>7
<1>6. \A x \in LiveArrays : Ptrs(array'[x]) = Ptrs(array[x])
  BY <1>5 DEF Ptrs
<1>7. \A x \in LiveArrays : OwnBuckets(x)' = OwnBuckets(x)
  <2> SUFFICES ASSUME NEW x \in LiveArrays PROVE OwnBuckets(x)' = OwnBuckets(x)
    OBVIOUS
  <2>1. Ptrs(array'[x]) = Ptrs(array[x]) /\ array'[x].version = array[x].version /\ bucket' = bucket
    BY <1>2, <1>5, <1>6
  <2>2. \A b : b \in OwnBuckets(x)' <=> b \in OwnBuckets(x)
    BY <2>1, OwnIs
  <2> QED
    BY <2>2
<1>8. \A x \in LiveArrays : Copies(x)' = Copies(x)
  <2>1. \A x \in LiveArrays : \A y : y \in Copies(x)' <=> y \in Copies(x)
    BY <1>3, <1>5, CopiesAre
  <2> QED
    BY <2>1
<1>9. TypesOK'
  <2>1. /\ held' \subseteq LiveArrays /\ a \notin held'
        /\ freeing' \in (LiveArrays' \ held') \cup {NoArray}
    BY <1>1, <1>2, <1>3, <1>4 DEF TypesOK
  <2> QED
    BY <1>1, <1>2, <1>3, <1>5, <2>1 DEF TypesOK
<1>10. Ancestry'
  BY <1>1, <1>3, <1>5 DEF Ancestry
<1>11. Sharing'
  BY <1>1, <1>2, <1>3, <1>5, <1>6 DEF Sharing
<1>12. OneOwner'
  BY <1>1, <1>3, <1>7 DEF OneOwner
<1>13. Counted'
  <2>1. IsFiniteSet(Copies(a)) /\ array[a].refs = Cardinality(Copies(a)) + 1
    <3>1. Copies(a) \subseteq LiveArrays
      BY CopiesAre
    <3>2. IsFiniteSet(Copies(a))
      BY <1>1, <3>1, FS_Subset DEF Counted
    <3> QED
      BY <1>1, <1>2, <3>2 DEF Counted, RefCountExact
  <2>2. Cardinality(Copies(a)) \in Nat /\ (Cardinality(Copies(a)) = 0 => Copies(a) = {})
    BY <2>1, FS_CardinalityType, FS_EmptySet
  <2>3. \A x \in LiveArrays : x # a =>
            array'[x].refs = Cardinality(Copies(x)) + (IF x \in held' THEN 1 ELSE 0)
    BY <1>1, <1>2, <1>5, RecordParts DEF Counted, RefCountExact
  <2>4. array'[a].refs = Cardinality(Copies(a)) + (IF a \in held' THEN 1 ELSE 0)
    BY <1>2, <1>5, <2>1, <2>2
  <2>5. RefCountExact'
    BY <1>2, <1>3, <1>8, <2>3, <2>4 DEF RefCountExact
  <2>6. \A x \in LiveArrays : x # freeing' => array'[x].refs # 0
    <3>1. \A x \in LiveArrays : x # a => array'[x].refs # 0
      BY <1>1, <1>2, <1>5, RecordParts DEF Counted
    <3>2. a # freeing' => array'[a].refs # 0
      BY <1>2, <1>4, <1>5
    <3> QED
      BY <3>1, <3>2
  <2>7. freeing' # NoArray => Copies(freeing)' = {}
    <3>1. CASE freeing' = a
      <4>1. Copies(a) = {}
        BY <1>4, <2>1, <2>2, <3>1
      <4>2. \A y \in LiveArrays : array'[y].copyOf # a
        BY <1>5, <4>1, CopiesAre
      <4> QED
        BY <1>3, <3>1, <4>2 DEF Copies
    <3> QED
      BY <1>4, <3>1
  <2> QED
    BY <1>1, <1>3, <2>5, <2>6, <2>7 DEF Counted
<1>14. Owned'
  BY <1>1, <1>3, <1>7 DEF Owned
<1>15. Uniform'
  BY <1>1, <1>2, <1>3, <1>5 DEF Uniform
<1>16. OneSlot'
  BY <1>1, <1>3, <1>5 DEF OneSlot, InOneSlot
<1>17. Tallied'
  <2>1. Rows(array', LiveArrays) = Rows(array, LiveArrays)
    BY <1>5, RowsSame
  <2>2. SlotsInUse' = SlotsInUse
    BY <1>3, <2>1, SlotsAreRows
  <2> QED
    BY <1>1, <1>2, <1>3, <2>2 DEF Tallied, CountersExact, counters
<1> QED
  BY <1>9, <1>10, <1>11, <1>12, <1>13, <1>14, <1>15, <1>16, <1>17 DEF IInv

(* The array taken apart takes its buckets with it, which nobody else points *)
(* at, and its reference to its original.                                    *)
LEMMA TakeApartStep ==
  ASSUME IInv, TakeApart
  PROVE  /\ IInv'
         /\ \A x \in held : /\ Ptrs(array'[x]) = Ptrs(array[x])
                            /\ array'[x].buckets = array[x].buckets
                            /\ array'[x].empty = array[x].empty
                            /\ \A b \in Ptrs(array[x]) : bucket'[b] = bucket[b]
<1> PICK a : a = freeing
  OBVIOUS
<1> PICK p : p = array[a].copyOf
  OBVIOUS
<1> PICK own : own = OwnBuckets(a)
  OBVIOUS
<1> PICK rest : rest = LiveArrays \ {a}
  OBVIOUS
<1>1. /\ TypesOK /\ Ancestry /\ Sharing /\ OneOwner
      /\ Counted /\ Owned /\ Uniform /\ OneSlot /\ Tallied
  BY DEF IInv
<1>2. /\ a \in LiveArrays /\ a \notin held /\ a # NoArray /\ a \in Arrays
      /\ held' = held /\ held \subseteq rest /\ Copies(a) = {}
      /\ p \in rest \cup {NoArray} /\ NoArray \notin rest
  <2>1. a \in LiveArrays /\ a \notin held /\ a # NoArray /\ a \in Arrays
    BY <1>1, RecordParts DEF TakeApart, TypesOK
  <2>2. held' = held /\ held \subseteq rest
    BY <1>1, <2>1 DEF TakeApart, TypesOK
  <2>3. Copies(a) = {}
    BY <1>1, <2>1 DEF Counted
  <2>4. p # a /\ p \in LiveArrays \cup {NoArray}
    BY <1>1, <2>1, <2>3, CopiesAre DEF Ancestry
  <2>5. NoArray \notin rest
    BY <1>1, RecordParts
  <2> QED
    BY <2>1, <2>2, <2>3, <2>4, <2>5
<1>3. own \subseteq LiveBuckets /\ own \subseteq Buckets
  BY <1>1, <1>2, OwnIs DEF Sharing, LiveBuckets
<1>4. /\ LiveArrays' = rest /\ LiveBuckets' = LiveBuckets \ own
      /\ memory' \in [Blocks -> {"free", "live", "garbage"}]
  <2>1. memory' = [b \in Blocks |->
            IF b \in own \cup {a} THEN (IF alone THEN "free" ELSE "garbage")
            ELSE IF alone /\ memory[b] = "garbage" THEN "free"
            ELSE memory[b]]
    BY DEF TakeApart, Discarded
  <2>2. \A b \in Blocks : memory'[b] = "live" <=> memory[b] = "live" /\ b \notin own \cup {a}
    BY <2>1
  <2>3. memory' \in [Blocks -> {"free", "live", "garbage"}]
    BY <1>1, <2>1 DEF TypesOK
  <2> QED
    BY <1>2, <1>3, <2>2, <2>3, BlocksAssumption DEF LiveArrays, LiveBuckets, Live, Blocks
<1>5. /\ array' \in [Arrays -> Record \cup {NoRecord}]
      /\ \A x \in rest : /\ array'[x] \in Record
                         /\ array'[x].buckets = array[x].buckets
                         /\ array'[x].empty = array[x].empty
                         /\ array'[x].version = array[x].version
                         /\ array'[x].copyOf = array[x].copyOf
      /\ \A x \in rest : x # p => array'[x].refs = array[x].refs
      /\ p # NoArray => array'[p].refs = array[p].refs - 1
  <2>1. array' = [c \in Arrays |->
            IF c = a THEN NoRecord
            ELSE IF c = p THEN [array[c] EXCEPT !.refs = @ - 1]
            ELSE array[c]]
    BY DEF TakeApart
  <2>2. \A x \in rest : x \in Arrays /\ array[x] \in Record
    BY <1>1, RecordParts
  <2>3. \A x \in rest : x # p => array'[x] = array[x]
    BY <2>1, <2>2
  <2>4. ASSUME p # NoArray
        PROVE  /\ array'[p] \in Record
               /\ array'[p].buckets = array[p].buckets
               /\ array'[p].empty = array[p].empty
               /\ array'[p].version = array[p].version
               /\ array'[p].copyOf = array[p].copyOf
               /\ array'[p].refs = array[p].refs - 1
    <3>1. p \in rest
      BY <1>2, <2>4
    <3>2. PICK q : q = [array[p] EXCEPT !.refs = @ - 1]
      OBVIOUS
    <3>3. array'[p] = q
      BY <2>1, <2>2, <3>1, <3>2
    <3>4. array[p] \in Record /\ array[p].refs # 0
      BY <1>1, <2>2, <3>1 DEF Counted
    <3>5. /\ q \in Record /\ q.buckets = array[p].buckets /\ q.empty = array[p].empty
          /\ q.version = array[p].version /\ q.copyOf = array[p].copyOf
          /\ q.refs = array[p].refs - 1
      BY <3>2, <3>4, FewerRefs
    <3> QED
      BY <3>3, <3>5
  <2>5. \A x \in Arrays : array'[x] \in Record \cup {NoRecord}
    <3> SUFFICES ASSUME NEW x \in Arrays PROVE array'[x] \in Record \cup {NoRecord}
      OBVIOUS
    <3>1. CASE x = a
      BY <2>1, <3>1
    <3>2. CASE x = p
      BY <1>2, <2>4, <3>2, BlocksAssumption
    <3>3. CASE x # a /\ x # p
      BY <1>1, <2>1, <3>3 DEF TypesOK
    <3> QED
      BY <3>1, <3>2, <3>3
  <2>6. array' \in [Arrays -> Record \cup {NoRecord}]
    BY <2>1, <2>5
  <2> QED
    BY <1>2, <2>2, <2>3, <2>4, <2>6
<1>6. \A x \in rest : /\ Ptrs(array'[x]) = Ptrs(array[x])
                      /\ \A b \in Ptrs(array[x]) : b \in LiveBuckets' /\ bucket'[b] = bucket[b]
  <2> SUFFICES ASSUME NEW x \in rest
               PROVE  /\ Ptrs(array'[x]) = Ptrs(array[x])
                      /\ \A b \in Ptrs(array[x]) : b \in LiveBuckets' /\ bucket'[b] = bucket[b]
    OBVIOUS
  <2>1. Ptrs(array'[x]) = Ptrs(array[x])
    BY <1>5 DEF Ptrs
  <2>2. \A b \in Ptrs(array[x]) : b \in LiveBuckets
    BY <1>1 DEF Sharing
  <2>3. \A b \in Ptrs(array[x]) : b \notin own
    BY <1>1, <1>2, OnlyOwnerPoints
  <2>4. \A b \in Buckets : b \notin own => bucket'[b] = bucket[b]
    BY DEF TakeApart
  <2> QED
    BY <1>4, <2>1, <2>2, <2>3, <2>4 DEF LiveBuckets
<1>7. \A x \in rest : OwnBuckets(x)' = OwnBuckets(x)
  <2> SUFFICES ASSUME NEW x \in rest PROVE OwnBuckets(x)' = OwnBuckets(x)
    OBVIOUS
  <2>1. Ptrs(array'[x]) = Ptrs(array[x]) /\ array'[x].version = array[x].version
    BY <1>5, <1>6
  <2>2. \A b \in Ptrs(array[x]) : bucket'[b] = bucket[b]
    BY <1>6
  <2>3. \A b : b \in OwnBuckets(x)' <=> b \in OwnBuckets(x)
    BY <2>1, <2>2, OwnIs
  <2> QED
    BY <2>3
<1>8. /\ \A x \in rest : x # p => Copies(x)' = Copies(x)
      /\ p # NoArray => Copies(p)' = Copies(p) \ {a} /\ a \in Copies(p)
  <2>1. \A x \in rest : x # p => \A y : y \in Copies(x)' <=> y \in Copies(x)
    BY <1>2, <1>4, <1>5, CopiesAre
  <2>2. \A y : y \in Copies(p)' <=> y \in Copies(p) \ {a}
    BY <1>2, <1>4, <1>5, CopiesAre
  <2>3. a \in Copies(p)
    BY <1>2, CopiesAre
  <2>4. \A x \in rest : x # p => Copies(x)' = Copies(x)
    BY <2>1
  <2>5. Copies(p)' = Copies(p) \ {a}
    BY <2>2
  <2> QED
    BY <2>3, <2>4, <2>5
<1>9. freeing' = IF p # NoArray /\ array[p].refs = 1 THEN p ELSE NoArray
  BY DEF TakeApart, Unref
<1>10. p # NoArray =>
          /\ IsFiniteSet(Copies(p)) /\ Cardinality(Copies(p)) \in Nat \ {0}
          /\ Cardinality(Copies(p) \ {a}) = Cardinality(Copies(p)) - 1
          /\ IsFiniteSet(Copies(p) \ {a})
          /\ array[p].refs = Cardinality(Copies(p)) + (IF p \in held THEN 1 ELSE 0)
          /\ array[p].refs # 0
  <2> SUFFICES ASSUME p # NoArray
               PROVE  /\ IsFiniteSet(Copies(p)) /\ Cardinality(Copies(p)) \in Nat \ {0}
                      /\ Cardinality(Copies(p) \ {a}) = Cardinality(Copies(p)) - 1
                      /\ IsFiniteSet(Copies(p) \ {a})
                      /\ array[p].refs = Cardinality(Copies(p)) + (IF p \in held THEN 1 ELSE 0)
                      /\ array[p].refs # 0
    OBVIOUS
  <2>1. Copies(p) \subseteq LiveArrays
    BY CopiesAre
  <2>2. IsFiniteSet(Copies(p)) /\ a \in Copies(p)
    BY <1>1, <1>8, <2>1, FS_Subset DEF Counted
  <2>3. Cardinality(Copies(p)) \in Nat /\ Cardinality(Copies(p)) # 0
    BY <2>2, FS_CardinalityType, FS_EmptySet
  <2>4. IsFiniteSet(Copies(p) \ {a}) /\ Cardinality(Copies(p) \ {a}) = Cardinality(Copies(p)) - 1
    BY <2>2, FS_RemoveElement
  <2>5. /\ array[p].refs = Cardinality(Copies(p)) + (IF p \in held THEN 1 ELSE 0)
        /\ array[p].refs # 0
    BY <1>1, <1>2 DEF Counted, RefCountExact
  <2> QED
    BY <2>2, <2>3, <2>4, <2>5
<1>11. TypesOK'
  <2>1. bucket' \in [Buckets -> Elems \cup {NoElems}]
    BY <1>1 DEF TakeApart, TypesOK
  <2>2. \A b \in LiveBuckets' : bucket'[b] \in Elems
    <3>1. \A b \in Buckets : b \notin own => bucket'[b] = bucket[b]
      BY DEF TakeApart
    <3> QED
      BY <1>1, <1>4, <3>1 DEF TypesOK, LiveBuckets
  <2>3. freeing' \in (LiveArrays' \ held') \cup {NoArray}
    <3>1. CASE p # NoArray /\ array[p].refs = 1
      <4>1. p \notin held /\ p \in rest /\ freeing' = p
        BY <1>2, <1>9, <1>10, <3>1
      <4> QED
        BY <1>2, <1>4, <4>1
    <3> QED
      BY <1>9, <3>1
  <2> QED
    BY <1>1, <1>2, <1>4, <1>5, <2>1, <2>2, <2>3 DEF TypesOK
<1>12. Ancestry'
  <2>1. \A x \in rest : array[x].copyOf # a
    BY <1>2, CopiesAre
  <2> QED
    BY <1>1, <1>4, <1>5, <2>1 DEF Ancestry
<1>13. Sharing'
  <2> SUFFICES ASSUME NEW x \in rest, NEW b \in Ptrs(array'[x])
               PROVE  /\ b \in LiveBuckets'
                      /\ \/ bucket'[b].version = array'[x].version
                         \/ /\ bucket'[b].version < array'[x].version
                            /\ \E q \in LiveArrays' : array'[x].copyOf = q /\ b \in Ptrs(array'[q])
    BY <1>4 DEF Sharing
  <2>1. b \in Ptrs(array[x]) /\ b \in LiveBuckets' /\ bucket'[b] = bucket[b]
    BY <1>6
  <2>2. \/ bucket[b].version = array[x].version
        \/ /\ bucket[b].version < array[x].version
           /\ \E q \in LiveArrays : array[x].copyOf = q /\ b \in Ptrs(array[q])
    BY <1>1, <2>1 DEF Sharing
  <2>3. array[x].copyOf # a
    BY <1>2, CopiesAre
  <2> QED
    BY <1>4, <1>5, <1>6, <2>1, <2>2, <2>3
<1>14. OneOwner'
  BY <1>1, <1>4, <1>7 DEF OneOwner
<1>15. Counted'
  <2>1. IsFiniteSet(LiveArrays')
    BY <1>1, <1>4, FS_RemoveElement DEF Counted
  <2>2. \A x \in rest : x # p =>
            array'[x].refs = Cardinality(Copies(x)') + (IF x \in held' THEN 1 ELSE 0)
    BY <1>1, <1>2, <1>5, <1>8 DEF Counted, RefCountExact
  <2>3. p # NoArray =>
            array'[p].refs = Cardinality(Copies(p)') + (IF p \in held' THEN 1 ELSE 0)
    <3> SUFFICES ASSUME p # NoArray
                 PROVE  array'[p].refs = Cardinality(Copies(p)') + (IF p \in held' THEN 1 ELSE 0)
      OBVIOUS
    <3>1. array'[p].refs = array[p].refs - 1
      BY <1>5
    <3>2. Cardinality(Copies(p)') = Cardinality(Copies(p)) - 1
      BY <1>8, <1>10
    <3>3. held' = held
      BY <1>2
    <3>4. /\ array[p].refs = Cardinality(Copies(p)) + (IF p \in held THEN 1 ELSE 0)
          /\ Cardinality(Copies(p)) \in Nat
      BY <1>10
    <3> QED
      BY <3>1, <3>2, <3>3, <3>4
  <2>4. RefCountExact'
    BY <1>2, <1>4, <2>2, <2>3 DEF RefCountExact
  <2>5. \A x \in rest : x # freeing' => array'[x].refs # 0
    <3>1. \A x \in rest : x # p => array'[x].refs # 0
      BY <1>1, <1>5 DEF Counted
    <3>2. p # NoArray /\ p # freeing' => array'[p].refs # 0
      BY <1>5, <1>9, <1>10
    <3> QED
      BY <1>2, <3>1, <3>2
  <2>6. freeing' # NoArray => Copies(freeing)' = {}
    <3>1. CASE p # NoArray /\ array[p].refs = 1
      <4>1. Cardinality(Copies(p) \ {a}) = 0
        BY <1>10, <3>1
      <4>2. Copies(p)' = {}
        BY <1>8, <1>10, <3>1, <4>1, FS_EmptySet
      <4>3. freeing' = p
        BY <1>9, <3>1
      <4>4. \A y : ~(y \in LiveArrays' /\ array'[y].copyOf = p)
        BY <4>2, CopiesAre
      <4> QED
        BY <4>3, <4>4 DEF Copies
    <3> QED
      BY <1>9, <3>1
  <2> QED
    BY <1>4, <2>1, <2>4, <2>5, <2>6 DEF Counted
<1>16. Owned'
  <2> SUFFICES ASSUME NEW b \in LiveBuckets' PROVE \E x \in rest : b \in OwnBuckets(x)'
    BY <1>4 DEF Owned
  <2>1. PICK x \in LiveArrays : b \in OwnBuckets(x)
    BY <1>1, <1>4 DEF Owned
  <2>2. x # a
    BY <1>4, <2>1
  <2> QED
    BY <1>7, <2>1, <2>2
<1>17. Uniform'
  <2>1. \A x \in rest : array[x].empty \in Ptrs(array[x])
    BY DEF Ptrs
  <2>2. \A x \in rest : bucket'[array'[x].empty] = bucket[array[x].empty]
    BY <1>5, <1>6, <2>1
  <2> QED
    BY <1>1, <1>4, <2>2 DEF Uniform
<1>18. OneSlot'
  BY <1>1, <1>4, <1>5 DEF OneSlot, InOneSlot
<1>19. Tallied'
  <2>1. IsFiniteSet(LiveBuckets') /\ nbuckets' = Cardinality(LiveBuckets')
    <3>1. IsFiniteSet(LiveBuckets) /\ nbuckets = Cardinality(LiveBuckets)
      BY <1>1 DEF Tallied, CountersExact
    <3>2. LiveBuckets \cap own = own
      BY <1>3
    <3>3. nbuckets' = nbuckets - Cardinality(own)
      BY DEF TakeApart
    <3>4. PICK all : all = LiveBuckets
      OBVIOUS
    <3>5. /\ IsFiniteSet(all \ own)
          /\ Cardinality(all \ own) = Cardinality(all) - Cardinality(all \cap own)
      BY <3>1, <3>4, FS_Difference
    <3>6. all \cap own = own
      BY <3>2, <3>4
    <3>7. /\ IsFiniteSet(LiveBuckets \ own)
          /\ Cardinality(LiveBuckets \ own) = Cardinality(LiveBuckets) - Cardinality(own)
      BY <3>4, <3>5, <3>6
    <3> QED
      BY <1>4, <3>1, <3>3, <3>7
  <2>2. narrays' = Cardinality(LiveArrays')
    <3>1. narrays = Cardinality(LiveArrays) /\ IsFiniteSet(LiveArrays)
      BY <1>1 DEF Counted, Tallied, CountersExact
    <3>2. narrays' = narrays - 1
      BY DEF TakeApart
    <3> QED
      BY <1>2, <1>4, <3>1, <3>2, FS_RemoveElement
  <2>3. IsFiniteSet(SlotsInUse') /\ idx_size' = Cardinality(SlotsInUse')
    <3>1. IsFiniteSet(Rows(array, LiveArrays)) /\ idx_size = Cardinality(Rows(array, LiveArrays))
      BY <1>1, SlotsAreRows DEF Tallied, CountersExact
    <3>2. IsFiniteSet(DOMAIN array[a].buckets)
      BY <1>1, <1>2, VectorFinite, RecordParts
    <3>3. LiveArrays = rest \cup {a} /\ a \notin rest /\ rest \in SUBSET LiveArrays
      BY <1>2
    <3>4. IsFiniteSet(Rows(array, rest))
      BY <3>1, <3>3, RowsFewer
    <3>5. Cardinality(Rows(array, rest \cup {a})) =
              Cardinality(Rows(array, rest)) + Cardinality(DOMAIN array[a].buckets)
      BY <3>2, <3>3, <3>4, RowsAdded
    <3>6. Rows(array', rest) = Rows(array, rest)
      BY <1>5, RowsSame
    <3>7. idx_size' = idx_size - Cardinality(DOMAIN array[a].buckets)
      BY DEF TakeApart, Slots
    <3>8. Cardinality(Rows(array, rest)) \in Nat /\ Cardinality(DOMAIN array[a].buckets) \in Nat
      BY <3>2, <3>4, FS_CardinalityType
    <3>9. SlotsInUse' = Rows(array, rest)
      BY <1>4, <3>6, SlotsAreRows
    <3>10. idx_size = Cardinality(Rows(array, rest)) + Cardinality(DOMAIN array[a].buckets)
      BY <3>1, <3>3, <3>5
    <3>11. idx_size' = Cardinality(Rows(array, rest))
      BY <3>7, <3>8, <3>10
    <3> QED
      BY <3>4, <3>9, <3>11
  <2> QED
    BY <2>1, <2>2, <2>3 DEF Tallied, CountersExact
<1>20. IInv'
  BY <1>11, <1>12, <1>13, <1>14, <1>15, <1>16, <1>17, <1>18, <1>19 DEF IInv
<1> QED
  BY <1>2, <1>5, <1>6, <1>20

(* What changes none of this keeps the invariant.                            *)
LEMMA StutterStep ==
  ASSUME IInv, UNCHANGED <<array, bucket, memory, held, freeing, counters>>
  PROVE  IInv'
<1>1. LiveArrays' = LiveArrays /\ LiveBuckets' = LiveBuckets
  BY DEF LiveArrays, LiveBuckets, Live
<1>2. \A x : OwnBuckets(x)' = OwnBuckets(x) /\ Copies(x)' = Copies(x)
  BY <1>1 DEF OwnBuckets, Slots, Copies
<1>3. TypesOK' /\ Ancestry' /\ Sharing' /\ Uniform' /\ OneSlot'
  BY <1>1 DEF IInv, TypesOK, Ancestry, Sharing, Uniform, OneSlot
<1>4. Counted' /\ Owned' /\ OneOwner'
  BY <1>1, <1>2 DEF IInv, Counted, RefCountExact, Owned, OneOwner
<1>5. SlotsInUse' = SlotsInUse
  BY <1>1 DEF SlotsInUse, Slots
<1>6. Tallied'
  BY <1>1, <1>5 DEF IInv, Tallied, CountersExact, counters
<1> QED
  BY <1>3, <1>4, <1>6 DEF IInv

(* sarray_at_put keeps the invariant: the bucket in its own slot, or a new   *)
(* one there.                                                                *)
LEMMA PutStep ==
  ASSUME IInv, NEW a \in Arrays, NEW i \in Indices, NEW v \in Values, NEW n \in Buckets,
         AtPut(a, i, v, n)
  PROVE  IInv'
<1>1. i \in Nat /\ i + 1 \in Nat \ {0}
  BY SizeAssumption DEF Indices
<1>2. /\ a \in held /\ array[a].refs = 1 /\ freeing = NoArray
      /\ Grow(a, i + 1) /\ UNCHANGED <<held, freeing, narrays>>
  BY DEF AtPut
<1>3. PICK g : g = Grown(a, i + 1)
  OBVIOUS
<1>4. PICK b : b = g[i \div BucketSize]
  OBVIOUS
<1>5. CASE array' = [array EXCEPT ![a].buckets = g] /\ memory' = MemoryFor(a, i + 1) /\ UNCHANGED <<bucket, nbuckets>>
  BY <1>1, <1>2, <1>3, <1>5, GrowStep
<1>6. CASE /\ MayWrite(a, b)
           /\ bucket' = [bucket EXCEPT ![b] = Written(b, i, v, @.version)]
           /\ array' = [array EXCEPT ![a].buckets = g]
           /\ memory' = MemoryFor(a, i + 1) /\ UNCHANGED nbuckets
  BY <1>1, <1>2, <1>3, <1>4, <1>6, WriteStep
<1>7. CASE /\ ~MayWrite(a, b)
           /\ MemoryFor(a, i + 1)[n] = "free"
           /\ bucket' = [bucket EXCEPT ![n] = Written(b, i, v, array[a].version)]
           /\ array' = [array EXCEPT ![a].buckets = [g EXCEPT ![i \div BucketSize] = n]]
           /\ memory' = [MemoryFor(a, i + 1) EXCEPT ![n] = "live"]
           /\ nbuckets' = nbuckets + 1
  BY <1>1, <1>2, <1>3, <1>4, <1>7, CopyWriteStep
<1> QED
  BY <1>3, <1>4, <1>5, <1>6, <1>7 DEF AtPut

(* Whatever the clients and the threads do, the family tree stays in order:  *)
(* the invariant of sarray.c that its five properties are read off.          *)
THEOREM Invariance == Spec => []IInv
<1>1. Init => IInv
  BY InitInv
<1>2. IInv /\ [Next]_vars => IInv'
  <2> SUFFICES ASSUME IInv, [Next]_vars PROVE IInv'
    OBVIOUS
  <2>1. ASSUME NEW a \in Arrays, NEW e \in Buckets, NEW i \in Indices, NEW v \in Values,
               New(a, e, i + 1, v)
        PROVE  IInv'
    <3>1. i + 1 \in Nat \ {0}
      BY SizeAssumption DEF Indices
    <3> QED
      BY <2>1, <3>1, NewStep
  <2>2. ASSUME NEW a \in Arrays, NEW c \in Arrays, LazyCopy(a, c) PROVE IInv'
    BY <2>2, CopyStep
  <2>3. ASSUME NEW a \in Arrays, NEW i \in Indices, Realloc(a, i + 1) PROVE IInv'
    <3>1. i + 1 \in Nat \ {0}
      BY SizeAssumption DEF Indices
    <3>2. /\ a \in held /\ array[a].refs = 1 /\ freeing = NoArray
          /\ array' = [array EXCEPT ![a].buckets = Grown(a, i + 1)]
          /\ Grow(a, i + 1) /\ memory' = MemoryFor(a, i + 1)
          /\ UNCHANGED <<bucket, held, freeing, nbuckets, narrays>>
      BY <2>3 DEF Realloc
    <3> QED
      BY <3>1, <3>2, GrowStep
  <2>4. ASSUME NEW a \in Arrays, NEW i \in Indices, NEW v \in Values, NEW n \in Buckets,
               AtPut(a, i, v, n)
        PROVE  IInv'
    BY <2>4, PutStep
  <2>5. ASSUME NEW a \in Arrays, Free(a) PROVE IInv'
    BY <2>5, FreeStep
  <2>6. CASE TakeApart
    BY <2>6, TakeApartStep
  <2>7. CASE ThreadStarts \/ LastThreadEnds \/ UNCHANGED vars
    <3>1. UNCHANGED <<array, bucket, memory, held, freeing, counters>>
      BY <2>7 DEF ThreadStarts, LastThreadEnds, vars, counters
    <3> QED
      BY <3>1, StutterStep
  <2> QED
    BY <2>1, <2>2, <2>3, <2>4, <2>5, <2>6, <2>7 DEF Next
<1> QED
  BY <1>1, <1>2, PTL DEF Spec

-----------------------------------------------------------------------------
(* Whatever was copied, written and freed, in whatever order, sarray_free    *)
(* never takes a block that an array still in use points at.                 *)
THEOREM NothingDangles == Spec => []NoDangling
<1>1. IInv => NoDangling
  <2> SUFFICES ASSUME IInv, NEW a \in LiveArrays
               PROVE  /\ \A b \in Pointed(a) : b \in Buckets /\ Live(b)
                      /\ array[a].copyOf # NoArray => Live(array[a].copyOf)
    BY DEF NoDangling
  <2>1. \A b \in Ptrs(array[a]) : b \in LiveBuckets
    BY DEF IInv, Sharing
  <2>2. Pointed(a) = Ptrs(array[a])
    BY DEF Pointed, Ptrs, Slots
  <2>3. array[a].copyOf # NoArray => array[a].copyOf \in LiveArrays
    BY DEF IInv, Ancestry
  <2> QED
    BY <2>1, <2>2, <2>3 DEF LiveBuckets, LiveArrays
<1> QED
  BY <1>1, Invariance, PTL

(* ref_count is the client's reference and one per living lazy copy, through *)
(* every chain of copies and frees.                                          *)
THEOREM ReferencesCounted == Spec => []RefCountExact
<1>1. IInv => RefCountExact
  BY DEF IInv, Counted
<1> QED
  BY <1>1, Invariance, PTL

(* The version number a bucket carries makes at most one array its owner,    *)
(* though the copies of one original all carry the same version.             *)
THEOREM OwnersUnique == Spec => []OneOwner
<1>1. IInv => OneOwner
  BY DEF IInv
<1> QED
  BY <1>1, Invariance, PTL

(* No bucket and no array in use is out of every client's reach.             *)
THEOREM NothingLeaks == Spec => []NothingLost
<1>1. IInv => NothingLost
  <2> SUFFICES ASSUME IInv PROVE NothingLost
    OBVIOUS
  <2>1. \A b \in Buckets : Live(b) => \E a \in LiveArrays : b \in OwnBuckets(a)
    BY DEF IInv, Owned, LiveBuckets
  <2>2. ASSUME NEW a \in LiveArrays, a \notin held, a # freeing
        PROVE  Copies(a) # {}
    <3>1. array[a].refs = Cardinality(Copies(a)) + 0 /\ array[a].refs # 0
      BY <2>2 DEF IInv, Counted, RefCountExact
    <3>2. Cardinality({}) = 0
      BY FS_EmptySet
    <3> QED
      BY <3>1, <3>2
  <2> QED
    BY <2>1, <2>2 DEF NothingLost
<1> QED
  BY <1>1, Invariance, PTL

(* nbuckets, narrays and idx_size count what is in use, whatever was made,   *)
(* grown, copied on a write and taken apart.                                 *)
THEOREM CountersRight == Spec => []CountersExact
<1>1. IInv => CountersExact
  BY DEF IInv, Tallied
<1> QED
  BY <1>1, Invariance, PTL

-----------------------------------------------------------------------------
(* To its clients an array is the values that it reads.                      *)
Read(r, bkt, i) ==
    IF i \div BucketSize \in DOMAIN r.buckets
    THEN bkt[r.buckets[i \div BucketSize]].elems[i % BucketSize]
    ELSE bkt[r.empty].elems[0]
Reads(r, bkt) == [i \in Indices |-> Read(r, bkt, i)]

(* An index is within an array when its bucket is.                           *)
LEMMA ReadIs ==
  ASSUME NEW r \in Record, NEW i \in Nat
  PROVE  i < Cardinality(DOMAIN r.buckets) * BucketSize <=> i \div BucketSize \in DOMAIN r.buckets
<1>1. PICK k \in Nat \ {0} : DOMAIN r.buckets = 0..(k - 1)
  BY DEF Record, Vector
<1>2. Cardinality(0..(k - 1)) = k
  BY FS_Interval
<1>3. BucketSize \in Nat \ {0} /\ k \in Nat
  BY SizeAssumption
<1>4. i \div BucketSize \in Nat /\ (i < k * BucketSize <=> i \div BucketSize < k)
  BY <1>3, WholeBuckets
<1>5. i \div BucketSize \in 0..(k - 1) <=> i \div BucketSize < k
  BY <1>3, <1>4
<1> QED
  BY <1>1, <1>2, <1>4, <1>5

(* What clients read, by the records and the buckets.                        *)
LEMMA ContentsAre ==
  /\ TypesOK => Contents = [a \in held |-> Reads(array[a], bucket)]
  /\ TypesOK' => Contents' = [a \in held' |-> Reads(array'[a], bucket')]
<1>1. Indices \subseteq Nat
  BY SizeAssumption DEF Indices
<1>2. ASSUME TypesOK PROVE Contents = [a \in held |-> Reads(array[a], bucket)]
  <2>1. ASSUME NEW a \in held, NEW i \in Indices PROVE Get(a, i) = Read(array[a], bucket, i)
    <3>1. array[a] \in Record
      BY <1>2 DEF TypesOK
    <3> QED
      BY <1>1, <3>1, ReadIs DEF Get, Read, Capacity, Slots
  <2> QED
    BY <2>1 DEF Contents, Reads
<1>3. ASSUME TypesOK' PROVE Contents' = [a \in held' |-> Reads(array'[a], bucket')]
  <2>1. ASSUME NEW a \in held', NEW i \in Indices PROVE Get(a, i)' = Read(array'[a], bucket', i)
    <3>1. array'[a] \in Record
      BY <1>3 DEF TypesOK
    <3> QED
      BY <1>1, <3>1, ReadIs DEF Get, Read, Capacity, Slots
  <2> QED
    BY <2>1 DEF Contents, Reads
<1> QED
  BY <1>2, <1>3

(* Who points at the same buckets, with the same in them, reads the same.    *)
LEMMA SameReads ==
  ASSUME NEW r, NEW q, q.buckets = r.buckets, q.empty = r.empty,
         NEW bkt, NEW ckt, \A b \in Ptrs(r) : ckt[b] = bkt[b]
  PROVE  Reads(q, ckt) = Reads(r, bkt)
<1>1. ASSUME NEW i \in Indices PROVE Read(q, ckt, i) = Read(r, bkt, i)
  BY DEF Read, Ptrs
<1> QED
  BY <1>1 DEF Reads

(* Making room changes no value.                                             *)
LEMMA GrownReads ==
  ASSUME TypesOK, Uniform, NEW a \in LiveArrays, NEW size \in Nat \ {0},
         NEW q, q.buckets = Grown(a, size), q.empty = array[a].empty
  PROVE  Reads(q, bucket) = Reads(array[a], bucket)
<1>1. PICK g : g = Grown(a, size)
  OBVIOUS
<1>2. /\ Slots(a) \subseteq DOMAIN g
      /\ \A s \in Slots(a) : g[s] = array[a].buckets[s]
      /\ \A s \in DOMAIN g : s \notin Slots(a) => g[s] = array[a].empty
  BY <1>1, GrownIs
<1>3. ASSUME NEW i \in Indices PROVE Read(q, bucket, i) = Read(array[a], bucket, i)
  <2>1. i % BucketSize \in 0..(BucketSize - 1)
    BY SizeAssumption DEF Indices
  <2>2. bucket[array[a].empty].elems[i % BucketSize] = bucket[array[a].empty].elems[0]
    BY <2>1 DEF Uniform
  <2> QED
    BY <1>1, <1>2, <2>2 DEF Read, Slots
<1> QED
  BY <1>3 DEF Reads

(* A new array is one of ArrayValues.                                        *)
LEMMA NewReads ==
  ASSUME IInv, IInv', NEW a \in Arrays, NEW e \in Buckets, NEW i \in Indices,
         NEW v \in Values, New(a, e, i + 1, v)
  PROVE  Abstract!New(a, v)
<1>1. /\ Contents = [x \in held |-> Reads(array[x], bucket)]
      /\ Contents' = [x \in held' |-> Reads(array'[x], bucket')]
  BY ContentsAre DEF IInv
<1>2. a \notin held /\ held \subseteq LiveArrays /\ e \notin LiveBuckets /\ held' = held \cup {a}
  BY BlocksAssumption
     DEF New, IInv, TypesOK, FreeArrays, FreeBuckets, LiveArrays, LiveBuckets, Live
<1>3. ASSUME NEW x \in held PROVE Reads(array'[x], bucket') = Reads(array[x], bucket)
  <2>1. array'[x] = array[x]
    BY <1>2, <1>3 DEF New, LiveArrays, IInv, TypesOK
  <2>2. Ptrs(array[x]) \subseteq LiveBuckets
    BY <1>2 DEF IInv, Sharing
  <2>3. \A b \in LiveBuckets : bucket'[b] = bucket[b]
    BY <1>2 DEF New, LiveBuckets, IInv, TypesOK
  <2> QED
    BY <2>1, <2>2, <2>3, SameReads
<1>4. Reads(array'[a], bucket') = [j \in Indices |-> v]
  <2>1. /\ array'[a].empty = e
        /\ \A s \in DOMAIN array'[a].buckets : array'[a].buckets[s] = e
    BY DEF New, IInv, TypesOK
  <2>2. \A j \in 0..(BucketSize - 1) : bucket'[e].elems[j] = v
    BY DEF New, IInv, TypesOK
  <2>3. ASSUME NEW j \in Indices PROVE Read(array'[a], bucket', j) = v
    <3>1. j % BucketSize \in 0..(BucketSize - 1) /\ 0 \in 0..(BucketSize - 1)
      BY SizeAssumption DEF Indices
    <3> QED
      BY <2>1, <2>2, <3>1 DEF Read
  <2> QED
    BY <2>3 DEF Reads
<1>5. Contents' = [x \in held \cup {a} |-> IF x = a THEN [j \in Indices |-> v] ELSE Contents[x]]
  BY <1>1, <1>2, <1>3, <1>4
<1>6. Abstract!InUse = held
  BY <1>1 DEF Abstract!InUse
<1> QED
  BY <1>2, <1>5, <1>6 DEF Abstract!New, Abstract!With

(* A lazy copy is a copy of ArrayValues.                                     *)
LEMMA CopyReads ==
  ASSUME IInv, IInv', NEW a \in Arrays, NEW c \in Arrays, LazyCopy(a, c)
  PROVE  Abstract!Copy(a, c)
<1>1. /\ Contents = [x \in held |-> Reads(array[x], bucket)]
      /\ Contents' = [x \in held' |-> Reads(array'[x], bucket')]
  BY ContentsAre DEF IInv
<1>2. /\ a \in held /\ c \notin held /\ held' = held \cup {c} /\ held \subseteq Arrays
      /\ bucket' = bucket
  BY DEF LazyCopy, IInv, TypesOK, FreeArrays, LiveArrays, Live
<1>3. /\ \A x \in held : /\ array'[x].buckets = array[x].buckets
                         /\ array'[x].empty = array[x].empty
      /\ array'[c].buckets = array[a].buckets /\ array'[c].empty = array[a].empty
  <2>1. a # c /\ array[a] \in Record /\ array \in [Arrays -> Record \cup {NoRecord}]
    BY <1>2 DEF IInv, TypesOK
  <2>2. PICK ra : ra = [array[a] EXCEPT !.refs = @ + 1]
    OBVIOUS
  <2>3. PICK rc : rc = [array[a] EXCEPT !.version = @ + 1, !.refs = 1, !.copyOf = a]
    OBVIOUS
  <2>4. array' = [array EXCEPT ![a] = ra, ![c] = rc]
    BY <2>1, <2>2, <2>3 DEF LazyCopy
  <2>5. /\ ra.buckets = array[a].buckets /\ ra.empty = array[a].empty
        /\ rc.buckets = array[a].buckets /\ rc.empty = array[a].empty
    BY <2>1, <2>2, <2>3 DEF Record
  <2> QED
    BY <1>2, <2>1, <2>4, <2>5
<1>4. /\ \A x \in held : Reads(array'[x], bucket') = Reads(array[x], bucket)
      /\ Reads(array'[c], bucket') = Reads(array[a], bucket)
  <2>1. \A r : \A b \in Ptrs(r) : bucket'[b] = bucket[b]
    BY <1>2
  <2>2. ASSUME NEW x \in held PROVE Reads(array'[x], bucket') = Reads(array[x], bucket)
    BY <1>3, <2>1, SameReads
  <2>3. Reads(array'[c], bucket') = Reads(array[a], bucket)
    BY <1>3, <2>1, SameReads
  <2> QED
    BY <2>2, <2>3
<1>5. Contents' = [x \in held \cup {c} |-> IF x = c THEN Contents[a] ELSE Contents[x]]
  BY <1>1, <1>2, <1>4
<1>6. Abstract!InUse = held
  BY <1>1 DEF Abstract!InUse
<1> QED
  BY <1>2, <1>5, <1>6 DEF Abstract!Copy, Abstract!With

(* A free is one of ArrayValues.                                             *)
LEMMA FreeReads ==
  ASSUME IInv, IInv', NEW a \in Arrays, Free(a)
  PROVE  Abstract!Free(a)
<1>1. /\ Contents = [x \in held |-> Reads(array[x], bucket)]
      /\ Contents' = [x \in held' |-> Reads(array'[x], bucket')]
  BY ContentsAre DEF IInv
<1>2. /\ a \in held /\ held' = held \ {a} /\ held \subseteq Arrays /\ bucket' = bucket
      /\ \A x \in held : x # a => array'[x] = array[x]
  BY DEF Free, IInv, TypesOK, LiveArrays
<1>3. Contents' = [x \in held \ {a} |-> Contents[x]]
  BY <1>1, <1>2
<1>4. Abstract!InUse = held
  BY <1>1 DEF Abstract!InUse
<1> QED
  BY <1>2, <1>3, <1>4 DEF Abstract!Free

(* The elements i that sarray_at_put writes, and no other, read as written.  *)
LEMMA PutReads ==
  ASSUME IInv, IInv', NEW a \in Arrays, NEW i \in Indices, NEW v \in Values,
         NEW n \in Buckets, AtPut(a, i, v, n)
  PROVE  Abstract!Put(a, i, v)
<1>1. /\ Contents = [x \in held |-> Reads(array[x], bucket)]
      /\ Contents' = [x \in held' |-> Reads(array'[x], bucket')]
  BY ContentsAre DEF IInv
<1>2. /\ TypesOK /\ Ancestry /\ Sharing /\ OneOwner /\ Uniform /\ OneSlot
      /\ a \in held /\ a \in LiveArrays /\ held \subseteq LiveArrays /\ held' = held
      /\ array[a].refs = 1 /\ freeing = NoArray
      /\ Grow(a, i + 1) /\ UNCHANGED <<held, freeing, narrays>>
  BY DEF AtPut, IInv, TypesOK
<1>3. i \in Nat /\ i + 1 \in Nat \ {0} /\ (i + 1) - 1 = i /\ Indices \subseteq Nat
  BY SizeAssumption DEF Indices
<1>4. PICK size : size = i + 1
  OBVIOUS
<1>5. PICK g : g = Grown(a, size)
  OBVIOUS
<1>6. PICK slot : slot = i \div BucketSize
  OBVIOUS
<1>7. PICK b : b = g[slot]
  OBVIOUS
<1>8. PICK r : r = [array[a] EXCEPT !.buckets = g]
  OBVIOUS
<1>9. /\ g \in Vector /\ slot \in DOMAIN g
      /\ \A s \in DOMAIN g : g[s] \in Ptrs(array[a])
      /\ \A s, t \in DOMAIN g : g[s] = g[t] => s = t \/ g[s] = array[a].empty
  <2>1. size \in Nat \ {0} /\ size - 1 = i
    BY <1>3, <1>4
  <2>2. g \in Vector /\ (size - 1) \div BucketSize \in DOMAIN g
    BY <1>2, <1>5, <2>1, GrownIs
  <2>3. \A s \in DOMAIN g : g[s] \in Ptrs(array[a])
    BY <1>2, <1>5, <2>1, GrownPtrs
  <2>4. \A s, t \in DOMAIN g : g[s] = g[t] => s = t \/ g[s] = array[a].empty
    BY <1>2, <1>5, <2>1, GrownPtrs
  <2> QED
    BY <1>6, <2>1, <2>2, <2>3, <2>4
<1>10. r.buckets = g /\ r.empty = array[a].empty
  BY <1>2, <1>8, RecordParts DEF Record
<1>11. Reads(r, bucket) = Reads(array[a], bucket)
  <2>1. size \in Nat \ {0}
    BY <1>3, <1>4
  <2> QED
    BY <1>2, <1>5, <1>10, <2>1, GrownReads
<1>12. /\ Ptrs(array[a]) \subseteq LiveBuckets /\ array[a].empty \in Ptrs(array[a])
       /\ b \in LiveBuckets /\ bucket[b].elems \in [0..(BucketSize - 1) -> Values]
  <2>1. Ptrs(array[a]) \subseteq LiveBuckets /\ array[a].empty \in Ptrs(array[a])
    BY <1>2 DEF Sharing, Ptrs
  <2>2. b \in LiveBuckets
    BY <1>7, <1>9, <2>1
  <2> QED
    BY <1>2, <2>1, <2>2 DEF TypesOK, Elems
<1>13. ASSUME NEW j \in Indices
       PROVE  /\ j \div BucketSize \in Nat /\ j % BucketSize \in 0..(BucketSize - 1)
              /\ j # i => j \div BucketSize # slot \/ j % BucketSize # i % BucketSize
  <2>1. j \in Nat /\ BucketSize \in Nat \ {0}
    BY <1>3, SizeAssumption
  <2>2. j \div BucketSize = i \div BucketSize /\ j % BucketSize = i % BucketSize => j = i
    BY <1>3, <2>1, SamePlace
  <2>3. j \div BucketSize \in Nat /\ j % BucketSize \in 0..(BucketSize - 1)
    BY <2>1
  <2> QED
    BY <1>6, <2>2, <2>3
<1>14. /\ Reads(array'[a], bucket') = [Reads(array[a], bucket) EXCEPT ![i] = v]
       /\ \A x \in held : x # a => Reads(array'[x], bucket') = Reads(array[x], bucket)
  <2>1. CASE /\ bucket[b].elems[i % BucketSize] = v
             /\ array' = [array EXCEPT ![a].buckets = g]
             /\ UNCHANGED <<bucket, nbuckets>>
    <3>1. /\ array'[a].buckets = g /\ array'[a].empty = array[a].empty
          /\ \A x \in held : x # a => array'[x] = array[x]
      BY <1>2, <1>9, <2>1, Repointed
    <3>2. Read(r, bucket, i) = v
      BY <1>6, <1>7, <1>9, <1>10, <2>1 DEF Read
    <3>3. Reads(array[a], bucket)[i] = v
      BY <1>11, <3>2 DEF Reads
    <3>4. Reads(array'[a], bucket') = Reads(r, bucket)
      <4>1. array'[a].buckets = r.buckets /\ array'[a].empty = r.empty
        BY <1>10, <3>1
      <4>2. \A c \in Ptrs(r) : bucket'[c] = bucket[c]
        BY <2>1
      <4> QED
        BY <4>1, <4>2, SameReads
    <3>5. Reads(array[a], bucket) = [Reads(array[a], bucket) EXCEPT ![i] = v]
      BY <3>3 DEF Reads
    <3> QED
      BY <1>11, <2>1, <3>1, <3>4, <3>5
  <2>2. CASE /\ MayWrite(a, b)
             /\ bucket' = [bucket EXCEPT ![b] = Written(b, i, v, @.version)]
             /\ array' = [array EXCEPT ![a].buckets = g]
             /\ UNCHANGED nbuckets
    <3>1. /\ array'[a].buckets = g /\ array'[a].empty = array[a].empty
          /\ \A x \in held : x # a => array'[x] = array[x]
      BY <1>2, <1>9, <2>2, Repointed
    <3>2. b \in OwnBuckets(a) /\ b # array[a].empty
      BY <1>7, <1>9, <1>12, <2>2, OwnIs DEF MayWrite, Sharing
    <3>3. /\ bucket'[b].elems = [bucket[b].elems EXCEPT ![i % BucketSize] = v]
          /\ \A c \in LiveBuckets : c # b => bucket'[c] = bucket[c]
      BY <1>2, <1>12, <2>2 DEF Written, LiveBuckets, TypesOK
    <3>4. ASSUME NEW x \in held, x # a PROVE Reads(array'[x], bucket') = Reads(array[x], bucket)
      <4>1. Copies(a) = {}
        BY <1>2, NoCopies
      <4>2. b \notin Ptrs(array[x])
        BY <1>2, <3>2, <3>4, <4>1, OnlyOwnerPoints
      <4>3. \A c \in Ptrs(array[x]) : bucket'[c] = bucket[c]
        BY <1>2, <3>3, <4>2 DEF Sharing
      <4> QED
        BY <3>1, <3>4, <4>3, SameReads
    <3>5. ASSUME NEW j \in Indices
          PROVE  Read(array'[a], bucket', j) = IF j = i THEN v ELSE Read(r, bucket, j)
      <4>1. bucket'[array[a].empty] = bucket[array[a].empty]
        BY <1>12, <3>2, <3>3
      <4>2. CASE j \div BucketSize = slot
        <5>1. Read(array'[a], bucket', j) = bucket'[b].elems[j % BucketSize]
          BY <1>7, <1>9, <3>1, <4>2 DEF Read
        <5>2. Read(r, bucket, j) = bucket[b].elems[j % BucketSize]
          BY <1>7, <1>9, <1>10, <4>2 DEF Read
        <5> QED
          BY <1>12, <1>13, <3>3, <4>2, <5>1, <5>2
      <4>3. CASE j \div BucketSize # slot /\ j \div BucketSize \in DOMAIN g
        <5>1. g[j \div BucketSize] # b /\ g[j \div BucketSize] \in LiveBuckets
          BY <1>7, <1>9, <1>12, <3>2, <4>3
        <5> QED
          BY <1>6, <1>10, <3>1, <3>3, <4>3, <5>1 DEF Read
      <4>4. CASE j \div BucketSize # slot /\ j \div BucketSize \notin DOMAIN g
        BY <1>6, <1>10, <3>1, <4>1, <4>4 DEF Read
      <4> QED
        BY <4>2, <4>3, <4>4
    <3>6. Reads(array'[a], bucket') = [Reads(r, bucket) EXCEPT ![i] = v]
      BY <3>5 DEF Reads
    <3> QED
      BY <1>11, <3>4, <3>6
  <2>3. CASE /\ ~MayWrite(a, b)
             /\ MemoryFor(a, i + 1)[n] = "free"
             /\ bucket' = [bucket EXCEPT ![n] = Written(b, i, v, array[a].version)]
             /\ array' = [array EXCEPT ![a].buckets = [g EXCEPT ![slot] = n]]
    <3>1. PICK vec : vec = [g EXCEPT ![slot] = n]
      OBVIOUS
    <3>2. /\ vec \in Vector /\ DOMAIN vec = DOMAIN g /\ vec[slot] = n
          /\ \A s \in DOMAIN g : s # slot => vec[s] = g[s]
      <4>1. PICK k \in Nat \ {0} : g \in [0..(k - 1) -> Buckets]
        BY <1>9 DEF Vector
      <4>2. vec \in [0..(k - 1) -> Buckets]
        BY <2>3, <3>1, <4>1
      <4> QED
        BY <1>9, <3>1, <4>1, <4>2 DEF Vector
    <3>3. /\ array'[a].buckets = vec /\ array'[a].empty = array[a].empty
          /\ \A x \in held : x # a => array'[x] = array[x]
      BY ZenonT(60), <1>2, <2>3, <3>1, <3>2, Repointed
    <3>4. n \notin LiveBuckets
      <4>1. SameInUse(MemoryFor(a, i + 1))
        BY <1>2, MemoryKept
      <4> QED
        BY <2>3, <4>1 DEF SameInUse, LiveBuckets, Live, Blocks
    <3>5. /\ bucket'[n].elems = [bucket[b].elems EXCEPT ![i % BucketSize] = v]
          /\ \A c \in LiveBuckets : bucket'[c] = bucket[c]
      BY <1>2, <2>3, <3>4 DEF Written, LiveBuckets, TypesOK
    <3>6. ASSUME NEW x \in held, x # a PROVE Reads(array'[x], bucket') = Reads(array[x], bucket)
      <4>1. \A c \in Ptrs(array[x]) : bucket'[c] = bucket[c]
        BY <1>2, <3>5 DEF Sharing
      <4> QED
        BY <3>3, <3>6, <4>1, SameReads
    <3>7. ASSUME NEW j \in Indices
          PROVE  Read(array'[a], bucket', j) = IF j = i THEN v ELSE Read(r, bucket, j)
      <4>1. bucket'[array[a].empty] = bucket[array[a].empty]
        BY <1>12, <3>5
      <4>2. CASE j \div BucketSize = slot
        <5>1. Read(array'[a], bucket', j) = bucket'[n].elems[j % BucketSize]
          BY <1>9, <3>2, <3>3, <4>2 DEF Read
        <5>2. Read(r, bucket, j) = bucket[b].elems[j % BucketSize]
          BY <1>7, <1>9, <1>10, <4>2 DEF Read
        <5> QED
          BY <1>12, <1>13, <3>5, <4>2, <5>1, <5>2
      <4>3. CASE j \div BucketSize # slot /\ j \div BucketSize \in DOMAIN g
        <5>1. g[j \div BucketSize] \in LiveBuckets
          BY <1>9, <1>12, <4>3
        <5> QED
          BY <1>6, <1>10, <3>2, <3>3, <3>5, <4>3, <5>1 DEF Read
      <4>4. CASE j \div BucketSize # slot /\ j \div BucketSize \notin DOMAIN g
        BY <1>6, <1>10, <3>2, <3>3, <4>1, <4>4 DEF Read
      <4> QED
        BY <4>2, <4>3, <4>4
    <3>8. Reads(array'[a], bucket') = [Reads(r, bucket) EXCEPT ![i] = v]
      BY <3>7 DEF Reads
    <3> QED
      BY <1>11, <3>6, <3>8
  <2> QED
    BY <1>4, <1>5, <1>6, <1>7, <2>1, <2>2, <2>3 DEF AtPut
<1>15. Contents' = [Contents EXCEPT ![a][i] = v]
  <2>1. Contents' = [Contents EXCEPT ![a] = [Contents[a] EXCEPT ![i] = v]]
    BY <1>1, <1>2, <1>14
  <2> QED
    BY <2>1
<1>16. Abstract!InUse = held
  BY <1>1 DEF Abstract!InUse
<1> QED
  BY <1>2, <1>15, <1>16 DEF Abstract!Put

(* Every step is one of ArrayValues, or changes nothing a client reads.      *)
LEMMA ValuesStep ==
  ASSUME IInv, IInv', [Next]_vars
  PROVE  [Abstract!Next]_Contents
<1>1. /\ Contents = [x \in held |-> Reads(array[x], bucket)]
      /\ Contents' = [x \in held' |-> Reads(array'[x], bucket')]
  BY ContentsAre DEF IInv
<1>2. ASSUME NEW a \in Arrays, NEW e \in Buckets, NEW i \in Indices, NEW v \in Values,
             New(a, e, i + 1, v)
      PROVE  Abstract!Next
  BY <1>2, NewReads DEF Abstract!Next
<1>3. ASSUME NEW a \in Arrays, NEW c \in Arrays, LazyCopy(a, c) PROVE Abstract!Next
  BY <1>3, CopyReads DEF Abstract!Next
<1>4. ASSUME NEW a \in Arrays, NEW i \in Indices, Realloc(a, i + 1)
      PROVE  Contents' = Contents
  <2>1. i + 1 \in Nat \ {0}
    BY SizeAssumption DEF Indices
  <2>2. PICK size : size = i + 1
    OBVIOUS
  <2>3. /\ TypesOK /\ Uniform /\ a \in LiveArrays /\ held \subseteq LiveArrays
        /\ held' = held /\ bucket' = bucket
        /\ array' = [array EXCEPT ![a].buckets = Grown(a, size)]
    BY <1>4, <2>2 DEF Realloc, IInv, TypesOK
  <2>4. Grown(a, size) \in Vector
    BY <2>1, <2>2, <2>3, GrownIs
  <2>5. /\ array'[a].buckets = Grown(a, size) /\ array'[a].empty = array[a].empty
        /\ \A x \in held : x # a => array'[x] = array[x]
    BY <2>3, <2>4, Repointed
  <2>6. Reads(array'[a], bucket) = Reads(array[a], bucket)
    BY ZenonT(30), <2>1, <2>2, <2>3, <2>5, GrownReads
  <2> QED
    BY <1>1, <2>3, <2>5, <2>6
<1>5. ASSUME NEW a \in Arrays, NEW i \in Indices, NEW v \in Values, NEW n \in Buckets,
             AtPut(a, i, v, n)
      PROVE  Abstract!Next
  BY <1>5, PutReads DEF Abstract!Next
<1>6. ASSUME NEW a \in Arrays, Free(a) PROVE Abstract!Next
  BY <1>6, FreeReads DEF Abstract!Next
<1>7. CASE TakeApart
  <2>1. held' = held
    BY <1>7 DEF TakeApart
  <2>2. ASSUME NEW x \in held PROVE Reads(array'[x], bucket') = Reads(array[x], bucket)
    <3>1. /\ array'[x].buckets = array[x].buckets /\ array'[x].empty = array[x].empty
          /\ \A b \in Ptrs(array[x]) : bucket'[b] = bucket[b]
      BY <1>7, TakeApartStep
    <3> QED
      BY <3>1, SameReads
  <2>3. Contents' = Contents
    BY <1>1, <2>1, <2>2
  <2> QED
    BY <2>3
<1>8. CASE ThreadStarts \/ LastThreadEnds \/ UNCHANGED vars
  <2>1. UNCHANGED <<array, bucket, held>>
    BY <1>8 DEF ThreadStarts, LastThreadEnds, vars
  <2>2. Contents' = Contents
    BY <1>1, <2>1
  <2> QED
    BY <2>2
<1> QED
  BY <1>2, <1>3, <1>4, <1>5, <1>6, <1>7, <1>8 DEF Next

(* The clients of sarray.c hold arrays that are values: a lazy copy starts   *)
(* as its original, and neither shows what is put into the other, whatever   *)
(* buckets the two share.                                                    *)
THEOREM RefinesArrayValues == Spec => LazyCopyIsCopy
<1>1. Init => Abstract!Init
  <2> SUFFICES ASSUME Init PROVE Abstract!Init
    OBVIOUS
  <2>1. held = {}
    BY DEF Init
  <2>2. Contents = [h \in {} |-> {}]
    BY <2>1 DEF Contents
  <2> QED
    BY <2>2 DEF Abstract!Init
<1>2. IInv /\ IInv' /\ [Next]_vars => [Abstract!Next]_Contents
  BY ValuesStep
<1> QED
  BY <1>1, <1>2, Invariance, PTL DEF Spec, Abstract!Spec, LazyCopyIsCopy
=============================================================================
