------------------------------- MODULE Sarray -------------------------------
(* The two level sparse arrays of sarray.c: an array is a vector of pointers *)
(* to buckets, and a bucket belongs to the array whose version it carries.   *)
(* A lazy copy shares every bucket of its original until it writes to one.   *)
(* Blocks given up while the program has several threads wait on the garbage *)
(* list (first_free_data) until it has one thread again.                     *)
(*                                                                           *)
(* An operation runs to its end, as under the runtime lock, except that the  *)
(* chain of frees from a copy to its originals goes one array at a time.     *)
(* The vector is part of its array's record.  Clients write or grow only an  *)
(* array nobody copied, as messaging.c and selector.c do.                    *)
EXTENDS Integers, FiniteSets

CONSTANTS Arrays,      \* blocks that hold a struct sarray
          Buckets,     \* blocks that hold a struct sbucket
          NoArray,     \* a NULL is_copy_of
          NoBucket,    \* an address that is not a bucket's
          Values,      \* what clients store
          BucketSize,  \* BUCKET_SIZE
          GrowSlack,   \* the buckets sarray_realloc adds beyond its need
          MaxIndex     \* bounds the indices clients use

ASSUME BlocksAssumption == /\ Arrays \cap Buckets = {}
                           /\ NoArray \notin Arrays
                           /\ NoBucket \notin Buckets
ASSUME SizeAssumption == /\ BucketSize \in Nat \ {0}
                         /\ GrowSlack \in Nat
                         /\ MaxIndex \in Nat

VARIABLES array,       \* the struct sarray in each block of Arrays
          bucket,      \* the struct sbucket in each block of Buckets
          memory,      \* each block: "free", "live" or on the "garbage" list
          held,        \* the arrays the clients have yet to free
          freeing,     \* the array sarray_free is taking apart
          alone,       \* __tour_runtime_threads_alive == 1
          nbuckets, narrays, idx_size    \* the global_ counters

vars == <<array, bucket, memory, held, freeing, alone,
          nbuckets, narrays, idx_size>>
counters == <<nbuckets, narrays, idx_size>>

Indices == 0..MaxIndex
Blocks == Arrays \cup Buckets
Live(b) == memory[b] = "live"
FreeArrays == {a \in Arrays : memory[a] = "free"}
FreeBuckets == {b \in Buckets : memory[b] = "free"}

NoVector == [i \in {} |-> NoBucket]
NoRecord == [buckets |-> NoVector, empty |-> NoBucket, version |-> 0,
             refs |-> 0, copyOf |-> NoArray]
NoElems == [elems |-> [i \in {} |-> 0], version |-> 0]

Slots(a) == DOMAIN array[a].buckets
Capacity(a) == Cardinality(Slots(a)) * BucketSize

(* sarray_get_safe: beyond the capacity it reads the empty bucket.           *)
Get(a, i) ==
    IF i < Capacity(a)
    THEN bucket[array[a].buckets[i \div BucketSize]].elems[i % BucketSize]
    ELSE bucket[array[a].empty].elems[0]

Init ==
    /\ array = [a \in Arrays |-> NoRecord]
    /\ bucket = [b \in Buckets |-> NoElems]
    /\ memory = [b \in Blocks |-> "free"]
    /\ held = {}
    /\ freeing = NoArray
    /\ alone = TRUE
    /\ nbuckets = 0 /\ narrays = 0 /\ idx_size = 0

-----------------------------------------------------------------------------
(* Faulty forms of definitions below: each must break a property.            *)

(* sarray_lazy_copy with the version and the reference count it is given.    *)
CopyWith(a, c, version, refs) ==
    /\ freeing = NoArray
    /\ a \in held
    /\ c \in FreeArrays
    /\ array' = [array EXCEPT
           ![a].refs = refs,
           ![c] = [array[a] EXCEPT !.version = version, !.refs = 1, !.copyOf = a]]
    /\ memory' = [memory EXCEPT ![c] = "live"]
    /\ held' = held \cup {c}
    /\ narrays' = narrays + 1
    /\ idx_size' = idx_size + Cardinality(Slots(a))
    /\ UNCHANGED <<bucket, freeing, alone, nbuckets>>

(* The original does not count the copy.                                     *)
LazyCopyUncounted(a, c) == CopyWith(a, c, array[a].version + 1, array[a].refs)

(* The copy keeps the version of the original.                               *)
LazyCopySameVersion(a, c) == CopyWith(a, c, array[a].version, array[a].refs + 1)

(* sarray_realloc counts the whole new vector.                               *)
GrowCountsAll(a, size) ==
    idx_size' = idx_size + (IF size <= Capacity(a) THEN 0
                            ELSE (size - 1) \div BucketSize + GrowSlack + 1)

(* sarray_at_put looks for the empty bucket only.                            *)
MayWriteShared(a, b) == b # array[a].empty

(* sarray_free frees every bucket of the vector.                             *)
OwnAll(a) == {array[a].buckets[s] : s \in Slots(a)} \cup {array[a].empty}

(* sarray_free leaves the empty bucket behind.                               *)
OwnSlots(a) ==
    {b \in {array[a].buckets[s] : s \in Slots(a)} :
        bucket[b].version = array[a].version /\ b # array[a].empty}

-----------------------------------------------------------------------------
(* sarray_new: every slot holds the empty bucket.                            *)
New(a, e, size, default) ==
    /\ freeing = NoArray
    /\ a \in FreeArrays
    /\ e \in FreeBuckets
    /\ LET slots == 0..((size - 1) \div BucketSize) IN
       /\ array' = [array EXCEPT ![a] =
              [buckets |-> [s \in slots |-> e], empty |-> e, version |-> 0,
               refs |-> 1, copyOf |-> NoArray]]
       /\ idx_size' = idx_size + Cardinality(slots)
    /\ bucket' = [bucket EXCEPT ![e] =
           [elems |-> [i \in 0..(BucketSize - 1) |-> default], version |-> 0]]
    /\ memory' = [memory EXCEPT ![a] = "live", ![e] = "live"]
    /\ held' = held \cup {a}
    /\ nbuckets' = nbuckets + 1
    /\ narrays' = narrays + 1
    /\ UNCHANGED <<freeing, alone>>

(* sarray_lazy_copy: the next version, the same buckets.                     *)
LazyCopy(a, c) ==
    /\ freeing = NoArray
    /\ a \in held
    /\ c \in FreeArrays
    /\ array' = [array EXCEPT
           ![a].refs = @ + 1,
           ![c] = [array[a] EXCEPT !.version = @ + 1, !.refs = 1, !.copyOf = a]]
    /\ memory' = [memory EXCEPT ![c] = "live"]
    /\ held' = held \cup {c}
    /\ narrays' = narrays + 1
    /\ idx_size' = idx_size + Cardinality(Slots(a))
    /\ UNCHANGED <<bucket, freeing, alone, nbuckets>>

-----------------------------------------------------------------------------
(* sarray_free_garbage: alone, the blocks and the whole garbage list are     *)
(* freed; otherwise they join the list.                                      *)
Discarded(blocks) ==
    [b \in Blocks |->
        IF b \in blocks THEN (IF alone THEN "free" ELSE "garbage")
        ELSE IF alone /\ memory[b] = "garbage" THEN "free"
        ELSE memory[b]]

(* sarray_realloc: the slots an array has after room was made for `size'     *)
(* elements; the new ones hold the empty bucket.                             *)
SlotsFor(a, size) ==
    IF size <= Capacity(a) THEN Slots(a)
    ELSE 0..((size - 1) \div BucketSize + GrowSlack)

Grown(a, size) ==
    [s \in SlotsFor(a, size) |->
        IF s \in Slots(a) THEN array[a].buckets[s] ELSE array[a].empty]

Grow(a, size) ==
    idx_size' = idx_size + Cardinality(SlotsFor(a, size)) - Cardinality(Slots(a))

(* The old vector is no block of its own here, but with it goes the list.    *)
MemoryFor(a, size) == IF size <= Capacity(a) THEN memory ELSE Discarded({})

Realloc(a, size) ==
    /\ freeing = NoArray
    /\ a \in held
    /\ array[a].refs = 1
    /\ array' = [array EXCEPT ![a].buckets = Grown(a, size)]
    /\ memory' = MemoryFor(a, size)
    /\ Grow(a, size)
    /\ UNCHANGED <<bucket, held, freeing, alone, nbuckets, narrays>>

(* sarray_at_put writes to a bucket of the array's own: not to the empty     *)
(* bucket, and not to one of another version.                                *)
MayWrite(a, b) ==
    /\ b # array[a].empty
    /\ bucket[b].version = array[a].version

Written(b, i, v, version) ==
    [elems |-> [bucket[b].elems EXCEPT ![i % BucketSize] = v], version |-> version]

(* sarray_at_put_safe: makes room, leaves an equal element alone, and writes *)
(* to the bucket, or to a copy of it in a block n that the slot then holds.  *)
AtPut(a, i, v, n) ==
    /\ freeing = NoArray
    /\ a \in held
    /\ array[a].refs = 1
    /\ LET slots == Grown(a, i + 1)
           slot  == i \div BucketSize
           b     == slots[slot]
           room  == MemoryFor(a, i + 1)
       IN  \/ /\ bucket[b].elems[i % BucketSize] = v
              /\ array' = [array EXCEPT ![a].buckets = slots]
              /\ memory' = room
              /\ UNCHANGED <<bucket, nbuckets>>
           \/ /\ bucket[b].elems[i % BucketSize] # v
              /\ MayWrite(a, b)
              /\ bucket' = [bucket EXCEPT ![b] = Written(b, i, v, @.version)]
              /\ array' = [array EXCEPT ![a].buckets = slots]
              /\ memory' = room
              /\ UNCHANGED nbuckets
           \/ /\ bucket[b].elems[i % BucketSize] # v
              /\ ~MayWrite(a, b)
              /\ room[n] = "free"
              /\ bucket' = [bucket EXCEPT ![n] = Written(b, i, v, array[a].version)]
              /\ array' = [array EXCEPT ![a].buckets = [slots EXCEPT ![slot] = n]]
              /\ memory' = [room EXCEPT ![n] = "live"]
              /\ nbuckets' = nbuckets + 1
    /\ Grow(a, i + 1)
    /\ UNCHANGED <<held, freeing, alone, narrays>>

-----------------------------------------------------------------------------
(* The blocks of an array that sarray_free gives up: its struct, and the     *)
(* buckets that carry its version, the empty one among them.                 *)
OwnBuckets(a) ==
    {b \in {array[a].buckets[s] : s \in Slots(a)} \cup {array[a].empty} :
        bucket[b].version = array[a].version}

(* A reference less: sarray_free goes on with an array that has none left.   *)
Unref(a) == freeing' = IF a # NoArray /\ array[a].refs = 1 THEN a ELSE NoArray

(* sarray_free by a client.                                                  *)
Free(a) ==
    /\ freeing = NoArray
    /\ a \in held
    /\ held' = held \ {a}
    /\ array' = [array EXCEPT ![a].refs = @ - 1]
    /\ Unref(a)
    /\ UNCHANGED <<bucket, memory, alone, counters>>

(* The rest of sarray_free for an array without references, up to its call   *)
(* for the array it was copied from.                                         *)
TakeApart ==
    /\ freeing # NoArray
    /\ LET a == freeing
           p == array[a].copyOf
       IN  /\ memory' = Discarded(OwnBuckets(a) \cup {a})
           /\ nbuckets' = nbuckets - Cardinality(OwnBuckets(a))
           /\ narrays' = narrays - 1
           /\ idx_size' = idx_size - Cardinality(Slots(a))
           /\ Unref(p)
           /\ array' = [c \in Arrays |->
                  IF c = a THEN NoRecord
                  ELSE IF c = p THEN [array[c] EXCEPT !.refs = @ - 1]
                  ELSE array[c]]
           /\ bucket' = [b \in Buckets |->
                  IF b \in OwnBuckets(a) THEN NoElems ELSE bucket[b]]
    /\ UNCHANGED <<held, alone>>

(* tour_thread_detach, tour_thread_add; tour_thread_exit, tour_thread_remove *)
ThreadStarts ==
    /\ alone' = FALSE
    /\ UNCHANGED <<array, bucket, memory, held, freeing, counters>>

LastThreadEnds ==
    /\ alone' = TRUE
    /\ UNCHANGED <<array, bucket, memory, held, freeing, counters>>

Next ==
    \/ \E a \in Arrays, e \in Buckets, i \in Indices, v \in Values : New(a, e, i + 1, v)
    \/ \E a, c \in Arrays : LazyCopy(a, c)
    \/ \E a \in Arrays, i \in Indices : Realloc(a, i + 1)
    \/ \E a \in Arrays, i \in Indices, v \in Values, n \in Buckets : AtPut(a, i, v, n)
    \/ \E a \in Arrays : Free(a)
    \/ TakeApart
    \/ ThreadStarts
    \/ LastThreadEnds

Spec == Init /\ [][Next]_vars

-----------------------------------------------------------------------------
LiveArrays == {a \in Arrays : Live(a)}
Pointed(a) == {array[a].buckets[s] : s \in Slots(a)} \cup {array[a].empty}
Copies(a) == {c \in LiveArrays : array[c].copyOf = a}

(* Whatever was copied, written and freed, in whatever order, an array that  *)
(* is still in use points only at blocks that are in use.                    *)
NoDangling ==
    \A a \in LiveArrays :
        /\ \A b \in Pointed(a) : b \in Buckets /\ Live(b)
        /\ array[a].copyOf # NoArray => Live(array[a].copyOf)

(* The reference count is the client's reference and one per living copy, so *)
(* no array is freed early and none is freed twice.                          *)
RefCountExact ==
    \A a \in LiveArrays :
        a # freeing =>
        array[a].refs = Cardinality(Copies(a)) + (IF a \in held THEN 1 ELSE 0)

(* Two arrays never both take a bucket for their own: siblings that carry    *)
(* the same version share only what their original owns.                     *)
OneOwner ==
    \A a, c \in LiveArrays :
        OwnBuckets(a) \cap OwnBuckets(c) # {} => a = c

(* Every block in use is reachable: nothing is lost when copies replace      *)
(* buckets and chains of originals are freed.                                *)
NothingLost ==
    /\ \A b \in Buckets : Live(b) => \E a \in LiveArrays : b \in OwnBuckets(a)
    /\ \A a \in LiveArrays : a \in held \/ a = freeing \/ Copies(a) # {}

(* The counters tell what is in use.                                         *)
LiveBuckets == {b \in Buckets : Live(b)}
SlotsInUse == UNION {{a} \X Slots(a) : a \in LiveArrays}

CountersExact ==
    /\ nbuckets = Cardinality(LiveBuckets)
    /\ narrays = Cardinality(LiveArrays)
    /\ idx_size = Cardinality(SlotsInUse)

-----------------------------------------------------------------------------
(* A lazy copy is a copy: the arrays behave as values.                       *)
Contents == [a \in held |-> [i \in Indices |-> Get(a, i)]]

Abstract == INSTANCE ArrayValues WITH Handles <- Arrays, contents <- Contents

LazyCopyIsCopy == Abstract!Spec
=============================================================================
