-------------------------------- MODULE Hash --------------------------------
(* The hash tables of hash.c: chains of nodes, and a table twice the size    *)
(* when three quarters of its buckets' number is reached.  tour_hash_add     *)
(* moves the nodes one tour_hash_next at a time into the new table, by       *)
(* tour_hash_add itself, which may find the new table full as well: the      *)
(* tables of the calls in progress are a sequence, the client's table first. *)
(*                                                                           *)
(* Operations run one after another, as under the runtime lock.  Keys equal  *)
(* by the compare function are one key.  Clients add only keys that are      *)
(* absent (selector.c:385, messaging.c:562) and remove only keys that are    *)
(* present (messaging.c:561, 633).                                           *)
EXTENDS Naturals, Sequences, FiniteSets

CONSTANTS Keys, Values,
          HashOf,       \* the hash of a key, before the mask
          InitialSize,  \* the size given to tour_hash_new
          UInt          \* an unsigned int counts modulo UInt

ASSUME HashAssumption == HashOf \in [Keys -> Nat]
ASSUME SizeAssumption == InitialSize \in Nat \ {0}      \* a power of two
ASSUME UIntAssumption == UInt \in Nat /\ UInt > InitialSize

VARIABLE caches     \* the client's table, and the new tables of expansions

Size(c) == Cardinality(DOMAIN c.table)

(* Masking with size - 1.                                                    *)
Index(c, k) == HashOf[k] % Size(c)
Chain(c, k) == c.table[Index(c, k)]

(* tour_hash_new                                                             *)
NewCache(size) ==
    [table |-> [b \in 0..(size - 1) |-> <<>>], used |-> 0,
     last_bucket |-> 0, node |-> 0]

Init == caches = <<NewCache(InitialSize)>>

Client == caches[1]
Target == caches[Len(caches)]
AtRest == Len(caches) = 1

(* FULLNESS and EXPANSION.                                                   *)
Full(c) == ((Size(c) * 75) % UInt) \div 100 <= c.used
Doubled(c) == (Size(c) * 2) % UInt

(* Positions in a chain.                                                     *)
Found(chain, k) == {i \in 1..Len(chain) : chain[i].key = k}
First(S) == CHOOSE i \in S : \A j \in S : i <= j

(* tour_hash_is_key_in_hash and tour_hash_value_for_key                      *)
IsKeyInHash(c, k) == Found(Chain(c, k), k) # {}
ValueForKey(c, k) == Chain(c, k)[First(Found(Chain(c, k), k))].value

(* A node more, at the head of its chain.                                    *)
Insert(c, k, v) ==
    [c EXCEPT !.table[Index(c, k)] = <<[key |-> k, value |-> v]>> \o @,
              !.used = @ + 1]

(* The first node with the key unlinked.                                     *)
Without(chain, k) ==
    LET i == First(Found(chain, k))
    IN  SubSeq(chain, 1, i - 1) \o SubSeq(chain, i + 1, Len(chain))

-----------------------------------------------------------------------------
(* Faulty forms of definitions below: each must break a property.            *)

(* The size is compared before the node is counted.                          *)
AddedLate(s, n, k, v) ==
    LET c == Insert(s[n], k, v)
    IN  IF Full(s[n]) THEN Append([s EXCEPT ![n] = c], NewCache(Doubled(c)))
        ELSE [s EXCEPT ![n] = c]

(* The node keeps the bucket it had in the table half as large.              *)
AddedToOldBucket(s, n, k, v) ==
    LET b == HashOf[k] % InitialSize
        c == [s[n] EXCEPT !.table[b] = <<[key |-> k, value |-> v]>> \o @,
                          !.used = @ + 1]
    IN  IF Full(c) THEN Append([s EXCEPT ![n] = c], NewCache(Doubled(c)))
        ELSE [s EXCEPT ![n] = c]

(* Removing does not count.                                                  *)
RemoveUncounted(k) ==
    /\ AtRest
    /\ IsKeyInHash(Client, k)
    /\ caches' = [caches EXCEPT ![1].table[Index(Client, k)] = Without(@, k)]

(* tour_hash_next forgets the nodes behind the head of a chain.              *)
HashNextHeads(c) ==
    LET from  == IF c.node = 0 THEN 0 ELSE c.last_bucket + 1
        later == {b \in DOMAIN c.table : b >= from /\ c.table[b] # <<>>}
    IN  IF later = {}
        THEN [c EXCEPT !.last_bucket = Size(c), !.node = 0]
        ELSE [c EXCEPT !.last_bucket = First(later), !.node = 1]

(* tour_hash_next starts again in the bucket it has finished.                *)
HashNextAgain(c) ==
    IF c.node > 0 /\ c.node < Len(c.table[c.last_bucket])
    THEN [c EXCEPT !.node = @ + 1]
    ELSE LET from  == IF c.node = 0 THEN 0 ELSE c.last_bucket
             later == {b \in DOMAIN c.table : b >= from /\ c.table[b] # <<>>}
         IN  IF later = {}
             THEN [c EXCEPT !.last_bucket = Size(c), !.node = 0]
             ELSE [c EXCEPT !.last_bucket = First(later), !.node = 1]

-----------------------------------------------------------------------------
(* tour_hash_next: the node after c.node in the chain of last_bucket, or the *)
(* first one of a later bucket; node 0 is NULL.                              *)
HashNext(c) ==
    IF c.node > 0 /\ c.node < Len(c.table[c.last_bucket])
    THEN [c EXCEPT !.node = @ + 1]
    ELSE LET from  == IF c.node = 0 THEN 0 ELSE c.last_bucket + 1
             later == {b \in DOMAIN c.table : b >= from /\ c.table[b] # <<>>}
         IN  IF later = {}
             THEN [c EXCEPT !.last_bucket = Size(c), !.node = 0]
             ELSE [c EXCEPT !.last_bucket = First(later), !.node = 1]

(* The client's table is not exchanged and so is expanded over again.        *)
MovedForNothing ==
    LET n == Len(caches)
    IN  /\ n > 1
        /\ HashNext(caches[n - 1]).node = 0
        /\ caches' = [caches EXCEPT ![n] = NewCache(Size(@)),
                                    ![n - 1] = HashNext(@)]

(* tour_hash_add up to its loop: the n-th table has one node more, and when  *)
(* it is then full a new table is waiting for its nodes.                     *)
Added(s, n, k, v) ==
    LET c == Insert(s[n], k, v)
    IN  IF Full(c) THEN Append([s EXCEPT ![n] = c], NewCache(Doubled(c)))
        ELSE [s EXCEPT ![n] = c]

Add(k, v) ==
    /\ AtRest
    /\ ~IsKeyInHash(Client, k)
    /\ caches' = Added(caches, 1, k, v)

(* The loop of tour_hash_add in the innermost call: one node more is added   *)
(* to the new table ...                                                      *)
Move ==
    LET n == Len(caches)
        c == HashNext(caches[n - 1])
    IN  /\ n > 1
        /\ c.node > 0
        /\ LET node == c.table[c.last_bucket][c.node]
           IN  caches' = Added([caches EXCEPT ![n - 1] = c], n, node.key, node.value)

(* ... or there is none: the old table is deleted and the new takes over.    *)
Moved ==
    LET n == Len(caches)
    IN  /\ n > 1
        /\ HashNext(caches[n - 1]).node = 0
        /\ caches' = Append(SubSeq(caches, 1, n - 2), caches[n])

Remove(k) ==
    /\ AtRest
    /\ IsKeyInHash(Client, k)
    /\ caches' = [caches EXCEPT
           ![1].table[Index(Client, k)] = Without(@, k),
           ![1].used = @ - 1]

Next ==
    \/ \E k \in Keys, v \in Values : Add(k, v)
    \/ Move
    \/ Moved
    \/ \E k \in Keys : Remove(k)

Spec == Init /\ [][Next]_caches

(* A call that has begun goes on.                                            *)
LiveSpec == Spec /\ WF_caches(Move \/ Moved)

-----------------------------------------------------------------------------
Levels == {caches[n] : n \in 1..Len(caches)}
Nodes(c) ==
    {p \in (DOMAIN c.table) \X (1..Cardinality(Keys)) : p[2] <= Len(c.table[p[1]])}
KeyAt(c, p) == c.table[p[1]][p[2]].key

TypeOK ==
    /\ caches # <<>>
    /\ \A c \in Levels :
        /\ \A p \in Nodes(c) : KeyAt(c, p) \in Keys
        /\ c.last_bucket \in 0..Size(c)
        /\ c.used \in 0..Cardinality(Keys)

(* In every table, the ones under way included, a node is in the bucket its  *)
(* key hashes to, so that a lookup finds it and tour_hash_delete's removals  *)
(* of the old table's nodes meet no failing assertion.                       *)
PlacedByHash ==
    \A c \in Levels : \A p \in Nodes(c) : p[1] = Index(c, KeyAt(c, p))

(* The count that decides on expansion is the number of nodes, and no key is *)
(* in a table twice, however often tables were exchanged under it.           *)
UsedExact ==
    \A c \in Levels :
        /\ c.used = Cardinality(Nodes(c))
        /\ c.used = Cardinality({KeyAt(c, p) : p \in Nodes(c)})

(* When an operation returns the table has room for a node more.             *)
LoadBounded == AtRest => Client.used = 0 \/ ~Full(Client)

(* tour_hash_add returns.                                                    *)
AddReturns == []<>AtRest

(* The table is a map to its client at every step, the exchange of tables in *)
(* the middle of tour_hash_add included.                                     *)
MapOf(c) == [k \in {j \in Keys : IsKeyInHash(c, j)} |-> ValueForKey(c, k)]
ClientMap == MapOf(Client)

Map == INSTANCE HashMap WITH map <- ClientMap

ImplementsMap == Map!Spec
=============================================================================
