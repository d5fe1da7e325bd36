----------------------------- MODULE HashProofs -----------------------------
(* What holds of the hash tables for any keys, values and hashes, as long as *)
(* there are too few keys for a table whose size * 75 wraps (NoWrap): for an *)
(* unsigned int of 32 bits, fewer than 21 million.  The inductive invariant  *)
(* says what the tables of the calls in progress have to do with each other: *)
(* each holds the nodes that the walk over the one before it has passed.     *)
EXTENDS Hash, FiniteSetTheorems, FunctionTheorems, SequenceTheorems, TLAPS

NoWrap ==
    /\ IsFiniteSet(Keys)
    /\ InitialSize * 75 < UInt
    /\ 200 * (Cardinality(Keys) + 1) <= UInt

Node == [key : Keys, value : Values]
Cache(s) == [table : [0..(s - 1) -> Seq(Node)], used : Nat, last_bucket : Nat, node : Nat]
Caches == UNION {Cache(s) : s \in Nat \ {0}}

(* The nodes of a table, and those that tour_hash_next has returned.         *)
Contents(c) ==
    UNION {{c.table[b][i] : i \in 1..Len(c.table[b])} : b \in DOMAIN c.table}
KeysIn(c) == {e.key : e \in Contents(c)}
Passed(c, b, i) == b < c.last_bucket \/ (b = c.last_bucket /\ i <= c.node)
Visited(c) ==
    UNION {{c.table[b][i] : i \in {j \in 1..Len(c.table[b]) : Passed(c, b, j)}} :
               b \in DOMAIN c.table}

(* A table: its nodes are placed by their hash, no key is there twice, and   *)
(* they are counted.                                                         *)
WellFormed(c) ==
    /\ Size(c) * 75 < UInt
    /\ \A b \in DOMAIN c.table : \A i \in 1..Len(c.table[b]) :
           b = HashOf[c.table[b][i].key] % Size(c)
    /\ \A b \in DOMAIN c.table : \A i, j \in 1..Len(c.table[b]) :
           c.table[b][i].key = c.table[b][j].key => i = j
    /\ c.used = Cardinality(KeysIn(c))

(* Where a walk is: not begun, or at a node.                                 *)
Unwalked(c) == c.last_bucket = 0 /\ c.node = 0
Cursor(c) ==
    \/ Unwalked(c)
    \/ c.last_bucket \in DOMAIN c.table /\ c.node \in 1..Len(c.table[c.last_bucket])

(* The tables s of the calls in progress.                                    *)
TablesOK(s) == s \in Seq(Caches) /\ Len(s) > 0 /\ \A n \in 1..Len(s) : WellFormed(s[n])
WalksOK(s) ==
    /\ Unwalked(s[Len(s)])
    /\ \A n \in 1..(Len(s) - 1) : Cursor(s[n]) /\ Contents(s[n + 1]) = Visited(s[n])
RoomOK(s) == s[Len(s)].used = 0 \/ ~Full(s[Len(s)])

IInv == TablesOK(caches) /\ WalksOK(caches) /\ RoomOK(caches)

-----------------------------------------------------------------------------
(* A set of natural numbers has a least element: of the sets 0..x one        *)
(* contains no other.  It stands in for induction, which the library states  *)
(* for an operator.                                                          *)
LEMMA LeastElement ==
  ASSUME NEW T \in SUBSET Nat, T # {}
  PROVE  \E x \in T : \A y \in T : x <= y
<1> DEFINE Down == {0..x : x \in T}
<1>1. Down \subseteq FiniteSubsetsOf(Nat) /\ Down # {}
  <2>1. ASSUME NEW x \in T PROVE IsFiniteSet(0..x) /\ 0..x \subseteq Nat
    BY FS_Interval
  <2> QED
    BY <2>1 DEF FiniteSubsetsOf
<1>2. \E D \in Down : \A E \in Down : ~(<<E, D>> \in StrictSubsetOrdering(Nat))
  BY <1>1, FS_StrictSubsetOrderingWellFounded, WFMin
<1>3. PICK x \in T : \A y \in T : ~(<<0..y, 0..x>> \in StrictSubsetOrdering(Nat))
  BY <1>2
<1>4. ASSUME NEW y \in T, y < x PROVE FALSE
  <2>1. 0..y \subseteq 0..x /\ 0..y # 0..x
    BY <1>4
  <2>2. <<0..y, 0..x>> \in StrictSubsetOrdering(Nat)
    BY <2>1 DEF StrictSubsetOrdering
  <2> QED
    BY <1>3, <2>2
<1> QED
  BY <1>4

-----------------------------------------------------------------------------
(* The parts of a table.                                                     *)
LEMMA CacheParts ==
  ASSUME NEW c \in Caches
  PROVE  \E s \in Nat \ {0} :
             /\ c \in Cache(s) /\ Size(c) = s /\ DOMAIN c.table = 0..(s - 1)
             /\ c.table \in [0..(s - 1) -> Seq(Node)]
             /\ c.used \in Nat /\ c.last_bucket \in Nat /\ c.node \in Nat
<1>1. PICK s \in Nat \ {0} : c \in Cache(s)
  BY DEF Caches
<1>2. /\ DOMAIN c.table = 0..(s - 1) /\ c.table \in [0..(s - 1) -> Seq(Node)]
      /\ c.used \in Nat /\ c.last_bucket \in Nat /\ c.node \in Nat
  BY <1>1 DEF Cache
<1>3. Cardinality(0..(s - 1)) = s
  BY FS_Interval
<1> QED
  BY <1>1, <1>2, <1>3 DEF Size

(* What is in a table, what a walk has passed, and the keys.                 *)
LEMMA InContents ==
  ASSUME NEW c
  PROVE  /\ \A e : e \in Contents(c) <=>
                \E b \in DOMAIN c.table : \E i \in 1..Len(c.table[b]) : e = c.table[b][i]
         /\ \A e : e \in Visited(c) <=>
                \E b \in DOMAIN c.table : \E i \in 1..Len(c.table[b]) :
                    Passed(c, b, i) /\ e = c.table[b][i]
         /\ \A k : k \in KeysIn(c) <=> \E e \in Contents(c) : k = e.key
BY DEF Contents, Visited, KeysIn

(* A table holds nodes, and their keys are keys.                             *)
LEMMA ContentsTyped ==
  ASSUME NEW c \in Caches
  PROVE  Contents(c) \subseteq Node /\ KeysIn(c) \subseteq Keys
<1>1. PICK s \in Nat \ {0} : DOMAIN c.table = 0..(s - 1) /\ c.table \in [0..(s - 1) -> Seq(Node)]
  BY CacheParts
<1>2. \A b \in DOMAIN c.table : \A i \in 1..Len(c.table[b]) : c.table[b][i] \in Node
  BY <1>1
<1>3. Contents(c) \subseteq Node
  BY <1>2, InContents
<1> QED
  BY <1>3, InContents DEF Node

(* A hash is the number of a bucket.                                         *)
LEMMA HashInTable ==
  ASSUME NEW s \in Nat \ {0}, NEW k \in Keys
  PROVE  HashOf[k] % s \in 0..(s - 1)
<1>1. HashOf[k] \in Nat
  BY HashAssumption
<1> QED
  BY <1>1

(* A key of a well-formed table is in one place.                             *)
LEMMA OnePlace ==
  ASSUME NEW c, WellFormed(c), NEW b \in DOMAIN c.table, NEW a \in DOMAIN c.table,
         NEW i \in 1..Len(c.table[b]), NEW j \in 1..Len(c.table[a]),
         c.table[b][i].key = c.table[a][j].key
  PROVE  b = a /\ i = j
<1>1. b = a
  BY DEF WellFormed
<1> QED
  BY <1>1 DEF WellFormed

(* A key has one node.                                                       *)
LEMMA OneNode ==
  ASSUME NEW c, WellFormed(c), NEW e \in Contents(c), NEW f \in Contents(c), e.key = f.key
  PROVE  e = f
<1>1. PICK b \in DOMAIN c.table : \E i \in 1..Len(c.table[b]) : e = c.table[b][i]
  BY InContents
<1>2. PICK i \in 1..Len(c.table[b]) : e = c.table[b][i]
  BY <1>1
<1>3. PICK a \in DOMAIN c.table : \E j \in 1..Len(c.table[a]) : f = c.table[a][j]
  BY InContents
<1>4. PICK j \in 1..Len(c.table[a]) : f = c.table[a][j]
  BY <1>3
<1> QED
  BY <1>2, <1>4, OnePlace

(* The least of a set of numbers is one of them.                             *)
LEMMA FirstIs ==
  ASSUME NEW S \in SUBSET Nat, S # {}
  PROVE  First(S) \in S /\ \A j \in S : First(S) <= j
BY LeastElement DEF First

(* A lookup finds exactly the nodes of the table.                            *)
LEMMA LookUp ==
  ASSUME NEW c \in Caches, WellFormed(c), NEW k \in Keys
  PROVE  /\ IsKeyInHash(c, k) <=> k \in KeysIn(c)
         /\ \A e \in Contents(c) : e.key = k => ValueForKey(c, k) = e.value
         /\ Index(c, k) \in DOMAIN c.table
<1>1. PICK s \in Nat \ {0} : /\ Size(c) = s /\ DOMAIN c.table = 0..(s - 1)
                             /\ c.table \in [0..(s - 1) -> Seq(Node)]
  BY CacheParts
<1>2. Index(c, k) \in DOMAIN c.table
  BY <1>1, HashInTable DEF Index
<1> DEFINE x == Index(c, k)
           chain == c.table[x]
<1>3. \A i : i \in Found(chain, k) <=> i \in 1..Len(chain) /\ chain[i].key = k
  BY DEF Found
<1>4. ASSUME NEW e \in Contents(c), e.key = k
      PROVE  \E i \in Found(chain, k) : chain[i] = e
  <2>1. PICK b \in DOMAIN c.table : \E i \in 1..Len(c.table[b]) : e = c.table[b][i]
    BY InContents
  <2>2. PICK i \in 1..Len(c.table[b]) : e = c.table[b][i]
    BY <2>1
  <2>3. b = x
    BY <1>4, <2>2 DEF WellFormed, Index
  <2> QED
    BY <1>3, <1>4, <2>2, <2>3
<1>5. \A i \in Found(chain, k) : chain[i] \in Contents(c) /\ chain[i].key = k
  BY <1>2, <1>3, InContents
<1>6. Found(chain, k) \in SUBSET Nat
  BY <1>1, <1>2, <1>3
<1> HIDE DEF x, chain
<1>7. ASSUME NEW e \in Contents(c), e.key = k
      PROVE  ValueForKey(c, k) = e.value
  <2>1. First(Found(chain, k)) \in Found(chain, k)
    BY <1>4, <1>6, <1>7, FirstIs
  <2>2. chain[First(Found(chain, k))] = e
    BY <1>5, <1>7, <2>1, OneNode
  <2> QED
    BY <2>2 DEF ValueForKey, Chain, chain, x
<1>8. IsKeyInHash(c, k) <=> k \in KeysIn(c)
  BY <1>4, <1>5, InContents DEF IsKeyInHash, Chain, chain, x
<1> QED
  BY <1>2, <1>7, <1>8

-----------------------------------------------------------------------------
(* tour_hash_new makes an empty table.                                       *)
LEMMA NewIsEmpty ==
  ASSUME NEW s \in Nat \ {0}
  PROVE  /\ NewCache(s) \in Caches /\ Size(NewCache(s)) = s /\ Unwalked(NewCache(s))
         /\ Contents(NewCache(s)) = {} /\ NewCache(s).used = 0
         /\ s * 75 < UInt => WellFormed(NewCache(s))
<1> DEFINE c == NewCache(s)
<1>1. /\ c.table = [b \in 0..(s - 1) |-> <<>>] /\ c.used = 0 /\ c.last_bucket = 0 /\ c.node = 0
      /\ c \in Cache(s)
  BY DEF NewCache, Cache
<1>2. Size(c) = s /\ DOMAIN c.table = 0..(s - 1)
  BY <1>1, FS_Interval DEF Size
<1>3. \A b \in DOMAIN c.table : c.table[b] = <<>> /\ Len(c.table[b]) = 0
  BY <1>1
<1> HIDE DEF c
<1>4. Contents(c) = {} /\ KeysIn(c) = {}
  BY <1>3, InContents
<1>5. s * 75 < UInt => WellFormed(c)
  BY <1>1, <1>2, <1>3, <1>4, FS_EmptySet DEF WellFormed
<1> QED
  BY <1>1, <1>2, <1>4, <1>5 DEF c, Caches, Unwalked

(* A node more: it is the only one with its key.                             *)
LEMMA InsertAdds ==
  ASSUME IsFiniteSet(Keys), NEW c \in Caches, WellFormed(c),
         NEW k \in Keys, NEW v \in Values, k \notin KeysIn(c)
  PROVE  /\ Insert(c, k, v) \in Caches /\ WellFormed(Insert(c, k, v))
         /\ Contents(Insert(c, k, v)) = Contents(c) \cup {[key |-> k, value |-> v]}
         /\ Size(Insert(c, k, v)) = Size(c)
         /\ Insert(c, k, v).last_bucket = c.last_bucket /\ Insert(c, k, v).node = c.node
         /\ Insert(c, k, v).used = c.used + 1
<1> PICK e : e = [key |-> k, value |-> v]
  OBVIOUS
<1> DEFINE x == Index(c, k)
           d == Insert(c, k, v)
<1>1. PICK s \in Nat \ {0} :
             /\ c \in Cache(s) /\ Size(c) = s /\ DOMAIN c.table = 0..(s - 1)
             /\ c.table \in [0..(s - 1) -> Seq(Node)]
             /\ c.used \in Nat /\ c.last_bucket \in Nat /\ c.node \in Nat
  BY CacheParts
<1>2. x \in 0..(s - 1) /\ x = HashOf[k] % s /\ e \in Node /\ e.key = k
  BY <1>1, HashInTable DEF Index, Node
<1>3. /\ d.table = [c.table EXCEPT ![x] = <<e>> \o c.table[x]]
      /\ d.used = c.used + 1 /\ d.last_bucket = c.last_bucket /\ d.node = c.node
      /\ d \in Cache(s)
  <2>1. <<e>> \o c.table[x] \in Seq(Node)
    BY <1>1, <1>2
  <2>2. d = [c EXCEPT !.table[x] = <<e>> \o c.table[x], !.used = c.used + 1]
    BY DEF Insert
  <2> DEFINE t == [c.table EXCEPT ![x] = <<e>> \o c.table[x]]
  <2>3. t \in [0..(s - 1) -> Seq(Node)]
    BY <1>1, <1>2, <2>1
  <2>4. d = [table |-> t, used |-> c.used + 1, last_bucket |-> c.last_bucket, node |-> c.node]
    <3> HIDE DEF d, x
    <3> QED
      BY <1>1, <2>2 DEF Cache
  <2> HIDE DEF t, d
  <2> QED
    BY <1>1, <2>3, <2>4 DEF Cache, t
<1> HIDE DEF d, x
<1>4. /\ DOMAIN d.table = 0..(s - 1) /\ Size(d) = s
      /\ \A b \in 0..(s - 1) : b # x => d.table[b] = c.table[b]
      /\ d.table[x] = <<e>> \o c.table[x] /\ c.table[x] \in Seq(Node)
  BY <1>1, <1>2, <1>3, FS_Interval DEF Size
<1>5. /\ Len(d.table[x]) = Len(c.table[x]) + 1 /\ Len(c.table[x]) \in Nat
      /\ d.table[x][1] = e
      /\ \A i \in 1..Len(c.table[x]) : d.table[x][i + 1] = c.table[x][i]
  <2> DEFINE old == c.table[x]
  <2>1. old \in Seq(Node) /\ e \in Node /\ d.table[x] = <<e>> \o old
    BY <1>2, <1>4
  <2> HIDE DEF old
  <2>2. /\ Len(<<e>> \o old) = Len(old) + 1 /\ Len(old) \in Nat /\ (<<e>> \o old)[1] = e
        /\ \A i \in 1..Len(old) : (<<e>> \o old)[i + 1] = old[i]
    BY <2>1
  <2> QED
    BY <2>1, <2>2 DEF old
<1>6. \A i \in 1..Len(d.table[x]) :
         i = 1 \/ (i - 1 \in 1..Len(c.table[x]) /\ d.table[x][i] = c.table[x][i - 1])
  <2> SUFFICES ASSUME NEW i \in 1..Len(d.table[x]), i # 1
               PROVE  i - 1 \in 1..Len(c.table[x]) /\ d.table[x][i] = c.table[x][i - 1]
    OBVIOUS
  <2>1. i - 1 \in 1..Len(c.table[x]) /\ (i - 1) + 1 = i
    BY <1>5
  <2> QED
    BY <1>5, <2>1
<1>7. \A i \in 1..Len(c.table[x]) : c.table[x][i].key # k
  BY <1>1, <1>2, InContents
<1>8. /\ \A b \in 0..(s - 1) : \A i \in 1..Len(c.table[b]) : b = HashOf[c.table[b][i].key] % s
      /\ \A b \in 0..(s - 1) : \A i, j \in 1..Len(c.table[b]) :
             c.table[b][i].key = c.table[b][j].key => i = j
  BY <1>1 DEF WellFormed
<1>9. ASSUME NEW b \in DOMAIN d.table, NEW i \in 1..Len(d.table[b])
      PROVE  b = HashOf[d.table[b][i].key] % Size(d)
  <2>1. CASE b # x
    BY <1>4, <1>9, <1>8, <2>1
  <2>2. CASE b = x
    <3>1. d.table[x][i] = e \/ \E l \in 1..Len(c.table[x]) : d.table[x][i] = c.table[x][l]
      BY <1>5, <1>6, <1>9, <2>2
    <3>2. CASE d.table[x][i] = e
      BY <1>2, <1>4, <2>2, <3>2
    <3>3. CASE \E l \in 1..Len(c.table[x]) : d.table[x][i] = c.table[x][l]
      <4>1. PICK l \in 1..Len(c.table[x]) : d.table[x][i] = c.table[x][l]
        BY <3>3
      <4>2. x = HashOf[c.table[x][l].key] % s
        BY <1>2, <1>8
      <4> QED
        BY <1>4, <2>2, <4>1, <4>2
    <3> QED
      BY <3>1, <3>2, <3>3
  <2> QED
    BY <2>1, <2>2
<1>10. ASSUME NEW b \in DOMAIN d.table, NEW i \in 1..Len(d.table[b]),
             NEW j \in 1..Len(d.table[b]), d.table[b][i].key = d.table[b][j].key
      PROVE  i = j
  <2>1. CASE b # x
    <3>1. /\ b \in 0..(s - 1) /\ i \in 1..Len(c.table[b]) /\ j \in 1..Len(c.table[b])
          /\ c.table[b][i].key = c.table[b][j].key
      BY <1>4, <1>10, <2>1
    <3> QED
      BY <1>8, <3>1
  <2>2. CASE b = x /\ (i = 1 \/ j = 1)
    <3>1. \A l \in 1..Len(d.table[x]) : d.table[x][l].key = k => l = 1
      BY <1>6, <1>7
    <3>2. d.table[x][1].key = k
      BY <1>2, <1>5
    <3> QED
      BY <1>10, <2>2, <3>1, <3>2
  <2>3. CASE b = x /\ i # 1 /\ j # 1
    <3>1. /\ i - 1 \in 1..Len(c.table[x]) /\ j - 1 \in 1..Len(c.table[x])
          /\ c.table[x][i - 1].key = c.table[x][j - 1].key
      BY <1>6, <1>10, <2>3
    <3>2. i - 1 = j - 1
      BY <1>2, <1>8, <3>1
    <3> QED
      BY <2>3, <1>5, <3>2
  <2> QED
    BY <2>1, <2>2, <2>3
<1>11. Contents(d) = Contents(c) \cup {e}
  <2>1. ASSUME NEW f \in Contents(d) PROVE f \in Contents(c) \cup {e}
    <3>1. PICK b \in DOMAIN d.table : \E i \in 1..Len(d.table[b]) : f = d.table[b][i]
      BY InContents
    <3>2. PICK i \in 1..Len(d.table[b]) : f = d.table[b][i]
      BY <3>1
    <3>3. CASE b # x
      <4>1. b \in DOMAIN c.table /\ i \in 1..Len(c.table[b]) /\ f = c.table[b][i]
        BY <1>1, <1>4, <3>2, <3>3
      <4> QED
        BY <4>1, InContents
    <3>4. CASE b = x
      <4>1. f = e \/ \E l \in 1..Len(c.table[x]) : f = c.table[x][l]
        BY <1>5, <1>6, <3>2, <3>4
      <4> QED
        BY <1>1, <1>2, <4>1, InContents
    <3> QED
      BY <3>3, <3>4
  <2>2. ASSUME NEW f \in Contents(c) PROVE f \in Contents(d)
    <3>1. PICK b \in DOMAIN c.table : \E i \in 1..Len(c.table[b]) : f = c.table[b][i]
      BY InContents
    <3>2. PICK i \in 1..Len(c.table[b]) : f = c.table[b][i]
      BY <3>1
    <3>3. CASE b # x
      <4>1. b \in DOMAIN d.table /\ i \in 1..Len(d.table[b]) /\ f = d.table[b][i]
        BY <1>1, <1>4, <3>2, <3>3
      <4> QED
        BY <4>1, InContents
    <3>4. CASE b = x
      <4>1. i + 1 \in 1..Len(d.table[x]) /\ d.table[x][i + 1] = f
        BY <1>5, <3>2, <3>4
      <4> QED
        BY <1>2, <1>4, <4>1, InContents
    <3> QED
      BY <3>3, <3>4
  <2>3. e \in Contents(d)
    <3>1. Len(d.table[x]) \in Nat \ {0}
      BY <1>5
    <3>2. x \in DOMAIN d.table
      BY <1>2, <1>4
    <3> QED
      BY <1>5, <3>1, <3>2, InContents
  <2> QED
    BY <2>1, <2>2, <2>3
<1>12. d.used = Cardinality(KeysIn(d))
  <2>1. KeysIn(d) = KeysIn(c) \cup {k}
    BY <1>2, <1>11, InContents
  <2>2. IsFiniteSet(KeysIn(c))
    BY ContentsTyped, FS_Subset
  <2> QED
    BY ZenonT(30), <1>3, <2>1, <2>2, FS_AddElement DEF WellFormed
<1>13. WellFormed(d)
  BY <1>1, <1>4, <1>9, <1>10, <1>12 DEF WellFormed
<1> QED
  BY <1>1, <1>3, <1>4, <1>11, <1>13 DEF d, Caches

(* A chain without one of its nodes.                                         *)
LEMMA ChainWithout ==
  ASSUME NEW chain \in Seq(Node), NEW i \in 1..Len(chain), NEW w,
         w = SubSeq(chain, 1, i - 1) \o SubSeq(chain, i + 1, Len(chain))
  PROVE  /\ w \in Seq(Node) /\ Len(w) = Len(chain) - 1 /\ Len(chain) \in Nat
         /\ \A j \in 1..Len(w) : w[j] = chain[IF j < i THEN j ELSE j + 1]
<1>1. /\ SubSeq(chain, 1, i - 1) \in Seq(Node) /\ Len(SubSeq(chain, 1, i - 1)) = i - 1
      /\ \A j \in 1..(i - 1) : SubSeq(chain, 1, i - 1)[j] = chain[j]
  OBVIOUS
<1>2. /\ SubSeq(chain, i + 1, Len(chain)) \in Seq(Node)
      /\ Len(SubSeq(chain, i + 1, Len(chain))) = Len(chain) - i
      /\ \A j \in 1..(Len(chain) - i) : SubSeq(chain, i + 1, Len(chain))[j] = chain[i + j]
  BY SMTT(30)
<1> DEFINE front == SubSeq(chain, 1, i - 1)
           back == SubSeq(chain, i + 1, Len(chain))
<1> PICK n \in Nat : n = Len(chain)
  OBVIOUS
<1>3. front \in Seq(Node) /\ back \in Seq(Node) /\ w = front \o back /\ n = Len(chain) /\ i \in 1..n
  BY <1>1, <1>2
<1>4. Len(front) = i - 1 /\ Len(back) = Len(chain) - i
  BY <1>1, <1>2
<1>5. /\ \A j \in 1..(i - 1) : front[j] = chain[j]
      /\ \A j \in 1..(Len(chain) - i) : back[j] = chain[i + j]
  BY <1>1, <1>2
<1> HIDE DEF front, back
<1>6. /\ w \in Seq(Node) /\ Len(w) = Len(chain) - 1
      /\ \A j \in 1..Len(w) : w[j] = IF j <= Len(front) THEN front[j] ELSE back[j - Len(front)]
  <2>1. Len(front) + Len(back) = Len(chain) - 1
    BY <1>3, <1>4
  <2>2. /\ front \o back \in Seq(Node) /\ Len(front \o back) = Len(front) + Len(back)
        /\ \A j \in 1..(Len(front) + Len(back)) :
               (front \o back)[j] = IF j <= Len(front) THEN front[j] ELSE back[j - Len(front)]
    BY <1>3, ConcatProperties
  <2> QED
    BY <1>3, <2>1, <2>2
<1>7. ASSUME NEW j \in 1..Len(w) PROVE w[j] = chain[IF j < i THEN j ELSE j + 1]
  <2>1. CASE j < i
    BY <1>3, <1>4, <1>5, <1>6, <2>1
  <2>2. CASE ~(j < i)
    <3>1. j \in 1..(n - 1) /\ i \in 1..n /\ j >= i /\ Len(front) = i - 1
      <4>1. j \in 1..(n - 1)
        BY <1>3, <1>6
      <4> QED
        BY <1>3, <1>4, <2>2, <4>1
    <3>2. j - (i - 1) \in 1..(n - i) /\ i + (j - (i - 1)) = j + 1 /\ ~(j <= Len(front))
      BY <3>1
    <3>3. w[j] = back[j - (i - 1)]
      BY <1>4, <1>6, <3>2
    <3> QED
      BY <1>3, <1>5, <2>2, <3>2, <3>3
  <2> QED
    BY <2>1, <2>2
<1> QED
  BY <1>3, <1>6, <1>7

(* tour_hash_remove takes out the one node with the key.                     *)
Removed(c, k) == [c EXCEPT !.table[Index(c, k)] = Without(@, k), !.used = @ - 1]

(* tour_hash_remove takes out the key's node and nothing else.               *)
LEMMA RemoveTakes ==
  ASSUME IsFiniteSet(Keys), NEW c \in Caches, WellFormed(c), NEW k \in Keys, IsKeyInHash(c, k)
  PROVE  /\ Removed(c, k) \in Caches /\ WellFormed(Removed(c, k))
         /\ Contents(Removed(c, k)) = {e \in Contents(c) : e.key # k}
         /\ Size(Removed(c, k)) = Size(c)
         /\ Removed(c, k).last_bucket = c.last_bucket /\ Removed(c, k).node = c.node
         /\ Removed(c, k).used = c.used - 1 /\ c.used \in Nat \ {0}
<1> DEFINE x == Index(c, k)
           chain == c.table[x]
           p == First(Found(chain, k))
           d == Removed(c, k)
           Old(j) == IF j < p THEN j ELSE j + 1
<1>1. PICK s \in Nat \ {0} :
             /\ c \in Cache(s) /\ Size(c) = s /\ DOMAIN c.table = 0..(s - 1)
             /\ c.table \in [0..(s - 1) -> Seq(Node)]
             /\ c.used \in Nat /\ c.last_bucket \in Nat /\ c.node \in Nat
  BY CacheParts
<1>2. x \in 0..(s - 1) /\ x = HashOf[k] % s /\ chain \in Seq(Node)
  BY <1>1, HashInTable DEF Index
<1>3. /\ \A b \in 0..(s - 1) : \A i \in 1..Len(c.table[b]) : b = HashOf[c.table[b][i].key] % s
      /\ \A b \in 0..(s - 1) : \A i, j \in 1..Len(c.table[b]) :
             c.table[b][i].key = c.table[b][j].key => i = j
  BY <1>1 DEF WellFormed
<1> HIDE DEF x
<1>4. p \in 1..Len(chain) /\ chain[p].key = k
  <2>1. /\ \A i : i \in Found(chain, k) <=> i \in 1..Len(chain) /\ chain[i].key = k
        /\ Found(chain, k) # {}
    BY DEF Found, IsKeyInHash, Chain, x
  <2>2. Found(chain, k) \in SUBSET Nat
    BY <1>2, <2>1
  <2> HIDE DEF chain
  <2> QED
    BY <2>1, <2>2, FirstIs
<1> HIDE DEF p, d
<1>5. /\ Without(chain, k) \in Seq(Node) /\ Len(Without(chain, k)) = Len(chain) - 1
      /\ Len(chain) \in Nat
      /\ \A j \in 1..Len(Without(chain, k)) : Without(chain, k)[j] = chain[Old(j)]
  <2> HIDE DEF chain
  <2>1. Without(chain, k) = SubSeq(chain, 1, p - 1) \o SubSeq(chain, p + 1, Len(chain))
    BY DEF Without, p
  <2> QED
    BY <1>2, <1>4, <2>1, ChainWithout
<1>6. /\ d.table = [c.table EXCEPT ![x] = Without(chain, k)]
      /\ d.used = c.used - 1 /\ d.last_bucket = c.last_bucket /\ d.node = c.node
      /\ d.used \in Nat /\ c.used # 0 /\ d \in Cache(s)
  <2>1. c.used # 0
    <3>1. IsFiniteSet(KeysIn(c)) /\ KeysIn(c) # {}
      BY ContentsTyped, FS_Subset, LookUp
    <3> QED
      BY <3>1, FS_EmptySet DEF WellFormed
  <2> DEFINE t == [c.table EXCEPT ![x] = Without(chain, k)]
  <2>2. t \in [0..(s - 1) -> Seq(Node)]
    BY <1>1, <1>2, <1>5
  <2>3. d = [c EXCEPT !.table[x] = Without(chain, k), !.used = c.used - 1]
    BY DEF Removed, d, x
  <2> HIDE DEF chain
  <2>4. d = [table |-> t, used |-> c.used - 1, last_bucket |-> c.last_bucket, node |-> c.node]
    BY <1>1, <2>3 DEF Cache, chain
  <2> HIDE DEF t
  <2> QED
    BY <1>1, <2>1, <2>2, <2>4 DEF Cache, t
<1>7. /\ DOMAIN d.table = 0..(s - 1) /\ Size(d) = s
      /\ \A b \in 0..(s - 1) : b # x => d.table[b] = c.table[b]
      /\ d.table[x] = Without(chain, k)
  BY <1>1, <1>2, <1>6, FS_Interval DEF Size
<1>8. /\ Len(d.table[x]) = Len(chain) - 1
      /\ \A j \in 1..Len(d.table[x]) : /\ Old(j) \in 1..Len(chain) /\ Old(j) # p
                                       /\ d.table[x][j] = chain[Old(j)]
  <2> HIDE DEF chain
  <2> QED
    BY <1>4, <1>5, <1>7
<1>9. \A j \in 1..Len(chain) : j # p =>
           \E l \in 1..Len(d.table[x]) : d.table[x][l] = chain[j]
  <2> HIDE DEF chain
  <2> SUFFICES ASSUME NEW j \in 1..Len(chain), j # p
               PROVE  \E l \in 1..Len(d.table[x]) : d.table[x][l] = chain[j]
    OBVIOUS
  <2>1. CASE j < p
    <3>1. j \in 1..Len(d.table[x]) /\ Old(j) = j
      BY <1>4, <1>5, <1>8, <2>1
    <3> QED
      BY <1>8, <3>1
  <2>2. CASE j > p
    <3>1. j - 1 \in 1..Len(d.table[x]) /\ Old(j - 1) = j
      BY <1>4, <1>5, <1>8, <2>2
    <3> QED
      BY <1>8, <3>1
  <2> QED
    BY <1>4, <1>5, <2>1, <2>2
<1>10. ASSUME NEW b \in DOMAIN d.table, NEW i \in 1..Len(d.table[b])
       PROVE  b = HashOf[d.table[b][i].key] % Size(d)
  <2>1. CASE b # x
    BY <1>3, <1>7, <1>10, <2>1
  <2>2. CASE b = x
    <3>1. x = HashOf[chain[Old(i)].key] % s
      BY <1>2, <1>3, <1>8, <1>10, <2>2
    <3> QED
      BY <1>7, <1>8, <1>10, <2>2, <3>1
  <2> QED
    BY <2>1, <2>2
<1>11. ASSUME NEW b \in DOMAIN d.table, NEW i \in 1..Len(d.table[b]),
              NEW j \in 1..Len(d.table[b]), d.table[b][i].key = d.table[b][j].key
       PROVE  i = j
  <2>1. CASE b # x
    <3>1. /\ b \in 0..(s - 1) /\ i \in 1..Len(c.table[b]) /\ j \in 1..Len(c.table[b])
          /\ c.table[b][i].key = c.table[b][j].key
      BY <1>7, <1>11, <2>1
    <3> QED
      BY <1>3, <3>1
  <2>2. CASE b = x
    <3>1. chain[Old(i)].key = chain[Old(j)].key
      BY <1>8, <1>11, <2>2
    <3>2. Old(i) = Old(j)
      BY <1>2, <1>3, <1>8, <1>11, <2>2, <3>1
    <3>3. i \in Nat /\ j \in Nat /\ p \in Nat
      BY <1>4, <1>5, <1>8, <2>2
    <3> QED
      BY <3>2, <3>3
  <2> QED
    BY <2>1, <2>2
<1>12. Contents(d) = {e \in Contents(c) : e.key # k}
  <2>1. ASSUME NEW f \in Contents(d) PROVE f \in Contents(c) /\ f.key # k
    <3>1. PICK b \in DOMAIN d.table : \E i \in 1..Len(d.table[b]) : f = d.table[b][i]
      BY InContents
    <3>2. PICK i \in 1..Len(d.table[b]) : f = d.table[b][i]
      BY <3>1
    <3>3. CASE b # x
      <4>1. b \in DOMAIN c.table /\ i \in 1..Len(c.table[b]) /\ f = c.table[b][i]
        BY <1>1, <1>7, <3>2, <3>3
      <4>2. f.key # k
        BY <1>1, <1>2, <1>3, <3>3, <4>1
      <4> QED
        BY <4>1, <4>2, InContents
    <3>4. CASE b = x
      <4>1. Old(i) \in 1..Len(chain) /\ Old(i) # p /\ f = chain[Old(i)]
        BY <1>8, <3>2, <3>4
      <4>2. f.key # k
        BY <1>2, <1>3, <1>4, <4>1
      <4> QED
        BY <1>1, <1>2, <4>1, <4>2, InContents
    <3> QED
      BY <3>3, <3>4
  <2>2. ASSUME NEW f \in Contents(c), f.key # k PROVE f \in Contents(d)
    <3>1. PICK b \in DOMAIN c.table : \E i \in 1..Len(c.table[b]) : f = c.table[b][i]
      BY InContents
    <3>2. PICK i \in 1..Len(c.table[b]) : f = c.table[b][i]
      BY <3>1
    <3>3. CASE b # x
      <4>1. b \in DOMAIN d.table /\ i \in 1..Len(d.table[b]) /\ f = d.table[b][i]
        BY <1>1, <1>7, <3>2, <3>3
      <4> QED
        BY <4>1, InContents
    <3>4. CASE b = x
      <4>1. i # p
        BY <1>4, <2>2, <3>2, <3>4
      <4>2. PICK l \in 1..Len(d.table[x]) : d.table[x][l] = f
        BY <1>9, <3>2, <3>4, <4>1
      <4> QED
        BY <1>2, <1>7, <4>2, InContents
    <3> QED
      BY <3>3, <3>4
  <2> QED
    BY <2>1, <2>2
<1>13. d.used = Cardinality(KeysIn(d))
  <2>1. KeysIn(d) = KeysIn(c) \ {k} /\ k \in KeysIn(c)
    BY <1>12, InContents, LookUp
  <2>2. IsFiniteSet(KeysIn(c))
    BY ContentsTyped, FS_Subset
  <2> QED
    BY <1>6, <2>1, <2>2, FS_RemoveElement DEF WellFormed
<1>14. WellFormed(d)
  BY <1>1, <1>7, <1>10, <1>11, <1>13 DEF WellFormed
<1> QED
  BY <1>1, <1>6, <1>7, <1>12, <1>14 DEF d, Caches

(* The walk over a table returns each node once and then none.               *)
LEMMA NextNode ==
  ASSUME NEW c \in Caches, WellFormed(c), Cursor(c), NEW d, d = HashNext(c)
  PROVE  /\ d \in Caches /\ d.table = c.table /\ d.used = c.used
         /\ d.node = 0 => Visited(c) = Contents(c)
         /\ d.node # 0 =>
                /\ d.last_bucket \in DOMAIN d.table /\ d.node \in 1..Len(d.table[d.last_bucket])
                /\ c.table[d.last_bucket][d.node] \in Contents(c)
                /\ \A e \in Visited(c) : e.key # c.table[d.last_bucket][d.node].key
                /\ Visited(d) = Visited(c) \cup {c.table[d.last_bucket][d.node]}
<1>1. PICK s \in Nat \ {0} :
             /\ c \in Cache(s) /\ Size(c) = s /\ DOMAIN c.table = 0..(s - 1)
             /\ c.table \in [0..(s - 1) -> Seq(Node)]
             /\ c.used \in Nat /\ c.last_bucket \in Nat /\ c.node \in Nat
  BY CacheParts
<1>2. \A b \in 0..(s - 1) : /\ Len(c.table[b]) \in Nat
                            /\ c.table[b] # <<>> => Len(c.table[b]) > 0
                            /\ c.table[b] = <<>> => Len(c.table[b]) = 0
  BY <1>1, EmptySeq
<1> DEFINE inside == c.node > 0 /\ c.node < Len(c.table[c.last_bucket])
<1> PICK from : from = IF c.node = 0 THEN 0 ELSE c.last_bucket + 1
  OBVIOUS
<1> PICK later : later = {b \in DOMAIN c.table : b >= from /\ c.table[b] # <<>>}
  OBVIOUS
<1> PICK first : first = First(later)
  OBVIOUS
<1>3. d = IF inside THEN [c EXCEPT !.node = @ + 1]
          ELSE IF later = {} THEN [c EXCEPT !.last_bucket = Size(c), !.node = 0]
          ELSE [c EXCEPT !.last_bucket = first, !.node = 1]
  BY DEF HashNext
<1>4. /\ from \in Nat
      /\ \A b \in 0..(s - 1) : \A i \in 1..Len(c.table[b]) : b >= from => b \in later
      /\ later # {} => first \in 0..(s - 1) /\ first >= from /\ Len(c.table[first]) > 0
      /\ later # {} => \A b \in later : first <= b
  <2>1. \A b : b \in later <=> b \in 0..(s - 1) /\ b >= from /\ c.table[b] # <<>>
    BY <1>1
  <2>2. later \in SUBSET Nat /\ from \in Nat
    BY <1>1, <2>1
  <2>3. \A b \in 0..(s - 1) : \A i \in 1..Len(c.table[b]) : c.table[b] # <<>>
    BY <1>2
  <2>4. later # {} => first \in later /\ \A b \in later : first <= b
    BY <2>2, FirstIs
  <2> QED
    BY <1>2, <2>1, <2>2, <2>3, <2>4
<1>5. /\ d \in Cache(s) /\ d.table = c.table /\ d.used = c.used
      /\ inside => d.last_bucket = c.last_bucket /\ d.node = c.node + 1
      /\ ~inside /\ later = {} => d.node = 0
      /\ ~inside /\ later # {} => d.last_bucket = first /\ d.node = 1
  <2> HIDE DEF inside
  <2>1. later # {} => first \in Nat
    BY <1>4
  <2> DEFINE At(l, n) == [table |-> c.table, used |-> c.used, last_bucket |-> l, node |-> n]
  <2>2. d = IF inside THEN At(c.last_bucket, c.node + 1)
            ELSE IF later = {} THEN At(s, 0) ELSE At(first, 1)
    BY <1>1, <1>3 DEF Cache
  <2>3. \A l, n \in Nat : At(l, n) \in Cache(s)
    BY <1>1 DEF Cache
  <2>4. \A l, n : /\ At(l, n).table = c.table /\ At(l, n).used = c.used
                  /\ At(l, n).last_bucket = l /\ At(l, n).node = n
    OBVIOUS
  <2> HIDE DEF At, inside
  <2>5. \E l, n \in Nat :
            /\ d = At(l, n)
            /\ inside => l = c.last_bucket /\ n = c.node + 1
            /\ ~inside /\ later = {} => n = 0
            /\ ~inside /\ later # {} => l = first /\ n = 1
    <3>1. CASE inside
      BY <1>1, <2>2, <3>1
    <3>2. CASE ~inside /\ later = {}
      BY <1>1, <2>2, <3>2
    <3>3. CASE ~inside /\ later # {}
      BY <2>1, <2>2, <3>3
    <3> QED
      BY <3>1, <3>2, <3>3
  <2> QED
    BY <2>3, <2>4, <2>5
(* From one node to the next no node is passed over.                         *)
<1>6. ASSUME NEW b \in DOMAIN c.table, NEW i \in 1..Len(c.table[b]), ~inside
      PROVE  Passed(c, b, i) <=> b < from
  <2>1. b \in Nat /\ i \in Nat /\ i >= 1 /\ i <= Len(c.table[b])
    BY <1>1, <1>2
  <2>2. CASE Unwalked(c)
    BY <1>1, <2>1, <2>2 DEF Passed, Unwalked
  <2>3. CASE c.last_bucket \in DOMAIN c.table /\ c.node \in 1..Len(c.table[c.last_bucket])
    <3>1. /\ c.node = Len(c.table[c.last_bucket]) /\ c.node \in Nat /\ c.last_bucket \in Nat
          /\ from = c.last_bucket + 1
      <4>1. Len(c.table[c.last_bucket]) \in Nat
        BY <1>1, <1>2, <2>3
      <4> QED
        BY SMTT(30), <1>1, <1>6, <2>3, <4>1
    <3> QED
      BY <2>1, <3>1 DEF Passed
  <2> QED
    BY <2>2, <2>3 DEF Cursor
<1> HIDE DEF inside
<1>7. CASE d.node = 0
  <2>1. ~inside /\ later = {}
    BY <1>1, <1>5, <1>7
  <2>2. ASSUME NEW b \in DOMAIN c.table, NEW i \in 1..Len(c.table[b])
        PROVE  Passed(c, b, i)
    <3>1. b < from
      <4>1. b \in 0..(s - 1) /\ b \notin later /\ b \in Nat /\ from \in Nat
        BY <1>1, <1>4, <2>1
      <4> QED
        BY <1>4, <4>1
    <3> QED
      BY <1>6, <2>1, <3>1
  <2>3. Visited(c) = Contents(c)
    <3>1. \A e : e \in Visited(c) <=> e \in Contents(c)
      BY <2>2, InContents
    <3> QED
      BY <3>1
  <2> QED
    BY <1>5, <1>7, <2>3 DEF Caches
<1>8. CASE d.node # 0
  <2> DEFINE x == d.last_bucket
             y == d.node
  <2>1. x \in 0..(s - 1) /\ y \in 1..Len(c.table[x]) /\ ~Passed(c, x, y)
    <3>1. CASE inside
      <4>1. x = c.last_bucket /\ y = c.node + 1 /\ c.last_bucket \in 0..(s - 1)
        BY <1>1, <1>5, <3>1 DEF Cursor, Unwalked, inside
      <4> QED
        BY SMTT(30), <1>1, <1>2, <3>1, <4>1 DEF Passed, inside
    <3>2. CASE ~inside
      <4>1. later # {} /\ x = first /\ y = 1
        BY <1>5, <1>8, <3>2
      <4>2. x \in 0..(s - 1) /\ x >= from /\ Len(c.table[x]) > 0 /\ Len(c.table[x]) \in Nat
        <5> HIDE DEF x
        <5> QED
          BY <1>2, <1>4, <4>1
      <4>3. y \in 1..Len(c.table[x])
        BY <4>1, <4>2
      <4> QED
        BY <1>1, <1>4, <1>6, <3>2, <4>2, <4>3
    <3> QED
      BY <3>1, <3>2
  <2>2. ASSUME NEW b \in DOMAIN c.table, NEW i \in 1..Len(c.table[b])
        PROVE  Passed(d, b, i) <=> Passed(c, b, i) \/ (b = x /\ i = y)
    <3>1. b \in Nat /\ i \in Nat /\ i >= 1 /\ i <= Len(c.table[b]) /\ Len(c.table[b]) \in Nat
      BY <1>1, <1>2
    <3>2. CASE inside
      <4>1. x = c.last_bucket /\ y = c.node + 1
        BY <1>5, <3>2
      <4> QED
        BY <1>1, <3>1, <4>1 DEF Passed
    <3>3. CASE ~inside
      <4>1. later # {} /\ x = first /\ y = 1
        BY <1>5, <1>8, <3>3
      <4>2. x \in Nat /\ x >= from /\ (b >= from => x <= b)
        <5>1. b \in 0..(s - 1) /\ first \in Nat /\ first >= from
          BY <1>1, <1>4, <4>1
        <5>2. b >= from => first <= b
          BY <1>4, <4>1, <5>1
        <5> QED
          BY <4>1, <5>1, <5>2
      <4>3. Passed(c, b, i) <=> b < from
        BY <1>6, <3>3
      <4> QED
        BY <1>4, <3>1, <4>1, <4>2, <4>3 DEF Passed
    <3> QED
      BY <3>2, <3>3
  <2> HIDE DEF x, y
  <2>3. Visited(d) = Visited(c) \cup {c.table[x][y]}
    <3>1. DOMAIN d.table = DOMAIN c.table /\ d.table = c.table
      BY <1>5
    <3>2. ASSUME NEW e \in Visited(d) PROVE e \in Visited(c) \/ e = c.table[x][y]
      <4>1. PICK b \in DOMAIN c.table : \E i \in 1..Len(c.table[b]) :
                Passed(d, b, i) /\ e = c.table[b][i]
        BY <3>1, InContents
      <4>2. PICK i \in 1..Len(c.table[b]) : Passed(d, b, i) /\ e = c.table[b][i]
        BY <4>1
      <4> QED
        BY <2>2, <4>2, InContents
    <3>3. ASSUME NEW e \in Visited(c) PROVE e \in Visited(d)
      <4>1. PICK b \in DOMAIN c.table : \E i \in 1..Len(c.table[b]) :
                Passed(c, b, i) /\ e = c.table[b][i]
        BY InContents
      <4>2. PICK i \in 1..Len(c.table[b]) : Passed(c, b, i) /\ e = c.table[b][i]
        BY <4>1
      <4> QED
        BY <2>2, <3>1, <4>2, InContents
    <3>4. c.table[x][y] \in Visited(d)
      <4>1. x \in DOMAIN c.table /\ Passed(d, x, y)
        BY <1>1, <2>1, <2>2
      <4> QED
        BY <2>1, <3>1, <4>1, InContents
    <3> QED
      BY <3>2, <3>3, <3>4
  <2>4. c.table[x][y] \in Contents(c)
    BY <1>1, <2>1, InContents
  <2>5. ASSUME NEW e \in Visited(c), e.key = c.table[x][y].key PROVE FALSE
    <3>1. PICK b \in DOMAIN c.table : \E i \in 1..Len(c.table[b]) :
              Passed(c, b, i) /\ e = c.table[b][i]
      BY InContents
    <3>2. PICK i \in 1..Len(c.table[b]) : Passed(c, b, i) /\ e = c.table[b][i]
      BY <3>1
    <3>3. b = x /\ i = y
      <4>1. x \in DOMAIN c.table
        BY <1>1, <2>1
      <4> QED
        BY <2>1, <2>5, <3>2, <4>1, OnePlace
    <3> QED
      BY <2>1, <3>2, <3>3
  <2> QED
    BY <1>1, <1>5, <1>8, <2>1, <2>3, <2>4, <2>5 DEF x, y, Caches
<1> QED
  BY <1>7, <1>8

(* A walk that has not begun has returned nothing.                           *)
LEMMA NothingVisited ==
  ASSUME NEW c \in Caches, Unwalked(c)
  PROVE  Visited(c) = {}
<1>1. PICK s \in Nat \ {0} : DOMAIN c.table = 0..(s - 1) /\ c.table \in [0..(s - 1) -> Seq(Node)]
  BY CacheParts
<1>2. ASSUME NEW b \in DOMAIN c.table, NEW i \in 1..Len(c.table[b]) PROVE ~Passed(c, b, i)
  <2>1. b \in Nat /\ Len(c.table[b]) \in Nat
    BY <1>1
  <2>2. i \in Nat /\ i >= 1
    BY <2>1
  <2> QED
    BY <2>1, <2>2 DEF Passed, Unwalked
<1> QED
  BY <1>2, InContents

-----------------------------------------------------------------------------
(* A table that is full is doubled without a wrap.                           *)
LEMMA DoubledFits ==
  ASSUME NoWrap, NEW c \in Caches, WellFormed(c), Full(c)
  PROVE  Doubled(c) = Size(c) * 2 /\ Doubled(c) \in Nat \ {0} /\ Doubled(c) * 75 < UInt
<1>1. PICK s \in Nat \ {0} : Size(c) = s /\ c.used \in Nat
  BY CacheParts
<1>2. c.used <= Cardinality(Keys) /\ Cardinality(Keys) \in Nat
  BY ContentsTyped, FS_Subset, FS_CardinalityType DEF NoWrap, WellFormed
<1>3. s * 75 < UInt /\ UInt \in Nat
  BY <1>1, UIntAssumption DEF WellFormed
<1>4. (s * 75) % UInt = s * 75
  BY <1>3
<1>5. (s * 75) \div 100 <= c.used
  BY <1>1, <1>4 DEF Full
<1>6. s * 75 < 100 * (c.used + 1)
  BY <1>1, <1>5
<1>7. s * 2 * 75 < UInt
  BY <1>1, <1>2, <1>3, <1>6 DEF NoWrap
<1>8. (s * 2) % UInt = s * 2
  BY <1>1, <1>3, <1>7
<1> QED
  BY <1>1, <1>7, <1>8 DEF Doubled

(* A table just made.                                                        *)
Fresh(c) == Unwalked(c) /\ Contents(c) = {} /\ c.used = 0

(* A node is added to the innermost table, and a new one is made if that is  *)
(* full.                                                                     *)
LEMMA AddedTables ==
  ASSUME NoWrap, NEW s, TablesOK(s), NEW n, n = Len(s), NEW k \in Keys, NEW v \in Values,
         k \notin KeysIn(s[n]), NEW r, r = Added(s, n, k, v)
  PROVE  /\ TablesOK(r) /\ Len(r) \in {n, n + 1} /\ \A m \in 1..(n - 1) : r[m] = s[m]
         /\ Contents(r[n]) = Contents(s[n]) \cup {[key |-> k, value |-> v]}
         /\ r[n].last_bucket = s[n].last_bucket /\ r[n].node = s[n].node
         /\ Len(r) = n => ~Full(r[n])
         /\ Len(r) = n + 1 => Fresh(r[n + 1])
<1>1. n \in Nat \ {0} /\ s[n] \in Caches /\ WellFormed(s[n]) /\ s \in Seq(Caches)
  BY DEF TablesOK
<1> PICK c : c = Insert(s[n], k, v)
  OBVIOUS
<1>2. /\ c \in Caches /\ WellFormed(c)
      /\ Contents(c) = Contents(s[n]) \cup {[key |-> k, value |-> v]}
      /\ c.last_bucket = s[n].last_bucket /\ c.node = s[n].node
  BY <1>1, InsertAdds DEF NoWrap
<1> PICK q : q = [s EXCEPT ![n] = c]
  OBVIOUS
<1>3. /\ q \in Seq(Caches) /\ Len(q) = n /\ q[n] = c
      /\ \A m \in 1..(n - 1) : q[m] = s[m]
      /\ \A m \in 1..n : WellFormed(q[m])
  BY <1>1, <1>2 DEF TablesOK
<1>4. r = IF Full(c) THEN Append(q, NewCache(Doubled(c))) ELSE q
  BY DEF Added
<1>5. CASE ~Full(c)
  BY <1>1, <1>2, <1>3, <1>4, <1>5 DEF TablesOK
<1>6. CASE Full(c)
  <2> PICK new : new = NewCache(Doubled(c))
    OBVIOUS
  <2>1. /\ new \in Caches /\ Unwalked(new) /\ Contents(new) = {} /\ new.used = 0
        /\ WellFormed(new)
    BY <1>2, <1>6, DoubledFits, NewIsEmpty
  <2>2. r = Append(q, new)
    BY <1>4, <1>6
  <2>3. /\ r \in Seq(Caches) /\ Len(r) = n + 1 /\ r[n + 1] = new
        /\ \A m \in 1..n : r[m] = q[m]
    BY <1>1, <1>3, <2>1, <2>2
  <2>4. \A m \in 1..(n + 1) : WellFormed(r[m])
    BY <1>1, <1>3, <2>1, <2>3
  <2> QED
    BY SMTT(30), <1>1, <1>2, <1>3, <2>1, <2>3, <2>4 DEF TablesOK, Fresh
<1> QED
  BY <1>5, <1>6

-----------------------------------------------------------------------------
(* A new table is empty.                                                     *)
LEMMA InitInv == NoWrap /\ Init => IInv
<1> SUFFICES ASSUME NoWrap, Init PROVE IInv
  OBVIOUS
<1> PICK c : c = NewCache(InitialSize)
  OBVIOUS
<1>1. c \in Caches /\ Unwalked(c) /\ c.used = 0 /\ WellFormed(c)
  BY SizeAssumption, NewIsEmpty DEF NoWrap
<1>2. caches = <<c>> /\ Len(caches) = 1 /\ caches[1] = c
  BY DEF Init
<1> QED
  BY <1>1, <1>2 DEF IInv, TablesOK, WalksOK, RoomOK

(* Adding, by the client or by the loop, leaves the walks as they should be. *)
LEMMA AddedInv ==
  ASSUME NoWrap, NEW s, TablesOK(s), NEW n, n = Len(s), Unwalked(s[n]),
         NEW k \in Keys, NEW v \in Values, k \notin KeysIn(s[n]),
         \A m \in 1..(n - 1) : Cursor(s[m]),
         \A m \in 1..(n - 2) : Contents(s[m + 1]) = Visited(s[m]),
         n > 1 => Visited(s[n - 1]) = Contents(s[n]) \cup {[key |-> k, value |-> v]},
         NEW r, r = Added(s, n, k, v)
  PROVE  TablesOK(r) /\ WalksOK(r) /\ RoomOK(r)
<1>1. /\ TablesOK(r) /\ Len(r) \in {n, n + 1} /\ \A m \in 1..(n - 1) : r[m] = s[m]
      /\ Contents(r[n]) = Contents(s[n]) \cup {[key |-> k, value |-> v]}
      /\ Unwalked(r[n])
      /\ Len(r) = n => ~Full(r[n])
      /\ Len(r) = n + 1 => Unwalked(r[n + 1]) /\ Contents(r[n + 1]) = {} /\ r[n + 1].used = 0
  <2>1. /\ TablesOK(r) /\ Len(r) \in {n, n + 1} /\ \A m \in 1..(n - 1) : r[m] = s[m]
        /\ Contents(r[n]) = Contents(s[n]) \cup {[key |-> k, value |-> v]}
        /\ r[n].last_bucket = s[n].last_bucket /\ r[n].node = s[n].node
        /\ Len(r) = n => ~Full(r[n])
        /\ Len(r) = n + 1 => Fresh(r[n + 1])
    <3>1. TablesOK(r) /\ Len(r) \in {n, n + 1} /\ \A m \in 1..(n - 1) : r[m] = s[m]
      BY AddedTables
    <3>2. /\ Contents(r[n]) = Contents(s[n]) \cup {[key |-> k, value |-> v]}
          /\ r[n].last_bucket = s[n].last_bucket /\ r[n].node = s[n].node
      BY AddedTables
    <3>3. Len(r) = n => ~Full(r[n])
      BY AddedTables
    <3>4. Len(r) = n + 1 => Fresh(r[n + 1])
      BY AddedTables
    <3> QED
      BY <3>1, <3>2, <3>3, <3>4
  <2> QED
    BY <2>1 DEF Unwalked, Fresh
<1>2. n \in Nat \ {0} /\ n \in 1..Len(r) /\ r[n] \in Caches
  BY <1>1 DEF TablesOK
<1>3. \A m \in 1..(n - 1) : Cursor(r[m]) /\ Contents(r[m + 1]) = Visited(r[m])
  <2> SUFFICES ASSUME NEW m \in 1..(n - 1)
               PROVE  Cursor(r[m]) /\ Contents(r[m + 1]) = Visited(r[m])
    OBVIOUS
  <2>1. r[m] = s[m] /\ Cursor(s[m])
    BY <1>1
  <2>2. CASE m = n - 1
    <3>1. m + 1 = n /\ n > 1
      BY <1>2, <2>2
    <3> QED
      BY <1>1, <2>1, <2>2, <3>1
  <2>3. CASE m # n - 1
    <3>1. m \in 1..(n - 2) /\ m + 1 \in 1..(n - 1)
      BY <1>2, <2>3
    <3> QED
      BY <1>1, <2>1, <3>1
  <2> QED
    BY <2>2, <2>3
<1>4. CASE Len(r) = n
  BY <1>1, <1>3, <1>4 DEF WalksOK, RoomOK
<1>5. CASE Len(r) = n + 1
  <2>1. Contents(r[n + 1]) = Visited(r[n]) /\ Cursor(r[n])
    BY <1>1, <1>2, <1>5, NothingVisited DEF Cursor
  <2>2. \A m \in 1..n : Cursor(r[m]) /\ Contents(r[m + 1]) = Visited(r[m])
    BY <1>2, <1>3, <2>1
  <2>3. (n + 1) - 1 = n
    BY <1>2
  <2> QED
    BY <1>1, <1>5, <2>2, <2>3 DEF WalksOK, RoomOK
<1> QED
  BY <1>1, <1>4, <1>5

(* A program's tour_hash_add keeps the invariant and adds one node to the    *)
(* table it is called for.                                                   *)
LEMMA AddStep ==
  ASSUME NoWrap, IInv, NEW k \in Keys, NEW v \in Values, Add(k, v)
  PROVE  /\ IInv' /\ k \notin KeysIn(caches[1])
         /\ Contents(caches'[1]) = Contents(caches[1]) \cup {[key |-> k, value |-> v]}
<1>1. Len(caches) = 1 /\ TablesOK(caches) /\ Unwalked(caches[1]) /\ caches[1] \in Caches
  BY DEF Add, AtRest, IInv, TablesOK, WalksOK
<1>2. k \notin KeysIn(caches[1])
  BY <1>1, LookUp DEF Add, Client, TablesOK
<1>3. caches' = Added(caches, 1, k, v)
  BY DEF Add
<1>4. PICK n : n = 1
  OBVIOUS
<1>5. /\ n = Len(caches) /\ ~(n > 1) /\ Unwalked(caches[n]) /\ k \notin KeysIn(caches[n])
      /\ caches' = Added(caches, n, k, v)
  BY <1>1, <1>2, <1>3, <1>4
<1>6. 1..(n - 1) = {} /\ 1..(n - 2) = {}
  BY <1>4
<1>7. TablesOK(caches') /\ WalksOK(caches') /\ RoomOK(caches')
  BY <1>1, <1>5, <1>6, AddedInv
<1>8. Contents(caches'[n]) = Contents(caches[n]) \cup {[key |-> k, value |-> v]}
  <2>1. PICK r : r = caches'
    OBVIOUS
  <2> PICK s : s = caches
    OBVIOUS
  <2>2. /\ n = Len(s) /\ TablesOK(s) /\ k \notin KeysIn(s[n]) /\ r = Added(s, n, k, v)
    BY <1>1, <1>5, <2>1
  <2>3. Contents(r[n]) = Contents(s[n]) \cup {[key |-> k, value |-> v]}
    BY <2>2, AddedTables
  <2> QED
    BY <2>1, <2>3
<1> QED
  BY <1>2, <1>4, <1>7, <1>8 DEF IInv, TablesOK, WalksOK, RoomOK

(* The node that is moved is one that the new table does not have.           *)
LEMMA MoveStep ==
  ASSUME NoWrap, IInv, Move
  PROVE  IInv' /\ caches'[1].table = caches[1].table /\ Len(caches') >= Len(caches)
<1> PICK n : n = Len(caches)
  OBVIOUS
<1> PICK old : old = caches[n - 1]
  OBVIOUS
<1>1. PICK c : c = HashNext(old)
  OBVIOUS
<1>2. PICK e : e = c.table[c.last_bucket][c.node]
  OBVIOUS
<1>3. PICK s : s = [caches EXCEPT ![n - 1] = c]
  OBVIOUS
<1>4. n > 1 /\ c.node > 0 /\ caches' = Added(s, n, e.key, e.value)
  BY <1>1, <1>2, <1>3 DEF Move
<1>5. /\ n \in Nat /\ caches \in Seq(Caches) /\ \A m \in 1..n : WellFormed(caches[m])
      /\ Unwalked(caches[n])
      /\ \A m \in 1..(n - 1) : Cursor(caches[m]) /\ Contents(caches[m + 1]) = Visited(caches[m])
  BY DEF IInv, TablesOK, WalksOK
<1>6. /\ n - 1 \in 1..n /\ n - 1 \in 1..(n - 1) /\ (n - 1) + 1 = n /\ n \in 1..n
      /\ old \in Caches /\ WellFormed(old) /\ Cursor(old)
      /\ Contents(caches[n]) = Visited(old) /\ caches[n] \in Caches
  <2>1. n - 1 \in 1..n /\ n - 1 \in 1..(n - 1) /\ (n - 1) + 1 = n /\ n \in 1..n
    BY <1>4, <1>5
  <2> QED
    BY <1>5, <2>1
<1>7. /\ c \in Caches /\ c.table = old.table /\ c.used = old.used /\ c.node # 0
      /\ c.last_bucket \in DOMAIN c.table /\ c.node \in 1..Len(c.table[c.last_bucket])
      /\ e \in Contents(old) /\ \A f \in Visited(old) : f.key # e.key
      /\ Visited(c) = Visited(old) \cup {e}
  <2>1. c.node # 0 /\ HashNext(old).table = old.table
    BY <1>4, <1>6, <1>1, NextNode
  <2>2. old \in Caches /\ WellFormed(old) /\ Cursor(old) /\ c = HashNext(old)
    BY <1>1, <1>6
  <2>3. c \in Caches /\ c.table = old.table /\ c.used = old.used
    BY <2>2, NextNode
  <2>4. c.last_bucket \in DOMAIN c.table /\ c.node \in 1..Len(c.table[c.last_bucket])
    BY <2>1, <2>2, NextNode
  <2>5. /\ old.table[c.last_bucket][c.node] \in Contents(old)
        /\ \A f \in Visited(old) : f.key # old.table[c.last_bucket][c.node].key
        /\ Visited(c) = Visited(old) \cup {old.table[c.last_bucket][c.node]}
    <3>1. c.node # 0 =>
            /\ c.last_bucket \in DOMAIN c.table /\ c.node \in 1..Len(c.table[c.last_bucket])
            /\ old.table[c.last_bucket][c.node] \in Contents(old)
            /\ \A f \in Visited(old) : f.key # old.table[c.last_bucket][c.node].key
            /\ Visited(c) = Visited(old) \cup {old.table[c.last_bucket][c.node]}
      BY ONLY <2>2, NextNode
    <3> QED
      BY ONLY <2>1, <3>1
  <2>6. e = old.table[c.last_bucket][c.node]
    BY <1>2, <2>3
  <2> QED
    BY <2>1, <2>3, <2>4, <2>5, <2>6
<1>8. Contents(c) = Contents(old)
  BY <1>7 DEF Contents
<1>9. WellFormed(c)
  <2>1. KeysIn(c) = KeysIn(old) /\ Size(c) = Size(old)
    BY <1>7, <1>8 DEF KeysIn, Size
  <2>2. c.table = old.table /\ c.used = old.used
    BY <1>7
  <2>3. WellFormed(old)
    BY <1>6
  <2> QED
    BY ONLY <2>1, <2>2, <2>3 DEF WellFormed
<1>10. Cursor(c)
  BY <1>7 DEF Cursor
<1>11. e \in Node /\ e.key \in Keys /\ e.value \in Values /\ e = [key |-> e.key, value |-> e.value]
  BY <1>6, <1>7, ContentsTyped DEF Node
<1>12. e.key \notin KeysIn(caches[n])
  BY SMTT(30), <1>6, <1>7, InContents
<1>13. /\ s \in Seq(Caches) /\ Len(s) = n /\ s[n] = caches[n] /\ s[n - 1] = c
      /\ \A m \in 1..n : m # n - 1 => s[m] = caches[m]
  BY <1>4, <1>5, <1>6, <1>7, <1>3
<1>14. TablesOK(s)
  BY <1>4, <1>5, <1>9, <1>13 DEF TablesOK
<1>15. \A m \in 1..(n - 1) : Cursor(s[m])
  BY <1>5, <1>6, <1>10, <1>13
<1>16. \A m \in 1..(n - 2) : Contents(s[m + 1]) = Visited(s[m])
  <2> SUFFICES ASSUME NEW m \in 1..(n - 2) PROVE Contents(s[m + 1]) = Visited(s[m])
    OBVIOUS
  <2>1. m \in 1..n /\ m # n - 1 /\ m + 1 \in 1..n /\ m \in 1..(n - 1)
    BY <1>4, <1>5
  <2>2. Contents(s[m + 1]) = Contents(caches[m + 1])
    <3>1. CASE m + 1 = n - 1
      BY <1>13, <1>8, <3>1
    <3>2. CASE m + 1 # n - 1
      BY <1>13, <2>1, <3>2
    <3> QED
      BY <3>1, <3>2
  <2> QED
    BY <1>5, <1>13, <2>1, <2>2
<1>17. Visited(s[n - 1]) = Contents(s[n]) \cup {[key |-> e.key, value |-> e.value]}
  BY <1>6, <1>7, <1>11, <1>13
<1>18. TablesOK(caches') /\ WalksOK(caches') /\ RoomOK(caches')
  BY <1>4, <1>5, <1>11, <1>12, <1>13, <1>14, <1>15, <1>16, <1>17, AddedInv
<1>19. /\ Len(caches') \in {n, n + 1} /\ caches'[1] = s[1]
  <2>1. 1 \in 1..(n - 1)
    BY <1>4, <1>5
  <2>2. Len(caches') \in {n, n + 1} /\ \A m \in 1..(n - 1) : caches'[m] = s[m]
    BY <1>4, <1>11, <1>12, <1>13, <1>14, AddedTables
  <2> QED
    BY <2>1, <2>2
<1>20. s[1].table = caches[1].table
  BY <1>4, <1>5, <1>7, <1>13
<1> QED
  BY <1>5, <1>18, <1>19, <1>20 DEF IInv, TablesOK, WalksOK, RoomOK

(* When the walk is over the new table has all the nodes of the old.         *)
LEMMA MovedStep ==
  ASSUME IInv, Moved
  PROVE  IInv' /\ Contents(caches'[1]) = Contents(caches[1])
<1> PICK n : n = Len(caches)
  OBVIOUS
<1> PICK old : old = caches[n - 1]
  OBVIOUS
<1>1. /\ n > 1 /\ HashNext(old).node = 0
      /\ caches' = Append(SubSeq(caches, 1, n - 2), caches[n])
  BY DEF Moved
<1>2. /\ n \in Nat /\ caches \in Seq(Caches) /\ \A m \in 1..n : WellFormed(caches[m])
      /\ Unwalked(caches[n])
      /\ \A m \in 1..(n - 1) : Cursor(caches[m]) /\ Contents(caches[m + 1]) = Visited(caches[m])
      /\ caches[n].used = 0 \/ ~Full(caches[n])
  BY DEF IInv, TablesOK, WalksOK, RoomOK
<1>3. /\ n - 1 \in 1..n /\ n - 1 \in 1..(n - 1) /\ (n - 1) + 1 = n /\ n \in 1..n
      /\ old \in Caches /\ WellFormed(old) /\ Cursor(old)
      /\ Contents(caches[n]) = Visited(old) /\ caches[n] \in Caches
  <2>1. n - 1 \in 1..n /\ n - 1 \in 1..(n - 1) /\ (n - 1) + 1 = n /\ n \in 1..n
    BY <1>1, <1>2
  <2> QED
    BY <1>2, <2>1
<1>4. Contents(caches[n]) = Contents(old)
  BY <1>1, <1>3, NextNode
<1>5. /\ caches' \in Seq(Caches) /\ Len(caches') = n - 1 /\ caches'[n - 1] = caches[n]
      /\ \A m \in 1..(n - 2) : caches'[m] = caches[m]
  <2> PICK front : front = SubSeq(caches, 1, n - 2)
    OBVIOUS
  <2>1. /\ front \in Seq(Caches) /\ Len(front) = n - 2
        /\ \A m \in 1..(n - 2) : front[m] = caches[m]
    BY <1>1, <1>2
  <2> QED
    BY <1>1, <1>2, <1>3, <2>1
<1>6. TablesOK(caches')
  BY <1>1, <1>2, <1>3, <1>5 DEF TablesOK
<1>7. \A m \in 1..(n - 1) : Contents(caches'[m]) = Contents(caches[m])
  BY <1>2, <1>3, <1>4, <1>5
<1>8. \A m \in 1..(n - 2) : Cursor(caches'[m]) /\ Contents(caches'[m + 1]) = Visited(caches'[m])
  <2> SUFFICES ASSUME NEW m \in 1..(n - 2)
               PROVE  Cursor(caches'[m]) /\ Contents(caches'[m + 1]) = Visited(caches'[m])
    OBVIOUS
  <2>1. m + 1 \in 1..(n - 1) /\ m \in 1..(n - 1)
    BY <1>1, <1>2
  <2> QED
    BY <1>2, <1>5, <1>7, <2>1
<1>9. WalksOK(caches') /\ RoomOK(caches')
  <2>1. (n - 1) - 1 = n - 2
    BY <1>2
  <2> QED
    BY <1>2, <1>5, <1>8, <2>1 DEF WalksOK, RoomOK
<1>10. 1 \in 1..(n - 1)
  BY <1>1, <1>2
<1> QED
  BY <1>6, <1>7, <1>9, <1>10 DEF IInv, TablesOK, WalksOK, RoomOK

(* A program's tour_hash_remove keeps the invariant and takes one node.      *)
LEMMA RemoveStep ==
  ASSUME NoWrap, IInv, NEW k \in Keys, Remove(k)
  PROVE  IInv' /\ Contents(caches'[1]) = {e \in Contents(caches[1]) : e.key # k}
<1> PICK c : c = Removed(Client, k)
  OBVIOUS
<1>1. /\ Len(caches) = 1 /\ caches \in Seq(Caches) /\ caches[1] \in Caches
      /\ WellFormed(caches[1]) /\ Unwalked(caches[1])
      /\ caches[1].used = 0 \/ ~Full(caches[1])
  BY DEF Remove, AtRest, IInv, TablesOK, WalksOK, RoomOK
<1>2. /\ c \in Caches /\ WellFormed(c) /\ Size(c) = Size(caches[1])
      /\ Contents(c) = {e \in Contents(caches[1]) : e.key # k}
      /\ Unwalked(c) /\ c.used = caches[1].used - 1 /\ caches[1].used \in Nat \ {0}
  BY <1>1, RemoveTakes DEF Remove, Client, NoWrap, Unwalked
<1>3. caches' = [caches EXCEPT ![1] = c]
  BY <1>1 DEF Remove, Removed, Client
<1>4. caches' \in Seq(Caches) /\ Len(caches') = 1 /\ caches'[1] = c
  BY <1>1, <1>2, <1>3
<1>5. c.used = 0 \/ ~Full(c)
  <2>1. ~Full(caches[1])
    BY <1>1, <1>2
  <2> PICK t : t = ((Size(c) * 75) % UInt) \div 100
    OBVIOUS
  <2>2. t \in Int
    <3>1. PICK s \in Nat \ {0} : Size(c) = s
      BY <1>2, CacheParts
    <3>2. (s * 75) % UInt \in Nat
      BY UIntAssumption, SizeAssumption
    <3> QED
      BY <3>1, <3>2
  <2> QED
    BY <1>2, <2>1, <2>2 DEF Full
<1> QED
  BY <1>2, <1>4, <1>5 DEF IInv, TablesOK, WalksOK, RoomOK

(* Every step keeps the invariant.                                           *)
LEMMA StepInv == NoWrap /\ IInv /\ [Next]_caches => IInv'
<1> SUFFICES ASSUME NoWrap, IInv, [Next]_caches PROVE IInv'
  OBVIOUS
<1>1. ASSUME NEW k \in Keys, NEW v \in Values, Add(k, v) PROVE IInv'
  BY <1>1, AddStep
<1>2. CASE Move
  BY <1>2, MoveStep
<1>3. CASE Moved
  BY <1>3, MovedStep
<1>4. ASSUME NEW k \in Keys, Remove(k) PROVE IInv'
  BY <1>4, RemoveStep
<1>5. CASE UNCHANGED caches
  BY <1>5 DEF IInv, TablesOK, WalksOK, RoomOK
<1> QED
  BY <1>1, <1>2, <1>3, <1>4, <1>5 DEF Next

(* The invariant of the tables holds at every step.                          *)
THEOREM Invariance == NoWrap => (Spec => []IInv)
<1> SUFFICES ASSUME NoWrap PROVE Spec => []IInv
  OBVIOUS
<1>1. Init => IInv
  BY InitInv
<1>2. IInv /\ [Next]_caches => IInv'
  BY StepInv
<1> QED
  BY <1>1, <1>2, PTL DEF Spec

-----------------------------------------------------------------------------
(* A chain is no longer than there are keys.                                 *)
LEMMA ChainShort ==
  ASSUME IsFiniteSet(Keys), NEW c \in Caches, WellFormed(c), NEW b \in DOMAIN c.table
  PROVE  Len(c.table[b]) \in Nat /\ Len(c.table[b]) <= Cardinality(Keys)
<1> DEFINE chain == c.table[b]
           f == [i \in 1..Len(chain) |-> chain[i].key]
<1>1. chain \in Seq(Node)
  BY CacheParts
<1>2. \A i, j \in 1..Len(chain) : chain[i].key = chain[j].key => i = j
  BY DEF WellFormed
<1> HIDE DEF chain
<1>3. \A i \in 1..Len(chain) : chain[i].key \in Keys
  <2>1. \A i \in 1..Len(chain) : chain[i] \in Node
    BY <1>1
  <2> QED
    BY <2>1 DEF Node
<1>4. f \in Injection(1..Len(chain), Keys)
  BY <1>3, <1>2 DEF Injection, IsInjective
<1> HIDE DEF f
<1>5. Cardinality(1..Len(chain)) <= Cardinality(Keys)
  BY <1>4, FS_Injection
<1>6. Len(chain) \in Nat /\ Cardinality(1..Len(chain)) = Len(chain)
  <2>1. Len(chain) \in Nat
    BY <1>1
  <2>2. Cardinality(1..Len(chain)) = Len(chain)
    <3>1. \A l \in Nat : Cardinality(1..l) = l
      BY FS_Interval
    <3> QED
      BY <2>1, <3>1
  <2> QED
    BY <2>1, <2>2
<1> QED
  BY <1>5, <1>6 DEF chain

(* The positions in the chains, and the keys found there.                    *)
LEMMA NodesAre ==
  ASSUME IsFiniteSet(Keys), NEW c \in Caches, WellFormed(c)
  PROVE  /\ \A p : p \in Nodes(c) <=>
                \E b \in DOMAIN c.table : \E i \in 1..Len(c.table[b]) : p = <<b, i>>
         /\ {KeyAt(c, p) : p \in Nodes(c)} = KeysIn(c)
<1>1. Cardinality(Keys) \in Nat
  BY FS_CardinalityType
<1>2. ASSUME NEW b \in DOMAIN c.table, NEW i \in 1..Len(c.table[b])
      PROVE  <<b, i>> \in Nodes(c)
  <2>1. i \in 1..Cardinality(Keys) /\ i <= Len(c.table[b])
    BY <1>1, ChainShort
  <2> QED
    BY <2>1 DEF Nodes
<1>3. ASSUME NEW p \in Nodes(c)
      PROVE  \E b \in DOMAIN c.table : \E i \in 1..Len(c.table[b]) : p = <<b, i>>
  <2>1. PICK b \in DOMAIN c.table, i \in 1..Cardinality(Keys) :
            p = <<b, i>> /\ i <= Len(c.table[b])
    BY DEF Nodes
  <2>2. i \in 1..Len(c.table[b])
    BY <1>1, <2>1, ChainShort
  <2> QED
    BY <2>1, <2>2
<1>4. ASSUME NEW k \in KeysIn(c) PROVE \E p \in Nodes(c) : k = KeyAt(c, p)
  <2>1. PICK e \in Contents(c) : k = e.key
    BY InContents
  <2>2. PICK b \in DOMAIN c.table : \E i \in 1..Len(c.table[b]) : e = c.table[b][i]
    BY InContents
  <2>3. PICK i \in 1..Len(c.table[b]) : e = c.table[b][i]
    BY <2>2
  <2> QED
    BY <1>2, <2>1, <2>3 DEF KeyAt
<1>5. ASSUME NEW p \in Nodes(c) PROVE KeyAt(c, p) \in KeysIn(c)
  <2>1. PICK b \in DOMAIN c.table : \E i \in 1..Len(c.table[b]) : p = <<b, i>>
    BY <1>3
  <2>2. PICK i \in 1..Len(c.table[b]) : p = <<b, i>>
    BY <2>1
  <2> QED
    BY <2>2, InContents DEF KeyAt
<1> QED
  BY <1>2, <1>3, <1>4, <1>5

(* As many nodes as keys: each key is in one place.                          *)
LEMMA NodesCounted ==
  ASSUME IsFiniteSet(Keys), NEW c \in Caches, WellFormed(c)
  PROVE  Cardinality(Nodes(c)) = Cardinality(KeysIn(c))
<1> DEFINE f == [p \in Nodes(c) |-> KeyAt(c, p)]
<1>1. f \in Surjection(Nodes(c), KeysIn(c))
  BY NodesAre DEF Surjection
<1>2. ASSUME NEW p \in Nodes(c), NEW q \in Nodes(c), KeyAt(c, p) = KeyAt(c, q)
      PROVE  p = q
  <2>1. PICK b \in DOMAIN c.table : \E i \in 1..Len(c.table[b]) : p = <<b, i>>
    BY NodesAre
  <2>2. PICK i \in 1..Len(c.table[b]) : p = <<b, i>>
    BY <2>1
  <2>3. PICK a \in DOMAIN c.table : \E j \in 1..Len(c.table[a]) : q = <<a, j>>
    BY NodesAre
  <2>4. PICK j \in 1..Len(c.table[a]) : q = <<a, j>>
    BY <2>3
  <2>5. c.table[b][i].key = c.table[a][j].key
    BY <1>2, <2>2, <2>4 DEF KeyAt
  <2> QED
    BY <2>2, <2>4, <2>5, OnePlace
<1>3. f \in Injection(Nodes(c), KeysIn(c))
  BY <1>1, <1>2 DEF Surjection, Injection, IsInjective
<1>4. IsFiniteSet(KeysIn(c))
  BY ContentsTyped, FS_Subset
<1> HIDE DEF f
<1> QED
  BY <1>1, <1>3, <1>4, FS_Injection

(* Each table of the calls in progress is well formed.                       *)
LEMMA LevelsAre ==
  ASSUME IInv
  PROVE  \A c \in Levels : c \in Caches /\ WellFormed(c)
BY DEF IInv, TablesOK, Levels

(* In every table at every step a node is in the bucket its key hashes to,   *)
(* while tour_hash_add moves nodes to the new table as well.                 *)
THEOREM AlwaysPlaced == NoWrap => (Spec => []PlacedByHash)
<1> SUFFICES ASSUME NoWrap PROVE Spec => []PlacedByHash
  OBVIOUS
<1>1. IInv => PlacedByHash
  <2> SUFFICES ASSUME IInv, NEW c \in Levels, NEW p \in Nodes(c)
               PROVE  p[1] = Index(c, KeyAt(c, p))
    BY DEF PlacedByHash
  <2>1. c \in Caches /\ WellFormed(c)
    BY LevelsAre
  <2>2. PICK b \in DOMAIN c.table : \E i \in 1..Len(c.table[b]) : p = <<b, i>>
    BY <2>1, NodesAre DEF NoWrap
  <2>3. PICK i \in 1..Len(c.table[b]) : p = <<b, i>>
    BY <2>2
  <2> QED
    BY <2>1, <2>3 DEF WellFormed, Index, KeyAt
<1> QED
  BY <1>1, Invariance, PTL

(* The count of every table is the number of its nodes, and no key is in it  *)
(* twice, the tables being filled by tour_hash_add included.                 *)
THEOREM CountsExact == NoWrap => (Spec => []UsedExact)
<1> SUFFICES ASSUME NoWrap PROVE Spec => []UsedExact
  OBVIOUS
<1>1. IInv => UsedExact
  <2> SUFFICES ASSUME IInv, NEW c \in Levels
               PROVE  /\ c.used = Cardinality(Nodes(c))
                      /\ c.used = Cardinality({KeyAt(c, p) : p \in Nodes(c)})
    BY DEF UsedExact
  <2>1. c \in Caches /\ WellFormed(c)
    BY LevelsAre
  <2>2. c.used = Cardinality(KeysIn(c))
    BY <2>1 DEF WellFormed
  <2> QED
    BY <2>1, <2>2, NodesAre, NodesCounted DEF NoWrap
<1> QED
  BY <1>1, Invariance, PTL

(* Whenever no call is in progress there is room for a node more: a table    *)
(* that tour_hash_add leaves is never full, whatever was removed and added.  *)
THEOREM RoomLeft == NoWrap => (Spec => []LoadBounded)
<1> SUFFICES ASSUME NoWrap PROVE Spec => []LoadBounded
  OBVIOUS
<1>1. IInv => LoadBounded
  BY DEF IInv, RoomOK, LoadBounded, AtRest, Client
<1> QED
  BY <1>1, Invariance, PTL

-----------------------------------------------------------------------------
(* The map a table stands for is determined by its nodes.                    *)
LEMMA MapIs ==
  ASSUME NEW c \in Caches, WellFormed(c)
  PROVE  /\ MapOf(c) = [k \in KeysIn(c) |-> MapOf(c)[k]]
         /\ DOMAIN MapOf(c) = KeysIn(c)
         /\ \A e \in Contents(c) : MapOf(c)[e.key] = e.value
<1>1. {j \in Keys : IsKeyInHash(c, j)} = KeysIn(c)
  BY LookUp, ContentsTyped
<1>2. MapOf(c) = [k \in KeysIn(c) |-> ValueForKey(c, k)]
  BY <1>1 DEF MapOf
<1>3. \A e \in Contents(c) : e.key \in KeysIn(c) /\ ValueForKey(c, e.key) = e.value
  BY LookUp, ContentsTyped, InContents
<1> QED
  BY <1>2, <1>3

(* Tables with the same nodes are the same map.                              *)
LEMMA SameMap ==
  ASSUME NEW c \in Caches, WellFormed(c), NEW d \in Caches, WellFormed(d),
         Contents(c) = Contents(d)
  PROVE  MapOf(c) = MapOf(d)
<1>1. KeysIn(c) = KeysIn(d)
  BY DEF KeysIn
<1>2. \A k \in KeysIn(c) : MapOf(c)[k] = MapOf(d)[k]
  BY MapIs, InContents
<1> QED
  BY <1>1, <1>2, MapIs

(* The steps of the abstract map.                                            *)
LEMMA AddsToMap ==
  ASSUME NEW c \in Caches, WellFormed(c), NEW d \in Caches, WellFormed(d),
         NEW k \in Keys, NEW v \in Values, k \notin KeysIn(c),
         Contents(d) = Contents(c) \cup {[key |-> k, value |-> v]}
  PROVE  MapOf(d) = [j \in KeysIn(c) \cup {k} |-> IF j = k THEN v ELSE MapOf(c)[j]]
<1> PICK e : e = [key |-> k, value |-> v]
  OBVIOUS
<1>1. e.key = k /\ e.value = v /\ Contents(d) = Contents(c) \cup {e}
  OBVIOUS
<1>2. KeysIn(d) = KeysIn(c) \cup {k}
  BY <1>1 DEF KeysIn
<1>3. MapOf(d)[k] = v
  BY <1>1, MapIs
<1>4. ASSUME NEW j \in KeysIn(c) PROVE MapOf(d)[j] = MapOf(c)[j]
  BY <1>1, <1>4, MapIs, InContents
<1> QED
  BY <1>2, <1>3, <1>4, MapIs

(* A table without a key's node is the map without the key.                  *)
LEMMA RemovesFromMap ==
  ASSUME NEW c \in Caches, WellFormed(c), NEW d \in Caches, WellFormed(d), NEW k \in Keys,
         Contents(d) = {e \in Contents(c) : e.key # k}
  PROVE  MapOf(d) = [j \in KeysIn(c) \ {k} |-> MapOf(c)[j]]
<1>1. KeysIn(d) = KeysIn(c) \ {k}
  BY DEF KeysIn
<1>2. ASSUME NEW j \in KeysIn(d) PROVE MapOf(d)[j] = MapOf(c)[j]
  BY <1>2, MapIs, InContents
<1> QED
  BY <1>1, <1>2, MapIs

(* Every step is one of HashMap, or leaves the map as it is.                 *)
LEMMA MapStep ==
  ASSUME NoWrap, IInv, [Next]_caches
  PROVE  [Map!Next]_ClientMap
<1>1. /\ Len(caches) > 0 /\ caches[1] \in Caches /\ WellFormed(caches[1])
      /\ caches'[1] \in Caches /\ WellFormed(caches'[1])
  <2>1. IInv'
    BY StepInv
  <2> QED
    BY <2>1 DEF IInv, TablesOK
<1>2. ClientMap = MapOf(caches[1]) /\ ClientMap' = MapOf(caches'[1])
  BY DEF ClientMap, Client
<1>3. ASSUME NEW k \in Keys, NEW v \in Values, Add(k, v) PROVE Map!Next
  <2>1. k \notin KeysIn(caches[1])
    BY <1>3, AddStep
  <2>2. ClientMap' = [j \in KeysIn(caches[1]) \cup {k} |-> IF j = k THEN v ELSE ClientMap[j]]
    BY SMTT(30), <1>1, <1>2, <1>3, <2>1, AddStep, AddsToMap
  <2>3. Map!Add(k, v)
    BY <1>1, <1>2, <2>1, <2>2, MapIs DEF Map!Add, Map!Present
  <2> QED
    BY <2>3 DEF Map!Next
<1>4. CASE Move
  <2>1. Contents(caches'[1]) = Contents(caches[1])
    BY <1>4, MoveStep DEF Contents
  <2> QED
    BY <1>1, <1>2, <2>1, SameMap
<1>5. CASE Moved
  <2>1. Contents(caches'[1]) = Contents(caches[1])
    BY <1>5, MovedStep
  <2> QED
    BY <1>1, <1>2, <2>1, SameMap
<1>6. ASSUME NEW k \in Keys, Remove(k) PROVE Map!Next
  <2>1. k \in KeysIn(caches[1])
    BY <1>1, <1>6, LookUp DEF Remove, Client
  <2>2. ClientMap' = [j \in KeysIn(caches[1]) \ {k} |-> ClientMap[j]]
    <3>1. Contents(caches'[1]) = {e \in Contents(caches[1]) : e.key # k}
      BY <1>6, RemoveStep
    <3>2. MapOf(caches'[1]) = [j \in KeysIn(caches[1]) \ {k} |-> MapOf(caches[1])[j]]
      BY <1>1, <3>1, RemovesFromMap
    <3> QED
      BY <1>2, <3>2
  <2>3. Map!Remove(k)
    BY <1>1, <1>2, <2>1, <2>2, MapIs DEF Map!Remove, Map!Present
  <2> QED
    BY <2>3 DEF Map!Next
<1>7. CASE UNCHANGED caches
  BY <1>2, <1>7
<1> QED
  BY <1>3, <1>4, <1>5, <1>6, <1>7 DEF Next

(* To its client the table is a map at every step: the exchange of tables in *)
(* the middle of tour_hash_add, and expansions within it, are not seen.      *)
THEOREM RefinesMap == NoWrap => (Spec => ImplementsMap)
<1> SUFFICES ASSUME NoWrap PROVE Spec => ImplementsMap
  OBVIOUS
<1>1. Init => Map!Init
  <2> SUFFICES ASSUME Init PROVE Map!Init
    OBVIOUS
  <2>1. caches[1] = NewCache(InitialSize)
    BY DEF Init
  <2>2. caches[1] \in Caches /\ WellFormed(caches[1]) /\ Contents(caches[1]) = {}
    BY <2>1, SizeAssumption, NewIsEmpty DEF NoWrap
  <2>3. KeysIn(caches[1]) = {}
    BY <2>2 DEF KeysIn
  <2>4. ClientMap = [k \in {} |-> ClientMap[k]]
    BY <2>2, <2>3, MapIs DEF ClientMap, Client
  <2> QED
    BY <2>4 DEF Map!Init
<1>2. NoWrap /\ IInv /\ [Next]_caches => [Map!Next]_ClientMap
  BY MapStep
<1> QED
  BY <1>1, <1>2, Invariance, PTL DEF Spec, Map!Spec, ImplementsMap
=============================================================================
