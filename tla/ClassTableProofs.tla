-------------------------- MODULE ClassTableProofs --------------------------
(* What holds of the class registry for any classes, hierarchy, buckets and  *)
(* threads.  The inductive invariant has a part for each use of the table:   *)
(* the mutex, the chains, an add, a lookup, an enumeration and a pose.       *)
EXTENDS ClassTable, FiniteSetTheorems, SequenceTheorems, TLAPS

(* What a thread is at, by what it has to do with the tables.                *)
Adding == {"ad_inner", "ad_next", "ad_head"}
Replacing == {"ps_lock", "rp_lock", "rp_node"}
Inside == {"ad_find", "ad_leave", "en_next", "en_unlock", "rp_lock", "rp_node", "rp_unlock"}
          \cup Adding
ForClass == {"ad_lock", "ad_find", "ad_leave", "ad_unlock", "lk_head", "lk_node", "lk_return",
             "ps_links", "ps_lock", "rp_lock", "rp_node", "rp_unlock", "ps_unlock"} \cup Adding
Labels == ForClass \cup {"program", "en_lock", "en_next", "en_unlock"}

Node == [name : Registrable, pointer : Registrable]
TypeOK ==
    /\ bucketOf \in [Registrable -> Hashes]
    /\ nodes \in Seq(Node)
    /\ table \in [Hashes -> Seq(DOMAIN nodes)]
    /\ super \in [Linked -> Linked \cup {Nil}]
    /\ subs \in [Linked -> SUBSET Linked]
    /\ holder \in Threads \cup {NoThread} /\ depth \in Nat
    /\ pc \in [Threads -> Labels]
    /\ class \in [Threads -> Registrable \cup {Nil}]
    /\ node \in [Threads -> Seq(DOMAIN nodes)]
    /\ answer \in [Threads -> Registrable \cup {Nil}]
    /\ enum \in [Threads -> [hash : Hashes, node : Seq(DOMAIN nodes)]]
    /\ due \in [Threads -> SUBSET (DOMAIN nodes)]
    /\ visited \in [Threads -> Seq(DOMAIN nodes)]
    /\ calls \in Nat
    /\ \A t \in Threads : pc[t] \in ForClass => class[t] \in Registrable

(* Who is inside holds the mutex.                                            *)
LockInv == \A t \in Threads : pc[t] \in Inside => holder = t

(* A chain has the nodes of names that belong in it, one for each.           *)
ChainsInv ==
    \A h \in Hashes : \A i \in DOMAIN table[h] :
        /\ bucketOf[nodes[table[h][i]].name] = h
        /\ \A j \in DOMAIN table[h] : nodes[table[h][i]].name = nodes[table[h][j]].name => i = j

(* A class being added has no node in the table, and then a new one that is  *)
(* to go before its chain.                                                   *)
Chain(t) == table[bucketOf[class[t]]]
AddInv ==
    \A t \in Threads :
        /\ pc[t] \in Adding => Named(class[t], Chain(t)) = {}
        /\ pc[t] = "ad_head" =>
              \E n \in DOMAIN nodes : /\ node[t] = <<n>> \o Chain(t)
                                      /\ nodes[n] = [name |-> class[t], pointer |-> class[t]]

(* A sequence read from its end; s is the end of c.                          *)
Place(s, k) == s[Len(s) + 1 - k]
EndOf(s, c) == Len(s) <= Len(c) /\ \A k \in 1..Len(s) : Place(s, k) = Place(c, k)

(* A lookup is in the chain of its name, and has no answer until it returns. *)
LookInv ==
    \A t \in Threads :
        /\ pc[t] = "lk_node" => EndOf(node[t], Chain(t))
        /\ pc[t] # "lk_return" => answer[t] = Nil

(* What an enumeration has yet to come to.                                   *)
Later(h) == UNION {ToSet(table[g]) : g \in (h + 1)..(Buckets - 1)}
Ahead(e) == ToSet(Tail(e.node)) \cup Later(e.hash)
Enumerating(e, d, v) ==
    /\ e.node # NoNode /\ EndOf(e.node, table[e.hash])
    /\ ToSet(v) \cap Ahead(e) = {}
    /\ d \subseteq ToSet(v) \cup Ahead(e)
EnumInv ==
    \A t \in Threads :
        /\ IsInjective(visited[t]) /\ ToSet(visited[t]) \subseteq InTable
        /\ enum[t] # NoEnumerator => Enumerating(enum[t], due[t], visited[t])
        /\ enum[t] = NoEnumerator =>
              IF pc[t] = "en_unlock" THEN due[t] \subseteq ToSet(visited[t])
              ELSE visited[t] = <<>> /\ due[t] = {}

(* Lists and superclasses agree at all times.                                *)
LinksInv ==
    /\ \A x \in Linked : subs[x] = {y \in Linked : super[y] = x}
    /\ \A c \in Classes :
          /\ super[c] \in Classes \cup {Nil} /\ super[c] # c
          /\ super[c] # Nil => super[Meta(c)] = Meta(super[c])
          /\ super[c] = Nil => super[Meta(c)] \in Classes
    /\ \A c \in Registrable : super[c] # Nil

(* A class that another poses for has the impostor as its only subclass, and *)
(* no name leads to it but while the nodes are replaced.                     *)
PosedFor(c) == registry[c] \notin {c, Nil}
PoseInv ==
    /\ \A t, u \in Threads : Posing(t) /\ Posing(u) => t = u
    /\ \A t \in Threads :
          /\ pc[t] = "ps_links" =>
                \A c \in {class[t], super[class[t]]} \cap Registrable : ~PosedFor(c)
          /\ pc[t] \in Replacing => ~PosedFor(class[t]) /\ subs[super[class[t]]] = {class[t]}
    /\ \A c \in Registrable : PosedFor(c) =>
          /\ \E impostor \in Linked : subs[c] = {impostor}
          /\ \A d \in Registrable : registry[d] = c =>
                \E t \in Threads : pc[t] \in Replacing /\ super[class[t]] = c

IInv == TypeOK /\ LockInv /\ ChainsInv /\ AddInv /\ LookInv /\ EnumInv /\ LinksInv /\ PoseInv

-----------------------------------------------------------------------------
(* A set of natural numbers has a least element: of the sets 0..x one        *)
(* contains no other.  It stands in for induction, which the library states  *)
(* for an operator.                                                          *)
LEMMA LeastElement ==
  ASSUME NEW T \in SUBSET Nat, T # {}
  PROVE  \E x \in T : \A y \in T : x <= y
<1> DEFINE Down == {0..x : x \in T}
<1>1. Down \subseteq FiniteSubsetsOf(Nat) /\ Down # {}
  <2>1. ASSUME NEW x \in T PROVE IsFiniteSet(0..x) /\ 0..x \subseteq Nat
    BY FS_Interval
  <2> QED
    BY <2>1 DEF FiniteSubsetsOf
<1>2. \E D \in Down : \A E \in Down : ~(<<E, D>> \in StrictSubsetOrdering(Nat))
  BY <1>1, FS_StrictSubsetOrderingWellFounded, WFMin
<1>3. PICK x \in T : \A y \in T : ~(<<0..y, 0..x>> \in StrictSubsetOrdering(Nat))
  BY <1>2
<1>4. ASSUME NEW y \in T, y < x PROVE FALSE
  <2>1. 0..y \subseteq 0..x /\ 0..y # 0..x
    BY <1>4
  <2>2. <<0..y, 0..x>> \in StrictSubsetOrdering(Nat)
    BY <2>1 DEF StrictSubsetOrdering
  <2> QED
    BY <1>3, <2>2
<1> QED
  BY <1>4

-----------------------------------------------------------------------------
Step(t) == Program(t) \/ Add(t) \/ Lookup(t) \/ Enumerate(t) \/ Pose(t)

(* The steps of a thread that touch neither a node nor a chain of the table. *)
CallStep(t) ==
    \/ \E c \in Registrable :
           Call(t, "ad_lock", c) \/ Call(t, "lk_head", c) \/ (MayPose(c) /\ Call(t, "ps_links", c))
    \/ enum[t] = NoEnumerator /\ Call(t, "en_lock", Nil)
    \/ NextCall(t)
LockStep(t) ==
    \/ LockAt(t, "ad_lock", "ad_find") \/ LockAt(t, "ad_inner", "ad_next")
    \/ LockAt(t, "en_lock", "en_next")
    \/ LockAt(t, "ps_lock", "rp_lock") \/ LockAt(t, "rp_lock", "rp_node")
UnlockStep(t) ==
    \/ UnlockAt(t, "ad_leave", "ad_unlock") \/ UnlockAndReturn(t, "ad_unlock")
    \/ UnlockAt(t, "rp_unlock", "ps_unlock") \/ UnlockAndReturn(t, "ps_unlock")

(* Every step is one of these.                                               *)
LEMMA StepCases ==
  ASSUME NEW t \in Threads, Step(t)
  PROVE  \/ CallStep(t) \/ LockStep(t) \/ UnlockStep(t) \/ AddFind(t)
         \/ InsertNext(t) \/ InsertHead(t) \/ Lookup(t) \/ NextClass(t) \/ NextReturn(t)
         \/ PoseLinks(t) \/ ReplaceNode(t)
  BY DEF Step, Program, Add, Enumerate, Pose, AddStart, CallStep, LockStep, UnlockStep

(* What no step of t changes.                                                *)
Alone(t) ==
    /\ bucketOf' = bucketOf
    /\ \A u \in Threads \ {t} :
          /\ pc'[u] = pc[u] /\ class'[u] = class[u]
          /\ node'[u] = node[u] /\ answer'[u] = answer[u]
          /\ enum'[u] = enum[u] /\ due'[u] = due[u] /\ visited'[u] = visited[u]

(* A thread moves its own place only, and only its own variables.            *)
LEMMA OthersAlone ==
  ASSUME TypeOK, NEW t \in Threads, Step(t)
  PROVE  Alone(t)
<1> USE DEF TypeOK, Alone, chains, links, lock, locals, enumeration, Goto
<1>1. CASE CallStep(t)
  BY <1>1 DEF CallStep, Call, NextCall
<1>2. CASE LockStep(t)
  BY <1>2 DEF LockStep, LockAt
<1>3. CASE UnlockStep(t)
  BY <1>3 DEF UnlockStep, UnlockAt, UnlockAndReturn, ForgetLocals
<1>4. CASE AddFind(t) \/ InsertNext(t) \/ InsertHead(t)
  BY <1>4 DEF AddFind, InsertNext, InsertHead
<1>5. CASE Lookup(t)
  BY <1>5 DEF Lookup, LookupHead, LookupNode, LookupEnd, LookupReturn, ForgetLocals
<1>6. CASE NextClass(t)
  BY <1>6 DEF NextClass
<1>7. CASE NextReturn(t)
  BY <1>7 DEF NextReturn
<1>8. CASE PoseLinks(t) \/ ReplaceNode(t)
  BY <1>8 DEF PoseLinks, ReplaceNode
<1> QED
  BY <1>1, <1>2, <1>3, <1>4, <1>5, <1>6, <1>7, <1>8, StepCases

(* Names stay with their nodes, and classes too but where a pose replaces    *)
(* them; and only the insertion of a node changes the table.                 *)
NamesKept ==
    \A n \in DOMAIN nodes : n \in DOMAIN nodes' /\ nodes'[n].name = nodes[n].name

(* Which steps do what to the tables.                                        *)
LEMMA TablesMove ==
  ASSUME TypeOK, NEW t \in Threads, Step(t)
  PROVE  /\ NamesKept
         /\ InsertHead(t) \/ table' = table
         /\ ReplaceNode(t) \/ \A n \in DOMAIN nodes : nodes'[n] = nodes[n]
<1> USE DEF chains, NamesKept
<1>1. CASE CallStep(t) \/ LockStep(t) \/ UnlockStep(t)
  BY <1>1 DEF CallStep, Call, NextCall, LockStep, LockAt, UnlockStep, UnlockAt, UnlockAndReturn
<1>2. CASE AddFind(t) \/ InsertHead(t)
  BY <1>2 DEF AddFind, InsertHead
<1>3. CASE InsertNext(t)
  <2>1. nodes \in Seq(Node) /\ table' = table
    BY <1>3 DEF TypeOK, InsertNext
  <2>2. class[t] \in Registrable
    BY <1>3 DEF TypeOK, InsertNext, At, ForClass, Adding
  <2>3. [name |-> class[t], pointer |-> class[t]] \in Node
    BY <2>2 DEF Node
  <2>4. \A n \in DOMAIN nodes : n \in DOMAIN nodes' /\ nodes'[n] = nodes[n]
    BY <1>3, <2>1, <2>3, AppendProperties DEF InsertNext
  <2> QED
    BY <2>1, <2>4
<1>4. CASE Lookup(t)
  BY <1>4 DEF Lookup, LookupHead, LookupNode, LookupEnd, LookupReturn
<1>5. CASE NextClass(t) \/ NextReturn(t) \/ PoseLinks(t)
  BY <1>5 DEF NextClass, NextReturn, PoseLinks
<1>6. CASE ReplaceNode(t)
  <2>1. table' = table
    BY <1>6 DEF ReplaceNode
  <2>2. nodes' = nodes \/ \E n : nodes' = [nodes EXCEPT ![n].pointer = class[t]]
    BY <1>6 DEF ReplaceNode
  <2>3. nodes \in Seq(Node)
    BY DEF TypeOK
  <2>4. ASSUME NEW n, nodes' = [nodes EXCEPT ![n].pointer = class[t]] PROVE NamesKept
    <3>1. DOMAIN nodes' = DOMAIN nodes
      BY <2>4
    <3>2. ASSUME NEW m \in DOMAIN nodes PROVE nodes'[m].name = nodes[m].name
      <4>1. nodes'[m] = IF m = n THEN [nodes[m] EXCEPT !.pointer = class[t]] ELSE nodes[m]
        BY <2>4
      <4>2. nodes[m] \in Node
        BY <2>3
      <4> QED
        BY <4>1, <4>2 DEF Node
    <3> QED
      BY <3>1, <3>2
  <2> QED
    BY <1>6, <2>1, <2>2, <2>4
<1> QED
  BY <1>1, <1>2, <1>3, <1>4, <1>5, <1>6, StepCases

-----------------------------------------------------------------------------
(* The mutex is taken free or again, and given up by its holder.             *)
LEMMA HolderMoves ==
  ASSUME TypeOK, NEW t \in Threads, Step(t)
  PROVE  /\ LockStep(t) => holder \in {NoThread, t} /\ holder' = t
         /\ UnlockStep(t) \/ NextReturn(t) =>
               holder' = holder \/ (holder = t /\ holder' = NoThread)
         /\ ~LockStep(t) /\ ~UnlockStep(t) /\ ~NextReturn(t) => holder' = holder
<1>1. LockStep(t) => holder \in {NoThread, t} /\ holder' = t
  BY DEF LockStep, LockAt, TableLock!Acquire, TableLock!Reenter
<1>2. Unlock(t) => holder' = holder \/ (holder = t /\ holder' = NoThread)
  BY DEF Unlock, TableLock!UnlockInner, TableLock!UnlockOuter, lock
<1>3. UnlockStep(t) \/ NextReturn(t) => Unlock(t)
  BY DEF UnlockStep, UnlockAt, UnlockAndReturn, NextReturn
<1>4. ASSUME ~LockStep(t), ~UnlockStep(t), ~NextReturn(t) PROVE holder' = holder
  BY <1>4, StepCases
  DEF CallStep, Call, NextCall, AddFind, InsertNext, InsertHead, Lookup, LookupHead, LookupNode,
      LookupEnd, LookupReturn, NextClass, PoseLinks, ReplaceNode, lock
<1> QED
  BY <1>1, <1>2, <1>3, <1>4

(* Who comes inside has just taken the mutex, or had it already.             *)
LEMMA LockInvStep ==
  ASSUME TypeOK, LockInv, NEW t \in Threads, Step(t)
  PROVE  LockInv'
<1>1. Alone(t)
  BY OthersAlone
<1>2. ASSUME LockStep(t) PROVE LockInv'
  BY <1>1, <1>2, HolderMoves, ThreadsAssumption DEF LockInv, Alone
<1>3. ASSUME UnlockStep(t) \/ NextReturn(t) PROVE LockInv'
  <2>1. pc'[t] \notin Inside
    BY <1>3 DEF TypeOK, UnlockStep, UnlockAt, UnlockAndReturn, NextReturn, Goto, Inside, Adding
  <2> QED
    BY <1>1, <1>3, <2>1, HolderMoves DEF LockInv, Alone
<1>4. ASSUME ~LockStep(t), ~UnlockStep(t), ~NextReturn(t) PROVE LockInv'
  <2>1. pc'[t] \in Inside => pc[t] \in Inside
    <3> USE DEF TypeOK, At, Goto, Inside, Adding
    <3>1. CASE CallStep(t)
      BY <3>1 DEF CallStep, Call, NextCall
    <3>2. CASE AddFind(t) \/ InsertNext(t) \/ InsertHead(t)
      BY <3>2 DEF AddFind, InsertNext, InsertHead
    <3>3. CASE Lookup(t)
      BY <3>3 DEF Lookup, LookupHead, LookupNode, LookupEnd, LookupReturn
    <3>4. CASE NextClass(t) \/ PoseLinks(t) \/ ReplaceNode(t)
      BY <3>4 DEF NextClass, PoseLinks, ReplaceNode
    <3> QED
      BY <1>4, <3>1, <3>2, <3>3, <3>4, StepCases
  <2> QED
    BY <1>1, <1>4, <2>1, HolderMoves DEF LockInv, Alone
<1> QED
  BY <1>2, <1>3, <1>4

-----------------------------------------------------------------------------
(* A chain with a node put before it.                                        *)
LEMMA Pushed ==
  ASSUME NEW S, NEW s \in Seq(S), NEW n \in S, NEW r, r = <<n>> \o s
  PROVE  /\ r \in Seq(S) /\ Len(r) = Len(s) + 1 /\ DOMAIN r = 1..(Len(s) + 1)
         /\ r # <<>> /\ r[1] = n /\ \A i \in 1..Len(s) : r[i + 1] = s[i]
         /\ \A i \in 2..Len(r) : i - 1 \in 1..Len(s) /\ r[i] = s[i - 1]
<1>1. <<n>> \in Seq(S) /\ Len(<<n>>) = 1 /\ <<n>>[1] = n
  OBVIOUS
<1>2. r \in Seq(S) /\ Len(r) = Len(s) + 1
  BY <1>1, ConcatProperties
<1>3. r[1] = n /\ \A i \in 2..(Len(s) + 1) : r[i] = s[i - 1]
  BY <1>1, ConcatProperties
<1>4. Len(s) \in Nat /\ DOMAIN r = 1..(Len(s) + 1)
  BY <1>2
<1> QED
  BY <1>2, <1>3, <1>4

(* What was the chain is its end.                                            *)
LEMMA EndOfPushed ==
  ASSUME NEW S, NEW s \in Seq(S), NEW n \in S
  PROVE  /\ Len(<<n>> \o s) = Len(s) + 1
         /\ \A k \in 1..Len(s) : Place(<<n>> \o s, k) = Place(s, k)
<1> DEFINE r == <<n>> \o s
<1>1. r = <<n>> \o s
  OBVIOUS
<1> HIDE DEF r
<1>2. Len(r) = Len(s) + 1 /\ Len(s) \in Nat
      /\ \A i \in 2..Len(r) : i - 1 \in 1..Len(s) /\ r[i] = s[i - 1]
  BY <1>1, Pushed
<1>3. \A k \in 1..Len(s) : /\ Len(s) + 2 - k \in 2..(Len(s) + 1)
                           /\ Len(s) + 2 - k - 1 = Len(s) + 1 - k
                           /\ Len(s) + 1 + 1 - k = Len(s) + 2 - k
  BY <1>2
<1>4. \A k \in 1..Len(s) : Place(r, k) = Place(s, k)
  BY <1>2, <1>3 DEF Place
<1> QED
  BY <1>1, <1>2, <1>4

(* What a chain holds.                                                       *)
LEMMA ChainNodes ==
  ASSUME TypeOK, NEW h \in Hashes
  PROVE  /\ table[h] \in Seq(DOMAIN nodes) /\ Len(table[h]) \in Nat
         /\ DOMAIN table[h] = 1..Len(table[h])
         /\ \A i \in DOMAIN table[h] :
               table[h][i] \in DOMAIN nodes /\ nodes[table[h][i]] \in Node
<1>1. table[h] \in Seq(DOMAIN nodes) /\ nodes \in Seq(Node)
  BY DEF TypeOK
<1>2. \A i \in DOMAIN table[h] : table[h][i] \in DOMAIN nodes
  BY <1>1
<1>3. \A n \in DOMAIN nodes : nodes[n] \in Node
  BY <1>1
<1> QED
  BY <1>1, <1>2, <1>3

(* The insertion of a node: before the chain of its name, which has none.    *)
Inserts(t, n) ==
    /\ class[t] \in Registrable /\ bucketOf[class[t]] \in Hashes
    /\ n \in DOMAIN nodes /\ n \notin InTable
    /\ nodes' = nodes /\ nodes[n] = [name |-> class[t], pointer |-> class[t]]
    /\ node[t] = <<n>> \o Chain(t)
    /\ table' = [table EXCEPT ![bucketOf[class[t]]] = <<n>> \o Chain(t)]
    /\ Named(class[t], Chain(t)) = {}

(* The insertion is that.                                                    *)
LEMMA InsertIs ==
  ASSUME TypeOK, ChainsInv, AddInv, NEW t \in Threads, InsertHead(t)
  PROVE  \E n : Inserts(t, n)
<1>1. At(t, "ad_head") /\ pc[t] \in Adding
  BY DEF InsertHead, At, Adding
<1>2. class[t] \in Registrable /\ bucketOf[class[t]] \in Hashes
  BY <1>1 DEF TypeOK, ForClass
<1>3. Named(class[t], Chain(t)) = {}
  BY <1>1 DEF AddInv
<1>4. PICK n \in DOMAIN nodes : /\ node[t] = <<n>> \o Chain(t)
                                /\ nodes[n] = [name |-> class[t], pointer |-> class[t]]
  BY <1>1 DEF AddInv, At
<1>5. n \notin InTable
  <2>1. SUFFICES ASSUME NEW h \in Hashes, NEW i \in DOMAIN table[h], table[h][i] = n PROVE FALSE
    BY DEF InTable, ToSet
  <2>2. nodes[n].name = class[t]
    BY <1>4
  <2>3. h = bucketOf[class[t]]
    BY <2>1, <2>2 DEF ChainsInv
  <2> QED
    BY <1>3, <2>1, <2>2, <2>3 DEF Named, Chain
<1>6. nodes' = nodes /\ table' = [table EXCEPT ![bucketOf[class[t]]] = node[t]]
  BY DEF InsertHead
<1> QED
  BY <1>2, <1>3, <1>4, <1>5, <1>6 DEF Inserts

(* A name in a chain: one node is put before those of other names, or the    *)
(* chain stays as it was.                                                    *)
LEMMA ChainsInvStep ==
  ASSUME TypeOK, ChainsInv, AddInv, NEW t \in Threads, Step(t)
  PROVE  ChainsInv'
<1>1. NamesKept /\ bucketOf' = bucketOf
  BY TablesMove, OthersAlone DEF Alone
<1>2. CASE table' = table
  <2>1. SUFFICES ASSUME NEW h \in Hashes, NEW i \in DOMAIN table[h]
                 PROVE  /\ bucketOf[nodes'[table[h][i]].name] = h
                        /\ \A j \in DOMAIN table[h] :
                              nodes'[table[h][i]].name = nodes'[table[h][j]].name => i = j
    BY <1>1, <1>2 DEF ChainsInv
  <2>2. \A j \in DOMAIN table[h] : nodes'[table[h][j]].name = nodes[table[h][j]].name
    BY <1>1, ChainNodes DEF NamesKept
  <2> QED
    BY <2>2 DEF ChainsInv
<1>3. CASE InsertHead(t)
  <2>1. PICK n : Inserts(t, n)
    BY <1>3, InsertIs
  <2> DEFINE b == bucketOf[class[t]]
             r == <<n>> \o table[b]
  <2>2. b \in Hashes /\ n \in DOMAIN nodes /\ nodes' = nodes /\ nodes[n].name = class[t]
    BY <2>1 DEF Inserts
  <2>3. table'[b] = r /\ \A h \in Hashes : h # b => table'[h] = table[h]
    BY <2>1, <2>2 DEF Inserts, Chain, TypeOK
  <2>4. /\ DOMAIN r = 1..(Len(table[b]) + 1) /\ r[1] = n
        /\ \A i \in 2..Len(r) : i - 1 \in 1..Len(table[b]) /\ r[i] = table[b][i - 1]
        /\ Len(r) = Len(table[b]) + 1 /\ Len(table[b]) \in Nat
        /\ DOMAIN table[b] = 1..Len(table[b])
    BY <2>2, ChainNodes, Pushed
  <2>5. \A i \in DOMAIN table[b] : nodes[table[b][i]].name # class[t]
    BY <2>1 DEF Inserts, Named, Chain
  <2> HIDE DEF r
  <2>6. ASSUME NEW i \in DOMAIN r
        PROVE  /\ bucketOf[nodes[r[i]].name] = b
               /\ \A j \in DOMAIN r : nodes[r[i]].name = nodes[r[j]].name => i = j
    <3>1. i = 1 \/ (i \in 2..Len(r) /\ i - 1 \in DOMAIN table[b] /\ r[i] = table[b][i - 1])
      BY <2>4
    <3>2. bucketOf[nodes[r[i]].name] = b
      <4>1. bucketOf[nodes[n].name] = b /\ r[1] = n
        BY <2>2, <2>4
      <4>2. \A j \in DOMAIN table[b] : bucketOf[nodes[table[b][j]].name] = b
        BY <2>2 DEF ChainsInv
      <4> QED
        BY <3>1, <4>1, <4>2
    <3>3. ASSUME NEW j \in DOMAIN r, nodes[r[i]].name = nodes[r[j]].name PROVE i = j
      <4>1. j = 1 \/ (j \in 2..Len(r) /\ j - 1 \in DOMAIN table[b] /\ r[j] = table[b][j - 1])
        BY <2>4
      <4>2. CASE i = 1 \/ j = 1
        BY <2>2, <2>4, <2>5, <3>1, <3>3, <4>1, <4>2
      <4>3. CASE i # 1 /\ j # 1
        <5>1. i - 1 = j - 1
          BY <2>2, <3>1, <3>3, <4>1, <4>3 DEF ChainsInv
        <5> QED
          BY <2>4, <5>1
      <4> QED
        BY <4>2, <4>3
    <3> QED
      BY <3>2, <3>3
  <2> HIDE DEF b
  <2>7. ASSUME NEW h \in Hashes, NEW i \in DOMAIN table'[h]
        PROVE  /\ bucketOf[nodes[table'[h][i]].name] = h
               /\ \A j \in DOMAIN table'[h] :
                     nodes[table'[h][i]].name = nodes[table'[h][j]].name => i = j
    BY <2>2, <2>3, <2>6, <2>7 DEF ChainsInv
  <2> QED
    BY <1>1, <2>2, <2>7 DEF ChainsInv
<1> QED
  BY <1>2, <1>3, TablesMove

-----------------------------------------------------------------------------
(* A name keeps its places in a chain that stays as it was.                  *)
LEMMA PlacesKept ==
  ASSUME TypeOK, NamesKept, NEW c, NEW chain \in Seq(DOMAIN nodes)
  PROVE  {i \in DOMAIN chain : nodes'[chain[i]].name = c} = Named(c, chain)
<1>1. \A i \in DOMAIN chain : chain[i] \in DOMAIN nodes
  OBVIOUS
<1> QED
  BY <1>1 DEF NamesKept, Named

(* The node of a name is the only one, and so the first.                     *)
LEMMA OneNamed ==
  ASSUME TypeOK, ChainsInv, NEW c \in Registrable, NEW i \in Named(c, table[bucketOf[c]])
  PROVE  Named(c, table[bucketOf[c]]) = {i} /\ i \in DOMAIN table[bucketOf[c]] /\ i \in Nat
<1>1. bucketOf[c] \in Hashes
  BY DEF TypeOK
<1>2. \A j \in Named(c, table[bucketOf[c]]) : i = j
  BY <1>1 DEF ChainsInv, Named
<1> QED
  BY <1>1, <1>2, ChainNodes DEF Named

(* The least of a single number.                                             *)
LEMMA LeastOfOne ==
  ASSUME NEW i \in Nat
  PROVE  Min({i}) = i
  BY DEF Min

(* The class under a name is that of the one node in its chain.              *)
LEMMA RegistryIs ==
  ASSUME TypeOK, ChainsInv, NEW c \in Registrable
  PROVE  LET chain == table[bucketOf[c]]
         IN  /\ registry \in [Registrable -> Registrable \cup {Nil}] /\ Nil \notin Registrable
             /\ registry[c] = Nil <=> Named(c, chain) = {}
             /\ \A i \in Named(c, chain) : registry[c] = nodes[chain[i]].pointer
<1> DEFINE chain(d) == table[bucketOf[d]]
<1>1. Nil \notin Registrable
  BY LinkedAssumption DEF Registrable, Linked
<1>2. \A d \in Registrable : registry[d] = Pointer(d, chain(d))
  BY DEF registry
<1>3. ASSUME NEW d \in Registrable, NEW i \in Named(d, chain(d))
      PROVE  registry[d] = nodes[chain(d)[i]].pointer /\ registry[d] \in Registrable
  <2>1. bucketOf[d] \in Hashes
    BY DEF TypeOK
  <2>2. Named(d, chain(d)) = {i} /\ i \in Nat
    BY <1>3, OneNamed
  <2>3. Min(Named(d, chain(d))) = i
    BY <2>2, LeastOfOne
  <2>4. nodes[chain(d)[i]].pointer \in Registrable
    BY <1>3, <2>1, ChainNodes DEF Named, Node
  <2> QED
    BY <1>2, <2>2, <2>3, <2>4 DEF Pointer
<1>4. \A d \in Registrable : Named(d, chain(d)) = {} => registry[d] = Nil
  BY <1>2 DEF Pointer
<1>5. registry \in [Registrable -> Registrable \cup {Nil}]
  <2>1. \A d \in Registrable : registry[d] \in Registrable \cup {Nil}
    BY <1>3, <1>4
  <2> QED
    BY <2>1 DEF registry
<1> QED
  BY <1>1, <1>3, <1>4, <1>5

(* While a class is added nobody else can add another: the chain of its name *)
(* stays without it.                                                         *)
LEMMA AddInvStep ==
  ASSUME TypeOK, LockInv, ChainsInv, AddInv, NEW t \in Threads, Step(t)
  PROVE  AddInv'
<1>1. NamesKept /\ Alone(t)
  BY TablesMove, OthersAlone
<1>2. ASSUME NEW u \in Threads, pc[u] \in Adding, pc'[u] \in Adding,
             class'[u] = class[u], table' = table
      PROVE  Named(class[u], Chain(u))' = {} /\ Chain(u)' = Chain(u)
  <2>1. bucketOf[class[u]] \in Hashes /\ Chain(u) \in Seq(DOMAIN nodes)
    BY <1>2, ChainNodes DEF TypeOK, ForClass, Chain
  <2>2. Chain(u)' = Chain(u)
    BY <1>1, <1>2 DEF Chain, Alone
  <2> QED
    BY <1>1, <1>2, <2>1, <2>2, PlacesKept DEF Named, AddInv
<1>3. ASSUME NEW u \in Threads \ {t}, pc'[u] \in Adding
      PROVE  /\ Named(class[u], Chain(u))' = {}
             /\ pc'[u] = "ad_head" =>
                   \E n \in DOMAIN nodes' :
                      /\ node'[u] = <<n>> \o Chain(u)'
                      /\ nodes'[n] = [name |-> class'[u], pointer |-> class'[u]]
  <2>1. pc[u] = pc'[u] /\ class'[u] = class[u] /\ node'[u] = node[u]
    BY <1>1 DEF Alone
  <2>2. pc[t] \notin Inside
    BY <1>3, <2>1, ThreadsAssumption DEF LockInv, Inside
  <2>3. table' = table /\ \A n \in DOMAIN nodes : nodes'[n] = nodes[n]
    <3>1. ~InsertHead(t)
      BY <2>2 DEF InsertHead, At, Inside, Adding
    <3>2. ~ReplaceNode(t)
      BY <2>2 DEF ReplaceNode, At, Inside
    <3> QED
      BY <3>1, <3>2, TablesMove
  <2>4. Named(class[u], Chain(u))' = {} /\ Chain(u)' = Chain(u)
    BY <1>2, <1>3, <2>1, <2>3
  <2> QED
    <3>1. SUFFICES ASSUME pc[u] = "ad_head"
                   PROVE  \E n \in DOMAIN nodes' :
                             /\ node'[u] = <<n>> \o Chain(u)'
                             /\ nodes'[n] = [name |-> class'[u], pointer |-> class'[u]]
      BY <2>1, <2>4
    <3>2. PICK n \in DOMAIN nodes : /\ node[u] = <<n>> \o Chain(u)
                                    /\ nodes[n] = [name |-> class[u], pointer |-> class[u]]
      BY <3>1 DEF AddInv
    <3>3. n \in DOMAIN nodes'
      BY <1>1 DEF NamesKept
    <3> QED
      BY <2>1, <2>3, <2>4, <3>2, <3>3
<1>4. ASSUME pc'[t] \in Adding
      PROVE  /\ Named(class[t], Chain(t))' = {}
             /\ pc'[t] = "ad_head" =>
                   \E n \in DOMAIN nodes' :
                      /\ node'[t] = <<n>> \o Chain(t)'
                      /\ nodes'[n] = [name |-> class'[t], pointer |-> class'[t]]
  <2>1. AddFind(t) \/ LockAt(t, "ad_inner", "ad_next") \/ InsertNext(t)
    BY <1>4, StepCases
    DEF TypeOK, CallStep, Call, NextCall, LockStep, LockAt, UnlockStep, UnlockAt, UnlockAndReturn,
        InsertHead, Lookup, LookupHead, LookupNode, LookupEnd, LookupReturn, NextClass, NextReturn,
        PoseLinks, ReplaceNode, At, Goto, Adding
  <2>2. CASE AddFind(t)
    <3>1. /\ pc[t] = "ad_find" /\ registry[class[t]] = Nil /\ pc'[t] = "ad_inner"
          /\ UNCHANGED <<nodes, table, bucketOf, class>>
      BY <1>4, <2>2 DEF AddFind, At, Goto, TypeOK, chains, locals, Adding
    <3>2. class[t] \in Registrable
      BY <3>1 DEF TypeOK, ForClass
    <3>3. Named(class[t], Chain(t)) = {}
      BY <3>1, <3>2, RegistryIs DEF Chain
    <3> QED
      BY <3>1, <3>3 DEF Named, Chain
  <2>3. CASE LockAt(t, "ad_inner", "ad_next")
    <3>1. /\ pc[t] = "ad_inner" /\ pc'[t] = "ad_next"
          /\ UNCHANGED <<nodes, table, bucketOf, class>>
      BY <2>3 DEF LockAt, At, Goto, TypeOK, chains, locals
    <3> QED
      BY <1>2, <1>4, <3>1 DEF Adding
  <2>4. CASE InsertNext(t)
    <3> DEFINE new == [name |-> class[t], pointer |-> class[t]]
               n == Len(nodes')
    <3>1. /\ pc[t] = "ad_next" /\ pc'[t] = "ad_head" /\ nodes' = Append(nodes, new)
          /\ UNCHANGED <<table, bucketOf, class>> /\ node'[t] = <<n>> \o Chain(t)
      BY <2>4 DEF InsertNext, At, Goto, TypeOK, Chain
    <3>2. class[t] \in Registrable /\ nodes \in Seq(Node)
      BY <3>1 DEF TypeOK, ForClass, Adding
    <3>3. new \in Node
      BY <3>2 DEF Node
    <3>4. n \in DOMAIN nodes' /\ nodes'[n] = new
      <4> HIDE DEF new
      <4>1. nodes' \in Seq(Node) /\ Len(nodes') = Len(nodes) + 1 /\ nodes'[Len(nodes) + 1] = new
        BY <3>1, <3>2, <3>3, AppendProperties
      <4> QED
        BY <3>2, <4>1
    <3>5. Named(class[t], Chain(t))' = {} /\ Chain(t)' = Chain(t)
      BY <1>2, <1>4, <3>1 DEF Adding
    <3> HIDE DEF n
    <3> QED
      BY <3>1, <3>4, <3>5
  <2> QED
    BY <2>1, <2>2, <2>3, <2>4
<1>5. \A u \in Threads : pc'[u] = "ad_head" => pc'[u] \in Adding
  BY DEF Adding
<1> QED
  BY <1>3, <1>4, <1>5 DEF AddInv

-----------------------------------------------------------------------------
(* The tail of an end is one, and holds what it holds but for the head.      *)
LEMMA TailOfEnd ==
  ASSUME NEW S, NEW s \in Seq(S), NEW c \in Seq(S), EndOf(s, c), s # <<>>
  PROVE  /\ Tail(s) \in Seq(S) /\ EndOf(Tail(s), c)
         /\ Head(s) = s[1] /\ Head(s) \in S /\ Len(s) \in Nat /\ Len(s) > 0
         /\ Len(Tail(s)) = Len(s) - 1
         /\ \A i \in 1..Len(Tail(s)) : Tail(s)[i] = s[i + 1]
<1>1. /\ Tail(s) \in Seq(S) /\ Len(s) \in Nat /\ Len(s) > 0 /\ Len(Tail(s)) = Len(s) - 1
      /\ Len(c) \in Nat /\ Head(s) = s[1] /\ s[1] \in S
      /\ \A i \in 1..Len(Tail(s)) : Tail(s)[i] = s[i + 1]
  OBVIOUS
<1>2. ASSUME NEW k \in 1..Len(Tail(s)) PROVE Place(Tail(s), k) = Place(s, k)
  <2>1. Len(Tail(s)) + 1 - k \in 1..Len(Tail(s))
        /\ Len(Tail(s)) + 1 - k + 1 = Len(s) + 1 - k
    BY <1>1
  <2> QED
    BY <1>1, <2>1 DEF Place
<1> QED
  BY <1>1, <1>2 DEF EndOf

(* An end holds what the whole does from some place on.                      *)
LEMMA EndHolds ==
  ASSUME NEW S, NEW s \in Seq(S), NEW c \in Seq(S), EndOf(s, c)
  PROVE  /\ Len(s) \in Nat /\ Len(c) \in Nat /\ Len(s) <= Len(c)
         /\ \A i \in 1..Len(s) : Len(c) - Len(s) + i \in 1..Len(c)
                                 /\ s[i] = c[Len(c) - Len(s) + i]
<1>1. Len(s) \in Nat /\ Len(c) \in Nat /\ Len(s) <= Len(c)
  BY DEF EndOf
<1>2. ASSUME NEW i \in 1..Len(s)
      PROVE  Len(c) - Len(s) + i \in 1..Len(c) /\ s[i] = c[Len(c) - Len(s) + i]
  <2> DEFINE k == Len(s) + 1 - i
  <2>1. k \in 1..Len(s) /\ Len(s) + 1 - k = i /\ Len(c) + 1 - k = Len(c) - Len(s) + i
    BY <1>1
  <2>2. Place(s, k) = Place(c, k)
    BY <2>1 DEF EndOf
  <2> HIDE DEF k
  <2> QED
    BY <1>1, <2>1, <2>2 DEF Place
<1> QED
  BY <1>1, <1>2

(* A chain is its own end.                                                   *)
LEMMA WholeIsEnd ==
  ASSUME NEW S, NEW c \in Seq(S)
  PROVE  EndOf(c, c)
  BY DEF EndOf

(* A reader's cursor stays in its chain whatever others do, since a node is  *)
(* only put before it.                                                       *)
LEMMA EndKept ==
  ASSUME TypeOK, ChainsInv, AddInv, NEW t \in Threads, Step(t),
         NEW h \in Hashes, NEW s \in Seq(DOMAIN nodes), EndOf(s, table[h])
  PROVE  EndOf(s, table'[h])
<1>1. CASE table' = table
  BY <1>1
<1>2. CASE InsertHead(t)
  <2>1. PICK n : Inserts(t, n)
    BY <1>2, InsertIs
  <2> DEFINE b == bucketOf[class[t]]
  <2>2. b \in Hashes /\ n \in DOMAIN nodes
    BY <2>1 DEF Inserts
  <2>3. table'[h] = IF h = b THEN <<n>> \o table[h] ELSE table[h]
    BY <2>1, <2>2 DEF Inserts, Chain, TypeOK
  <2>4. CASE h = b
    <3>1. table[h] \in Seq(DOMAIN nodes) /\ Len(s) \in Nat /\ Len(table[h]) \in Nat
      BY ChainNodes
    <3>2. /\ Len(table'[h]) = Len(table[h]) + 1
          /\ \A k \in 1..Len(table[h]) : Place(table'[h], k) = Place(table[h], k)
      <4> DEFINE r == <<n>> \o table[h]
      <4>1. Len(r) = Len(table[h]) + 1
            /\ \A k \in 1..Len(table[h]) : Place(r, k) = Place(table[h], k)
        BY <2>2, <3>1, EndOfPushed
      <4>2. table'[h] = r
        BY <2>3, <2>4
      <4> QED
        BY <4>1, <4>2
    <3> QED
      BY <3>1, <3>2 DEF EndOf
  <2> QED
    BY <2>3, <2>4
<1> QED
  BY <1>1, <1>2, TablesMove

(* A lookup goes down the chain of its name.                                 *)
LEMMA LookInvStep ==
  ASSUME TypeOK, ChainsInv, AddInv, LookInv, NEW t \in Threads, Step(t)
  PROVE  LookInv'
<1>1. Alone(t)
  BY OthersAlone
<1>2. ASSUME NEW u \in Threads, pc[u] = "lk_node", class'[u] = class[u], node'[u] = node[u]
      PROVE  EndOf(node[u], Chain(u))'
  <2>1. bucketOf[class[u]] \in Hashes /\ node[u] \in Seq(DOMAIN nodes)
    BY <1>2 DEF TypeOK, ForClass
  <2>2. EndOf(node[u], Chain(u))
    BY <1>2 DEF LookInv
  <2>3. EndOf(node[u], table'[bucketOf[class[u]]])
    BY <2>1, <2>2, EndKept DEF Chain
  <2> QED
    BY <1>1, <1>2, <2>3 DEF Chain, Alone, EndOf, Place
<1>3. ASSUME NEW u \in Threads \ {t}
      PROVE  /\ pc'[u] = "lk_node" => EndOf(node[u], Chain(u))'
             /\ pc'[u] # "lk_return" => answer'[u] = Nil
  BY <1>1, <1>2 DEF Alone, LookInv
<1>4. ASSUME ~Lookup(t)
      PROVE  pc'[t] # "lk_node" /\ answer'[t] = Nil /\ pc'[t] # "lk_return"
  <2>1. pc[t] \notin {"lk_return", "lk_node"} /\ pc'[t] \notin {"lk_return", "lk_node"}
    BY <1>4, StepCases
    DEF TypeOK, CallStep, Call, NextCall, LockStep, LockAt, UnlockStep, UnlockAt, UnlockAndReturn,
        AddFind, InsertNext, InsertHead, NextClass, NextReturn,
        PoseLinks, ReplaceNode, At, Goto
  <2>2. answer' = answer \/ answer'[t] = Nil
    BY <1>4, StepCases
    DEF TypeOK, CallStep, Call, NextCall, LockStep, LockAt, UnlockStep, UnlockAt, UnlockAndReturn,
        AddFind, InsertNext, InsertHead, NextClass, NextReturn,
        PoseLinks, ReplaceNode, ForgetLocals, locals
  <2> QED
    BY <2>1, <2>2 DEF LookInv
<1>5. CASE LookupHead(t)
  <2>1. /\ pc[t] = "lk_head" /\ pc'[t] = "lk_node" /\ node'[t] = Chain(t)
        /\ UNCHANGED <<bucketOf, nodes, table, class, answer>>
    BY <1>5 DEF LookupHead, At, Goto, TypeOK, Chain, chains
  <2>2. Chain(t)' = Chain(t) /\ Chain(t) \in Seq(DOMAIN nodes)
    BY <2>1, ChainNodes DEF Chain, TypeOK, ForClass
  <2>3. EndOf(Chain(t), Chain(t))
    BY <2>2, WholeIsEnd
  <2>4. EndOf(node[t], Chain(t))' /\ answer'[t] = Nil
    BY <2>1, <2>2, <2>3 DEF EndOf, Place, LookInv
  <2> QED
    BY <1>3, <2>4 DEF LookInv
<1>6. CASE LookupNode(t)
  <2>1. /\ pc[t] = "lk_node" /\ node[t] # <<>> /\ node'[t] = Tail(node[t]) /\ pc'[t] = pc[t]
        /\ UNCHANGED <<bucketOf, nodes, table, class, answer>>
    BY <1>6 DEF LookupNode, At, TypeOK, chains, NoNode
  <2>2. /\ Chain(t)' = Chain(t) /\ Chain(t) \in Seq(DOMAIN nodes) /\ node[t] \in Seq(DOMAIN nodes)
        /\ EndOf(node[t], Chain(t))
    BY <2>1, ChainNodes DEF Chain, TypeOK, ForClass, LookInv
  <2>3. EndOf(Tail(node[t]), Chain(t))
    BY <2>1, <2>2, TailOfEnd
  <2>4. EndOf(node[t], Chain(t))' /\ answer'[t] = Nil
    BY <2>1, <2>2, <2>3 DEF EndOf, Place, LookInv
  <2> QED
    BY <1>3, <2>4 DEF LookInv
<1>7. CASE LookupEnd(t)
  <2>1. pc'[t] = "lk_return"
    BY <1>7 DEF LookupEnd, Goto, TypeOK
  <2> QED
    BY <1>3, <2>1 DEF LookInv
<1>8. CASE LookupReturn(t)
  <2>1. pc'[t] = "program" /\ answer'[t] = Nil
    BY <1>8 DEF LookupReturn, Goto, ForgetLocals, TypeOK
  <2> QED
    BY <1>3, <2>1 DEF LookInv
<1>9. CASE ~Lookup(t)
  BY <1>3, <1>4, <1>9 DEF LookInv
<1> QED
  BY <1>5, <1>6, <1>7, <1>8, <1>9 DEF Lookup

-----------------------------------------------------------------------------
(* A node is in one place of the table.                                      *)
LEMMA OnePlacePerNode ==
  ASSUME TypeOK, ChainsInv, NEW h \in Hashes, NEW g \in Hashes,
         NEW i \in DOMAIN table[h], NEW j \in DOMAIN table[g], table[h][i] = table[g][j]
  PROVE  h = g /\ i = j
  BY DEF ChainsInv

(* The head of an end is neither in its tail nor in a later chain.           *)
LEMMA HeadOfEnd ==
  ASSUME TypeOK, ChainsInv, NEW h \in Hashes, NEW s \in Seq(DOMAIN nodes), s # <<>>,
         EndOf(s, table[h])
  PROVE  /\ ToSet(s) = {Head(s)} \cup ToSet(Tail(s)) /\ ToSet(s) \subseteq ToSet(table[h])
         /\ Head(s) \notin ToSet(Tail(s)) /\ Head(s) \notin Later(h)
         /\ Head(s) \in DOMAIN nodes
<1> DEFINE c == table[h]
           d == Len(c) - Len(s)
<1>1. c \in Seq(DOMAIN nodes) /\ DOMAIN c = 1..Len(c)
  BY ChainNodes
<1>2. /\ Tail(s) \in Seq(DOMAIN nodes) /\ Head(s) = s[1] /\ Head(s) \in DOMAIN nodes
      /\ Len(s) \in Nat /\ Len(s) > 0 /\ Len(Tail(s)) = Len(s) - 1
      /\ \A i \in 1..Len(Tail(s)) : Tail(s)[i] = s[i + 1]
  BY <1>1, TailOfEnd
<1>3. /\ Len(c) \in Nat /\ Len(s) <= Len(c)
      /\ \A i \in 1..Len(s) : d + i \in DOMAIN c /\ s[i] = c[d + i]
  BY <1>1, EndHolds
<1>4. d \in Nat
  BY <1>2, <1>3
<1> HIDE DEF c, d
<1>5. ToSet(s) \subseteq ToSet(c)
  BY <1>2, <1>3 DEF ToSet
<1>6. ToSet(s) = {Head(s)} \cup ToSet(Tail(s))
  <2>1. DOMAIN s = 1..Len(s) /\ DOMAIN Tail(s) = 1..(Len(s) - 1)
    BY <1>2
  <2>2. \A i \in DOMAIN s : i = 1 \/ (i - 1 \in DOMAIN Tail(s) /\ s[i] = Tail(s)[i - 1])
    BY <1>2, <2>1
  <2>3. \A i \in DOMAIN Tail(s) : i + 1 \in DOMAIN s /\ Tail(s)[i] = s[i + 1]
    BY <1>2, <2>1
  <2>4. 1 \in DOMAIN s
    BY <1>2, <2>1
  <2>5. ASSUME NEW x \in ToSet(s) PROVE x \in {Head(s)} \cup ToSet(Tail(s))
    <3>1. PICK i \in DOMAIN s : x = s[i]
      BY DEF ToSet
    <3> QED
      BY <1>2, <2>2, <3>1 DEF ToSet
  <2>6. ToSet(Tail(s)) \subseteq ToSet(s)
    BY <2>3 DEF ToSet
  <2>7. Head(s) \in ToSet(s)
    BY <1>2, <2>4 DEF ToSet
  <2> QED
    BY <2>5, <2>6, <2>7
<1>7. ASSUME Head(s) \in ToSet(Tail(s)) PROVE FALSE
  <2>1. PICK i \in 1..Len(Tail(s)) : s[i + 1] = s[1]
    BY <1>2, <1>7 DEF ToSet
  <2>2. c[d + (i + 1)] = c[d + 1] /\ d + (i + 1) \in DOMAIN c /\ d + 1 \in DOMAIN c
    BY <1>2, <1>3, <2>1
  <2>3. d + (i + 1) = d + 1
    BY <2>2, OnePlacePerNode DEF c
  <2> QED
    BY <1>4, <2>3
<1>8. ASSUME Head(s) \in Later(h) PROVE FALSE
  <2>1. PICK g \in (h + 1)..(Buckets - 1) : Head(s) \in ToSet(table[g])
    BY <1>8 DEF Later
  <2>2. g \in Hashes /\ g # h
    BY <2>1, BucketsAssumption DEF Hashes
  <2>3. PICK j \in DOMAIN table[g] : table[g][j] = s[1]
    BY <1>2, <2>1 DEF ToSet
  <2>4. d + 1 \in DOMAIN table[h] /\ table[h][d + 1] = s[1]
    BY <1>2, <1>3 DEF c
  <2> QED
    BY <2>2, <2>3, <2>4, OnePlacePerNode
<1> QED
  BY <1>2, <1>5, <1>6, <1>7, <1>8 DEF c

(* What an enumerator has yet to come to, before its first class too.        *)
ToCome(e) == IF e = NoEnumerator THEN InTable ELSE Ahead(e)
Enumerators == [hash : Hashes, node : Seq(DOMAIN nodes)]
WellPlaced(e) == e.node # NoNode /\ EndOf(e.node, table[e.hash])

(* The next class is one of those to come, which are then one less; the      *)
(* enumeration ends where none are left.                                     *)
LEMMA NextIs ==
  ASSUME TypeOK, ChainsInv, NEW e \in Enumerators, e = NoEnumerator \/ WellPlaced(e),
         NEW f, f = TableNext(e)
  PROVE  /\ f \in Enumerators /\ ToCome(e) \subseteq InTable
         /\ f = NoEnumerator => ToCome(e) = {}
         /\ f # NoEnumerator =>
               /\ WellPlaced(f) /\ Head(f.node) \in DOMAIN nodes
               /\ ToCome(e) = {Head(f.node)} \cup Ahead(f) /\ Head(f.node) \notin Ahead(f)
<1> DEFINE next == IF e = NoEnumerator THEN table[0] ELSE Tail(e.node)
           later == {h \in (e.hash + 1)..(Buckets - 1) : table[h] # NoNode}
<1>1. e.hash \in Hashes /\ 0 \in Hashes /\ (e.hash + 1)..(Buckets - 1) \subseteq Hashes
      /\ \A h \in Hashes : h \in Nat /\ (h + 1)..(Buckets - 1) \subseteq Hashes
  BY BucketsAssumption DEF Hashes, Enumerators
<1>2. next \in Seq(DOMAIN nodes) /\ EndOf(next, table[e.hash])
  <2>1. CASE e = NoEnumerator
    <3>1. e.hash = 0 /\ next = table[0] /\ table[0] \in Seq(DOMAIN nodes)
      BY <1>1, <2>1, ChainNodes DEF NoEnumerator
    <3> QED
      BY <3>1, WholeIsEnd
  <2>2. CASE e # NoEnumerator
    <3>1. /\ e.node \in Seq(DOMAIN nodes) /\ e.node # <<>> /\ EndOf(e.node, table[e.hash])
          /\ table[e.hash] \in Seq(DOMAIN nodes)
      BY <1>1, <2>2, ChainNodes DEF WellPlaced, NoNode, Enumerators
    <3>2. Tail(e.node) \in Seq(DOMAIN nodes) /\ EndOf(Tail(e.node), table[e.hash])
      BY <3>1, TailOfEnd
    <3> QED
      BY <2>2, <3>2
  <2> QED
    BY <2>1, <2>2
<1>3. ToCome(e) = ToSet(next) \cup Later(e.hash)
  <2>1. CASE e = NoEnumerator
    <3>1. e.hash = 0 /\ Hashes = {0} \cup (0 + 1)..(Buckets - 1)
      BY <2>1, BucketsAssumption DEF NoEnumerator, Hashes
    <3> QED
      BY <2>1, <3>1 DEF ToCome, InTable, Later
  <2> QED
    BY <2>1 DEF ToCome, Ahead
<1>4. ToCome(e) \subseteq InTable
  <2>1. Later(e.hash) \subseteq InTable /\ ToSet(table[e.hash]) \subseteq InTable
    BY <1>1 DEF Later, InTable
  <2>2. ToSet(next) \subseteq ToSet(table[e.hash])
    <3>1. CASE next = <<>>
      BY <3>1 DEF ToSet
    <3>2. CASE next # <<>>
      <4> HIDE DEF next
      <4> QED
        BY <1>1, <1>2, <3>2, HeadOfEnd
    <3> QED
      BY <3>1, <3>2
  <2> QED
    BY <1>3, <2>1, <2>2
<1>5. f = IF next # NoNode THEN [e EXCEPT !.node = next]
          ELSE IF later # {} THEN [hash |-> Min(later), node |-> table[Min(later)]]
          ELSE NoEnumerator
  BY DEF TableNext
<1> HIDE DEF next, later
<1>6. ASSUME f \in Enumerators, f.node # NoNode, EndOf(f.node, table[f.hash]),
             ToCome(e) = ToSet(f.node) \cup Later(f.hash)
      PROVE  /\ f # NoEnumerator /\ WellPlaced(f) /\ Head(f.node) \in DOMAIN nodes
             /\ ToCome(e) = {Head(f.node)} \cup Ahead(f) /\ Head(f.node) \notin Ahead(f)
  <2>1. f.hash \in Hashes /\ f.node \in Seq(DOMAIN nodes) /\ f.node # <<>>
    BY <1>6 DEF Enumerators, NoNode
  <2>2. /\ ToSet(f.node) = {Head(f.node)} \cup ToSet(Tail(f.node))
        /\ Head(f.node) \notin ToSet(Tail(f.node)) /\ Head(f.node) \notin Later(f.hash)
        /\ Head(f.node) \in DOMAIN nodes
    BY <1>6, <2>1, HeadOfEnd
  <2> QED
    BY <1>6, <2>2 DEF Ahead, WellPlaced, NoEnumerator
<1>7. CASE next # NoNode
  <2>1. f.hash = e.hash /\ f.node = next /\ f \in Enumerators
    BY <1>2, <1>5, <1>7 DEF Enumerators
  <2> QED
    BY <1>2, <1>3, <1>4, <1>6, <1>7, <2>1
<1>8. CASE next = NoNode /\ later # {}
  <2>1. later \in SUBSET Nat
    BY <1>1 DEF later
  <2>2. Min(later) \in later /\ \A h \in later : Min(later) <= h
    BY <1>8, <2>1, LeastElement DEF Min
  <2> DEFINE g == Min(later)
  <2>3. /\ g \in (e.hash + 1)..(Buckets - 1) /\ g \in Hashes /\ table[g] # NoNode
        /\ \A h \in (e.hash + 1)..(Buckets - 1) : h < g => table[h] = NoNode
    <3>1. g \in (e.hash + 1)..(Buckets - 1) /\ g \in Hashes /\ table[g] # NoNode
      BY <1>1, <2>2 DEF later
    <3>2. ASSUME NEW h \in (e.hash + 1)..(Buckets - 1), h < g, table[h] # NoNode PROVE FALSE
      <4>1. h \in later /\ h \in Nat /\ g \in Nat
        BY <1>1, <3>1, <3>2 DEF later
      <4> QED
        BY <2>2, <3>2, <4>1
    <3> QED
      BY <3>1, <3>2
  <2>4. f = [hash |-> g, node |-> table[g]] /\ f \in Enumerators
    BY <1>5, <1>8, <2>3, ChainNodes DEF Enumerators
  <2> HIDE DEF g
  <2>5. f.hash = g /\ f.node = table[g] /\ EndOf(f.node, table[f.hash])
    BY <2>3, <2>4, WholeIsEnd, ChainNodes
  <2>6. Later(e.hash) = ToSet(table[g]) \cup Later(g)
    <3>1. e.hash \in Nat /\ g \in Nat /\ Buckets \in Nat
      BY <1>1, <2>3, BucketsAssumption
    <3>2. \A h \in (e.hash + 1)..(Buckets - 1) :
             h = g \/ h \in (g + 1)..(Buckets - 1) \/ table[h] = NoNode
      BY <2>3, <3>1
    <3>3. \A h \in (g + 1)..(Buckets - 1) : h \in (e.hash + 1)..(Buckets - 1)
      BY <2>3, <3>1
    <3>4. ToSet(NoNode) = {}
      BY DEF ToSet, NoNode
    <3> QED
      BY <2>3, <3>2, <3>3, <3>4 DEF Later
  <2>7. ToSet(next) = {}
    BY <1>8 DEF ToSet, NoNode
  <2> QED
    BY <1>3, <1>4, <1>6, <2>3, <2>4, <2>5, <2>6, <2>7
<1>9. CASE next = NoNode /\ later = {}
  <2>1. f = NoEnumerator /\ ToSet(next) = {}
    BY <1>5, <1>9 DEF ToSet, NoNode
  <2>2. Later(e.hash) = {}
    <3>1. \A h \in (e.hash + 1)..(Buckets - 1) : ToSet(table[h]) = {}
      BY <1>9 DEF later, NoNode, ToSet
    <3> QED
      BY <3>1 DEF Later
  <2>3. NoEnumerator \in Enumerators
    BY <1>1 DEF NoEnumerator, Enumerators, NoNode
  <2> QED
    BY <1>3, <1>4, <2>1, <2>2, <2>3
<1> QED
  BY <1>7, <1>8, <1>9

(* Whatever others do, what is to come still is, and anything else that      *)
(* comes was not in the table before.                                        *)
LEMMA AheadKept ==
  ASSUME TypeOK, ChainsInv, AddInv, NEW t \in Threads, Step(t)
  PROVE  /\ InTable \subseteq InTable'
         /\ \A h \in Hashes :
               Later(h) \subseteq Later(h)' /\ Later(h)' \cap InTable \subseteq Later(h)
<1>1. CASE table' = table
  BY <1>1 DEF InTable, Later
<1>2. CASE InsertHead(t)
  <2>1. PICK n : Inserts(t, n)
    BY <1>2, InsertIs
  <2> DEFINE b == bucketOf[class[t]]
  <2>2. b \in Hashes /\ n \in DOMAIN nodes /\ n \notin InTable
    BY <2>1 DEF Inserts
  <2>3. \A h \in Hashes : table'[h] = IF h = b THEN <<n>> \o table[h] ELSE table[h]
    BY <2>1, <2>2 DEF Inserts, Chain, TypeOK
  <2> HIDE DEF b
  <2>4. ASSUME NEW h \in Hashes
        PROVE  /\ ToSet(table[h]) \subseteq ToSet(table'[h])
               /\ ToSet(table'[h]) \subseteq ToSet(table[h]) \cup {n}
    <3>1. CASE h # b
      BY <2>3, <3>1
    <3>2. CASE h = b
      <4> DEFINE c == table[h]
                 r == <<n>> \o c
      <4>1. c \in Seq(DOMAIN nodes) /\ DOMAIN c = 1..Len(c) /\ Len(c) \in Nat
        BY ChainNodes
      <4>2. r = <<n>> \o c /\ table'[h] = r
        BY <2>3, <3>2
      <4> HIDE DEF c, r
      <4>3. /\ DOMAIN r = 1..(Len(c) + 1) /\ r[1] = n /\ Len(r) = Len(c) + 1
            /\ \A i \in 1..Len(c) : r[i + 1] = c[i]
            /\ \A i \in 2..Len(r) : i - 1 \in 1..Len(c) /\ r[i] = c[i - 1]
        BY <2>2, <4>1, <4>2, Pushed
      <4>4. \A i \in DOMAIN c : i + 1 \in DOMAIN r /\ r[i + 1] = c[i]
        BY <4>1, <4>3
      <4>5. \A i \in DOMAIN r : i = 1 \/ (i - 1 \in DOMAIN c /\ r[i] = c[i - 1])
        BY <4>1, <4>3
      <4>6. ToSet(c) \subseteq ToSet(r)
        BY <4>4 DEF ToSet
      <4>7. ToSet(r) \subseteq ToSet(c) \cup {n}
        BY <4>3, <4>5 DEF ToSet
      <4> QED
        BY <4>2, <4>6, <4>7 DEF c
    <3> QED
      BY <3>1, <3>2
  <2>5. InTable \subseteq InTable'
    BY <2>4 DEF InTable
  <2>6. ASSUME NEW h \in Hashes
        PROVE  Later(h) \subseteq Later(h)' /\ Later(h)' \cap InTable \subseteq Later(h)
    <3>1. (h + 1)..(Buckets - 1) \subseteq Hashes
      BY BucketsAssumption DEF Hashes
    <3>2. Later(h) \subseteq Later(h)'
      BY <2>4, <3>1 DEF Later
    <3>3. Later(h)' \subseteq Later(h) \cup {n}
      BY <2>4, <3>1 DEF Later
    <3> QED
      BY <2>2, <3>2, <3>3
  <2> QED
    BY <2>5, <2>6
<1> QED
  BY <1>1, <1>2, TablesMove

(* An enumeration that does not move goes on as well as before.              *)
LEMMA EnumeratingKept ==
  ASSUME TypeOK, ChainsInv, AddInv, NEW t \in Threads, Step(t),
         NEW e \in Enumerators, NEW d, NEW v,
         Enumerating(e, d, v), ToSet(v) \subseteq InTable
  PROVE  Enumerating(e, d, v)'
<1>1. e.hash \in Hashes /\ e.node \in Seq(DOMAIN nodes) /\ e.node # NoNode
  BY DEF Enumerating, Enumerators
<1>2. EndOf(e.node, table'[e.hash])
  BY <1>1, EndKept DEF Enumerating
<1>3. Later(e.hash) \subseteq Later(e.hash)' /\ Later(e.hash)' \cap InTable \subseteq Later(e.hash)
  BY <1>1, AheadKept
<1>4. Ahead(e) \subseteq Ahead(e)' /\ Ahead(e)' \cap InTable \subseteq Ahead(e)
  BY <1>3 DEF Ahead
<1> QED
  BY <1>1, <1>2, <1>4 DEF Enumerating, EndOf, Place, NoNode

(* What holds of one thread's enumeration.                                   *)
EnumOf(p, e, d, v) ==
    /\ IsInjective(v) /\ ToSet(v) \subseteq InTable
    /\ e # NoEnumerator => Enumerating(e, d, v)
    /\ e = NoEnumerator =>
          IF p = "en_unlock" THEN d \subseteq ToSet(v) ELSE v = <<>> /\ d = {}

(* A further place in a sequence.                                            *)
LEMMA AppendedOne ==
  ASSUME NEW S, NEW v \in Seq(S), NEW n \in S, n \notin ToSet(v), IsInjective(v)
  PROVE  IsInjective(Append(v, n)) /\ ToSet(Append(v, n)) = ToSet(v) \cup {n}
<1> DEFINE w == Append(v, n)
<1>1. /\ w \in Seq(S) /\ Len(w) = Len(v) + 1 /\ w[Len(v) + 1] = n
      /\ \A i \in 1..Len(v) : w[i] = v[i]
  BY AppendProperties
<1>2. DOMAIN v = 1..Len(v) /\ DOMAIN w = 1..(Len(v) + 1) /\ Len(v) \in Nat
  BY <1>1
<1> HIDE DEF w
<1>3. \A i \in DOMAIN w : i = Len(v) + 1 \/ i \in DOMAIN v
  BY <1>2
<1>4. \A i \in DOMAIN v : i \in DOMAIN w /\ w[i] = v[i]
  BY <1>1, <1>2
<1>5. Len(v) + 1 \in DOMAIN w
  BY <1>2
<1>6. ToSet(w) = ToSet(v) \cup {n}
  <2>1. ToSet(w) \subseteq ToSet(v) \cup {n}
    BY <1>1, <1>3, <1>4 DEF ToSet
  <2>2. ToSet(v) \subseteq ToSet(w) /\ n \in ToSet(w)
    BY <1>1, <1>4, <1>5 DEF ToSet
  <2> QED
    BY <2>1, <2>2
<1>7. ASSUME NEW i \in DOMAIN w, NEW j \in DOMAIN w, w[i] = w[j] PROVE i = j
  <2>1. \A k \in DOMAIN v : v[k] # n
    BY DEF ToSet
  <2>2. CASE i \in DOMAIN v /\ j \in DOMAIN v
    BY <1>4, <1>7, <2>2 DEF IsInjective
  <2> QED
    BY <1>1, <1>3, <1>4, <1>7, <2>1, <2>2
<1> QED
  BY <1>6, <1>7 DEF w, IsInjective

(* An enumeration moves on by one class that it has not returned.            *)
LEMMA EnumInvStep ==
  ASSUME TypeOK, ChainsInv, AddInv, EnumInv, NEW t \in Threads, Step(t)
  PROVE  EnumInv'
<1>1. Alone(t)
  BY OthersAlone
<1>2. \A u \in Threads : EnumOf(pc[u], enum[u], due[u], visited[u])
  BY DEF EnumInv, EnumOf
<1>3. SUFFICES ASSUME NEW u \in Threads PROVE EnumOf(pc[u], enum[u], due[u], visited[u])'
  BY <1>3 DEF EnumInv, EnumOf
<1>4. ASSUME enum'[u] = enum[u], due'[u] = due[u], visited'[u] = visited[u],
             enum[u] # NoEnumerator \/ (pc[u] = "en_unlock" <=> pc'[u] = "en_unlock")
      PROVE  EnumOf(pc[u], enum[u], due[u], visited[u])'
  <2>1. PICK e, d, v : e = enum[u] /\ d = due[u] /\ v = visited[u]
    OBVIOUS
  <2>2. e \in Enumerators /\ EnumOf(pc[u], e, d, v)
    BY <1>2, <2>1 DEF TypeOK, Enumerators
  <2>3. ToSet(v) \subseteq InTable' /\ IsInjective(v)
    BY <2>2, AheadKept DEF EnumOf
  <2>4. e # NoEnumerator => Enumerating(e, d, v)'
    BY <2>2, EnumeratingKept DEF EnumOf
  <2>5. enum'[u] = e /\ due'[u] = d /\ visited'[u] = v
    BY <1>4, <2>1
  <2>6. e = NoEnumerator =>
           IF pc'[u] = "en_unlock" THEN d \subseteq ToSet(v) ELSE v = <<>> /\ d = {}
    BY <1>4, <2>1, <2>2 DEF EnumOf
  <2> QED
    BY <2>3, <2>4, <2>5, <2>6 DEF EnumOf, Enumerating, EndOf, Place, Ahead, Later, NoEnumerator
<1>5. CASE u # t
  BY <1>1, <1>4, <1>5 DEF Alone
<1>6. CASE u = t /\ NextClass(t)
  <2> DEFINE f == TableNext(enum[t])
  <2>1. /\ pc[t] = "en_next" /\ pc'[t] = "en_unlock" /\ table' = table
        /\ enum'[t] = f
        /\ due'[t] = (IF enum[t] = NoEnumerator THEN InTable ELSE due[t])
        /\ visited'[t] = (IF f = NoEnumerator THEN visited[t] ELSE Append(visited[t], Head(f.node)))
    BY <1>6 DEF NextClass, At, Goto, TypeOK, chains
  <2>2. PICK e, v, d : /\ e = enum[t] /\ v = visited[t]
                       /\ d = IF enum[t] = NoEnumerator THEN InTable ELSE due[t]
    OBVIOUS
  <2>3. /\ e \in Enumerators /\ EnumOf("en_next", e, due[t], v)
        /\ v \in Seq(DOMAIN nodes)
    BY <1>2, <2>1, <2>2 DEF TypeOK, Enumerators
  <2>4. e = NoEnumerator \/ WellPlaced(e)
    BY <2>3 DEF EnumOf, Enumerating, WellPlaced
  <2>5. PICK g : g = f
    OBVIOUS
  <2>6. g = TableNext(e)
    BY <2>2, <2>5
  <2>7. /\ ToCome(e) \subseteq InTable
        /\ g = NoEnumerator => ToCome(e) = {}
        /\ g # NoEnumerator =>
               /\ WellPlaced(g) /\ Head(g.node) \in DOMAIN nodes
               /\ ToCome(e) = {Head(g.node)} \cup Ahead(g) /\ Head(g.node) \notin Ahead(g)
    BY <2>3, <2>4, <2>6, NextIs
  <2>8. ToSet(v) \cap ToCome(e) = {} /\ d \subseteq ToSet(v) \cup ToCome(e)
    <3>1. CASE e = NoEnumerator
      <4>1. v = <<>>
        BY <2>3, <3>1 DEF EnumOf
      <4> QED
        BY <2>2, <3>1, <4>1 DEF ToCome, ToSet
    <3>2. CASE e # NoEnumerator
      BY <2>2, <2>3, <3>2 DEF ToCome, EnumOf, Enumerating
    <3> QED
      BY <3>1, <3>2
  <2>9. IsInjective(v) /\ ToSet(v) \subseteq InTable
    BY <2>3 DEF EnumOf
  <2> HIDE DEF f
  <2>10. CASE g = NoEnumerator
    <3>1. enum'[t] = NoEnumerator /\ due'[t] = d /\ visited'[t] = v /\ pc'[t] = "en_unlock"
      BY <2>1, <2>2, <2>5, <2>10
    <3>2. InTable' = InTable
      BY <2>1 DEF InTable
    <3>3. d \subseteq ToSet(v)
      BY <2>7, <2>8, <2>10
    <3> QED
      BY <1>6, <2>9, <3>1, <3>2, <3>3 DEF EnumOf, NoEnumerator
  <2>11. CASE g # NoEnumerator
    <3>1. PICK w : w = Append(v, Head(g.node))
      OBVIOUS
    <3>2. IsInjective(w) /\ ToSet(w) = ToSet(v) \cup {Head(g.node)}
      BY <2>3, <2>7, <2>8, <2>9, <2>11, <3>1, AppendedOne
    <3>3. ToSet(w) \subseteq InTable
      BY <2>7, <2>9, <2>11, <3>2
    <3>4. ToSet(w) \cap Ahead(g) = {} /\ d \subseteq ToSet(w) \cup Ahead(g)
      BY <2>7, <2>8, <2>11, <3>2
    <3>5. enum'[t] = g /\ due'[t] = d /\ visited'[t] = w
      BY <2>1, <2>2, <2>5, <2>11, <3>1
    <3>6. Enumerating(g, d, w)
      BY <2>7, <2>11, <3>4 DEF Enumerating, WellPlaced
    <3>7. Enumerating(g, d, w)'
      BY <2>1, <3>6 DEF Enumerating, EndOf, Place, Ahead, Later
    <3>8. InTable' = InTable
      BY <2>1 DEF InTable
    <3>9. Enumerating(enum[t], due[t], visited[t])'
      BY <3>5, <3>7 DEF Enumerating, EndOf, Place, Ahead, Later
    <3> QED
      BY <1>6, <2>11, <3>2, <3>3, <3>5, <3>8, <3>9 DEF EnumOf, NoEnumerator
  <2> QED
    BY <2>10, <2>11
<1>7. CASE u = t /\ NextReturn(t)
  <2>1. pc[t] = "en_unlock" /\ pc'[t] = "program" /\ enum' = enum
    BY <1>7 DEF NextReturn, At, Goto, TypeOK
  <2>2. CASE enum[t] # NoEnumerator
    BY <1>4, <1>7, <2>1, <2>2 DEF NextReturn
  <2>3. CASE enum[t] = NoEnumerator
    <3>1. due'[t] = {} /\ visited'[t] = <<>>
      BY <1>7, <2>3 DEF NextReturn, TypeOK
    <3>2. IsInjective(<<>>) /\ ToSet(<<>>) = {}
      BY DEF IsInjective, ToSet
    <3> QED
      BY <1>7, <2>1, <2>3, <3>1, <3>2 DEF EnumOf, NoEnumerator
  <2> QED
    BY <2>2, <2>3
<1>8. CASE u = t /\ ~NextClass(t) /\ ~NextReturn(t)
  <2>1. UNCHANGED <<enum, due, visited>>
    BY <1>8, StepCases
    DEF CallStep, Call, NextCall, LockStep, LockAt, UnlockStep, UnlockAt, UnlockAndReturn,
        AddFind, InsertNext, InsertHead, Lookup, LookupHead, LookupNode, LookupEnd, LookupReturn,
        PoseLinks, ReplaceNode, enumeration
  <2>2. pc[t] # "en_unlock" /\ pc'[t] # "en_unlock"
    BY <1>8, StepCases
    DEF CallStep, Call, NextCall, LockStep, LockAt, UnlockStep, UnlockAt, UnlockAndReturn,
        AddFind, InsertNext, InsertHead, Lookup, LookupHead, LookupNode, LookupEnd, LookupReturn,
        PoseLinks, ReplaceNode, At, Goto, TypeOK
  <2> QED
    BY <1>4, <1>8, <2>1, <2>2
<1> QED
  BY <1>5, <1>6, <1>7, <1>8

-----------------------------------------------------------------------------
(* Only a pose changes links, and only at its start.                         *)
LEMMA LinksKept ==
  ASSUME NEW t \in Threads, Step(t), ~PoseLinks(t)
  PROVE  UNCHANGED links
  BY StepCases
  DEF CallStep, Call, NextCall, LockStep, LockAt, UnlockStep, UnlockAt, UnlockAndReturn,
      AddFind, InsertNext, InsertHead, Lookup, LookupHead, LookupNode, LookupEnd, LookupReturn,
      NextClass, NextReturn, ReplaceNode, links

(* What a pose moves: the other subclasses of the class posed for, and their *)
(* metaclasses.                                                              *)
PosesWith(t, I, P, others, metas) ==
    /\ I = class[t] /\ P = super[I] /\ others = subs[P] \ {I} /\ metas = MovedMetas(others)
    /\ I \in Registrable /\ I \in Classes /\ P \in Classes /\ I # P
    /\ super' = [x \in Linked |-> IF x \in others THEN I
                                  ELSE IF x \in metas THEN Meta(I) ELSE super[x]]
    /\ subs' = [subs EXCEPT ![I] = @ \cup others, ![Meta(I)] = @ \cup metas,
                            ![P] = {I}, ![Meta(P)] = {Meta(I)}]

(* The start of a pose is that.                                              *)
LEMMA PoseLinksIs ==
  ASSUME TypeOK, LinksInv, NEW t \in Threads, PoseLinks(t)
  PROVE  \E I, P, others, metas : PosesWith(t, I, P, others, metas)
<1> DEFINE I == class[t]
           P == super[I]
<1>1. I \in Registrable /\ I \in Classes
  BY DEF PoseLinks, At, TypeOK, ForClass, Registrable
<1>2. P \in Classes /\ I # P
  BY <1>1 DEF LinksInv
<1> QED
  BY <1>1, <1>2 DEF PoseLinks, PosesWith

(* Lists and superclasses go on agreeing, for classes and metaclasses.       *)
LEMMA LinksInvStep ==
  ASSUME TypeOK, LinksInv, NEW t \in Threads, Step(t)
  PROVE  LinksInv'
<1>1. CASE ~PoseLinks(t)
  <2>1. super' = super /\ subs' = subs
    BY <1>1, LinksKept DEF links
  <2> QED
    BY <2>1 DEF LinksInv
<1>2. CASE PoseLinks(t)
  <2>1. PICK I, P, others, metas : PosesWith(t, I, P, others, metas)
    BY <1>2, PoseLinksIs
  <2>2. /\ I \in Classes /\ P \in Classes /\ I # P /\ P = super[I] /\ others = subs[P] \ {I}
        /\ metas = MovedMetas(others)
    BY <2>1 DEF PosesWith
  <2>3. /\ \A c \in Classes : Meta(c) \in Linked /\ c \in Linked /\ Meta(c) \notin Classes
        /\ \A c, d \in Classes : Meta(c) = Meta(d) => c = d
        /\ \A x \in Linked : x \in Classes \/ \E c \in Classes : x = Meta(c)
        /\ Nil \notin Linked
    BY LinkedAssumption DEF Linked, Meta
  <2>4. /\ \A x \in Linked : \A y \in Linked : y \in subs[x] <=> super[y] = x
        /\ \A c \in Classes :
              /\ super[c] \in Classes \cup {Nil} /\ super[c] # c
              /\ super[c] # Nil => super[Meta(c)] = Meta(super[c])
              /\ super[c] = Nil => super[Meta(c)] \in Classes
        /\ subs \in [Linked -> SUBSET Linked]
    BY DEF LinksInv, TypeOK
  <2>5. /\ others \subseteq Linked /\ \A x \in Linked : x \in others <=> super[x] = P /\ x # I
    BY <2>2, <2>3, <2>4
  <2>6. /\ metas \subseteq Linked
        /\ \A x \in metas : \E c \in Classes : x = Meta(c) /\ c \in others /\ super[x] = Meta(P)
    BY <2>2, <2>3, <2>4, <2>5 DEF MovedMetas
  <2>7. \A c \in Classes : c \notin metas /\ (Meta(c) \in metas <=> c \in others)
    BY <2>2, <2>3, <2>6 DEF MovedMetas
  <2>8. \A x \in others : x \notin metas
    BY <2>2, <2>3, <2>5, <2>6
  <2>9. super' = [x \in Linked |-> IF x \in others THEN I
                                   ELSE IF x \in metas THEN Meta(I) ELSE super[x]]
    BY <2>1 DEF PosesWith
  <2>10. /\ subs'[I] = subs[I] \cup others /\ subs'[Meta(I)] = subs[Meta(I)] \cup metas
         /\ subs'[P] = {I} /\ subs'[Meta(P)] = {Meta(I)}
         /\ \A x \in Linked \ {I, Meta(I), P, Meta(P)} : subs'[x] = subs[x]
    <3>1. /\ {I, Meta(I), P, Meta(P)} \subseteq Linked
          /\ I # Meta(I) /\ I # P /\ I # Meta(P) /\ Meta(I) # P /\ Meta(I) # Meta(P) /\ P # Meta(P)
      BY <2>2, <2>3
    <3>2. subs' = [subs EXCEPT ![I] = @ \cup others, ![Meta(I)] = @ \cup metas,
                               ![P] = {I}, ![Meta(P)] = {Meta(I)}]
      BY <2>1 DEF PosesWith
    <3>3. DOMAIN subs = Linked
      BY <2>4
    <3> HIDE DEF Meta
    <3> QED
      BY <3>1, <3>2, <3>3
  <2>11. ASSUME NEW x \in Linked, NEW y \in Linked PROVE y \in subs'[x] <=> super'[y] = x
    <3>0. /\ y \in others => super'[y] = I /\ super[y] = P
          /\ y \in metas => super'[y] = Meta(I) /\ super[y] = Meta(P)
          /\ y \notin others /\ y \notin metas => super'[y] = super[y]
          /\ y \in subs[x] <=> super[y] = x
      BY <2>4, <2>5, <2>6, <2>8, <2>9
    <3>1. CASE x = I
      <4>1. I # Meta(I) /\ I # P /\ I # Meta(P)
        BY <2>2, <2>3
      <4> QED
        BY <2>10, <3>0, <3>1, <4>1
    <3>2. CASE x = Meta(I)
      <4>1. I # Meta(I) /\ Meta(I) # P /\ Meta(I) # Meta(P)
        BY <2>2, <2>3
      <4> QED
        BY <2>10, <3>0, <3>2, <4>1
    <3>3. CASE x = P
      <4>1. P # I /\ P # Meta(I) /\ P # Meta(P) /\ I \notin metas /\ super[I] = P
        BY <2>2, <2>3, <2>7
      <4>2. y \in others <=> super[y] = P /\ y # I
        BY <2>5
      <4> QED
        BY <2>10, <3>0, <3>3, <4>1, <4>2
    <3>4. CASE x = Meta(P)
      <4>1. CASE y \in Classes
        BY <2>2, <2>3, <2>4, <2>7, <2>9, <2>10, <3>4, <4>1
      <4>2. ASSUME NEW c \in Classes, y = Meta(c) PROVE y \in subs'[x] <=> super'[y] = x
        <5>1. super[y] = Meta(P) <=> c \in others \/ c = I
          BY <2>2, <2>3, <2>4, <2>5, <4>2
        <5>2. y \notin metas <=> c \notin others
          BY <2>7, <4>2
        <5>3. super'[y] = Meta(P) <=> super[y] = Meta(P) /\ y \notin metas
          BY <2>2, <2>3, <2>5, <2>9
        <5>4. I \notin others
          BY <2>2
        <5> QED
          BY <2>2, <2>3, <2>10, <3>4, <4>2, <5>1, <5>2, <5>3, <5>4
      <4> QED
        BY <2>3, <4>1, <4>2
    <3>5. CASE x \notin {I, Meta(I), P, Meta(P)}
      BY <2>4, <2>5, <2>6, <2>9, <2>10, <3>5
    <3> QED
      BY <3>1, <3>2, <3>3, <3>4, <3>5
  <2>12. ASSUME NEW c \in Classes
         PROVE  /\ super'[c] \in Classes \cup {Nil} /\ super'[c] # c
                /\ super'[c] # Nil => super'[Meta(c)] = Meta(super'[c])
                /\ super'[c] = Nil => super'[Meta(c)] \in Classes
                /\ c \in Registrable => super'[c] # Nil
    <3>1. c \in Linked /\ Meta(c) \in Linked /\ Nil \notin Classes
      BY <2>3
    <3>2. CASE c \in others
      <4>1. super'[c] = I /\ Meta(c) \in metas /\ Meta(c) \notin others
        BY <2>7, <2>8, <2>9, <3>1, <3>2
      <4>2. super'[Meta(c)] = Meta(I)
        BY <2>9, <3>1, <4>1
      <4> QED
        BY <2>2, <3>1, <3>2, <4>1, <4>2
    <3>3. CASE c \notin others
      <4>1. super'[c] = super[c] /\ Meta(c) \notin metas
        BY <2>7, <2>9, <3>1, <3>3
      <4>2. super'[Meta(c)] = IF Meta(c) \in others THEN I ELSE super[Meta(c)]
        BY <2>9, <3>1, <4>1
      <4>3. super[c] # Nil => Meta(c) \notin others
        BY <2>2, <2>3, <2>4, <2>5
      <4>4. c \in Registrable => super[c] # Nil
        BY DEF LinksInv
      <4> QED
        BY <2>2, <2>4, <4>1, <4>2, <4>3, <4>4
    <3> QED
      BY <3>2, <3>3
  <2>13. \A x \in Linked : subs'[x] \subseteq Linked
    <3>1. /\ I \in Linked /\ Meta(I) \in Linked
          /\ \A x \in Linked : subs[x] \subseteq Linked
          /\ others \subseteq Linked /\ metas \subseteq Linked
      BY <2>2, <2>3, <2>4, <2>5, <2>6
    <3> QED
      BY <2>10, <3>1
  <2>14. \A x \in Linked : subs'[x] = {y \in Linked : super'[y] = x}
    BY <2>11, <2>13
  <2>15. Registrable \subseteq Classes
    BY DEF Registrable
  <2> QED
    BY <2>12, <2>14, <2>15 DEF LinksInv
<1> QED
  BY <1>1, <1>2

-----------------------------------------------------------------------------
(* What a name leads to afterwards, where its chain has stayed as it was.    *)
LEMMA RegistryAfter ==
  ASSUME TypeOK, ChainsInv, NEW t \in Threads, Step(t), NEW c \in Registrable,
         table'[bucketOf[c]] = table[bucketOf[c]]
  PROVE  LET chain == table[bucketOf[c]]
         IN  /\ Named(c, chain) = {} => registry'[c] = Nil
             /\ \A i \in Named(c, chain) : registry'[c] = nodes'[chain[i]].pointer
<1> DEFINE chain == table[bucketOf[c]]
           places == {i \in DOMAIN chain : nodes'[chain[i]].name = c}
<1>1. NamesKept /\ bucketOf' = bucketOf
  BY TablesMove, OthersAlone DEF Alone
<1>2. chain \in Seq(DOMAIN nodes)
  BY ChainNodes DEF TypeOK
<1>3. places = Named(c, chain)
  BY <1>1, <1>2, PlacesKept
<1>4. registry'[c] = IF places = {} THEN Nil ELSE nodes'[chain[Min(places)]].pointer
  BY <1>1 DEF registry, Pointer, Named
<1>5. ASSUME NEW i \in Named(c, chain) PROVE places = {i} /\ Min(places) = i
  BY <1>3, <1>5, OneNamed, LeastOfOne
<1> HIDE DEF places
<1> QED
  BY <1>3, <1>4, <1>5

(* What a name leads to is changed by an insertion or a replacement only.    *)
LEMMA RegistryKept ==
  ASSUME TypeOK, ChainsInv, NEW t \in Threads, Step(t), ~InsertHead(t), ~ReplaceNode(t)
  PROVE  registry' = registry
<1>1. table' = table /\ \A n \in DOMAIN nodes : nodes'[n] = nodes[n]
  BY TablesMove
<1>2. ASSUME NEW c \in Registrable PROVE registry'[c] = registry[c]
  <2>1. bucketOf[c] \in Hashes
    BY DEF TypeOK
  <2>2. \A i \in Named(c, table[bucketOf[c]]) : table[bucketOf[c]][i] \in DOMAIN nodes
    BY <2>1, ChainNodes DEF Named
  <2>3. CASE Named(c, table[bucketOf[c]]) = {}
    BY <1>1, <2>3, RegistryIs, RegistryAfter
  <2>4. ASSUME NEW i \in Named(c, table[bucketOf[c]]) PROVE registry'[c] = registry[c]
    BY <1>1, <2>2, <2>4, RegistryIs, RegistryAfter
  <2> QED
    BY <2>3, <2>4
<1> QED
  BY <1>2 DEF registry

(* An insertion enters a class under its name.                               *)
Registers(t) ==
    /\ class[t] \in Registrable /\ registry[class[t]] = Nil
    /\ registry' = [registry EXCEPT ![class[t]] = class[t]]

(* Every insertion is that.                                                  *)
LEMMA InsertRegisters ==
  ASSUME TypeOK, ChainsInv, AddInv, NEW t \in Threads, Step(t), InsertHead(t)
  PROVE  Registers(t)
<1>1. PICK n : Inserts(t, n)
  BY InsertIs
<1> DEFINE k == class[t]
           b == bucketOf[k]
           chain == table[b]
           r == <<n>> \o chain
<1>2. /\ k \in Registrable /\ b \in Hashes /\ n \in DOMAIN nodes /\ nodes' = nodes
      /\ nodes[n] = [name |-> k, pointer |-> k] /\ Named(k, chain) = {}
  BY <1>1 DEF Inserts, Chain
<1>3. \A h \in Hashes : table'[h] = IF h = b THEN r ELSE table[h]
  BY <1>1, <1>2 DEF Inserts, Chain, TypeOK
<1>4. /\ chain \in Seq(DOMAIN nodes) /\ DOMAIN chain = 1..Len(chain) /\ Len(chain) \in Nat
  BY <1>2, ChainNodes
<1>5. r = <<n>> \o chain
  OBVIOUS
<1> HIDE DEF r
<1>6. /\ DOMAIN r = 1..(Len(chain) + 1) /\ r[1] = n /\ Len(r) = Len(chain) + 1
      /\ \A i \in 1..Len(chain) : r[i + 1] = chain[i]
      /\ \A i \in 2..Len(r) : i - 1 \in 1..Len(chain) /\ r[i] = chain[i - 1]
  BY <1>2, <1>4, <1>5, Pushed
<1>7. \A i \in DOMAIN r :
         i = 1 \/ (i - 1 \in DOMAIN chain /\ r[i] = chain[i - 1] /\ i = (i - 1) + 1)
  BY <1>4, <1>6
<1>8. \A i \in DOMAIN chain :
         i + 1 \in DOMAIN r /\ r[i + 1] = chain[i] /\ i + 1 # 1 /\ i + 1 \in Nat
  BY <1>4, <1>6
<1>9. 1 \in DOMAIN r
  BY <1>4, <1>6
<1>10. bucketOf' = bucketOf
  BY OthersAlone DEF Alone
<1>11. ASSUME NEW c \in Registrable, bucketOf[c] = b
       PROVE  registry'[c] = IF Named(c, r) = {} THEN Nil ELSE nodes[r[Min(Named(c, r))]].pointer
  <2>1. table'[bucketOf'[c]] = r
    BY <1>2, <1>3, <1>10, <1>11
  <2>2. registry'[c] = IF {i \in DOMAIN r : nodes'[r[i]].name = c} = {} THEN Nil
                       ELSE nodes'[r[Min({i \in DOMAIN r : nodes'[r[i]].name = c})]].pointer
    BY <2>1 DEF registry, Pointer, Named
  <2> QED
    BY <1>2, <2>2 DEF Named
<1> HIDE DEF b, chain
<1>12. registry'[k] = k
  <2>1. Named(k, r) = {1}
    BY <1>2, <1>6, <1>7, <1>9 DEF Named
  <2>2. Min(Named(k, r)) = 1
    BY <2>1, LeastOfOne
  <2>3. k \in Registrable /\ bucketOf[k] = b
    BY <1>2 DEF b
  <2>4. registry'[k] = nodes[r[1]].pointer
    BY <1>11, <2>1, <2>2, <2>3
  <2>5. nodes[r[1]].pointer = k
    BY <1>2, <1>6
  <2> QED
    BY <2>4, <2>5
<1>13. ASSUME NEW c \in Registrable, c # k PROVE registry'[c] = registry[c]
  <2>1. bucketOf[c] \in Hashes
    BY DEF TypeOK
  <2>2. CASE bucketOf[c] # b
    <3>1. table'[bucketOf[c]] = table[bucketOf[c]]
      BY <1>3, <2>1, <2>2
    <3>2. CASE Named(c, table[bucketOf[c]]) = {}
      BY <3>1, <3>2, RegistryIs, RegistryAfter
    <3>3. ASSUME NEW i \in Named(c, table[bucketOf[c]]) PROVE registry'[c] = registry[c]
      <4>1. registry[c] = nodes[table[bucketOf[c]][i]].pointer
        BY <3>3, RegistryIs
      <4>2. registry'[c] = nodes'[table[bucketOf[c]][i]].pointer
        BY <3>1, <3>3, RegistryAfter
      <4> QED
        BY <1>2, <4>1, <4>2
    <3> QED
      BY <3>2, <3>3
  <2>3. CASE bucketOf[c] = b
    <3>1. table[bucketOf[c]] = chain
      BY <2>3 DEF chain
    <3>2. CASE Named(c, chain) = {}
      <4>1. Named(c, r) = {}
        BY <1>2, <1>6, <1>7, <1>13, <3>2 DEF Named
      <4>2. registry'[c] = Nil
        BY <1>11, <2>3, <4>1
      <4> QED
        BY <3>1, <3>2, <4>2, RegistryIs
    <3>3. ASSUME NEW i \in Named(c, chain) PROVE registry'[c] = registry[c]
      <4>1. Named(c, chain) = {i} /\ i \in DOMAIN chain
        BY <3>1, <3>3, OneNamed
      <4>2. \A j \in DOMAIN r : nodes[r[j]].name = c => j = i + 1
        BY <1>2, <1>6, <1>7, <1>13, <4>1 DEF Named
      <4>3. i + 1 \in DOMAIN r /\ nodes[r[i + 1]].name = c /\ r[i + 1] = chain[i]
        BY <1>8, <3>3, <4>1 DEF Named
      <4>4. Named(c, r) = {i + 1}
        BY <4>2, <4>3 DEF Named
      <4>5. Min(Named(c, r)) = i + 1
        BY <1>8, <4>1, <4>4, LeastOfOne
      <4>6. registry'[c] = nodes[chain[i]].pointer
        BY <1>11, <2>3, <4>3, <4>4, <4>5
      <4> QED
        BY <3>1, <3>3, <4>6, RegistryIs
    <3> QED
      BY <3>2, <3>3
  <2> QED
    BY <2>2, <2>3
<1>14. registry[k] = Nil
  BY <1>2, RegistryIs DEF b, chain
<1> QED
  BY <1>2, <1>12, <1>13, <1>14 DEF Registers, registry

(* A replacement puts the impostor in the place of the class posed for,      *)
(* under one name, until no name leads to that class.                        *)
Replaces(t) ==
    \/ /\ pc'[t] = "rp_node"
       /\ \E d \in Registrable : /\ registry[d] = super[class[t]]
                                 /\ registry' = [registry EXCEPT ![d] = class[t]]
    \/ /\ pc'[t] = "rp_unlock" /\ registry' = registry
       /\ \A d \in Registrable : registry[d] # super[class[t]]

(* A step of class_table_replace does one or the other.                      *)
LEMMA ReplaceReplaces ==
  ASSUME TypeOK, ChainsInv, LinksInv, NEW t \in Threads, Step(t), ReplaceNode(t)
  PROVE  Replaces(t) /\ class[t] \in Registrable /\ super[class[t]] \in Classes
<1> DEFINE I == class[t]
           P == super[I]
           Leads(h) == {i \in DOMAIN table[h] : nodes[table[h][i]].pointer = P}
<1>1. pc[t] = "rp_node" /\ I \in Registrable /\ I \in Classes
  BY DEF ReplaceNode, At, TypeOK, ForClass, Registrable
<1>2. P \in Classes /\ P # Nil
  BY <1>1, LinkedAssumption DEF LinksInv, Linked
<1>3. table' = table /\ nodes \in Seq(Node)
  BY DEF ReplaceNode, TypeOK
<1>4. ASSUME NEW d \in Registrable, NEW i \in Named(d, table[bucketOf[d]])
      PROVE  /\ bucketOf[d] \in Hashes /\ i \in DOMAIN table[bucketOf[d]]
             /\ table[bucketOf[d]][i] \in DOMAIN nodes
             /\ registry[d] = nodes[table[bucketOf[d]][i]].pointer
             /\ registry'[d] = nodes'[table[bucketOf[d]][i]].pointer
  <2>1. bucketOf[d] \in Hashes /\ i \in DOMAIN table[bucketOf[d]]
    BY <1>4 DEF TypeOK, Named
  <2>2. table[bucketOf[d]][i] \in DOMAIN nodes
    BY <2>1, ChainNodes
  <2> QED
    BY <1>3, <1>4, <2>1, <2>2, RegistryIs, RegistryAfter
<1>5. ASSUME NEW d \in Registrable, Named(d, table[bucketOf[d]]) = {}
      PROVE  registry[d] = Nil /\ registry'[d] = Nil
  BY <1>3, <1>5, RegistryIs, RegistryAfter
<1>6. ASSUME NEW h \in Hashes, Leads(h) # {},
             nodes' = [nodes EXCEPT ![table[h][Min(Leads(h))]].pointer = I], pc' = pc
      PROVE  Replaces(t)
  <2>1. Leads(h) \in SUBSET Nat
    BY ChainNodes
  <2>2. Min(Leads(h)) \in Leads(h)
    <3> HIDE DEF Leads
    <3> QED
      BY <1>6, <2>1, LeastElement DEF Min
  <2> DEFINE i == Min(Leads(h))
             n == table[h][i]
             d == nodes[n].name
  <2>3. i \in DOMAIN table[h] /\ nodes[n].pointer = P
    BY <2>2
  <2> HIDE DEF i
  <2>4. n \in DOMAIN nodes /\ nodes[n] \in Node /\ d \in Registrable
    BY <2>3, ChainNodes DEF Node
  <2>5. bucketOf[d] = h /\ i \in Named(d, table[bucketOf[d]])
    BY <2>3 DEF ChainsInv, Named
  <2>6. /\ nodes'[n].pointer = I
        /\ \A m \in DOMAIN nodes : m # n => nodes'[m] = nodes[m]
    <3>1. nodes' = [nodes EXCEPT ![n].pointer = I]
      BY <1>6 DEF i
    <3>2. nodes'[n] = [nodes[n] EXCEPT !.pointer = I]
      BY <2>4, <3>1
    <3>3. nodes'[n].pointer = I
      BY <2>4, <3>2 DEF Node
    <3> QED
      BY <3>1, <3>3
  <2>7. registry[d] = P /\ registry'[d] = I
    BY <1>4, <2>3, <2>4, <2>5, <2>6
  <2>8. ASSUME NEW c \in Registrable, c # d PROVE registry'[c] = registry[c]
    <3>1. CASE Named(c, table[bucketOf[c]]) = {}
      BY <1>5, <3>1
    <3>2. ASSUME NEW j \in Named(c, table[bucketOf[c]]) PROVE registry'[c] = registry[c]
      <4>1. table[bucketOf[c]][j] # n
        BY <2>8, <3>2 DEF Named
      <4> QED
        BY <1>4, <2>6, <3>2, <4>1
    <3> QED
      BY <3>1, <3>2
  <2>9. registry' = [registry EXCEPT ![d] = I]
    BY <2>7, <2>8 DEF registry
  <2> QED
    BY <1>1, <1>6, <2>4, <2>7, <2>9 DEF Replaces
<1>7. ASSUME \A h \in Hashes : Leads(h) = {}, Goto(t, "rp_unlock"), nodes' = nodes
      PROVE  Replaces(t)
  <2>1. \A d \in Registrable : registry'[d] = registry[d]
    BY <1>4, <1>5, <1>7
  <2>2. ASSUME NEW d \in Registrable, registry[d] = P PROVE FALSE
    <3>1. PICK i \in Named(d, table[bucketOf[d]]) : TRUE
      BY <1>2, <1>5, <2>2
    <3>2. i \in Leads(bucketOf[d])
      BY <1>4, <2>2, <3>1
    <3> QED
      BY <1>4, <1>7, <3>1, <3>2
  <2>3. registry' = registry
    BY <2>1 DEF registry
  <2>4. pc'[t] = "rp_unlock"
    BY <1>7 DEF Goto, TypeOK
  <2> QED
    BY <2>2, <2>3, <2>4 DEF Replaces
<1>8. \/ \E h \in Hashes : /\ Leads(h) # {} /\ pc' = pc
                           /\ nodes' = [nodes EXCEPT ![table[h][Min(Leads(h))]].pointer = I]
      \/ (\A h \in Hashes : Leads(h) = {}) /\ Goto(t, "rp_unlock") /\ nodes' = nodes
  BY DEF ReplaceNode
<1> QED
  BY <1>1, <1>2, <1>6, <1>7, <1>8

-----------------------------------------------------------------------------
(* How a pose gets on: by its own steps, and it starts where no other is.    *)
LEMMA PoseMoves ==
  ASSUME TypeOK, NEW t \in Threads, Step(t)
  PROVE  \/ /\ ~Posing(t) /\ ~Posing(t)' /\ UNCHANGED links /\ ~ReplaceNode(t)
         \/ /\ pc'[t] = "ps_links" /\ class'[t] \in Registrable /\ MayPose(class'[t])
            /\ UNCHANGED links /\ ~ReplaceNode(t) /\ ~InsertHead(t)
         \/ PoseLinks(t) /\ pc[t] = "ps_links" /\ pc'[t] = "ps_lock" /\ class' = class
         \/ /\ pc[t] \in {"ps_lock", "rp_lock"} /\ pc'[t] \in Replacing /\ class' = class
            /\ UNCHANGED links /\ ~ReplaceNode(t) /\ ~InsertHead(t)
         \/ ReplaceNode(t) /\ pc[t] = "rp_node" /\ class' = class /\ UNCHANGED links
         \/ /\ pc[t] \in {"rp_unlock", "ps_unlock"} /\ pc'[t] \in {"ps_unlock", "program"}
            /\ UNCHANGED links /\ ~ReplaceNode(t) /\ ~InsertHead(t)
<1> USE DEF TypeOK, Posing, Replacing, At, Goto, locals
<1>1. CASE CallStep(t)
  <2>1. ~PoseLinks(t) /\ ~ReplaceNode(t) /\ ~InsertHead(t)
    BY <1>1 DEF CallStep, Call, NextCall, PoseLinks, ReplaceNode, InsertHead
  <2>2. UNCHANGED links
    BY <2>1, LinksKept
  <2>3. CASE \E c \in Registrable : MayPose(c) /\ Call(t, "ps_links", c)
    BY <2>1, <2>2, <2>3 DEF Call
  <2>4. CASE ~\E c \in Registrable : MayPose(c) /\ Call(t, "ps_links", c)
    BY <1>1, <2>1, <2>2, <2>4 DEF CallStep, Call, NextCall
  <2> QED
    BY <2>3, <2>4
<1>2. CASE LockStep(t)
  <2>1. ~PoseLinks(t) /\ ~ReplaceNode(t) /\ ~InsertHead(t)
    BY <1>2 DEF LockStep, LockAt, PoseLinks, ReplaceNode, InsertHead
  <2>2. UNCHANGED links
    BY <2>1, LinksKept
  <2> QED
    BY <1>2, <2>1, <2>2 DEF LockStep, LockAt
<1>3. CASE UnlockStep(t)
  <2>1. ~PoseLinks(t) /\ ~ReplaceNode(t) /\ ~InsertHead(t)
    BY <1>3 DEF UnlockStep, UnlockAt, UnlockAndReturn, PoseLinks, ReplaceNode, InsertHead
  <2>2. UNCHANGED links
    BY <2>1, LinksKept
  <2> QED
    BY <1>3, <2>1, <2>2 DEF UnlockStep, UnlockAt, UnlockAndReturn
<1>4. CASE AddFind(t) \/ InsertNext(t) \/ InsertHead(t)
  BY <1>4 DEF AddFind, InsertNext, InsertHead, ReplaceNode, links
<1>5. CASE Lookup(t)
  <2>1. UNCHANGED links
    BY <1>5 DEF Lookup, LookupHead, LookupNode, LookupEnd, LookupReturn
  <2>2. /\ pc[t] \in {"lk_head", "lk_node", "lk_return"}
        /\ pc'[t] \in {"lk_node", "lk_return", "program"}
    BY <1>5 DEF Lookup, LookupHead, LookupNode, LookupEnd, LookupReturn
  <2> QED
    BY <2>1, <2>2 DEF ReplaceNode
<1>6. CASE NextClass(t) \/ NextReturn(t)
  BY <1>6 DEF NextClass, NextReturn, ReplaceNode, links
<1>7. CASE PoseLinks(t)
  BY <1>7 DEF PoseLinks
<1>8. CASE ReplaceNode(t)
  BY <1>8 DEF ReplaceNode, links
<1> QED
  BY <1>1, <1>2, <1>3, <1>4, <1>5, <1>6, <1>7, <1>8, StepCases

(* What holds of one pose on its way.                                        *)
PoseOf(p, c) ==
    /\ p = "ps_links" => \A d \in {c, super[c]} \cap Registrable : ~PosedFor(d)
    /\ p \in Replacing => ~PosedFor(c) /\ subs[super[c]] = {c}
PosedForHolds(c) ==
    PosedFor(c) =>
       /\ \E impostor \in Linked : subs[c] = {impostor}
       /\ \A d \in Registrable : registry[d] = c =>
             \E t \in Threads : pc[t] \in Replacing /\ super[class[t]] = c
AtMostOnePoses == \A t, u \in Threads : Posing(t) /\ Posing(u) => t = u

(* A step that is not one of a pose leaves every class as well off as it was.*)
LEMMA NotPosedForBefore ==
  ASSUME TypeOK, ChainsInv, AddInv, NEW t \in Threads, Step(t), ~ReplaceNode(t)
  PROVE  \A c \in Registrable :
            /\ PosedFor(c)' => PosedFor(c)
            /\ PosedFor(c)' => \A d \in Registrable : registry'[d] = c => registry[d] = c
<1>1. CASE InsertHead(t)
  <2>1. Registers(t) /\ registry \in [Registrable -> Registrable \cup {Nil}]
    BY <1>1, InsertRegisters, RegistryIs DEF Registers
  <2> QED
    BY <2>1 DEF Registers, PosedFor
<1>2. CASE ~InsertHead(t)
  <2>1. registry' = registry
    BY <1>2, RegistryKept
  <2> QED
    BY <2>1 DEF PosedFor
<1> QED
  BY <1>1, <1>2

(* The links change where no class is posed for that they concern.           *)
LEMMA LinksOfPosedFor ==
  ASSUME TypeOK, ChainsInv, LinksInv, PoseInv, NEW t \in Threads, Step(t), PoseLinks(t)
  PROVE  /\ super'[class[t]] = super[class[t]] /\ subs'[super[class[t]]] = {class[t]}
         /\ \A c \in Registrable : PosedFor(c) => subs'[c] = subs[c]
         /\ ~PosedFor(class[t])
<1>1. PICK I, P, others, metas : PosesWith(t, I, P, others, metas)
  BY PoseLinksIs
<1>2. /\ I = class[t] /\ P = super[I] /\ others = subs[P] \ {I} /\ metas = MovedMetas(others)
      /\ I \in Registrable /\ I \in Classes /\ P \in Classes /\ I # P
  BY <1>1 DEF PosesWith
<1>3. /\ \A c \in Classes : Meta(c) \in Linked /\ c \in Linked /\ Meta(c) \notin Classes
      /\ \A c, d \in Classes : Meta(c) = Meta(d) => c = d
      /\ Registrable \subseteq Classes
  BY LinkedAssumption DEF Linked, Meta, Registrable
<1>4. /\ super' = [x \in Linked |-> IF x \in others THEN I
                                    ELSE IF x \in metas THEN Meta(I) ELSE super[x]]
      /\ subs' = [subs EXCEPT ![I] = @ \cup others, ![Meta(I)] = @ \cup metas,
                              ![P] = {I}, ![Meta(P)] = {Meta(I)}]
  BY <1>1 DEF PosesWith
<1>5. DOMAIN subs = Linked
  BY DEF TypeOK
<1>6. I \notin others /\ I \notin metas
  BY <1>2, <1>3 DEF MovedMetas
<1>7. super'[I] = P
  BY <1>2, <1>3, <1>4, <1>6
<1>8. subs'[P] = {I} /\ \A c \in Classes : c # I /\ c # P => subs'[c] = subs[c]
  <2>1. P # Meta(P) /\ P # Meta(I) /\ P \in Linked
        /\ \A c \in Classes : c \in Linked /\ c # Meta(P) /\ c # Meta(I)
    BY <1>2, <1>3
  <2> HIDE DEF Meta
  <2> QED
    BY <1>2, <1>4, <1>5, <2>1
<1>9. pc[t] = "ps_links"
  BY DEF PoseLinks, At
<1>10. ~PosedFor(I) /\ (P \in Registrable => ~PosedFor(P))
  BY <1>2, <1>9 DEF PoseInv
<1> QED
  BY <1>2, <1>3, <1>7, <1>8, <1>10

(* After a replacement a class is posed for if it was before or if its name  *)
(* has just been given to the impostor.                                      *)
LEMMA PosedForAfter ==
  ASSUME TypeOK, ChainsInv, LinksInv, PoseInv, NEW t \in Threads, Step(t), ReplaceNode(t)
  PROVE  /\ ~PosedFor(class[t])'
         /\ \A c \in Registrable : PosedFor(c)' => PosedFor(c) \/ c = super[class[t]]
         /\ \A c \in Registrable : PosedFor(c)' =>
               \A d \in Registrable : registry'[d] = c =>
                  registry[d] = c /\ (c = super[class[t]] => pc'[t] = "rp_node")
<1> DEFINE I == class[t]
           P == super[I]
<1>1. Replaces(t) /\ I \in Registrable /\ P \in Classes
  BY ReplaceReplaces
<1>2. ~PosedFor(I)
  BY DEF ReplaceNode, At, PoseInv, Replacing
<1>3. P # Nil /\ P # I
  BY <1>1, LinkedAssumption DEF LinksInv, Linked, Registrable
<1>4. registry \in [Registrable -> Registrable \cup {Nil}] /\ Nil \notin Registrable
  BY <1>1, RegistryIs
<1>5. class' = class
  BY DEF ReplaceNode, locals
<1>6. CASE registry' = registry /\ \A d \in Registrable : registry[d] # P
  BY <1>5, <1>2, <1>6 DEF PosedFor
<1>7. ASSUME pc'[t] = "rp_node", NEW d \in Registrable, registry[d] = P,
             registry' = [registry EXCEPT ![d] = I]
      PROVE  /\ ~PosedFor(I)'
             /\ \A c \in Registrable : PosedFor(c)' => PosedFor(c) \/ c = P
             /\ \A c \in Registrable : PosedFor(c)' =>
                   \A e \in Registrable : registry'[e] = c => registry[e] = c
  <2>1. d # I
    BY <1>2, <1>3, <1>7 DEF PosedFor
  <2>2. \A e \in Registrable : registry'[e] = IF e = d THEN I ELSE registry[e]
    BY <1>4, <1>7
  <2>3. ~PosedFor(I)'
    BY <1>5, <1>1, <1>2, <2>1, <2>2 DEF PosedFor
  <2>4. \A c \in Registrable : PosedFor(c)' => PosedFor(c) \/ c = P
    BY <1>3, <1>7, <2>2 DEF PosedFor
  <2>5. \A c \in Registrable : PosedFor(c)' =>
           \A e \in Registrable : registry'[e] = c => registry[e] = c
    BY <1>5, <2>2, <2>3
  <2> QED
    BY <2>3, <2>4, <2>5
<1> QED
  BY <1>1, <1>6, <1>7 DEF Replaces

(* A pose leaves the class posed for with the impostor as its subclass and   *)
(* without a name, and no step spoils that.                                  *)
LEMMA PoseInvStep ==
  ASSUME TypeOK, ChainsInv, AddInv, LinksInv, PoseInv, NEW t \in Threads, Step(t)
  PROVE  PoseInv'
<1> USE DEF Posing, Replacing
<1>1. Alone(t)
  BY OthersAlone
<1>2. /\ AtMostOnePoses /\ \A u \in Threads : PoseOf(pc[u], class[u])
      /\ \A c \in Registrable : PosedForHolds(c)
  BY DEF PoseInv, AtMostOnePoses, PoseOf, PosedForHolds
<1>3. ASSUME /\ AtMostOnePoses' /\ \A u \in Threads : PoseOf(pc[u], class[u])'
             /\ \A c \in Registrable : PosedForHolds(c)'
      PROVE  PoseInv'
  BY <1>3 DEF PoseInv, AtMostOnePoses, PoseOf, PosedForHolds
<1>4. ASSUME UNCHANGED links, ~ReplaceNode(t), NEW u \in Threads,
             pc'[u] = pc[u] \/ (pc[u] \in Replacing /\ pc'[u] \in Replacing), class'[u] = class[u]
      PROVE  PoseOf(pc[u], class[u])'
  <2>1. super' = super /\ subs' = subs /\ PoseOf(pc[u], class[u])
    BY <1>2, <1>4 DEF links
  <2>2. \A c \in Registrable : PosedFor(c)' => PosedFor(c)
    BY <1>4, NotPosedForBefore
  <2>3. pc[u] \in Replacing \cup {"ps_links"} => class[u] \in Registrable
    BY DEF TypeOK, ForClass
  <2> QED
    BY <1>4, <2>1, <2>2, <2>3 DEF PoseOf
<1>5. ASSUME UNCHANGED links, ~ReplaceNode(t),
             \A u \in Threads : pc[u] \in Replacing => pc'[u] \in Replacing /\ class'[u] = class[u]
      PROVE  \A c \in Registrable : PosedForHolds(c)'
  <2>1. SUFFICES ASSUME NEW c \in Registrable, PosedFor(c)' PROVE PosedForHolds(c)'
    BY DEF PosedForHolds
  <2>2. PosedFor(c) /\ \A d \in Registrable : registry'[d] = c => registry[d] = c
    BY <1>5, <2>1, NotPosedForBefore
  <2>3. super' = super /\ subs' = subs
    BY <1>5 DEF links
  <2>4. \A d \in Registrable : registry'[d] = c =>
           \E u \in Threads : pc[u] \in Replacing /\ super[class[u]] = c
    BY <1>2, <2>2 DEF PosedForHolds
  <2>5. \A d \in Registrable : registry'[d] = c =>
           \E u \in Threads : pc'[u] \in Replacing /\ super'[class'[u]] = c
    BY <1>5, <2>3, <2>4
  <2> QED
    BY <1>2, <2>2, <2>3, <2>5 DEF PosedForHolds
<1>6. CASE ~Posing(t) /\ ~Posing(t)' /\ UNCHANGED links /\ ~ReplaceNode(t)
  <2>1. AtMostOnePoses'
    BY <1>1, <1>2, <1>6 DEF AtMostOnePoses, Alone
  <2>2. \A u \in Threads \ {t} : PoseOf(pc[u], class[u])'
    BY <1>1, <1>4, <1>6 DEF Alone
  <2>3. PoseOf(pc[t], class[t])'
    BY <1>6 DEF PoseOf
  <2>4. \A u \in Threads : pc[u] \in Replacing => pc'[u] \in Replacing /\ class'[u] = class[u]
    BY <1>1, <1>6 DEF Alone
  <2> QED
    BY <1>3, <1>5, <1>6, <2>1, <2>2, <2>3, <2>4
<1>7. CASE /\ pc'[t] = "ps_links" /\ class'[t] \in Registrable /\ MayPose(class'[t])
           /\ UNCHANGED links /\ ~ReplaceNode(t) /\ ~InsertHead(t)
  <2>1. registry' = registry /\ super' = super
    BY <1>7, RegistryKept DEF links
  <2>2. /\ \A u \in Threads : ~Posing(u)
        /\ \A c \in {class'[t], super[class'[t]]} \cap Registrable : ~PosedFor(c)
    BY <1>7 DEF MayPose, PosedFor
  <2>3. AtMostOnePoses'
    BY <1>1, <2>2 DEF AtMostOnePoses, Alone
  <2>4. \A u \in Threads \ {t} : PoseOf(pc[u], class[u])'
    BY <1>1, <1>4, <1>7 DEF Alone
  <2>5. PoseOf(pc[t], class[t])'
    BY <1>7, <2>1, <2>2 DEF PoseOf, PosedFor
  <2>6. \A u \in Threads : pc[u] \notin Replacing
    BY <2>2
  <2> QED
    BY <1>3, <1>5, <1>7, <2>3, <2>4, <2>5, <2>6
<1>8. CASE PoseLinks(t) /\ pc[t] = "ps_links" /\ pc'[t] = "ps_lock" /\ class' = class
  <2>1. ~InsertHead(t) /\ ~ReplaceNode(t)
    BY <1>8 DEF InsertHead, ReplaceNode, At
  <2>2. registry' = registry
    BY <2>1, RegistryKept
  <2>3. /\ super'[class[t]] = super[class[t]] /\ subs'[super[class[t]]] = {class[t]}
        /\ \A c \in Registrable : PosedFor(c) => subs'[c] = subs[c]
        /\ ~PosedFor(class[t])
    BY <1>8, LinksOfPosedFor
  <2>4. \A u \in Threads \ {t} : ~Posing(u) /\ ~Posing(u)'
    BY <1>1, <1>2, <1>8 DEF AtMostOnePoses, Alone
  <2>5. AtMostOnePoses'
    BY <2>4 DEF AtMostOnePoses
  <2>6. \A u \in Threads \ {t} : PoseOf(pc[u], class[u])'
    BY <2>4 DEF PoseOf
  <2>7. PoseOf(pc[t], class[t])'
    BY <1>8, <2>2, <2>3 DEF PoseOf, PosedFor
  <2>8. \A c \in Registrable : PosedForHolds(c)'
    <3>1. SUFFICES ASSUME NEW c \in Registrable, PosedFor(c) PROVE PosedForHolds(c)'
      BY <2>2 DEF PosedForHolds, PosedFor
    <3>2. \A d \in Registrable : registry[d] # c
      BY <1>2, <1>8, <2>4, <3>1 DEF PosedForHolds
    <3> QED
      BY <1>2, <2>2, <2>3, <3>1, <3>2 DEF PosedForHolds
  <2> QED
    BY <1>3, <2>5, <2>6, <2>7, <2>8
<1>9. CASE /\ pc[t] \in {"ps_lock", "rp_lock"} /\ pc'[t] \in Replacing /\ class' = class
           /\ UNCHANGED links /\ ~ReplaceNode(t) /\ ~InsertHead(t)
  <2>1. AtMostOnePoses'
    BY <1>1, <1>2, <1>9 DEF AtMostOnePoses, Alone
  <2>2. \A u \in Threads : PoseOf(pc[u], class[u])'
    BY <1>1, <1>4, <1>9 DEF Alone
  <2>3. \A u \in Threads : pc[u] \in Replacing => pc'[u] \in Replacing /\ class'[u] = class[u]
    BY <1>1, <1>9 DEF Alone
  <2> QED
    BY <1>3, <1>5, <1>9, <2>1, <2>2, <2>3
<1>10. CASE ReplaceNode(t) /\ pc[t] = "rp_node" /\ class' = class /\ UNCHANGED links
  <2>1. super' = super /\ subs' = subs /\ (pc'[t] = "rp_node" \/ pc'[t] = "rp_unlock")
    BY <1>10 DEF links, ReplaceNode, Goto, TypeOK
  <2>2. /\ ~PosedFor(class[t])'
        /\ \A c \in Registrable : PosedFor(c)' => PosedFor(c) \/ c = super[class[t]]
        /\ \A c \in Registrable : PosedFor(c)' =>
              \A d \in Registrable : registry'[d] = c =>
                 registry[d] = c /\ (c = super[class[t]] => pc'[t] = "rp_node")
    BY <1>10, PosedForAfter
  <2>3. \A u \in Threads \ {t} : ~Posing(u) /\ ~Posing(u)'
    BY <1>1, <1>2, <1>10 DEF AtMostOnePoses, Alone
  <2>4. AtMostOnePoses'
    BY <2>3 DEF AtMostOnePoses
  <2>5. \A u \in Threads \ {t} : PoseOf(pc[u], class[u])'
    BY <2>3 DEF PoseOf
  <2>6. subs[super[class[t]]] = {class[t]}
    BY <1>2, <1>10 DEF PoseOf
  <2>7. PoseOf(pc[t], class[t])'
    BY <1>10, <2>1, <2>2, <2>6 DEF PoseOf, PosedFor
  <2>8. ASSUME NEW c \in Registrable, PosedFor(c)' PROVE PosedForHolds(c)'
    <3>1. \E impostor \in Linked : subs'[c] = {impostor}
      <4>1. CASE PosedFor(c)
        BY <1>2, <2>1, <4>1 DEF PosedForHolds
      <4>2. CASE c = super[class[t]]
        <5>1. class[t] \in Linked
          BY <1>10 DEF TypeOK, ForClass, Registrable, Linked
        <5> QED
          BY <2>1, <2>6, <4>2, <5>1
      <4> QED
        BY <2>2, <2>8, <4>1, <4>2
    <3>2. ASSUME NEW d \in Registrable, registry'[d] = c
          PROVE  \E u \in Threads : pc'[u] \in Replacing /\ super'[class'[u]] = c
      <4>1. registry[d] = c /\ (c = super[class[t]] => pc'[t] = "rp_node")
        BY <2>2, <2>8, <3>2
      <4>2. CASE c = super[class[t]]
        BY <1>10, <2>1, <4>1, <4>2
      <4>3. CASE c # super[class[t]]
        <5>1. PICK u \in Threads : pc[u] \in Replacing /\ super[class[u]] = c
          BY <1>2, <2>2, <2>8, <4>1, <4>3 DEF PosedForHolds
        <5> QED
          BY <2>3, <4>3, <5>1
      <4> QED
        BY <4>2, <4>3
    <3> QED
      BY <3>1, <3>2 DEF PosedForHolds
  <2>9. \A c \in Registrable : PosedForHolds(c)'
    BY <2>8 DEF PosedForHolds
  <2> QED
    BY <1>3, <2>4, <2>5, <2>7, <2>9
<1>11. CASE /\ pc[t] \in {"rp_unlock", "ps_unlock"} /\ pc'[t] \in {"ps_unlock", "program"}
            /\ UNCHANGED links /\ ~ReplaceNode(t) /\ ~InsertHead(t)
  <2>1. AtMostOnePoses'
    BY <1>1, <1>2, <1>11 DEF AtMostOnePoses, Alone
  <2>2. \A u \in Threads \ {t} : PoseOf(pc[u], class[u])'
    BY <1>1, <1>4, <1>11 DEF Alone
  <2>3. PoseOf(pc[t], class[t])'
    BY <1>11 DEF PoseOf
  <2>4. \A u \in Threads : pc[u] \in Replacing => pc'[u] \in Replacing /\ class'[u] = class[u]
    BY <1>1, <1>11 DEF Alone
  <2> QED
    BY <1>3, <1>5, <1>11, <2>1, <2>2, <2>3, <2>4
<1> QED
  BY <1>6, <1>7, <1>8, <1>9, <1>10, <1>11, PoseMoves

-----------------------------------------------------------------------------
(* Values keep their types.                                                  *)
NodeTypes ==
    /\ nodes \in Seq(Node) /\ table \in [Hashes -> Seq(DOMAIN nodes)]
    /\ node \in [Threads -> Seq(DOMAIN nodes)]
    /\ enum \in [Threads -> [hash : Hashes, node : Seq(DOMAIN nodes)]]
    /\ due \in [Threads -> SUBSET (DOMAIN nodes)]
    /\ visited \in [Threads -> Seq(DOMAIN nodes)]

(* The nodes keep theirs: there are only ever more of them.                  *)
LEMMA NodeTypesStep ==
  ASSUME TypeOK, ChainsInv, AddInv, EnumInv, NEW t \in Threads, Step(t)
  PROVE  NodeTypes'
<1>1. CASE UNCHANGED <<nodes, table, node, enum, due, visited>>
  BY <1>1 DEF TypeOK, NodeTypes
<1>2. CASE InsertNext(t)
  <2> DEFINE new == [name |-> class[t], pointer |-> class[t]]
  <2>1. class[t] \in Registrable /\ nodes \in Seq(Node) /\ bucketOf[class[t]] \in Hashes
    BY <1>2 DEF InsertNext, At, TypeOK, ForClass, Adding
  <2>2. new \in Node
    BY <2>1 DEF Node
  <2>3. nodes' = Append(nodes, new)
    BY <1>2 DEF InsertNext
  <2> HIDE DEF new
  <2>4. nodes' \in Seq(Node) /\ DOMAIN nodes \subseteq DOMAIN nodes' /\ Len(nodes') \in DOMAIN nodes'
    BY <2>1, <2>2, <2>3, AppendProperties
  <2>5. Seq(DOMAIN nodes) \subseteq Seq(DOMAIN nodes')
    BY <2>4, SeqMonotonic
  <2>6. /\ table' \in [Hashes -> Seq(DOMAIN nodes')]
        /\ enum' \in [Threads -> [hash : Hashes, node : Seq(DOMAIN nodes')]]
        /\ due' \in [Threads -> SUBSET (DOMAIN nodes')]
        /\ visited' \in [Threads -> Seq(DOMAIN nodes')]
    BY <1>2, <2>4, <2>5 DEF InsertNext, TypeOK, enumeration
  <2>7. table[bucketOf[class[t]]] \in Seq(DOMAIN nodes')
    BY <2>1, <2>5, ChainNodes
  <2>8. <<Len(nodes')>> \o table[bucketOf[class[t]]] \in Seq(DOMAIN nodes')
    BY <2>4, <2>7, Pushed
  <2>9. node' \in [Threads -> Seq(DOMAIN nodes')]
    BY <1>2, <2>5, <2>8 DEF InsertNext, TypeOK
  <2> QED
    BY <2>4, <2>6, <2>9 DEF NodeTypes
<1>3. CASE InsertHead(t)
  BY <1>3 DEF InsertHead, TypeOK, NodeTypes, links, locals, enumeration
<1>4. CASE Lookup(t)
  <2>1. UNCHANGED <<nodes, table, enum, due, visited>>
    BY <1>4 DEF Lookup, LookupHead, LookupNode, LookupEnd, LookupReturn, chains, enumeration
  <2>2. node' \in [Threads -> Seq(DOMAIN nodes)]
    <3>1. CASE LookupHead(t)
      <4>1. bucketOf[class[t]] \in Hashes
        BY <3>1 DEF LookupHead, At, TypeOK, ForClass
      <4> QED
        BY <3>1, <4>1 DEF LookupHead, TypeOK
    <3>2. CASE LookupNode(t)
      <4>1. Tail(node[t]) \in Seq(DOMAIN nodes)
        BY <3>2 DEF LookupNode, TypeOK, NoNode
      <4> QED
        BY <3>2, <4>1 DEF LookupNode, TypeOK
    <3>3. CASE LookupEnd(t)
      BY <3>3 DEF LookupEnd, TypeOK
    <3>4. CASE LookupReturn(t)
      <4>1. <<>> \in Seq(DOMAIN nodes)
        OBVIOUS
      <4> QED
        BY <3>4, <4>1 DEF LookupReturn, ForgetLocals, TypeOK, NoNode
    <3> QED
      BY <1>4, <3>1, <3>2, <3>3, <3>4 DEF Lookup
  <2> QED
    BY <2>1, <2>2 DEF TypeOK, NodeTypes
<1>5. CASE NextClass(t)
  <2>1. PICK e, f : e = enum[t] /\ f = TableNext(enum[t])
    OBVIOUS
  <2>2. UNCHANGED <<nodes, table, node>>
    BY <1>5 DEF NextClass, chains, locals
  <2>3. e \in Enumerators /\ (e = NoEnumerator \/ WellPlaced(e)) /\ f = TableNext(e)
    BY <2>1 DEF TypeOK, Enumerators, EnumInv, Enumerating, WellPlaced
  <2>4. f \in Enumerators /\ (f # NoEnumerator => Head(f.node) \in DOMAIN nodes)
    BY <2>3, NextIs
  <2>5. InTable \subseteq DOMAIN nodes
    BY ChainNodes DEF InTable, ToSet
  <2>6. /\ enum' = [enum EXCEPT ![t] = f]
        /\ due' = [due EXCEPT ![t] = IF enum[t] = NoEnumerator THEN InTable ELSE @]
        /\ visited' = [visited EXCEPT ![t] =
               IF f = NoEnumerator THEN @ ELSE Append(@, Head(f.node))]
    BY <1>5, <2>1 DEF NextClass
  <2>7. enum' \in [Threads -> [hash : Hashes, node : Seq(DOMAIN nodes)]]
    BY <2>4, <2>6 DEF TypeOK, Enumerators
  <2>8. due' \in [Threads -> SUBSET (DOMAIN nodes)]
    BY <2>5, <2>6 DEF TypeOK
  <2>9. visited' \in [Threads -> Seq(DOMAIN nodes)]
    <3>1. visited \in [Threads -> Seq(DOMAIN nodes)]
      BY DEF TypeOK
    <3>2. f # NoEnumerator => Append(visited[t], Head(f.node)) \in Seq(DOMAIN nodes)
      BY <2>4, <3>1, AppendProperties
    <3> QED
      BY <2>6, <3>1, <3>2
  <2> QED
    BY <2>2, <2>7, <2>8, <2>9 DEF TypeOK, NodeTypes
<1>6. CASE NextReturn(t)
  <2>1. UNCHANGED <<nodes, table, node, enum>>
    BY <1>6 DEF NextReturn, chains, locals
  <2>2. \/ due' = due /\ visited' = visited
        \/ due' = [due EXCEPT ![t] = {}] /\ visited' = [visited EXCEPT ![t] = <<>>]
    BY <1>6 DEF NextReturn
  <2>3. <<>> \in Seq(DOMAIN nodes)
    OBVIOUS
  <2>4. due' \in [Threads -> SUBSET (DOMAIN nodes)]
    BY <2>2 DEF TypeOK
  <2>5. visited' \in [Threads -> Seq(DOMAIN nodes)]
    BY <2>2, <2>3 DEF TypeOK
  <2> QED
    BY <2>1, <2>4, <2>5 DEF TypeOK, NodeTypes
<1>7. CASE UnlockStep(t)
  <2>1. UNCHANGED <<nodes, table, enum, due, visited>>
    BY <1>7 DEF UnlockStep, UnlockAt, UnlockAndReturn, chains, enumeration
  <2>2. node' = node \/ node' = [node EXCEPT ![t] = <<>>]
    BY <1>7 DEF UnlockStep, UnlockAt, UnlockAndReturn, ForgetLocals, locals, NoNode
  <2>3. <<>> \in Seq(DOMAIN nodes)
    OBVIOUS
  <2> QED
    BY <2>1, <2>2, <2>3 DEF TypeOK, NodeTypes
<1>8. CASE CallStep(t) \/ LockStep(t) \/ AddFind(t) \/ PoseLinks(t)
  <2>1. UNCHANGED <<nodes, table, node, enum, due, visited>>
    BY <1>8
    DEF CallStep, Call, NextCall, LockStep, LockAt, AddFind, PoseLinks, chains, enumeration, locals
  <2> QED
    BY <1>1, <2>1
<1>9. CASE ReplaceNode(t)
  <2>1. UNCHANGED <<table, node, enum, due, visited>>
    BY <1>9 DEF ReplaceNode, locals, enumeration
  <2>2. class[t] \in Registrable /\ nodes \in Seq(Node)
    BY <1>9 DEF ReplaceNode, At, TypeOK, ForClass
  <2>3. nodes' = nodes \/ \E n : nodes' = [nodes EXCEPT ![n].pointer = class[t]]
    BY <1>9 DEF ReplaceNode
  <2>4. ASSUME NEW n, nodes' = [nodes EXCEPT ![n].pointer = class[t]]
        PROVE  nodes' \in Seq(Node) /\ DOMAIN nodes' = DOMAIN nodes
    <3>1. CASE n \in DOMAIN nodes
      <4>1. nodes[n] \in Node /\ n \in 1..Len(nodes)
        BY <2>2, <3>1
      <4> DEFINE new == [nodes[n] EXCEPT !.pointer = class[t]]
      <4>2. new \in Node
        BY <2>2, <4>1 DEF Node
      <4>3. nodes' = [nodes EXCEPT ![n] = new]
        BY <2>4
      <4> HIDE DEF new
      <4> QED
        BY <2>2, <4>1, <4>2, <4>3, ExceptSeq
    <3>2. CASE n \notin DOMAIN nodes
      <4>1. nodes' = nodes
        BY <2>2, <2>4, <3>2
      <4> QED
        BY <2>2, <4>1
    <3> QED
      BY <3>1, <3>2
  <2>5. nodes' \in Seq(Node) /\ DOMAIN nodes' = DOMAIN nodes
    BY <2>2, <2>3, <2>4
  <2> QED
    BY <2>1, <2>5 DEF TypeOK, NodeTypes
<1> QED
  BY <1>2, <1>3, <1>4, <1>5, <1>6, <1>7, <1>8, <1>9, StepCases

(* So do the threads' places and classes, the mutex and the links.           *)
LEMMA TypeStep ==
  ASSUME TypeOK, ChainsInv, AddInv, EnumInv, LinksInv, NEW t \in Threads, Step(t)
  PROVE  TypeOK'
<1>1. NodeTypes' /\ bucketOf' \in [Registrable -> Hashes]
  BY NodeTypesStep, OthersAlone DEF Alone, TypeOK
<1>2. super' \in [Linked -> Linked \cup {Nil}] /\ subs' \in [Linked -> SUBSET Linked]
  <2>1. CASE PoseLinks(t)
    <3>1. PICK I, P, others, metas : PosesWith(t, I, P, others, metas)
      BY <2>1, PoseLinksIs
    <3>2. /\ I \in Linked /\ Meta(I) \in Linked /\ P \in Linked
          /\ others \subseteq Linked /\ metas \subseteq Linked
      BY <3>1 DEF PosesWith, Linked, TypeOK, MovedMetas
    <3>3. /\ super' = [x \in Linked |-> IF x \in others THEN I
                                        ELSE IF x \in metas THEN Meta(I) ELSE super[x]]
          /\ subs' = [subs EXCEPT ![I] = @ \cup others, ![Meta(I)] = @ \cup metas,
                                  ![P] = {I}, ![Meta(P)] = {Meta(I)}]
      BY <3>1 DEF PosesWith
    <3>4. super \in [Linked -> Linked \cup {Nil}] /\ subs \in [Linked -> SUBSET Linked]
      BY DEF TypeOK
    <3> HIDE DEF Meta
    <3>5. super' \in [Linked -> Linked \cup {Nil}]
      BY <3>2, <3>3, <3>4
    <3>6. subs' \in [Linked -> SUBSET Linked]
      BY <3>2, <3>3, <3>4
    <3> QED
      BY <3>5, <3>6
  <2>2. CASE ~PoseLinks(t)
    BY <2>2, LinksKept DEF links, TypeOK
  <2> QED
    BY <2>1, <2>2
<1>3. holder' \in Threads \cup {NoThread} /\ depth' \in Nat
  <2>1. \/ UNCHANGED lock \/ TableLock!Acquire(t) \/ TableLock!Reenter(t) \/ Unlock(t)
    BY StepCases
    DEF CallStep, Call, NextCall, LockStep, LockAt, UnlockStep, UnlockAt, UnlockAndReturn,
        AddFind, InsertNext, InsertHead, Lookup, LookupHead, LookupNode, LookupEnd, LookupReturn,
        NextClass, NextReturn, PoseLinks, ReplaceNode
  <2> QED
    BY <2>1 DEF TypeOK, lock, Unlock, TableLock!Acquire, TableLock!Reenter,
                TableLock!UnlockInner, TableLock!UnlockOuter
<1>4. /\ pc' \in [Threads -> Labels]
      /\ class' \in [Threads -> Registrable \cup {Nil}]
      /\ calls' \in Nat
      /\ pc'[t] \in ForClass => class'[t] \in Registrable
  <2> USE DEF TypeOK, Goto, At, Labels, ForClass, Adding, locals
  <2>1. CASE CallStep(t)
    <3>1. CASE NextCall(t)
      BY <3>1 DEF NextCall
    <3>2. ASSUME NEW l \in {"ad_lock", "lk_head", "ps_links"}, NEW c \in Registrable, Call(t, l, c)
          PROVE  /\ pc' \in [Threads -> Labels]
                 /\ class' \in [Threads -> Registrable \cup {Nil}]
                 /\ calls' \in Nat
                 /\ pc'[t] \in ForClass => class'[t] \in Registrable
      BY <3>2 DEF Call
    <3>3. CASE Call(t, "en_lock", Nil)
      BY <3>3 DEF Call
    <3> QED
      BY <2>1, <3>1, <3>2, <3>3 DEF CallStep
  <2>2. CASE LockStep(t)
    BY <2>2 DEF LockStep, LockAt
  <2>3. CASE UnlockStep(t)
    BY <2>3 DEF UnlockStep, UnlockAt, UnlockAndReturn, ForgetLocals
  <2>4. CASE AddFind(t) \/ InsertNext(t) \/ InsertHead(t)
    BY <2>4 DEF AddFind, InsertNext, InsertHead
  <2>5. CASE Lookup(t)
    BY <2>5 DEF Lookup, LookupHead, LookupNode, LookupEnd, LookupReturn, ForgetLocals
  <2>6. CASE NextClass(t)
    BY <2>6 DEF NextClass
  <2>7. CASE NextReturn(t)
    BY <2>7 DEF NextReturn
  <2>8. CASE PoseLinks(t) \/ ReplaceNode(t)
    BY <2>8 DEF PoseLinks, ReplaceNode
  <2> QED
    BY <2>1, <2>2, <2>3, <2>4, <2>5, <2>6, <2>7, <2>8, StepCases
<1>5. answer' \in [Threads -> Registrable \cup {Nil}]
  <2>1. CASE LookupEnd(t)
    <3>1. node[t] # NoNode => nodes[Head(node[t])].pointer \in Registrable
      <4>1. node[t] \in Seq(DOMAIN nodes) /\ nodes \in Seq(Node)
        BY DEF TypeOK
      <4>2. node[t] # NoNode => Head(node[t]) \in DOMAIN nodes
        BY <4>1 DEF NoNode
      <4>3. node[t] # NoNode => nodes[Head(node[t])] \in Node
        BY <4>1, <4>2
      <4> QED
        BY <4>3 DEF Node
    <3> QED
      BY <2>1, <3>1 DEF LookupEnd, TypeOK
  <2>2. CASE ~LookupEnd(t)
    <3>1. answer' = answer \/ answer' = [answer EXCEPT ![t] = Nil]
      BY <2>2, StepCases
      DEF CallStep, Call, NextCall, LockStep, LockAt, UnlockStep, UnlockAt, UnlockAndReturn,
          AddFind, InsertNext, InsertHead, Lookup, LookupHead, LookupNode, LookupReturn,
          NextClass, NextReturn, PoseLinks, ReplaceNode, ForgetLocals, locals
    <3> QED
      BY <3>1 DEF TypeOK
  <2> QED
    BY <2>1, <2>2
<1>6. \A u \in Threads : pc'[u] \in ForClass => class'[u] \in Registrable
  <2>1. \A u \in Threads : pc[u] \in ForClass => class[u] \in Registrable
    BY DEF TypeOK
  <2>2. \A u \in Threads \ {t} : pc'[u] = pc[u] /\ class'[u] = class[u]
    BY OthersAlone DEF Alone
  <2> QED
    BY <1>4, <2>1, <2>2
<1> QED
  BY <1>1, <1>2, <1>3, <1>4, <1>5, <1>6 DEF TypeOK, NodeTypes

-----------------------------------------------------------------------------
(* The table that a program finds, and the classes as it links them.         *)
LEMMA InitInv == Init => IInv
<1> SUFFICES ASSUME Init PROVE IInv
  OBVIOUS
<1>1. PICK order \in Registered :
        /\ nodes = [i \in DOMAIN order |-> [name |-> order[i], pointer |-> order[i]]]
        /\ table \in [Hashes -> SeqOf(DOMAIN order, Len(order))]
        /\ \A h \in Hashes : /\ ToSet(table[h]) = {i \in DOMAIN order : bucketOf[order[i]] = h}
                             /\ \A i, j \in DOMAIN table[h] : i < j => table[h][i] > table[h][j]
  BY DEF Init
<1>2. order \in Seq(Registrable) /\ IsInjective(order) /\ DOMAIN order = 1..Len(order)
  BY RegisteredAssumption
<1>3. /\ DOMAIN nodes = DOMAIN order
      /\ \A i \in DOMAIN order :
            nodes[i] = [name |-> order[i], pointer |-> order[i]] /\ order[i] \in Registrable
  BY <1>1, <1>2
<1>4. nodes \in Seq(Node)
  <2>1. \A i \in 1..Len(order) : nodes[i] \in Node
    BY <1>2, <1>3 DEF Node
  <2>2. nodes \in [1..Len(order) -> Node] /\ Len(order) \in Nat
    BY <1>1, <1>2, <1>3, <2>1
  <2> QED
    BY <2>2
<1>5. table \in [Hashes -> Seq(DOMAIN nodes)]
  <2>1. SeqOf(DOMAIN order, Len(order)) \subseteq Seq(DOMAIN order)
    BY DEF SeqOf
  <2> QED
    BY <1>1, <1>3, <2>1
<1>6. Nil \notin Linked /\ Registrable \subseteq Classes /\ Nil \notin Registrable
  BY LinkedAssumption DEF Registrable, Linked
<1>7. /\ \A c \in Classes :
            FirstSuper(c) = SuperOf[c] /\ SuperOf[c] \in Classes \cup {Nil} /\ SuperOf[c] # c
      /\ \A c \in Classes : FirstSuper(Meta(c)) = IF SuperOf[c] = Nil THEN c ELSE Meta(SuperOf[c])
      /\ \A x \in Linked : x \in Classes \/ \E c \in Classes : x = Meta(c)
  BY LinkedAssumption, HierarchyAssumption DEF FirstSuper, Meta, Linked
<1>8. \A x \in Linked : FirstSuper(x) \in Linked \cup {Nil}
  <2>1. \A c \in Classes : c \in Linked /\ Meta(c) \in Linked
    BY DEF Linked
  <2>2. \A c \in Classes : SuperOf[c] # Nil => Meta(SuperOf[c]) \in Linked
    BY <1>7, <2>1
  <2> QED
    BY <1>7, <2>1, <2>2
<1>9. /\ pc = [t \in Threads |-> "program"] /\ class = [t \in Threads |-> Nil]
      /\ node = [t \in Threads |-> <<>>] /\ answer = [t \in Threads |-> Nil]
      /\ enum = [t \in Threads |-> NoEnumerator] /\ due = [t \in Threads |-> {}]
      /\ visited = [t \in Threads |-> <<>>] /\ calls = Calls
      /\ super = [x \in Linked |-> FirstSuper(x)]
      /\ subs = [x \in Linked |-> {y \in Linked : FirstSuper(y) = x}]
      /\ holder = NoThread /\ depth = 0 /\ bucketOf \in [Registrable -> Hashes]
  BY DEF Init, TableLock!Init, NoNode
<1>10. TypeOK
  <2>1. NoEnumerator \in [hash : Hashes, node : Seq(DOMAIN nodes)]
    <3>1. 0 \in Hashes /\ <<>> \in Seq(DOMAIN nodes)
      BY BucketsAssumption DEF Hashes
    <3> QED
      BY <3>1 DEF NoEnumerator, NoNode
  <2>2. <<>> \in Seq(DOMAIN nodes)
    OBVIOUS
  <2>3. super \in [Linked -> Linked \cup {Nil}] /\ subs \in [Linked -> SUBSET Linked]
    BY <1>8, <1>9
  <2>4. \A t \in Threads : pc[t] \in Labels /\ pc[t] \notin ForClass
    BY <1>9 DEF Labels, ForClass, Adding
  <2>5. pc \in [Threads -> Labels]
    BY <1>9, <2>4
  <2> QED
    BY <1>4, <1>5, <1>9, <2>1, <2>2, <2>3, <2>4, <2>5, CallsAssumption DEF TypeOK
<1>11. LockInv /\ AddInv /\ LookInv
  BY <1>9 DEF LockInv, AddInv, LookInv, Inside, Adding
<1>12. ChainsInv
  <2>1. ASSUME NEW h \in Hashes, NEW i \in DOMAIN table[h]
        PROVE  /\ table[h][i] \in DOMAIN order
               /\ nodes[table[h][i]].name = order[table[h][i]]
               /\ bucketOf[order[table[h][i]]] = h
    BY <1>1, <1>3 DEF ToSet
  <2>2. ASSUME NEW h \in Hashes, NEW i \in DOMAIN table[h], NEW j \in DOMAIN table[h],
               nodes[table[h][i]].name = nodes[table[h][j]].name
        PROVE  i = j
    <3>1. table[h][i] = table[h][j] /\ table[h][i] \in Nat
      BY <1>2, <2>1, <2>2 DEF IsInjective
    <3>2. i \in Nat /\ j \in Nat
      BY <1>10, ChainNodes
    <3> QED
      BY <1>1, <3>1, <3>2
  <2> QED
    BY <2>1, <2>2 DEF ChainsInv
<1>13. EnumInv
  BY <1>9 DEF EnumInv, IsInjective, ToSet
<1>14. LinksInv
  <2>1. \A x \in Linked : subs[x] = {y \in Linked : super[y] = x}
    BY <1>9
  <2>2. \A c \in Classes : super[c] = FirstSuper(c) /\ super[Meta(c)] = FirstSuper(Meta(c))
    BY <1>9 DEF Linked
  <2>3. \A c \in Registrable : super[c] # Nil
    BY <1>6, <1>7, <2>2 DEF Registrable
  <2> HIDE DEF Meta
  <2> QED
    BY <1>7, <2>1, <2>2, <2>3 DEF LinksInv
<1>15. PoseInv
  <2>1. \A t \in Threads : ~Posing(t) /\ pc[t] \notin Replacing /\ pc[t] # "ps_links"
    BY <1>9 DEF Posing, Replacing
  <2>2. ASSUME NEW c \in Registrable PROVE ~PosedFor(c)
    <3>1. ASSUME NEW i \in Named(c, table[bucketOf[c]]) PROVE registry[c] = c
      <4>1. bucketOf[c] \in Hashes
        BY <1>9
      <4>2. i \in DOMAIN table[bucketOf[c]] /\ nodes[table[bucketOf[c]][i]].name = c
        BY <3>1 DEF Named
      <4>3. table[bucketOf[c]][i] \in DOMAIN nodes
        BY <1>10, <4>1, <4>2, ChainNodes
      <4>4. nodes[table[bucketOf[c]][i]].pointer = c
        BY <1>3, <4>2, <4>3
      <4> QED
        BY <1>10, <1>12, <3>1, <4>4, RegistryIs
    <3> QED
      BY <1>10, <1>12, <3>1, RegistryIs DEF PosedFor
  <2> QED
    BY <2>1, <2>2 DEF PoseInv
<1> QED
  BY <1>10, <1>11, <1>12, <1>13, <1>14, <1>15 DEF IInv

(* Every step keeps the invariant.                                           *)
LEMMA StepInv == IInv /\ [Next]_vars => IInv'
<1>1. ASSUME IInv, NEW t \in Threads, Step(t) PROVE IInv'
  BY <1>1, TypeStep, LockInvStep, ChainsInvStep, AddInvStep, LookInvStep, EnumInvStep,
     LinksInvStep, PoseInvStep DEF IInv
<1>2. ASSUME IInv, UNCHANGED vars PROVE IInv'
  <2>1. UNCHANGED <<bucketOf, nodes, table, super, subs, holder, depth, pc, class, node, answer,
                    enum, due, visited, calls>>
    BY <1>2 DEF vars, chains, links, lock, locals, enumeration
  <2>2. TypeOK'
    BY <1>2, <2>1 DEF IInv, TypeOK
  <2>3. LockInv' /\ ChainsInv'
    BY <1>2, <2>1 DEF IInv, LockInv, ChainsInv
  <2>4. AddInv'
    BY <1>2, <2>1 DEF IInv, AddInv, Named, Chain
  <2>5. LookInv'
    BY <1>2, <2>1 DEF IInv, LookInv, Chain, EndOf, Place
  <2>6. EnumInv'
    <3>1. InTable' = InTable
      BY <2>1 DEF InTable
    <3>2. ASSUME NEW t \in Threads
          PROVE  Enumerating(enum[t], due[t], visited[t])'
                 <=> Enumerating(enum[t], due[t], visited[t])
      BY <2>1 DEF Enumerating, Ahead, Later, EndOf, Place
    <3>3. EnumInv
      BY <1>2 DEF IInv
    <3> QED
      BY <2>1, <3>1, <3>2, <3>3 DEF EnumInv, NoEnumerator
  <2>7. LinksInv'
    BY <1>2, <2>1 DEF IInv, LinksInv
  <2>8. PoseInv'
    <3>1. registry' = registry
      BY <2>1 DEF registry, Pointer, Named
    <3> QED
      BY <1>2, <2>1, <3>1 DEF IInv, PoseInv, PosedFor, Posing
  <2> QED
    BY <2>2, <2>3, <2>4, <2>5, <2>6, <2>7, <2>8 DEF IInv
<1>3. Next => \E t \in Threads : Step(t)
  BY DEF Next, Step
<1> QED
  BY <1>1, <1>2, <1>3

(* The registry's invariant holds at all times, for any classes, hierarchy,  *)
(* classes registered at first, threads and buckets.                         *)
THEOREM Invariance == Spec => []IInv
  BY InitInv, StepInv, PTL DEF Spec

(* __tour_add_class_to_hash: whoever adds a class, and however often, it has *)
(* one node, although the inner of two unlocks gives the mutex up.           *)
THEOREM NamesAreUnique == Spec => []OneNodePerName
<1>1. IInv => OneNodePerName
  BY DEF IInv, ChainsInv, OneNodePerName
<1> QED
  BY <1>1, Invariance, PTL

(* tour_next_class: an enumeration returns nothing twice, and by its end all *)
(* that was in the table at its beginning, although it holds the mutex for   *)
(* one class at a time.                                                      *)
THEOREM EnumerationsComplete == Spec => []EnumerationComplete
<1>1. IInv => EnumerationComplete
  BY DEF IInv, EnumInv, EnumerationComplete, At
<1> QED
  BY <1>1, Invariance, PTL

(* Class_pose_as and class_table_replace: after a pose no name leads to the  *)
(* class posed for, the impostor is its only subclass, and lists agree with  *)
(* superclasses, for classes and metaclasses.                                *)
THEOREM PosesAreComplete == Spec => []PosesHold
<1>1. IInv => PosesHold
  <2> SUFFICES ASSUME IInv, \A t \in Threads : ~Posing(t) PROVE PosesHold
    BY DEF PosesHold
  <2>1. \A t \in Threads : pc[t] \notin Replacing
    BY DEF Posing, Replacing
  <2>2. ASSUME NEW c \in Registrable, registry[c] \notin {c, Nil}
        PROVE  /\ \E impostor \in Linked : subs[c] = {impostor}
               /\ \A d \in Registrable : registry[d] # c
    BY <2>1, <2>2 DEF IInv, PoseInv, PosedFor
  <2> QED
    BY <2>2 DEF IInv, LinksInv, PosesHold
<1> QED
  BY <1>1, Invariance, PTL

-----------------------------------------------------------------------------
(* A thread's lookup as the abstract registry sees it: asked until its walk  *)
(* is past every node of the name, and answered from then on.                *)
LookupOf(t) ==
    LET ahead == Named(class[t], node[t])
    IN  CASE At(t, "lk_head") \/ (At(t, "lk_node") /\ ahead # {}) -> <<class[t]>>
          [] At(t, "lk_return") \/ (At(t, "lk_node") /\ ahead = {}) -> <<class[t], answer[t]>>
          [] OTHER -> <<>>
LookingUp == {"lk_head", "lk_node", "lk_return"}

(* What it is at each place.                                                 *)
LEMMA LookupIs ==
  ASSUME NEW t \in Threads
  PROVE  /\ pc[t] \notin LookingUp => LookupOf(t) = <<>>
         /\ pc[t] = "lk_head" => LookupOf(t) = <<class[t]>>
         /\ pc[t] = "lk_node" /\ Named(class[t], node[t]) # {} => LookupOf(t) = <<class[t]>>
         /\ pc[t] = "lk_node" /\ Named(class[t], node[t]) = {} =>
               LookupOf(t) = <<class[t], answer[t]>>
         /\ pc[t] = "lk_return" => LookupOf(t) = <<class[t], answer[t]>>
  BY DEF LookupOf, At, LookingUp

(* And afterwards.                                                           *)
LEMMA LookupBecomes ==
  ASSUME NEW t \in Threads
  PROVE  /\ pc'[t] \notin LookingUp => LookupOf(t)' = <<>>
         /\ pc'[t] = "lk_head" => LookupOf(t)' = <<class'[t]>>
         /\ pc'[t] = "lk_node" /\ Named(class[t], node[t])' # {} => LookupOf(t)' = <<class'[t]>>
         /\ pc'[t] = "lk_node" /\ Named(class[t], node[t])' = {} =>
               LookupOf(t)' = <<class'[t], answer'[t]>>
         /\ pc'[t] = "lk_return" => LookupOf(t)' = <<class'[t], answer'[t]>>
  BY DEF LookupOf, At, LookingUp

(* A step of another thread leaves a lookup as it is.                        *)
LEMMA OtherLookups ==
  ASSUME TypeOK, NEW t \in Threads, Step(t), NEW u \in Threads \ {t}
  PROVE  LookupOf(u)' = LookupOf(u)
<1>1. NamesKept /\ Alone(t)
  BY TablesMove, OthersAlone
<1>2. node[u] \in Seq(DOMAIN nodes)
  BY DEF TypeOK
<1>3. {i \in DOMAIN node[u] : nodes'[node[u][i]].name = class[u]} = Named(class[u], node[u])
  BY <1>1, <1>2, PlacesKept
<1>4. /\ pc'[u] = pc[u] /\ class'[u] = class[u] /\ node'[u] = node[u] /\ answer'[u] = answer[u]
  BY <1>1 DEF Alone
<1>5. Named(class[u], node[u])' = Named(class[u], node[u])
  BY <1>3, <1>4 DEF Named
<1> QED
  BY <1>4, <1>5 DEF LookupOf, At

(* The steps of a lookup, as the abstract registry sees them.                *)
LookupMoves(t) ==
    \/ LookupOf(t)' = LookupOf(t)
    \/ \E c \in Registrable : LookupOf(t) = <<>> /\ LookupOf(t)' = <<c>>
    \/ \E c \in Registrable : LookupOf(t) = <<c>> /\ LookupOf(t)' = <<c, registry[c]>>
    \/ \E c \in Registrable, found \in Registrable \cup {Nil} :
          LookupOf(t) = <<c, found>> /\ LookupOf(t)' = <<>>

(* A step of tour_lookup_class is one of them.                               *)
LEMMA LookupSteps ==
  ASSUME IInv, NEW t \in Threads, Lookup(t)
  PROVE  LookupMoves(t)
<1> USE DEF At, Goto
<1>1. TypeOK /\ ChainsInv /\ LookInv
  BY DEF IInv
<1>2. /\ pc[t] \in LookingUp /\ UNCHANGED <<bucketOf, nodes, table>>
      /\ class[t] \in Registrable /\ bucketOf[class[t]] \in Hashes /\ node[t] \in Seq(DOMAIN nodes)
  BY <1>1
  DEF Lookup, LookupHead, LookupNode, LookupEnd, LookupReturn, LookingUp, chains, TypeOK, ForClass
<1>3. Chain(t) \in Seq(DOMAIN nodes)
  BY <1>1, <1>2, ChainNodes DEF Chain
<1>4. CASE LookupHead(t)
  <2>1. /\ pc[t] = "lk_head" /\ pc'[t] = "lk_node" /\ node'[t] = Chain(t)
        /\ class' = class /\ answer' = answer
    BY <1>1, <1>4 DEF LookupHead, TypeOK, Chain
  <2>2. Named(class[t], node[t])' = Named(class[t], Chain(t))
    BY <1>2, <2>1 DEF Named
  <2>3. LookupOf(t) = <<class[t]>>
    BY <2>1, LookupIs
  <2>4. CASE Named(class[t], Chain(t)) # {}
    <3>1. LookupOf(t)' = <<class[t]>>
      BY <2>1, <2>2, <2>4, LookupBecomes
    <3> QED
      BY <2>3, <3>1 DEF LookupMoves
  <2>5. CASE Named(class[t], Chain(t)) = {}
    <3>1. answer[t] = Nil
      BY <1>1, <2>1 DEF LookInv
    <3>2. registry[class[t]] = Nil
      BY <1>1, <1>2, <2>5, RegistryIs DEF Chain
    <3>3. LookupOf(t)' = <<class[t], registry[class[t]]>>
      BY <2>1, <2>2, <2>5, <3>1, <3>2, LookupBecomes
    <3> QED
      BY <1>2, <2>3, <3>3 DEF LookupMoves
  <2> QED
    BY <2>4, <2>5
<1>5. CASE LookupNode(t)
  <2>1. /\ pc[t] = "lk_node" /\ pc'[t] = "lk_node" /\ node[t] # <<>>
        /\ nodes[Head(node[t])].name # class[t] /\ node'[t] = Tail(node[t])
        /\ class' = class /\ answer' = answer
    BY <1>1, <1>5 DEF LookupNode, TypeOK, NoNode
  <2>2. /\ Head(node[t]) = node[t][1] /\ DOMAIN node[t] = 1..Len(node[t]) /\ Len(node[t]) \in Nat
        /\ DOMAIN Tail(node[t]) = 1..(Len(node[t]) - 1)
        /\ \A i \in 1..(Len(node[t]) - 1) : Tail(node[t])[i] = node[t][i + 1]
    BY <1>2, <2>1
  <2>3. \A i \in Named(class[t], node[t]) : i - 1 \in Named(class[t], Tail(node[t]))
    BY <2>1, <2>2 DEF Named
  <2>4. \A i \in Named(class[t], Tail(node[t])) : i + 1 \in Named(class[t], node[t])
    BY <2>2 DEF Named
  <2>5. Named(class[t], node[t])' = Named(class[t], Tail(node[t]))
    BY <1>2, <2>1 DEF Named
  <2>6. Named(class[t], node[t])' = {} <=> Named(class[t], node[t]) = {}
    BY <2>3, <2>4, <2>5
  <2>7. LookupOf(t)' = LookupOf(t)
    BY <2>1, <2>6, LookupIs, LookupBecomes
  <2> QED
    BY <2>7 DEF LookupMoves
<1>6. CASE LookupEnd(t)
  <2>1. pc[t] = "lk_node" /\ pc'[t] = "lk_return" /\ class' = class
    BY <1>1, <1>6 DEF LookupEnd, TypeOK
  <2>2. answer[t] = Nil /\ EndOf(node[t], Chain(t))
    BY <1>1, <2>1 DEF LookInv
  <2>3. LookupOf(t)' = <<class[t], answer'[t]>>
    BY <2>1, LookupBecomes
  <2>4. CASE node[t] = NoNode
    <3>1. Named(class[t], node[t]) = {}
      BY <2>4 DEF Named, NoNode
    <3>2. answer'[t] = Nil
      BY <1>1, <1>6, <2>4 DEF LookupEnd, TypeOK
    <3>3. LookupOf(t) = <<class[t], Nil>>
      BY <2>1, <2>2, <3>1, LookupIs
    <3> QED
      BY <2>3, <3>2, <3>3 DEF LookupMoves
  <2>5. CASE node[t] # NoNode
    <3> DEFINE n == Head(node[t])
    <3>1. nodes[n].name = class[t] /\ answer'[t] = nodes[n].pointer
      BY <1>1, <1>6, <2>5 DEF LookupEnd, TypeOK
    <3>2. n = node[t][1] /\ 1 \in DOMAIN node[t] /\ 1 \in 1..Len(node[t])
      BY <1>2, <2>5 DEF NoNode
    <3>3. 1 \in Named(class[t], node[t])
      BY <3>1, <3>2 DEF Named
    <3>4. LookupOf(t) = <<class[t]>>
      BY <2>1, <3>3, LookupIs
    <3>5. PICK j \in 1..Len(Chain(t)) : n = Chain(t)[j]
      BY <1>2, <1>3, <2>2, <3>2, EndHolds
    <3>6. j \in Named(class[t], Chain(t))
      BY <1>3, <3>1, <3>5 DEF Named
    <3>7. registry[class[t]] = nodes[n].pointer
      BY <1>1, <1>2, <3>5, <3>6, RegistryIs DEF Chain
    <3> QED
      BY <1>2, <2>3, <3>1, <3>4, <3>7 DEF LookupMoves
  <2> QED
    BY <2>4, <2>5
<1>7. CASE LookupReturn(t)
  <2>1. pc[t] = "lk_return" /\ pc'[t] = "program"
    BY <1>1, <1>7 DEF LookupReturn, TypeOK
  <2>2. LookupOf(t) = <<class[t], answer[t]>> /\ LookupOf(t)' = <<>>
    BY <2>1, LookupIs, LookupBecomes DEF LookingUp
  <2>3. answer[t] \in Registrable \cup {Nil}
    BY <1>1 DEF TypeOK
  <2> QED
    BY <1>2, <2>2, <2>3 DEF LookupMoves
<1> QED
  BY <1>4, <1>5, <1>6, <1>7 DEF Lookup

(* A thread that is not looking anything up may begin to.                    *)
LEMMA OwnLookup ==
  ASSUME IInv, NEW t \in Threads, Step(t)
  PROVE  /\ LookupMoves(t)
         /\ InsertHead(t) \/ ReplaceNode(t) => LookupOf(t)' = LookupOf(t)
<1>1. TypeOK
  BY DEF IInv
<1>2. CASE Lookup(t)
  <2>1. ~InsertHead(t) /\ ~ReplaceNode(t)
    BY <1>2 DEF Lookup, LookupHead, LookupNode, LookupEnd, LookupReturn, InsertHead, ReplaceNode, At
  <2> QED
    BY <1>2, <2>1, LookupSteps
<1>3. ASSUME NEW c \in Registrable, Call(t, "lk_head", c)
      PROVE  LookupMoves(t) /\ ~InsertHead(t) /\ ~ReplaceNode(t)
  <2>1. pc[t] = "program" /\ pc'[t] = "lk_head" /\ class'[t] = c
    BY <1>1, <1>3 DEF Call, At, Goto, TypeOK
  <2>2. LookupOf(t) = <<>> /\ LookupOf(t)' = <<c>>
    BY <2>1, LookupIs, LookupBecomes DEF LookingUp
  <2> QED
    BY <2>1, <2>2 DEF LookupMoves, InsertHead, ReplaceNode, At
<1>4. CASE ~Lookup(t) /\ ~\E c \in Registrable : Call(t, "lk_head", c)
  <2>1. pc[t] \notin LookingUp /\ pc'[t] \notin LookingUp
    <3> USE DEF At, Goto, TypeOK, LookingUp
    <3>1. CASE CallStep(t)
      BY <1>1, <1>4, <3>1 DEF CallStep, Call, NextCall
    <3>2. CASE LockStep(t) \/ UnlockStep(t)
      BY <1>1, <3>2 DEF LockStep, LockAt, UnlockStep, UnlockAt, UnlockAndReturn
    <3>3. CASE AddFind(t) \/ InsertNext(t) \/ InsertHead(t) \/ NextClass(t) \/ NextReturn(t)
      BY <1>1, <3>3 DEF AddFind, InsertNext, InsertHead, NextClass, NextReturn
    <3>4. CASE PoseLinks(t) \/ ReplaceNode(t)
      BY <1>1, <3>4 DEF PoseLinks, ReplaceNode
    <3> QED
      BY <1>4, <3>1, <3>2, <3>3, <3>4, StepCases
  <2> QED
    BY <2>1, LookupIs, LookupBecomes DEF LookupMoves
<1> QED
  BY <1>2, <1>3, <1>4

(* Every step is one of the abstract registry or none.                       *)
LEMMA MapStep == IInv /\ [Next]_vars => [Map!Next]_(Map!vars)
<1> DEFINE lookup == [t \in Threads |-> LookupOf(t)]
<1>1. ASSUME IInv, NEW t \in Threads, Step(t) PROVE [Map!Next]_(Map!vars)
  <2>1. TypeOK /\ ChainsInv /\ AddInv /\ LinksInv
    BY <1>1 DEF IInv
  <2>2. \A u \in Threads \ {t} : LookupOf(u)' = LookupOf(u)
    BY <1>1, <2>1, OtherLookups
  <2>3. lookup' = [lookup EXCEPT ![t] = LookupOf(t)']
    BY <2>2
  <2>4. CASE InsertHead(t) \/ ReplaceNode(t)
    <3>1. lookup' = lookup
      BY <1>1, <2>2, <2>4, OwnLookup
    <3>2. CASE InsertHead(t)
      <4>1. Registers(t)
        BY <1>1, <2>1, <3>2, InsertRegisters
      <4> QED
        BY <3>1, <4>1 DEF Registers, LookupOf, Map!Next, Map!Register
    <3>3. CASE ReplaceNode(t)
      <4>1. Replaces(t) /\ class[t] \in Registrable /\ super[class[t]] # Nil
        BY <1>1, <2>1, <3>3, ReplaceReplaces, LinkedAssumption DEF Linked
      <4> QED
        BY <3>1, <4>1 DEF Replaces, LookupOf, Map!Next, Map!Replace, Map!vars
    <3> QED
      BY <2>4, <3>2, <3>3
  <2>5. CASE ~InsertHead(t) /\ ~ReplaceNode(t)
    <3>1. registry' = registry
      BY <1>1, <2>1, <2>5, RegistryKept
    <3>2. LookupMoves(t)
      BY <1>1, OwnLookup
    <3>3. CASE LookupOf(t)' = LookupOf(t)
      <4>1. lookup' = lookup
        BY <2>2, <3>3
      <4> QED
        BY <3>1, <4>1 DEF LookupOf, Map!vars
    <3>4. ASSUME NEW c \in Registrable, LookupOf(t) = <<>>, LookupOf(t)' = <<c>>
          PROVE  Map!Next
      <4>1. lookup[t] = <<>> /\ lookup' = [lookup EXCEPT ![t] = <<c>>]
        BY <2>3, <3>4
      <4>2. Map!Ask(t, c)
        BY <3>1, <4>1 DEF LookupOf, Map!Ask, Map!Idle, Map!Asked
      <4> QED
        BY <4>2 DEF Map!Next
    <3>5. ASSUME NEW c \in Registrable, LookupOf(t) = <<c>>, LookupOf(t)' = <<c, registry[c]>>
          PROVE  Map!Next
      <4>1. lookup[t] = <<c>> /\ lookup' = [lookup EXCEPT ![t] = <<c, registry[c]>>]
        BY <2>3, <3>5
      <4>2. Map!Answer(t, c)
        BY <3>1, <4>1 DEF LookupOf, Map!Answer, Map!Answered, Map!Asked
      <4> QED
        BY <4>2 DEF Map!Next
    <3>6. ASSUME NEW c \in Registrable, NEW found \in Registrable \cup {Nil},
                 LookupOf(t) = <<c, found>>, LookupOf(t)' = <<>>
          PROVE  Map!Next
      <4>1. lookup[t] = <<c, found>> /\ lookup' = [lookup EXCEPT ![t] = <<>>]
        BY <2>3, <3>6
      <4>2. Map!Return(t)
        BY <3>1, <4>1 DEF LookupOf, Map!Return, Map!Answered, Map!Idle
      <4> QED
        BY <4>2 DEF Map!Next
    <3> QED
      BY <3>2, <3>3, <3>4, <3>5, <3>6 DEF LookupMoves
  <2> QED
    BY <2>4, <2>5
<1>2. ASSUME UNCHANGED vars PROVE UNCHANGED Map!vars
  <2>1. UNCHANGED <<bucketOf, nodes, table, pc, class, node, answer>>
    BY <1>2 DEF vars, chains, locals
  <2>2. registry' = registry
    BY <2>1 DEF registry, Pointer, Named
  <2>3. lookup' = lookup
    BY <2>1 DEF LookupOf, Named, At
  <2> QED
    BY <2>2, <2>3 DEF LookupOf, Map!vars
<1>3. Next => \E t \in Threads : Step(t)
  BY DEF Next, Step
<1> QED
  BY <1>1, <1>2, <1>3

(* The registry is a map from names to classes: a lookup, which takes no     *)
(* lock, answers with what the map holds at some moment of the call.         *)
THEOREM RefinesMap == Spec => ImplementsMap
<1>1. Init => Map!Init
  <2> SUFFICES ASSUME Init PROVE Map!Init
    OBVIOUS
  <2>1. TypeOK /\ ChainsInv
    BY InitInv DEF IInv
  <2>2. registry \in [Registrable -> Registrable \cup {Nil}]
    <3>1. \A c \in Registrable : registry \in [Registrable -> Registrable \cup {Nil}]
      BY <2>1, RegistryIs
    <3>2. CASE Registrable = {}
      BY <3>2 DEF registry
    <3> QED
      BY <3>1, <3>2
  <2>3. [t \in Threads |-> LookupOf(t)] = [t \in Threads |-> <<>>]
    <3>1. \A t \in Threads : pc[t] \notin LookingUp
      BY DEF Init, LookingUp
    <3>2. \A t \in Threads : LookupOf(t) = <<>>
      BY <3>1, LookupIs
    <3> QED
      BY <3>2
  <2> QED
    BY <2>2, <2>3 DEF Map!Init, Map!Idle, LookupOf
<1> QED
  BY <1>1, Invariance, MapStep, PTL DEF Spec, ImplementsMap, Map!Spec
=============================================================================
