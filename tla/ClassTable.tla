----------------------------- MODULE ClassTable -----------------------------
(* The registry of classes, Class.c: chains of nodes by the hash of a name,  *)
(* written under a mutex of its own that add and pose lock twice, read by    *)
(* lookups without it and by enumerations that lock it for one class at a    *)
(* time; and the links between classes, which a pose changes.                *)
(*                                                                           *)
(* A class stands for its name.  Nodes are numbered as they are made; one is *)
(* never freed and its next never changes, so that a pointer to a node is    *)
(* the sequence of the nodes from there on, and NULL the empty one.  Each    *)
(* read of a chain and each write to the table is a step.  The hash of a     *)
(* name divides by zero: what bucket a build gets is open, and always 0      *)
(* where a quotient by zero is 0.  A class being registered has its number   *)
(* written to its superclass as well: a root cannot be registered.           *)
EXTENDS Naturals, SequencesExt

CONSTANTS Threads, NoThread,
          Classes,
          Nil,              \* no class
          SuperOf,          \* the superclass of each class, Nil for the root
          Registered,       \* sequences of classes that may be registered at first
          Buckets,          \* CLASS_TABLE_SIZE
          Calls             \* bounds the calls of the program

ASSUME BucketsAssumption == Buckets \in Nat \ {0}
ASSUME HierarchyAssumption == /\ SuperOf \in [Classes -> Classes \cup {Nil}]
                              /\ \A c \in Classes : SuperOf[c] # c
ASSUME CallsAssumption == Calls \in Nat
ASSUME ThreadsAssumption == NoThread \notin Threads

VARIABLES bucketOf,         \* CLASS_TABLE_HASH of each name
          nodes,            \* the class_nodes made so far
          table,            \* class_table: the head of each chain
          super, subs,      \* super_class; the classes on subclass_list
          holder, depth,    \* __class_table_lock
          pc, class, node,  \* each thread: where it is, its argument, its cursor
          answer,           \* what its lookup found
          enum,             \* its enumerator
          due, visited,     \* the nodes its enumeration found at first, has returned
          calls             \* calls the threads may yet make

NoNode == <<>>
Meta(c) == <<c>>                        \* CLASS_CLASSOF of a class
Registrable == {c \in Classes : SuperOf[c] # Nil}
Linked == Classes \cup {Meta(c) : c \in Classes}
NoEnumerator == [hash |-> 0, node |-> NoNode]

lock == <<holder, depth>>
links == <<super, subs>>
chains == <<bucketOf, nodes, table>>
enumeration == <<enum, due, visited>>
locals == <<class, node, answer>>
vars == <<chains, links, lock, pc, locals, enumeration, calls>>

(* Classes, metaclasses and Nil are different from one another.              *)
ASSUME LinkedAssumption == Nil \notin Linked /\ \A c \in Classes : Meta(c) \notin Classes
ASSUME RegisteredAssumption ==
    Registered \subseteq Seq(Registrable) /\ \A order \in Registered : IsInjective(order)

TableLock == INSTANCE DepthLock

-----------------------------------------------------------------------------
Hashes == 0..(Buckets - 1)
InTable == UNION {ToSet(table[h]) : h \in Hashes}

(* The places of a name in a chain, and the class that the first leads to.   *)
Named(c, chain) == {i \in DOMAIN chain : nodes[chain[i]].name = c}
Pointer(c, chain) ==
    IF Named(c, chain) = {} THEN Nil ELSE nodes[chain[Min(Named(c, chain))]].pointer

(* The class under each name, as a lookup under the lock would find it.      *)
registry == [c \in Registrable |-> Pointer(c, table[bucketOf[c]])]

(* Links as a program sets them up for its classes: a class is under its     *)
(* superclass, its metaclass under that of the superclass, and the root's    *)
(* metaclass under the root.  (The library's own resolution ends at an       *)
(* assertion that no class meets.)                                           *)
FirstSuper(x) ==
    CASE x \in Classes -> SuperOf[x]
      [] OTHER -> IF SuperOf[x[1]] = Nil THEN x[1] ELSE Meta(SuperOf[x[1]])

Init ==
    /\ bucketOf \in [Registrable -> Hashes]
    /\ \E order \in Registered :
           /\ nodes = [i \in DOMAIN order |-> [name |-> order[i], pointer |-> order[i]]]
           /\ table \in [Hashes -> SeqOf(DOMAIN order, Len(order))]
           /\ \A h \in Hashes : /\ ToSet(table[h]) = {i \in DOMAIN order : bucketOf[order[i]] = h}
                                /\ \A i, j \in DOMAIN table[h] : i < j => table[h][i] > table[h][j]
    /\ super = [x \in Linked |-> FirstSuper(x)]
    /\ subs = [x \in Linked |-> {y \in Linked : FirstSuper(y) = x}]
    /\ TableLock!Init
    /\ pc = [t \in Threads |-> "program"]
    /\ class = [t \in Threads |-> Nil]
    /\ node = [t \in Threads |-> NoNode]
    /\ answer = [t \in Threads |-> Nil]
    /\ enum = [t \in Threads |-> NoEnumerator]
    /\ due = [t \in Threads |-> {}]
    /\ visited = [t \in Threads |-> <<>>]
    /\ calls = Calls

-----------------------------------------------------------------------------
At(t, label) == pc[t] = label
Goto(t, label) == pc' = [pc EXCEPT ![t] = label]
Posing(t) == pc[t] \in {"ps_links", "ps_lock", "rp_lock", "rp_node", "rp_unlock", "ps_unlock"}

Call(t, label, c) ==
    /\ At(t, "program")
    /\ calls > 0
    /\ calls' = calls - 1
    /\ class' = [class EXCEPT ![t] = c]
    /\ Goto(t, label)
    /\ UNCHANGED <<chains, links, lock, node, answer, enumeration>>

LockAt(t, from, to) ==
    /\ At(t, from)
    /\ TableLock!Acquire(t) \/ TableLock!Reenter(t)
    /\ Goto(t, to)
    /\ UNCHANGED <<chains, links, locals, enumeration, calls>>

(* An unlock by a thread that does not own the mutex changes nothing.        *)
Unlock(t) ==
    \/ TableLock!UnlockInner(t)
    \/ TableLock!UnlockOuter(t)
    \/ holder # t /\ UNCHANGED lock

UnlockAt(t, from, to) ==
    /\ At(t, from)
    /\ Unlock(t)
    /\ Goto(t, to)
    /\ UNCHANGED <<chains, links, locals, enumeration, calls>>

ForgetLocals(t) ==
    /\ class' = [class EXCEPT ![t] = Nil]
    /\ node' = [node EXCEPT ![t] = NoNode]
    /\ answer' = [answer EXCEPT ![t] = Nil]

UnlockAndReturn(t, from) ==
    /\ At(t, from)
    /\ Unlock(t)
    /\ Goto(t, "program")
    /\ ForgetLocals(t)
    /\ UNCHANGED <<chains, links, enumeration, calls>>

-----------------------------------------------------------------------------
(* Faulty forms of definitions below: each must break a property.            *)

(* The name is looked up before the lock.                                    *)
AddStartUnlocked(t) ==
    /\ At(t, "ad_lock")
    /\ Goto(t, "ad_find")
    /\ UNCHANGED <<chains, links, lock, locals, enumeration, calls>>

(* The new node forgets the chain before it.                                 *)
InsertNextNothing(t) ==
    /\ At(t, "ad_next")
    /\ nodes' = Append(nodes, [name |-> class[t], pointer |-> class[t]])
    /\ node' = [node EXCEPT ![t] = <<Len(nodes')>>]
    /\ Goto(t, "ad_head")
    /\ UNCHANGED <<bucketOf, table, links, lock, class, answer, enumeration, calls>>

(* The end of a chain is not told from the end of the table.                 *)
TableNextOneChain(e) ==
    IF e = NoEnumerator THEN [hash |-> 0, node |-> table[0]]
    ELSE [e EXCEPT !.node = Tail(@)]

(* The metaclasses of the classes that move are left where they were.        *)
MovedMetasNone(others) == {}

-----------------------------------------------------------------------------
(* __tour_add_class_to_hash and class_table_insert.  The unlock in insert    *)
(* gives the mutex up and leaves nothing to the other.                       *)
AddStart(t) == LockAt(t, "ad_lock", "ad_find")

AddFind(t) ==
    /\ At(t, "ad_find")
    /\ Goto(t, IF registry[class[t]] = Nil THEN "ad_inner" ELSE "ad_unlock")
    /\ UNCHANGED <<chains, links, lock, locals, enumeration, calls>>

InsertNext(t) ==
    /\ At(t, "ad_next")
    /\ nodes' = Append(nodes, [name |-> class[t], pointer |-> class[t]])
    /\ node' = [node EXCEPT ![t] = <<Len(nodes')>> \o table[bucketOf[class[t]]]]
    /\ Goto(t, "ad_head")
    /\ UNCHANGED <<bucketOf, table, links, lock, class, answer, enumeration, calls>>

InsertHead(t) ==
    /\ At(t, "ad_head")
    /\ table' = [table EXCEPT ![bucketOf[class[t]]] = node[t]]
    /\ Goto(t, "ad_leave")
    /\ UNCHANGED <<bucketOf, nodes, links, lock, locals, enumeration, calls>>

Add(t) ==
    \/ AddStart(t)
    \/ AddFind(t)
    \/ LockAt(t, "ad_inner", "ad_next")
    \/ InsertNext(t)
    \/ InsertHead(t)
    \/ UnlockAt(t, "ad_leave", "ad_unlock")
    \/ UnlockAndReturn(t, "ad_unlock")

-----------------------------------------------------------------------------
(* tour_lookup_class and tour_get_class without a hook: class_table_get_safe *)
(* walks a chain without the lock, comparing names.                          *)
LookupHead(t) ==
    /\ At(t, "lk_head")
    /\ node' = [node EXCEPT ![t] = table[bucketOf[class[t]]]]
    /\ Goto(t, "lk_node")
    /\ UNCHANGED <<chains, links, lock, class, answer, enumeration, calls>>

LookupNode(t) ==
    /\ At(t, "lk_node")
    /\ node[t] # NoNode
    /\ nodes[Head(node[t])].name # class[t]
    /\ node' = [node EXCEPT ![t] = Tail(@)]
    /\ UNCHANGED <<chains, links, lock, pc, class, answer, enumeration, calls>>

LookupEnd(t) ==
    /\ At(t, "lk_node")
    /\ \/ /\ node[t] = NoNode
          /\ answer' = [answer EXCEPT ![t] = Nil]
       \/ /\ node[t] # NoNode
          /\ nodes[Head(node[t])].name = class[t]
          /\ answer' = [answer EXCEPT ![t] = nodes[Head(node[t])].pointer]
    /\ Goto(t, "lk_return")
    /\ UNCHANGED <<chains, links, lock, class, node, enumeration, calls>>

LookupReturn(t) ==
    /\ At(t, "lk_return")
    /\ Goto(t, "program")
    /\ ForgetLocals(t)
    /\ UNCHANGED <<chains, links, lock, enumeration, calls>>

Lookup(t) == LookupHead(t) \/ LookupNode(t) \/ LookupEnd(t) \/ LookupReturn(t)

-----------------------------------------------------------------------------
(* class_table_next: along the chain, then to the next bucket that has one.  *)
TableNext(e) ==
    LET next == IF e = NoEnumerator THEN table[0] ELSE Tail(e.node)
        later == {h \in (e.hash + 1)..(Buckets - 1) : table[h] # NoNode}
    IN  IF next # NoNode THEN [e EXCEPT !.node = next]
        ELSE IF later # {} THEN [hash |-> Min(later), node |-> table[Min(later)]]
        ELSE NoEnumerator

(* tour_next_class.  The enumerator is made with the first call and freed by *)
(* the one that returns Nil; in between the program may make other calls.    *)
(* What is visited is the node; the call returns the class it leads to.      *)
NextCall(t) ==
    /\ At(t, "program")
    /\ enum[t] # NoEnumerator
    /\ Goto(t, "en_lock")
    /\ UNCHANGED <<chains, links, lock, locals, enumeration, calls>>

NextClass(t) ==
    /\ At(t, "en_next")
    /\ LET e == TableNext(enum[t])
       IN  /\ enum' = [enum EXCEPT ![t] = e]
           /\ due' = [due EXCEPT ![t] = IF enum[t] = NoEnumerator THEN InTable ELSE @]
           /\ visited' = [visited EXCEPT ![t] =
                  IF e = NoEnumerator THEN @ ELSE Append(@, Head(e.node))]
    /\ Goto(t, "en_unlock")
    /\ UNCHANGED <<chains, links, lock, locals, calls>>

NextReturn(t) ==
    /\ At(t, "en_unlock")
    /\ Unlock(t)
    /\ Goto(t, "program")
    /\ \/ enum[t] # NoEnumerator /\ UNCHANGED <<due, visited>>
       \/ /\ enum[t] = NoEnumerator
          /\ due' = [due EXCEPT ![t] = {}]
          /\ visited' = [visited EXCEPT ![t] = <<>>]
    /\ UNCHANGED <<chains, links, locals, enum, calls>>

Enumerate(t) ==
    \/ NextCall(t)
    \/ LockAt(t, "en_lock", "en_next")
    \/ NextClass(t)
    \/ NextReturn(t)

-----------------------------------------------------------------------------
(* Class_pose_as by a program that poses once at a time, since the links are *)
(* changed without the lock, and leaves classes alone that another class     *)
(* poses for, as a lookup does not return them.  Classes have their links    *)
(* resolved, and what the assertions ask of the two holds.                   *)
MayPose(impostor) ==
    /\ \A t \in Threads : ~Posing(t)
    /\ \A c \in {impostor, super[impostor]} \cap Registrable : registry[c] \in {c, Nil}

MovedMetas(others) == {Meta(c) : c \in others \cap Classes}

(* The other subclasses go, one by one, to the impostor's list, and their    *)
(* metaclasses to that of its metaclass.                                     *)
PoseLinks(t) ==
    /\ At(t, "ps_links")
    /\ LET impostor == class[t]
           posed == super[impostor]
           others == subs[posed] \ {impostor}
           metas == MovedMetas(others)
       IN  /\ super' = [x \in Linked |-> IF x \in others THEN impostor
                                         ELSE IF x \in metas THEN Meta(impostor) ELSE super[x]]
           /\ subs' = [subs EXCEPT ![impostor] = @ \cup others,
                                   ![Meta(impostor)] = @ \cup metas,
                                   ![posed] = {impostor},
                                   ![Meta(posed)] = {Meta(impostor)}]
    /\ Goto(t, "ps_lock")
    /\ UNCHANGED <<chains, lock, locals, enumeration, calls>>

(* class_table_replace: each node that leads to the class posed for, in the  *)
(* order of the table.                                                       *)
ReplaceNode(t) ==
    /\ At(t, "rp_node")
    /\ LET Leads(h) == {i \in DOMAIN table[h] : nodes[table[h][i]].pointer = super[class[t]]}
       IN  \/ /\ \E h \in Hashes :
                    /\ Leads(h) # {} /\ \A g \in 0..(h - 1) : Leads(g) = {}
                    /\ nodes' = [nodes EXCEPT ![table[h][Min(Leads(h))]].pointer = class[t]]
              /\ UNCHANGED pc
           \/ /\ \A h \in Hashes : Leads(h) = {}
              /\ Goto(t, "rp_unlock")
              /\ UNCHANGED nodes
    /\ UNCHANGED <<bucketOf, table, links, lock, locals, enumeration, calls>>

Pose(t) ==
    \/ PoseLinks(t)
    \/ LockAt(t, "ps_lock", "rp_lock")
    \/ LockAt(t, "rp_lock", "rp_node")
    \/ ReplaceNode(t)
    \/ UnlockAt(t, "rp_unlock", "ps_unlock")
    \/ UnlockAndReturn(t, "ps_unlock")

-----------------------------------------------------------------------------
Program(t) ==
    \/ \E c \in Registrable :
           \/ Call(t, "ad_lock", c)
           \/ Call(t, "lk_head", c)
           \/ MayPose(c) /\ Call(t, "ps_links", c)
    \/ enum[t] = NoEnumerator /\ Call(t, "en_lock", Nil)

Next == \E t \in Threads :
            Program(t) \/ Add(t) \/ Lookup(t) \/ Enumerate(t) \/ Pose(t)

Spec == Init /\ [][Next]_vars

-----------------------------------------------------------------------------
(* A name has one node, whoever adds the class and however often, although   *)
(* the mutex is given up by the inner of two unlocks.                        *)
OneNodePerName ==
    \A h, g \in Hashes : \A i \in DOMAIN table[h], j \in DOMAIN table[g] :
        nodes[table[h][i]].name = nodes[table[g][j]].name => h = g /\ i = j

(* Lookups, which take no lock, answer with what the registry held at some   *)
(* moment between call and return, whatever is added or posed for meanwhile. *)
Map == INSTANCE ClassMap WITH
    Classes <- Registrable,
    lookup <- [t \in Threads |->
        LET ahead == Named(class[t], node[t])
        IN  CASE At(t, "lk_head") \/ (At(t, "lk_node") /\ ahead # {}) -> <<class[t]>>
              [] At(t, "lk_return") \/ (At(t, "lk_node") /\ ahead = {}) -> <<class[t], answer[t]>>
              [] OTHER -> <<>>]
ImplementsMap == Map!Spec

(* An enumeration, which gives the lock up after each class, returns no node *)
(* twice, and by its end every node that was in the table when it began.     *)
(* These are nodes: after a pose two of them lead to the impostor, and       *)
(* tour_next_class returns that class once for each.                         *)
EnumerationComplete ==
    \A t \in Threads :
        /\ IsInjective(visited[t])
        /\ At(t, "en_unlock") /\ enum[t] = NoEnumerator => due[t] \subseteq ToSet(visited[t])

(* After a pose no name leads to the class posed for, its impostor is its    *)
(* only subclass, and lists and superclasses agree, for classes and          *)
(* metaclasses alike.  A class is told to be posed for by the node of its    *)
(* name: of one that is added after the pose only the links are right, and   *)
(* its name leads to itself.                                                 *)
PosesHold ==
    (\A t \in Threads : ~Posing(t)) =>
        /\ \A x \in Linked : subs[x] = {y \in Linked : super[y] = x}
        /\ \A c \in Classes : super[c] # Nil => super[Meta(c)] = Meta(super[c])
        /\ \A c \in Registrable : registry[c] \notin {c, Nil} =>
               /\ \E impostor \in Linked : subs[c] = {impostor}
               /\ \A d \in Registrable : registry[d] # c
=============================================================================
