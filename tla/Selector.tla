------------------------------ MODULE Selector ------------------------------
(* The selector tables of selector.c: a name is given an index when it is    *)
(* first registered, __tour_selector_hash finds the index of a name,         *)
(* __tour_selector_names the name of an index, and __tour_selector_array the *)
(* selectors of an index, one for every types it was registered with.        *)
(*                                                                           *)
(* Every step up to a growing sparse array is one action: growing frees the  *)
(* old vector through sarray_free_garbage, which locks and unlocks the       *)
(* runtime mutex again.  The hash is the map of HashMap.tla with at most as  *)
(* many names as do not expand it; a sparse array is a function on the       *)
(* indices it has room for (Sarray.tla); indices are decoded.  A name equals *)
(* its copies.                                                               *)
EXTENDS RuntimeLock, Sequences, FiniteSets

CONSTANTS Names, NoName,
          Types, Untyped,   \* the types strings, NULL among them
          BucketSize, GrowSlack,    \* as in Sarray
          InitialCapacity,  \* SELECTOR_HASH_SIZE
          PoolSize,         \* SELECTOR_POOL_SIZE
          Calls,            \* bounds the registrations of each thread
          MaxList           \* bounds the methods of a list

ASSUME CapacityAssumption == /\ BucketSize \in Nat \ {0}
                             /\ InitialCapacity \in Nat \ {0}
                             /\ GrowSlack \in Nat
                             /\ PoolSize \in Nat \ {0}
ASSUME NamesAssumption == IsFiniteSet(Names)
ASSUME CallsAssumption == Calls \in Nat /\ MaxList \in Nat \ {0}

VARIABLES hash,             \* __tour_selector_hash: the index of a name
          max_index,        \* __tour_selector_max_index
          names,            \* __tour_selector_names
          array,            \* __tour_selector_array: lists, newest first
          uninstalled,      \* the capacity of __tour_uninstalled_dtable
          pool,             \* selector_pool and selector_pool_left
          call,             \* the registration each thread is in
          calls,            \* those it has yet to begin
          returned          \* what registrations have returned so far

data == <<hash, max_index, names, array, uninstalled, pool>>
vars == <<data, call, calls, returned, mutex, lock>>

Registrations == [name : Names, types : Types]
MethodLists == UNION {[1..n -> Registrations] : n \in 1..MaxList}

NoSelector == [id |-> 0, types |-> NoName, at |-> <<0, 0>>]
Idle == [at |-> "idle", todo |-> <<>>, sel |-> NoSelector, list |-> <<>>, new |-> FALSE]

(* Room for `size' elements in a sparse array that has `capacity'.           *)
Room(capacity, size) ==
    IF size <= capacity THEN capacity
    ELSE ((size - 1) \div BucketSize + 1 + GrowSlack) * BucketSize

Init ==
    /\ hash = [n \in {} |-> 0]
    /\ max_index = 0
    /\ names = [i \in 0..(InitialCapacity - 1) |-> NoName]
    /\ array = [i \in 0..(InitialCapacity - 1) |-> <<>>]
    /\ uninstalled = InitialCapacity
    /\ pool = [block |-> 0, left |-> 0]
    /\ call = [t \in Threads |-> Idle]
    /\ returned = {}
    /\ LockInit
    \* Only the promised mutex lets several threads register at a time.
    /\ calls \in [Threads -> {0, Calls}]
    /\ mutex = "promised" \/ \E u \in Threads : \A t \in Threads \ {u} : calls[t] = 0

(* tour_hash_value_for_key                                                   *)
IndexOf(n) == IF n \in DOMAIN hash THEN hash[n] ELSE 0

Elements(list) == {list[k] : k \in 1..Len(list)}

(* sarray_get_safe on __tour_selector_array                                  *)
SelectorsAt(i) == IF i \in DOMAIN array THEN array[i] ELSE <<>>

(* pool_alloc_selector: slots are taken from the last to the first.          *)
PoolAlloc ==
    IF pool.left = 0 THEN [block |-> pool.block + 1, left |-> PoolSize - 1]
    ELSE [pool EXCEPT !.left = @ - 1]

At(t, at) == call[t].at = at
Goto(t, at) == call' = [call EXCEPT ![t].at = at]
Method(t) == Head(call[t].todo)
Index(t) == call[t].sel.id

(* The registration of one method ends: the next one of the list follows.    *)
Registered(t, s) ==
    /\ returned' = returned \cup
           {[name |-> Method(t).name, types |-> Method(t).types, sel |-> s]}
    /\ LET rest == Tail(call[t].todo)
       IN  call' = [call EXCEPT ![t] =
               [Idle EXCEPT !.todo = rest,
                            !.at = IF rest = <<>> THEN "unlock" ELSE "find"]]

-----------------------------------------------------------------------------
(* Faulty forms of actions below: each must break a property.                *)

(* Registration without the lock.                                            *)
RegisterUnlocked(t) ==
    /\ At(t, "lock")
    /\ Goto(t, "find")
    /\ UNCHANGED <<data, calls, returned, mutex, lock>>

(* The types are not compared.                                               *)
FindAny(t) ==
    /\ At(t, "find")
    /\ LET i == IndexOf(Method(t).name)
       IN  i # 0 /\ Registered(t, SelectorsAt(i)[1])
    /\ UNCHANGED <<data, calls, mutex, lock>>

(* The list of a known name starts anew.                                     *)
MakeForgets(t) ==
    /\ At(t, "find")
    /\ LET i   == IndexOf(Method(t).name)
           new == i = 0
           id  == IF new THEN max_index + 1 ELSE i
           s   == [id |-> id, types |-> Method(t).types,
                   at |-> <<PoolAlloc.block, PoolAlloc.left>>]
       IN  /\ \A o \in Elements(SelectorsAt(i)) : o.types # Method(t).types
           /\ max_index' = IF new THEN id ELSE max_index
           /\ call' = [call EXCEPT ![t].at = "names", ![t].sel = s,
                                   ![t].list = <<s>>, ![t].new = new]
    /\ pool' = PoolAlloc
    /\ UNCHANGED <<hash, names, array, uninstalled, calls, returned, mutex, lock>>

(* Growing does not copy the old vector.                                     *)
GrowNamesEmpty(t) ==
    /\ At(t, "names")
    /\ Index(t) \notin DOMAIN names
    /\ names' = [i \in 0..(Room(Cardinality(DOMAIN names), Index(t) + 1) - 1) |-> NoName]
    /\ LockUnlock(t)
    /\ UNCHANGED <<hash, max_index, array, uninstalled, pool, call, calls, returned, mutex>>

(* The return from the middle of the function keeps the lock.                *)
RegisterKeepsLock(t) ==
    /\ At(t, "unlock")
    /\ Goto(t, "idle")
    /\ UNCHANGED <<data, calls, returned, mutex, lock>>

-----------------------------------------------------------------------------
(* sel_register_name and sel_register_typed_name register one selector under *)
(* the lock, __tour_register_selectors_from_list those of a method list.     *)
Register(t, list) ==
    /\ At(t, "idle")
    /\ calls[t] > 0
    /\ call' = [call EXCEPT ![t] = [Idle EXCEPT !.at = "lock", !.todo = list]]
    /\ calls' = [calls EXCEPT ![t] = @ - 1]
    /\ UNCHANGED <<data, returned, mutex, lock>>

RegisterLock(t) ==
    /\ At(t, "lock")
    /\ Lock(t)
    /\ Goto(t, "find")
    /\ UNCHANGED <<data, calls, returned, mutex>>

(* __sel_register_typed_name: the selector is there.                         *)
FindSame(t) ==
    /\ At(t, "find")
    /\ LET i == IndexOf(Method(t).name)
       IN  /\ i # 0
           /\ \E s \in Elements(SelectorsAt(i)) :
                  s.types = Method(t).types /\ Registered(t, s)
    /\ UNCHANGED <<data, calls, mutex, lock>>

(* A selector of its own, with the index of its name or a new one.           *)
MakeSelector(t) ==
    /\ At(t, "find")
    /\ LET i   == IndexOf(Method(t).name)
           new == i = 0
           id  == IF new THEN max_index + 1 ELSE i
           old == IF new THEN <<>> ELSE SelectorsAt(i)
           s   == [id |-> id, types |-> Method(t).types,
                   at |-> <<PoolAlloc.block, PoolAlloc.left>>]
       IN  /\ \A o \in Elements(old) : o.types # Method(t).types
           /\ max_index' = IF new THEN id ELSE max_index
           /\ call' = [call EXCEPT ![t].at = "names", ![t].sel = s,
                                   ![t].list = <<s>> \o old, ![t].new = new]
    /\ pool' = PoolAlloc
    /\ UNCHANGED <<hash, names, array, uninstalled, calls, returned, mutex, lock>>

(* sarray_at_put_safe on the names, then on the array: each may have to grow *)
(* first.                                                                    *)
GrowNames(t) ==
    /\ At(t, "names")
    /\ Index(t) \notin DOMAIN names
    /\ names' = [i \in 0..(Room(Cardinality(DOMAIN names), Index(t) + 1) - 1) |->
           IF i \in DOMAIN names THEN names[i] ELSE NoName]
    /\ LockUnlock(t)
    /\ UNCHANGED <<hash, max_index, array, uninstalled, pool, call, calls, returned, mutex>>

PutName(t) ==
    /\ At(t, "names")
    /\ Index(t) \in DOMAIN names
    /\ names' = [names EXCEPT ![Index(t)] = Method(t).name]
    /\ Goto(t, "array")
    /\ UNCHANGED <<hash, max_index, array, uninstalled, pool, calls, returned, mutex, lock>>

GrowArray(t) ==
    /\ At(t, "array")
    /\ Index(t) \notin DOMAIN array
    /\ array' = [i \in 0..(Room(Cardinality(DOMAIN array), Index(t) + 1) - 1) |->
           SelectorsAt(i)]
    /\ LockUnlock(t)
    /\ UNCHANGED <<hash, max_index, names, uninstalled, pool, call, calls, returned, mutex>>

PutArray(t) ==
    /\ At(t, "array")
    /\ Index(t) \in DOMAIN array
    /\ array' = [array EXCEPT ![Index(t)] = call[t].list]
    /\ Goto(t, IF call[t].new THEN "hash" ELSE "uninstalled")
    /\ UNCHANGED <<hash, max_index, names, uninstalled, pool, calls, returned, mutex, lock>>

HashAdd(t) ==
    /\ At(t, "hash")
    /\ hash' = [n \in DOMAIN hash \cup {Method(t).name} |->
           IF n = Method(t).name THEN Index(t) ELSE hash[n]]
    /\ Goto(t, "uninstalled")
    /\ UNCHANGED <<max_index, names, array, uninstalled, pool, calls, returned, mutex, lock>>

(* sarray_realloc of the uninstalled table, and the return.                  *)
GrowUninstalled(t) ==
    /\ At(t, "uninstalled")
    /\ uninstalled' = Room(uninstalled, max_index + 1)
    /\ IF uninstalled' = uninstalled THEN UNCHANGED lock ELSE LockUnlock(t)
    /\ Registered(t, call[t].sel)
    /\ UNCHANGED <<hash, max_index, names, array, pool, calls, mutex>>

RegisterUnlock(t) ==
    /\ At(t, "unlock")
    /\ Unlock(t)
    /\ Goto(t, "idle")
    /\ UNCHANGED <<data, calls, returned, mutex>>

Step(t) ==
    \/ RegisterLock(t) \/ FindSame(t) \/ MakeSelector(t)
    \/ GrowNames(t) \/ PutName(t) \/ GrowArray(t) \/ PutArray(t)
    \/ HashAdd(t) \/ GrowUninstalled(t) \/ RegisterUnlock(t)

Next ==
    \/ \E t \in Threads, list \in MethodLists : Register(t, list)
    \/ \E t \in Threads : Step(t)

Spec == Init /\ [][Next]_vars

(* A thread that is in a call is scheduled.                                  *)
LiveSpec == Spec /\ \A t \in Threads : WF_vars(Step(t))

-----------------------------------------------------------------------------
(* sel_get_any_uid: the newest selector of a name.                           *)
AnyUid(n) ==
    LET i == IndexOf(n)
    IN  IF i = 0 \/ SelectorsAt(i) = <<>> THEN NoSelector ELSE Head(SelectorsAt(i))

(* sel_get_any_typed_uid: the newest with types, else the oldest.            *)
AnyTypedUid(n) ==
    LET list == SelectorsAt(IndexOf(n))
        typed == {k \in 1..Len(list) : list[k].types # Untyped}
    IN  IF list = <<>> THEN NoSelector
        ELSE IF typed = {} THEN list[Len(list)]
        ELSE list[CHOOSE k \in typed : \A j \in typed : k <= j]

(* sel_is_mapped and sel_get_name                                            *)
IsMapped(s) == s.id > 0 /\ s.id <= max_index

NameOf(s) == IF IsMapped(s) /\ s.id \in DOMAIN names THEN names[s.id] ELSE NoName

(* Whatever threads registered in whatever order, the same name and types    *)
(* are the same selector, other ones are another, and selectors share an id  *)
(* exactly when they share a name.                                           *)
SelectorsUnique ==
    \A r, s \in returned :
        /\ r.sel.at = s.sel.at <=> (r.name = s.name /\ r.types = s.types)
        /\ r.sel.id = s.sel.id <=> r.name = s.name

(* A selector that was returned is found again, also while others are being  *)
(* registered: by its name, with types once there are any, and its name by   *)
(* its id.                                                                   *)
FoundAgain ==
    \A r \in returned :
        /\ AnyUid(r.name).id = r.sel.id
        /\ AnyTypedUid(r.name).id = r.sel.id
        /\ r.types # Untyped => AnyTypedUid(r.name).types # Untyped
        /\ NameOf(r.sel) = r.name
        /\ r.sel \in Elements(SelectorsAt(r.sel.id))

(* Every registration returns.                                               *)
EveryCallReturns == \A t \in Threads : ~At(t, "idle") ~> At(t, "idle")

(* What lookups can find grows by one selector at a time, complete from the  *)
(* step it appears at.                                                       *)
Known == UNION {{[name |-> n, types |-> s.types, id |-> s.id] :
                    s \in Elements(SelectorsAt(hash[n]))} : n \in DOMAIN hash}

Registry == INSTANCE SelectorRegistry WITH
    Ids <- 1..Cardinality(Names), known <- Known

ImplementsRegistry == Registry!Spec
=============================================================================
