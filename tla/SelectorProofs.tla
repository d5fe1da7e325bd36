--------------------------- MODULE SelectorProofs ---------------------------
(* What holds of the selector tables for any names, types and threads: one   *)
(* registration at a time under the mutex the code relies on, or one thread  *)
(* under any.  The inductive invariant says how far the tables are ahead of  *)
(* each other in the middle of a registration.                               *)
EXTENDS Selector, RuntimeLockProofs, FiniteSetTheorems, SequenceTheorems

Working == {"find", "names", "array", "hash", "uninstalled", "unlock"}
Labels == {"idle", "lock"} \cup Working

Selectors == [id : Nat, types : Types \cup {NoName}, at : Nat \X Nat]
CallType == [at : Labels, todo : Seq(Registrations), sel : Selectors,
             list : Seq(Selectors), new : BOOLEAN]

TypeOK ==
    /\ DOMAIN hash \subseteq Names /\ hash \in [DOMAIN hash -> Nat]
    /\ max_index \in Nat
    /\ \E n \in Nat : names \in [0..(n - 1) -> Names \cup {NoName}]
    /\ \E n \in Nat : array \in [0..(n - 1) -> Seq(Selectors)]
    /\ uninstalled \in Nat
    /\ pool \in [block : Nat, left : Nat]
    /\ call \in [Threads -> CallType]
    /\ calls \in [Threads -> Nat]
    /\ returned \subseteq [name : Names, types : Types, sel : Selectors]
    /\ \A t \in Threads : call[t].at \in Labels \ {"idle", "unlock"} => call[t].todo # <<>>
    /\ LockTypeOK

(* Either the mutex lets one thread in at a time, or there is one thread.    *)
Locked ==
    /\ mutex = "promised"
    /\ holder # NoThread => depth = 1
    /\ \A t \in Threads : holder = t <=> call[t].at \in Working

Exclusive ==
    \/ Locked
    \/ \E u \in Threads : \A t \in Threads \ {u} : calls[t] = 0 /\ At(t, "idle")

(* The selectors found at an index, and where the pool has made selectors.   *)
Sels(i) == Elements(SelectorsAt(i))
Made(at) == at[1] < pool.block \/ (at[1] = pool.block /\ at[2] >= pool.left)

(* Every name has an index of its own, and its name is found there.          *)
HashInv ==
    /\ \A n \in DOMAIN hash : hash[n] \in 1..max_index
    /\ \A m, n \in DOMAIN hash : hash[m] = hash[n] => m = n
    /\ \A n \in DOMAIN hash : hash[n] \in DOMAIN names /\ names[hash[n]] = n

(* The lists hold selectors of their index, one for each types.              *)
ListInv ==
    \A i \in Nat : \A s \in Sels(i) :
        /\ i \in 1..max_index /\ s.id = i /\ Made(s.at)
        /\ \A j \in Nat : \A o \in Sels(j) : s.at = o.at => s = o
        /\ \A o \in Sels(i) : s.types = o.types => s = o

(* A registration on its way through the tables.                             *)
MadeInv ==
    \A t \in Threads : call[t].at \in {"names", "array", "hash", "uninstalled"} =>
        /\ call[t].sel.types = Method(t).types
        /\ Index(t) \in 1..max_index /\ Made(call[t].sel.at)
        /\ IF call[t].new /\ call[t].at # "uninstalled"
           THEN Method(t).name \notin DOMAIN hash /\ \A n \in DOMAIN hash : hash[n] # Index(t)
           ELSE Method(t).name \in DOMAIN hash /\ hash[Method(t).name] = Index(t)

UnlistedInv ==
    \A t \in Threads : call[t].at \in {"names", "array"} =>
        /\ \A j \in Nat : \A o \in Sels(j) : o.at # call[t].sel.at
        /\ \A o \in Sels(Index(t)) : o.types # call[t].sel.types
        /\ call[t].list = <<call[t].sel>> \o SelectorsAt(Index(t))
        /\ call[t].new => SelectorsAt(Index(t)) = <<>>

ListedInv ==
    \A t \in Threads :
        /\ call[t].at \in {"array", "hash", "uninstalled"} =>
               Index(t) \in DOMAIN names /\ names[Index(t)] = Method(t).name
        /\ call[t].at \in {"hash", "uninstalled"} => call[t].sel \in Sels(Index(t))
        /\ call[t].at = "hash" => call[t].new /\ Sels(Index(t)) = {call[t].sel}

ReturnedInv ==
    \A r \in returned :
        /\ r.name \in DOMAIN hash /\ hash[r.name] = r.sel.id
        /\ r.types = r.sel.types /\ r.sel \in Sels(r.sel.id)

(* As many indices are in use as names are known, and one for a name that is *)
(* being registered.                                                         *)
Naming == \E t \in Threads : call[t].at \in {"names", "array", "hash"} /\ call[t].new

IndexInv ==
    /\ IsFiniteSet(DOMAIN hash)
    /\ max_index = Cardinality(DOMAIN hash) + (IF Naming THEN 1 ELSE 0)

CallInv == MadeInv /\ UnlistedInv /\ ListedInv
IInv == TypeOK /\ Exclusive /\ HashInv /\ ListInv /\ CallInv /\ ReturnedInv /\ IndexInv

-----------------------------------------------------------------------------
(* A set of natural numbers has a least element: of the sets 0..x one        *)
(* contains no other.  It stands in for induction, which the library states  *)
(* for an operator.                                                          *)
LEMMA LeastElement ==
  ASSUME NEW T \in SUBSET Nat, T # {}
  PROVE  \E x \in T : \A y \in T : x <= y
<1> DEFINE Down == {0..x : x \in T}
<1>1. Down \subseteq FiniteSubsetsOf(Nat) /\ Down # {}
  <2>1. ASSUME NEW x \in T PROVE IsFiniteSet(0..x) /\ 0..x \subseteq Nat
    BY FS_Interval
  <2> QED
    BY <2>1 DEF FiniteSubsetsOf
<1>2. \E D \in Down : \A E \in Down : ~(<<E, D>> \in StrictSubsetOrdering(Nat))
  BY <1>1, FS_StrictSubsetOrderingWellFounded, WFMin
<1>3. PICK x \in T : \A y \in T : ~(<<0..y, 0..x>> \in StrictSubsetOrdering(Nat))
  BY <1>2
<1>4. ASSUME NEW y \in T, y < x PROVE FALSE
  <2>1. 0..y \subseteq 0..x /\ 0..y # 0..x
    BY <1>4
  <2>2. <<0..y, 0..x>> \in StrictSubsetOrdering(Nat)
    BY <2>1 DEF StrictSubsetOrdering
  <2> QED
    BY <1>3, <2>2
<1> QED
  BY <1>4

(* Rounding up to whole buckets makes no less room than asked for.           *)
LEMMA RoundedUp ==
  ASSUME NEW size \in Nat \ {0}, NEW B \in Nat \ {0}, NEW slack \in Nat
  PROVE  /\ ((size - 1) \div B + 1 + slack) * B \in Nat
         /\ ((size - 1) \div B + 1 + slack) * B >= size
<1> DEFINE q == (size - 1) \div B
           r == (size - 1) % B
<1>1. q \in Nat /\ r \in 0..(B - 1) /\ size - 1 = B * q + r
  OBVIOUS
<1> HIDE DEF q, r
<1>2. (q + 1 + slack) * B = B * q + B + slack * B /\ slack * B \in Nat /\ B * q \in Nat
  BY <1>1
<1>3. (q + 1 + slack) * B >= size /\ (q + 1 + slack) * B \in Nat
  BY <1>1, <1>2
<1> QED
  BY <1>3 DEF q

-----------------------------------------------------------------------------
(* Nothing is registered at first, and nobody is in a call.                  *)
LEMMA InitInv == Init => IInv
<1> SUFFICES ASSUME Init PROVE IInv
  OBVIOUS
<1>1. hash = [n \in {} |-> 0] /\ DOMAIN hash = {} /\ returned = {} /\ max_index = 0
  BY DEF Init
<1>2. \A t \in Threads : call[t] = Idle /\ call[t].at = "idle"
  BY DEF Init, Idle
<1>3. Idle \in CallType
  BY DEF Idle, CallType, NoSelector, Selectors, Labels, Registrations
<1>4. TypeOK
  <2>1. InitialCapacity \in Nat /\ <<>> \in Seq(Selectors)
    BY CapacityAssumption
  <2>2. calls \in [Threads -> Nat]
    BY CallsAssumption DEF Init
  <2>3. LockTypeOK
    BY MutexesAssumption DEF Init, LockInit, LockTypeOK
  <2>4. call \in [Threads -> CallType]
    BY <1>3 DEF Init
  <2>5. /\ \E n \in Nat : names \in [0..(n - 1) -> Names \cup {NoName}]
        /\ \E n \in Nat : array \in [0..(n - 1) -> Seq(Selectors)]
    BY <2>1 DEF Init
  <2>6. /\ DOMAIN hash \subseteq Names /\ hash \in [DOMAIN hash -> Nat]
        /\ max_index \in Nat /\ returned \subseteq [name : Names, types : Types, sel : Selectors]
    BY <1>1
  <2>7. /\ uninstalled \in Nat /\ pool \in [block : Nat, left : Nat]
    BY <2>1 DEF Init
  <2> QED
    BY <1>2, <2>2, <2>3, <2>4, <2>5, <2>6, <2>7 DEF TypeOK
<1>5. Exclusive
  BY <1>2, ThreadsAssumption DEF Init, LockInit, Exclusive, Locked, At, Working
<1>6. \A i \in Nat : Sels(i) = {}
  BY DEF Init, Sels, SelectorsAt, Elements
<1>7. HashInv /\ ListInv /\ ReturnedInv
  BY <1>1, <1>6 DEF HashInv, ListInv, ReturnedInv
<1>8. CallInv
  BY <1>2 DEF CallInv, MadeInv, UnlistedInv, ListedInv
<1>9. IndexInv
  BY <1>1, <1>2, FS_EmptySet DEF IndexInv, Naming
<1> QED
  BY <1>4, <1>5, <1>7, <1>8, <1>9 DEF IInv

-----------------------------------------------------------------------------
(* The steps between the lock and the unlock of a call.                      *)
Work(t) ==
    \/ FindSame(t) \/ MakeSelector(t) \/ GrowNames(t) \/ PutName(t)
    \/ GrowArray(t) \/ PutArray(t) \/ HashAdd(t) \/ GrowUninstalled(t)

(* The steps by what they have to do with the lock.                          *)
LEMMA AnyStep ==
  ASSUME Next
  PROVE  \E t \in Threads :
             \/ \E list \in MethodLists : Register(t, list)
             \/ RegisterLock(t) \/ RegisterUnlock(t) \/ Work(t)
BY DEF Next, Step, Work

(* A thread that works is alone.                                             *)
LEMMA Alone ==
  ASSUME Exclusive, NEW t \in Threads, call[t].at \in Working, NEW u \in Threads, u # t
  PROVE  call[u].at \notin Working
BY DEF Exclusive, Locked, At, Working

(* Only the thread's own call changes, from a label to one that may follow.  *)
LEMMA WorkMoves ==
  ASSUME TypeOK, NEW t \in Threads, Work(t)
  PROVE  /\ call[t].at \in Working \ {"unlock"} /\ call'[t].at \in Working
         /\ \A u \in Threads \ {t} : call'[u] = call[u]
         /\ UNCHANGED <<calls, mutex>>
         /\ LockUnlock(t) \/ UNCHANGED lock
<1> USE DEF TypeOK, CallType, At, Goto, Working
<1>1. CASE FindSame(t)
  BY <1>1 DEF FindSame, Registered, Idle
<1>2. CASE MakeSelector(t)
  BY <1>2 DEF MakeSelector
<1>3. CASE GrowNames(t) \/ GrowArray(t)
  BY <1>3 DEF GrowNames, GrowArray
<1>4. CASE PutName(t) \/ PutArray(t) \/ HashAdd(t)
  BY SMTT(30), <1>4 DEF PutName, PutArray, HashAdd
<1>5. CASE GrowUninstalled(t)
  BY <1>5 DEF GrowUninstalled, Registered, Idle
<1> QED
  BY <1>1, <1>2, <1>3, <1>4, <1>5 DEF Work

(* One registration at a time, whatever the steps.                           *)
LEMMA ExclusiveStep ==
  ASSUME TypeOK, Exclusive, [Next]_vars
  PROVE  Exclusive' /\ LockTypeOK'
<1> USE ThreadsAssumption
<1> DEFINE Goal == Exclusive' /\ LockTypeOK'
<1>1. CASE UNCHANGED vars
  BY <1>1 DEF vars, lock, Exclusive, Locked, LockTypeOK, At, TypeOK
<1>2. ASSUME NEW t \in Threads, NEW list \in MethodLists, Register(t, list) PROVE Goal
  <2>1. /\ call'[t].at = "lock" /\ call[t].at = "idle" /\ calls[t] > 0
        /\ \A u \in Threads \ {t} : call'[u] = call[u] /\ calls'[u] = calls[u]
        /\ UNCHANGED <<mutex, holder, depth>>
    BY <1>2 DEF Register, TypeOK, CallType, At, lock, Idle
  <2>2. LockTypeOK'
    BY <2>1 DEF TypeOK, LockTypeOK
  <2>3. CASE Locked
    BY <2>1, <2>3, <2>2 DEF Exclusive, Locked, Working
  <2>4. CASE \E u \in Threads : \A v \in Threads \ {u} : calls[v] = 0 /\ At(v, "idle")
    <3>1. PICK u \in Threads : \A v \in Threads \ {u} : calls[v] = 0 /\ At(v, "idle")
      BY <2>4
    <3>2. u = t
      BY <2>1, <3>1
    <3> QED
      BY <2>1, <2>2, <3>1, <3>2 DEF Exclusive, At
  <2> QED
    BY <2>3, <2>4 DEF Exclusive
<1>3. ASSUME NEW t \in Threads,
             call[t].at # "idle", \A u \in Threads \ {t} : call'[u] = call[u],
             UNCHANGED <<calls, mutex>>, LockTypeOK',
             Locked => Locked'
      PROVE  Goal
  <2>1. ASSUME NEW u \in Threads, \A v \in Threads \ {u} : calls[v] = 0 /\ At(v, "idle")
        PROVE  \A v \in Threads \ {u} : calls'[v] = 0 /\ At(v, "idle")'
    BY <1>3, <2>1 DEF At
  <2> QED
    BY <1>3, <2>1 DEF Exclusive
<1>4. ASSUME NEW t \in Threads, RegisterLock(t) PROVE Goal
  <2>1. /\ call[t].at = "lock" /\ call'[t].at = "find" /\ Lock(t)
        /\ \A u \in Threads \ {t} : call'[u] = call[u]
        /\ UNCHANGED <<calls, mutex>>
    BY <1>4 DEF RegisterLock, TypeOK, CallType, At, Goto
  <2>2. LockTypeOK'
    BY <2>1, LockTypeStep DEF TypeOK
  <2>3. ASSUME Locked PROVE Locked'
    <3>1. holder = NoThread /\ holder' = t /\ depth' = 1
      BY <2>1, <2>3, LockEffect DEF TypeOK, FirstDepth, Working, Locked
    <3> QED
      BY <2>1, <2>3, <3>1 DEF Working, Locked
  <2> QED
    BY <2>1, <2>2, <2>3, <1>3
<1>5. ASSUME NEW t \in Threads, RegisterUnlock(t) PROVE Goal
  <2>1. /\ call[t].at = "unlock" /\ call'[t].at = "idle" /\ Unlock(t)
        /\ \A u \in Threads \ {t} : call'[u] = call[u]
        /\ UNCHANGED <<calls, mutex>>
    BY <1>5 DEF RegisterUnlock, TypeOK, CallType, At, Goto
  <2>2. LockTypeOK'
    BY <2>1, LockTypeStep DEF TypeOK
  <2>3. ASSUME Locked PROVE Locked'
    <3>1. holder = t /\ depth = 1
      BY <2>1, <2>3 DEF Working, Locked
    <3>2. holder' = NoThread
      BY <2>1, <2>3, <3>1, UnlockEffect DEF TypeOK, Locked
    <3> QED
      BY <2>1, <2>3, <3>1, <3>2 DEF Working, Locked
  <2> QED
    BY <2>1, <2>2, <2>3, <1>3
<1>6. ASSUME NEW t \in Threads, Work(t) PROVE Goal
  <2>1. LockTypeOK'
    BY <1>6, WorkMoves, LockTypeStep DEF TypeOK
  <2>2. ASSUME Locked PROVE Locked'
    <3>1. UNCHANGED <<holder, depth>>
      BY <1>6, <2>2, WorkMoves, LockUnlockEffect DEF TypeOK, lock, Locked
    <3>2. holder = t
      BY <1>6, <2>2, WorkMoves DEF Locked
    <3>3. /\ call'[t].at \in Working /\ mutex' = mutex
          /\ \A u \in Threads \ {t} : call'[u] = call[u]
      BY <1>6, WorkMoves
    <3> QED
      BY <2>2, <3>1, <3>2, <3>3 DEF Locked
  <2>3. call[t].at # "idle" /\ \A u \in Threads \ {t} : call'[u] = call[u]
    BY <1>6, WorkMoves DEF Working
  <2>4. UNCHANGED <<calls, mutex>>
    BY <1>6, WorkMoves
  <2> QED
    BY <2>1, <2>2, <2>3, <2>4, <1>3
<1> QED
  BY <1>1, <1>2, <1>4, <1>5, <1>6, AnyStep

-----------------------------------------------------------------------------
(* Growing a sparse array makes room for the index and keeps what was there. *)
LEMMA RoomEnough ==
  ASSUME NEW capacity \in Nat, NEW size \in Nat
  PROVE  /\ Room(capacity, size) \in Nat
         /\ Room(capacity, size) >= capacity /\ Room(capacity, size) >= size
<1>1. CASE size <= capacity
  BY <1>1 DEF Room
<1>2. CASE ~(size <= capacity)
  <2>1. size \in Nat \ {0} /\ BucketSize \in Nat \ {0} /\ GrowSlack \in Nat
    BY <1>2, CapacityAssumption
  <2> DEFINE r == ((size - 1) \div BucketSize + 1 + GrowSlack) * BucketSize
  <2>2. r \in Nat /\ r >= size
    BY <2>1, RoundedUp
  <2>3. Room(capacity, size) = r
    BY <1>2 DEF Room
  <2> HIDE DEF r
  <2> QED
    BY <1>2, <2>2, <2>3
<1> QED
  BY <1>1, <1>2

(* A vector that grows for index i has room for it and keeps what it has.    *)
LEMMA Widened ==
  ASSUME NEW n \in Nat, NEW i \in Nat
  PROVE  \E m \in Nat : /\ Room(Cardinality(0..(n - 1)), i + 1) = m
                        /\ 0..(n - 1) \subseteq 0..(m - 1) /\ i \in 0..(m - 1)
<1>1. Cardinality(0..(n - 1)) = n
  BY FS_Interval
<1>2. Room(n, i + 1) \in Nat /\ Room(n, i + 1) >= n /\ Room(n, i + 1) >= i + 1
  BY RoomEnough
<1> QED
  BY <1>1, <1>2

(* The pool's next selector was never handed out, and nor are the others     *)
(* handed out again.                                                         *)
LEMMA PoolFresh ==
  ASSUME TypeOK, pool' = PoolAlloc, NEW at, at = <<PoolAlloc.block, PoolAlloc.left>>
  PROVE  /\ at \in Nat \X Nat /\ ~Made(at) /\ Made(at)'
         /\ \A x \in Nat \X Nat : Made(x) => Made(x)'
         /\ pool' \in [block : Nat, left : Nat]
<1>1. /\ pool \in [block : Nat, left : Nat] /\ pool.block \in Nat /\ pool.left \in Nat
      /\ PoolSize \in Nat \ {0}
  BY CapacityAssumption DEF TypeOK
<1>2. CASE pool.left = 0
  <2>1. /\ pool' = [block |-> pool.block + 1, left |-> PoolSize - 1]
        /\ at = <<pool.block + 1, PoolSize - 1>>
    BY <1>2 DEF PoolAlloc
  <2> QED
    BY <1>1, <1>2, <2>1 DEF Made
<1>3. CASE pool.left # 0
  <2>1. /\ pool' = [block |-> pool.block, left |-> pool.left - 1]
        /\ at = <<pool.block, pool.left - 1>>
    BY <1>1, <1>3 DEF PoolAlloc
  <2> QED
    BY <1>1, <1>3, <2>1 DEF Made
<1> QED
  BY <1>2, <1>3

(* The selectors of a list, and of one with a new head.                      *)
LEMMA ListElements ==
  ASSUME NEW list \in Seq(Selectors), NEW s \in Selectors
  PROVE  /\ Elements(list) \subseteq Selectors
         /\ Elements(<<s>> \o list) = {s} \cup Elements(list)
         /\ Elements(list) = {} <=> list = <<>>
<1>1. \A k \in 1..Len(list) : list[k] \in Selectors
  OBVIOUS
<1> DEFINE new == <<s>> \o list
<1>2. Len(list) \in Nat /\ Len(new) = Len(list) + 1 /\ new[1] = s
  BY DEF new
<1>3. \A k \in 1..Len(list) : new[k + 1] = list[k]
  BY DEF new
<1>4. \A k \in 1..Len(new) : k = 1 \/ (k - 1 \in 1..Len(list) /\ k = (k - 1) + 1)
  BY <1>2
<1> HIDE DEF new
<1>5. Elements(new) = {s} \cup Elements(list)
  <2>1. ASSUME NEW x \in Elements(new) PROVE x \in {s} \cup Elements(list)
    <3>1. PICK k \in 1..Len(new) : x = new[k]
      BY DEF Elements
    <3>2. CASE k = 1
      BY <1>2, <3>1, <3>2
    <3>3. CASE k - 1 \in 1..Len(list) /\ k = (k - 1) + 1
      <4>1. x = list[k - 1]
        BY <1>3, <3>1, <3>3
      <4> QED
        BY <3>3, <4>1 DEF Elements
    <3> QED
      BY <1>4, <3>2, <3>3
  <2>2. ASSUME NEW x \in Elements(list) PROVE x \in Elements(new)
    <3>1. PICK k \in 1..Len(list) : x = list[k]
      BY DEF Elements
    <3>2. k + 1 \in 1..Len(new) /\ new[k + 1] = x
      BY <1>2, <1>3, <3>1
    <3> QED
      BY <3>2 DEF Elements
  <2>3. s \in Elements(new)
    <3>1. 1 \in 1..Len(new)
      BY <1>2
    <3> QED
      BY <1>2, <3>1 DEF Elements
  <2> QED
    BY <2>1, <2>2, <2>3
<1>6. Elements(list) = {} <=> list = <<>>
  <2>1. ASSUME Len(list) # 0 PROVE Elements(list) # {}
    <3>1. 1 \in 1..Len(list)
      BY <1>2, <2>1
    <3> QED
      BY <3>1 DEF Elements
  <2>2. ASSUME Len(list) = 0 PROVE Elements(list) = {} /\ list = <<>>
    <3>1. 1..Len(list) = {}
      BY <2>2
    <3> QED
      BY <2>2, <3>1, EmptySeq DEF Elements
  <2> QED
    BY <2>1, <2>2, EmptySeq
<1> QED
  BY <1>1, <1>5, <1>6 DEF new, Elements

(* The list of selectors of an index is typed, and empty where no selector   *)
(* is.                                                                       *)
LEMMA ListsTyped ==
  ASSUME TypeOK
  PROVE  \A i \in Nat : /\ SelectorsAt(i) \in Seq(Selectors) /\ Sels(i) \subseteq Selectors
                        /\ Sels(i) = {} <=> SelectorsAt(i) = <<>>
<1>1. ASSUME NEW i \in Nat PROVE SelectorsAt(i) \in Seq(Selectors)
  BY DEF TypeOK, SelectorsAt
<1>2. NoSelector \in Selectors
  BY DEF NoSelector, Selectors
<1> QED
  BY <1>1, <1>2, ListElements DEF Sels

-----------------------------------------------------------------------------
(* The tables keep their types, whatever a thread does.                      *)
LEMMA RegisteredType ==
  ASSUME TypeOK, NEW t \in Threads, call[t].at \in Labels \ {"idle", "unlock"},
         NEW s \in Selectors, Registered(t, s)
  PROVE  /\ call' \in [Threads -> CallType]
         /\ returned' \subseteq [name : Names, types : Types, sel : Selectors]
         /\ call'[t].at \in Labels \ {"idle", "unlock"} => call'[t].todo # <<>>
<1>1. call[t].todo \in Seq(Registrations) /\ call[t].todo # <<>>
  BY DEF TypeOK, CallType
<1>2. Method(t) \in Registrations /\ Tail(call[t].todo) \in Seq(Registrations)
  BY <1>1 DEF Method
<1>3. Method(t).name \in Names /\ Method(t).types \in Types
  BY <1>2 DEF Registrations
<1> DEFINE rest == Tail(call[t].todo)
           next == IF rest = <<>> THEN "unlock" ELSE "find"
           c == [Idle EXCEPT !.todo = rest, !.at = next]
<1>4. call' = [call EXCEPT ![t] = c]
  BY DEF Registered
<1>5. c \in CallType /\ (c.at = "unlock" \/ c.todo # <<>>)
  <2>1. Idle \in CallType
    BY DEF Idle, CallType, NoSelector, Selectors, Labels
  <2>2. rest \in Seq(Registrations) /\ next \in Labels /\ (next = "unlock" \/ rest # <<>>)
    BY <1>2 DEF Labels, Working
  <2> HIDE DEF rest, next
  <2> QED
    BY <2>1, <2>2 DEF CallType
<1> HIDE DEF c
<1>6. call' \in [Threads -> CallType] /\ call'[t] = c
  BY <1>4, <1>5 DEF TypeOK
<1>7. returned' \subseteq [name : Names, types : Types, sel : Selectors]
  BY <1>3 DEF Registered, TypeOK
<1> QED
  BY <1>5, <1>6, <1>7

(* A thread in a registration has a name and types to register.              *)
LEMMA MethodType ==
  ASSUME TypeOK, NEW t \in Threads, call[t].at \in Labels \ {"idle", "unlock"}
  PROVE  /\ Method(t) \in Registrations
         /\ Method(t).name \in Names /\ Method(t).types \in Types
<1>1. call[t].todo \in Seq(Registrations) /\ call[t].todo # <<>>
  BY DEF TypeOK, CallType
<1>2. Method(t) \in Registrations
  BY <1>1 DEF Method
<1> QED
  BY <1>2 DEF Registrations

(* A thread that only goes on to the next line of its method keeps its        *)
(* record typed and, having had a method to register, still has one.          *)
LEMMA GoingOn ==
  ASSUME TypeOK, NEW t \in Threads, NEW l \in Labels, Goto(t, l),
         l \in {"idle", "unlock"} \/ call[t].todo # <<>>
  PROVE  /\ call' \in [Threads -> CallType]
         /\ \A u \in Threads :
              call'[u].at \in Labels \ {"idle", "unlock"} => call'[u].todo # <<>>
<1>1. call \in [Threads -> CallType] /\ call[t] \in CallType
  BY DEF TypeOK
<1>2. PICK c : c = [call[t] EXCEPT !.at = l]
  OBVIOUS
<1>3. c \in CallType /\ c.at = l /\ c.todo = call[t].todo
  BY <1>1, <1>2 DEF CallType
<1>4. call' = [call EXCEPT ![t] = c]
  BY <1>1, <1>2 DEF Goto
<1>5. call' \in [Threads -> CallType]
  BY <1>1, <1>3, <1>4
<1>6. ASSUME NEW u \in Threads, call'[u].at \in Labels \ {"idle", "unlock"}
      PROVE  call'[u].todo # <<>>
  <2>1. CASE u = t
    BY <1>1, <1>3, <1>4, <1>6, <2>1
  <2>2. CASE u # t
    BY <1>1, <1>4, <1>6, <2>2 DEF TypeOK
  <2> QED
    BY <2>1, <2>2
<1> QED
  BY <1>5, <1>6

(* Every step keeps the types.                                               *)
LEMMA TypeStep ==
  ASSUME TypeOK, LockTypeOK', [Next]_vars
  PROVE  TypeOK'
<1> DEFINE Todo(t) == call'[t].at \in Labels \ {"idle", "unlock"} => call'[t].todo # <<>>
<1>1. CASE UNCHANGED vars
  BY <1>1 DEF vars, data, TypeOK
<1>2. ASSUME UNCHANGED data, UNCHANGED returned, call' \in [Threads -> CallType],
             calls' \in [Threads -> Nat], \A t \in Threads : Todo(t)
      PROVE  TypeOK'
  BY <1>2 DEF TypeOK, data
<1>3. ASSUME NEW t \in Threads, NEW list \in MethodLists, Register(t, list) PROVE TypeOK'
  <2>1. list \in Seq(Registrations) /\ list # <<>>
    BY <1>3, CallsAssumption DEF MethodLists
  <2>2. Idle \in CallType
    BY DEF Idle, CallType, NoSelector, Selectors, Labels, Registrations
  <2> DEFINE c == [Idle EXCEPT !.at = "lock", !.todo = list]
  <2>3. c \in CallType /\ c.todo # <<>>
    BY <2>1, <2>2 DEF CallType, Idle, Labels
  <2>4. call' = [call EXCEPT ![t] = c]
    BY <1>3 DEF Register
  <2> HIDE DEF c
  <2>5. call' \in [Threads -> CallType] /\ \A u \in Threads : Todo(u)
    BY <2>3, <2>4 DEF TypeOK
  <2>6. calls' \in [Threads -> Nat]
    BY <1>3 DEF Register, TypeOK
  <2> QED
    BY <1>2, <1>3, <2>5, <2>6 DEF Register
<1>4. ASSUME NEW t \in Threads, RegisterLock(t) PROVE TypeOK'
  BY ZenonT(30), <1>4, <1>2 DEF RegisterLock, At, Goto, TypeOK, CallType, Labels, Working
<1>5. ASSUME NEW t \in Threads, RegisterUnlock(t) PROVE TypeOK'
  BY ZenonT(30), <1>5, <1>2 DEF RegisterUnlock, At, Goto, TypeOK, CallType, Labels, Working
<1>6. ASSUME NEW t \in Threads, Work(t) PROVE TypeOK'
  <2>1. Method(t) \in Registrations /\ Method(t).name \in Names /\ Method(t).types \in Types
    BY <1>6, WorkMoves, MethodType DEF Labels, Working
  <2>2. CASE FindSame(t)
    <3>1. PICK s \in Elements(SelectorsAt(IndexOf(Method(t).name))) : Registered(t, s)
      BY <2>2 DEF FindSame
    <3>2. IndexOf(Method(t).name) \in Nat
      BY DEF TypeOK, IndexOf
    <3>3. s \in Selectors
      BY <3>1, <3>2, ListsTyped DEF Sels
    <3>4. call[t].at \in Labels \ {"idle", "unlock"}
      BY <2>2 DEF FindSame, At, Labels, Working
    <3>5. /\ call' \in [Threads -> CallType] /\ Todo(t)
          /\ returned' \subseteq [name : Names, types : Types, sel : Selectors]
      BY <3>1, <3>3, <3>4, RegisteredType
    <3> QED
      BY <2>2, <3>5, <1>6, WorkMoves DEF FindSame, TypeOK, data
  <2>3. CASE MakeSelector(t)
    <3> DEFINE i == IndexOf(Method(t).name)
               new == i = 0
               id == IF new THEN max_index + 1 ELSE i
               old == IF new THEN <<>> ELSE SelectorsAt(i)
               s == [id |-> id, types |-> Method(t).types, at |-> <<PoolAlloc.block, PoolAlloc.left>>]
    <3>1. i \in Nat /\ id \in Nat /\ max_index' \in Nat /\ new \in BOOLEAN
      BY <2>3 DEF MakeSelector, TypeOK, IndexOf
    <3>2. s \in Selectors /\ old \in Seq(Selectors) /\ pool' \in [block : Nat, left : Nat]
      <4>1. <<PoolAlloc.block, PoolAlloc.left>> \in Nat \X Nat /\ pool' \in [block : Nat, left : Nat]
        BY <2>3, PoolFresh DEF MakeSelector
      <4>2. old \in Seq(Selectors)
        BY <3>1, ListsTyped
      <4> QED
        BY <2>1, <3>1, <4>1, <4>2 DEF Selectors
    <3>3. call[t] \in CallType /\ call[t].todo # <<>> /\ call \in [Threads -> CallType]
      BY <2>3 DEF MakeSelector, TypeOK, At, Labels, Working
    <3>6. call' = [call EXCEPT ![t].at = "names", ![t].sel = s,
                               ![t].list = <<s>> \o old, ![t].new = new]
      BY <2>3 DEF MakeSelector
    <3> HIDE DEF i, new, id, old, s
    <3>4. <<s>> \o old \in Seq(Selectors)
      BY <3>2
    <3>5. call' \in [Threads -> CallType]
      BY <3>1, <3>2, <3>3, <3>4, <3>6 DEF CallType, Labels, Working
    <3>7. \A u \in Threads : Todo(u)
      BY <3>3, <3>6 DEF CallType, TypeOK
    <3> QED
      BY <2>3, <3>1, <3>2, <3>5, <3>7 DEF MakeSelector, TypeOK
  <2>4. CASE GrowNames(t)
    <3>1. PICK n \in Nat : names \in [0..(n - 1) -> Names \cup {NoName}]
      BY DEF TypeOK
    <3>2. Index(t) \in Nat
      BY DEF Index, TypeOK, CallType, Selectors
    <3>3. PICK m \in Nat : Room(Cardinality(0..(n - 1)), Index(t) + 1) = m
      BY <3>2, Widened
    <3>4. DOMAIN names = 0..(n - 1)
      BY <3>1
    <3>5. names' = [i \in 0..(m - 1) |-> IF i \in DOMAIN names THEN names[i] ELSE NoName]
      BY <2>4, <3>3, <3>4 DEF GrowNames
    <3>6. names' \in [0..(m - 1) -> Names \cup {NoName}]
      BY <3>1, <3>5
    <3> QED
      BY <2>4, <3>6 DEF GrowNames, TypeOK
  <2>5. CASE PutName(t)
    <3>1. \E n \in Nat : names' \in [0..(n - 1) -> Names \cup {NoName}]
      BY <2>1, <2>5 DEF PutName, TypeOK
    <3>2. call' \in [Threads -> CallType] /\ \A u \in Threads : Todo(u)
      <4>1. \E l \in Labels \ {"idle", "unlock"} : Goto(t, l)
        BY <2>5 DEF PutName, Labels, Working
      <4>2. call[t].todo # <<>>
        BY <2>5 DEF PutName, At, TypeOK, Labels, Working
      <4> QED
        BY <4>1, <4>2, GoingOn
    <3> QED
      BY <2>5, <3>1, <3>2 DEF PutName, TypeOK
  <2>6. CASE GrowArray(t)
    <3>1. PICK n \in Nat : array \in [0..(n - 1) -> Seq(Selectors)]
      BY DEF TypeOK
    <3>2. Index(t) \in Nat
      BY DEF Index, TypeOK, CallType, Selectors
    <3>3. PICK m \in Nat : Room(Cardinality(0..(n - 1)), Index(t) + 1) = m
      BY <3>2, Widened
    <3>4. DOMAIN array = 0..(n - 1)
      BY <3>1
    <3>5. array' = [i \in 0..(m - 1) |-> SelectorsAt(i)]
      BY <2>6, <3>3, <3>4 DEF GrowArray
    <3>6. array' \in [0..(m - 1) -> Seq(Selectors)]
      BY <3>5, ListsTyped
    <3> QED
      BY <2>6, <3>6 DEF GrowArray, TypeOK
  <2>7. CASE PutArray(t)
    <3>1. \E n \in Nat : array' \in [0..(n - 1) -> Seq(Selectors)]
      BY <2>7 DEF PutArray, TypeOK, CallType
    <3>2. call' \in [Threads -> CallType] /\ \A u \in Threads : Todo(u)
      <4>1. \E l \in Labels \ {"idle", "unlock"} : Goto(t, l)
        BY <2>7 DEF PutArray, Labels, Working
      <4>2. call[t].todo # <<>>
        BY <2>7 DEF PutArray, At, TypeOK, Labels, Working
      <4> QED
        BY <4>1, <4>2, GoingOn
    <3> QED
      BY <2>7, <3>1, <3>2 DEF PutArray, TypeOK
  <2>8. CASE HashAdd(t)
    <3>1. DOMAIN hash' \subseteq Names /\ hash' \in [DOMAIN hash' -> Nat]
      BY <2>1, <2>8 DEF HashAdd, TypeOK, Index, CallType, Selectors
    <3>2. call' \in [Threads -> CallType] /\ \A u \in Threads : Todo(u)
      <4>1. \E l \in Labels \ {"idle", "unlock"} : Goto(t, l)
        BY <2>8 DEF HashAdd, Labels, Working
      <4>2. call[t].todo # <<>>
        BY <2>8 DEF HashAdd, At, TypeOK, Labels, Working
      <4> QED
        BY <4>1, <4>2, GoingOn
    <3> QED
      BY <2>8, <3>1, <3>2 DEF HashAdd, TypeOK
  <2>9. CASE GrowUninstalled(t)
    <3>1. call[t].sel \in Selectors /\ call[t].at \in Labels \ {"idle", "unlock"}
      BY <2>9 DEF GrowUninstalled, At, TypeOK, CallType, Labels, Working
    <3>2. /\ call' \in [Threads -> CallType] /\ Todo(t)
          /\ returned' \subseteq [name : Names, types : Types, sel : Selectors]
      BY <2>9, <3>1, RegisteredType DEF GrowUninstalled
    <3>3. uninstalled' \in Nat
      BY <2>9, RoomEnough DEF GrowUninstalled, TypeOK
    <3> QED
      BY <2>9, <3>2, <3>3, <1>6, WorkMoves DEF GrowUninstalled, TypeOK
  <2> QED
    BY <1>6, <2>2, <2>3, <2>4, <2>5, <2>6, <2>7, <2>8, <2>9 DEF Work
<1> QED
  BY <1>1, <1>3, <1>4, <1>5, <1>6, AnyStep

-----------------------------------------------------------------------------
(* What the tables hold, apart from types and the lock.                      *)
DataInv == HashInv /\ ListInv /\ CallInv /\ ReturnedInv /\ IndexInv

NamingBy(t) == call[t].at \in {"names", "array", "hash"} /\ call[t].new

(* The other threads are in no registration, before and after.               *)
LEMMA Others ==
  ASSUME TypeOK, Exclusive, NEW t \in Threads, Work(t)
  PROVE  /\ \A u \in Threads \ {t} :
                call'[u] = call[u] /\ call[u].at \in {"idle", "lock"}
         /\ Naming <=> NamingBy(t)
         /\ Naming' <=> NamingBy(t)'
<1>1. \A u \in Threads \ {t} : call'[u] = call[u] /\ call[u].at \in {"idle", "lock"}
  BY WorkMoves, Alone DEF TypeOK, CallType, Labels, Working
<1> QED
  BY <1>1 DEF Naming, NamingBy

(* What a registration finds when it looks up its name.                      *)
LEMMA LookUp ==
  ASSUME TypeOK, HashInv, NEW n \in Names
  PROVE  /\ IndexOf(n) \in Nat
         /\ IndexOf(n) # 0 <=> n \in DOMAIN hash
         /\ n \in DOMAIN hash => IndexOf(n) = hash[n] /\ hash[n] \in 1..max_index
BY DEF TypeOK, HashInv, IndexOf

(* Steps before and after the work change no table.                          *)
LEMMA NeutralStep ==
  ASSUME TypeOK, DataInv, UNCHANGED data, UNCHANGED returned,
         \A t \in Threads : \/ call'[t] = call[t]
                            \/ /\ call[t].at \in {"idle", "lock", "unlock"}
                               /\ call'[t].at \in {"idle", "lock", "find"}
  PROVE  DataInv'
<1>1. UNCHANGED <<hash, max_index, names, array, uninstalled, pool>>
  BY DEF data
<1>2. \A i : SelectorsAt(i)' = SelectorsAt(i) /\ Sels(i)' = Sels(i)
  BY <1>1 DEF SelectorsAt, Sels
<1>3. HashInv' /\ ListInv' /\ ReturnedInv'
  BY <1>1, <1>2 DEF DataInv, HashInv, ListInv, ReturnedInv, Made
<1>4. \A t \in Threads : call'[t].at \in {"names", "array", "hash", "uninstalled"} =>
           /\ call'[t] = call[t] /\ Index(t)' = Index(t) /\ Method(t)' = Method(t)
           /\ \A at : Made(at)' <=> Made(at)
  BY <1>1 DEF Index, Method, Made
<1>5. MadeInv'
  BY <1>1, <1>4 DEF DataInv, CallInv, MadeInv
<1>6. UnlistedInv'
  BY <1>2, <1>4 DEF DataInv, CallInv, UnlistedInv
<1>7. ListedInv'
  BY <1>1, <1>2, <1>4 DEF DataInv, CallInv, ListedInv
<1>8. Naming' <=> Naming
  BY DEF Naming
<1> QED
  BY <1>1, <1>3, <1>5, <1>6, <1>7, <1>8 DEF DataInv, CallInv, IndexInv

(* The lookup of the name keeps what is said of the data.                    *)
LEMMA FindSameStep ==
  ASSUME TypeOK, Exclusive, DataInv, NEW t \in Threads, FindSame(t)
  PROVE  DataInv'
<1> DEFINE n == Method(t).name
           i == IndexOf(n)
<1>1. i # 0 /\ call[t].at = "find" /\ UNCHANGED <<hash, max_index, names, array, uninstalled, pool>>
  BY DEF FindSame, At, data
<1>2. PICK s \in Sels(i) : s.types = Method(t).types /\ Registered(t, s)
  BY DEF FindSame, Sels
<1>3. n \in Names /\ n \in DOMAIN hash /\ hash[n] = i /\ i \in Nat
  BY <1>1, MethodType, LookUp DEF DataInv, Labels, Working
<1>4. s.id = i
  BY <1>2, <1>3 DEF DataInv, ListInv
<1>5. \A j : SelectorsAt(j)' = SelectorsAt(j) /\ Sels(j)' = Sels(j)
  BY <1>1 DEF SelectorsAt, Sels
<1>6. HashInv' /\ ListInv'
  BY <1>1, <1>5 DEF DataInv, HashInv, ListInv, Made
<1>7. /\ \A u \in Threads \ {t} : call'[u] = call[u] /\ call[u].at \in {"idle", "lock"}
      /\ call'[t].at \in {"unlock", "find"}
  <2>1. call'[t].at \in {"unlock", "find"}
    BY <1>2 DEF Registered, Idle, TypeOK
  <2> QED
    BY <2>1, Others DEF Work
<1>8. CallInv'
  BY <1>7 DEF CallInv, MadeInv, UnlistedInv, ListedInv
<1>9. ReturnedInv'
  <2> DEFINE r == [name |-> n, types |-> Method(t).types, sel |-> s]
  <2>1. returned' = returned \cup {r}
    BY <1>2 DEF Registered
  <2>2. r.name = n /\ r.types = Method(t).types /\ r.sel = s
    OBVIOUS
  <2> HIDE DEF r, n, i
  <2> QED
    BY <1>1, <1>2, <1>3, <1>4, <1>5, <2>1, <2>2 DEF DataInv, ReturnedInv
<1>10. IndexInv'
  <2>1. Naming' <=> Naming
    BY <1>1, <1>7, Others DEF Work, NamingBy
  <2> QED
    BY <1>1, <2>1 DEF DataInv, IndexInv
<1> QED
  BY <1>6, <1>8, <1>9, <1>10 DEF DataInv

(* So does making the selector.                                              *)
LEMMA MakeSelectorStep ==
  ASSUME TypeOK, Exclusive, DataInv, NEW t \in Threads, MakeSelector(t)
  PROVE  DataInv'
<1> DEFINE n == Method(t).name
           i == IndexOf(n)
           new == i = 0
           id == IF new THEN max_index + 1 ELSE i
           old == IF new THEN <<>> ELSE SelectorsAt(i)
<1>1. PICK at : at = <<PoolAlloc.block, PoolAlloc.left>>
  OBVIOUS
<1>2. PICK s : s = [id |-> id, types |-> Method(t).types, at |-> at]
  OBVIOUS
<1>3. /\ call[t].at = "find" /\ UNCHANGED <<hash, names, array, uninstalled, returned>>
      /\ \A o \in Elements(old) : o.types # Method(t).types
      /\ max_index' = IF new THEN id ELSE max_index
      /\ pool' = PoolAlloc
      /\ call' = [call EXCEPT ![t].at = "names", ![t].sel = s,
                              ![t].list = <<s>> \o old, ![t].new = new]
  BY <1>1, <1>2 DEF MakeSelector, At
<1>4. /\ n \in Names /\ i \in Nat /\ (i # 0 <=> n \in DOMAIN hash)
      /\ n \in DOMAIN hash => i = hash[n] /\ hash[n] \in 1..max_index
  BY <1>3, MethodType, LookUp DEF DataInv, Labels, Working
<1>5. /\ at \in Nat \X Nat /\ ~Made(at) /\ Made(at)'
      /\ \A x \in Nat \X Nat : Made(x) => Made(x)'
  BY <1>3, <1>1, PoolFresh
<1>6. s.id = id /\ s.types = Method(t).types /\ s.at = at
  BY <1>2
<1>7. \A j : SelectorsAt(j)' = SelectorsAt(j) /\ Sels(j)' = Sels(j)
  BY <1>3 DEF SelectorsAt, Sels
<1>8. /\ max_index \in Nat /\ max_index' \in Nat /\ max_index' >= max_index
      /\ id \in Nat /\ id \in 1..max_index' /\ (new => id \notin 1..max_index)
  BY <1>3, <1>4 DEF TypeOK
<1>9. HashInv'
  BY <1>3, <1>8 DEF DataInv, HashInv
<1>10. ListInv'
  <2>1. \A j \in Nat : \A o \in Sels(j) : o.at \in Nat \X Nat
    BY ListsTyped DEF Selectors
  <2> QED
    BY <1>5, <1>8, <1>7, <2>1 DEF DataInv, ListInv
<1>11. /\ call'[t].at = "names" /\ call'[t].sel = s /\ call'[t].list = <<s>> \o old
      /\ call'[t].new = new /\ call'[t].todo = call[t].todo
      /\ \A u \in Threads \ {t} : call'[u] = call[u] /\ call[u].at \in {"idle", "lock"}
  <2>1. call \in [Threads -> CallType]
    BY DEF TypeOK
  <2> HIDE DEF n, i, new, id, old
  <2>2. /\ call'[t].at = "names" /\ call'[t].sel = s /\ call'[t].list = <<s>> \o old
        /\ call'[t].new = new /\ call'[t].todo = call[t].todo
    BY <1>3, <2>1 DEF CallType
  <2> QED
    BY <2>2, Others DEF Work
<1>12. Method(t)' = Method(t) /\ Index(t)' = id
  BY <1>11, <1>6 DEF Method, Index
<1>13. /\ new => n \notin DOMAIN hash /\ \A m \in DOMAIN hash : hash[m] # id
       /\ ~new => n \in DOMAIN hash /\ hash[n] = id
  BY <1>4, <1>8 DEF DataInv, HashInv
<1>14. MadeInv'
  <2>1. Made(call[t].sel.at)'
    BY <1>5, <1>11, <1>6 DEF Made
  <2>2. IF call'[t].new THEN n \notin DOMAIN hash' /\ \A m \in DOMAIN hash' : hash'[m] # id
        ELSE n \in DOMAIN hash' /\ hash'[n] = id
    BY <1>3, <1>11, <1>13
  <2> HIDE DEF i, new, id, old
  <2> QED
    BY <1>8, <1>11, <1>12, <1>6, <2>1, <2>2 DEF MadeInv
<1>15. SelectorsAt(id) = old
  <2>1. id \in Nat
    BY <1>8
  <2>2. CASE new
    <3>1. Sels(id) = {}
      BY <1>8, <2>1, <2>2 DEF DataInv, ListInv
    <3> QED
      BY <2>1, <2>2, <3>1, ListsTyped
  <2>3. CASE ~new
    BY <2>3
  <2> QED
    BY <2>2, <2>3
<1>16. \A j \in Nat : \A o \in Sels(j) : o.at # at
  BY <1>5 DEF DataInv, ListInv
<1>17. UnlistedInv'
  <2>1. \A o \in Sels(id) : o.types # Method(t).types
    BY <1>3, <1>15 DEF Sels
  <2>2. new => SelectorsAt(id) = <<>>
    BY <1>15
  <2> HIDE DEF i, new, id, old
  <2> QED
    BY <1>11, <1>12, <1>6, <1>7, <1>15, <1>16, <2>1, <2>2 DEF UnlistedInv
<1>18. ListedInv'
  BY <1>11 DEF ListedInv
<1>19. ReturnedInv'
  BY <1>3, <1>7 DEF DataInv, ReturnedInv
<1>20. IndexInv'
  <2>1. ~Naming /\ (Naming' <=> new)
    BY <1>3, <1>11, Others DEF Work, NamingBy
  <2>2. max_index = Cardinality(DOMAIN hash) /\ IsFiniteSet(DOMAIN hash)
    BY <2>1, <1>8, FS_CardinalityType DEF DataInv, IndexInv
  <2> QED
    BY <1>3, <1>8, <2>1, <2>2 DEF IndexInv
<1> QED
  BY <1>9, <1>10, <1>14, <1>17, <1>18, <1>19, <1>20 DEF DataInv, CallInv

(* A table that grows keeps what it held.                                    *)
LEMMA GrowNamesStep ==
  ASSUME TypeOK, DataInv, NEW t \in Threads, GrowNames(t)
  PROVE  DataInv'
<1>1. UNCHANGED <<hash, max_index, array, uninstalled, pool, call, returned>>
  BY DEF GrowNames
<1>2. \A i \in DOMAIN names : i \in DOMAIN names' /\ names'[i] = names[i]
  <2>1. PICK n \in Nat : names \in [0..(n - 1) -> Names \cup {NoName}]
    BY DEF TypeOK
  <2>2. Index(t) \in Nat
    BY DEF Index, TypeOK, CallType, Selectors
  <2>3. PICK m \in Nat : /\ Room(Cardinality(0..(n - 1)), Index(t) + 1) = m
                         /\ 0..(n - 1) \subseteq 0..(m - 1)
    BY <2>2, Widened
  <2>4. DOMAIN names = 0..(n - 1)
    BY <2>1
  <2> QED
    BY <2>3, <2>4 DEF GrowNames
<1>3. \A j : SelectorsAt(j)' = SelectorsAt(j) /\ Sels(j)' = Sels(j)
  BY <1>1 DEF SelectorsAt, Sels
<1>4. \A u : Index(u)' = Index(u) /\ Method(u)' = Method(u) /\ (Made(call[u].sel.at)' <=> Made(call[u].sel.at))
  BY <1>1 DEF Index, Method, Made
<1>5. HashInv'
  BY <1>1, <1>2 DEF DataInv, HashInv
<1>6. ListInv' /\ ReturnedInv'
  BY <1>1, <1>3 DEF DataInv, ListInv, ReturnedInv, Made
<1>7. MadeInv' /\ UnlistedInv'
  BY <1>1, <1>3, <1>4 DEF DataInv, CallInv, MadeInv, UnlistedInv
<1>8. ListedInv'
  BY <1>1, <1>2, <1>3, <1>4 DEF DataInv, CallInv, ListedInv
<1>9. IndexInv'
  BY <1>1 DEF DataInv, IndexInv, Naming
<1> QED
  BY <1>5, <1>6, <1>7, <1>8, <1>9 DEF DataInv, CallInv

(* Growing the array of selectors loses none.                                *)
LEMMA GrowArrayKeeps ==
  ASSUME TypeOK, NEW t \in Threads, GrowArray(t)
  PROVE  \A j : SelectorsAt(j)' = SelectorsAt(j) /\ Sels(j)' = Sels(j)
<1>1. PICK n \in Nat : array \in [0..(n - 1) -> Seq(Selectors)]
  BY DEF TypeOK
<1>2. Index(t) \in Nat
  BY DEF Index, TypeOK, CallType, Selectors
<1>3. PICK m \in Nat : /\ Room(Cardinality(0..(n - 1)), Index(t) + 1) = m
                       /\ 0..(n - 1) \subseteq 0..(m - 1)
  BY <1>2, Widened
<1>4. DOMAIN array = 0..(n - 1)
  BY <1>1
<1>5. array' = [i \in 0..(m - 1) |-> SelectorsAt(i)]
  BY <1>3, <1>4 DEF GrowArray
<1>6. \A j : SelectorsAt(j)' = SelectorsAt(j)
  BY <1>3, <1>4, <1>5 DEF SelectorsAt
<1> QED
  BY <1>6 DEF Sels

(* Growing it keeps what is said of the data.                                *)
LEMMA GrowArrayStep ==
  ASSUME TypeOK, DataInv, NEW t \in Threads, GrowArray(t)
  PROVE  DataInv'
<1>1. UNCHANGED <<hash, max_index, names, uninstalled, pool, call, returned>>
  BY DEF GrowArray
<1>2. \A j : SelectorsAt(j)' = SelectorsAt(j) /\ Sels(j)' = Sels(j)
  BY GrowArrayKeeps
<1>3. \A u : Index(u)' = Index(u) /\ Method(u)' = Method(u) /\ (Made(call[u].sel.at)' <=> Made(call[u].sel.at))
  BY <1>1 DEF Index, Method, Made
<1>4. HashInv'
  BY <1>1 DEF DataInv, HashInv
<1>5. ListInv' /\ ReturnedInv'
  BY <1>1, <1>2 DEF DataInv, ListInv, ReturnedInv, Made
<1>6. MadeInv' /\ UnlistedInv' /\ ListedInv'
  BY <1>1, <1>2, <1>3 DEF DataInv, CallInv, MadeInv, UnlistedInv, ListedInv
<1>7. IndexInv'
  BY <1>1 DEF DataInv, IndexInv, Naming
<1> QED
  BY <1>4, <1>5, <1>6, <1>7 DEF DataInv, CallInv

(* A step of a registration to the next table: what the call is about stays. *)
LEMMA NextTable ==
  ASSUME TypeOK, Exclusive, NEW t \in Threads, Work(t), NEW at, Goto(t, at)
  PROVE  /\ call'[t].at = at /\ call'[t].sel = call[t].sel /\ call'[t].list = call[t].list
         /\ call'[t].new = call[t].new
         /\ Index(t)' = Index(t) /\ Method(t)' = Method(t)
         /\ \A u \in Threads \ {t} : call'[u] = call[u] /\ call[u].at \in {"idle", "lock"}
<1>1. call \in [Threads -> CallType]
  BY DEF TypeOK
<1>2. /\ call'[t].at = at /\ call'[t].sel = call[t].sel /\ call'[t].list = call[t].list
      /\ call'[t].new = call[t].new /\ call'[t].todo = call[t].todo
  BY <1>1 DEF Goto, CallType
<1> QED
  BY <1>2, Others DEF Index, Method

(* So does writing the name.                                                 *)
LEMMA PutNameStep ==
  ASSUME TypeOK, Exclusive, DataInv, NEW t \in Threads, PutName(t)
  PROVE  DataInv'
<1>1. /\ UNCHANGED <<hash, max_index, array, uninstalled, pool, returned>>
      /\ call[t].at = "names" /\ Index(t) \in DOMAIN names
      /\ names' = [names EXCEPT ![Index(t)] = Method(t).name]
  BY DEF PutName, At
<1>2. /\ call'[t].at = "array" /\ call'[t].sel = call[t].sel /\ call'[t].list = call[t].list
      /\ call'[t].new = call[t].new
      /\ Index(t)' = Index(t) /\ Method(t)' = Method(t)
      /\ \A u \in Threads \ {t} : call'[u] = call[u] /\ call[u].at \in {"idle", "lock"}
  BY NextTable DEF Work, PutName
<1>3. \A j : SelectorsAt(j)' = SelectorsAt(j) /\ Sels(j)' = Sels(j)
  BY <1>1 DEF SelectorsAt, Sels
<1>4. \A x : Made(x)' <=> Made(x)
  BY <1>1 DEF Made
<1>5. /\ DOMAIN names' = DOMAIN names /\ names'[Index(t)] = Method(t).name
      /\ \A i \in DOMAIN names : i # Index(t) => names'[i] = names[i]
  BY <1>1 DEF TypeOK
<1>6. \A m \in DOMAIN hash : hash[m] = Index(t) => m = Method(t).name
  BY <1>1 DEF DataInv, CallInv, MadeInv, HashInv
<1>7. HashInv'
  BY <1>1, <1>5, <1>6 DEF DataInv, HashInv
<1>8. ListInv' /\ ReturnedInv'
  BY <1>1, <1>3 DEF DataInv, ListInv, ReturnedInv, Made
<1>9. MadeInv'
  <2>1. Made(call[t].sel.at)' <=> Made(call[t].sel.at)
    BY <1>1, <1>2 DEF Made
  <2> QED
    BY <1>1, <1>2, <2>1 DEF DataInv, CallInv, MadeInv
<1>10. UnlistedInv'
  BY SMTT(30), <1>1, <1>2, <1>3 DEF DataInv, CallInv, UnlistedInv
<1>11. ListedInv'
  BY <1>1, <1>2, <1>5 DEF ListedInv
<1>12. IndexInv'
  <2>1. Naming' <=> Naming
    BY <1>1, <1>2, Others DEF Work, NamingBy
  <2> QED
    BY <1>1, <2>1 DEF DataInv, IndexInv
<1> QED
  BY <1>7, <1>8, <1>9, <1>10, <1>11, <1>12 DEF DataInv, CallInv

(* So does linking the selector.                                             *)
LEMMA PutArrayStep ==
  ASSUME TypeOK, Exclusive, DataInv, NEW t \in Threads, PutArray(t)
  PROVE  DataInv'
<1> PICK i : i = Index(t)
  OBVIOUS
<1> PICK s : s = call[t].sel
  OBVIOUS
<1> DEFINE next == IF call[t].new THEN "hash" ELSE "uninstalled"
<1>1. /\ UNCHANGED <<hash, max_index, names, uninstalled, pool, returned>>
      /\ call[t].at = "array" /\ i \in DOMAIN array
      /\ array' = [array EXCEPT ![i] = call[t].list]
  BY DEF PutArray, At
<1>2. /\ call'[t].at = next /\ call'[t].sel = s
      /\ call'[t].new = call[t].new
      /\ Index(t)' = i /\ Method(t)' = Method(t)
      /\ \A u \in Threads \ {t} : call'[u] = call[u] /\ call[u].at \in {"idle", "lock"}
  BY NextTable DEF Work, PutArray
<1>3. /\ i \in 1..max_index /\ i \in Nat /\ s.id = i /\ Made(s.at) /\ s \in Selectors
      /\ \A j \in Nat : \A o \in Sels(j) : o.at # s.at
      /\ \A o \in Sels(i) : o.types # s.types
      /\ call[t].list = <<s>> \o SelectorsAt(i)
      /\ call[t].new => SelectorsAt(i) = <<>>
  <2>1. s \in Selectors /\ i = s.id /\ i \in Nat
    BY DEF Index, TypeOK, CallType, Selectors
  <2> QED
    BY <1>1, <2>1 DEF DataInv, CallInv, MadeInv, UnlistedInv
<1>4. /\ SelectorsAt(i)' = <<s>> \o SelectorsAt(i)
      /\ \A j \in Nat : j # i => SelectorsAt(j)' = SelectorsAt(j)
  BY <1>1, <1>3 DEF SelectorsAt, TypeOK
<1>5. /\ Sels(i)' = {s} \cup Sels(i)
      /\ \A j \in Nat : j # i => Sels(j)' = Sels(j)
  <2>1. Elements(<<s>> \o SelectorsAt(i)) = {s} \cup Elements(SelectorsAt(i))
    BY <1>3, ListsTyped, ListElements
  <2> QED
    BY <1>2, <1>4, <2>1 DEF Sels
<1>6. HashInv'
  BY <1>1 DEF DataInv, HashInv
<1>7. ListInv'
  <2>1. \A x : Made(x)' <=> Made(x)
    BY <1>1 DEF Made
  <2>2. ASSUME NEW j \in Nat, NEW o \in Sels(j)'
        PROVE  o \in Sels(j) \/ (j = i /\ o = s)
    BY <1>5, <2>2
  <2> QED
    BY <1>1, <1>3, <2>1, <2>2 DEF DataInv, ListInv
<1>8. MadeInv'
  <2>1. Made(call[t].sel.at)' <=> Made(call[t].sel.at)
    BY <1>1, <1>2 DEF Made
  <2> QED
    BY <1>1, <1>2, <2>1 DEF DataInv, CallInv, MadeInv
<1>9. UnlistedInv'
  BY <1>2 DEF UnlistedInv
<1>10. ListedInv'
  <2>1. s \in Sels(i)' /\ (call[t].new => Sels(i)' = {s})
    BY <1>3, <1>5, ListsTyped
  <2>2. i \in DOMAIN names' /\ names'[i] = Method(t).name
    BY <1>1 DEF DataInv, CallInv, ListedInv
  <2> QED
    BY <1>2, <2>1, <2>2 DEF ListedInv
<1>11. ReturnedInv'
  <2>1. \A r \in returned : r.sel.id \in Nat
    BY DEF TypeOK, Selectors
  <2> QED
    BY <1>1, <1>5, <2>1 DEF DataInv, ReturnedInv
<1>12. IndexInv'
  <2>1. Naming' <=> Naming
    BY <1>1, <1>2, Others DEF Work, NamingBy
  <2> QED
    BY <1>1, <2>1 DEF DataInv, IndexInv
<1> QED
  BY <1>6, <1>7, <1>8, <1>9, <1>10, <1>11, <1>12 DEF DataInv, CallInv

(* So does entering the name in the hash.                                    *)
LEMMA HashAddStep ==
  ASSUME TypeOK, Exclusive, DataInv, NEW t \in Threads, HashAdd(t)
  PROVE  DataInv'
<1> PICK i : i = Index(t)
  OBVIOUS
<1> PICK n : n = Method(t).name
  OBVIOUS
<1>1. /\ UNCHANGED <<max_index, names, array, uninstalled, pool, returned>>
      /\ call[t].at = "hash"
      /\ hash' = [m \in DOMAIN hash \cup {n} |-> IF m = n THEN i ELSE hash[m]]
  BY DEF HashAdd, At
<1>2. /\ call'[t].at = "uninstalled" /\ call'[t].sel = call[t].sel
      /\ call'[t].new = call[t].new
      /\ Index(t)' = i /\ Method(t)' = Method(t)
      /\ \A u \in Threads \ {t} : call'[u] = call[u] /\ call[u].at \in {"idle", "lock"}
  BY NextTable DEF Work, HashAdd
<1>3. \A j : SelectorsAt(j)' = SelectorsAt(j) /\ Sels(j)' = Sels(j)
  BY <1>1 DEF SelectorsAt, Sels
<1>4. /\ call[t].new /\ n \notin DOMAIN hash /\ \A m \in DOMAIN hash : hash[m] # i
      /\ i \in 1..max_index /\ i \in DOMAIN names /\ names[i] = n
  BY <1>1 DEF DataInv, CallInv, MadeInv, ListedInv
<1>5. /\ DOMAIN hash' = DOMAIN hash \cup {n} /\ hash'[n] = i
      /\ \A m \in DOMAIN hash : hash'[m] = hash[m]
  BY <1>1, <1>4
<1>6. HashInv'
  BY <1>1, <1>4, <1>5 DEF DataInv, HashInv
<1>7. ListInv'
  BY <1>1, <1>3 DEF DataInv, ListInv, Made
<1>8. ReturnedInv'
  BY <1>1, <1>3, <1>5 DEF DataInv, ReturnedInv
<1>9. MadeInv'
  <2>1. Made(call[t].sel.at)' <=> Made(call[t].sel.at)
    BY <1>1, <1>2 DEF Made
  <2> QED
    BY <1>1, <1>2, <1>5, <2>1 DEF DataInv, CallInv, MadeInv
<1>10. UnlistedInv'
  BY <1>2 DEF UnlistedInv
<1>11. ListedInv'
  BY <1>1, <1>2, <1>3, <1>4 DEF DataInv, CallInv, ListedInv
<1>12. IndexInv'
  <2>1. Naming /\ ~Naming'
    BY <1>1, <1>2, <1>4, Others DEF Work, NamingBy
  <2>2. /\ IsFiniteSet(DOMAIN hash') /\ Cardinality(DOMAIN hash') = Cardinality(DOMAIN hash) + 1
    BY SMTT(30), <1>4, <1>5, FS_AddElement DEF DataInv, IndexInv
  <2> QED
    BY <1>1, <2>1, <2>2, FS_CardinalityType DEF DataInv, IndexInv
<1> QED
  BY <1>6, <1>7, <1>8, <1>9, <1>10, <1>11, <1>12 DEF DataInv, CallInv

(* So does growing the uninstalled table.                                    *)
LEMMA GrowUninstalledStep ==
  ASSUME TypeOK, Exclusive, DataInv, NEW t \in Threads, GrowUninstalled(t)
  PROVE  DataInv'
<1> DEFINE n == Method(t).name
           s == call[t].sel
<1>1. /\ call[t].at = "uninstalled" /\ UNCHANGED <<hash, max_index, names, array, pool>>
      /\ Registered(t, s)
  BY DEF GrowUninstalled, At
<1>2. \A j : SelectorsAt(j)' = SelectorsAt(j) /\ Sels(j)' = Sels(j)
  BY <1>1 DEF SelectorsAt, Sels
<1>3. /\ n \in DOMAIN hash /\ hash[n] = s.id /\ s.types = Method(t).types /\ s \in Sels(s.id)
  BY <1>1 DEF DataInv, CallInv, MadeInv, ListedInv, Index
<1>4. HashInv' /\ ListInv'
  BY <1>1, <1>2 DEF DataInv, HashInv, ListInv, Made
<1>5. /\ \A u \in Threads \ {t} : call'[u] = call[u] /\ call[u].at \in {"idle", "lock"}
      /\ call'[t].at \in {"unlock", "find"}
  <2>1. call'[t].at \in {"unlock", "find"}
    BY <1>1 DEF Registered, Idle, TypeOK
  <2> QED
    BY <2>1, Others DEF Work
<1>6. CallInv'
  BY <1>5 DEF CallInv, MadeInv, UnlistedInv, ListedInv
<1>7. ReturnedInv'
  <2> DEFINE r == [name |-> n, types |-> Method(t).types, sel |-> s]
  <2>1. returned' = returned \cup {r}
    BY <1>1 DEF Registered
  <2>2. r.name = n /\ r.types = Method(t).types /\ r.sel = s
    OBVIOUS
  <2> HIDE DEF r, n, s
  <2> QED
    BY <1>1, <1>2, <1>3, <2>1, <2>2 DEF DataInv, ReturnedInv
<1>8. IndexInv'
  <2>1. ~Naming' /\ ~Naming
    BY <1>1, <1>5, Others DEF Work, NamingBy
  <2> QED
    BY <1>1, <2>1 DEF DataInv, IndexInv
<1> QED
  BY <1>4, <1>6, <1>7, <1>8 DEF DataInv

-----------------------------------------------------------------------------
(* The invariant holds of every behaviour.                                   *)
LEMMA StepInv == IInv /\ [Next]_vars => IInv'
<1> SUFFICES ASSUME IInv, [Next]_vars PROVE IInv'
  OBVIOUS
<1>1. TypeOK /\ Exclusive /\ DataInv
  BY DEF IInv, DataInv
<1>2. Exclusive' /\ LockTypeOK'
  BY <1>1, ExclusiveStep
<1>3. TypeOK'
  BY <1>1, <1>2, TypeStep
<1>4. DataInv'
  <2>1. CASE UNCHANGED vars
    BY <1>1, <2>1, NeutralStep DEF vars
  <2>2. ASSUME NEW t \in Threads, NEW list \in MethodLists, Register(t, list) PROVE DataInv'
    <3>1. /\ UNCHANGED data /\ UNCHANGED returned
          /\ call[t].at = "idle" /\ call'[t].at = "lock"
          /\ \A u \in Threads \ {t} : call'[u] = call[u]
      BY <1>1, <2>2 DEF Register, At, Idle, TypeOK
    <3> QED
      BY <1>1, <3>1, NeutralStep
  <2>3. ASSUME NEW t \in Threads, RegisterLock(t) \/ RegisterUnlock(t) PROVE DataInv'
    <3>1. /\ UNCHANGED data /\ UNCHANGED returned
          /\ call[t].at \in {"lock", "unlock"} /\ call'[t].at \in {"find", "idle"}
          /\ \A u \in Threads \ {t} : call'[u] = call[u]
      BY <1>1, <2>3 DEF RegisterLock, RegisterUnlock, Goto, At, TypeOK, CallType
    <3> QED
      BY <1>1, <3>1, NeutralStep
  <2>4. ASSUME NEW t \in Threads, Work(t) PROVE DataInv'
    BY <1>1, <2>4, FindSameStep, MakeSelectorStep, GrowNamesStep, PutNameStep,
       GrowArrayStep, PutArrayStep, HashAddStep, GrowUninstalledStep DEF Work
  <2> QED
    BY <2>1, <2>2, <2>3, <2>4, AnyStep
<1> QED
  BY <1>2, <1>3, <1>4 DEF IInv, DataInv

(* Whatever threads register whatever names, the tables agree.               *)
THEOREM Invariance == Spec => []IInv
BY InitInv, StepInv, PTL DEF Spec

(* Registering a name and types twice gives one selector, registering other  *)
(* ones another, and an id stands for one name (__sel_register_typed_name),  *)
(* for any threads and any lists of methods.                                 *)
THEOREM RegisteredOnce == Spec => []SelectorsUnique
<1>1. ASSUME IInv PROVE SelectorsUnique
  <2> SUFFICES ASSUME NEW r \in returned, NEW s \in returned
               PROVE  /\ r.sel.at = s.sel.at <=> (r.name = s.name /\ r.types = s.types)
                      /\ r.sel.id = s.sel.id <=> r.name = s.name
    BY DEF SelectorsUnique
  <2>1. /\ r.name \in DOMAIN hash /\ hash[r.name] = r.sel.id
        /\ r.types = r.sel.types /\ r.sel \in Sels(r.sel.id) /\ r.sel.id \in Nat
    BY <1>1 DEF IInv, ReturnedInv, TypeOK, Selectors
  <2>2. /\ s.name \in DOMAIN hash /\ hash[s.name] = s.sel.id
        /\ s.types = s.sel.types /\ s.sel \in Sels(s.sel.id) /\ s.sel.id \in Nat
    BY <1>1 DEF IInv, ReturnedInv, TypeOK, Selectors
  <2>3. r.sel.id = s.sel.id <=> r.name = s.name
    BY <1>1, <2>1, <2>2 DEF IInv, HashInv
  <2>4. r.sel.at = s.sel.at => r.sel = s.sel
    BY <1>1, <2>1, <2>2 DEF IInv, ListInv
  <2>5. ASSUME r.name = s.name, r.types = s.types PROVE r.sel = s.sel
    <3>1. r.sel.id = s.sel.id /\ r.sel.types = s.sel.types
      BY <2>1, <2>2, <2>3, <2>5
    <3>2. \A o \in Sels(r.sel.id) : r.sel.types = o.types => r.sel = o
      BY <1>1, <2>1 DEF IInv, ListInv
    <3> QED
      BY <2>2, <3>1, <3>2
  <2> QED
    BY <2>1, <2>2, <2>3, <2>4, <2>5
<1> QED
  BY <1>1, Invariance, PTL

(* What a registration returned is found again by every lookup from then on, *)
(* also in the middle of other registrations (sel_get_any_uid,               *)
(* sel_get_any_typed_uid, sel_get_name).                                     *)
THEOREM LookupsFind == Spec => []FoundAgain
<1>1. ASSUME IInv PROVE FoundAgain
  <2> SUFFICES ASSUME NEW r \in returned
               PROVE  /\ AnyUid(r.name).id = r.sel.id
                      /\ AnyTypedUid(r.name).id = r.sel.id
                      /\ r.types # Untyped => AnyTypedUid(r.name).types # Untyped
                      /\ NameOf(r.sel) = r.name
                      /\ r.sel \in Elements(SelectorsAt(r.sel.id))
    BY DEF FoundAgain
  <2> DEFINE i == r.sel.id
             list == SelectorsAt(i)
  <2>1. /\ r.name \in DOMAIN hash /\ hash[r.name] = i
        /\ r.types = r.sel.types /\ r.sel \in Elements(list) /\ i \in Nat
    BY <1>1 DEF IInv, ReturnedInv, TypeOK, Selectors, Sels
  <2>2. i \in 1..max_index /\ i \in DOMAIN names /\ names[i] = r.name
    BY <1>1, <2>1 DEF IInv, HashInv
  <2>3. list \in Seq(Selectors)
    BY <1>1, <2>1, ListsTyped DEF IInv
  <2>4. \A k \in 1..Len(list) : list[k].id = i
    BY <1>1, <2>1 DEF IInv, ListInv, Sels, Elements
  <2>5. PICK k \in 1..Len(list) : list[k] = r.sel
    BY <2>1 DEF Elements
  <2>6. IndexOf(r.name) = i /\ i # 0
    BY <2>1, <2>2 DEF IndexOf
  <2> HIDE DEF list
  <2>7. list # <<>> /\ Len(list) \in 1..Len(list) /\ 1 \in 1..Len(list) /\ Head(list) = list[1]
    BY <2>3, <2>5
  <2>8. AnyUid(r.name).id = i
    BY <2>4, <2>6, <2>7 DEF AnyUid, list
  <2> DEFINE typed == {j \in 1..Len(list) : list[j].types # Untyped}
  <2>9. typed # {} => (CHOOSE j \in typed : \A l \in typed : j <= l) \in typed
    <3> HIDE DEF typed
    <3>1. typed \subseteq Nat
      BY <2>3 DEF typed
    <3> QED
      BY <3>1, LeastElement
  <2>10. AnyTypedUid(r.name) = IF typed = {} THEN list[Len(list)]
                               ELSE list[CHOOSE j \in typed : \A l \in typed : j <= l]
    BY <2>6, <2>7 DEF AnyTypedUid, list
  <2>11. r.types # Untyped => k \in typed
    BY <2>1, <2>5
  <2>12. \A j \in typed : list[j].types # Untyped /\ list[j].id = i
    BY <2>4
  <2> HIDE DEF typed
  <2>13. /\ AnyTypedUid(r.name).id = i
         /\ r.types # Untyped => AnyTypedUid(r.name).types # Untyped
    BY <2>4, <2>7, <2>9, <2>10, <2>11, <2>12
  <2>14. NameOf(r.sel) = r.name
    BY <2>2 DEF NameOf, IsMapped
  <2> QED
    BY <2>1, <2>8, <2>13, <2>14 DEF list
<1> QED
  BY <1>1, Invariance, PTL

-----------------------------------------------------------------------------
(* The refinement of SelectorRegistry.                                       *)
Entry(n, s) == [name |-> n, types |-> s.types, id |-> s.id]

(* The selectors that are known, those of names in the hash.                 *)
LEMMA KnownIs ==
  /\ \A x : x \in Known <=> \E n \in DOMAIN hash : \E s \in Sels(hash[n]) : x = Entry(n, s)
  /\ \A x : x \in Known' <=>
         \E n \in DOMAIN hash' : \E s \in Sels(hash[n])' : x = Entry(n, s)
BY DEF Known, Sels, Entry

(* A selector that becomes known is one that could be registered.            *)
LEMMA NewlyKnown ==
  ASSUME TypeOK, HashInv, ListInv, NEW n \in Names, NEW s \in Selectors,
         s.types \in Types, s.id \in 1..Cardinality(Names),
         \A m \in DOMAIN hash : hash[m] = s.id <=> m = n,
         \A o \in Sels(s.id) : n \in DOMAIN hash => o.types # s.types,
         Known' = Known \cup {Entry(n, s)}
  PROVE  Registry!Next
<1>1. ASSUME NEW k \in Known
      PROVE  (k.name = n => k.types # s.types) /\ (k.name = n <=> k.id = s.id)
  <2>1. PICK m \in DOMAIN hash : \E o \in Sels(hash[m]) : k = Entry(m, o)
    BY <1>1, KnownIs
  <2>2. PICK o \in Sels(hash[m]) : k = Entry(m, o)
    BY <2>1
  <2>3. hash[m] \in Nat
    BY DEF TypeOK
  <2>4. o.id = hash[m] /\ k.name = m /\ k.types = o.types /\ k.id = o.id
    BY <2>2, <2>3 DEF ListInv, Entry
  <2> QED
    BY <2>2, <2>4
<1>2. Registry!Register(n, s.types, s.id)
  BY <1>1 DEF Registry!Register, Entry
<1> QED
  BY <1>2 DEF Registry!Next

(* There are no more indices in use than names.                              *)
LEMMA EnoughIds ==
  ASSUME TypeOK, IndexInv, NEW n \in Names, Naming => n \notin DOMAIN hash
  PROVE  max_index <= Cardinality(Names)
<1>1. DOMAIN hash \cup {n} \subseteq Names /\ IsFiniteSet(DOMAIN hash) /\ IsFiniteSet(Names)
  BY NamesAssumption DEF TypeOK, IndexInv
<1>2. Cardinality(DOMAIN hash) <= Cardinality(Names)
  BY <1>1, FS_Subset
<1>3. Cardinality(DOMAIN hash \cup {n}) <= Cardinality(Names)
  BY <1>1, FS_Subset
<1>4. n \notin DOMAIN hash => Cardinality(DOMAIN hash \cup {n}) = Cardinality(DOMAIN hash) + 1
  BY <1>1, FS_AddElement
<1>5. Cardinality(DOMAIN hash) \in Nat /\ Cardinality(Names) \in Nat
  BY <1>1, FS_CardinalityType
<1> QED
  BY <1>2, <1>3, <1>4, <1>5 DEF IndexInv

(* Linking a selector makes it known if its name is in the hash.             *)
LEMMA RegistryPutArray ==
  ASSUME TypeOK, Exclusive, DataInv, NEW t \in Threads, PutArray(t)
  PROVE  Registry!Next \/ Known' = Known
<1> PICK i : i = Index(t)
  OBVIOUS
<1> PICK s : s = call[t].sel
  OBVIOUS
<1> PICK n : n = Method(t).name
  OBVIOUS
<1>1. /\ call[t].at = "array" /\ i \in DOMAIN array /\ hash' = hash
      /\ array' = [array EXCEPT ![i] = call[t].list]
  BY DEF PutArray, At
<1>2. /\ i \in 1..max_index /\ i \in Nat /\ s.id = i /\ s \in Selectors
      /\ s.types = Method(t).types /\ n \in Names /\ s.types \in Types
      /\ call[t].list = <<s>> \o SelectorsAt(i)
      /\ \A o \in Sels(i) : o.types # s.types
      /\ IF call[t].new THEN \A m \in DOMAIN hash : hash[m] # i
         ELSE n \in DOMAIN hash /\ hash[n] = i
  <2>1. s \in Selectors /\ i = s.id /\ i \in Nat
    BY DEF Index, TypeOK, CallType, Selectors
  <2>2. n \in Names /\ Method(t).types \in Types
    BY <1>1, MethodType DEF Labels, Working
  <2> QED
    BY ZenonT(30), <1>1, <2>1, <2>2 DEF DataInv, CallInv, MadeInv, UnlistedInv
<1>3. /\ Sels(i)' = {s} \cup Sels(i)
      /\ \A j \in Nat : j # i => Sels(j)' = Sels(j)
  <2>1. /\ SelectorsAt(i)' = <<s>> \o SelectorsAt(i)
        /\ \A j \in Nat : j # i => SelectorsAt(j)' = SelectorsAt(j)
    BY <1>1, <1>2 DEF SelectorsAt, TypeOK
  <2>2. Elements(<<s>> \o SelectorsAt(i)) = {s} \cup Elements(SelectorsAt(i))
    BY <1>2, ListsTyped, ListElements
  <2> QED
    BY <2>1, <2>2 DEF Sels
<1>4. /\ DOMAIN hash' = DOMAIN hash
      /\ \A m \in DOMAIN hash : hash[m] \in Nat /\ Sels(hash[m])' = IF hash[m] = i THEN {s} \cup Sels(i) ELSE Sels(hash[m])
  <2>1. ASSUME NEW m \in DOMAIN hash, NEW j, j = hash[m]
        PROVE  j \in Nat /\ Sels(hash[m])' = Sels(j)'
    BY <1>1, <2>1 DEF TypeOK, Sels, SelectorsAt
  <2> QED
    BY <1>1, <1>3, <2>1
<1>5. CASE call[t].new
  <2>1. \A m \in DOMAIN hash : Sels(hash[m])' = Sels(hash[m])
    BY <1>2, <1>4, <1>5
  <2> QED
    BY ZenonT(30), <1>4, <2>1, KnownIs
<1>6. CASE ~call[t].new
  <2>1. \A m \in DOMAIN hash : hash[m] = i <=> m = n
    BY <1>2, <1>6 DEF DataInv, HashInv
  <2>2. Known' = Known \cup {Entry(n, s)}
    <3>1. /\ n \in DOMAIN hash /\ hash[n] = i /\ Sels(hash[n])' = {s} \cup Sels(hash[n])
          /\ \A m \in DOMAIN hash : m # n => Sels(hash[m])' = Sels(hash[m])
      BY <1>2, <1>4, <1>6, <2>1
    <3> QED
      BY <1>4, <3>1, KnownIs
  <2>3. ~Naming
    BY <1>1, <1>6, Others DEF Work, NamingBy
  <2>4. s.id \in 1..Cardinality(Names)
    <3>1. max_index <= Cardinality(Names)
      BY <1>2, <2>3, EnoughIds DEF DataInv
    <3>2. Cardinality(Names) \in Nat /\ max_index \in Nat
      BY NamesAssumption, FS_CardinalityType DEF TypeOK
    <3> QED
      BY <1>2, <3>1, <3>2
  <2>5. \A o \in Sels(s.id) : o.types # s.types
    BY <1>2
  <2>6. \A m \in DOMAIN hash : hash[m] = s.id <=> m = n
    BY <1>2, <2>1
  <2> QED
    BY <1>2, <2>2, <2>4, <2>5, <2>6, NewlyKnown DEF DataInv
<1> QED
  BY <1>5, <1>6

(* Entering a name makes its one selector known.                             *)
LEMMA RegistryHashAdd ==
  ASSUME TypeOK, Exclusive, DataInv, NEW t \in Threads, HashAdd(t)
  PROVE  Registry!Next
<1> PICK i : i = Index(t)
  OBVIOUS
<1> PICK s : s = call[t].sel
  OBVIOUS
<1> PICK n : n = Method(t).name
  OBVIOUS
<1>1. /\ call[t].at = "hash" /\ array' = array
      /\ hash' = [m \in DOMAIN hash \cup {n} |-> IF m = n THEN i ELSE hash[m]]
  BY DEF HashAdd, At
<1>2. /\ i \in 1..max_index /\ i \in Nat /\ s.id = i /\ s \in Selectors
      /\ n \in Names /\ s.types \in Types
      /\ call[t].new /\ n \notin DOMAIN hash /\ (\A m \in DOMAIN hash : hash[m] # i)
      /\ Sels(i) = {s}
  <2>1. s \in Selectors /\ i = s.id /\ i \in Nat
    BY DEF Index, TypeOK, CallType, Selectors
  <2>2. n \in Names /\ Method(t).types \in Types
    BY <1>1, MethodType DEF Labels, Working
  <2> QED
    BY <1>1, <2>1, <2>2 DEF DataInv, CallInv, MadeInv, ListedInv
<1>3. /\ DOMAIN hash' = DOMAIN hash \cup {n}
      /\ Sels(hash[n])' = {s}
      /\ \A m \in DOMAIN hash : Sels(hash[m])' = Sels(hash[m])
  <2>1. hash'[n] = i /\ \A m \in DOMAIN hash : hash'[m] = hash[m]
    BY <1>1, <1>2
  <2> QED
    BY <1>1, <1>2, <2>1 DEF Sels, SelectorsAt
<1>4. Known' = Known \cup {Entry(n, s)}
  BY <1>2, <1>3, KnownIs
<1>5. s.id \in 1..Cardinality(Names)
  BY SMTT(30), <1>2, EnoughIds, NamesAssumption, FS_CardinalityType DEF DataInv, TypeOK
<1> QED
  BY <1>2, <1>4, <1>5, NewlyKnown DEF DataInv

(* Every step is one of SelectorRegistry, or leaves it as it is.             *)
LEMMA RegistryStep ==
  ASSUME IInv, [Next]_vars PROVE [Registry!Next]_Known
<1>1. TypeOK /\ Exclusive /\ DataInv
  BY DEF IInv, DataInv
<1>2. ASSUME UNCHANGED hash, \A j : Sels(j)' = Sels(j) PROVE Known' = Known
  <2>1. \A n \in DOMAIN hash : Sels(hash[n])' = Sels(hash[n])
    BY <1>2 DEF Sels, SelectorsAt
  <2> QED
    BY <1>2, <2>1, KnownIs
<1>3. ASSUME UNCHANGED <<hash, array>> PROVE Known' = Known
  BY <1>3 DEF Known, SelectorsAt
<1>4. CASE UNCHANGED vars
  BY <1>3, <1>4 DEF vars, data
<1>5. ASSUME NEW t \in Threads, NEW list \in MethodLists, Register(t, list)
      PROVE  Known' = Known
  BY <1>3, <1>5 DEF Register, data
<1>6. ASSUME NEW t \in Threads,
             \/ RegisterLock(t) \/ RegisterUnlock(t) \/ FindSame(t) \/ MakeSelector(t)
             \/ GrowNames(t) \/ PutName(t) \/ GrowUninstalled(t)
      PROVE  Known' = Known
  BY <1>3, <1>6 DEF RegisterLock, RegisterUnlock, FindSame, MakeSelector, GrowNames, PutName,
     GrowUninstalled, data
<1>7. ASSUME NEW t \in Threads, GrowArray(t) PROVE Known' = Known
  <2>1. UNCHANGED hash
    BY <1>7 DEF GrowArray
  <2> QED
    BY <1>1, <1>2, <1>7, <2>1, GrowArrayKeeps
<1>8. ASSUME NEW t \in Threads, PutArray(t) \/ HashAdd(t) PROVE Registry!Next \/ Known' = Known
  BY <1>1, <1>8, RegistryPutArray, RegistryHashAdd
<1> QED
  BY <1>4, <1>5, <1>6, <1>7, <1>8, AnyStep DEF Work

(* The tables implement the registry: what lookups can find grows by one     *)
(* selector at a time that is complete from the step it appears at.          *)
THEOREM RefinesRegistry == Spec => ImplementsRegistry
<1>1. Init => Registry!Init
  BY DEF Init, Registry!Init, Known
<1>2. IInv /\ [Next]_vars => [Registry!Next]_Known
  BY RegistryStep
<1> QED
  BY <1>1, <1>2, Invariance, PTL DEF Spec, Registry!Spec, ImplementsRegistry
=============================================================================
