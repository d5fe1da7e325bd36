--------------------------- MODULE ReclaimProofs ---------------------------
(* What holds of threads, tables and garbage under a mutex that is not NULL, *)
(* for any threads, blocks and numbers of calls.  The inductive invariant    *)
(* says who holds the mutex at which label, how the count lags behind the    *)
(* threads, and to whom every block belongs.                                 *)
EXTENDS Reclaim, RuntimeLockProofs, FiniteSetTheorems, FunctionTheorems, SequenceTheorems

(* Labels between a lock and the unlock that gives the mutex up, whichever   *)
(* mutex it is ...                                                           *)
Locked == {"dt_create", "dt_count", "dt_unlock", "ad_count", "ad_unlock",
           "ex_count", "ex_unlock", "in_install", "in_unlock", "up_table",
           "fg_test", "rg_lock", "rg_take", "rg_free", "rg_unlock"}

(* ... and those that the coded mutex may have been given up before, by the  *)
(* unlock of sarray_free_garbage.                                            *)
MaybeLocked == {"fg_lock", "fg_unlock", "up_install", "up_unlock"}

Unlocked == {"none", "program", "dt_lock", "ad_lock", "ex_lock", "gone",
             "rd_table", "rd_use", "in_lock", "up_lock"}

Labels == Locked \cup MaybeLocked \cup Unlocked

(* A thread with blocks of an old table to free.                             *)
Freeing == {"fg_lock", "fg_test", "rg_lock", "rg_take", "rg_free",
            "rg_unlock", "fg_unlock"}

(* Locks nested in the update's own.                                         *)
Once == {"fg_test", "rg_lock", "fg_unlock"}
Twice == {"rg_take", "rg_free", "rg_unlock"}

TypeOK ==
    /\ alive \in Nat
    /\ garbage \in Seq(Blocks)
    /\ memory \in [Blocks -> {"free", "live", "garbage"}]
    /\ dtable \in SUBSET Blocks
    /\ pc \in [Threads -> Labels]
    /\ blocks \in [Threads -> SUBSET Blocks]
    /\ rest \in Seq(Blocks)
    /\ calls \in [Threads -> Nat]
    /\ LockTypeOK /\ mutex # "none"

(* One thread at a time is at a label under the lock, and the depth tells    *)
(* how many unlocks are to come.                                             *)
LockInv ==
    \A t \in Threads :
        /\ pc[t] \in Locked => holder = t
        /\ pc[t] \in MaybeLocked /\ mutex = "promised" => holder = t
        /\ holder = t =>
            /\ pc[t] \notin Unlocked
            /\ mutex = "promised" =>
                depth = IF pc[t] \in Twice THEN 3 ELSE IF pc[t] \in Once THEN 2 ELSE 1
            /\ mutex = "depth" =>
                /\ pc[t] \in Twice => depth \in {1, 2}
                /\ pc[t] \in Once => depth \in {0, 1}
                /\ pc[t] \notin Twice \cup Once => depth = 0

(* Those who use the runtime; the one that a new thread's maker has not      *)
(* counted yet is among them.                                                *)
Uncounted == {"none", "ad_lock", "ad_count", "ex_unlock", "gone"}
Counted == {t \in Threads : pc[t] \notin Uncounted}

CountInv ==
    /\ IsFiniteSet(Counted)
    /\ (\A t \in Threads : ~At(t, "dt_count")) => alive = Cardinality(Counted)
    /\ (\E t \in Threads : At(t, "dt_count")) => alive + 1 = Cardinality(Counted)
    /\ \A t \in Threads : pc[t] \in {"rg_lock", "rg_take", "rg_free"} => alive = 1

(* A live block is in the table or in the hands of one thread that frees it, *)
(* and a message's reader has blocks of a table that was not freed.          *)
TableLive == \A b \in dtable : memory[b] = "live"

FreeingLive ==
    \A t \in Threads : pc[t] \in Freeing =>
        \A b \in blocks[t] : memory[b] = "live" /\ b \notin dtable

FreeingApart ==
    \A t, u \in Threads : t # u /\ pc[t] \in Freeing /\ pc[u] \in Freeing =>
        blocks[t] \cap blocks[u] = {}

EmptyHanded == \A t \in Threads : pc[t] \notin Freeing \cup {"rd_use"} => blocks[t] = {}

LiveOwned ==
    \A b \in Blocks : memory[b] = "live" =>
        b \in dtable \/ \E t \in Threads : b \in blocks[t] /\ pc[t] # "rd_use"

OwnerInv ==
    TableLive /\ NoFreedRead /\ FreeingLive /\ FreeingApart /\ EmptyHanded /\ LiveOwned

(* The list, or what sarray_remove_garbage has taken off it, holds what is   *)
(* garbage, each block once.                                                 *)
Distinct(list) == \A i, j \in 1..Len(list) : list[i] = list[j] => i = j

GarbageInv ==
    /\ garbage = <<>> \/ rest = <<>>
    /\ \A t \in Threads : At(t, "rg_free") => garbage = <<>>
    /\ rest # <<>> => \E t \in Threads : At(t, "rg_free")
    /\ Distinct(garbage) /\ Distinct(rest)
    /\ \A b \in Blocks :
           memory[b] = "garbage" <=> b \in Elements(garbage) \/ b \in Elements(rest)

IInv == TypeOK /\ LockInv /\ CountInv /\ OwnerInv /\ GarbageInv

-----------------------------------------------------------------------------
(* Nothing is held, counted but the first thread, or installed at first.     *)
LEMMA InitInv == "none" \notin Mutexes /\ Init => IInv
<1> SUFFICES ASSUME "none" \notin Mutexes, Init PROVE IInv
  OBVIOUS
<1>1. TypeOK
  BY FirstAssumption, CallsAssumption, MutexesAssumption
  DEF Init, LockInit, TypeOK, LockTypeOK, Labels, Locked, MaybeLocked, Unlocked,
      Uninstalled
<1>2. LockInv
  BY ThreadsAssumption DEF Init, LockInit, LockInv, Locked, MaybeLocked, Unlocked
<1>3. Counted = {First}
  BY FirstAssumption DEF Init, Counted, Uncounted
<1>4. CountInv
  BY <1>3, FS_Singleton, FirstAssumption DEF Init, CountInv, At
<1>5. OwnerInv
  BY DEF Init, OwnerInv, TableLive, NoFreedRead, FreeingLive, FreeingApart, EmptyHanded,
     LiveOwned, Uninstalled, Freeing, At
<1>6. GarbageInv
  BY DEF Init, GarbageInv, Distinct, Elements
<1> QED
  BY <1>1, <1>2, <1>4, <1>5, <1>6 DEF IInv

-----------------------------------------------------------------------------
(* The steps of Next, those that lock and those that unlock put together.    *)
Locking(t) ==
    \/ LockAt(t, "dt_lock", "dt_create") \/ LockAt(t, "ad_lock", "ad_count")
    \/ LockAt(t, "ex_lock", "ex_count") \/ LockAt(t, "in_lock", "in_install")
    \/ LockAt(t, "up_lock", "up_table") \/ LockAt(t, "fg_lock", "fg_test")
    \/ LockAt(t, "rg_lock", "rg_take")

Unlocking(t) ==
    \/ UnlockAt(t, "dt_unlock", "program") \/ UnlockAt(t, "ad_unlock", "program")
    \/ UnlockAt(t, "ex_unlock", "gone") \/ UnlockAt(t, "in_unlock", "rd_table")
    \/ UnlockAt(t, "up_unlock", "program") \/ UnlockAt(t, "rg_unlock", "fg_unlock")
    \/ UnlockAt(t, "fg_unlock", IF blocks[t] = {} THEN "up_install" ELSE "fg_lock")

Installing(t) ==
    Install(t, "in_install", "in_unlock") \/ Install(t, "up_install", "up_unlock")

Collecting(t) == Discard(t) \/ TakeGarbage(t) \/ FreeGarbage(t)

Counting(t) == DetachCreate(t) \/ DetachCount(t) \/ AddCount(t) \/ ExitCount(t)

Reading(t) == ReadTable(t) \/ ReadUse(t)

(* The steps by what they have to do with the lock.                          *)
LEMMA AnyStep ==
  ASSUME Next
  PROVE  \E t \in Threads :
             \/ Program(t) \/ Locking(t) \/ Unlocking(t) \/ Counting(t) \/ Reading(t)
             \/ Installing(t) \/ Uninstall(t) \/ Collecting(t)
BY DEF Next, Locking, Unlocking, Counting, Reading, Installing, Collecting,
       Detach, Add, Exit, Read, Update, Collect

(* The places a call, a lock and an unlock lead from and to.                 *)
Moved(t) ==
    /\ pc' = [pc EXCEPT ![t] = pc'[t]]
    /\ UNCHANGED <<alive, heap, blocks, rest, mutex>>
    /\ calls' \in [Threads -> Nat]

ProgramPlaces(from, to) ==
    \/ from = "program" /\ to \in {"rd_table", "up_lock", "dt_lock", "ex_lock"}
    \/ from = "none" /\ to = "ad_lock"

LockPlaces(from, to) ==
    \/ from = "dt_lock" /\ to = "dt_create"
    \/ from = "ad_lock" /\ to = "ad_count"
    \/ from = "ex_lock" /\ to = "ex_count"
    \/ from = "in_lock" /\ to = "in_install"
    \/ from = "up_lock" /\ to = "up_table"
    \/ from = "fg_lock" /\ to = "fg_test"
    \/ from = "rg_lock" /\ to = "rg_take"

UnlockPlaces(from, to) ==
    \/ from \in {"dt_unlock", "ad_unlock", "up_unlock"} /\ to = "program"
    \/ from = "ex_unlock" /\ to = "gone"
    \/ from = "in_unlock" /\ to = "rd_table"
    \/ from = "rg_unlock" /\ to = "fg_unlock"
    \/ from = "fg_unlock" /\ to \in {"fg_lock", "up_install"}

(* A program's call changes the place of one thread, and not the lock.       *)
LEMMA ProgramMoves ==
  ASSUME TypeOK, NEW t \in Threads, Program(t)
  PROVE  Moved(t) /\ ProgramPlaces(pc[t], pc'[t]) /\ UNCHANGED lock
BY SMTT(30) DEF TypeOK, Program, Call, AddStart, ExitStart, At, Goto, Moved, ProgramPlaces

(* A lock leads into the section behind it.                                  *)
LEMMA LockMoves ==
  ASSUME TypeOK, NEW t \in Threads, Locking(t)
  PROVE  Moved(t) /\ LockPlaces(pc[t], pc'[t]) /\ Lock(t)
<1>1. Moved(t) /\ Lock(t)
  BY DEF TypeOK, Locking, LockAt, At, Goto, Moved
<1>2. LockPlaces(pc[t], pc'[t])
  BY DEF TypeOK, Locking, LockAt, At, Goto, LockPlaces
<1> QED
  BY <1>1, <1>2

(* An unlock leads out of its section, and an update goes on when nothing is *)
(* left to free.                                                             *)
LEMMA UnlockMoves ==
  ASSUME TypeOK, NEW t \in Threads, Unlocking(t)
  PROVE  /\ Moved(t) /\ UnlockPlaces(pc[t], pc'[t]) /\ Unlock(t)
         /\ pc'[t] = "up_install" => blocks[t] = {}
<1>1. Moved(t) /\ Unlock(t)
  BY DEF TypeOK, Unlocking, UnlockAt, At, Goto, Moved
<1>2. UnlockPlaces(pc[t], pc'[t]) /\ (pc'[t] = "up_install" => blocks[t] = {})
  BY DEF TypeOK, Unlocking, UnlockAt, At, Goto, UnlockPlaces
<1> QED
  BY <1>1, <1>2

(* They are places that make no difference to the count and to the blocks.   *)
Quiet(t) ==
    /\ Moved(t)
    /\ LET from == pc[t]
           to   == pc'[t]
       IN  /\ to \in Labels
           /\ from \in Uncounted <=> to \in Uncounted
           /\ {from, to} \cap {"dt_count", "rd_use", "rg_free"} = {}
           /\ to # "rg_lock" /\ (to = "rg_take" => from = "rg_lock")
           /\ IF to \in Freeing THEN from \in Freeing ELSE blocks[t] = {}

(* These steps touch neither tables nor blocks.                              *)
LEMMA QuietSteps ==
  ASSUME TypeOK, OwnerInv, NEW t \in Threads, Program(t) \/ Locking(t) \/ Unlocking(t)
  PROVE  Quiet(t)
<1> USE DEF Quiet, OwnerInv, EmptyHanded, Uncounted, Freeing, Labels, Locked, MaybeLocked, Unlocked
<1>1. CASE Program(t)
  BY <1>1, ProgramMoves DEF ProgramPlaces
<1>2. CASE Locking(t)
  BY <1>2, LockMoves DEF LockPlaces
<1>3. CASE Unlocking(t)
  BY <1>3, UnlockMoves DEF UnlockPlaces
<1> QED
  BY <1>1, <1>2, <1>3

-----------------------------------------------------------------------------
(* The steps between a lock and its unlock leave the lock alone, and are     *)
(* taken, but for a message's reads, where the lock is held or was given up. *)
WorkPlaces(from, to) ==
    \/ from = "dt_create" /\ to \in {"dt_count", "dt_unlock"}
    \/ from = "dt_count" /\ to = "dt_unlock"
    \/ from = "ad_count" /\ to = "ad_unlock"
    \/ from = "ex_count" /\ to = "ex_unlock"
    \/ from = "in_install" /\ to = "in_unlock"
    \/ from = "up_install" /\ to = "up_unlock"
    \/ from = "up_table" /\ to \in {"up_unlock", "fg_lock"}
    \/ from = "fg_test" /\ to \in {"rg_lock", "fg_unlock"}
    \/ from = "rg_take" /\ to = "rg_free"
    \/ from = "rg_free" /\ to \in {"rg_free", "rg_unlock"}
    \/ from = "rd_table" /\ to \in {"in_lock", "rd_use"}
    \/ from = "rd_use" /\ to \in {"program", "rd_use"}

(* The other steps leave the lock alone, and a thread made is the only other *)
(* one to move.                                                              *)
LEMMA WorkMoves ==
  ASSUME TypeOK, NEW t \in Threads,
         Counting(t) \/ Reading(t) \/ Installing(t) \/ Uninstall(t) \/ Collecting(t)
  PROVE  /\ WorkPlaces(pc[t], pc'[t]) /\ UNCHANGED <<mutex, lock>>
         /\ \A u \in Threads \ {t} :
                pc'[u] = pc[u] \/ (pc[u] = "none" /\ pc'[u] = "program")
         /\ pc' \in [Threads -> Labels]
<1> USE DEF TypeOK, At, Goto, WorkPlaces, Labels, Locked, MaybeLocked, Unlocked
<1>1. CASE DetachCreate(t)
  BY <1>1 DEF DetachCreate
<1>2. CASE DetachCount(t) \/ AddCount(t) \/ ExitCount(t)
  BY <1>2 DEF DetachCount, AddCount, ExitCount
<1>3. CASE Reading(t)
  BY <1>3 DEF Reading, ReadTable, ReadUse
<1>4. CASE Installing(t)
  BY <1>4 DEF Installing, Install
<1>5. CASE Uninstall(t)
  BY <1>5 DEF Uninstall
<1>6. CASE Collecting(t)
  BY ZenonT(30), <1>6 DEF Collecting, Discard, TakeGarbage, FreeGarbage
<1> QED
  BY <1>1, <1>2, <1>3, <1>4, <1>5, <1>6 DEF Counting

(* One thread at a time works under the lock, whatever the steps.            *)
LEMMA LockStep ==
  ASSUME TypeOK, OwnerInv, LockInv, [Next]_vars
  PROVE  LockInv' /\ LockTypeOK' /\ mutex' # "none"
<1> USE ThreadsAssumption
        DEF TypeOK, LockInv, Locked, MaybeLocked, Unlocked, Once, Twice
<1> DEFINE Goal == LockInv' /\ LockTypeOK' /\ mutex' # "none"
<1>1. CASE UNCHANGED vars
  BY <1>1 DEF vars, lock, LockTypeOK
<1>2. ASSUME NEW t \in Threads, Program(t) PROVE Goal
  BY <1>2, ProgramMoves DEF Moved, ProgramPlaces, lock, LockTypeOK
<1>3. ASSUME NEW t \in Threads, Locking(t) PROVE Goal
  <2>1. LockTypeOK'
    BY <1>3, LockMoves, LockTypeStep DEF Moved
  <2>2. /\ holder \in {NoThread, t} /\ holder' = t
        /\ depth' = IF holder = t THEN depth + 1 ELSE FirstDepth
    BY <1>3, LockMoves, LockEffect
  <2>3. mutex' = mutex /\ pc' = [pc EXCEPT ![t] = pc'[t]] /\ LockPlaces(pc[t], pc'[t])
    BY <1>3, LockMoves DEF Moved
  <2>4. \A u \in Threads \ {t} : pc'[u] = pc[u] /\ holder # u /\ holder' # u
    BY <2>2, <2>3
  <2>5. CASE holder = t
    <3>1. \/ pc[t] = "fg_lock" /\ pc'[t] = "fg_test"
          \/ pc[t] = "rg_lock" /\ pc'[t] = "rg_take"
      BY <2>3, <2>5 DEF LockPlaces
    <3> QED
      BY <2>2, <2>4, <2>5, <3>1, <2>3 DEF LockTypeOK
  <2>6. CASE holder = NoThread
    <3>1. pc[t] # "rg_lock"
      BY <2>6
    <3> QED
      BY <2>2, <2>3, <2>4, <2>6, <3>1 DEF LockPlaces, FirstDepth, LockTypeOK
  <2> QED
    BY <2>1, <2>2, <2>5, <2>6
<1>4. ASSUME NEW t \in Threads, Unlocking(t) PROVE Goal
  <2>1. LockTypeOK'
    BY <1>4, UnlockMoves, LockTypeStep DEF Moved
  <2>2. mutex' = mutex /\ pc' = [pc EXCEPT ![t] = pc'[t]] /\ UnlockPlaces(pc[t], pc'[t])
    BY <1>4, UnlockMoves DEF Moved
  <2>3. /\ holder # t => UNCHANGED <<holder, depth>>
        /\ holder = t /\ depth > 1 => holder' = t /\ depth' = depth - 1
        /\ holder = t /\ depth <= 1 => holder' = NoThread /\ depth' = 0
    BY <1>4, UnlockMoves, UnlockEffect DEF lock
  <2>4. \A u \in Threads \ {t} : pc'[u] = pc[u]
    BY <2>2
  <2>5. CASE holder # t
    <3>1. mutex = "depth" /\ pc[t] \in {"up_unlock", "fg_unlock"}
      BY <2>2, <2>5 DEF UnlockPlaces, LockTypeOK
    <3>2. pc'[t] \notin Locked
      BY <2>2, <3>1 DEF UnlockPlaces
    <3> QED
      BY <2>1, <2>2, <2>3, <2>4, <2>5, <3>1, <3>2
  <2>6. CASE holder = t
    <3>1. \A u \in Threads \ {t} :
              pc[u] \notin Locked /\ (mutex = "promised" => pc[u] \notin MaybeLocked)
      BY <2>6
    <3>2. CASE depth <= 1
      <4>1. holder' = NoThread
        BY <2>3, <2>6, <3>2
      <4>2. mutex = "promised" => pc[t] \notin {"rg_unlock", "fg_unlock"}
        BY <2>6, <3>2
      <4>3. pc'[t] \notin Locked /\ (mutex = "promised" => pc'[t] \notin MaybeLocked)
        BY <2>2, <4>2 DEF UnlockPlaces
      <4> QED
        BY <2>1, <2>2, <2>4, <3>1, <4>1, <4>3
    <3>3. CASE depth > 1
      <4>1. holder' = t /\ depth' = depth - 1
        BY <2>3, <2>6, <3>3
      <4>2. \/ pc[t] = "rg_unlock" /\ pc'[t] = "fg_unlock"
            \/ mutex = "promised" /\ pc[t] = "fg_unlock" /\ pc'[t] \in {"fg_lock", "up_install"}
        <5>1. mutex = "depth" => pc[t] \in Twice
          BY <2>6, <3>3 DEF LockTypeOK
        <5>2. mutex = "promised" => pc[t] \in Twice \cup Once
          BY <2>6, <3>3
        <5> QED
          BY <2>2, <5>1, <5>2 DEF UnlockPlaces, LockTypeOK
      <4>3. /\ mutex = "promised" => depth = IF pc[t] = "rg_unlock" THEN 3 ELSE 2
            /\ mutex = "depth" => depth = 2
        BY <2>6, <3>3, <4>2 DEF LockTypeOK
      <4>4. \A u \in Threads \ {t} : holder' # u
        BY <4>1
      <4> QED
        BY <2>1, <2>2, <2>4, <3>1, <4>1, <4>2, <4>3, <4>4
    <3> QED
      BY <3>2, <3>3 DEF LockTypeOK
  <2> QED
    BY <2>5, <2>6
<1>5. ASSUME NEW t \in Threads,
             Counting(t) \/ Reading(t) \/ Installing(t) \/ Uninstall(t) \/ Collecting(t)
      PROVE  Goal
  BY <1>5, WorkMoves DEF WorkPlaces, lock, LockTypeOK
<1> QED
  BY <1>1, <1>2, <1>3, <1>4, <1>5, AnyStep

(* Nobody else is at a label under the lock.                                 *)
LEMMA Alone ==
  ASSUME LockInv, NEW t \in Threads, pc[t] \in Locked, NEW u \in Threads, u # t
  PROVE  pc[u] \notin Locked
BY DEF LockInv

-----------------------------------------------------------------------------
(* The count follows the threads, one step behind while a thread is being    *)
(* detached.                                                                 *)
LEMMA CountStep ==
  ASSUME TypeOK, LockInv, OwnerInv, CountInv, [Next]_vars
  PROVE  CountInv' /\ alive' \in Nat
<1> DEFINE Alarm == {"rg_lock", "rg_take", "rg_free"}
           Creating == \E t \in Threads : At(t, "dt_count")
<1>1. ASSUME Counted' = Counted, alive' = alive, Creating' <=> Creating,
             \A t \in Threads : pc'[t] \in Alarm => pc[t] \in Alarm \/ alive = 1
      PROVE  CountInv' /\ alive' \in Nat
  BY <1>1 DEF CountInv, TypeOK, At
<1>2. CASE UNCHANGED vars
  BY <1>2, <1>1 DEF vars, Counted, At
<1>3. ASSUME NEW t \in Threads, Quiet(t) PROVE CountInv' /\ alive' \in Nat
  <2>1. Counted' = Counted
    BY <1>3 DEF Quiet, Moved, Counted, TypeOK
  <2>2. Creating' <=> Creating
    BY <1>3 DEF Quiet, Moved, At, TypeOK
  <2>3. \A u \in Threads : pc'[u] \in Alarm => pc[u] \in Alarm
    BY <1>3 DEF Quiet, Moved, TypeOK
  <2> QED
    BY <1>1, <1>3, <2>1, <2>2, <2>3 DEF Quiet, Moved
<1>4. ASSUME NEW t \in Threads,
             Reading(t) \/ Installing(t) \/ Uninstall(t) \/ Collecting(t)
      PROVE  CountInv' /\ alive' \in Nat
  <2>1. /\ pc' = [pc EXCEPT ![t] = pc'[t]] /\ alive' = alive
        /\ pc'[t] = "rg_lock" => alive = 1
    BY <1>4 DEF TypeOK, Reading, ReadTable, ReadUse, Installing, Install, Uninstall,
       Collecting, Discard, TakeGarbage, FreeGarbage, At, Goto
  <2>2. /\ pc[t] \notin Uncounted /\ pc'[t] \notin Uncounted
        /\ pc[t] # "dt_count" /\ pc'[t] # "dt_count"
        /\ pc'[t] \in Alarm => pc[t] \in Alarm \/ pc'[t] = "rg_lock"
    BY <1>4 DEF TypeOK, Reading, ReadTable, ReadUse, Installing, Install, Uninstall,
       Collecting, Discard, TakeGarbage, FreeGarbage, At, Goto, Uncounted
  <2>3. Counted' = Counted /\ (Creating' <=> Creating)
    BY <2>1, <2>2 DEF Counted, At, TypeOK
  <2>4. \A u \in Threads : pc'[u] \in Alarm => pc[u] \in Alarm \/ alive = 1
    BY <2>1, <2>2 DEF TypeOK
  <2> QED
    BY <1>1, <2>1, <2>3, <2>4
<1>5. ASSUME NEW t \in Threads, Counting(t) PROVE CountInv' /\ alive' \in Nat
  <2>1. pc[t] \in Locked \ (Alarm \cup {"rd_use"}) /\ pc'[t] \in Locked \ Alarm
    BY <1>5, WorkMoves DEF Counting, DetachCreate, DetachCount, AddCount, ExitCount, At,
       Goto, Locked, WorkPlaces
  <2>2. \A u \in Threads \ {t} : pc[u] \notin Locked
    BY <2>1, Alone
  <2>3. \A u \in Threads : pc'[u] \notin Alarm
    BY <1>5, <2>1, <2>2, WorkMoves DEF Locked
  <2>4. IsFiniteSet(Counted) /\ Cardinality(Counted) \in Nat
    BY FS_CardinalityType DEF CountInv
  <2>5. CASE DetachCreate(t)
    <3>1. alive = Cardinality(Counted) /\ alive' = alive
      BY <2>2, <2>5 DEF CountInv, DetachCreate, At, Locked
    <3>2. CASE pc'[t] = "dt_count"
      <4>1. PICK u \in Threads : /\ pc[u] = "none" /\ pc[t] = "dt_create"
                                 /\ pc' = [pc EXCEPT ![u] = "program", ![t] = "dt_count"]
        BY <2>5, <3>2 DEF DetachCreate, At, Goto, TypeOK
      <4>2. Counted' = Counted \cup {u} /\ u \notin Counted
        BY <4>1 DEF Counted, Uncounted, TypeOK
      <4>3. IsFiniteSet(Counted') /\ Cardinality(Counted') = Cardinality(Counted) + 1
        BY <2>4, <4>2, FS_AddElement
      <4> QED
        BY <2>3, <3>1, <3>2, <4>3 DEF CountInv, At, TypeOK
    <3>3. CASE pc'[t] # "dt_count"
      <4>1. pc[t] = "dt_create" /\ pc' = [pc EXCEPT ![t] = "dt_unlock"]
        BY <2>5, <3>3 DEF DetachCreate, At, Goto, TypeOK
      <4>2. Counted' = Counted /\ \A u \in Threads : pc'[u] # "dt_count"
        BY <2>2, <4>1 DEF Counted, Uncounted, TypeOK, Locked
      <4> QED
        BY <2>3, <2>4, <3>1, <4>2 DEF CountInv, At, TypeOK
    <3> QED
      BY <3>2, <3>3
  <2>6. CASE DetachCount(t)
    <3>1. Counted' = Counted /\ \A u \in Threads : pc'[u] # "dt_count"
      BY <2>2, <2>6 DEF DetachCount, At, Goto, Counted, Uncounted, TypeOK, Locked
    <3>2. alive' = Cardinality(Counted)
      BY <2>6 DEF DetachCount, CountInv
    <3> QED
      BY <2>3, <2>4, <3>1, <3>2 DEF CountInv, At
  <2>7. CASE AddCount(t)
    <3>1. Counted' = Counted \cup {t} /\ t \notin Counted
      BY <2>7 DEF AddCount, At, Goto, Counted, Uncounted, TypeOK
    <3>2. \A u \in Threads : pc[u] # "dt_count" /\ pc'[u] # "dt_count"
      BY <2>2, <2>7 DEF AddCount, At, Goto, TypeOK, Locked
    <3>3. alive' = Cardinality(Counted) + 1
      BY <2>7, <3>2 DEF AddCount, CountInv, At
    <3> QED
      BY <2>3, <2>4, <3>1, <3>2, <3>3, FS_AddElement DEF CountInv, At
  <2>8. CASE ExitCount(t)
    <3>1. Counted' = Counted \ {t} /\ t \in Counted
      BY <2>8 DEF ExitCount, At, Goto, Counted, Uncounted, TypeOK
    <3>2. \A u \in Threads : pc[u] # "dt_count" /\ pc'[u] # "dt_count"
      BY <2>2, <2>8 DEF ExitCount, At, Goto, TypeOK, Locked
    <3>3. alive' = Cardinality(Counted) - 1
      BY <2>8, <3>2 DEF ExitCount, CountInv, At
    <3>4. IsFiniteSet(Counted') /\ Cardinality(Counted') = Cardinality(Counted) - 1
      BY <2>4, <3>1, FS_RemoveElement
    <3>5. Cardinality(Counted') \in Nat
      BY <3>4, FS_CardinalityType
    <3> QED
      BY <2>3, <3>2, <3>3, <3>4, <3>5 DEF CountInv, At
  <2> QED
    BY <1>5, <2>5, <2>6, <2>7, <2>8 DEF Counting
<1> QED
  BY <1>2, <1>3, <1>4, <1>5, AnyStep, QuietSteps

(* Who frees finds the count at 1 only where no other thread is in a call.   *)
LEMMA NoOtherUser ==
  ASSUME TypeOK, LockInv, CountInv, NEW t \in Threads, alive = 1,
         pc[t] \in {"fg_test", "rg_lock", "rg_take", "rg_free"}
  PROVE  \A u \in Threads \ {t} : pc[u] \in Uncounted
<1>1. \A u \in Threads : ~At(u, "dt_count")
  BY Alone DEF At, Locked
<1>2. Cardinality(Counted) = 1 /\ IsFiniteSet(Counted)
  BY <1>1 DEF CountInv
<1>3. PICK x : Counted = {x}
  BY <1>2, FS_Singleton
<1>4. t \in Counted
  BY DEF Counted, Uncounted
<1> QED
  BY <1>3, <1>4 DEF Counted

-----------------------------------------------------------------------------
(* Every live block keeps its one owner, and nobody reads what is freed.     *)
LEMMA OwnerStep ==
  ASSUME TypeOK, LockInv, CountInv, OwnerInv, GarbageInv, [Next]_vars
  PROVE  OwnerInv'
<1> USE DEF OwnerInv, TableLive, NoFreedRead, FreeingLive, FreeingApart, EmptyHanded, At
<1>1. ASSUME UNCHANGED <<memory, dtable, blocks>>,
             \A u \in Threads :
                \/ pc'[u] = pc[u]
                \/ /\ pc[u] # "rd_use" /\ pc'[u] # "rd_use"
                   /\ IF pc'[u] \in Freeing THEN pc[u] \in Freeing ELSE blocks[u] = {}
      PROVE  OwnerInv'
  <2>1. LiveOwned'
    BY <1>1 DEF LiveOwned
  <2> QED
    BY <1>1, <2>1
<1>2. CASE UNCHANGED vars
  BY <1>2, <1>1 DEF vars, heap
<1>3. ASSUME NEW t \in Threads, Quiet(t) PROVE OwnerInv'
  BY <1>3, <1>1 DEF Quiet, Moved, heap, TypeOK
<1>4. ASSUME NEW t \in Threads, Counting(t) PROVE OwnerInv'
  <2>1. UNCHANGED <<memory, dtable, blocks>>
    BY <1>4 DEF Counting, DetachCreate, DetachCount, AddCount, ExitCount, heap
  <2>2. \A u \in Threads :
            \/ pc'[u] = pc[u]
            \/ pc[u] \notin Freeing \cup {"rd_use"} /\ pc'[u] \notin Freeing \cup {"rd_use"}
    BY <1>4, WorkMoves DEF Counting, DetachCreate, DetachCount, AddCount, ExitCount,
       WorkPlaces, Freeing
  <2> QED
    BY <1>1, <2>1, <2>2
<1>5. ASSUME NEW t \in Threads, ReadTable(t) PROVE OwnerInv'
  <2>1. LiveOwned'
    BY <1>5 DEF ReadTable, heap, Goto, TypeOK, Freeing, Uninstalled, LiveOwned
  <2> QED
    BY <1>5, <2>1 DEF ReadTable, heap, Goto, TypeOK, Freeing, Uninstalled
<1>6. ASSUME NEW t \in Threads, ReadUse(t) PROVE OwnerInv'
  <2>1. LiveOwned'
    BY <1>6 DEF ReadUse, heap, Goto, TypeOK, Freeing, LiveOwned
  <2> QED
    BY <1>6, <2>1 DEF ReadUse, heap, Goto, TypeOK, Freeing
<1>7. ASSUME NEW t \in Threads, Installing(t) PROVE OwnerInv'
  <2>1. /\ pc' = [pc EXCEPT ![t] = pc'[t]] /\ blocks' = blocks
        /\ pc[t] \notin Freeing \cup {"rd_use"}
        /\ pc'[t] \notin Freeing \cup {"rd_use"}
    BY <1>7 DEF Installing, Install, TypeOK, Goto, Freeing
  <2>2. \/ UNCHANGED <<dtable, memory>>
        \/ /\ dtable = {} /\ dtable' \in SUBSET FreeBlocks
           /\ memory' = [b \in Blocks |-> IF b \in dtable' THEN "live" ELSE memory[b]]
    BY <1>7 DEF Installing, Install, Uninstalled
  <2>3. CASE UNCHANGED <<dtable, memory>>
    BY <1>1, <2>1, <2>3 DEF TypeOK
  <2>4. CASE /\ dtable = {} /\ dtable' \in SUBSET FreeBlocks
             /\ memory' = [b \in Blocks |-> IF b \in dtable' THEN "live" ELSE memory[b]]
    <3>1. \A u \in Threads :
              /\ pc'[u] \in Freeing <=> pc[u] \in Freeing
              /\ pc'[u] = "rd_use" <=> pc[u] = "rd_use"
      BY <2>1 DEF TypeOK
    <3>2. \A b \in Blocks : IF b \in dtable' THEN memory[b] = "free" /\ memory'[b] = "live"
                            ELSE memory'[b] = memory[b]
      BY <2>4 DEF FreeBlocks
    <3>3. dtable' \subseteq Blocks /\ \A u \in Threads : blocks[u] \subseteq Blocks
      BY <2>4 DEF FreeBlocks, TypeOK
    <3>4. TableLive' /\ NoFreedRead' /\ FreeingLive' /\ LiveOwned'
      BY <2>1, <2>4, <3>1, <3>2, <3>3 DEF LiveOwned
    <3> QED
      BY <2>1, <3>1, <3>4
  <2> QED
    BY <2>2, <2>3, <2>4
<1>8. ASSUME NEW t \in Threads, Uninstall(t) PROVE OwnerInv'
  <2>1. LiveOwned'
    BY <1>8 DEF Uninstall, Goto, TypeOK, Freeing, Uninstalled, LiveOwned
  <2> QED
    BY <1>8, <2>1 DEF Uninstall, Goto, TypeOK, Freeing, Uninstalled
<1>9. ASSUME NEW t \in Threads, Discard(t) PROVE OwnerInv'
  <2>1. PICK b \in blocks[t] :
            /\ blocks' = [blocks EXCEPT ![t] = @ \ {b}]
            /\ \/ alive = 1 /\ memory' = [memory EXCEPT ![b] = "free"]
               \/ memory' = [memory EXCEPT ![b] = "garbage"]
    BY <1>9 DEF Discard
  <2>2. /\ pc' = [pc EXCEPT ![t] = pc'[t]] /\ dtable' = dtable
        /\ pc[t] = "fg_test" /\ pc'[t] \in Freeing \ {"rd_use"}
    BY <1>9 DEF Discard, TypeOK, Goto, Freeing
  <2>3. b \notin dtable /\ \A u \in Threads \ {t} : pc[u] \in Freeing => b \notin blocks[u]
    BY <2>1, <2>2 DEF Freeing
  <2>4. alive = 1 => \A u \in Threads : pc[u] # "rd_use"
    BY <2>2, NoOtherUser DEF Uncounted
  <2>5. /\ \A c \in Blocks \ {b} : memory'[c] = memory[c]
        /\ memory'[b] # "live" /\ (alive # 1 => memory'[b] = "garbage")
        /\ b \in Blocks
    BY <2>1 DEF TypeOK
  <2>6. \A u \in Threads : /\ pc'[u] \in Freeing <=> pc[u] \in Freeing
                           /\ pc'[u] = "rd_use" <=> pc[u] = "rd_use"
                           /\ blocks'[u] = IF u = t THEN blocks[t] \ {b} ELSE blocks[u]
                           /\ blocks[u] \subseteq Blocks
    BY <2>1, <2>2 DEF TypeOK, Freeing
  <2>7. TableLive' /\ NoFreedRead'
    <3>1. TableLive'
      BY <2>2, <2>3, <2>5 DEF TypeOK
    <3>2. NoFreedRead'
      BY <2>2, <2>4, <2>5, <2>6
    <3> QED
      BY <3>1, <3>2
  <2>8. FreeingLive' /\ FreeingApart' /\ EmptyHanded'
    BY <2>2, <2>3, <2>5, <2>6
  <2>9. LiveOwned'
    BY <2>2, <2>5, <2>6 DEF LiveOwned
  <2> QED
    BY <2>7, <2>8, <2>9
<1>10. ASSUME NEW t \in Threads, TakeGarbage(t) PROVE OwnerInv'
  BY <1>10, <1>1 DEF TakeGarbage, Goto, TypeOK, Freeing
<1>11. ASSUME NEW t \in Threads, FreeGarbage(t) PROVE OwnerInv'
  <2>1. CASE rest = <<>>
    BY <1>11, <2>1, <1>1 DEF FreeGarbage, Goto, TypeOK, Freeing
  <2>2. CASE rest # <<>>
    <3>1. /\ memory' = [memory EXCEPT ![Head(rest)] = "free"]
          /\ UNCHANGED <<pc, dtable, blocks>> /\ pc[t] = "rg_free"
      BY <1>11, <2>2 DEF FreeGarbage
    <3>2. Head(rest) \in Blocks /\ memory[Head(rest)] = "garbage"
      <4>1. Head(rest) = rest[1] /\ 1 \in 1..Len(rest) /\ rest[1] \in Blocks
        BY <2>2 DEF TypeOK
      <4> QED
        BY <4>1 DEF GarbageInv, Elements
    <3>3. \A u \in Threads : pc[u] # "rd_use"
      BY <3>1, NoOtherUser DEF Uncounted, CountInv
    <3>4. \A c \in Blocks : IF c = Head(rest) THEN memory[c] # "live" /\ memory'[c] # "live"
                            ELSE memory'[c] = memory[c]
      BY <3>1, <3>2 DEF TypeOK
    <3>5. TableLive' /\ NoFreedRead' /\ FreeingLive' /\ FreeingApart' /\ EmptyHanded'
      BY <3>1, <3>2, <3>3, <3>4 DEF TypeOK
    <3>6. LiveOwned'
      BY <3>1, <3>4 DEF LiveOwned
    <3> QED
      BY <3>5, <3>6
  <2> QED
    BY <2>1, <2>2
<1> QED
  BY <1>2, <1>3, <1>4, <1>5, <1>6, <1>7, <1>8, <1>9, <1>10, <1>11, AnyStep, QuietSteps
  DEF Reading, Collecting

-----------------------------------------------------------------------------
(* The elements of lists without duplicates: a new one at the head, the head *)
(* taken off, and their number.                                              *)
LEMMA ElementsOfPrepend ==
  ASSUME NEW S, NEW list \in Seq(S), NEW b \in S, Distinct(list), b \notin Elements(list)
  PROVE  /\ <<b>> \o list \in Seq(S)
         /\ Elements(<<b>> \o list) = Elements(list) \cup {b}
         /\ Distinct(<<b>> \o list)
<1> DEFINE new == <<b>> \o list
<1>1. <<b>> \in Seq(S) /\ Len(<<b>>) = 1 /\ <<b>>[1] = b
  OBVIOUS
<1>2. /\ new \in Seq(S) /\ Len(new) = Len(list) + 1 /\ Len(list) \in Nat
      /\ \A i \in 1..Len(list) + 1 : new[i] = IF i = 1 THEN b ELSE list[i - 1]
  <2>1. /\ new \in Seq(S) /\ Len(new) = 1 + Len(list)
        /\ \A i \in 1..1 + Len(list) : new[i] = IF i <= 1 THEN <<b>>[i] ELSE list[i - 1]
    BY <1>1, ConcatProperties
  <2> QED
    BY <1>1, <2>1, LenProperties
<1> HIDE DEF new
<1>3. new[1] = b /\ \A i \in 1..Len(list) : new[i + 1] = list[i]
  BY <1>2
<1>4. Elements(new) = Elements(list) \cup {b}
  <2>1. Elements(new) \subseteq Elements(list) \cup {b}
    BY <1>2 DEF Elements
  <2>2. b \in Elements(new)
    BY <1>2, <1>3 DEF Elements
  <2>3. ASSUME NEW i \in 1..Len(list) PROVE list[i] \in Elements(new)
    <3>1. i + 1 \in 1..Len(new) /\ new[i + 1] = list[i]
      BY <1>2, <1>3
    <3> QED
      BY <3>1 DEF Elements
  <2> QED
    BY <2>1, <2>2, <2>3 DEF Elements
<1>5. Distinct(new)
  <2> SUFFICES ASSUME NEW i \in 1..Len(new), NEW j \in 1..Len(new), new[i] = new[j], i # j
               PROVE  FALSE
    BY DEF Distinct
  <2>1. \A k \in 1..Len(list) : list[k] # b
    BY DEF Elements
  <2>2. i # 1 /\ j # 1
    BY <1>2, <2>1
  <2>3. i - 1 \in 1..Len(list) /\ j - 1 \in 1..Len(list) /\ list[i - 1] = list[j - 1]
    BY <1>2, <2>2
  <2> QED
    BY <1>2, <2>3 DEF Distinct
<1> QED
  BY <1>2, <1>4, <1>5 DEF new

(* Taking the first block off the list takes that one.                       *)
LEMMA ElementsOfTail ==
  ASSUME NEW S, NEW list \in Seq(S), list # <<>>, Distinct(list)
  PROVE  /\ Tail(list) \in Seq(S) /\ Head(list) \in Elements(list)
         /\ Elements(Tail(list)) = Elements(list) \ {Head(list)}
         /\ Distinct(Tail(list))
<1> DEFINE tail == Tail(list)
<1>1. /\ tail \in Seq(S) /\ Len(tail) = Len(list) - 1 /\ Len(list) \in Nat \ {0}
      /\ \A i \in 1..Len(tail) : tail[i] = list[i + 1]
      /\ Head(list) = list[1]
  BY HeadTailProperties, LenProperties, EmptySeq
<1> HIDE DEF tail
<1>2. Elements(tail) \subseteq Elements(list) \ {Head(list)}
  BY <1>1 DEF Elements, Distinct
<1>3. Elements(list) \ {Head(list)} \subseteq Elements(tail)
  <2> SUFFICES ASSUME NEW i \in 1..Len(list), i # 1 PROVE list[i] \in Elements(tail)
    BY <1>1 DEF Elements
  <2>1. i - 1 \in 1..Len(tail) /\ tail[i - 1] = list[i]
    BY <1>1
  <2> QED
    BY <2>1 DEF Elements
<1>4. Distinct(tail)
  BY <1>1 DEF Distinct
<1>5. Elements(tail) = Elements(list) \ {Head(list)}
  BY <1>2, <1>3
<1>6. Head(list) \in Elements(list)
  BY <1>1 DEF Elements
<1> QED
  BY <1>1, <1>4, <1>5, <1>6 DEF tail

(* A list without repetitions is as long as its elements are many.           *)
LEMMA DistinctCardinality ==
  ASSUME NEW S, NEW list \in Seq(S), Distinct(list)
  PROVE  Cardinality(Elements(list)) = Len(list)
<1>1. list \in [1..Len(list) -> Elements(list)] /\ Len(list) \in Nat
  BY LenProperties DEF Elements
<1>2. list \in Bijection(1..Len(list), Elements(list))
  BY <1>1, Fun_IsBij DEF Distinct, Elements
<1> QED
  BY <1>1, <1>2, Fun_ExistsBij, FS_CountingElements

-----------------------------------------------------------------------------
(* What is garbage is on the list, or in the hands of the one who frees it.  *)
LEMMA GarbageStep ==
  ASSUME TypeOK, LockInv, OwnerInv, GarbageInv, [Next]_vars
  PROVE  GarbageInv' /\ garbage' \in Seq(Blocks) /\ rest' \in Seq(Blocks)
<1> DEFINE Goal == GarbageInv' /\ garbage' \in Seq(Blocks) /\ rest' \in Seq(Blocks)
<1>1. ASSUME garbage' = garbage, rest' = rest,
             \A b \in Blocks : memory[b] = "garbage" <=> memory'[b] = "garbage",
             \A u \in Threads : pc'[u] = "rg_free" <=> pc[u] = "rg_free"
      PROVE  Goal
  BY <1>1 DEF GarbageInv, TypeOK, Distinct, Elements, At
<1>2. CASE UNCHANGED vars
  BY <1>2, <1>1 DEF vars, heap
<1>3. ASSUME NEW t \in Threads, Quiet(t) PROVE Goal
  BY <1>3, <1>1 DEF Quiet, Moved, heap, TypeOK
<1>4. ASSUME NEW t \in Threads, Counting(t) \/ Reading(t) \/ Installing(t) \/ Uninstall(t)
      PROVE  Goal
  <2>1. UNCHANGED <<garbage, rest>>
    BY <1>4 DEF Counting, DetachCreate, DetachCount, AddCount, ExitCount, Reading, ReadTable,
       ReadUse, Installing, Install, Uninstall, heap
  <2>2. pc[t] # "rg_free" /\ pc'[t] # "rg_free"
    BY <1>4, WorkMoves DEF Counting, DetachCreate, DetachCount, AddCount, ExitCount, Reading,
       ReadTable, ReadUse, Installing, Install, Uninstall, At, WorkPlaces
  <2>3. \A u \in Threads : pc'[u] = "rg_free" <=> pc[u] = "rg_free"
    BY <1>4, <2>2, WorkMoves
  <2>4. \A b \in Blocks : memory[b] = "garbage" <=> memory'[b] = "garbage"
    BY <1>4 DEF Counting, DetachCreate, DetachCount, AddCount, ExitCount, Reading, ReadTable,
       ReadUse, Installing, Install, Uninstall, heap, FreeBlocks
  <2> QED
    BY <1>1, <2>1, <2>3, <2>4
<1>5. ASSUME NEW t \in Threads, Discard(t) PROVE Goal
  <2>1. PICK b \in blocks[t] :
            \/ memory' = [memory EXCEPT ![b] = "free"] /\ garbage' = garbage
            \/ memory' = [memory EXCEPT ![b] = "garbage"] /\ garbage' = <<b>> \o garbage
    BY <1>5 DEF Discard
  <2>2. /\ b \in Blocks /\ memory[b] = "live" /\ rest' = rest
        /\ pc[t] = "fg_test" /\ pc' = [pc EXCEPT ![t] = pc'[t]] /\ pc'[t] # "rg_free"
    BY <1>5, <2>1 DEF Discard, OwnerInv, FreeingLive, Freeing, TypeOK, At, Goto
  <2>3. \A u \in Threads : pc[u] # "rg_free" /\ pc'[u] # "rg_free"
    BY <2>2, Alone DEF Locked, TypeOK
  <2>4. rest = <<>> /\ b \notin Elements(garbage)
    BY <2>2, <2>3 DEF GarbageInv, At
  <2>5. CASE memory' = [memory EXCEPT ![b] = "free"] /\ garbage' = garbage
    BY <1>1, <2>2, <2>3, <2>5 DEF TypeOK
  <2>6. CASE memory' = [memory EXCEPT ![b] = "garbage"] /\ garbage' = <<b>> \o garbage
    <3>1. /\ garbage' \in Seq(Blocks) /\ Distinct(garbage')
          /\ Elements(garbage') = Elements(garbage) \cup {b}
      BY <2>2, <2>4, <2>6, ElementsOfPrepend DEF TypeOK, GarbageInv
    <3>2. \A c \in Blocks : memory'[c] = IF c = b THEN "garbage" ELSE memory[c]
      BY <2>6 DEF TypeOK
    <3> QED
      BY <2>2, <2>3, <2>4, <3>1, <3>2 DEF GarbageInv, TypeOK, At
  <2> QED
    BY <2>1, <2>5, <2>6
<1>6. ASSUME NEW t \in Threads, TakeGarbage(t) PROVE Goal
  <2>1. /\ garbage' = <<>> /\ rest' = garbage /\ memory' = memory
        /\ pc[t] = "rg_take" /\ pc' = [pc EXCEPT ![t] = "rg_free"]
    BY <1>6 DEF TakeGarbage, At, Goto
  <2>2. rest = <<>>
    BY <2>1, Alone DEF GarbageInv, At, Locked
  <2>3. Elements(<<>>) = {} /\ <<>> \in Seq(Blocks) /\ Distinct(<<>>)
    BY DEF Elements, Distinct
  <2> QED
    BY <2>1, <2>2, <2>3 DEF GarbageInv, TypeOK, At
<1>7. ASSUME NEW t \in Threads, FreeGarbage(t) PROVE Goal
  <2>1. pc[t] = "rg_free" /\ garbage' = garbage /\ garbage = <<>>
    BY <1>7 DEF FreeGarbage, At, GarbageInv
  <2>2. CASE rest # <<>>
    <3>1. /\ memory' = [memory EXCEPT ![Head(rest)] = "free"]
          /\ rest' = Tail(rest) /\ pc' = pc
      BY <1>7, <2>2 DEF FreeGarbage
    <3>2. /\ rest' \in Seq(Blocks) /\ Head(rest) \in Elements(rest) /\ Distinct(rest')
          /\ Elements(rest') = Elements(rest) \ {Head(rest)}
      BY <2>2, <3>1, ElementsOfTail DEF TypeOK, GarbageInv
    <3>3. \A c \in Blocks : memory'[c] = IF c = Head(rest) THEN "free" ELSE memory[c]
      BY <3>1 DEF TypeOK
    <3>4. Elements(garbage) = {}
      BY <2>1 DEF Elements
    <3> QED
      BY <2>1, <3>1, <3>2, <3>3, <3>4 DEF GarbageInv, TypeOK, At
  <2>3. CASE rest = <<>>
    <3>1. memory' = memory /\ rest' = rest /\ pc' = [pc EXCEPT ![t] = "rg_unlock"]
      BY <1>7, <2>3 DEF FreeGarbage, Goto
    <3> QED
      BY <2>1, <2>3, <3>1 DEF GarbageInv, TypeOK, At
  <2> QED
    BY <2>2, <2>3
<1> QED
  BY <1>2, <1>3, <1>4, <1>5, <1>6, <1>7, AnyStep, QuietSteps DEF Collecting

-----------------------------------------------------------------------------
(* The rest of the types.                                                    *)
LEMMA TypeStep ==
  ASSUME IInv, [Next]_vars PROVE TypeOK'
<1> USE DEF IInv, TypeOK
<1>1. /\ alive' \in Nat /\ garbage' \in Seq(Blocks) /\ rest' \in Seq(Blocks)
      /\ LockTypeOK' /\ mutex' # "none"
  BY CountStep, GarbageStep, LockStep
<1>2. CASE UNCHANGED vars
  BY <1>1, <1>2 DEF vars, heap
<1>3. ASSUME NEW t \in Threads, Quiet(t) PROVE TypeOK'
  BY <1>1, <1>3 DEF Quiet, Moved, heap
<1>4. ASSUME NEW t \in Threads,
             Counting(t) \/ Reading(t) \/ Installing(t) \/ Uninstall(t) \/ Collecting(t)
      PROVE  TypeOK'
  <2>1. pc' \in [Threads -> Labels]
    BY <1>4, WorkMoves
  <2> DEFINE Data == /\ dtable' \in SUBSET Blocks /\ blocks' \in [Threads -> SUBSET Blocks]
                     /\ memory' \in [Blocks -> {"free", "live", "garbage"}]
                     /\ calls' = calls
  <2>2. ASSUME Counting(t) PROVE Data
    BY <2>2 DEF Counting, DetachCreate, DetachCount, AddCount, ExitCount, heap
  <2>3. ASSUME Reading(t) PROVE Data
    BY <2>3 DEF Reading, ReadTable, ReadUse, heap
  <2>4. ASSUME Installing(t) PROVE Data
    BY <2>4 DEF Installing, Install, FreeBlocks
  <2>5. ASSUME Uninstall(t) PROVE Data
    BY <2>5 DEF Uninstall, Uninstalled
  <2>6. ASSUME Discard(t) PROVE Data
    <3>1. PICK b \in blocks[t] :
              /\ blocks' = [blocks EXCEPT ![t] = @ \ {b}]
              /\ \/ memory' = [memory EXCEPT ![b] = "free"]
                 \/ memory' = [memory EXCEPT ![b] = "garbage"]
      BY <2>6 DEF Discard
    <3> QED
      BY <2>6, <3>1 DEF Discard
  <2>7. ASSUME TakeGarbage(t) PROVE Data
    BY <2>7 DEF TakeGarbage
  <2>8. ASSUME FreeGarbage(t) PROVE Data
    BY <2>8 DEF FreeGarbage
  <2>9. Data
    BY <1>4, <2>2, <2>3, <2>4, <2>5, <2>6, <2>7, <2>8 DEF Collecting
  <2> QED
    BY <1>1, <2>1, <2>9
<1> QED
  BY <1>2, <1>3, <1>4, AnyStep, QuietSteps

(* Every step keeps the invariant.                                           *)
LEMMA StepInv == IInv /\ [Next]_vars => IInv'
  BY LockStep, CountStep, OwnerStep, GarbageStep, TypeStep DEF IInv

(* With a mutex, however it counts its nesting, the invariant holds of every *)
(* state.                                                                    *)
THEOREM Invariance == "none" \notin Mutexes => (Spec => []IInv)
<1> SUFFICES ASSUME "none" \notin Mutexes PROVE Spec => []IInv
  OBVIOUS
<1>1. Init => IInv
  BY InitInv
<1> QED
  BY <1>1, StepInv, PTL DEF Spec

(* With a mutex, no message reads a table that has been freed, however many  *)
(* threads are being made, counted or ending meanwhile.                      *)
THEOREM ReadersSafe == "none" \notin Mutexes => (Spec => []NoFreedRead)
<1> SUFFICES ASSUME "none" \notin Mutexes PROVE Spec => []NoFreedRead
  OBVIOUS
<1>1. IInv => NoFreedRead
  BY DEF IInv, OwnerInv
<1> QED
  BY <1>1, Invariance, PTL

(* With a mutex, the count is the number of threads that use the runtime     *)
(* whenever nobody holds the mutex.                                          *)
THEOREM CountCorrect == "none" \notin Mutexes => (Spec => []CountExact)
<1> SUFFICES ASSUME "none" \notin Mutexes PROVE Spec => []CountExact
  OBVIOUS
<1>1. IInv => CountExact
  <2> SUFFICES ASSUME IInv, holder = NoThread PROVE alive = Cardinality(Counted)
    BY DEF CountExact, Counted, Uncounted
  <2>1. \A t \in Threads : ~At(t, "dt_count")
    BY ThreadsAssumption DEF IInv, LockInv, At, Locked
  <2> QED
    BY <2>1 DEF IInv, CountInv
<1> QED
  BY <1>1, Invariance, PTL

(* With a mutex, a block that waits for its end waits in one place: none is  *)
(* freed twice and none is lost.                                             *)
THEOREM GarbageCorrect == "none" \notin Mutexes => (Spec => []GarbageExact)
<1> SUFFICES ASSUME "none" \notin Mutexes PROVE Spec => []GarbageExact
  OBVIOUS
<1>1. IInv => GarbageExact
  <2> SUFFICES ASSUME IInv PROVE GarbageExact
    OBVIOUS
  <2> DEFINE waiting == garbage \o rest
  <2>1. garbage \in Seq(Blocks) /\ rest \in Seq(Blocks)
    BY DEF IInv, TypeOK
  <2>2. \/ waiting = garbage /\ rest = <<>>
        \/ waiting = rest /\ garbage = <<>>
    BY <2>1, ConcatEmptySeq DEF IInv, GarbageInv
  <2>3. waiting \in Seq(Blocks) /\ Distinct(waiting)
    BY <2>1, <2>2 DEF IInv, GarbageInv
  <2>4. Elements(waiting) = Elements(garbage) \cup Elements(rest)
    BY <2>2 DEF Elements
  <2>5. Elements(waiting) \subseteq Blocks
    BY <2>3 DEF Elements
  <2>6. Elements(waiting) = {b \in Blocks : memory[b] = "garbage"}
    BY <2>4, <2>5 DEF IInv, GarbageInv
  <2>7. Cardinality(Elements(waiting)) = Len(waiting)
    BY <2>3, DistinctCardinality
  <2>8. \A b \in Blocks : memory[b] = "live" =>
            b \in dtable \/ \E t \in Threads : b \in blocks[t] /\ ~At(t, "rd_use")
    BY DEF IInv, OwnerInv, LiveOwned, At
  <2> QED
    BY <2>6, <2>7, <2>8 DEF GarbageExact
<1> QED
  BY <1>1, Invariance, PTL
=============================================================================
