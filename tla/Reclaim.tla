------------------------------ MODULE Reclaim ------------------------------
(* Threads come and go (thread.c), messages read dispatch tables without the *)
(* lock, and what an update of a class frees (messaging.c, sarray.c) waits   *)
(* on the garbage list unless one thread alone is counted.                   *)
(*                                                                           *)
(* One class.  A table is the set of its blocks (the struct, the vector, the *)
(* buckets), which a reader reaches and sarray_free gives up one by one.     *)
(* What a reader finds in a block on the garbage list is not looked at: the  *)
(* first word is the link of the list by then.                               *)
(* pthread_create succeeds or fails as reported: the word that               *)
(* __tour_thread_detach reads through the handle is not 0, as with the GNU C *)
(* library on x86-64.                                                        *)
EXTENDS RuntimeLock, Sequences, FiniteSets

CONSTANTS First,        \* the thread that runs main
          Blocks,       \* addresses of blocks
          TableSize,    \* the blocks of a table
          Calls         \* bounds each thread's messages, updates and detaches

ASSUME FirstAssumption == First \in Threads
ASSUME TableSizeAssumption == TableSize \in Nat \ {0}
ASSUME CallsAssumption == Calls \in Nat

VARIABLES alive,        \* __tour_runtime_threads_alive
          garbage,      \* the list of first_free_data, newest first
          memory,       \* each block: "free", "live" or "garbage"
          dtable,       \* the class's table, or Uninstalled
          pc,           \* where each thread stands in a call, or "none"
          blocks,       \* what a thread has yet to read or to free
          rest,         \* vp in sarray_remove_garbage
          calls         \* calls each thread may yet make

Uninstalled == {}               \* __tour_uninstalled_dtable

heap == <<garbage, memory, dtable>>
vars == <<alive, heap, pc, blocks, rest, calls, mutex, lock>>

Init ==
    /\ alive = 1
    /\ garbage = <<>>
    /\ memory = [b \in Blocks |-> "free"]
    /\ dtable = Uninstalled
    /\ pc = [t \in Threads |-> IF t = First THEN "program" ELSE "none"]
    /\ blocks = [t \in Threads |-> {}]
    /\ rest = <<>>
    /\ calls = [t \in Threads |-> Calls]
    /\ LockInit

At(t, label) == pc[t] = label
Goto(t, label) == pc' = [pc EXCEPT ![t] = label]
FreeBlocks == {b \in Blocks : memory[b] = "free"}
Elements(list) == {list[i] : i \in 1..Len(list)}

(* A message, an update or a detach by the program.                          *)
Call(t, label) ==
    /\ At(t, "program")
    /\ calls[t] > 0
    /\ calls' = [calls EXCEPT ![t] = @ - 1]
    /\ Goto(t, label)
    /\ UNCHANGED <<alive, heap, blocks, rest, mutex, lock>>

(* Locking and unlocking between two labels.                                 *)
LockAt(t, from, to) ==
    /\ At(t, from)
    /\ Lock(t)
    /\ Goto(t, to)
    /\ UNCHANGED <<alive, heap, blocks, rest, calls, mutex>>

UnlockAt(t, from, to) ==
    /\ At(t, from)
    /\ Unlock(t)
    /\ Goto(t, to)
    /\ UNCHANGED <<alive, heap, blocks, rest, calls, mutex>>

-----------------------------------------------------------------------------
(* Faulty forms of steps below: each must break a property.                  *)

(* The new thread is left to count itself.                                   *)
DetachUncounted(t) ==
    /\ At(t, "dt_count")
    /\ Goto(t, "dt_unlock")
    /\ UNCHANGED <<alive, heap, blocks, rest, calls, mutex, lock>>

(* A thread that ends is not counted off.                                    *)
ExitUncounted(t) ==
    /\ At(t, "ex_count")
    /\ Goto(t, "ex_unlock")
    /\ UNCHANGED <<alive, heap, blocks, rest, calls, mutex, lock>>

(* The list is freed and not emptied.                                        *)
TakeGarbageKeeps(t) ==
    /\ At(t, "rg_take")
    /\ rest' = garbage
    /\ Goto(t, "rg_free")
    /\ UNCHANGED <<alive, heap, blocks, calls, mutex, lock>>

-----------------------------------------------------------------------------
(* tour_thread_detach: the new thread runs before it is counted.             *)
DetachCreate(t) ==
    /\ At(t, "dt_create")
    /\ \/ \E u \in Threads :
              /\ At(u, "none")
              /\ pc' = [pc EXCEPT ![u] = "program", ![t] = "dt_count"]
       \/ Goto(t, "dt_unlock")
    /\ UNCHANGED <<alive, heap, blocks, rest, calls, mutex, lock>>

DetachCount(t) ==
    /\ At(t, "dt_count")
    /\ alive' = alive + 1
    /\ Goto(t, "dt_unlock")
    /\ UNCHANGED <<heap, blocks, rest, calls, mutex, lock>>

Detach(t) ==
    \/ LockAt(t, "dt_lock", "dt_create")
    \/ DetachCreate(t)
    \/ DetachCount(t)
    \/ UnlockAt(t, "dt_unlock", "program")

(* tour_thread_add by a thread the program made itself.                      *)
AddStart(t) ==
    /\ At(t, "none")
    /\ Goto(t, "ad_lock")
    /\ UNCHANGED <<alive, heap, blocks, rest, calls, mutex, lock>>

AddCount(t) ==
    /\ At(t, "ad_count")
    /\ alive' = alive + 1
    /\ Goto(t, "ad_unlock")
    /\ UNCHANGED <<heap, blocks, rest, calls, mutex, lock>>

Add(t) ==
    \/ LockAt(t, "ad_lock", "ad_count")
    \/ AddCount(t)
    \/ UnlockAt(t, "ad_unlock", "program")

(* tour_thread_exit, also at the end of __tour_thread_detach_function, and   *)
(* tour_thread_remove: the thread does without the runtime from here on.     *)
ExitStart(t) ==
    /\ At(t, "program")
    /\ Goto(t, "ex_lock")
    /\ UNCHANGED <<alive, heap, blocks, rest, calls, mutex, lock>>

ExitCount(t) ==
    /\ At(t, "ex_count")
    /\ alive' = alive - 1
    /\ Goto(t, "ex_unlock")
    /\ UNCHANGED <<heap, blocks, rest, calls, mutex, lock>>

Exit(t) ==
    \/ LockAt(t, "ex_lock", "ex_count")
    \/ ExitCount(t)
    \/ UnlockAt(t, "ex_unlock", "gone")

-----------------------------------------------------------------------------
(* get_implementation: an installed table is read without the lock; one that *)
(* is not is installed under it, and read in a second attempt.               *)
ReadTable(t) ==
    /\ At(t, "rd_table")
    /\ blocks' = [blocks EXCEPT ![t] = dtable]
    /\ Goto(t, IF dtable = Uninstalled THEN "in_lock" ELSE "rd_use")
    /\ UNCHANGED <<alive, heap, rest, calls, mutex, lock>>

ReadUse(t) ==
    /\ At(t, "rd_use")
    /\ \E b \in blocks[t] :
           /\ blocks' = [blocks EXCEPT ![t] = @ \ {b}]
           /\ Goto(t, IF blocks[t] = {b} THEN "program" ELSE "rd_use")
    /\ UNCHANGED <<alive, heap, rest, calls, mutex, lock>>

(* __tour_install_dtable_for_class.  Where another thread was faster an      *)
(* assertion would fail (Dispatch).                                          *)
Install(t, from, to) ==
    /\ At(t, from)
    /\ \/ /\ dtable = Uninstalled
          /\ \E table \in SUBSET FreeBlocks :
                 /\ Cardinality(table) = TableSize
                 /\ dtable' = table
                 /\ memory' = [b \in Blocks |-> IF b \in table THEN "live" ELSE memory[b]]
       \/ /\ dtable # Uninstalled
          /\ UNCHANGED <<dtable, memory>>
    /\ Goto(t, to)
    /\ UNCHANGED <<alive, garbage, blocks, rest, calls, mutex, lock>>

Read(t) ==
    \/ ReadTable(t)
    \/ ReadUse(t)
    \/ LockAt(t, "in_lock", "in_install")
    \/ Install(t, "in_install", "in_unlock")
    \/ UnlockAt(t, "in_unlock", "rd_table")

(* __tour_update_dispatch_table_for_class: an installed class is uninstalled *)
(* for a while, and its table freed.                                         *)
Uninstall(t) ==
    /\ At(t, "up_table")
    /\ blocks' = [blocks EXCEPT ![t] = dtable]
    /\ dtable' = Uninstalled
    /\ Goto(t, IF dtable = Uninstalled THEN "up_unlock" ELSE "fg_lock")
    /\ UNCHANGED <<alive, garbage, memory, rest, calls, mutex, lock>>

Update(t) ==
    \/ LockAt(t, "up_lock", "up_table")
    \/ Uninstall(t)
    \/ Install(t, "up_install", "up_unlock")
    \/ UnlockAt(t, "up_unlock", "program")

-----------------------------------------------------------------------------
(* sarray_free_garbage: alone, the thread frees the block, and the garbage   *)
(* if there is any; otherwise the block joins the list.                      *)
Discard(t) ==
    /\ At(t, "fg_test")
    /\ \E b \in blocks[t] :
        /\ blocks' = [blocks EXCEPT ![t] = @ \ {b}]
        /\ \/ /\ alive = 1
              /\ memory' = [memory EXCEPT ![b] = "free"]
              /\ Goto(t, IF garbage = <<>> THEN "fg_unlock" ELSE "rg_lock")
              /\ UNCHANGED garbage
           \/ /\ alive # 1
              /\ memory' = [memory EXCEPT ![b] = "garbage"]
              /\ garbage' = <<b>> \o garbage
              /\ Goto(t, "fg_unlock")
    /\ UNCHANGED <<alive, dtable, rest, calls, mutex, lock>>

(* sarray_remove_garbage takes the whole list and frees a block at a time.   *)
TakeGarbage(t) ==
    /\ At(t, "rg_take")
    /\ rest' = garbage
    /\ garbage' = <<>>
    /\ Goto(t, "rg_free")
    /\ UNCHANGED <<alive, memory, dtable, blocks, calls, mutex, lock>>

FreeGarbage(t) ==
    /\ At(t, "rg_free")
    /\ \/ /\ rest # <<>>
          /\ memory' = [memory EXCEPT ![Head(rest)] = "free"]
          /\ rest' = Tail(rest)
          /\ UNCHANGED pc
       \/ /\ rest = <<>>
          /\ Goto(t, "rg_unlock")
          /\ UNCHANGED <<memory, rest>>
    /\ UNCHANGED <<alive, garbage, dtable, blocks, calls, mutex, lock>>

Collect(t) ==
    \/ LockAt(t, "fg_lock", "fg_test")
    \/ Discard(t)
    \/ LockAt(t, "rg_lock", "rg_take")
    \/ TakeGarbage(t)
    \/ FreeGarbage(t)
    \/ UnlockAt(t, "rg_unlock", "fg_unlock")
    \/ UnlockAt(t, "fg_unlock", IF blocks[t] = {} THEN "up_install" ELSE "fg_lock")

-----------------------------------------------------------------------------
Program(t) ==
    \/ Call(t, "rd_table") \/ Call(t, "up_lock")
    \/ Call(t, "dt_lock") \/ AddStart(t) \/ ExitStart(t)

Next ==
    \E t \in Threads :
        \/ Program(t) \/ Detach(t) \/ Add(t) \/ Exit(t)
        \/ Read(t) \/ Update(t) \/ Collect(t)

Spec == Init /\ [][Next]_vars

-----------------------------------------------------------------------------
(* No message reads a table that has been freed, although it holds no lock:  *)
(* whatever threads are being made, counted, or ending meanwhile.            *)
NoFreedRead ==
    \A t \in Threads : At(t, "rd_use") => \A b \in blocks[t] : memory[b] # "free"

(* While nobody is at work under the lock, the count is the number of        *)
(* threads that use the runtime.                                             *)
CountExact ==
    holder = NoThread =>
        alive = Cardinality({t \in Threads :
                    pc[t] \notin {"none", "ad_lock", "ad_count", "ex_unlock", "gone"}})

(* A block waits for its end in one place, and only there, so that none is   *)
(* freed twice and none is lost.                                             *)
GarbageExact ==
    LET waiting == garbage \o rest
    IN  /\ Elements(waiting) = {b \in Blocks : memory[b] = "garbage"}
        /\ Cardinality(Elements(waiting)) = Len(waiting)
        /\ \A b \in Blocks : memory[b] = "live" =>
               b \in dtable \/ \E t \in Threads : b \in blocks[t] /\ ~At(t, "rd_use")
=============================================================================
