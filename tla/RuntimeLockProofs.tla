------------------------- MODULE RuntimeLockProofs -------------------------
(* What a lock and an unlock of the runtime mutex do: the facts that every   *)
(* proof about the runtime's modules starts from.                            *)
EXTENDS RuntimeLock, TLAPS

LockTypeOK ==
    /\ mutex \in {"none", "depth", "promised"}
    /\ holder \in Threads \cup {NoThread}
    /\ depth \in Nat

(* The depth that a first lock leaves behind.                                *)
FirstDepth == IF mutex = "promised" THEN 1 ELSE 0

(* A thread that gets the lock found it free or had it already.              *)
LEMMA LockEffect ==
  ASSUME LockTypeOK, mutex # "none", NEW t \in Threads, Lock(t)
  PROVE  /\ holder \in {NoThread, t} /\ holder' = t
         /\ depth' = IF holder = t THEN depth + 1 ELSE FirstDepth
BY ThreadsAssumption
DEF LockTypeOK, FirstDepth, Lock, Coded!Acquire, Coded!Reenter,
    Promised!Acquire, Promised!Reenter

(* An unlock takes effect for the holder only: a depth above 1 is reduced,   *)
(* any other depth gives the mutex up.                                       *)
LEMMA UnlockEffect ==
  ASSUME LockTypeOK, mutex # "none", NEW t \in Threads, Unlock(t)
  PROVE  /\ holder # t => UNCHANGED lock
         /\ holder = t /\ depth > 1 => holder' = t /\ depth' = depth - 1
         /\ holder = t /\ depth <= 1 => holder' = NoThread /\ depth' = 0
BY ThreadsAssumption
DEF LockTypeOK, lock, Unlock, Coded!UnlockInner, Coded!UnlockOuter,
    Promised!ReleaseInner, Promised!ReleaseOuter

(* A call that locks and unlocks waits for the mutex to be free or the       *)
(* caller's.  It gives up what the caller holds only where one lock of the   *)
(* coded mutex is all that is held.                                          *)
LEMMA LockUnlockEffect ==
  ASSUME LockTypeOK, mutex # "none", NEW t \in Threads, LockUnlock(t)
  PROVE  /\ holder \in {NoThread, t}
         /\ mutex = "promised" \/ holder = NoThread \/ depth > 0 => UNCHANGED lock
         /\ mutex = "depth" /\ holder = t /\ depth = 0 =>
                holder' = NoThread /\ depth' = 0
BY ThreadsAssumption DEF LockTypeOK, lock, LockUnlock, Coded!UnlockOuter

(* Whatever is done with it, the lock keeps its type.                        *)
LEMMA LockTypeStep ==
  ASSUME LockTypeOK, mutex' = mutex, NEW t \in Threads,
         Lock(t) \/ Unlock(t) \/ LockUnlock(t) \/ UNCHANGED lock
  PROVE  LockTypeOK'
<1>1. CASE mutex = "none"
  BY <1>1 DEF LockTypeOK, lock, Lock, Unlock, LockUnlock
<1>2. CASE mutex # "none"
  BY <1>2, LockEffect, UnlockEffect, LockUnlockEffect DEF LockTypeOK, FirstDepth, lock
<1> QED
  BY <1>1, <1>2
=============================================================================
