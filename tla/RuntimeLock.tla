---------------------------- MODULE RuntimeLock ----------------------------
(* __tour_runtime_mutex as the modules of the runtime use it, one step per   *)
(* lock or unlock.  As shipped it is NULL and every lock and unlock returns  *)
(* at once ("none").  A program may set it to a mutex of thread.c ("depth"). *)
(* "promised" is the recursive mutex that the code relies on.                *)
EXTENDS Naturals

CONSTANTS Threads, NoThread,
          Mutexes       \* what __tour_runtime_mutex may be

ASSUME MutexesAssumption == Mutexes \subseteq {"none", "depth", "promised"}
ASSUME ThreadsAssumption == NoThread \notin Threads

VARIABLES mutex,            \* __tour_runtime_mutex, set before any call
          holder, depth     \* its holder and depth

lock == <<holder, depth>>

LockInit ==
    /\ mutex \in Mutexes
    /\ holder = NoThread /\ depth = 0

Coded == INSTANCE DepthLock
Promised == INSTANCE ReentrantLock WITH count <- depth

Lock(t) ==
    \/ mutex = "none" /\ UNCHANGED lock
    \/ mutex = "depth" /\ (Coded!Acquire(t) \/ Coded!Reenter(t))
    \/ mutex = "promised" /\ (Promised!Acquire(t) \/ Promised!Reenter(t))

Unlock(t) ==
    \/ (mutex = "none" \/ holder # t) /\ UNCHANGED lock
    \/ mutex = "depth" /\ (Coded!UnlockInner(t) \/ Coded!UnlockOuter(t))
    \/ mutex = "promised" /\ (Promised!ReleaseInner(t) \/ Promised!ReleaseOuter(t))

(* A call that locks, does its work and unlocks: on a mutex that is held at  *)
(* depth 0 the unlock is the one that gives it up.                           *)
LockUnlock(t) ==
    \/ mutex = "none" /\ UNCHANGED lock
    \/ mutex # "none" /\ holder = NoThread /\ UNCHANGED lock
    \/ mutex = "promised" /\ holder = t /\ UNCHANGED lock
    \/ mutex = "depth" /\ holder = t /\ depth > 0 /\ UNCHANGED lock
    \/ mutex = "depth" /\ holder = t /\ depth = 0 /\ Coded!UnlockOuter(t)
=============================================================================
