----------------------------- MODULE DepthLock -----------------------------
(* The mutex of thread.c as its callers see it, one action per call that     *)
(* takes effect.  The depth is the field of struct tour_mutex: the first     *)
(* lock leaves it at 0 and each nested lock adds one, yet only a depth above *)
(* 1 makes an unlock a nested one.  The unlock of the first nesting level    *)
(* therefore gives the mutex up.                                             *)
EXTENDS Naturals

CONSTANTS Threads,    \* the threads that use the mutex
          NoThread    \* the owner field's NULL

VARIABLES holder, depth

vars == <<holder, depth>>

Init == holder = NoThread /\ depth = 0

(* tour_mutex_lock and tour_mutex_trylock on a free mutex. *)
Acquire(t) ==
    /\ holder = NoThread
    /\ holder' = t
    /\ depth' = 0

(* The same calls by the thread that owns it. *)
Reenter(t) ==
    /\ holder = t
    /\ depth' = depth + 1
    /\ UNCHANGED holder

UnlockInner(t) ==
    /\ holder = t
    /\ depth > 1
    /\ depth' = depth - 1
    /\ UNCHANGED holder

UnlockOuter(t) ==
    /\ holder = t
    /\ depth <= 1
    /\ holder' = NoThread
    /\ depth' = 0

(* tour_condition_wait gives the mutex up at any depth up to 1 and comes     *)
(* back with depth 1.                                                        *)
WaitRelease(t) == UnlockOuter(t)

WaitReturn(t) ==
    /\ holder = NoThread
    /\ holder' = t
    /\ depth' = 1

Next == \E t \in Threads :
            \/ Acquire(t) \/ Reenter(t)
            \/ UnlockInner(t) \/ UnlockOuter(t)
            \/ WaitRelease(t) \/ WaitReturn(t)

Spec == Init /\ [][Next]_vars
=============================================================================
