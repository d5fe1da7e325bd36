--------------------------- MODULE ReentrantLock ---------------------------
(* What a recursive mutex promises its clients: one holder at a time, who    *)
(* may lock again, and who gives it up with the unlock that matches the      *)
(* first lock.  A wait on a condition is a release followed by an acquire.   *)
EXTENDS Naturals

CONSTANTS Threads,    \* the threads that use the mutex
          NoThread    \* the holder of a free mutex

VARIABLES holder, count

vars == <<holder, count>>

Init == holder = NoThread /\ count = 0

Acquire(t) ==
    /\ holder = NoThread
    /\ holder' = t
    /\ count' = 1

Reenter(t) ==
    /\ holder = t
    /\ count' = count + 1
    /\ UNCHANGED holder

ReleaseOuter(t) ==
    /\ holder = t
    /\ count = 1
    /\ holder' = NoThread
    /\ count' = 0

ReleaseInner(t) ==
    /\ holder = t
    /\ count > 1
    /\ count' = count - 1
    /\ UNCHANGED holder

Next == \E t \in Threads :
            Acquire(t) \/ Reenter(t) \/ ReleaseOuter(t) \/ ReleaseInner(t)

Spec == Init /\ [][Next]_vars
=============================================================================
