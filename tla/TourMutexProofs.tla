-------------------------- MODULE TourMutexProofs --------------------------
(* What holds of the mutex of thread.c for any threads and any nesting.  The *)
(* inductive invariant says where the pthread mutex is while each field is   *)
(* on its way from one owner to the next.                                    *)
EXTENDS TourMutex, TLAPS

(* Between the pthread lock and the end of a call, and back.                 *)
Holding == {"lk_owner", "ul_owner", "ul_depth", "ul_backend",
            "cw_depth", "cw_owner", "cw_wait", "cw_depth1", "cw_owner1"}
Outside == {"idle", "spin"}

BackendInv ==
    \A t \in Threads :
        /\ pc[t] \in Holding => backend = t
        /\ backend = t => pc[t] \in Holding \/ (pc[t] \in Outside /\ owner = t)

OwnerInv ==
    /\ \A t \in Threads : owner = t =>
           backend = t /\ pc[t] \in Outside \cup {"ul_owner", "cw_depth", "cw_owner"}
    /\ \A t \in Threads : pc[t] \in {"ul_owner", "cw_depth", "cw_owner"} => owner = t

(* The depth never exceeds the locks the owner has yet to unlock, and is 0   *)
(* whenever the pthread mutex is free.                                       *)
DepthInv ==
    /\ backend = NoThread => depth = 0
    /\ \A t \in Threads :
        /\ pc[t] \in {"lk_owner", "ul_backend", "cw_owner", "cw_wait", "cw_depth1"} =>
               depth = 0
        /\ pc[t] \in {"ul_owner", "ul_depth", "cw_depth"} => depth <= 1
        /\ pc[t] = "cw_owner1" => depth = 1
        /\ pc[t] \in Outside /\ owner = t /\ life = "live" =>
               nest[t] >= 1 /\ depth <= nest[t]
        /\ pc[t] \in {"lk_wait", "lk_owner", "try"} => nest[t] < MaxNest
        /\ pc[t] \in {"cw_depth", "cw_owner", "cw_wait", "cw_blocked", "cw_relock",
                      "cw_depth1", "cw_owner1"} => nest[t] >= 1

(* A free finds every thread outside a call, and no call follows it.         *)
LifeInv == life # "live" => depth = 0 /\ \A t \in Threads : pc[t] = "idle"

IInv == TypeOK /\ BackendInv /\ OwnerInv /\ DepthInv /\ LifeInv

(* Without nesting, a client inside its lock is the owner.                   *)
FlatInv ==
    \A t \in Threads :
        /\ Inside(t) => owner = t
        /\ pc[t] \in {"ul_owner", "ul_depth", "ul_backend"} => nest[t] = 0

-----------------------------------------------------------------------------
(* A new mutex satisfies the invariant.                                      *)
LEMMA InitInv == Init => IInv
  BY ThreadsAssumption, MaxNestAssumption
  DEF Init, IInv, TypeOK, Labels, BackendInv, OwnerInv, DepthInv, LifeInv,
      Holding, Outside

(* Every step of a call keeps the inductive invariant.                       *)
LEMMA StepInv == ASSUME IInv, [Next]_vars PROVE IInv'
<1> USE ThreadsAssumption, MaxNestAssumption
        DEF IInv, TypeOK, Labels, BackendInv, OwnerInv, DepthInv, LifeInv,
            Holding, Outside, At, Goto, Calls, UnlockCalled
<1>1. CASE UNCHANGED vars
  BY <1>1 DEF vars
<1>2. ASSUME NEW t \in Threads, Reenter(t) PROVE IInv'
  BY <1>2 DEF Reenter
<1>3. ASSUME NEW t \in Threads, LockCall(t) PROVE IInv'
  BY <1>3 DEF LockCall
<1>4. ASSUME NEW t \in Threads, LockBackend(t) PROVE IInv'
  BY <1>4 DEF LockBackend
<1>5. ASSUME NEW t \in Threads, SetOwner(t) PROVE IInv'
  BY <1>5 DEF SetOwner
<1>6. ASSUME NEW t \in Threads, TryCall(t) PROVE IInv'
  BY <1>6 DEF TryCall
<1>7. ASSUME NEW t \in Threads, TryBackend(t) PROVE IInv'
  BY <1>7 DEF TryBackend
<1>8. ASSUME NEW t \in Threads, TryBusy(t) PROVE IInv'
  BY <1>8 DEF TryBusy
<1>9. ASSUME NEW t \in Threads, UnlockRefused(t) PROVE IInv'
  BY <1>9 DEF UnlockRefused
<1>10. ASSUME NEW t \in Threads, UnlockInner(t) PROVE IInv'
  BY <1>10 DEF UnlockInner
<1>11. ASSUME NEW t \in Threads, UnlockOuter(t) PROVE IInv'
  BY <1>11 DEF UnlockOuter
<1>12. ASSUME NEW t \in Threads, ClearOwner(t) PROVE IInv'
  BY <1>12 DEF ClearOwner
<1>13. ASSUME NEW t \in Threads, ClearDepth(t) PROVE IInv'
  BY <1>13 DEF ClearDepth
<1>14. ASSUME NEW t \in Threads, ReleaseBackend(t) PROVE IInv'
  BY <1>14 DEF ReleaseBackend
<1>15. ASSUME NEW t \in Threads, WaitCall(t) PROVE IInv'
  BY <1>15 DEF WaitCall
<1>16. ASSUME NEW t \in Threads, WaitClearDepth(t) PROVE IInv'
  BY <1>16 DEF WaitClearDepth
<1>17. ASSUME NEW t \in Threads, WaitClearOwner(t) PROVE IInv'
  BY <1>17 DEF WaitClearOwner
<1>18. ASSUME NEW t \in Threads, WaitBlock(t) PROVE IInv'
  BY <1>18 DEF WaitBlock
<1>19. ASSUME NEW t \in Threads, WaitWake(t) PROVE IInv'
  BY <1>19 DEF WaitWake
<1>20. ASSUME NEW t \in Threads, WaitRelock(t) PROVE IInv'
  BY <1>20 DEF WaitRelock
<1>21. ASSUME NEW t \in Threads, WaitSetDepth(t) PROVE IInv'
  BY <1>21 DEF WaitSetDepth
<1>22. ASSUME NEW t \in Threads, WaitSetOwner(t) PROVE IInv'
  BY <1>22 DEF WaitSetOwner
<1>23. ASSUME NEW t \in Threads, SignalForever(t) PROVE IInv'
  BY <1>23 DEF SignalForever
<1>24. ASSUME NEW t \in Threads, Free(t) PROVE IInv'
  BY <1>24 DEF Free
<1> QED
  BY <1>1, <1>2, <1>3, <1>4, <1>5, <1>6, <1>7, <1>8, <1>9, <1>10, <1>11,
     <1>12, <1>13, <1>14, <1>15, <1>16, <1>17, <1>18, <1>19, <1>20, <1>21,
     <1>22, <1>23, <1>24
  DEF Next, MutexStep, InLock, Unlock, ConditionStep, InWait

(* The fields of the mutex agree with the pthread mutex at every step.       *)
THEOREM Invariance == Spec => []IInv
  BY InitInv, StepInv, PTL DEF Spec

(* The fields keep their types, and depth stays within the nesting.          *)
THEOREM TypeCorrect == Spec => []TypeOK
<1>1. IInv => TypeOK
  BY DEF IInv
<1> QED
  BY <1>1, Invariance, PTL

(* The recursive path of tour_mutex_lock is taken only by the thread that    *)
(* holds the pthread mutex.                                                  *)
THEOREM OwnerIsHolder == Spec => []OwnerHoldsBackend
<1>1. IInv => OwnerHoldsBackend
  BY DEF IInv, TypeOK, OwnerInv, OwnerHoldsBackend
<1> QED
  BY <1>1, Invariance, PTL

(* A client that did its unlocks, and waited as it liked, holds nothing.     *)
THEOREM NothingLeaks == Spec => []NoLeak
<1>1. IInv => NoLeak
  BY DEF IInv, TypeOK, BackendInv, DepthInv, NoLeak, At, Holding, Outside
<1> QED
  BY <1>1, Invariance, PTL

-----------------------------------------------------------------------------
(* Nobody is inside a new mutex.                                             *)
LEMMA FlatInit == Init => FlatInv
<1>1. ASSUME Init, NEW t \in Threads
      PROVE  ~Inside(t) /\ pc[t] = "idle"
  BY <1>1 DEF Init, Inside
<1> QED
  BY <1>1 DEF FlatInv

(* With one lock per client the early release of a nested unlock has no      *)
(* place to happen.                                                          *)
LEMMA FlatStep ==
  ASSUME MaxNest = 1, IInv, FlatInv, [Next]_vars PROVE FlatInv'
<1> USE ThreadsAssumption
        DEF IInv, TypeOK, BackendInv, OwnerInv, DepthInv, LifeInv, FlatInv,
            Inside, Labels, Holding, Outside, At, Goto, Calls, UnlockCalled
<1>1. CASE UNCHANGED vars
  BY <1>1 DEF vars
<1>2. ASSUME NEW t \in Threads, MutexStep(t) PROVE FlatInv'
  BY <1>2 DEF MutexStep, Unlock, InLock, Reenter, LockCall, LockBackend,
     SetOwner, TryCall, TryBackend, TryBusy, UnlockRefused, UnlockInner,
     UnlockOuter, ClearOwner, ClearDepth, ReleaseBackend
<1>3. ASSUME NEW t \in Threads, ConditionStep(t) PROVE FlatInv'
  BY <1>3 DEF ConditionStep, InWait, WaitCall, WaitClearDepth, WaitClearOwner,
     WaitBlock, WaitWake, WaitRelock, WaitSetDepth, WaitSetOwner, SignalForever
<1>4. ASSUME NEW t \in Threads, Free(t) PROVE FlatInv'
  BY <1>4 DEF Free
<1> QED
  BY <1>1, <1>2, <1>3, <1>4 DEF Next

(* Clients that do not nest exclude each other.                              *)
THEOREM FlatExclusion == MaxNest = 1 => (Spec => []MutualExclusion)
<1> SUFFICES ASSUME MaxNest = 1 PROVE Spec => []MutualExclusion
  OBVIOUS
<1>1. FlatInv => MutualExclusion
  BY DEF FlatInv, MutualExclusion
<1>2. IInv /\ FlatInv /\ [Next]_vars => FlatInv'
  BY FlatStep
<1> QED
  BY <1>1, <1>2, FlatInit, Invariance, PTL DEF Spec

-----------------------------------------------------------------------------
(* A new mutex is a free coarse mutex.                                       *)
LEMMA DepthInit == Init => Depth!Init
  BY ThreadsAssumption DEF Init, Depth!Init, Holder

(* Each step is one call of the coarse mutex, or none.                       *)
LEMMA DepthStep == ASSUME IInv, [Next]_vars PROVE [Depth!Next]_(Depth!vars)
<1> USE ThreadsAssumption
        DEF IInv, TypeOK, BackendInv, OwnerInv, DepthInv, LifeInv,
            Labels, Holding, Outside, At, Goto, Calls, UnlockCalled, Holder
<1>1. CASE UNCHANGED vars
  BY <1>1 DEF vars, Depth!vars
<1>2. ASSUME NEW t \in Threads, Reenter(t) PROVE Depth!Reenter(t)
  BY <1>2 DEF Reenter, Depth!Reenter
<1>3. ASSUME NEW t \in Threads, SetOwner(t) PROVE Depth!Acquire(t)
  BY <1>3 DEF SetOwner, Depth!Acquire
<1>4. ASSUME NEW t \in Threads, UnlockInner(t) PROVE Depth!UnlockInner(t)
  BY <1>4 DEF UnlockInner, Depth!UnlockInner
<1>5. ASSUME NEW t \in Threads, UnlockOuter(t) PROVE Depth!UnlockOuter(t)
  BY <1>5 DEF UnlockOuter, Depth!UnlockOuter
<1>6. ASSUME NEW t \in Threads, WaitCall(t) PROVE Depth!WaitRelease(t)
  BY <1>6 DEF WaitCall, Depth!WaitRelease, Depth!UnlockOuter
<1>7. ASSUME NEW t \in Threads, WaitSetOwner(t) PROVE Depth!WaitReturn(t)
  BY <1>7 DEF WaitSetOwner, Depth!WaitReturn
<1>8. ASSUME NEW t \in Threads,
             \/ LockCall(t) \/ LockBackend(t) \/ TryCall(t) \/ TryBackend(t)
             \/ TryBusy(t) \/ UnlockRefused(t)
      PROVE  UNCHANGED Depth!vars
  <2>1. owner # t /\ owner' = owner /\ depth' = depth /\ life' = life
    BY <1>8 DEF LockCall, LockBackend, TryCall, TryBackend, TryBusy, UnlockRefused
  <2>2. \A u \in Threads : u # t => pc'[u] = pc[u]
    BY <1>8 DEF LockCall, LockBackend, TryCall, TryBackend, TryBusy, UnlockRefused
  <2> QED
    BY <2>1, <2>2 DEF Depth!vars
<1>9. ASSUME NEW t \in Threads,
             ClearOwner(t) \/ ClearDepth(t) \/ ReleaseBackend(t)
      PROVE  UNCHANGED Depth!vars
  BY <1>9 DEF ClearOwner, ClearDepth, ReleaseBackend, Depth!vars
<1>10. ASSUME NEW t \in Threads,
             \/ WaitClearDepth(t) \/ WaitClearOwner(t) \/ WaitBlock(t)
             \/ WaitWake(t) \/ WaitRelock(t) \/ WaitSetDepth(t)
       PROVE  UNCHANGED Depth!vars
  BY <1>10 DEF WaitClearDepth, WaitClearOwner, WaitBlock, WaitWake,
     WaitRelock, WaitSetDepth, Depth!vars
<1>11. ASSUME NEW t \in Threads, SignalForever(t) PROVE UNCHANGED Depth!vars
  BY <1>11 DEF SignalForever, Depth!vars
<1>12. ASSUME NEW t \in Threads, Free(t) PROVE UNCHANGED Depth!vars
  <2>1. owner = NoThread /\ life' # "live"
    BY <1>12 DEF Free
  <2> QED
    BY <2>1 DEF Depth!vars
<1> QED
  BY <1>1, <1>2, <1>3, <1>4, <1>5, <1>6, <1>7, <1>8, <1>9, <1>10, <1>11, <1>12
  DEF Next, MutexStep, InLock, Unlock, ConditionStep, InWait, Depth!Next

(* The mutex as coded is the mutex of DepthLock, one step per call.          *)
THEOREM RefinesDepthLock == Spec => ImplementsDepthLock
<1>1. Spec => Depth!Spec
  BY DepthInit, DepthStep, Invariance, PTL DEF Spec, Depth!Spec
<1> QED
  BY <1>1 DEF ImplementsDepthLock

-----------------------------------------------------------------------------
(* A new mutex is a free recursive mutex.                                    *)
LEMMA ReentrantInit == Init => Reentrant!Init
  BY ThreadsAssumption DEF Init, Reentrant!Init, Holder

(* Where no client nests its locks, each step is one call of a recursive     *)
(* mutex, or none: the owner has one unlock to do, and that gives it up.     *)
LEMMA ReentrantStep ==
  ASSUME MaxNest = 1, IInv, [Next]_vars PROVE [Reentrant!Next]_(Reentrant!vars)
<1> USE ThreadsAssumption
        DEF IInv, TypeOK, BackendInv, OwnerInv, DepthInv, LifeInv,
            Labels, Holding, Outside, At, Goto, Calls, UnlockCalled, Holder
<1>1. CASE UNCHANGED vars
  BY <1>1 DEF vars, Reentrant!vars
<1>2. ASSUME NEW t \in Threads, Reenter(t) PROVE FALSE
  BY <1>2 DEF Reenter
<1>3. ASSUME NEW t \in Threads, SetOwner(t) PROVE Reentrant!Acquire(t)
  BY <1>3 DEF SetOwner, Reentrant!Acquire
<1>4. ASSUME NEW t \in Threads, UnlockInner(t) PROVE FALSE
  BY <1>4 DEF UnlockInner
<1>5. ASSUME NEW t \in Threads, UnlockOuter(t) PROVE Reentrant!ReleaseOuter(t)
  BY <1>5 DEF UnlockOuter, Reentrant!ReleaseOuter
<1>6. ASSUME NEW t \in Threads, WaitCall(t) PROVE Reentrant!ReleaseOuter(t)
  BY <1>6 DEF WaitCall, Reentrant!ReleaseOuter
<1>7. ASSUME NEW t \in Threads, WaitSetOwner(t) PROVE Reentrant!Acquire(t)
  BY <1>7 DEF WaitSetOwner, Reentrant!Acquire
<1>8. ASSUME NEW t \in Threads,
             \/ LockCall(t) \/ LockBackend(t) \/ TryCall(t) \/ TryBackend(t)
             \/ TryBusy(t) \/ UnlockRefused(t)
      PROVE  UNCHANGED Reentrant!vars
  <2>1. owner # t /\ owner' = owner /\ life' = life
    BY <1>8 DEF LockCall, LockBackend, TryCall, TryBackend, TryBusy, UnlockRefused
  <2>2. \A u \in Threads : u # t => pc'[u] = pc[u] /\ nest'[u] = nest[u]
    BY <1>8 DEF LockCall, LockBackend, TryCall, TryBackend, TryBusy, UnlockRefused
  <2> QED
    BY <2>1, <2>2 DEF Reentrant!vars
<1>9. ASSUME NEW t \in Threads,
             \/ ClearOwner(t) \/ ClearDepth(t) \/ ReleaseBackend(t)
             \/ WaitClearDepth(t) \/ WaitClearOwner(t) \/ WaitBlock(t)
             \/ WaitWake(t) \/ WaitRelock(t) \/ WaitSetDepth(t)
      PROVE  UNCHANGED Reentrant!vars
  <2>1. nest' = nest /\ life' = life /\ Holder' = Holder
    BY <1>9 DEF ClearOwner, ClearDepth, ReleaseBackend, WaitClearDepth, WaitClearOwner,
       WaitBlock, WaitWake, WaitRelock, WaitSetDepth
  <2> QED
    BY <2>1 DEF Reentrant!vars
<1>10. ASSUME NEW t \in Threads, SignalForever(t) PROVE UNCHANGED Reentrant!vars
  BY <1>10 DEF SignalForever, Reentrant!vars
<1>11. ASSUME NEW t \in Threads, Free(t) PROVE UNCHANGED Reentrant!vars
  <2>1. owner = NoThread /\ life' # "live"
    BY <1>11 DEF Free
  <2> QED
    BY <2>1 DEF Reentrant!vars
<1> QED
  BY <1>1, <1>2, <1>3, <1>4, <1>5, <1>6, <1>7, <1>8, <1>9, <1>10, <1>11
  DEF Next, MutexStep, InLock, Unlock, ConditionStep, InWait, Reentrant!Next

(* For clients that do not nest, the mutex as coded is the recursive mutex   *)
(* that the runtime relies on.                                               *)
THEOREM RefinesReentrantLock == MaxNest = 1 => (Spec => ImplementsReentrantLock)
<1> SUFFICES ASSUME MaxNest = 1 PROVE Spec => Reentrant!Spec
  BY DEF ImplementsReentrantLock
<1>1. IInv /\ [Next]_vars => [Reentrant!Next]_(Reentrant!vars)
  BY ReentrantStep
<1> QED
  BY <1>1, ReentrantInit, Invariance, PTL DEF Spec, Reentrant!Spec
=============================================================================
