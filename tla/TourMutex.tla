----------------------------- MODULE TourMutex -----------------------------
(* The mutex and the condition of thread.c over a pthread mutex, one action  *)
(* per access to the fields that threads share.  A thread reads `owner'      *)
(* before it holds the pthread mutex; only the thread itself ever writes its *)
(* own identity there, so that test and the work on `depth' it guards are    *)
(* one step.                                                                 *)
(*                                                                           *)
(* The clients are balanced: a thread unlocks once for each lock that        *)
(* returned to it, which `nest' counts.                                      *)
EXTENDS Naturals

CONSTANTS Threads,    \* the threads that use the mutex
          NoThread,   \* NULL in `owner', and the owner of a free pthread mutex
          MaxNest     \* how many locks a client nests

ASSUME ThreadsAssumption == NoThread \notin Threads
ASSUME MaxNestAssumption == MaxNest \in Nat \ {0}

VARIABLES owner,      \* mutex->owner
          depth,      \* mutex->depth
          backend,    \* the thread that holds the pthread mutex
          pc,         \* where each thread stands in a call
          nest,       \* locks each client has yet to unlock
          life        \* "live", "busy" after a failed free, or "freed"

vars == <<owner, depth, backend, pc, nest, life>>

Labels == {"idle", "lk_wait", "lk_owner", "try",
           "ul_owner", "ul_depth", "ul_backend",
           "cw_depth", "cw_owner", "cw_wait", "cw_blocked", "cw_relock",
           "cw_depth1", "cw_owner1", "spin"}

Init ==
    /\ owner = NoThread
    /\ depth = 0
    /\ backend = NoThread
    /\ pc = [t \in Threads |-> "idle"]
    /\ nest = [t \in Threads |-> 0]
    /\ life = "live"

At(t, label) == pc[t] = label
Goto(t, label) == pc' = [pc EXCEPT ![t] = label]
Calls(t) == At(t, "idle") /\ life = "live"

-----------------------------------------------------------------------------
(* Faulty forms of steps below: each must break a property.                  *)

(* The status of pthread_mutex_trylock is ignored.                           *)
TryBackendUnchecked(t) ==
    /\ At(t, "try")
    /\ backend' = IF backend = NoThread THEN t ELSE backend
    /\ Goto(t, "lk_owner")
    /\ UNCHANGED <<owner, depth, nest, life>>

(* A failed trylock counts a nesting level all the same.                     *)
TryBusyCounted(t) ==
    /\ At(t, "try")
    /\ backend # NoThread
    /\ depth' = depth + 1
    /\ Goto(t, "idle")
    /\ UNCHANGED <<owner, backend, nest, life>>

(* The pthread mutex is released before the fields are cleared.              *)
UnlockOuterReleasesFirst(t) ==
    /\ Calls(t)
    /\ nest[t] > 0
    /\ owner = t
    /\ depth <= 1
    /\ nest' = [nest EXCEPT ![t] = @ - 1]
    /\ backend' = NoThread
    /\ Goto(t, "ul_owner")
    /\ UNCHANGED <<owner, depth, life>>

(* The last unlock counts down to 0 and keeps the mutex.                     *)
UnlockOuterCountsOnly(t) ==
    /\ Calls(t)
    /\ nest[t] > 0
    /\ owner = t
    /\ depth <= 1
    /\ nest' = [nest EXCEPT ![t] = @ - 1]
    /\ depth' = 0
    /\ UNCHANGED <<owner, backend, pc, life>>

(* A wait is let through at any depth.                                       *)
WaitCallAtAnyDepth(t) ==
    /\ Calls(t)
    /\ nest[t] > 0
    /\ owner = t
    /\ Goto(t, "cw_depth")
    /\ UNCHANGED <<owner, depth, backend, nest, life>>

(* A wait returns one level too deep.                                        *)
WaitSetDepthTooDeep(t) ==
    /\ At(t, "cw_depth1")
    /\ depth' = 2
    /\ Goto(t, "cw_owner1")
    /\ UNCHANGED <<owner, backend, nest, life>>

-----------------------------------------------------------------------------
(* tour_mutex_lock and tour_mutex_trylock.                                   *)

Reenter(t) ==
    /\ Calls(t)
    /\ nest[t] < MaxNest
    /\ owner = t
    /\ depth' = depth + 1
    /\ nest' = [nest EXCEPT ![t] = @ + 1]
    /\ UNCHANGED <<owner, backend, pc, life>>

LockCall(t) ==
    /\ Calls(t)
    /\ nest[t] < MaxNest
    /\ owner # t
    /\ Goto(t, "lk_wait")
    /\ UNCHANGED <<owner, depth, backend, nest, life>>

LockBackend(t) ==
    /\ At(t, "lk_wait")
    /\ backend = NoThread
    /\ backend' = t
    /\ Goto(t, "lk_owner")
    /\ UNCHANGED <<owner, depth, nest, life>>

(* The depth keeps the value the last unlock gave it.                        *)
SetOwner(t) ==
    /\ At(t, "lk_owner")
    /\ owner' = t
    /\ nest' = [nest EXCEPT ![t] = @ + 1]
    /\ Goto(t, "idle")
    /\ UNCHANGED <<depth, backend, life>>

TryCall(t) ==
    /\ Calls(t)
    /\ nest[t] < MaxNest
    /\ owner # t
    /\ Goto(t, "try")
    /\ UNCHANGED <<owner, depth, backend, nest, life>>

TryBackend(t) ==
    /\ At(t, "try")
    /\ backend = NoThread
    /\ backend' = t
    /\ Goto(t, "lk_owner")
    /\ UNCHANGED <<owner, depth, nest, life>>

TryBusy(t) ==
    /\ At(t, "try")
    /\ backend # NoThread
    /\ Goto(t, "idle")
    /\ UNCHANGED <<owner, depth, backend, nest, life>>

-----------------------------------------------------------------------------
(* tour_mutex_unlock.                                                        *)

UnlockCalled(t) ==
    /\ Calls(t)
    /\ nest[t] > 0
    /\ nest' = [nest EXCEPT ![t] = @ - 1]

(* The mutex went with an earlier unlock: -1.                                *)
UnlockRefused(t) ==
    /\ UnlockCalled(t)
    /\ owner # t
    /\ UNCHANGED <<owner, depth, backend, pc, life>>

UnlockInner(t) ==
    /\ UnlockCalled(t)
    /\ owner = t
    /\ depth > 1
    /\ depth' = depth - 1
    /\ UNCHANGED <<owner, backend, pc, life>>

UnlockOuter(t) ==
    /\ UnlockCalled(t)
    /\ owner = t
    /\ depth <= 1
    /\ Goto(t, "ul_owner")
    /\ UNCHANGED <<owner, depth, backend, life>>

ClearOwner(t) ==
    /\ At(t, "ul_owner")
    /\ owner' = NoThread
    /\ Goto(t, "ul_depth")
    /\ UNCHANGED <<depth, backend, nest, life>>

ClearDepth(t) ==
    /\ At(t, "ul_depth")
    /\ depth' = 0
    /\ Goto(t, "ul_backend")
    /\ UNCHANGED <<owner, backend, nest, life>>

ReleaseBackend(t) ==
    /\ At(t, "ul_backend")
    /\ backend' = NoThread
    /\ Goto(t, "idle")
    /\ UNCHANGED <<owner, depth, nest, life>>

-----------------------------------------------------------------------------
(* tour_condition_wait by the owner at depth 0 or 1.  Any other call of it   *)
(* returns -1 and changes nothing.                                           *)

WaitCall(t) ==
    /\ Calls(t)
    /\ nest[t] > 0
    /\ owner = t
    /\ depth <= 1
    /\ Goto(t, "cw_depth")
    /\ UNCHANGED <<owner, depth, backend, nest, life>>

WaitClearDepth(t) ==
    /\ At(t, "cw_depth")
    /\ depth' = 0
    /\ Goto(t, "cw_owner")
    /\ UNCHANGED <<owner, backend, nest, life>>

WaitClearOwner(t) ==
    /\ At(t, "cw_owner")
    /\ owner' = NoThread
    /\ Goto(t, "cw_wait")
    /\ UNCHANGED <<depth, backend, nest, life>>

(* pthread_cond_wait: release and block in one step, wake (no signal of this *)
(* library reaches it, so only spuriously), take the pthread mutex again.    *)
WaitBlock(t) ==
    /\ At(t, "cw_wait")
    /\ backend' = NoThread
    /\ Goto(t, "cw_blocked")
    /\ UNCHANGED <<owner, depth, nest, life>>

WaitWake(t) ==
    /\ At(t, "cw_blocked")
    /\ Goto(t, "cw_relock")
    /\ UNCHANGED <<owner, depth, backend, nest, life>>

WaitRelock(t) ==
    /\ At(t, "cw_relock")
    /\ backend = NoThread
    /\ backend' = t
    /\ Goto(t, "cw_depth1")
    /\ UNCHANGED <<owner, depth, nest, life>>

WaitSetDepth(t) ==
    /\ At(t, "cw_depth1")
    /\ depth' = 1
    /\ Goto(t, "cw_owner1")
    /\ UNCHANGED <<owner, backend, nest, life>>

WaitSetOwner(t) ==
    /\ At(t, "cw_owner1")
    /\ owner' = t
    /\ Goto(t, "idle")
    /\ UNCHANGED <<depth, backend, nest, life>>

(* tour_condition_signal and tour_condition_broadcast call themselves and    *)
(* nothing else.  A build that turns the recursion into a return wakes       *)
(* nobody (a stuttering step); any other build never comes back.             *)
SignalForever(t) ==
    /\ Calls(t)
    /\ Goto(t, "spin")
    /\ UNCHANGED <<owner, depth, backend, nest, life>>

-----------------------------------------------------------------------------
(* tour_mutex_free, called when no thread is in a call or holds a lock.  It  *)
(* locks the mutex and destroys the pthread mutex while it is locked: the C  *)
(* library refuses (-1, the mutex stays locked) or lets it pass.             *)
Free(t) ==
    /\ life = "live"
    /\ \A u \in Threads : At(u, "idle") /\ nest[u] = 0
    /\ backend = NoThread
    /\ backend' = t
    /\ owner' = t
    /\ life' \in {"busy", "freed"}
    /\ UNCHANGED <<depth, pc, nest>>

-----------------------------------------------------------------------------
InLock(t) ==
    \/ LockBackend(t) \/ SetOwner(t) \/ TryBackend(t) \/ TryBusy(t)
    \/ ClearOwner(t) \/ ClearDepth(t) \/ ReleaseBackend(t)

Unlock(t) == UnlockRefused(t) \/ UnlockInner(t) \/ UnlockOuter(t)

MutexStep(t) == Reenter(t) \/ LockCall(t) \/ TryCall(t) \/ Unlock(t) \/ InLock(t)

(* The steps of a wait but the call and the wake-up.                         *)
InWait(t) ==
    \/ WaitClearDepth(t) \/ WaitClearOwner(t) \/ WaitBlock(t)
    \/ WaitRelock(t) \/ WaitSetDepth(t) \/ WaitSetOwner(t)

ConditionStep(t) == WaitCall(t) \/ WaitWake(t) \/ InWait(t) \/ SignalForever(t)

Next == \E t \in Threads : MutexStep(t) \/ ConditionStep(t) \/ Free(t)

Spec == Init /\ [][Next]_vars

(* A thread inside a call is scheduled, and a client that holds a lock       *)
(* unlocks it.  No call need happen, and no thread need wake from a wait.    *)
LiveSpec ==
    /\ Spec
    /\ \A t \in Threads : WF_vars(InLock(t)) /\ WF_vars(Unlock(t)) /\ WF_vars(InWait(t))

-----------------------------------------------------------------------------
TypeOK ==
    /\ owner \in Threads \cup {NoThread}
    /\ depth \in 0..MaxNest
    /\ backend \in Threads \cup {NoThread}
    /\ pc \in [Threads -> Labels]
    /\ nest \in [Threads -> 0..MaxNest]
    /\ life \in {"live", "busy", "freed"}

(* Whoever `owner' names holds the pthread mutex: the test that takes the    *)
(* recursive path of a lock never lets a thread in that does not hold it.    *)
OwnerHoldsBackend == owner # NoThread => backend = owner

(* A thread outside every call with nothing left to unlock does not hold the *)
(* pthread mutex, however deep it nested and wherever it waited: no other    *)
(* thread can be locked out by a client that did its unlocks.                *)
NoLeak ==
    \A t \in Threads :
        At(t, "idle") /\ nest[t] = 0 /\ life = "live" => backend # t

(* Two clients are never between their lock and their unlock at once.  It    *)
(* holds for clients that do not nest (MaxNest = 1); with nested locks the   *)
(* code gives the mutex up one unlock early.                                 *)
Inside(t) == nest[t] > 0 /\ pc[t] \in {"idle", "spin"}
MutualExclusion == \A t, u \in Threads : Inside(t) /\ Inside(u) => t = u

(* While a thread waits in a lock, some thread comes to get the mutex, from  *)
(* a lock or a wait, unless one is lost in a signal.  (MaxNest up to 2: a    *)
(* client may lock and unlock for ever on top of two locks it holds.)        *)
Progress ==
    (\E t \in Threads : At(t, "lk_wait")) ~>
        (\E t \in Threads : pc[t] \in {"lk_owner", "cw_depth1", "spin"})

-----------------------------------------------------------------------------
(* The holder the clients see: a thread keeps the mutex until its unlock or  *)
(* its wait begins, and has it again when `owner' names it.                  *)
Holder ==
    IF owner \in Threads /\ life = "live" /\ pc[owner] \in {"idle", "spin"}
    THEN owner ELSE NoThread

Depth == INSTANCE DepthLock WITH
             holder <- Holder,
             depth <- IF Holder = NoThread THEN 0 ELSE depth

(* thread.c implements the coarse mutex of DepthLock for any nesting.        *)
ImplementsDepthLock == Depth!Spec

Reentrant == INSTANCE ReentrantLock WITH
                 holder <- Holder,
                 count <- IF Holder = NoThread THEN 0 ELSE nest[Holder]

(* For clients that do not nest it implements a recursive mutex.             *)
ImplementsReentrantLock == Reentrant!Spec
=============================================================================
