------------------------------ MODULE Dispatch ------------------------------
(* Dispatch tables and class initialisation in messaging.c: the first        *)
(* message to a class prepares its table from its superclass's, sends        *)
(* +initialize, and installs the table; adding methods to a class rebuilds   *)
(* its table and its subclasses'.  A +initialize may send messages and add   *)
(* methods itself, so every thread has a stack of calls, one step of a call  *)
(* at a time.                                                                *)
(*                                                                           *)
(* A node is a class or a metaclass: both have a table.  One selector stands *)
(* for all, so a table is what it holds for that selector; tables copied     *)
(* from one another are values (Sarray!LazyCopyIsCopy).  Classes come with   *)
(* their links resolved.  An assertion that fails ends the program.          *)
EXTENDS RuntimeLock, Sequences, FiniteSets

CONSTANTS Nodes,        \* classes and metaclasses
          NoNode,       \* Nil
          Super,        \* super_class of each node
          ClassOf,      \* the class of a metaclass's name; a class is its own
          Calls         \* bounds the calls all threads' programs make

Classes == {n \in Nodes : ClassOf[n] = n}

ASSUME NodesAssumption == /\ NoNode \notin Nodes
                          /\ Super \in [Nodes -> Nodes \cup {NoNode}]
                          /\ ClassOf \in [Nodes -> Classes]
(* No class is above itself: what searches the hierarchy comes to its end.   *)
ASSUME HierarchyAssumption ==
    \A S \in SUBSET Nodes : S # {} => \E n \in S : Super[n] \notin S
ASSUME CallsAssumption == Calls \in Nat

VARIABLES dtable,       \* each node's table, or Uninstalled
          prepared,     \* prepared_dtable_table: the chain of entries of a node
          own,          \* how many method lists a node has
          initialized,  \* the INITIALIZED bit of a class
          started,      \* how often +initialize was sent to a class
          finished,     \* the classes whose +initialize has returned
          stale,        \* nodes whose table was prepared anew before it was
                        \* installed: copies of the first are not rebuilt
          stack,        \* the calls each thread is in, innermost first
          calls,        \* calls the threads' programs have yet to make
          aborted       \* the line of the assertion that failed, or 0

tables == <<dtable, prepared, stale>>
classes == <<own, initialized, started, finished>>
vars == <<tables, classes, stack, calls, aborted, mutex, lock>>

Uninstalled == <<>>             \* __tour_uninstalled_dtable holds nothing
NoImp == <<NoNode, 0>>          \* a table without the method
Imp(n) == <<n, own[n]>>         \* the method of a node's newest list

(* search_for_method_in_hierarchy: the newest list of the nearest node that  *)
(* has one, when each node has so many lists.                                *)
SearchIn(lists) ==
    LET search[n \in Nodes] ==
            IF lists[n] > 0 THEN <<n, lists[n]>>
            ELSE IF Super[n] = NoNode THEN NoImp ELSE search[Super[n]]
    IN  search
Search == SearchIn(own)

(* A node is below itself.                                                   *)
Below(n) == {m \in Nodes : LET up[k \in Nodes] == k = n \/ (Super[k] # NoNode /\ up[Super[k]])
                          IN  up[m]}

(* No class above n changed in the course of its own +initialize: the copies *)
(* of its first table are not rebuilt.                                       *)
Rebuilt(n) == \A m \in stale : n \notin Below(m) \ {m}

Init ==
    /\ dtable = [n \in Nodes |-> Uninstalled]
    /\ prepared = [n \in Nodes |-> <<>>]
    /\ own = [n \in Nodes |-> 0]
    /\ initialized = {}
    /\ started = [c \in Classes |-> 0]
    /\ finished = {}
    /\ stale = {}
    /\ stack = [t \in Threads |-> <<>>]
    /\ calls = Calls
    /\ aborted = 0
    /\ LockInit

-----------------------------------------------------------------------------
(* Freeing or growing a sparse array may have blocks for                     *)
(* sarray_free_garbage, which locks and unlocks.                             *)
MayDiscard(t) == UNCHANGED lock \/ LockUnlock(t)

(* Calls and returns.                                                        *)
Frame(at, n) == [at |-> at, node |-> n, rest |-> {}, since |-> <<>>, got |-> <<>>]
Top(t) == Head(stack[t])
At(t, at) == stack[t] # <<>> /\ Top(t).at = at
Node(t) == Top(t).node
Above(t) == Super[Node(t)]
Goto(t, at) == stack' = [stack EXCEPT ![t][1].at = at]
Return(t) == stack' = [stack EXCEPT ![t] = Tail(@)]
Call(t, at, n, back) ==
    stack' = [stack EXCEPT ![t] = <<Frame(at, n), [Top(t) EXCEPT !.at = back]>> \o Tail(@)]

Frames(t) == {stack[t][i] : i \in 1..Len(stack[t])}
InCall(t, at) == \E f \in Frames(t) : f.at \in at
Updating == \E t \in Threads : InCall(t, {"am_link", "up_lock", "up_test", "up_subs", "up_unlock"})

Installed(n) == dtable[n] # Uninstalled
Prepared(n) == prepared[n] # <<>>

(* A lookup has found imp.                                                   *)
Found(t, imp) == stack' = [stack EXCEPT ![t][1].at = "answered", ![t][1].got = imp]

(* assert at a line of messaging.c: when it fails the program ends, whatever *)
(* the step does otherwise.                                                  *)
Assert(condition, line) == aborted' = IF condition THEN 0 ELSE line

-----------------------------------------------------------------------------
(* Faulty forms of steps below: each must break a property.                  *)

(* get_implementation does not look at the class again under the lock.       *)
FirstMessageUnchecked(t) ==
    /\ \/ At(t, "gi_test") /\ Call(t, "in_super", Node(t), "gi_after")
       \/ At(t, "rt_test") /\ Call(t, "in_super", Node(t), "rt_after")
    /\ UNCHANGED <<tables, classes, calls, lock, aborted>>

(* The prepared table is installed without +initialize.                      *)
InstallUninitialized(t) ==
    /\ At(t, "in_prepared")
    /\ IF Prepared(Node(t)) THEN Return(t)
       ELSE Call(t, "pr_start", Node(t), "in_install")
    /\ UNCHANGED <<tables, classes, calls, lock, aborted>>

(* The INITIALIZED bit is not set before +initialize runs.                   *)
InitializeUnmarked(t) ==
    /\ At(t, "si_set")
    /\ IF Above(t) # NoNode THEN Call(t, "si_test", Above(t), "si_register")
       ELSE Goto(t, "si_register")
    /\ UNCHANGED <<tables, classes, calls, lock, aborted>>

(* New methods of a class in its +initialize do not reach its table.         *)
UpdateSkipsPrepared(t) ==
    /\ At(t, "up_test")
    /\ ~Installed(Node(t))
    /\ Goto(t, "up_unlock")
    /\ UNCHANGED <<tables, classes, calls, lock, aborted>>

(* The subclasses are not updated.                                           *)
UpdateAlone(t) ==
    /\ At(t, "up_test")
    /\ Installed(Node(t))
    /\ dtable' = [dtable EXCEPT ![Node(t)] = Uninstalled]
    /\ stale' = stale \ {Node(t)}
    /\ Call(t, "in_super", Node(t), "up_unlock")
    /\ UNCHANGED <<prepared, classes, calls, lock, aborted>>

(* A return without the unlock.                                              *)
UpdateKeepsLock(t) ==
    /\ At(t, "up_unlock") \/ (At(t, "up_subs") /\ Top(t).rest = {})
    /\ Return(t)
    /\ UNCHANGED <<tables, classes, calls, lock, aborted>>

-----------------------------------------------------------------------------
(* tour_msg_lookup and get_imp read the table of class n once; when it has   *)
(* no method there, get_implementation reads it again and tests it, and      *)
(* reads it a third time, whatever it is by then.  What has no method is     *)
(* forwarded.                                                                *)
LookFast(t) ==
    /\ At(t, "gi_fast")
    /\ IF Installed(Node(t)) /\ dtable[Node(t)] # NoImp THEN Found(t, dtable[Node(t)])
       ELSE Goto(t, "gi_read")
    /\ UNCHANGED <<tables, classes, calls, lock, aborted>>

LookInstalled(t) ==
    /\ At(t, "gi_read")
    /\ Installed(Node(t))
    /\ Goto(t, "gi_load")
    /\ UNCHANGED <<tables, classes, calls, lock, aborted>>

LookLoad(t) ==
    /\ At(t, "gi_load")
    /\ Found(t, IF Installed(Node(t)) THEN dtable[Node(t)] ELSE NoImp)
    /\ UNCHANGED <<tables, classes, calls, lock, aborted>>

(* __tour_responds_to reads the table once and tests and searches what it    *)
(* read.                                                                     *)
RespondsInstalled(t) ==
    /\ At(t, "rt_read")
    /\ Installed(Node(t))
    /\ Found(t, dtable[Node(t)])
    /\ UNCHANGED <<tables, classes, calls, lock, aborted>>

LookUninstalled(t) ==
    /\ \/ At(t, "gi_read") /\ Goto(t, "gi_lock")
       \/ At(t, "rt_read") /\ Goto(t, "rt_lock")
    /\ ~Installed(Node(t))
    /\ UNCHANGED <<tables, classes, calls, lock, aborted>>

LookLocked(t) ==
    /\ \/ At(t, "gi_lock") /\ Goto(t, "gi_test")
       \/ At(t, "rt_lock") /\ Goto(t, "rt_test")
    /\ Lock(t)
    /\ UNCHANGED <<tables, classes, calls, aborted>>

(* Under the lock the class is looked at again.                              *)
FirstMessage(t) ==
    /\ \/ At(t, "gi_test") /\ Call(t, "in_super", Node(t), "gi_after")
       \/ At(t, "rt_test") /\ Call(t, "in_super", Node(t), "rt_after")
    /\ ~Installed(Node(t))
    /\ UNCHANGED <<tables, classes, calls, lock, aborted>>

(* Installed by now: get_implementation unlocks and starts over,             *)
(* __tour_responds_to unlocks and reads the table it found.                  *)
LookAgain(t) ==
    /\ \/ (At(t, "gi_test") \/ At(t, "gi_after")) /\ Goto(t, "gi_read")
       \/ (At(t, "rt_test") \/ At(t, "rt_after")) /\ Found(t, dtable[Node(t)])
    /\ Installed(Node(t))
    /\ Unlock(t)
    /\ UNCHANGED <<tables, classes, calls, aborted>>

(* The class is in the middle of its +initialize.  __tour_get_prepared_imp   *)
(* asserts that the prepared table is the uninstalled one, which it never    *)
(* is; __tour_responds_to reads the prepared table.                          *)
LookPrepared(t) ==
    /\ \/ /\ At(t, "gi_after")
          /\ Assert(FALSE, IF Prepared(Node(t)) THEN 615 ELSE 110)
          /\ Return(t)
       \/ /\ At(t, "rt_after")
          /\ Assert(Prepared(Node(t)), 155)
          /\ Found(t, IF Prepared(Node(t)) THEN Head(prepared[Node(t)]) ELSE NoImp)
    /\ ~Installed(Node(t))
    /\ Unlock(t)
    /\ UNCHANGED <<tables, classes, calls>>

(* The implementation is called, or the answer given.                        *)
Answer(t) ==
    /\ At(t, "answered")
    /\ Return(t)
    /\ UNCHANGED <<tables, classes, calls, lock, aborted>>

-----------------------------------------------------------------------------
(* __tour_install_dtable_for_class.                                          *)
InstallSuper(t) ==
    /\ At(t, "in_super")
    /\ IF Above(t) # NoNode /\ ~Installed(Above(t)) /\ ~Prepared(Above(t))
       THEN Call(t, "in_super", Above(t), "in_check")
       ELSE Goto(t, "in_prepared")
    /\ UNCHANGED <<tables, classes, calls, lock, aborted>>

(* The superclass's +initialize may have installed this class.               *)
InstallCheck(t) ==
    /\ At(t, "in_check")
    /\ IF Installed(Node(t)) THEN Return(t) ELSE Goto(t, "in_prepared")
    /\ UNCHANGED <<tables, classes, calls, lock, aborted>>

InstallPrepare(t) ==
    /\ At(t, "in_prepared")
    /\ IF Prepared(Node(t)) THEN Return(t)
       ELSE Call(t, "pr_start", Node(t), "in_init")
    /\ UNCHANGED <<tables, classes, calls, lock, aborted>>

InstallInitialize(t) ==
    /\ At(t, "in_init")
    /\ Call(t, "si_test", ClassOf[Node(t)], "in_install")
    /\ UNCHANGED <<tables, classes, calls, lock, aborted>>

(* __tour_install_prepared_dtable_for_class.                                 *)
InstallPrepared(t) ==
    /\ At(t, "in_install")
    /\ LET n == Node(t) IN
       /\ Assert(~Installed(n) /\ Prepared(n), IF Installed(n) THEN 626 ELSE 630)
       /\ dtable' = [dtable EXCEPT ![n] = IF Prepared(n) THEN Head(prepared[n]) ELSE @]
       /\ prepared' = [prepared EXCEPT ![n] = IF Prepared(n) THEN Tail(@) ELSE @]
    /\ Return(t)
    /\ UNCHANGED <<stale, classes, calls, lock>>

-----------------------------------------------------------------------------
(* __tour_prepare_dtable_for_class: an entry the class has is dropped and    *)
(* its table freed.                                                          *)
PrepareStart(t) ==
    /\ At(t, "pr_start")
    /\ LET n == Node(t) IN
       /\ Assert(~Installed(n), 559)
       /\ prepared' = [prepared EXCEPT ![n] = IF Prepared(n) THEN Tail(@) ELSE @]
       /\ stale' = IF Prepared(n) THEN stale \cup {n} ELSE stale
       /\ IF Prepared(n) THEN MayDiscard(t) ELSE UNCHANGED lock
    /\ Goto(t, "pr_super")
    /\ UNCHANGED <<dtable, classes, calls>>

PrepareSuper(t) ==
    /\ At(t, "pr_super")
    /\ IF Above(t) # NoNode /\ ~Installed(Above(t))
       THEN Call(t, "in_super", Above(t), "pr_copy")
       ELSE Goto(t, "pr_copy")
    /\ UNCHANGED <<tables, classes, calls, lock, aborted>>

(* The table of the superclass, installed or prepared: copied, and with the  *)
(* methods of the class put in.                                              *)
HasTable(n) == Installed(n) \/ Prepared(n)
TableOf(n) == IF Installed(n) THEN dtable[n] ELSE Head(prepared[n])
NewTable(n) ==
    IF own[n] > 0 THEN Imp(n)
    ELSE IF Super[n] \in Nodes /\ HasTable(Super[n]) THEN TableOf(Super[n])
    ELSE NoImp

PrepareCopy(t) ==
    /\ At(t, "pr_copy")
    /\ Assert(Above(t) \in Nodes => HasTable(Above(t)), 577)
    /\ prepared' = [prepared EXCEPT ![Node(t)] = <<NewTable(Node(t))>> \o @]
    /\ MayDiscard(t)
    /\ Return(t)
    /\ UNCHANGED <<dtable, stale, classes, calls>>

-----------------------------------------------------------------------------
(* __tour_send_initialize.  The test of the INITIALIZED bit and its setting  *)
(* are two steps.                                                            *)
InitializeTest(t) ==
    /\ At(t, "si_test")
    /\ IF Node(t) \in initialized THEN Return(t) ELSE Goto(t, "si_set")
    /\ UNCHANGED <<tables, classes, calls, lock, aborted>>

InitializeSet(t) ==
    /\ At(t, "si_set")
    /\ initialized' = initialized \cup {Node(t)}
    /\ IF Above(t) # NoNode THEN Call(t, "si_test", Above(t), "si_register")
       ELSE Goto(t, "si_register")
    /\ UNCHANGED <<tables, own, started, finished, calls, lock, aborted>>

(* sel_register_name( "initialize" ).                                        *)
InitializeRegister(t) ==
    /\ At(t, "si_register")
    /\ LockUnlock(t)
    /\ Goto(t, "si_send")
    /\ UNCHANGED <<tables, classes, calls, aborted>>

InitializeSend(t) ==
    /\ At(t, "si_send")
    /\ started' = [started EXCEPT ![Node(t)] = @ + 1]
    /\ Goto(t, "si_body")
    /\ UNCHANGED <<tables, own, initialized, finished, calls, lock, aborted>>

InitializeDone(t) ==
    /\ At(t, "si_body")
    /\ finished' = finished \cup {Node(t)}
    /\ Return(t)
    /\ UNCHANGED <<tables, own, initialized, started, calls, lock, aborted>>

-----------------------------------------------------------------------------
(* Class_add_method_list registers the selectors, links the list without the *)
(* lock, and goes on with __tour_update_dispatch_table_for_class.            *)
LinkMethods(t) ==
    /\ At(t, "am_link")
    /\ LockUnlock(t)
    /\ own' = [own EXCEPT ![Node(t)] = @ + 1]
    /\ Goto(t, "up_lock")
    /\ UNCHANGED <<tables, initialized, started, finished, calls, aborted>>

UpdateLock(t) ==
    /\ At(t, "up_lock")
    /\ Lock(t)
    /\ Goto(t, "up_test")
    /\ UNCHANGED <<tables, classes, calls, aborted>>

(* Not installed: at most the prepared table is made anew.                   *)
UpdatePrepared(t) ==
    /\ At(t, "up_test")
    /\ ~Installed(Node(t))
    /\ IF Prepared(Node(t)) THEN Call(t, "pr_start", Node(t), "up_unlock")
       ELSE Goto(t, "up_unlock")
    /\ UNCHANGED <<tables, classes, calls, lock, aborted>>

(* Installed: the table is freed and installed anew, then the subclasses'.   *)
UpdateInstalled(t) ==
    /\ At(t, "up_test")
    /\ Installed(Node(t))
    /\ LET n == Node(t) IN
       /\ dtable' = [dtable EXCEPT ![n] = Uninstalled]
       /\ stale' = stale \ {n}
       /\ stack' = [stack EXCEPT ![t] =
              <<Frame("in_super", n),
                [Top(t) EXCEPT !.at = "up_subs", !.rest = {m \in Nodes : Super[m] = n}]>>
              \o Tail(@)]
       /\ MayDiscard(t)
    /\ UNCHANGED <<prepared, classes, calls, aborted>>

UpdateSubclass(t) ==
    /\ At(t, "up_subs")
    /\ \E m \in Top(t).rest :
           stack' = [stack EXCEPT ![t] =
               <<Frame("up_lock", m), [Top(t) EXCEPT !.rest = @ \ {m}]>> \o Tail(@)]
    /\ UNCHANGED <<tables, classes, calls, lock, aborted>>

UpdateUnlock(t) ==
    /\ At(t, "up_unlock") \/ (At(t, "up_subs") /\ Top(t).rest = {})
    /\ Unlock(t)
    /\ Return(t)
    /\ UNCHANGED <<tables, classes, calls, aborted>>

-----------------------------------------------------------------------------
(* What a program does outside a call, and inside a +initialize: a message   *)
(* to an object, or a class, whose table is n's; a test with responds_to;    *)
(* Class_add_method_list.                                                    *)
MayCall(t) ==
    /\ stack[t] = <<>> \/ At(t, "si_body")
    /\ calls > 0
    /\ calls' = calls - 1

Enter(t, frame) == stack' = [stack EXCEPT ![t] = <<frame>> \o @]

(* A lookup remembers the lists there were when it began, unless some update *)
(* was under way or the class may be behind.                                 *)
LookupFrame(at, n) ==
    [Frame(at, n) EXCEPT !.since = IF Updating \/ ~Rebuilt(n) THEN <<>> ELSE own]

Message(t, n) ==
    /\ MayCall(t)
    /\ Enter(t, LookupFrame("gi_fast", n))
    /\ UNCHANGED <<tables, classes, lock, aborted>>

RespondsTo(t, n) ==
    /\ MayCall(t)
    /\ Enter(t, LookupFrame("rt_read", n))
    /\ UNCHANGED <<tables, classes, lock, aborted>>

AddMethods(t, n) ==
    /\ MayCall(t)
    /\ Enter(t, Frame("am_link", n))
    /\ UNCHANGED <<tables, classes, lock, aborted>>

-----------------------------------------------------------------------------
Lookup(t) ==
    \/ LookFast(t) \/ LookInstalled(t) \/ LookLoad(t) \/ RespondsInstalled(t)
    \/ LookUninstalled(t) \/ LookLocked(t) \/ FirstMessage(t) \/ LookAgain(t)
    \/ LookPrepared(t) \/ Answer(t)
Install(t) ==
    \/ InstallSuper(t) \/ InstallCheck(t) \/ InstallPrepare(t)
    \/ InstallInitialize(t) \/ InstallPrepared(t)
Prepare(t) == PrepareStart(t) \/ PrepareSuper(t) \/ PrepareCopy(t)
SendInitialize(t) ==
    \/ InitializeTest(t) \/ InitializeSet(t) \/ InitializeRegister(t)
    \/ InitializeSend(t) \/ InitializeDone(t)
Update(t) ==
    \/ LinkMethods(t) \/ UpdateLock(t) \/ UpdatePrepared(t) \/ UpdateInstalled(t)
    \/ UpdateSubclass(t) \/ UpdateUnlock(t)

Step(t) ==
    /\ aborted = 0
    /\ UNCHANGED mutex
    /\ Lookup(t) \/ Install(t) \/ Prepare(t) \/ SendInitialize(t) \/ Update(t)

(* A program may send anything to anyone.                                    *)
AnyCall(t) ==
    /\ aborted = 0
    /\ UNCHANGED mutex
    /\ \E n \in Nodes : Message(t, n) \/ RespondsTo(t, n) \/ AddMethods(t, n)

Next == \E t \in Threads : Step(t) \/ AnyCall(t)
Spec == Init /\ [][Next]_vars

(* A careful program's +initialize sends no message to a class that is still *)
(* being initialized: LookPrepared would end the program.                    *)
CarefulCall(t) ==
    /\ aborted = 0
    /\ UNCHANGED mutex
    /\ \E n \in Nodes :
        \/ Message(t, n) /\ (stack[t] = <<>> \/ ~Prepared(n))
        \/ RespondsTo(t, n)
        \/ AddMethods(t, n)

CarefulNext == \E t \in Threads : Step(t) \/ CarefulCall(t)
CarefulSpec ==
    /\ Init
    /\ [][CarefulNext]_vars
    /\ \A t \in Threads : WF_vars(Step(t))

-----------------------------------------------------------------------------
Initializing(t, c) ==
    \E f \in Frames(t) :
        f.node = c /\ f.at \in {"si_set", "si_register", "si_send", "si_body"}

(* No assertion of messaging.c fails.                                        *)
AssertionsHold == aborted = 0

(* The two parts of it that other runs refute: the assertion that guards a   *)
(* lookup in a prepared table (messaging.c 615), and the ones that say a     *)
(* class is uninstalled until its prepared table is put in (559, 626, 630).  *)
PreparedLookupAssertion == aborted # 615
InstallAssertions == aborted \notin {559, 626, 630}

(* A class gets its +initialize at most once, whoever messages it first and  *)
(* whatever the +initialize of its superclass sends.                         *)
InitializedOnce == \A c \in Classes : started[c] <= 1

(* No object of a class answers through an installed table before            *)
(* initialization of the class is done or under way in some thread.          *)
InstalledIsInitialized ==
    \A n \in Nodes :
        Installed(n) => \/ ClassOf[n] \in finished
                        \/ \E t \in Threads : Initializing(t, ClassOf[n])

(* Between updates an installed table finds the method that a search of the  *)
(* class hierarchy finds: no subclass keeps a method its superclass replaced.*)
(* It excepts the classes below one that got methods in the course of its    *)
(* own +initialize.                                                          *)
TablesAgree ==
    ~Updating =>
        \A n \in Nodes : Installed(n) /\ Rebuilt(n) => dtable[n] = Search[n]

(* What a message or a test finds is at least as new as the methods of every *)
(* update that had ended when it began, whatever other threads update in     *)
(* the meantime; only an update in the meantime may make the class forward   *)
(* a message it understands.  A method of a nearer class is newer.           *)
AsNewAs(imp, floor) ==
    \/ floor = NoImp
    \/ imp[1] = floor[1] /\ imp[2] >= floor[2]
    \/ imp # NoImp /\ imp[1] # floor[1] /\ imp[1] \in Below(floor[1])

LookupsSeeUpdates ==
    \A t \in Threads :
        At(t, "answered") /\ Top(t).since # <<>> =>
            \/ AsNewAs(Top(t).got, SearchIn(Top(t).since)[Node(t)])
            \/ Top(t).got = NoImp /\ own # Top(t).since

(* When every thread is back in its program, nothing is half done: no table  *)
(* is left prepared, every class begun is finished, and the lock is free.    *)
NothingHalfDone ==
    (\A t \in Threads : stack[t] = <<>>) =>
        /\ \A n \in Nodes : ~Prepared(n)
        /\ initialized = finished
        /\ holder = NoThread

(* Every message, test and update comes to its end.                          *)
EveryCallReturns ==
    \A t \in Threads : (stack[t] # <<>>) ~> (stack[t] = <<>>)
=============================================================================
