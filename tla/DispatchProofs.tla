--------------------------- MODULE DispatchProofs ---------------------------
(* Proofs about Dispatch.  A thread's stack is read from its outermost call, *)
(* which is level 1, so that calls and returns leave the levels below alone. *)
EXTENDS Dispatch, RuntimeLockProofs, FiniteSetTheorems

Level(s, k) == s[Len(s) + 1 - k]
Levels(s) == 1..Len(s)

(* The lines a call can be at: outside the lock, under it, and in the        *)
(* methods that are only called under it.                                    *)
Looking == {"gi_fast", "gi_read", "gi_load", "gi_lock", "rt_read", "rt_lock", "answered"}
Linking == {"am_link", "up_lock"}
Locked == {"gi_test", "gi_after", "rt_test", "rt_after", "up_test", "up_subs", "up_unlock"}
Installing == {"in_super", "in_check", "in_prepared", "in_init", "in_install"}
Preparing == {"pr_start", "pr_super", "pr_copy"}
Sending == {"si_test", "si_set", "si_register", "si_send", "si_body"}
Inner == Installing \cup Preparing \cup Sending
Labels == Looking \cup Linking \cup Locked \cup Inner

Tables == {<<n, k>> : n \in Nodes \cup {NoNode}, k \in Nat}
FrameType ==
    [at : Labels, node : Nodes, rest : SUBSET Nodes,
     since : [Nodes -> Nat] \cup {<<>>}, got : Tables \cup {Uninstalled}]

TypeOK ==
    /\ dtable \in [Nodes -> Tables \cup {Uninstalled}]
    /\ prepared \in [Nodes -> Seq(Tables)]
    /\ own \in [Nodes -> Nat]
    /\ initialized \subseteq Nodes /\ finished \subseteq Nodes /\ stale \subseteq Nodes
    /\ started \in [Classes -> Nat]
    /\ stack \in [Threads -> Seq(FrameType)]
    /\ calls \in Nat /\ aborted \in Nat
    /\ LockTypeOK

-----------------------------------------------------------------------------
(* What a step does to the stack s of its thread.                            *)
Moves(s, r, f) ==
    /\ Len(r) = Len(s) /\ Len(s) > 0
    /\ \A k \in 1..(Len(s) - 1) : Level(r, k) = Level(s, k)
    /\ Level(r, Len(s)) = f
Pushes(s, r, f, g) ==
    /\ Len(r) = Len(s) + 1 /\ Len(s) > 0
    /\ \A k \in 1..(Len(s) - 1) : Level(r, k) = Level(s, k)
    /\ Level(r, Len(s)) = f /\ Level(r, Len(s) + 1) = g
Pops(s, r) ==
    /\ Len(r) = Len(s) - 1 /\ Len(s) > 0
    /\ \A k \in 1..(Len(s) - 1) : Level(r, k) = Level(s, k)
Enters(s, r, g) ==
    /\ Len(r) = Len(s) + 1
    /\ \A k \in 1..Len(s) : Level(r, k) = Level(s, k)
    /\ Level(r, Len(s) + 1) = g

(* The head of a stack is its highest level.                                 *)
LEMMA HeadIs ==
  ASSUME NEW S, NEW s \in Seq(S), s # <<>>
  PROVE  /\ Len(s) \in Nat /\ Len(s) > 0 /\ Head(s) = Level(s, Len(s)) /\ Head(s) = s[1]
         /\ Head(s) \in S
  BY DEF Level

(* Every level holds a frame.                                                *)
LEMMA LevelTyped ==
  ASSUME NEW S, NEW s \in Seq(S), NEW k \in Levels(s)
  PROVE  Level(s, k) \in S
  BY DEF Level, Levels

(* A new head is a new highest level.                                        *)
LEMMA MovesBy ==
  ASSUME NEW S, NEW s \in Seq(S), s # <<>>, NEW f \in S, NEW r, r = [s EXCEPT ![1] = f]
  PROVE  r \in Seq(S) /\ Moves(s, r, f)
  BY DEF Level, Moves

(* Two heads for one are a level changed and one added.                      *)
LEMMA PushesBy ==
  ASSUME NEW S, NEW s \in Seq(S), s # <<>>, NEW f \in S, NEW g \in S,
         NEW r, r = <<g, f>> \o Tail(s)
  PROVE  r \in Seq(S) /\ Pushes(s, r, f, g)
  BY DEF Level, Pushes

(* The tail is the stack without its highest level.                          *)
LEMMA PopsBy ==
  ASSUME NEW S, NEW s \in Seq(S), s # <<>>
  PROVE  Tail(s) \in Seq(S) /\ Pops(s, Tail(s))
  BY DEF Level, Pops

(* A frame put in front is a level added.                                    *)
LEMMA EntersBy ==
  ASSUME NEW S, NEW s \in Seq(S), NEW g \in S, NEW r, r = <<g>> \o s
  PROVE  r \in Seq(S) /\ Enters(s, r, g)
  BY DEF Level, Enters

-----------------------------------------------------------------------------
(* The same for the operators that the actions are written with.             *)
OfThread(t) ==
    /\ stack' \in [Threads -> Seq(FrameType)]
    /\ \A u \in Threads \ {t} : stack'[u] = stack[u]

(* A frame that is called anew.                                              *)
LEMMA FrameTyped ==
  ASSUME NEW l \in Labels, NEW n \in Nodes
  PROVE  /\ Frame(l, n) \in FrameType /\ Frame(l, n).at = l
         /\ Frame(l, n).node = n /\ Frame(l, n).since = <<>>
  BY DEF Frame, FrameType, Uninstalled

(* A frame of an update that has nodes left to do.                           *)
LEMMA FrameChanged ==
  ASSUME NEW h \in FrameType, NEW rest \in SUBSET Nodes
  PROVE  LET f == [h EXCEPT !.at = "up_subs", !.rest = rest] IN
         /\ f \in FrameType /\ f.at = "up_subs" /\ f.node = h.node
         /\ f.rest = rest /\ f.since = h.since
<1>1. "up_subs" \in Labels
  BY DEF Labels, Locked
<1> QED
  BY <1>1 DEF FrameType

(* One thread's stack takes the place of another.                            *)
LEMMA StackIs ==
  ASSUME stack \in [Threads -> Seq(FrameType)], NEW t \in Threads,
         NEW r \in Seq(FrameType), stack' = [stack EXCEPT ![t] = r]
  PROVE  OfThread(t) /\ stack'[t] = r
  BY DEF OfThread

(* Going on to line l changes where the highest level is at, and nothing     *)
(* else of it.                                                               *)
LEMMA GotoMoves ==
  ASSUME stack \in [Threads -> Seq(FrameType)], NEW t \in Threads, stack[t] # <<>>,
         NEW l \in Labels, Goto(t, l)
  PROVE  /\ OfThread(t)
         /\ \E f \in FrameType :
              /\ Moves(stack[t], stack'[t], f)
              /\ f.at = l /\ f.node = Node(t) /\ f.rest = Top(t).rest
              /\ f.since = Top(t).since
<1>1. stack[t] \in Seq(FrameType) /\ Top(t) \in FrameType /\ Top(t) = stack[t][1]
  BY HeadIs DEF Top
<1>2. PICK f : f = [Top(t) EXCEPT !.at = l]
  OBVIOUS
<1>3. /\ f \in FrameType /\ f.at = l /\ f.node = Node(t) /\ f.rest = Top(t).rest
      /\ f.since = Top(t).since
  BY <1>1, <1>2 DEF FrameType, Node
<1>4. PICK r : r = [stack[t] EXCEPT ![1] = f]
  OBVIOUS
<1>5. stack' = [stack EXCEPT ![t] = r]
  BY <1>1, <1>2, <1>4 DEF Goto
<1>6. r \in Seq(FrameType) /\ Moves(stack[t], r, f)
  BY <1>1, <1>3, <1>4, MovesBy
<1>7. OfThread(t) /\ stack'[t] = r
  BY <1>5, <1>6, StackIs
<1> QED
  BY <1>3, <1>6, <1>7

(* A lookup that has its answer stays, with it, for its node.                *)
LEMMA FoundMoves ==
  ASSUME stack \in [Threads -> Seq(FrameType)], NEW t \in Threads, stack[t] # <<>>,
         NEW imp \in Tables \cup {Uninstalled}, Found(t, imp)
  PROVE  /\ OfThread(t)
         /\ \E f \in FrameType :
              /\ Moves(stack[t], stack'[t], f)
              /\ f.at = "answered" /\ f.node = Node(t)
              /\ f.since = Top(t).since /\ f.got = imp
<1>1. stack[t] \in Seq(FrameType) /\ Top(t) \in FrameType /\ Top(t) = stack[t][1]
  BY HeadIs DEF Top
<1>2. PICK f : f = [Top(t) EXCEPT !.at = "answered", !.got = imp]
  OBVIOUS
<1>3. /\ f \in FrameType /\ f.at = "answered" /\ f.node = Node(t)
      /\ f.since = Top(t).since /\ f.got = imp
  BY <1>1, <1>2 DEF FrameType, Node, Labels, Looking
<1>4. PICK r : r = [stack[t] EXCEPT ![1] = f]
  OBVIOUS
<1>5. stack' = [stack EXCEPT ![t] = r]
  BY <1>1, <1>2, <1>4 DEF Found
<1>6. r \in Seq(FrameType) /\ Moves(stack[t], r, f)
  BY <1>1, <1>3, <1>4, MovesBy
<1>7. OfThread(t) /\ stack'[t] = r
  BY <1>5, <1>6, StackIs
<1> QED
  BY <1>3, <1>6, <1>7

(* A return takes the highest level away.                                    *)
LEMMA ReturnPops ==
  ASSUME stack \in [Threads -> Seq(FrameType)], NEW t \in Threads, stack[t] # <<>>,
         Return(t)
  PROVE  OfThread(t) /\ Pops(stack[t], stack'[t])
  BY StackIs, PopsBy DEF Return

(* A call for node n puts a level on, and leaves the caller at line back.    *)
LEMMA CallPushes ==
  ASSUME stack \in [Threads -> Seq(FrameType)], NEW t \in Threads, stack[t] # <<>>,
         NEW l \in Labels, NEW back \in Labels, NEW n \in Nodes, Call(t, l, n, back)
  PROVE  /\ OfThread(t)
         /\ \E f, g \in FrameType :
              /\ Pushes(stack[t], stack'[t], f, g)
              /\ f.at = back /\ f.node = Node(t) /\ f.rest = Top(t).rest
              /\ f.since = Top(t).since
              /\ g.at = l /\ g.node = n /\ g.since = <<>>
<1>1. stack[t] \in Seq(FrameType) /\ Top(t) \in FrameType
  BY HeadIs DEF Top
<1>2. PICK f : f = [Top(t) EXCEPT !.at = back]
  OBVIOUS
<1>3. /\ f \in FrameType /\ f.at = back /\ f.node = Node(t) /\ f.rest = Top(t).rest
      /\ f.since = Top(t).since
  BY <1>1, <1>2 DEF FrameType, Node
<1>4. PICK g : g = Frame(l, n)
  OBVIOUS
<1>5. stack' = [stack EXCEPT ![t] = <<g, f>> \o Tail(stack[t])]
  BY <1>2, <1>4 DEF Call, Top
<1>6. g \in FrameType /\ g.at = l /\ g.node = n /\ g.since = <<>>
  BY <1>4, FrameTyped
<1>7. PICK r : r = <<g, f>> \o Tail(stack[t])
  OBVIOUS
<1>8. r \in Seq(FrameType) /\ Pushes(stack[t], r, f, g)
  BY <1>1, <1>3, <1>6, <1>7, PushesBy
<1> QED
  BY <1>3, <1>5, <1>6, <1>7, <1>8, StackIs

(* A call of the program's puts a level on, and changes none.                *)
LEMMA EnterEnters ==
  ASSUME stack \in [Threads -> Seq(FrameType)], NEW t \in Threads,
         NEW g \in FrameType, Enter(t, g)
  PROVE  OfThread(t) /\ Enters(stack[t], stack'[t], g)
<1>1. PICK r : r = <<g>> \o stack[t]
  OBVIOUS
<1>2. r \in Seq(FrameType) /\ Enters(stack[t], r, g)
  BY <1>1, EntersBy
<1>3. stack' = [stack EXCEPT ![t] = r]
  BY <1>1 DEF Enter
<1> QED
  BY <1>2, <1>3, StackIs

-----------------------------------------------------------------------------
(* What steps do to the frame at the top, to the lock, and to what a class   *)
(* is marked with.                                                           *)
Going ==
    {<<"gi_fast", "gi_read">>, <<"gi_fast", "answered">>, <<"gi_read", "gi_lock">>,
     <<"gi_read", "gi_load">>, <<"gi_load", "answered">>,
     <<"rt_read", "rt_lock">>, <<"rt_read", "answered">>,
     <<"am_link", "up_lock">>, <<"up_test", "up_unlock">>,
     <<"in_super", "in_prepared">>, <<"in_check", "in_prepared">>,
     <<"pr_start", "pr_super">>, <<"pr_super", "pr_copy">>,
     <<"si_test", "si_set">>, <<"si_set", "si_register">>,
     <<"si_register", "si_send">>, <<"si_send", "si_body">>}
Taking == {<<"gi_lock", "gi_test">>, <<"rt_lock", "rt_test">>, <<"up_lock", "up_test">>}
Giving == {<<"gi_test", "gi_read">>, <<"gi_after", "gi_read">>,
           <<"rt_test", "answered">>, <<"rt_after", "answered">>}
Calling ==
    {<<"gi_test", "gi_after", "in_super">>, <<"rt_test", "rt_after", "in_super">>,
     <<"in_super", "in_check", "in_super">>, <<"in_prepared", "in_init", "pr_start">>,
     <<"in_init", "in_install", "si_test">>, <<"pr_super", "pr_copy", "in_super">>,
     <<"si_set", "si_register", "si_test">>, <<"up_test", "up_unlock", "pr_start">>,
     <<"up_test", "up_subs", "in_super">>, <<"up_subs", "up_subs", "up_lock">>}
Returning ==
    {"answered", "in_check", "in_prepared", "in_install", "pr_copy", "si_test", "si_body"}
Ending == {"gi_after", "up_unlock", "up_subs"}

Keeps(t) == UNCHANGED lock \/ LockUnlock(t)

StackStep(t) ==
    LET s == stack[t]
        r == stack'[t]
        at == Top(t).at
    IN  \/ \E f \in FrameType :
             /\ s # <<>> /\ Moves(s, r, f) /\ f.node = Node(t)
             /\ \/ <<at, f.at>> \in Going /\ Keeps(t)
                \/ <<at, f.at>> \in Taking /\ Lock(t)
                \/ <<at, f.at>> \in Giving /\ Unlock(t)
             /\ at = "si_test" => Node(t) \notin initialized
        \/ \E f, g \in FrameType :
             /\ s # <<>> /\ Pushes(s, r, f, g) /\ f.node = Node(t)
             /\ <<at, f.at, g.at>> \in Calling /\ Keeps(t)
             /\ f.at = "in_install" => g.node = ClassOf[Node(t)]
        \/ /\ s # <<>> /\ Pops(s, r)
           /\ \/ at \in Returning /\ Keeps(t)
              \/ at \in Ending /\ Unlock(t)
           /\ at = "si_test" => Node(t) \in initialized
           /\ at = "si_body" => Node(t) \in finished'
        \/ \E g \in FrameType :
             /\ Enters(s, r, g) /\ g.at \in {"gi_fast", "rt_read", "am_link"} /\ Keeps(t)
             /\ s = <<>> \/ at = "si_body"

Marks(t) ==
    /\ initialized' = IF At(t, "si_set") THEN initialized \cup {Node(t)} ELSE initialized
    /\ finished' \in {finished, finished \cup {Node(t)}}
    /\ finished' # finished => At(t, "si_body")
    /\ started' = IF At(t, "si_send") THEN [started EXCEPT ![Node(t)] = @ + 1] ELSE started
    /\ \A n \in Nodes : dtable'[n] # Uninstalled /\ dtable[n] = Uninstalled =>
                            At(t, "in_install") /\ n = Node(t)

(* A step of a thread changes its own stack, in one of the four ways, and    *)
(* marks a class where its call is at the line that does.                    *)
Abstractly(t) == OfThread(t) /\ StackStep(t) /\ Marks(t)

(* Every line in the four sets of transitions is a label.                    *)
LEMMA LabelsAre ==
  /\ \A p \in Going : p[1] \in Labels /\ p[2] \in Labels
  /\ \A p \in Taking : p[1] \in Labels /\ p[2] \in Labels
  /\ \A p \in Giving : p[1] \in Labels /\ p[2] \in Labels
  /\ \A p \in Calling : p[1] \in Labels /\ p[2] \in Labels /\ p[3] \in Labels
  BY DEF Going, Taking, Giving, Calling, Labels, Looking, Linking, Locked, Inner,
         Installing, Preparing, Sending

(* A step that goes on in the same call.                                     *)
LEMMA GoesOn ==
  ASSUME TypeOK, NEW t \in Threads, stack[t] # <<>>, NEW l \in Labels, Goto(t, l),
         \/ <<Top(t).at, l>> \in Going /\ Keeps(t)
         \/ <<Top(t).at, l>> \in Taking /\ Lock(t)
         \/ <<Top(t).at, l>> \in Giving /\ Unlock(t),
         Top(t).at = "si_test" => Node(t) \notin initialized
  PROVE  OfThread(t) /\ StackStep(t)
<1>1. OfThread(t)
  BY GotoMoves DEF TypeOK
<1>2. PICK f \in FrameType : Moves(stack[t], stack'[t], f) /\ f.at = l /\ f.node = Node(t)
  BY GotoMoves DEF TypeOK
<1>3. \/ <<Top(t).at, f.at>> \in Going /\ Keeps(t)
      \/ <<Top(t).at, f.at>> \in Taking /\ Lock(t)
      \/ <<Top(t).at, f.at>> \in Giving /\ Unlock(t)
  BY <1>2
<1> QED
  BY <1>1, <1>2, <1>3 DEF StackStep

(* A lookup answers where the stack may say so.                              *)
LEMMA Answers ==
  ASSUME TypeOK, NEW t \in Threads, stack[t] # <<>>,
         NEW imp \in Tables \cup {Uninstalled}, Found(t, imp),
         \/ Top(t).at \in {"gi_fast", "gi_load", "rt_read"} /\ Keeps(t)
         \/ Top(t).at \in {"rt_test", "rt_after"} /\ Unlock(t)
  PROVE  OfThread(t) /\ StackStep(t)
<1>1. stack \in [Threads -> Seq(FrameType)] /\ stack[t] # <<>>
  BY DEF TypeOK
<1>2. PICK f \in FrameType : Moves(stack[t], stack'[t], f) /\ f.at = "answered"
                             /\ f.node = Node(t)
  BY <1>1, FoundMoves
<1>3. OfThread(t)
  BY <1>1, FoundMoves
<1>4. /\ \/ <<Top(t).at, f.at>> \in Going /\ Keeps(t)
         \/ <<Top(t).at, f.at>> \in Giving /\ Unlock(t)
      /\ Top(t).at # "si_test"
  BY <1>2 DEF Going, Giving
<1> QED
  BY <1>1, <1>2, <1>3, <1>4 DEF StackStep

(* A call is made where the stack may say so.                                *)
LEMMA CallsOn ==
  ASSUME TypeOK, NEW t \in Threads, stack[t] # <<>>,
         NEW l \in Labels, NEW back \in Labels, NEW n \in Nodes, Call(t, l, n, back),
         <<Top(t).at, back, l>> \in Calling, Keeps(t),
         back = "in_install" => n = ClassOf[Node(t)]
  PROVE  OfThread(t) /\ StackStep(t)
<1>1. PICK f \in FrameType, g \in FrameType :
             /\ Pushes(stack[t], stack'[t], f, g)
             /\ f.at = back /\ f.node = Node(t) /\ g.at = l /\ g.node = n
  BY CallPushes DEF TypeOK
<1>2. OfThread(t)
  BY CallPushes DEF TypeOK
<1>3. /\ stack[t] # <<>> /\ Pushes(stack[t], stack'[t], f, g) /\ f.node = Node(t)
      /\ <<Top(t).at, f.at, g.at>> \in Calling /\ Keeps(t)
      /\ f.at = "in_install" => g.node = ClassOf[Node(t)]
  BY <1>1
<1> QED
  BY <1>2, <1>3 DEF StackStep

(* A call returns from the lines that return, or end with an unlock.         *)
LEMMA Returns ==
  ASSUME TypeOK, NEW t \in Threads, stack[t] # <<>>, Return(t),
         \/ Top(t).at \in Returning /\ Keeps(t)
         \/ Top(t).at \in Ending /\ Unlock(t),
         Top(t).at = "si_test" => Node(t) \in initialized,
         Top(t).at = "si_body" => Node(t) \in finished'
  PROVE  OfThread(t) /\ StackStep(t)
  BY ReturnPops DEF TypeOK, StackStep

(* Who is at a line is at its frame's node.                                  *)
LEMMA TopTyped ==
  ASSUME TypeOK, NEW t \in Threads, stack[t] # <<>>
  PROVE  /\ Top(t) \in FrameType /\ Top(t).at \in Labels /\ Node(t) \in Nodes
         /\ Top(t) = Level(stack[t], Len(stack[t]))
         /\ Above(t) \in Nodes \cup {NoNode} /\ ClassOf[Node(t)] \in Nodes
<1>1. Top(t) \in FrameType /\ Top(t) = Level(stack[t], Len(stack[t]))
  BY HeadIs DEF TypeOK, Top
<1> QED
  BY <1>1, NodesAssumption DEF FrameType, Node, Above, Classes

(* get_implementation and responds_to step as stacks do.                     *)
LEMMA LookupAbstractly ==
  ASSUME TypeOK, NEW t \in Threads, Lookup(t), mutex' = mutex
  PROVE  Abstractly(t)
<1> USE DEF At
<1>1. ASSUME UNCHANGED <<tables, classes>>, Top(t).at \notin {"si_set", "si_send"} PROVE Marks(t)
  BY <1>1 DEF tables, classes, Marks
<1>2. CASE LookFast(t)
  <2>1. /\ stack[t] # <<>> /\ Top(t).at = "gi_fast" /\ Keeps(t) /\ Marks(t)
        /\ Found(t, dtable[Node(t)]) \/ Goto(t, "gi_read")
    BY <1>1, <1>2 DEF LookFast, Keeps, tables, classes, lock
  <2>2. dtable[Node(t)] \in Tables \cup {Uninstalled}
    BY <2>1, TopTyped DEF TypeOK
  <2>3. <<"gi_fast", "gi_read">> \in Going /\ "gi_read" \in Labels
    BY DEF Going, Looking, Labels
  <2> QED
    BY <2>1, <2>2, <2>3, GoesOn, Answers DEF Abstractly
<1>3. CASE LookInstalled(t)
  <2>1. /\ stack[t] # <<>> /\ Top(t).at = "gi_read" /\ Keeps(t) /\ Marks(t)
        /\ Goto(t, "gi_load")
    BY <1>1, <1>3 DEF LookInstalled, Keeps
  <2>2. <<"gi_read", "gi_load">> \in Going /\ "gi_load" \in Labels
    BY DEF Going, Looking, Labels
  <2>3. OfThread(t) /\ StackStep(t)
    BY <2>1, <2>2, GoesOn
  <2> QED
    BY <2>1, <2>3 DEF Abstractly
<1>4. CASE LookLoad(t)
  <2>1. /\ stack[t] # <<>> /\ Top(t).at = "gi_load" /\ Keeps(t) /\ Marks(t)
        /\ \E imp \in {dtable[Node(t)], NoImp} : Found(t, imp)
    BY <1>1, <1>4 DEF LookLoad, Keeps
  <2>2. dtable[Node(t)] \in Tables \cup {Uninstalled} /\ NoImp \in Tables
    BY <2>1, TopTyped DEF TypeOK, NoImp, Tables
  <2>3. PICK imp \in Tables \cup {Uninstalled} : Found(t, imp)
    BY <2>1, <2>2
  <2>4. OfThread(t) /\ StackStep(t)
    BY <2>1, <2>3, Answers
  <2> QED
    BY <2>1, <2>4 DEF Abstractly
<1>5. CASE RespondsInstalled(t)
  <2>1. /\ stack[t] # <<>> /\ Top(t).at = "rt_read" /\ Keeps(t) /\ Marks(t)
        /\ Found(t, dtable[Node(t)])
    BY <1>1, <1>5 DEF RespondsInstalled, Keeps
  <2>2. dtable[Node(t)] \in Tables \cup {Uninstalled}
    BY <2>1, TopTyped DEF TypeOK
  <2> QED
    BY <2>1, <2>2, Answers DEF Abstractly
<1>6. CASE LookUninstalled(t)
  <2>1. /\ stack[t] # <<>> /\ Keeps(t) /\ Marks(t)
        /\ \/ Top(t).at = "gi_read" /\ Goto(t, "gi_lock")
           \/ Top(t).at = "rt_read" /\ Goto(t, "rt_lock")
    BY <1>1, <1>6 DEF LookUninstalled, Keeps
  <2>2. /\ <<"gi_read", "gi_lock">> \in Going /\ <<"rt_read", "rt_lock">> \in Going
        /\ "gi_lock" \in Labels /\ "rt_lock" \in Labels
    BY DEF Going, Looking, Labels
  <2> QED
    BY <2>1, <2>2, GoesOn DEF Abstractly
<1>7. CASE LookLocked(t)
  <2>1. /\ stack[t] # <<>> /\ Lock(t) /\ Marks(t)
        /\ \/ Top(t).at = "gi_lock" /\ Goto(t, "gi_test")
           \/ Top(t).at = "rt_lock" /\ Goto(t, "rt_test")
    BY <1>1, <1>7 DEF LookLocked
  <2>2. /\ <<"gi_lock", "gi_test">> \in Taking /\ <<"rt_lock", "rt_test">> \in Taking
        /\ "gi_test" \in Labels /\ "rt_test" \in Labels
    BY DEF Taking, Locked, Labels
  <2> QED
    BY <2>1, <2>2, GoesOn DEF Abstractly
<1>8. CASE FirstMessage(t)
  <2>1. /\ stack[t] # <<>> /\ Keeps(t) /\ Marks(t)
        /\ \/ Top(t).at = "gi_test" /\ Call(t, "in_super", Node(t), "gi_after")
           \/ Top(t).at = "rt_test" /\ Call(t, "in_super", Node(t), "rt_after")
    BY <1>1, <1>8 DEF FirstMessage, Keeps
  <2>2. /\ <<"gi_test", "gi_after", "in_super">> \in Calling
        /\ <<"rt_test", "rt_after", "in_super">> \in Calling
        /\ "gi_after" \in Labels /\ "rt_after" \in Labels /\ "in_super" \in Labels
    BY DEF Calling, Locked, Labels, Installing, Inner
  <2> QED
    BY <2>1, <2>2, CallsOn, TopTyped DEF Abstractly
<1>9. CASE LookAgain(t)
  <2>1. /\ stack[t] # <<>> /\ Unlock(t) /\ Marks(t)
        /\ \/ Top(t).at \in {"gi_test", "gi_after"} /\ Goto(t, "gi_read")
           \/ Top(t).at \in {"rt_test", "rt_after"} /\ Found(t, dtable[Node(t)])
    BY <1>1, <1>9 DEF LookAgain
  <2>2. dtable[Node(t)] \in Tables \cup {Uninstalled}
    BY <2>1, TopTyped DEF TypeOK
  <2>3. /\ <<"gi_test", "gi_read">> \in Giving /\ <<"gi_after", "gi_read">> \in Giving
        /\ "gi_read" \in Labels
    BY DEF Giving, Looking, Labels
  <2> QED
    BY <2>1, <2>2, <2>3, GoesOn, Answers DEF Abstractly
<1>10. CASE LookPrepared(t)
  <2>1. /\ stack[t] # <<>> /\ Unlock(t) /\ Marks(t)
        /\ \/ Top(t).at = "gi_after" /\ Return(t)
           \/ Top(t).at = "rt_after" /\
              Found(t, IF Prepared(Node(t)) THEN Head(prepared[Node(t)]) ELSE NoImp)
    BY <1>1, <1>10 DEF LookPrepared
  <2>2. Prepared(Node(t)) => Head(prepared[Node(t)]) \in Tables
    BY <2>1, TopTyped, HeadIs DEF TypeOK, Prepared
  <2>3. NoImp \in Tables
    BY DEF NoImp, Tables
  <2>4. "gi_after" \in Ending
    BY DEF Ending
  <2> QED
    BY <2>1, <2>2, <2>3, <2>4, Returns, Answers DEF Abstractly
<1>11. CASE Answer(t)
  <2>1. /\ stack[t] # <<>> /\ Keeps(t) /\ Marks(t) /\ Return(t)
        /\ Top(t).at \in Returning /\ Top(t).at \notin {"si_test", "si_body"}
    BY <1>1, <1>11 DEF Answer, Keeps, Returning
  <2>2. OfThread(t) /\ StackStep(t)
    BY <2>1, Returns
  <2> QED
    BY <2>1, <2>2 DEF Abstractly
<1> QED
  BY <1>2, <1>3, <1>4, <1>5, <1>6, <1>7, <1>8, <1>9, <1>10, <1>11 DEF Lookup

(* __tour_install_dtable_for_class steps as stacks do.                       *)
LEMMA InstallAbstractly ==
  ASSUME TypeOK, NEW t \in Threads, Install(t), mutex' = mutex
  PROVE  Abstractly(t)
<1> USE DEF At
<1>1. ASSUME UNCHANGED <<tables, classes>>, Top(t).at \notin {"si_set", "si_send"} PROVE Marks(t)
  BY <1>1 DEF tables, classes, Marks
<1>2. CASE InstallSuper(t)
  <2>1. /\ stack[t] # <<>> /\ Top(t).at = "in_super" /\ Keeps(t) /\ Marks(t)
        /\ \/ Above(t) # NoNode /\ Call(t, "in_super", Above(t), "in_check")
           \/ Goto(t, "in_prepared")
    BY <1>1, <1>2 DEF InstallSuper, Keeps
  <2>2. /\ <<"in_super", "in_prepared">> \in Going
        /\ <<"in_super", "in_check", "in_super">> \in Calling
        /\ "in_super" \in Labels /\ "in_check" \in Labels /\ "in_prepared" \in Labels
    BY DEF Going, Calling, Installing, Inner, Labels
  <2> QED
    BY <2>1, <2>2, TopTyped, GoesOn, CallsOn DEF Abstractly
<1>3. CASE InstallCheck(t)
  <2>1. /\ stack[t] # <<>> /\ Top(t).at = "in_check" /\ Keeps(t) /\ Marks(t)
        /\ Return(t) \/ Goto(t, "in_prepared")
    BY <1>1, <1>3 DEF InstallCheck, Keeps
  <2>2. /\ <<"in_check", "in_prepared">> \in Going /\ "in_check" \in Returning
        /\ "in_prepared" \in Labels
    BY DEF Going, Returning, Installing, Inner, Labels
  <2>3. OfThread(t) /\ StackStep(t)
    BY <2>1, <2>2, GoesOn, Returns
  <2> QED
    BY <2>1, <2>3 DEF Abstractly
<1>4. CASE InstallPrepare(t)
  <2>1. /\ stack[t] # <<>> /\ Top(t).at = "in_prepared" /\ Keeps(t) /\ Marks(t)
        /\ Return(t) \/ Call(t, "pr_start", Node(t), "in_init")
    BY <1>1, <1>4 DEF InstallPrepare, Keeps
  <2>2. /\ <<"in_prepared", "in_init", "pr_start">> \in Calling
        /\ "in_prepared" \in Returning /\ "pr_start" \in Labels /\ "in_init" \in Labels
    BY DEF Calling, Returning, Installing, Preparing, Inner, Labels
  <2>3. OfThread(t) /\ StackStep(t)
    BY <2>1, <2>2, TopTyped, CallsOn, Returns
  <2> QED
    BY <2>1, <2>3 DEF Abstractly
<1>5. CASE InstallInitialize(t)
  <2>1. /\ stack[t] # <<>> /\ Top(t).at = "in_init" /\ Keeps(t) /\ Marks(t)
        /\ Call(t, "si_test", ClassOf[Node(t)], "in_install")
    BY <1>1, <1>5 DEF InstallInitialize, Keeps
  <2>2. /\ <<"in_init", "in_install", "si_test">> \in Calling
        /\ "si_test" \in Labels /\ "in_install" \in Labels
    BY DEF Calling, Installing, Sending, Inner, Labels
  <2> QED
    BY <2>1, <2>2, TopTyped, CallsOn DEF Abstractly
<1>6. CASE InstallPrepared(t)
  <2>1. /\ stack[t] # <<>> /\ Top(t).at = "in_install" /\ Keeps(t) /\ Return(t)
        /\ UNCHANGED classes
        /\ dtable' = [dtable EXCEPT ![Node(t)] =
                        IF Prepared(Node(t)) THEN Head(prepared[Node(t)]) ELSE @]
    BY <1>6 DEF InstallPrepared, Keeps
  <2>2. Top(t).at \in Returning /\ Top(t).at \notin {"si_test", "si_body"}
    BY <2>1 DEF Returning
  <2>3. OfThread(t) /\ StackStep(t)
    BY <2>1, <2>2, Returns
  <2>4. dtable \in [Nodes -> Tables \cup {Uninstalled}]
    BY DEF TypeOK
  <2>5. \A n \in Nodes : n # Node(t) => dtable'[n] = dtable[n]
    BY <2>1, <2>4
  <2>6. Marks(t)
    BY <2>1, <2>5 DEF Marks, classes
  <2> QED
    BY <2>3, <2>6 DEF Abstractly
<1> QED
  BY <1>2, <1>3, <1>4, <1>5, <1>6 DEF Install

(* __tour_prepare_dtable_for_class steps as stacks do.                       *)
LEMMA PrepareAbstractly ==
  ASSUME TypeOK, NEW t \in Threads, Prepare(t), mutex' = mutex
  PROVE  Abstractly(t)
<1> USE DEF At
<1>1. ASSUME dtable' = dtable, UNCHANGED classes, Top(t).at \notin {"si_set", "si_send"}
      PROVE  Marks(t)
  BY <1>1 DEF classes, Marks
<1>2. CASE PrepareStart(t)
  <2>1. /\ stack[t] # <<>> /\ Top(t).at = "pr_start" /\ Keeps(t) /\ Marks(t)
        /\ Goto(t, "pr_super")
    BY <1>1, <1>2 DEF PrepareStart, MayDiscard, Keeps
  <2>2. <<"pr_start", "pr_super">> \in Going /\ "pr_super" \in Labels
    BY DEF Going, Preparing, Inner, Labels
  <2> QED
    BY <2>1, <2>2, GoesOn DEF Abstractly
<1>3. CASE PrepareSuper(t)
  <2>1. /\ stack[t] # <<>> /\ Top(t).at = "pr_super" /\ Keeps(t) /\ Marks(t)
        /\ \/ Above(t) # NoNode /\ Call(t, "in_super", Above(t), "pr_copy")
           \/ Goto(t, "pr_copy")
    BY <1>1, <1>3 DEF PrepareSuper, Keeps, tables
  <2>2. /\ <<"pr_super", "pr_copy">> \in Going
        /\ <<"pr_super", "pr_copy", "in_super">> \in Calling
        /\ "in_super" \in Labels /\ "pr_copy" \in Labels
    BY DEF Going, Calling, Installing, Preparing, Inner, Labels
  <2> QED
    BY <2>1, <2>2, TopTyped, GoesOn, CallsOn DEF Abstractly
<1>4. CASE PrepareCopy(t)
  <2>1. /\ stack[t] # <<>> /\ Keeps(t) /\ Marks(t) /\ Return(t)
        /\ Top(t).at \in Returning /\ Top(t).at \notin {"si_test", "si_body"}
    BY <1>1, <1>4 DEF PrepareCopy, MayDiscard, Keeps, Returning
  <2>2. OfThread(t) /\ StackStep(t)
    BY <2>1, Returns
  <2> QED
    BY <2>1, <2>2 DEF Abstractly
<1> QED
  BY <1>2, <1>3, <1>4 DEF Prepare

(* __tour_send_initialize steps as stacks do.                                *)
LEMMA SendAbstractly ==
  ASSUME TypeOK, NEW t \in Threads, SendInitialize(t), mutex' = mutex
  PROVE  Abstractly(t)
<1> USE DEF At
<1>1. CASE InitializeTest(t)
  <2>1. /\ stack[t] # <<>> /\ Top(t).at = "si_test" /\ Keeps(t) /\ Marks(t)
        /\ \/ Node(t) \in initialized /\ Return(t)
           \/ Node(t) \notin initialized /\ Goto(t, "si_set")
    BY <1>1 DEF InitializeTest, Keeps, Marks, tables, classes
  <2>2. /\ <<"si_test", "si_set">> \in Going /\ "si_test" \in Returning /\ "si_set" \in Labels
    BY DEF Going, Returning, Sending, Inner, Labels
  <2>3. OfThread(t) /\ StackStep(t)
    BY <2>1, <2>2, GoesOn, Returns
  <2> QED
    BY <2>1, <2>3 DEF Abstractly
<1>2. CASE InitializeSet(t)
  <2>1. /\ stack[t] # <<>> /\ Top(t).at = "si_set" /\ Keeps(t) /\ Marks(t)
        /\ \/ Above(t) # NoNode /\ Call(t, "si_test", Above(t), "si_register")
           \/ Goto(t, "si_register")
    BY <1>2 DEF InitializeSet, Keeps, Marks, tables, lock
  <2>2. /\ <<"si_set", "si_register">> \in Going
        /\ <<"si_set", "si_register", "si_test">> \in Calling
        /\ "si_test" \in Labels /\ "si_register" \in Labels
    BY DEF Going, Calling, Sending, Inner, Labels
  <2> QED
    BY <2>1, <2>2, TopTyped, GoesOn, CallsOn DEF Abstractly
<1>3. CASE InitializeRegister(t)
  <2>1. /\ stack[t] # <<>> /\ Top(t).at = "si_register" /\ Keeps(t) /\ Marks(t)
        /\ Goto(t, "si_send")
    BY <1>3 DEF InitializeRegister, Keeps, Marks, tables, classes
  <2>2. <<"si_register", "si_send">> \in Going /\ "si_send" \in Labels
    BY DEF Going, Sending, Inner, Labels
  <2> QED
    BY <2>1, <2>2, GoesOn DEF Abstractly
<1>4. CASE InitializeSend(t)
  <2>1. /\ stack[t] # <<>> /\ Top(t).at = "si_send" /\ Keeps(t) /\ Marks(t)
        /\ Goto(t, "si_body")
    BY <1>4 DEF InitializeSend, Keeps, Marks, tables, lock
  <2>2. <<"si_send", "si_body">> \in Going /\ "si_body" \in Labels
    BY DEF Going, Sending, Inner, Labels
  <2> QED
    BY <2>1, <2>2, GoesOn DEF Abstractly
<1>5. CASE InitializeDone(t)
  <2>1. /\ stack[t] # <<>> /\ Top(t).at = "si_body" /\ Keeps(t) /\ Marks(t)
        /\ Return(t) /\ Node(t) \in finished'
    BY <1>5 DEF InitializeDone, Keeps, Marks, tables, lock
  <2>2. "si_body" \in Returning
    BY DEF Returning
  <2>3. OfThread(t) /\ StackStep(t)
    BY <2>1, <2>2, Returns
  <2> QED
    BY <2>1, <2>3 DEF Abstractly
<1> QED
  BY <1>1, <1>2, <1>3, <1>4, <1>5 DEF SendInitialize

(* A step that calls, and leaves other classes to do.                        *)
LEMMA UpdatePushes ==
  ASSUME TypeOK, NEW t \in Threads, stack[t] # <<>>, NEW l \in Labels, NEW n \in Nodes,
         NEW rest \in SUBSET Nodes, NEW f, f = [Top(t) EXCEPT !.at = "up_subs", !.rest = rest],
         stack' = [stack EXCEPT ![t] = <<Frame(l, n), f>> \o Tail(@)],
         <<Top(t).at, "up_subs", l>> \in Calling, Keeps(t)
  PROVE  /\ OfThread(t) /\ StackStep(t)
         /\ f \in FrameType /\ Pushes(stack[t], stack'[t], f, Frame(l, n))
<1>1. stack[t] \in Seq(FrameType) /\ Top(t) \in FrameType /\ stack[t] # <<>>
  BY TopTyped DEF TypeOK
<1>2. f \in FrameType /\ f.at = "up_subs" /\ f.node = Node(t)
  BY <1>1, FrameChanged DEF Node
<1>3. PICK g : g = Frame(l, n)
  OBVIOUS
<1>4. g \in FrameType /\ g.at = l
  BY <1>3, FrameTyped
<1>5. PICK r : r = <<g, f>> \o Tail(stack[t])
  OBVIOUS
<1>6. r \in Seq(FrameType)
  BY ONLY <1>1, <1>2, <1>4, <1>5, PushesBy
<1>7. Pushes(stack[t], r, f, g)
  BY ONLY <1>1, <1>2, <1>4, <1>5, PushesBy
<1>8. stack' = [stack EXCEPT ![t] = r]
  BY <1>3, <1>5
<1>9. OfThread(t) /\ stack'[t] = r
  BY <1>6, <1>8, StackIs DEF TypeOK
<1>10. StackStep(t)
  BY <1>2, <1>4, <1>7, <1>9 DEF StackStep
<1> QED
  BY <1>2, <1>3, <1>7, <1>9, <1>10

(* The update of a class and its subclasses steps as stacks do.              *)
LEMMA UpdateAbstractly ==
  ASSUME TypeOK, NEW t \in Threads, Update(t), mutex' = mutex
  PROVE  Abstractly(t)
<1> USE DEF At
<1>1. ASSUME UNCHANGED <<tables, classes>>, Top(t).at \notin {"si_set", "si_send"} PROVE Marks(t)
  BY <1>1 DEF tables, classes, Marks
<1>2. CASE LinkMethods(t)
  <2>1. /\ stack[t] # <<>> /\ Top(t).at = "am_link" /\ Keeps(t) /\ Marks(t)
        /\ Goto(t, "up_lock")
    BY <1>2 DEF LinkMethods, Keeps, Marks, tables
  <2>2. <<"am_link", "up_lock">> \in Going /\ "up_lock" \in Labels
    BY DEF Going, Linking, Labels
  <2> QED
    BY <2>1, <2>2, GoesOn DEF Abstractly
<1>3. CASE UpdateLock(t)
  <2>1. /\ stack[t] # <<>> /\ Top(t).at = "up_lock" /\ Lock(t) /\ Marks(t)
        /\ Goto(t, "up_test")
    BY <1>1, <1>3 DEF UpdateLock
  <2>2. <<"up_lock", "up_test">> \in Taking /\ "up_test" \in Labels
    BY DEF Taking, Locked, Labels
  <2> QED
    BY <2>1, <2>2, GoesOn DEF Abstractly
<1>4. CASE UpdatePrepared(t)
  <2>1. /\ stack[t] # <<>> /\ Top(t).at = "up_test" /\ Keeps(t) /\ Marks(t)
        /\ Call(t, "pr_start", Node(t), "up_unlock") \/ Goto(t, "up_unlock")
    BY <1>1, <1>4 DEF UpdatePrepared, Keeps
  <2>2. /\ <<"up_test", "up_unlock">> \in Going
        /\ <<"up_test", "up_unlock", "pr_start">> \in Calling
        /\ "up_unlock" \in Labels /\ "pr_start" \in Labels
    BY DEF Going, Calling, Preparing, Inner, Locked, Labels
  <2> QED
    BY <2>1, <2>2, TopTyped, GoesOn, CallsOn DEF Abstractly
<1>5. CASE UpdateInstalled(t)
  <2> PICK rest : rest = {m \in Nodes : Super[m] = Node(t)}
    OBVIOUS
  <2> PICK f : f = [Top(t) EXCEPT !.at = "up_subs", !.rest = rest]
    OBVIOUS
  <2>1. /\ stack[t] # <<>> /\ Top(t).at = "up_test" /\ Keeps(t) /\ UNCHANGED classes
        /\ dtable' = [dtable EXCEPT ![Node(t)] = Uninstalled]
        /\ stack' = [stack EXCEPT ![t] = <<Frame("in_super", Node(t)), f>> \o Tail(@)]
    BY <1>5 DEF UpdateInstalled, MayDiscard, Keeps, Top
  <2>2. <<"up_test", "up_subs", "in_super">> \in Calling /\ "in_super" \in Labels
    BY DEF Calling, Installing, Inner, Labels
  <2>3. rest \subseteq Nodes /\ Node(t) \in Nodes
    BY <2>1, TopTyped
  <2>4. OfThread(t) /\ StackStep(t)
    BY <2>1, <2>2, <2>3, UpdatePushes
  <2>5. \A n \in Nodes : dtable'[n] \in {dtable[n], Uninstalled}
    BY <2>1 DEF TypeOK
  <2>6. Marks(t)
    BY <2>1, <2>5 DEF Marks, classes
  <2> QED
    BY <2>4, <2>6 DEF Abstractly
<1>6. CASE UpdateSubclass(t)
  <2>1. /\ stack[t] # <<>> /\ Top(t).at = "up_subs" /\ Keeps(t) /\ Marks(t)
    BY <1>1, <1>6 DEF UpdateSubclass, Keeps
  <2>2. PICK m \in Top(t).rest :
          stack' = [stack EXCEPT ![t] =
              <<Frame("up_lock", m), [Top(t) EXCEPT !.rest = @ \ {m}]>> \o Tail(@)]
    BY <1>6 DEF UpdateSubclass
  <2> PICK rest : rest = Top(t).rest \ {m}
    OBVIOUS
  <2> PICK f : f = [Top(t) EXCEPT !.at = "up_subs", !.rest = rest]
    OBVIOUS
  <2>3. Top(t) \in FrameType
    BY <2>1, TopTyped
  <2>4. rest \subseteq Nodes /\ m \in Nodes /\ f = [Top(t) EXCEPT !.rest = @ \ {m}]
    BY <2>1, <2>3 DEF FrameType
  <2>5. <<"up_subs", "up_subs", "up_lock">> \in Calling /\ "up_lock" \in Labels
    BY DEF Calling, Linking, Labels
  <2>6. stack' = [stack EXCEPT ![t] = <<Frame("up_lock", m), f>> \o Tail(@)]
    BY <2>2, <2>4
  <2>7. OfThread(t) /\ StackStep(t)
    BY <2>1, <2>4, <2>5, <2>6, UpdatePushes
  <2> QED
    BY <2>1, <2>7 DEF Abstractly
<1>7. CASE UpdateUnlock(t)
  <2>1. /\ stack[t] # <<>> /\ Unlock(t) /\ Marks(t) /\ Return(t)
        /\ Top(t).at \in Ending /\ Top(t).at \notin {"si_test", "si_body"}
    BY <1>1, <1>7 DEF UpdateUnlock, Ending
  <2>2. OfThread(t) /\ StackStep(t)
    BY <2>1, Returns
  <2> QED
    BY <2>1, <2>2 DEF Abstractly
<1> QED
  BY <1>2, <1>3, <1>4, <1>5, <1>6, <1>7 DEF Update

(* The program's calls, from outside and from +initialize, are steps of      *)
(* stacks.                                                                   *)
LEMMA CallAbstractly ==
  ASSUME TypeOK, NEW t \in Threads, AnyCall(t)
  PROVE  Abstractly(t)
<1>1. /\ stack[t] = <<>> \/ (stack[t] # <<>> /\ Top(t).at = "si_body")
      /\ Keeps(t) /\ Marks(t)
  BY DEF AnyCall, Message, RespondsTo, AddMethods, MayCall, At, Keeps, Marks, tables, classes
<1>2. \E g \in FrameType : Enter(t, g) /\ g.at \in {"gi_fast", "rt_read", "am_link"}
  <2>1. PICK n \in Nodes : Message(t, n) \/ RespondsTo(t, n) \/ AddMethods(t, n)
    BY DEF AnyCall
  <2>2. \A l \in Labels : /\ LookupFrame(l, n) \in FrameType /\ LookupFrame(l, n).at = l
                          /\ Frame(l, n) \in FrameType /\ Frame(l, n).at = l
    BY DEF LookupFrame, Frame, FrameType, TypeOK, Uninstalled
  <2>3. "gi_fast" \in Labels /\ "rt_read" \in Labels /\ "am_link" \in Labels
    BY DEF Labels, Looking, Linking
  <2>4. \/ Enter(t, LookupFrame("gi_fast", n)) \/ Enter(t, LookupFrame("rt_read", n))
        \/ Enter(t, Frame("am_link", n))
    BY <2>1 DEF Message, RespondsTo, AddMethods
  <2> QED
    BY <2>2, <2>3, <2>4
<1>3. PICK g \in FrameType : Enter(t, g) /\ g.at \in {"gi_fast", "rt_read", "am_link"}
  BY <1>2
<1>4. OfThread(t) /\ Enters(stack[t], stack'[t], g)
  BY <1>3, EnterEnters DEF TypeOK
<1>5. StackStep(t)
  BY <1>1, <1>3, <1>4 DEF StackStep
<1> QED
  BY <1>1, <1>4, <1>5 DEF Abstractly

(* Every step of the specification is one of these.                          *)
LEMMA AbstractStep ==
  ASSUME TypeOK, Next
  PROVE  \E t \in Threads : Abstractly(t)
<1>1. PICK t \in Threads : Step(t) \/ AnyCall(t)
  BY DEF Next
<1>2. CASE Step(t)
  BY <1>2, LookupAbstractly, InstallAbstractly, PrepareAbstractly, SendAbstractly,
     UpdateAbstractly DEF Step
<1> QED
  BY <1>1, <1>2, CallAbstractly

-----------------------------------------------------------------------------
(* The table that a class is given.                                          *)
LEMMA TableTyped ==
  ASSUME TypeOK, NEW n \in Nodes
  PROVE  /\ NoImp \in Tables /\ Imp(n) \in Tables /\ NewTable(n) \in Tables
         /\ Prepared(n) => Head(prepared[n]) \in Tables /\ Tail(prepared[n]) \in Seq(Tables)
<1>1. NoImp \in Tables /\ Imp(n) \in Tables
  BY DEF NoImp, Imp, Tables, TypeOK
<1>2. \A m \in Nodes : Prepared(m) => Head(prepared[m]) \in Tables /\ Tail(prepared[m]) \in Seq(Tables)
  BY HeadIs DEF Prepared, TypeOK
<1>3. \A m \in Nodes : Installed(m) => dtable[m] \in Tables
  BY DEF Installed, TypeOK
<1> QED
  BY <1>1, <1>2, <1>3 DEF NewTable, TableOf, HasTable

(* The count of calls still to come and the line of a failed assertion.      *)
LEMMA CountsTyped ==
  ASSUME TypeOK, NEW t \in Threads, Step(t) \/ AnyCall(t)
  PROVE  calls' \in Nat /\ aborted' \in Nat
<1>1. calls \in Nat /\ aborted \in Nat
  BY DEF TypeOK
<1>2. CASE AnyCall(t)
  BY <1>1, <1>2 DEF AnyCall, Message, RespondsTo, AddMethods, MayCall
<1>3. CASE Lookup(t)
  <2>1. calls' = calls /\ aborted' \in {aborted, 0, 615, 110, 155}
    BY <1>3 DEF Lookup, LookFast, LookInstalled, LookLoad, RespondsInstalled,
       LookUninstalled, LookLocked, FirstMessage, LookAgain, LookPrepared, Answer, Assert
  <2> QED
    BY <1>1, <2>1
<1>4. CASE Install(t)
  <2>1. calls' = calls /\ aborted' \in {aborted, 0, 626, 630}
    BY <1>4 DEF Install, InstallSuper, InstallCheck, InstallPrepare, InstallInitialize,
       InstallPrepared, Assert
  <2> QED
    BY <1>1, <2>1
<1>5. CASE Prepare(t)
  <2>1. calls' = calls /\ aborted' \in {aborted, 0, 559, 577}
    BY <1>5 DEF Prepare, PrepareStart, PrepareSuper, PrepareCopy, Assert
  <2> QED
    BY <1>1, <2>1
<1>6. CASE SendInitialize(t)
  BY <1>1, <1>6 DEF SendInitialize, InitializeTest, InitializeSet, InitializeRegister,
     InitializeSend, InitializeDone
<1>7. CASE Update(t)
  BY <1>1, <1>7 DEF Update, LinkMethods, UpdateLock, UpdatePrepared, UpdateInstalled,
     UpdateSubclass, UpdateUnlock
<1> QED
  BY <1>2, <1>3, <1>4, <1>5, <1>6, <1>7 DEF Step

(* Every step keeps the types.                                               *)
LEMMA TypeStep ==
  ASSUME TypeOK, [Next]_vars
  PROVE  TypeOK'
<1>1. CASE UNCHANGED vars
  BY <1>1 DEF vars, tables, classes, lock, TypeOK, LockTypeOK
<1>2. CASE Next
  <2>1. PICK t \in Threads : Step(t) \/ AnyCall(t)
    BY <1>2 DEF Next
  <2>2. Abstractly(t)
    BY <2>1, CallAbstractly, LookupAbstractly, InstallAbstractly, PrepareAbstractly,
       SendAbstractly, UpdateAbstractly DEF Step
  <2>3. mutex' = mutex
    BY <2>1 DEF Step, AnyCall
  <2>4. LockTypeOK'
    BY <2>2, <2>3, LockTypeStep DEF Abstractly, StackStep, Keeps, TypeOK
  <2>5. /\ stack' \in [Threads -> Seq(FrameType)]
        /\ stack[t] # <<>> => Node(t) \in Nodes
    BY <2>2, TopTyped DEF Abstractly, OfThread
  <2>6. /\ initialized' \subseteq Nodes /\ finished' \subseteq Nodes
        /\ started' \in [Classes -> Nat]
    <3>1. /\ initialized' \in {initialized, initialized \cup {Node(t)}}
          /\ initialized' # initialized => stack[t] # <<>>
          /\ finished' \in {finished, finished \cup {Node(t)}}
          /\ finished' # finished => stack[t] # <<>>
          /\ started' = started \/ started' = [started EXCEPT ![Node(t)] = @ + 1]
      BY <2>2 DEF Abstractly, Marks, At
    <3>2. initialized' \subseteq Nodes /\ finished' \subseteq Nodes
      BY <2>5, <3>1 DEF TypeOK
    <3>3. started' \in [Classes -> Nat]
      BY <3>1 DEF TypeOK
    <3> QED
      BY <3>2, <3>3
  <2>7. calls' \in Nat /\ aborted' \in Nat
    BY <2>1, CountsTyped
  <2>9. ASSUME UNCHANGED <<tables, own>> PROVE TypeOK'
    BY <2>4, <2>5, <2>6, <2>7, <2>9 DEF tables, TypeOK
  <2>10. CASE InstallPrepared(t)
    <3>1. /\ stale' = stale /\ own' = own
          /\ dtable' = [dtable EXCEPT ![Node(t)] =
                           IF Prepared(Node(t)) THEN Head(prepared[Node(t)]) ELSE @]
          /\ prepared' = [prepared EXCEPT ![Node(t)] =
                             IF Prepared(Node(t)) THEN Tail(@) ELSE @]
      BY <2>10 DEF InstallPrepared, classes
    <3>2. Node(t) \in Nodes
      BY <2>5, <2>10 DEF InstallPrepared, At
    <3>3. dtable' \in [Nodes -> Tables \cup {Uninstalled}]
      BY <3>1, <3>2, TableTyped DEF TypeOK
    <3>4. prepared' \in [Nodes -> Seq(Tables)]
      BY <3>1, <3>2, TableTyped DEF TypeOK
    <3> QED
      BY <2>4, <2>5, <2>6, <2>7, <3>1, <3>3, <3>4 DEF TypeOK
  <2>11. CASE PrepareStart(t)
    <3>1. /\ dtable' = dtable /\ own' = own /\ stale' \in {stale, stale \cup {Node(t)}}
          /\ prepared' = [prepared EXCEPT ![Node(t)] =
                             IF Prepared(Node(t)) THEN Tail(@) ELSE @]
      BY <2>11 DEF PrepareStart, classes
    <3>2. Node(t) \in Nodes
      BY <2>5, <2>11 DEF PrepareStart, At
    <3>3. prepared' \in [Nodes -> Seq(Tables)]
      BY <3>1, <3>2, TableTyped DEF TypeOK
    <3> QED
      BY <2>4, <2>5, <2>6, <2>7, <3>1, <3>2, <3>3 DEF TypeOK
  <2>12. CASE PrepareCopy(t)
    <3>1. /\ dtable' = dtable /\ own' = own /\ stale' = stale
          /\ prepared' = [prepared EXCEPT ![Node(t)] = <<NewTable(Node(t))>> \o @]
      BY <2>12 DEF PrepareCopy, classes
    <3>2. Node(t) \in Nodes
      BY <2>5, <2>12 DEF PrepareCopy, At
    <3>3. <<NewTable(Node(t))>> \o prepared[Node(t)] \in Seq(Tables)
      BY <3>2, TableTyped DEF TypeOK
    <3>4. prepared' \in [Nodes -> Seq(Tables)]
      BY <3>1, <3>2, <3>3 DEF TypeOK
    <3> QED
      BY <2>4, <2>5, <2>6, <2>7, <3>1, <3>4 DEF TypeOK
  <2>13. CASE LinkMethods(t)
    <3>1. Node(t) \in Nodes
      BY <2>5, <2>13 DEF LinkMethods, At
    <3>2. own' \in [Nodes -> Nat] /\ UNCHANGED tables
      BY <2>13, <3>1 DEF LinkMethods, TypeOK
    <3> QED
      BY <2>4, <2>5, <2>6, <2>7, <3>2 DEF tables, TypeOK
  <2>14. CASE UpdateInstalled(t)
    <3>1. /\ prepared' = prepared /\ own' = own /\ stale' \subseteq stale
          /\ dtable' = [dtable EXCEPT ![Node(t)] = Uninstalled]
      BY <2>14 DEF UpdateInstalled, classes
    <3>2. dtable' \in [Nodes -> Tables \cup {Uninstalled}]
      BY <3>1 DEF TypeOK
    <3> QED
      BY <2>4, <2>5, <2>6, <2>7, <3>1, <3>2 DEF TypeOK
  <2>15. \/ UNCHANGED <<tables, own>>
         \/ InstallPrepared(t) \/ PrepareStart(t) \/ PrepareCopy(t) \/ LinkMethods(t)
         \/ UpdateInstalled(t)
    BY <2>1 DEF Step, Lookup, Install, Prepare, SendInitialize, Update, AnyCall, classes,
       LookFast, LookInstalled, LookLoad, RespondsInstalled, LookUninstalled, LookLocked,
       FirstMessage, LookAgain, LookPrepared, Answer, InstallSuper, InstallCheck,
       InstallPrepare, InstallInitialize, PrepareSuper,
       InitializeTest, InitializeSet, InitializeRegister, InitializeSend,
       InitializeDone, UpdateLock, UpdatePrepared,
       UpdateSubclass, UpdateUnlock, Message, RespondsTo, AddMethods
  <2> QED
    BY <2>9, <2>10, <2>11, <2>12, <2>13, <2>14, <2>15
<1> QED
  BY <1>1, <1>2

(* The types at first.                                                       *)
LEMMA TypeInit == Init => TypeOK
<1> SUFFICES ASSUME Init PROVE TypeOK
  OBVIOUS
<1>1. LockTypeOK
  BY MutexesAssumption DEF Init, LockInit, LockTypeOK
<1>2. <<>> \in Seq(Tables) /\ <<>> \in Seq(FrameType)
  OBVIOUS
<1> QED
  BY <1>1, <1>2, CallsAssumption DEF Init, TypeOK, Uninstalled

-----------------------------------------------------------------------------
(* A marked class is one whose +initialize is done, or on some stack.  A     *)
(* table is installed by a call that waits for the class to be marked, and   *)
(* no mark is taken away: so the class of an installed table is marked.      *)
Sent == {"si_register", "si_send", "si_body"}
UnderWay(s, c) == \E k \in Levels(s) : Level(s, k).node = c /\ Level(s, k).at \in Sent

WaitsForMark(s, k) ==
    \/ ClassOf[Level(s, k).node] \in initialized
    \/ /\ k < Len(s)
       /\ Level(s, k + 1).at \in {"si_test", "si_set"}
       /\ Level(s, k + 1).node = ClassOf[Level(s, k).node]

MarkedOK ==
    \A c \in initialized : c \in finished \/ \E t \in Threads : UnderWay(stack[t], c)
InstallWaits ==
    \A t \in Threads : \A k \in Levels(stack[t]) :
        Level(stack[t], k).at = "in_install" => WaitsForMark(stack[t], k)
InstalledMarked == \A n \in Nodes : Installed(n) => ClassOf[n] \in initialized

MarkInv == MarkedOK /\ InstallWaits /\ InstalledMarked

(* Below the top no level changes.                                           *)
LEMMA LevelsBelow ==
  ASSUME TypeOK, NEW t \in Threads, Abstractly(t)
  PROVE  /\ Len(stack[t]) \in Nat
         /\ Len(stack'[t]) \in {Len(stack[t]) - 1, Len(stack[t]), Len(stack[t]) + 1}
         /\ \A j \in 1..(Len(stack[t]) - 1) : Level(stack'[t], j) = Level(stack[t], j)
<1> PICK s : s = stack[t]
  OBVIOUS
<1> PICK r : r = stack'[t]
  OBVIOUS
<1>1. Len(s) \in Nat
  BY DEF TypeOK
<1>2. \A f, g : \/ Moves(s, r, f) \/ Pushes(s, r, f, g) \/ Pops(s, r) \/ Enters(s, r, g)
              => /\ Len(r) \in {Len(s) - 1, Len(s), Len(s) + 1}
                 /\ \A j \in 1..(Len(s) - 1) : Level(r, j) = Level(s, j)
  BY <1>1 DEF Moves, Pushes, Pops, Enters
<1>3. \E f, g : Moves(s, r, f) \/ Pushes(s, r, f, g) \/ Pops(s, r) \/ Enters(s, r, g)
  BY DEF Abstractly, StackStep
<1> QED
  BY <1>1, <1>2, <1>3

(* What is on a stack stays on it, up to the line it is at.                  *)
LEMMA UnderWayStays ==
  ASSUME TypeOK, NEW t \in Threads, Abstractly(t), NEW c, UnderWay(stack[t], c)
  PROVE  UnderWay(stack'[t], c) \/ c \in finished'
<1> PICK s : s = stack[t]
  OBVIOUS
<1> PICK r : r = stack'[t]
  OBVIOUS
<1>1. PICK k \in 1..Len(s) : Level(s, k).node = c /\ Level(s, k).at \in Sent
  BY DEF UnderWay, Levels
<1>2. s \in Seq(FrameType) /\ Len(s) \in Nat /\ s # <<>> /\ k \in Nat
  <2>1. s \in Seq(FrameType) /\ Len(s) \in Nat
    BY DEF TypeOK
  <2> QED
    BY <1>1, <2>1
<1>3. Top(t) = Level(s, Len(s))
  BY <1>2, TopTyped
<1>4. CASE k < Len(s)
  <2>1. /\ Len(r) \in {Len(s) - 1, Len(s), Len(s) + 1}
        /\ \A j \in 1..(Len(s) - 1) : Level(r, j) = Level(s, j)
    BY LevelsBelow
  <2>2. k \in 1..Len(r) /\ Level(r, k) = Level(s, k)
    BY <1>2, <1>4, <2>1
  <2> QED
    BY <1>1, <2>2 DEF UnderWay, Levels
<1>5. CASE k = Len(s)
  <2>1. Node(t) = c /\ Top(t).at \in Sent
    BY <1>1, <1>3, <1>5 DEF Node
  <2>2. \A x, y : /\ <<Top(t).at, x>> \in Going => x \in Sent
                  /\ <<Top(t).at, x>> \notin Taking /\ <<Top(t).at, x>> \notin Giving
                  /\ <<Top(t).at, x, y>> \notin Calling
    BY <2>1 DEF Sent, Going, Taking, Giving, Calling, Looking
  <2>3. Top(t).at \in Returning \cup Ending => Top(t).at = "si_body"
    BY <2>1 DEF Sent, Returning, Ending
  <2>4. ASSUME NEW f \in FrameType, Moves(s, r, f), f.node = Node(t), f.at \in Sent
        PROVE  UnderWay(r, c)
    BY <1>2, <2>1, <2>4 DEF Moves, UnderWay, Levels
  <2>5. ASSUME NEW g \in FrameType, Enters(s, r, g) PROVE UnderWay(r, c)
    BY <1>1, <1>2, <1>5, <2>5 DEF Enters, UnderWay, Levels
  <2> QED
    BY <2>1, <2>2, <2>3, <2>4, <2>5 DEF Abstractly, StackStep
<1> QED
  BY <1>1, <1>2, <1>4, <1>5

(* A marked class has had its +initialize, or has it under way: each step    *)
(* keeps it.                                                                 *)
LEMMA MarkedOKStep ==
  ASSUME TypeOK, MarkedOK, NEW t \in Threads, Abstractly(t)
  PROVE  MarkedOK'
<1> SUFFICES ASSUME NEW c \in initialized'
             PROVE  c \in finished' \/ \E u \in Threads : UnderWay(stack'[u], c)
  BY DEF MarkedOK, UnderWay
<1>1. finished \subseteq finished'
  BY DEF Abstractly, Marks
<1>2. CASE c \in initialized
  <2>1. CASE c \in finished
    BY <1>1, <2>1
  <2>2. ASSUME NEW u \in Threads, UnderWay(stack[u], c)
        PROVE  c \in finished' \/ UnderWay(stack'[u], c)
    <3>1. CASE u = t
      BY <2>2, <3>1, UnderWayStays
    <3>2. CASE u # t
      BY <2>2, <3>2 DEF Abstractly, OfThread
    <3> QED
      BY <3>1, <3>2
  <2> QED
    BY <1>2, <2>1, <2>2 DEF MarkedOK
<1>3. CASE c \notin initialized
  <2>1. /\ stack[t] # <<>> /\ Top(t).at = "si_set" /\ c = Node(t)
    BY <1>3 DEF Abstractly, Marks, At
  <2>2. PICK n : n = Len(stack[t])
    OBVIOUS
  <2>3. n \in Nat /\ n > 0
    BY <2>1, <2>2, HeadIs DEF TypeOK
  <2>4. \A x, y : /\ <<"si_set", x>> \in Going => x \in Sent
                  /\ <<"si_set", x>> \notin Taking /\ <<"si_set", x>> \notin Giving
                  /\ <<"si_set", x, y>> \in Calling => x \in Sent
    BY DEF Sent, Going, Taking, Giving, Calling, Looking
  <2>5. "si_set" \notin Returning /\ "si_set" \notin Ending
    BY DEF Returning, Ending
  <2>6. \E f \in FrameType : /\ Level(stack'[t], n) = f /\ n \in Levels(stack'[t])
                             /\ f.node = c /\ f.at \in Sent
    <3>1. ASSUME NEW f \in FrameType, Moves(stack[t], stack'[t], f)
          PROVE  Level(stack'[t], n) = f /\ n \in Levels(stack'[t])
      BY <2>2, <2>3, <3>1 DEF Moves, Levels
    <3>2. ASSUME NEW f \in FrameType, NEW g \in FrameType, Pushes(stack[t], stack'[t], f, g)
          PROVE  Level(stack'[t], n) = f /\ n \in Levels(stack'[t])
      BY <2>2, <2>3, <3>2 DEF Pushes, Levels
    <3> QED
      BY <2>1, <2>4, <2>5, <3>1, <3>2 DEF Abstractly, StackStep
  <2> QED
    BY <2>6 DEF UnderWay
<1> QED
  BY <1>2, <1>3

(* Who waits to install has sent, or sends: each step keeps it.              *)
LEMMA InstallWaitsStep ==
  ASSUME TypeOK, InstallWaits, NEW t \in Threads, Abstractly(t)
  PROVE  InstallWaits'
<1>1. initialized \subseteq initialized'
  BY DEF Abstractly, Marks
<1> SUFFICES ASSUME NEW u \in Threads, NEW k \in Levels(stack'[u]),
                    Level(stack'[u], k).at = "in_install"
             PROVE  \/ ClassOf[Level(stack'[u], k).node] \in initialized'
                    \/ /\ k < Len(stack'[u])
                       /\ Level(stack'[u], k + 1).at \in {"si_test", "si_set"}
                       /\ Level(stack'[u], k + 1).node = ClassOf[Level(stack'[u], k).node]
  BY DEF InstallWaits, WaitsForMark, Level, Levels
<1>2. CASE u # t
  <2>1. stack'[u] = stack[u]
    BY <1>2 DEF Abstractly, OfThread
  <2> QED
    BY <1>1, <2>1 DEF InstallWaits, WaitsForMark
<1>3. CASE u = t
  <2> PICK s : s = stack[t]
    OBVIOUS
  <2> PICK r : r = stack'[t]
    OBVIOUS
  <2>1. /\ Len(s) \in Nat /\ Len(r) \in {Len(s) - 1, Len(s), Len(s) + 1} /\ k \in 1..Len(r)
        /\ \A j \in 1..(Len(s) - 1) : Level(r, j) = Level(s, j)
    BY <1>3, LevelsBelow DEF Levels
  <2>2. s # <<>> => Len(s) > 0 /\ Top(t) = Level(s, Len(s)) /\ Node(t) = Level(s, Len(s)).node
    BY TopTyped, HeadIs DEF TypeOK, Node
  <2>3. Level(r, k).at = "in_install"
    BY <1>3
  <2>4. \A x, y : /\ <<x, "in_install">> \notin Going
                  /\ <<x, "in_install">> \notin Taking /\ <<x, "in_install">> \notin Giving
                  /\ <<x, y, "in_install">> \notin Calling
                  /\ <<x, "in_install", y>> \in Calling => y = "si_test"
    BY DEF Going, Taking, Giving, Calling, Looking
  <2>5. CASE k < Len(s)
    <3>1. k \in 1..(Len(s) - 1) /\ Level(r, k) = Level(s, k) /\ k \in Levels(s)
      BY <2>1, <2>5 DEF Levels
    <3>2. WaitsForMark(s, k)
      BY <2>3, <3>1 DEF InstallWaits
    <3>3. CASE ClassOf[Level(s, k).node] \in initialized
      BY <1>1, <1>3, <3>1, <3>3
    <3>4. CASE /\ Level(s, k + 1).at \in {"si_test", "si_set"}
               /\ Level(s, k + 1).node = ClassOf[Level(s, k).node]
      <4>1. CASE k + 1 < Len(s)
        <5>1. k + 1 \in 1..(Len(s) - 1) /\ k < Len(r)
          BY <2>1, <4>1
        <5>2. Level(r, k + 1) = Level(s, k + 1)
          BY <2>1, <5>1
        <5> QED
          BY <1>3, <3>1, <3>4, <5>1, <5>2
      <4>2. CASE k + 1 = Len(s)
        <5>1. /\ s # <<>> /\ Top(t).at \in {"si_test", "si_set"}
              /\ Node(t) = ClassOf[Level(s, k).node]
          <6>1. s # <<>>
            BY <2>1, <2>5
          <6> QED
            BY <2>2, <3>4, <4>2, <6>1
        <5>2. CASE Top(t).at = "si_set"
          <6>1. Node(t) \in initialized'
            BY <5>1, <5>2 DEF Abstractly, Marks, At
          <6> QED
            BY <1>3, <3>1, <5>1, <6>1
        <5>3. CASE Top(t).at = "si_test"
          <6>1. \A x, y : /\ <<"si_test", x>> \in Going => x = "si_set"
                          /\ <<"si_test", x>> \notin Taking /\ <<"si_test", x>> \notin Giving
                          /\ <<"si_test", x, y>> \notin Calling
            BY DEF Going, Taking, Giving, Calling, Looking
          <6>2. \/ Node(t) \in initialized
                \/ \E f \in FrameType : Moves(s, r, f) /\ f.at = "si_set" /\ f.node = Node(t)
            BY <5>1, <5>3, <6>1 DEF Abstractly, StackStep
          <6>3. ASSUME NEW f \in FrameType, Moves(s, r, f), f.at = "si_set", f.node = Node(t)
                PROVE  k < Len(r) /\ Level(r, k + 1) = f
            BY <2>1, <2>5, <4>2, <6>3 DEF Moves
          <6> QED
            BY <1>1, <1>3, <3>1, <5>1, <6>2, <6>3
        <5> QED
          BY <5>1, <5>2, <5>3
      <4> QED
        BY <2>1, <2>5, <4>1, <4>2
    <3> QED
      BY <3>2, <3>3, <3>4 DEF WaitsForMark
  <2>6. CASE k = Len(s)
    <3>1. s # <<>>
      BY <2>1, <2>6
    <3>2. ASSUME NEW f \in FrameType, NEW g \in FrameType, Pushes(s, r, f, g), f.node = Node(t),
                 <<Top(t).at, f.at, g.at>> \in Calling, f.at = "in_install" => g.node = ClassOf[Node(t)]
          PROVE  /\ k < Len(r) /\ Level(r, k + 1).at = "si_test"
                 /\ Level(r, k + 1).node = ClassOf[Level(r, k).node]
      <4>1. Level(r, k) = f /\ Level(r, k + 1) = g /\ k < Len(r)
        BY <2>1, <2>6, <3>2 DEF Pushes
      <4>2. f.at = "in_install"
        BY <2>3, <4>1
      <4>3. g.at = "si_test" /\ g.node = ClassOf[f.node]
        BY <2>4, <3>2, <4>2
      <4> QED
        BY <4>1, <4>3
    <3>3. \A f : Moves(s, r, f) => f.at = "in_install"
      BY <2>3, <2>6 DEF Moves
    <3>4. ~Pops(s, r)
      BY <2>1, <2>6 DEF Pops
    <3>5. \A g : Enters(s, r, g) => Top(t).at = "in_install"
      BY <2>1, <2>2, <2>3, <2>6, <3>1 DEF Enters
    <3>6. \E f \in FrameType, g \in FrameType :
             /\ Pushes(s, r, f, g) /\ f.node = Node(t) /\ <<Top(t).at, f.at, g.at>> \in Calling
             /\ f.at = "in_install" => g.node = ClassOf[Node(t)]
      BY <2>4, <3>1, <3>3, <3>4, <3>5 DEF Abstractly, StackStep
    <3> QED
      BY <1>3, <3>2, <3>6
  <2>7. CASE k = Len(s) + 1
    <3>1. \A f, g : Pushes(s, r, f, g) => g.at = "in_install"
      BY <2>3, <2>7 DEF Pushes
    <3>2. \A g : Enters(s, r, g) => g.at = "in_install"
      BY <2>3, <2>7 DEF Enters
    <3>3. ~Pops(s, r) /\ \A f : ~Moves(s, r, f)
      BY <2>1, <2>7 DEF Pops, Moves
    <3> QED
      BY <2>4, <3>1, <3>2, <3>3 DEF Abstractly, StackStep
  <2> QED
    BY <2>1, <2>5, <2>6, <2>7
<1> QED
  BY <1>2, <1>3

(* Who has a table installed is marked: each step keeps it.                  *)
LEMMA InstalledMarkedStep ==
  ASSUME TypeOK, InstallWaits, InstalledMarked, NEW t \in Threads, Abstractly(t)
  PROVE  InstalledMarked'
<1>1. initialized \subseteq initialized'
  BY DEF Abstractly, Marks
<1>2. ASSUME NEW n \in Nodes, dtable'[n] # Uninstalled PROVE ClassOf[n] \in initialized'
  <2>1. CASE dtable[n] # Uninstalled
    BY <1>1, <2>1 DEF InstalledMarked, Installed
  <2>2. CASE dtable[n] = Uninstalled
    <3>1. At(t, "in_install") /\ n = Node(t)
      BY <1>2, <2>2 DEF Abstractly, Marks
    <3>2. PICK k : k = Len(stack[t])
      OBVIOUS
    <3>3. k \in Levels(stack[t]) /\ k \in Nat /\ Top(t) = Level(stack[t], k)
      <4>1. stack[t] \in Seq(FrameType) /\ stack[t] # <<>>
        BY <3>1 DEF At, TypeOK
      <4>2. k \in Nat /\ k > 0
        BY <3>2, <4>1, HeadIs
      <4> QED
        BY <3>2, <4>1, <4>2, TopTyped DEF Levels
    <3>4. Level(stack[t], k).at = "in_install" /\ Level(stack[t], k).node = n
      BY <3>1, <3>3 DEF At, Node
    <3>5. WaitsForMark(stack[t], k)
      BY <3>3, <3>4 DEF InstallWaits
    <3> QED
      BY <1>1, <3>2, <3>3, <3>4, <3>5 DEF WaitsForMark
  <2> QED
    BY <2>1, <2>2
<1> QED
  BY <1>2 DEF InstalledMarked, Installed

(* Every step keeps what is said of the marks.                               *)
LEMMA MarkStep ==
  ASSUME TypeOK, MarkInv, [Next]_vars
  PROVE  MarkInv'
<1>1. CASE UNCHANGED vars
  BY <1>1 DEF vars, tables, classes, MarkInv, MarkedOK, InstallWaits, InstalledMarked,
     UnderWay, WaitsForMark, Level, Levels, Installed
<1>2. CASE Next
  BY <1>2, AbstractStep, MarkedOKStep, InstallWaitsStep, InstalledMarkedStep DEF MarkInv
<1> QED
  BY <1>1, <1>2

(* At first no class is marked and no call is under way.                     *)
LEMMA MarkInit == Init => MarkInv
  BY DEF Init, MarkInv, MarkedOK, InstallWaits, InstalledMarked, Installed, Levels

(* The marks follow the calls that set them, for every hierarchy of classes, *)
(* number of threads and kind of lock.                                       *)
THEOREM Marking == Spec => [](TypeOK /\ MarkInv)
<1>1. Init => TypeOK /\ MarkInv
  BY TypeInit, MarkInit
<1>2. TypeOK /\ MarkInv /\ [Next]_vars => (TypeOK /\ MarkInv)'
  BY TypeStep, MarkStep
<1> QED
  BY <1>1, <1>2, PTL DEF Spec

(* A class whose +initialize is under way on a stack is one a thread         *)
(* initializes.                                                              *)
LEMMA SentIsInitializing ==
  ASSUME TypeOK, NEW t \in Threads, NEW c, UnderWay(stack[t], c)
  PROVE  Initializing(t, c)
<1>1. PICK k \in 1..Len(stack[t]) : /\ Level(stack[t], k).node = c
                                    /\ Level(stack[t], k).at \in Sent
  BY DEF UnderWay, Levels
<1>2. PICK i : i = Len(stack[t]) + 1 - k
  OBVIOUS
<1>3. i \in 1..Len(stack[t]) /\ stack[t][i] = Level(stack[t], k)
  BY <1>1, <1>2 DEF Level, TypeOK
<1> QED
  BY <1>1, <1>3 DEF Initializing, Frames, Sent

(* No class is reached through an installed table before its +initialize is  *)
(* done or under way: __tour_send_initialize has marked the class when       *)
(* __tour_install_prepared_dtable_for_class installs.                        *)
THEOREM InitializedFirst == Spec => []InstalledIsInitialized
<1>1. TypeOK /\ MarkInv => InstalledIsInitialized
  BY SentIsInitializing DEF MarkInv, MarkedOK, InstalledMarked, InstalledIsInitialized
<1> QED
  BY <1>1, Marking, PTL

-----------------------------------------------------------------------------
(* A level after a step: it was there before, or it is the top one a line    *)
(* further on, or it is new and at a method's first line.                    *)
NextLine(a, b) ==
    <<a, b>> \in Going \cup Taking \cup Giving \/ \E l \in Labels : <<a, b, l>> \in Calling
FirstLines == {"in_super", "pr_start", "si_test", "up_lock", "gi_fast", "rt_read", "am_link"}

(* What a level of the stack after a step was before.                        *)
LEMMA LevelsAre ==
  ASSUME TypeOK, NEW t \in Threads, Abstractly(t), NEW k \in Levels(stack'[t])
  PROVE  \/ k \in Levels(stack[t]) /\ Level(stack'[t], k) = Level(stack[t], k)
         \/ /\ k \in Levels(stack[t]) /\ k = Len(stack[t])
            /\ Level(stack'[t], k).node = Level(stack[t], k).node
            /\ NextLine(Level(stack[t], k).at, Level(stack'[t], k).at)
         \/ k = Len(stack[t]) + 1 /\ Level(stack'[t], k).at \in FirstLines
<1> PICK s : s = stack[t]
  OBVIOUS
<1> PICK r : r = stack'[t]
  OBVIOUS
<1>1. /\ Len(s) \in Nat /\ Len(r) \in {Len(s) - 1, Len(s), Len(s) + 1} /\ k \in 1..Len(r)
      /\ \A j \in 1..(Len(s) - 1) : Level(r, j) = Level(s, j)
  BY LevelsBelow DEF Levels
<1>2. s # <<>> => Len(s) > 0 /\ Top(t) = Level(s, Len(s)) /\ Node(t) = Level(s, Len(s)).node
  BY TopTyped, HeadIs DEF TypeOK, Node
<1>3. CASE k < Len(s)
  BY <1>1, <1>3 DEF Levels
<1>4. CASE k = Len(s)
  <2>1. s # <<>> /\ k \in Levels(s)
    BY <1>1, <1>4 DEF Levels
  <2>2. ~Pops(s, r)
    BY <1>1, <1>4 DEF Pops
  <2>3. \A g : Enters(s, r, g) => Level(r, k) = Level(s, k)
    BY <1>1, <1>4, <2>1 DEF Enters, Levels
  <2>4. \A f, g : Moves(s, r, f) \/ Pushes(s, r, f, g) => Level(r, k) = f
    BY <1>4 DEF Moves, Pushes
  <2>5. \/ \E g : Enters(s, r, g)
        \/ \E f : /\ Moves(s, r, f) /\ f.node = Node(t)
                  /\ <<Top(t).at, f.at>> \in Going \cup Taking \cup Giving
        \/ \E f, g : /\ Pushes(s, r, f, g) /\ f.node = Node(t)
                     /\ <<Top(t).at, f.at, g.at>> \in Calling /\ g.at \in Labels
    BY <2>2 DEF Abstractly, StackStep, FrameType
  <2> QED
    BY <1>2, <1>4, <2>1, <2>3, <2>4, <2>5 DEF NextLine
<1>5. CASE k = Len(s) + 1
  <2>1. ~Pops(s, r) /\ \A f : ~Moves(s, r, f)
    BY <1>1, <1>5 DEF Pops, Moves
  <2>2. \A f, g : Pushes(s, r, f, g) \/ Enters(s, r, g) => Level(r, k) = g
    BY <1>5 DEF Pushes, Enters
  <2>3. \A x, y, z : <<x, y, z>> \in Calling => z \in FirstLines
    BY DEF Calling, FirstLines
  <2>4. \/ \E g : Enters(s, r, g) /\ g.at \in FirstLines
        \/ \E f, g : Pushes(s, r, f, g) /\ <<Top(t).at, f.at, g.at>> \in Calling
    BY <2>1 DEF Abstractly, StackStep, FirstLines
  <2> QED
    BY <1>5, <2>2, <2>3, <2>4
<1> QED
  BY <1>1, <1>3, <1>4, <1>5

-----------------------------------------------------------------------------
(* The recursive lock the code relies on is held by the thread with a call   *)
(* under the lock on its stack, once for each.                               *)
LockedLevels(s) == {k \in Levels(s) : Level(s, k).at \in Locked}

LockInv ==
    mutex = "promised" =>
        \A t \in Threads :
            /\ holder = t <=> LockedLevels(stack[t]) # {}
            /\ holder = t => depth = Cardinality(LockedLevels(stack[t]))

(* The levels under the lock can be counted.                                 *)
LEMMA LockedFinite ==
  ASSUME TypeOK, NEW t \in Threads
  PROVE  /\ IsFiniteSet(LockedLevels(stack[t])) /\ Cardinality(LockedLevels(stack[t])) \in Nat
         /\ Cardinality(LockedLevels(stack[t])) = 0 <=> LockedLevels(stack[t]) = {}
<1>1. Len(stack[t]) \in Nat
  BY DEF TypeOK
<1>2. IsFiniteSet(1..Len(stack[t]))
  BY <1>1, FS_Interval
<1>3. IsFiniteSet(LockedLevels(stack[t]))
  BY <1>2, FS_Subset DEF LockedLevels, Levels
<1> QED
  BY <1>3, FS_CardinalityType, FS_EmptySet

(* Taking the lock puts a level under it, giving it up takes the top one     *)
(* away, and nothing else changes which levels are.                          *)
LEMMA LockedChange ==
  ASSUME TypeOK, NEW t \in Threads, Abstractly(t)
  PROVE  \/ Keeps(t) /\ LockedLevels(stack'[t]) = LockedLevels(stack[t])
         \/ /\ Lock(t) /\ Len(stack[t]) \notin LockedLevels(stack[t])
            /\ LockedLevels(stack'[t]) = LockedLevels(stack[t]) \cup {Len(stack[t])}
         \/ /\ Unlock(t) /\ Len(stack[t]) \in LockedLevels(stack[t])
            /\ LockedLevels(stack'[t]) = LockedLevels(stack[t]) \ {Len(stack[t])}
<1> PICK s : s = stack[t]
  OBVIOUS
<1> PICK r : r = stack'[t]
  OBVIOUS
<1>1. Len(s) \in Nat
  BY DEF TypeOK
<1>2. s # <<>> => Len(s) > 0 /\ Top(t) = Level(s, Len(s))
  BY TopTyped, HeadIs DEF TypeOK
<1>3. ASSUME s # <<>>, NEW f, Moves(s, r, f)
      PROVE  /\ Top(t).at \in Locked /\ f.at \in Locked => LockedLevels(r) = LockedLevels(s)
             /\ Top(t).at \notin Locked /\ f.at \notin Locked => LockedLevels(r) = LockedLevels(s)
             /\ Top(t).at \notin Locked /\ f.at \in Locked =>
                    /\ LockedLevels(r) = LockedLevels(s) \cup {Len(s)}
                    /\ Len(s) \notin LockedLevels(s)
             /\ Top(t).at \in Locked /\ f.at \notin Locked =>
                    /\ LockedLevels(r) = LockedLevels(s) \ {Len(s)}
                    /\ Len(s) \in LockedLevels(s)
  BY <1>1, <1>2, <1>3 DEF Moves, LockedLevels, Levels
<1>4. ASSUME s # <<>>, NEW f, NEW g, Pushes(s, r, f, g), g.at \notin Locked,
             Top(t).at \in Locked <=> f.at \in Locked
      PROVE  LockedLevels(r) = LockedLevels(s)
  BY <1>1, <1>2, <1>4 DEF Pushes, LockedLevels, Levels
<1>5. ASSUME s # <<>>, Pops(s, r)
      PROVE  /\ Top(t).at \notin Locked => LockedLevels(r) = LockedLevels(s)
             /\ Top(t).at \in Locked => /\ LockedLevels(r) = LockedLevels(s) \ {Len(s)}
                                        /\ Len(s) \in LockedLevels(s)
  BY <1>1, <1>2, <1>5 DEF Pops, LockedLevels, Levels
<1>6. ASSUME NEW g, Enters(s, r, g), g.at \notin Locked
      PROVE  LockedLevels(r) = LockedLevels(s)
  BY <1>1, <1>6 DEF Enters, LockedLevels, Levels
<1>7. \A x, y : /\ <<x, y>> \in Going => (x \in Locked <=> y \in Locked)
                /\ <<x, y>> \in Taking => x \notin Locked /\ y \in Locked
                /\ <<x, y>> \in Giving => x \in Locked /\ y \notin Locked
  BY DEF Going, Taking, Giving, Locked, Looking
<1>8. \A x, y, z : <<x, y, z>> \in Calling => z \notin Locked /\ (x \in Locked <=> y \in Locked)
  BY DEF Calling, Locked
<1>9. /\ \A x \in Returning : x \notin Locked
      /\ \A x \in Ending : x \in Locked
      /\ \A x \in {"gi_fast", "rt_read", "am_link"} : x \notin Locked
  BY DEF Returning, Ending, Locked
<1>10. CASE \E f \in FrameType :
              /\ s # <<>> /\ Moves(s, r, f)
              /\ \/ <<Top(t).at, f.at>> \in Going /\ Keeps(t)
                 \/ <<Top(t).at, f.at>> \in Taking /\ Lock(t)
                 \/ <<Top(t).at, f.at>> \in Giving /\ Unlock(t)
  BY <1>3, <1>7, <1>10
<1>11. CASE \E f, g \in FrameType : /\ s # <<>> /\ Pushes(s, r, f, g)
                                    /\ <<Top(t).at, f.at, g.at>> \in Calling /\ Keeps(t)
  BY <1>4, <1>8, <1>11
<1>12. CASE /\ s # <<>> /\ Pops(s, r)
            /\ \/ Top(t).at \in Returning /\ Keeps(t)
               \/ Top(t).at \in Ending /\ Unlock(t)
  BY <1>5, <1>9, <1>12
<1>13. CASE \E g \in FrameType : /\ Enters(s, r, g) /\ Keeps(t)
                                 /\ g.at \in {"gi_fast", "rt_read", "am_link"}
  BY <1>6, <1>9, <1>13
<1> QED
  BY <1>10, <1>11, <1>12, <1>13 DEF Abstractly, StackStep

(* One element more or less changes a cardinality by one.                    *)
LEMMA OneLevel ==
  ASSUME NEW S, NEW n, IsFiniteSet(S)
  PROVE  /\ n \notin S => Cardinality(S \cup {n}) = Cardinality(S) + 1
         /\ n \in S => Cardinality(S \ {n}) = Cardinality(S) - 1
<1>1. n \notin S => Cardinality(S \cup {n}) = Cardinality(S) + 1
  BY FS_AddElement
<1>2. n \in S => Cardinality(S \ {n}) = Cardinality(S) - 1
  BY FS_RemoveElement
<1> QED
  BY <1>1, <1>2

(* The recursive lock is held by the thread with levels under it, as often   *)
(* as there are such levels: each step keeps it.                             *)
LEMMA LockStep ==
  ASSUME TypeOK, LockInv, mutex' = mutex, NEW t \in Threads, Abstractly(t)
  PROVE  LockInv'
<1> SUFFICES ASSUME mutex = "promised", NEW u \in Threads
             PROVE  /\ holder' = u <=> LockedLevels(stack'[u]) # {}
                    /\ holder' = u => depth' = Cardinality(LockedLevels(stack'[u]))
  BY DEF LockInv, LockedLevels, Levels, Level
<1> PICK a : a = LockedLevels(stack[t])
  OBVIOUS
<1> PICK b : b = LockedLevels(stack'[t])
  OBVIOUS
<1> PICK n : n = Len(stack[t])
  OBVIOUS
<1>1. LockTypeOK /\ mutex # "none" /\ t # NoThread /\ u # NoThread
  BY ThreadsAssumption DEF TypeOK
<1>2. /\ holder = t <=> a # {}
      /\ holder = t => depth = Cardinality(a)
      /\ holder = u <=> LockedLevels(stack[u]) # {}
      /\ holder = u => depth = Cardinality(LockedLevels(stack[u]))
  BY DEF LockInv
<1>3. IsFiniteSet(a) /\ Cardinality(a) \in Nat /\ (Cardinality(a) = 0 <=> a = {})
  BY LockedFinite
<1>4. u # t => stack'[u] = stack[u]
  BY DEF Abstractly, OfThread
<1>5. CASE Keeps(t) /\ b = a
  <2>1. UNCHANGED lock
    BY <1>1, <1>5, LockUnlockEffect DEF Keeps
  <2>2. holder' = holder /\ depth' = depth
    BY <2>1 DEF lock
  <2> QED
    BY <1>2, <1>4, <1>5, <2>2
<1>6. CASE Lock(t) /\ n \notin a /\ b = a \cup {n}
  <2>1. /\ holder \in {NoThread, t} /\ holder' = t
        /\ depth' = IF holder = t THEN depth + 1 ELSE 1
    BY <1>1, <1>6, LockEffect DEF FirstDepth
  <2>2. Cardinality(b) = Cardinality(a) + 1
    BY <1>3, <1>6, OneLevel
  <2>3. b # {}
    BY <1>6
  <2>4. u # t => LockedLevels(stack[u]) = {}
    BY <1>1, <1>2, <2>1
  <2>5. depth' = Cardinality(b)
    BY <1>2, <1>3, <2>1, <2>2
  <2> QED
    BY <1>4, <2>1, <2>3, <2>4, <2>5
<1>7. CASE Unlock(t) /\ n \in a /\ b = a \ {n}
  <2>1. holder = t
    BY <1>2, <1>7
  <2>2. /\ depth > 1 => holder' = t /\ depth' = depth - 1
        /\ depth <= 1 => holder' = NoThread /\ depth' = 0
    BY <1>1, <1>7, <2>1, UnlockEffect
  <2>3. Cardinality(b) = Cardinality(a) - 1
    BY <1>3, <1>7, OneLevel
  <2>4. IsFiniteSet(b) /\ (Cardinality(b) = 0 <=> b = {})
    BY <1>3, <1>7, FS_Subset, FS_EmptySet
  <2>5. depth = Cardinality(a)
    BY <1>2, <2>1
  <2>6. u # t => LockedLevels(stack[u]) = {}
    BY <1>2, <2>1
  <2>7. CASE depth > 1
    <3>1. holder' = t /\ depth' = Cardinality(b) /\ b # {}
      BY <1>3, <2>2, <2>3, <2>4, <2>5, <2>7
    <3> QED
      BY <1>4, <2>6, <3>1
  <2>8. CASE depth <= 1
    <3>1. holder' = NoThread /\ b = {}
      BY <1>3, <1>7, <2>2, <2>3, <2>4, <2>5, <2>8
    <3> QED
      BY <1>1, <1>4, <2>6, <3>1
  <2> QED
    BY <1>3, <2>5, <2>7, <2>8
<1> QED
  BY <1>5, <1>6, <1>7, LockedChange

(* A call to install, prepare or initialize was made under the lock.         *)
CoveredInv ==
    \A t \in Threads : \A k \in Levels(stack[t]) :
        Level(stack[t], k).at \in Inner => \E j \in 1..(k - 1) : Level(stack[t], j).at \in Locked

(* Each step keeps it: the line that calls is under the lock, or is itself   *)
(* such a call.                                                              *)
LEMMA CoveredStep ==
  ASSUME TypeOK, CoveredInv, NEW t \in Threads, Abstractly(t)
  PROVE  CoveredInv'
<1> SUFFICES ASSUME NEW u \in Threads, NEW k \in Levels(stack'[u]),
                    Level(stack'[u], k).at \in Inner
             PROVE  \E j \in 1..(k - 1) : Level(stack'[u], j).at \in Locked
  BY DEF CoveredInv, Level, Levels
<1>1. CASE u # t
  <2>1. stack'[u] = stack[u]
    BY <1>1 DEF Abstractly, OfThread
  <2> QED
    BY <2>1 DEF CoveredInv
<1>2. CASE u = t
  <2> PICK s : s = stack[t]
    OBVIOUS
  <2> PICK r : r = stack'[t]
    OBVIOUS
  <2>1. /\ Len(s) \in Nat /\ Len(r) \in {Len(s) - 1, Len(s), Len(s) + 1} /\ k \in 1..Len(r)
        /\ \A j \in 1..(Len(s) - 1) : Level(r, j) = Level(s, j)
    BY <1>2, LevelsBelow DEF Levels
  <2>2. ASSUME k \in 1..Len(s), Level(s, k).at \in Inner
        PROVE  \E j \in 1..(k - 1) : Level(r, j).at \in Locked
    <3>1. PICK j \in 1..(k - 1) : Level(s, j).at \in Locked
      BY <2>2 DEF CoveredInv, Levels
    <3>2. j \in 1..(Len(s) - 1)
      BY <2>1, <2>2
    <3> QED
      BY <2>1, <3>1, <3>2
  <2>3. CASE k \in Levels(s) /\ Level(r, k) = Level(s, k)
    BY <1>2, <2>2, <2>3 DEF Levels
  <2>4. CASE k \in Levels(s) /\ NextLine(Level(s, k).at, Level(r, k).at)
    <3>1. \A x, y, z : /\ <<x, y>> \in Going /\ y \in Inner => x \in Inner
                       /\ <<x, y>> \in Taking \cup Giving => y \notin Inner
                       /\ <<x, y, z>> \in Calling /\ y \in Inner => x \in Inner
      BY DEF Going, Taking, Giving, Calling, Looking, Inner, Installing, Preparing, Sending
    <3>2. Level(s, k).at \in Inner
      BY <1>2, <2>4, <3>1 DEF NextLine
    <3> QED
      BY <1>2, <2>2, <2>4, <3>2 DEF Levels
  <2>5. CASE k = Len(s) + 1
    <3>1. ~Pops(s, r) /\ \A f : ~Moves(s, r, f)
      BY <2>1, <2>5 DEF Pops, Moves
    <3>2. \A g : Enters(s, r, g) => Level(r, k) = g
      BY <2>5 DEF Enters
    <3>3. \A x \in {"gi_fast", "rt_read", "am_link"} : x \notin Inner
      BY DEF Inner, Installing, Preparing, Sending
    <3>4. PICK f \in FrameType, g \in FrameType :
             s # <<>> /\ Pushes(s, r, f, g) /\ <<Top(t).at, f.at, g.at>> \in Calling
      BY <1>2, <3>1, <3>2, <3>3 DEF Abstractly, StackStep
    <3>5. /\ Len(s) > 0 /\ Level(r, Len(s)) = f /\ Level(r, k) = g
      BY <2>5, <3>4 DEF Pushes
    <3>6. Top(t) = Level(s, Len(s))
      BY <3>4, TopTyped
    <3>7. \A x, y, z : <<x, y, z>> \in Calling /\ z \in Inner =>
                            y \in Locked \/ x \in Inner
      BY DEF Calling, Locked, Inner, Installing, Preparing, Sending
    <3>8. CASE f.at \in Locked
      <4>1. Len(s) \in 1..(k - 1)
        BY <2>1, <2>5, <3>5
      <4> QED
        BY <1>2, <3>5, <3>8, <4>1
    <3>9. CASE Top(t).at \in Inner
      <4>1. Len(s) \in 1..Len(s) /\ Level(s, Len(s)).at \in Inner
        BY <2>1, <3>5, <3>6, <3>9
      <4>2. PICK j \in 1..(Len(s) - 1) : Level(s, j).at \in Locked
        BY <4>1 DEF CoveredInv, Levels
      <4>3. j \in 1..(k - 1) /\ Level(r, j) = Level(s, j)
        BY <2>1, <2>5, <4>2
      <4> QED
        BY <1>2, <4>2, <4>3
    <3> QED
      BY <1>2, <3>4, <3>5, <3>7, <3>8, <3>9
  <2> QED
    BY <1>2, <2>3, <2>4, <2>5, LevelsAre
<1> QED
  BY <1>1, <1>2

-----------------------------------------------------------------------------
(* Where the recursive lock is really there, or there is but one thread, one *)
(* thread at a time has calls under the lock.                                *)
Serialized == Mutexes = {"promised"} \/ \A t, u \in Threads : t = u

(* Two threads with levels under the lock are one and the same.              *)
LEMMA OneInside ==
  ASSUME Serialized, LockInv, mutex \in Mutexes, NEW t \in Threads, NEW u \in Threads,
         LockedLevels(stack[t]) # {}, LockedLevels(stack[u]) # {}
  PROVE  t = u
  BY DEF Serialized, LockInv

(* Between the test of the INITIALIZED bit of a class and its setting no     *)
(* other call sets it; a call that has set it sends +initialize, which no    *)
(* call did before.                                                          *)
ToSend == {"si_register", "si_send"}

TestStands ==
    \A t \in Threads : \A k \in Levels(stack[t]) :
        Level(stack[t], k).at = "si_set" =>
            k = Len(stack[t]) /\ Level(stack[t], k).node \notin initialized
SentMarked ==
    /\ finished \subseteq initialized
    /\ \A t \in Threads : \A k \in Levels(stack[t]) :
           Level(stack[t], k).at \in Sent => Level(stack[t], k).node \in initialized
NotSentYet ==
    \A t \in Threads : \A k \in Levels(stack[t]) :
        Level(stack[t], k).at \in ToSend /\ Level(stack[t], k).node \in Classes =>
            started[Level(stack[t], k).node] = 0
SentByOne ==
    \A t, u \in Threads : \A k \in Levels(stack[t]), j \in Levels(stack[u]) :
        /\ Level(stack[t], k).at \in ToSend /\ Level(stack[u], j).at \in ToSend
        /\ Level(stack[t], k).node = Level(stack[u], j).node
        => t = u /\ k = j
StartedOnce ==
    \A c \in Classes : started[c] <= 1 /\ (started[c] > 0 => c \in initialized)

OnceInv == TestStands /\ SentMarked /\ NotSentYet /\ SentByOne /\ StartedOnce

(* Where a level's line can have come from.                                  *)
LEMMA SendingLines ==
  ASSUME NEW a, NEW b, NextLine(a, b)
  PROVE  /\ b = "si_set" => a = "si_test"
         /\ a # "si_set" /\ b \in Sent => a \in Sent
         /\ b = "si_register" => a = "si_set"
         /\ b = "si_send" => a = "si_register"
         /\ a = "si_set" => b = "si_register"
         /\ a = "si_send" => b = "si_body"
         /\ b \in ToSend /\ a # "si_set" => a = "si_register"
  BY DEF NextLine, Going, Taking, Giving, Calling, Looking, Sent, ToSend

(* No method begins where +initialize is being sent.                         *)
LEMMA NoFirstSent == \A l \in FirstLines : l \notin Sent /\ l \notin ToSend /\ l # "si_set"
  BY DEF FirstLines, Sent, ToSend

(* A level that sends now did before, or has just marked its class.          *)
LEMMA SentLevel ==
  ASSUME TypeOK, NEW t \in Threads, Abstractly(t), NEW k \in Levels(stack'[t]),
         Level(stack'[t], k).at \in Sent
  PROVE  /\ k \in Levels(stack[t]) /\ Level(stack'[t], k).node = Level(stack[t], k).node
         /\ \/ Level(stack[t], k).at \in Sent
            \/ /\ Level(stack[t], k).at = "si_set" /\ k = Len(stack[t])
               /\ At(t, "si_set") /\ Node(t) = Level(stack[t], k).node
         /\ Level(stack'[t], k).at \in ToSend =>
                \/ Level(stack[t], k).at \in ToSend /\ (At(t, "si_send") => k # Len(stack[t]))
                \/ Level(stack[t], k).at = "si_set"
<1> PICK s : s = stack[t]
  OBVIOUS
<1> PICK r : r = stack'[t]
  OBVIOUS
<1>1. /\ k \in Levels(s) /\ Level(r, k).node = Level(s, k).node
      /\ \/ Level(r, k) = Level(s, k)
         \/ k = Len(s) /\ NextLine(Level(s, k).at, Level(r, k).at)
  BY LevelsAre, NoFirstSent
<1>2. Len(s) \in Nat /\ k \in 1..Len(s) /\ s # <<>>
  <2>1. Len(s) \in Nat /\ k \in 1..Len(s)
    BY <1>1 DEF TypeOK, Levels
  <2> QED
    BY <2>1
<1>3. Top(t) = Level(s, Len(s)) /\ Node(t) = Level(s, Len(s)).node
  BY <1>2, TopTyped DEF Node
<1>4. /\ Level(s, k).at \in Sent \/ (Level(s, k).at = "si_set" /\ k = Len(s))
  BY <1>1, SendingLines, NoFirstSent DEF Sent
<1>5. Level(s, k).at = "si_set" /\ k = Len(s) => At(t, "si_set") /\ Node(t) = Level(s, k).node
  BY <1>2, <1>3 DEF At
<1>6. ASSUME Level(r, k).at \in ToSend, Level(s, k).at # "si_set"
      PROVE  Level(s, k).at \in ToSend /\ (At(t, "si_send") => k # Len(s))
  <2>1. CASE k = Len(s) /\ NextLine(Level(s, k).at, Level(r, k).at)
    <3>1. Level(s, k).at = "si_register"
      BY <1>6, <2>1, SendingLines
    <3> QED
      BY <1>3, <2>1, <3>1 DEF At, ToSend
  <2>2. CASE Level(r, k) = Level(s, k)
    <3>1. Level(s, k).at \in ToSend
      BY <1>6, <2>2
    <3>2. ASSUME k = Len(s), At(t, "si_send") PROVE FALSE
      <4>1. \A x : /\ <<"si_send", x>> \in Going => x = "si_body"
                   /\ <<"si_send", x>> \notin Taking /\ <<"si_send", x>> \notin Giving
                   /\ \A y : <<"si_send", x, y>> \notin Calling
        BY DEF Going, Taking, Giving, Calling, Looking
      <4>2. "si_send" \notin Returning /\ "si_send" \notin Ending
        BY DEF Returning, Ending
      <4>3. PICK f : Moves(s, r, f) /\ f.at = "si_body"
        BY <3>2, <4>1, <4>2 DEF Abstractly, StackStep, At
      <4> QED
        BY <1>6, <3>2, <4>3 DEF Moves, ToSend
    <3> QED
      BY <3>1, <3>2
  <2> QED
    BY <1>1, <2>1, <2>2
<1> QED
  BY <1>1, <1>4, <1>5, <1>6

(* Who has marked a class goes on to register the selector.                  *)
LEMMA SetGoesOn ==
  ASSUME TypeOK, NEW t \in Threads, Abstractly(t), At(t, "si_set")
  PROVE  /\ Len(stack[t]) \in Levels(stack'[t])
         /\ Level(stack'[t], Len(stack[t])).at = "si_register"
<1> PICK s : s = stack[t]
  OBVIOUS
<1> PICK r : r = stack'[t]
  OBVIOUS
<1>1. s # <<>> /\ Top(t).at = "si_set" /\ Len(s) \in Nat /\ Len(s) > 0
  BY HeadIs DEF At, TypeOK
<1>2. \A x, y : /\ <<"si_set", x>> \in Going => x = "si_register"
                /\ <<"si_set", x>> \notin Taking /\ <<"si_set", x>> \notin Giving
                /\ <<"si_set", x, y>> \in Calling => x = "si_register"
  BY DEF Going, Taking, Giving, Calling, Looking
<1>3. "si_set" \notin Returning /\ "si_set" \notin Ending
  BY DEF Returning, Ending
<1>4. \A f, g : Moves(s, r, f) \/ Pushes(s, r, f, g) =>
                    Len(s) \in Levels(r) /\ Level(r, Len(s)) = f
  BY <1>1 DEF Moves, Pushes, Levels
<1> QED
  BY <1>1, <1>2, <1>3, <1>4 DEF Abstractly, StackStep

(* A thread that is at the setting of the bit is inside the lock.            *)
LEMMA InnerInside ==
  ASSUME CoveredInv, TypeOK, NEW t \in Threads, NEW k \in Levels(stack[t]),
         Level(stack[t], k).at \in Inner
  PROVE  LockedLevels(stack[t]) # {}
<1>1. PICK j \in 1..(k - 1) : Level(stack[t], j).at \in Locked
  BY DEF CoveredInv
<1>2. j \in Levels(stack[t])
  BY <1>1 DEF TypeOK, Levels
<1> QED
  BY <1>1, <1>2 DEF LockedLevels

(* A thread at a line has its highest level there.                           *)
LEMMA TopIs ==
  ASSUME TypeOK, NEW t \in Threads, NEW l, At(t, l)
  PROVE  /\ Len(stack[t]) \in Levels(stack[t]) /\ Level(stack[t], Len(stack[t])).at = l
         /\ Level(stack[t], Len(stack[t])).node = Node(t) /\ Node(t) \in Nodes
  BY TopTyped, HeadIs DEF At, Node, Levels, TypeOK

(* The INITIALIZED bit found clear is still clear when it is set: no other   *)
(* thread is inside the lock, and this one is at the setting.                *)
LEMMA TestStandsStep ==
  ASSUME TypeOK, Serialized, mutex \in Mutexes, LockInv, CoveredInv, TestStands,
         NEW t \in Threads, Abstractly(t)
  PROVE  TestStands'
<1> SUFFICES ASSUME NEW u \in Threads, NEW k \in Levels(stack'[u]),
                    Level(stack'[u], k).at = "si_set"
             PROVE  k = Len(stack'[u]) /\ Level(stack'[u], k).node \notin initialized'
  BY DEF TestStands, Level, Levels
<1>1. "si_set" \in Inner
  BY DEF Inner, Sending
<1>2. CASE u # t
  <2>1. stack'[u] = stack[u]
    BY <1>2 DEF Abstractly, OfThread
  <2>2. k = Len(stack[u]) /\ Level(stack[u], k).node \notin initialized
    BY <2>1 DEF TestStands
  <2>3. ~At(t, "si_set")
    <3>1. LockedLevels(stack[u]) # {}
      BY <1>1, <2>1, InnerInside
    <3>2. ASSUME At(t, "si_set") PROVE LockedLevels(stack[t]) # {}
      BY <1>1, <3>2, TopIs, InnerInside
    <3> QED
      BY <1>2, <3>1, <3>2, OneInside
  <2> QED
    BY <2>1, <2>2, <2>3 DEF Abstractly, Marks
<1>3. CASE u = t
  <2> PICK s : s = stack[t]
    OBVIOUS
  <2> PICK r : r = stack'[t]
    OBVIOUS
  <2>1. k \in Levels(s) /\ Level(s, k).at = "si_set" => FALSE
    <3> SUFFICES ASSUME k \in Levels(s), Level(s, k).at = "si_set" PROVE FALSE
      OBVIOUS
    <3>1. k = Len(s) /\ s # <<>>
      <4>1. k = Len(s) /\ k \in 1..Len(s)
        BY DEF TestStands, Levels
      <4> QED
        BY <4>1
    <3>2. At(t, "si_set")
      BY <3>1, TopTyped DEF At
    <3> QED
      BY <1>3, <3>1, <3>2, SetGoesOn
  <2>2. /\ k = Len(s) /\ k \in Levels(s) /\ Level(r, k).node = Level(s, k).node
        /\ NextLine(Level(s, k).at, "si_set")
    BY <1>3, <2>1, LevelsAre, NoFirstSent
  <2>3. Level(s, k).at = "si_test"
    BY <2>2, SendingLines
  <2>4. s # <<>> /\ Top(t).at = "si_test" /\ Node(t) = Level(s, k).node
    <3>1. s # <<>>
      BY <2>2 DEF Levels
    <3> QED
      BY <2>2, <2>3, <3>1, TopTyped DEF Node
  <2>5. \A x, y : <<"si_test", x, y>> \notin Calling
    BY DEF Calling
  <2>6. Len(s) \in Nat /\ ~Pops(s, r)
    BY <1>3, <2>2 DEF Pops, Levels, TypeOK
  <2>7. \E f \in FrameType : Moves(s, r, f) /\ Node(t) \notin initialized
    BY <2>4, <2>5, <2>6 DEF Abstractly, StackStep
  <2>8. Len(r) = Len(s)
    BY <2>7 DEF Moves
  <2>9. initialized' = initialized
    BY <2>4 DEF Abstractly, Marks, At
  <2> QED
    BY <1>3, <2>2, <2>4, <2>7, <2>8, <2>9
<1> QED
  BY <1>2, <1>3

(* Who has been sent +initialize is marked: each step keeps it.              *)
LEMMA SentMarkedStep ==
  ASSUME TypeOK, SentMarked, NEW t \in Threads, Abstractly(t)
  PROVE  SentMarked'
<1>1. initialized \subseteq initialized'
  BY DEF Abstractly, Marks
<1>2. finished' \subseteq initialized'
  <2>1. finished' \subseteq finished \cup {Node(t)} /\ (finished' # finished => At(t, "si_body"))
    BY DEF Abstractly, Marks
  <2>2. ASSUME At(t, "si_body") PROVE Node(t) \in initialized
    BY <2>2, TopIs DEF SentMarked, Sent
  <2> QED
    BY <1>1, <2>1, <2>2 DEF SentMarked
<1>3. ASSUME NEW u \in Threads, NEW k \in Levels(stack'[u]), Level(stack'[u], k).at \in Sent
      PROVE  Level(stack'[u], k).node \in initialized'
  <2>1. CASE u # t
    <3>1. stack'[u] = stack[u]
      BY <2>1 DEF Abstractly, OfThread
    <3> QED
      BY <1>1, <1>3, <3>1 DEF SentMarked
  <2>2. CASE u = t
    <3>1. /\ k \in Levels(stack[t]) /\ Level(stack'[t], k).node = Level(stack[t], k).node
          /\ \/ Level(stack[t], k).at \in Sent
             \/ At(t, "si_set") /\ Node(t) = Level(stack[t], k).node
      BY <1>3, <2>2, SentLevel
    <3>2. At(t, "si_set") => Node(t) \in initialized'
      BY DEF Abstractly, Marks
    <3> QED
      BY <1>1, <2>2, <3>1, <3>2 DEF SentMarked
  <2> QED
    BY <2>1, <2>2
<1> QED
  BY <1>2, <1>3 DEF SentMarked, Level, Levels

(* A level that is to send was to before, or has just set the bit.           *)
LEMMA ToSendLevel ==
  ASSUME TypeOK, NEW t \in Threads, Abstractly(t), NEW u \in Threads,
         NEW k \in Levels(stack'[u]), Level(stack'[u], k).at \in ToSend
  PROVE  /\ k \in Levels(stack[u]) /\ Level(stack'[u], k).node = Level(stack[u], k).node
         /\ \/ /\ Level(stack[u], k).at \in ToSend
               /\ ~(u = t /\ At(t, "si_send") /\ k = Len(stack[t]))
            \/ /\ u = t /\ At(t, "si_set") /\ k = Len(stack[t])
               /\ Level(stack[t], k).at = "si_set" /\ Node(t) = Level(stack[t], k).node
<1>1. CASE u # t
  <2>1. stack'[u] = stack[u]
    BY <1>1 DEF Abstractly, OfThread
  <2> QED
    BY <1>1, <2>1
<1>2. CASE u = t
  <2>1. Level(stack'[t], k).at \in Sent
    BY <1>2 DEF ToSend, Sent
  <2>2. "si_set" \notin Sent
    BY DEF Sent
  <2> QED
    BY <1>2, <2>1, <2>2, SentLevel
<1> QED
  BY <1>1, <1>2

(* A class that is to be sent +initialize has not been sent it: each step    *)
(* keeps it.                                                                 *)
LEMMA NotSentYetStep ==
  ASSUME TypeOK, OnceInv, NEW t \in Threads, Abstractly(t)
  PROVE  NotSentYet'
<1> SUFFICES ASSUME NEW u \in Threads, NEW k \in Levels(stack'[u]),
                    Level(stack'[u], k).at \in ToSend, Level(stack'[u], k).node \in Classes
             PROVE  started'[Level(stack'[u], k).node] = 0
  BY DEF NotSentYet, Level, Levels
<1> PICK c : c = Level(stack'[u], k).node
  OBVIOUS
<1>1. c \in Classes /\ started \in [Classes -> Nat]
  BY DEF TypeOK
<1>2. k \in Levels(stack[u]) /\ c = Level(stack[u], k).node
  BY ToSendLevel
<1>3. CASE Level(stack[u], k).at \in ToSend /\ ~(u = t /\ At(t, "si_send") /\ k = Len(stack[t]))
  <2>1. started[c] = 0
    BY <1>1, <1>2, <1>3 DEF OnceInv, NotSentYet
  <2>2. At(t, "si_send") => Node(t) # c
    <3> SUFFICES ASSUME At(t, "si_send"), Node(t) = c PROVE FALSE
      OBVIOUS
    <3>1. /\ Len(stack[t]) \in Levels(stack[t])
          /\ Level(stack[t], Len(stack[t])).at \in ToSend
          /\ Level(stack[t], Len(stack[t])).node = c
      BY TopIs DEF ToSend
    <3>2. u = t /\ k = Len(stack[t])
      BY <1>2, <1>3, <3>1 DEF OnceInv, SentByOne
    <3> QED
      BY <1>3, <3>2
  <2>3. started'[c] = started[c]
    BY <1>1, <2>2 DEF Abstractly, Marks
  <2> QED
    BY <2>1, <2>3
<1>4. CASE u = t /\ At(t, "si_set") /\ Level(stack[t], k).at = "si_set"
  <2>1. c \notin initialized
    BY <1>2, <1>4 DEF OnceInv, TestStands
  <2>2. started[c] = 0
    BY <1>1, <2>1 DEF OnceInv, StartedOnce
  <2>3. started' = started
    BY <1>4 DEF Abstractly, Marks, At
  <2> QED
    BY <2>2, <2>3
<1> QED
  BY <1>3, <1>4, ToSendLevel

(* One level at most is to send +initialize to a class, or sends it: each    *)
(* step keeps it.                                                            *)
LEMMA SentByOneStep ==
  ASSUME TypeOK, OnceInv, NEW t \in Threads, Abstractly(t)
  PROVE  SentByOne'
<1> SUFFICES ASSUME NEW u \in Threads, NEW v \in Threads,
                    NEW k \in Levels(stack'[u]), NEW j \in Levels(stack'[v]),
                    Level(stack'[u], k).at \in ToSend, Level(stack'[v], j).at \in ToSend,
                    Level(stack'[u], k).node = Level(stack'[v], j).node
             PROVE  u = v /\ k = j
  BY DEF SentByOne, Level, Levels
<1>1. /\ k \in Levels(stack[u]) /\ j \in Levels(stack[v])
      /\ Level(stack[u], k).node = Level(stack[v], j).node
  BY ToSendLevel
<1>2. \A w \in Threads : \A i \in Levels(stack[w]) :
        /\ Level(stack[w], i).at \in ToSend => Level(stack[w], i).node \in initialized
        /\ Level(stack[w], i).at = "si_set" => Level(stack[w], i).node \notin initialized
  BY DEF OnceInv, SentMarked, TestStands, ToSend, Sent
<1>3. CASE Level(stack[u], k).at \in ToSend /\ Level(stack[v], j).at \in ToSend
  BY <1>1, <1>3 DEF OnceInv, SentByOne
<1>4. /\ \/ Level(stack[u], k).at \in ToSend
         \/ u = t /\ k = Len(stack[t]) /\ Level(stack[u], k).at = "si_set"
      /\ \/ Level(stack[v], j).at \in ToSend
         \/ v = t /\ j = Len(stack[t]) /\ Level(stack[v], j).at = "si_set"
  BY ToSendLevel
<1> QED
  BY <1>1, <1>2, <1>3, <1>4

(* No class has been sent +initialize twice: each step keeps it.             *)
LEMMA StartedOnceStep ==
  ASSUME TypeOK, OnceInv, NEW t \in Threads, Abstractly(t)
  PROVE  StartedOnce'
<1> SUFFICES ASSUME NEW c \in Classes
             PROVE  started'[c] <= 1 /\ (started'[c] > 0 => c \in initialized')
  BY DEF StartedOnce
<1>1. initialized \subseteq initialized' /\ started \in [Classes -> Nat]
  BY DEF Abstractly, Marks, TypeOK
<1>2. started[c] <= 1 /\ (started[c] > 0 => c \in initialized)
  BY DEF OnceInv, StartedOnce
<1>3. CASE At(t, "si_send") /\ c = Node(t)
  <2>1. started[c] = 0 /\ c \in initialized
    BY <1>3, TopIs DEF OnceInv, NotSentYet, SentMarked, ToSend, Sent
  <2>2. started'[c] = started[c] + 1
    BY <1>1, <1>3 DEF Abstractly, Marks
  <2> QED
    BY <1>1, <2>1, <2>2
<1>4. CASE ~(At(t, "si_send") /\ c = Node(t))
  <2>1. started'[c] = started[c]
    BY <1>1, <1>4 DEF Abstractly, Marks
  <2> QED
    BY <1>1, <1>2, <2>1
<1> QED
  BY <1>3, <1>4

(* The order of the calls under the lock, and what it has for each class.    *)
SerialInv == mutex \in Mutexes /\ LockInv /\ CoveredInv /\ OnceInv

(* Every step keeps the order of calls under the lock.                       *)
LEMMA SerialStep ==
  ASSUME Serialized, TypeOK, SerialInv, [Next]_vars
  PROVE  SerialInv'
<1>1. CASE UNCHANGED vars
  <2>1. /\ stack' = stack /\ initialized' = initialized /\ finished' = finished
        /\ started' = started /\ mutex' = mutex /\ holder' = holder /\ depth' = depth
    BY <1>1 DEF vars, classes, lock
  <2>2. LockInv'
    BY <2>1 DEF SerialInv, LockInv, LockedLevels, Level, Levels
  <2>3. CoveredInv'
    BY <2>1 DEF SerialInv, CoveredInv, Level, Levels
  <2>4. TestStands' /\ SentMarked'
    BY <2>1 DEF SerialInv, OnceInv, TestStands, SentMarked, Level, Levels
  <2>5. NotSentYet' /\ SentByOne' /\ StartedOnce'
    BY <2>1 DEF SerialInv, OnceInv, NotSentYet, SentByOne, StartedOnce, Level, Levels
  <2> QED
    BY <2>1, <2>2, <2>3, <2>4, <2>5 DEF SerialInv, OnceInv
<1>2. CASE Next
  <2>1. mutex' = mutex
    BY <1>2 DEF Next, Step, AnyCall
  <2>2. PICK t \in Threads : Abstractly(t)
    BY <1>2, AbstractStep
  <2>3. TestStands' /\ SentMarked' /\ NotSentYet' /\ SentByOne' /\ StartedOnce'
    BY <2>2, TestStandsStep, SentMarkedStep, NotSentYetStep, SentByOneStep, StartedOnceStep
    DEF SerialInv, OnceInv
  <2>4. LockInv' /\ CoveredInv'
    BY <2>1, <2>2, LockStep, CoveredStep DEF SerialInv
  <2> QED
    BY <2>1, <2>3, <2>4 DEF SerialInv, OnceInv
<1> QED
  BY <1>1, <1>2

(* At first nothing is under the lock.                                       *)
LEMMA SerialInit == Init => SerialInv
<1> SUFFICES ASSUME Init PROVE SerialInv
  OBVIOUS
<1>1. \A t \in Threads : Levels(stack[t]) = {} /\ LockedLevels(stack[t]) = {}
  <2>1. Levels(<<>>) = {} /\ LockedLevels(<<>>) = {}
    BY DEF Levels, LockedLevels
  <2> QED
    BY <2>1 DEF Init
<1>2. OnceInv /\ CoveredInv
  BY <1>1 DEF Init, OnceInv, TestStands, SentMarked, NotSentYet, SentByOne, StartedOnce,
     CoveredInv
<1>3. mutex \in Mutexes /\ LockInv
  BY <1>1, ThreadsAssumption DEF Init, LockInit, LockInv
<1> QED
  BY <1>2, <1>3 DEF SerialInv

(* With the recursive lock the code relies on, or in a program of one        *)
(* thread, calls to initialize a class are made one after another.           *)
THEOREM Serializing == Serialized => (Spec => [](TypeOK /\ SerialInv))
<1> SUFFICES ASSUME Serialized PROVE Spec => [](TypeOK /\ SerialInv)
  OBVIOUS
<1>1. Init => TypeOK /\ SerialInv
  BY TypeInit, SerialInit
<1>2. TypeOK /\ SerialInv /\ [Next]_vars => (TypeOK /\ SerialInv)'
  BY TypeStep, SerialStep
<1> QED
  BY <1>1, <1>2, PTL DEF Spec

(* So a class gets its +initialize at most once: __tour_send_initialize      *)
(* tests the INITIALIZED bit and sets it in two steps.                       *)
THEOREM InitializeOnce == Serialized => (Spec => []InitializedOnce)
<1> SUFFICES ASSUME Serialized PROVE Spec => []InitializedOnce
  OBVIOUS
<1>1. SerialInv => InitializedOnce
  BY DEF SerialInv, OnceInv, StartedOnce, InitializedOnce
<1> QED
  BY <1>1, Serializing, PTL

-----------------------------------------------------------------------------
(* What the assertions of messaging.c rest on, for a stack s, the tables d   *)
(* and the prepared tables p.                                                *)
Messaging == {"gi_fast", "gi_read", "gi_load", "gi_lock", "gi_test", "gi_after"}
Responding == {"rt_read", "rt_lock", "rt_test", "rt_after"}
Updates == {"am_link", "up_lock", "up_test", "up_subs", "up_unlock"}
Called == Messaging \cup Responding \cup Updates \cup {"answered"}
Pending == {"in_init", "in_install"}

Has(d, p, n) == d[n] # Uninstalled \/ p[n] # <<>>
SuperHas(d, p, n) == Super[n] \in Nodes => Has(d, p, Super[n])

(* Frame f has called frame g.                                               *)
CalledFrom(f, g) ==
    \/ f.at \in {"gi_after", "rt_after"} /\ g.at \in Installing /\ g.node = f.node
    \/ f.at = "in_check" /\ g.at \in Installing /\ g.node = Super[f.node]
    \/ f.at = "in_init" /\ g.at \in Preparing /\ g.node = f.node
    \/ f.at = "in_install" /\ g.at \in Sending
    \/ f.at = "pr_copy" /\ g.at \in Installing /\ g.node = Super[f.node]
    \/ f.at = "si_register" /\ g.at \in Sending
    \/ f.at = "si_body" /\ g.at \in Called
    \/ f.at = "up_unlock" /\ g.at \in Preparing /\ g.node = f.node
    \/ f.at = "up_subs" /\ g.at \in Installing \cup Updates

Shape(s) == \A k \in 1..(Len(s) - 1) : CalledFrom(Level(s, k), Level(s, k + 1))

PendingAt(s, n) ==
    \E k \in Levels(s) : Level(s, k).at \in Pending /\ Level(s, k).node = n
Remaking(s, n) ==
    \E k \in Levels(s) : Level(s, k).at \in {"pr_super", "pr_copy"} /\ Level(s, k).node = n

(* The class of an installation in progress has no table, and one of them.   *)
PendingOK(s, d) ==
    \A k \in Levels(s) : Level(s, k).at \in Pending =>
        /\ d[Level(s, k).node] = Uninstalled
        /\ \A j \in Levels(s) :
               Level(s, j).at \in Pending /\ Level(s, j).node = Level(s, k).node => j = k

(* While +initialize runs the class keeps its prepared table, but for an     *)
(* update that makes it anew.                                                *)
AwaitedOK(s, p) ==
    \A k \in Levels(s) :
        /\ Level(s, k).at = "in_install" =>
               p[Level(s, k).node] # <<>> \/ Remaking(s, Level(s, k).node)
        /\ Level(s, k).at = "in_init" /\ k = Len(s) => p[Level(s, k).node] # <<>>

(* A table is prepared for a class that waits to install it, whose           *)
(* superclass has one; no call is made meanwhile but one that finds the      *)
(* superclass's prepared.                                                    *)
PreparingOK(s, d, p) ==
    \A k \in Levels(s) : Level(s, k).at \in Preparing =>
        /\ d[Level(s, k).node] = Uninstalled
        /\ SuperHas(d, p, Level(s, k).node)
        /\ PendingAt(s, Level(s, k).node)
        /\ Level(s, k).at # "pr_start" => p[Level(s, k).node] = <<>>
        /\ \/ k = Len(s)
           \/ /\ k = Len(s) - 1 /\ Level(s, k).at = "pr_copy"
              /\ Level(s, Len(s)).at \in {"in_super", "in_prepared"}
              /\ p[Super[Level(s, k).node]] # <<>>

(* What an installation has found out.                                       *)
InstallingOK(s, d, p) ==
    Len(s) > 0 =>
        LET f == Level(s, Len(s)) IN
        /\ f.at \in {"in_super", "in_prepared"} => d[f.node] = Uninstalled
        /\ f.at \in {"in_check", "in_prepared"} => SuperHas(d, p, f.node)
        /\ f.at = "in_super" /\ Level(s, Len(s) - 1).at = "up_subs" => SuperHas(d, p, f.node)

(* A careful program sends no message to a class it is installing.           *)
MessagesOK(s) ==
    \A k \in Levels(s) : Level(s, k).at \in Messaging =>
        \A j \in 1..(k - 1) : Level(s, j).at \in Pending => Level(s, j).node # Level(s, k).node

(* After the first message its class has a table.                            *)
AfterOK(s, d, p) ==
    Len(s) > 0 =>
        LET f == Level(s, Len(s)) IN
        /\ f.at = "gi_after" => d[f.node] # Uninstalled
        /\ f.at = "rt_after" => Has(d, p, f.node)

StackOK(s, d, p) ==
    /\ Shape(s) /\ PendingOK(s, d) /\ AwaitedOK(s, p) /\ PreparingOK(s, d, p)
    /\ InstallingOK(s, d, p) /\ MessagesOK(s) /\ AfterOK(s, d, p)

(* The table of w is being made anew: its subclasses are ahead of it.        *)
Anew(s, w) ==
    \/ \E k \in Levels(s) : Level(s, k).at \in Preparing /\ Level(s, k).node = w
    \/ /\ Len(s) > 1
       /\ Level(s, Len(s)).at \in {"in_super", "in_prepared"} /\ Level(s, Len(s)).node = w
       /\ Level(s, Len(s) - 1).at = "up_subs"

(* A class has a table installed or one prepared, not both; one is prepared  *)
(* for a call that waits to install it; a class has one if a subclass has.   *)
OneTable(d, p) ==
    \A n \in Nodes : Len(p[n]) <= 1 /\ (d[n] # Uninstalled => p[n] = <<>>)
PreparedPending ==
    \A n \in Nodes : Prepared(n) => \E t \in Threads : PendingAt(stack[t], n)
SupersFirst ==
    \A n \in Nodes : Has(dtable, prepared, n) =>
        \/ SuperHas(dtable, prepared, n)
        \/ \E t \in Threads : Anew(stack[t], Super[n])

TablesInv ==
    /\ \A t \in Threads : StackOK(stack[t], dtable, prepared)
    /\ OneTable(dtable, prepared) /\ PreparedPending /\ SupersFirst

(* A stack and tables as they are, and that what is said above holds.        *)
Fits(s, d, p) ==
    /\ s \in Seq(FrameType) /\ Len(s) \in Nat
    /\ \A k \in Levels(s) : Level(s, k) \in FrameType
    /\ StackOK(s, d, p)

(* Where no table is being prepared, waiting calls have their tables.        *)
Busy == Preparing \cup {"in_super", "in_prepared"}

(* Where no table is being prepared, every call that waits for one to be     *)
(* installed has it prepared.                                                *)
LEMMA Waiting ==
  ASSUME NEW s, NEW d, NEW p, Fits(s, d, p), \A k \in Levels(s) : Level(s, k).at \notin Preparing
  PROVE  \A k \in Levels(s) :
           /\ Level(s, k).at = "in_init" => k = Len(s)
           /\ Level(s, k).at \in Pending => p[Level(s, k).node] # <<>>
<1>1. Len(s) \in Nat
  BY DEF Fits
<1>2. ASSUME NEW k \in Levels(s), Level(s, k).at = "in_init" PROVE k = Len(s)
  <2> SUFFICES ASSUME k # Len(s) PROVE FALSE
    OBVIOUS
  <2>1. k \in 1..(Len(s) - 1) /\ k + 1 \in Levels(s)
    BY <1>1 DEF Levels
  <2>2. CalledFrom(Level(s, k), Level(s, k + 1))
    BY <2>1 DEF Fits, StackOK, Shape
  <2>3. Level(s, k + 1).at \in Preparing
    BY <1>2, <2>2 DEF CalledFrom
  <2> QED
    BY <2>1, <2>3
<1>3. ASSUME NEW k \in Levels(s), Level(s, k).at \in Pending PROVE p[Level(s, k).node] # <<>>
  <2>1. ~Remaking(s, Level(s, k).node)
    BY DEF Remaking, Preparing
  <2>2. Level(s, k).at = "in_init" => k = Len(s)
    BY <1>2
  <2> QED
    BY <1>3, <2>1, <2>2 DEF Fits, StackOK, AwaitedOK, Pending
<1> QED
  BY <1>2, <1>3

(* A stack whose highest level neither prepares nor looks for a table        *)
(* prepares none anywhere.                                                   *)
LEMMA Calm ==
  ASSUME NEW s, NEW d, NEW p, Fits(s, d, p), Len(s) > 0 => Level(s, Len(s)).at \notin Busy
  PROVE  /\ \A k \in Levels(s) :
              /\ Level(s, k).at \notin Preparing
              /\ Level(s, k).at \in Pending => p[Level(s, k).node] # <<>>
         /\ \A w : ~Anew(s, w)
<1>1. Len(s) \in Nat
  BY DEF Fits
<1>2. ASSUME NEW k \in Levels(s), Level(s, k).at \in Preparing PROVE FALSE
  <2>1. k \in 1..Len(s) /\ Len(s) > 0
    BY <1>1 DEF Levels
  <2>2. k = Len(s) \/ Level(s, Len(s)).at \in {"in_super", "in_prepared"}
    BY <1>2 DEF Fits, StackOK, PreparingOK
  <2> QED
    BY <1>2, <2>1, <2>2 DEF Busy
<1>3. ASSUME NEW w PROVE ~Anew(s, w)
  BY <1>1, <1>2 DEF Anew, Busy
<1> QED
  BY <1>2, <1>3, Waiting

(* What makes a stack fit where no table is being prepared.                  *)
LEMMA CalmFits ==
  ASSUME NEW s \in Seq(FrameType), NEW d, NEW p,
         Shape(s), PendingOK(s, d), MessagesOK(s), InstallingOK(s, d, p), AfterOK(s, d, p),
         \A k \in Levels(s) : Level(s, k).at \notin Preparing,
         \A k \in Levels(s) : Level(s, k).at \in Pending => p[Level(s, k).node] # <<>>
  PROVE  Fits(s, d, p)
<1>1. Len(s) \in Nat /\ \A k \in Levels(s) : Level(s, k) \in FrameType
  BY LevelTyped
<1>2. AwaitedOK(s, p) /\ PreparingOK(s, d, p)
  BY DEF AwaitedOK, PreparingOK, Pending
<1> QED
  BY <1>1, <1>2 DEF Fits, StackOK

(* A step in which no table changes.                                         *)
Quietly(s, r, d, p) ==
    /\ Fits(r, d, p)
    /\ \A n : PendingAt(s, n) => PendingAt(r, n)
    /\ \A w : Anew(s, w) => Anew(r, w) \/ Has(d, p, w)

Plain(l) == l \notin Installing \cup Preparing \cup {"gi_after", "rt_after"}

(* A stack that prepares nothing fits after a move that prepares nothing     *)
(* either.                                                                   *)
LEMMA CalmMove ==
  ASSUME NEW s, NEW r \in Seq(FrameType), NEW d, NEW p, NEW f, NEW top,
         Fits(s, d, p), Moves(s, r, f), top = Level(s, Len(s)), f.node = top.node,
         \A k \in Levels(s) : /\ Level(s, k).at \notin Preparing
                              /\ Level(s, k).at \in Pending => p[Level(s, k).node] # <<>>,
         f.at \notin Pending, top.at \notin Pending, f.at \notin Preparing,
         f.at \in Messaging => top.at \in Messaging,
         \A g : CalledFrom(g, top) => CalledFrom(g, f),
         InstallingOK(r, d, p), AfterOK(r, d, p)
  PROVE  /\ Fits(r, d, p)
         /\ \A n : PendingAt(s, n) => PendingAt(r, n)
<1>1. /\ Len(s) \in Nat /\ Len(s) > 0 /\ Len(r) = Len(s) /\ Level(r, Len(s)) = f
      /\ \A k \in 1..(Len(s) - 1) : Level(r, k) = Level(s, k)
  BY DEF Fits, Moves
<1>2. Levels(r) = Levels(s)
  BY <1>1 DEF Levels
<1>3. \A k \in Levels(s) :
         /\ Level(r, k).node = Level(s, k).node
         /\ Level(r, k).at \in Messaging => Level(s, k).at \in Messaging
         /\ Level(r, k).at \in Pending <=> Level(s, k).at \in Pending
         /\ Level(r, k).at \notin Preparing
  BY <1>1 DEF Levels
<1>4. Shape(r)
  <2> SUFFICES ASSUME NEW k \in 1..(Len(s) - 1) PROVE CalledFrom(Level(r, k), Level(r, k + 1))
    BY <1>1 DEF Shape
  <2>1. CalledFrom(Level(s, k), Level(s, k + 1)) /\ Level(r, k) = Level(s, k)
    BY <1>1 DEF Fits, StackOK, Shape
  <2>2. CASE k + 1 < Len(s)
    <3>1. k + 1 \in 1..(Len(s) - 1)
      BY <1>1, <2>2
    <3> QED
      BY <1>1, <2>1, <3>1
  <2>3. CASE k + 1 = Len(s)
    BY <1>1, <2>1, <2>3
  <2> QED
    BY <1>1, <2>2, <2>3
<1>5. PendingOK(r, d)
  BY <1>2, <1>3 DEF PendingOK, Fits, StackOK
<1>6. MessagesOK(r)
  <2>1. \A k \in Levels(s) : \A j \in 1..(k - 1) : j \in Levels(s)
    BY <1>1 DEF Levels
  <2> QED
    BY <1>2, <1>3, <2>1 DEF MessagesOK, Fits, StackOK
<1>7. Fits(r, d, p)
  BY <1>2, <1>3, <1>4, <1>5, <1>6, CalmFits
<1>8. \A n : PendingAt(s, n) => PendingAt(r, n)
  BY <1>2, <1>3 DEF PendingAt
<1> QED
  BY <1>7, <1>8

(* A move among lines that neither install nor prepare is quiet.             *)
LEMMA QuietMove ==
  ASSUME NEW s, NEW r \in Seq(FrameType), NEW d, NEW p, NEW f, NEW top,
         Fits(s, d, p), Moves(s, r, f), top = Level(s, Len(s)), f.node = top.node,
         top.at \notin Installing \cup Preparing, Plain(f.at),
         f.at \in Messaging => top.at \in Messaging,
         \A g : CalledFrom(g, top) => CalledFrom(g, f)
  PROVE  Quietly(s, r, d, p)
<1>1. /\ \A w : ~Anew(s, w)
      /\ \A k \in Levels(s) : /\ Level(s, k).at \notin Preparing
                              /\ Level(s, k).at \in Pending => p[Level(s, k).node] # <<>>
  <2>1. top.at \notin Busy
    BY DEF Busy, Installing
  <2> QED
    BY <2>1, Calm
<1>2. f.at \notin Pending /\ top.at \notin Pending /\ f.at \notin Preparing
  BY DEF Pending, Installing, Plain
<1>3. Level(r, Len(r)) = f
  BY DEF Moves
<1>4. InstallingOK(r, d, p) /\ AfterOK(r, d, p)
  BY <1>3 DEF InstallingOK, AfterOK, Plain, Installing
<1>5. Fits(r, d, p) /\ \A n : PendingAt(s, n) => PendingAt(r, n)
  BY <1>1, <1>2, <1>4, CalmMove
<1> QED
  BY <1>1, <1>5 DEF Quietly

(* A call that is made while no table is being prepared, and prepares none.  *)
LEMMA CalmPush ==
  ASSUME NEW s, NEW r \in Seq(FrameType), NEW d, NEW e, NEW p, NEW f, NEW g, NEW top,
         Fits(s, d, p), Pushes(s, r, f, g), top = Level(s, Len(s)), f.node = top.node,
         \A k \in Levels(s) : /\ Level(s, k).at \notin Preparing
                              /\ Level(s, k).at \in Pending => p[Level(s, k).node] # <<>>,
         \A n \in Nodes : d[n] = Uninstalled => e[n] = Uninstalled,
         f.at \notin Preparing, f.at \in Messaging => top.at \in Messaging,
         f.at \in Pending <=> top.at \in Pending,
         \A h : CalledFrom(h, top) => CalledFrom(h, f), CalledFrom(f, g),
         g.at \in {"in_super", "si_test", "up_lock"},
         g.at = "in_super" => e[g.node] = Uninstalled,
         g.at = "in_super" /\ f.at = "up_subs" => SuperHas(e, p, g.node)
  PROVE  /\ Fits(r, e, p)
         /\ \A n : PendingAt(s, n) => PendingAt(r, n)
<1>1. /\ Len(s) \in Nat /\ Len(s) > 0 /\ Len(r) = Len(s) + 1
      /\ Level(r, Len(s)) = f /\ Level(r, Len(s) + 1) = g
      /\ \A k \in 1..(Len(s) - 1) : Level(r, k) = Level(s, k)
  BY DEF Fits, Pushes
<1>2. Levels(r) = Levels(s) \cup {Len(s) + 1} /\ Len(s) + 1 \notin Levels(s)
  BY <1>1 DEF Levels
<1>3. \A k \in Levels(s) :
         /\ Level(r, k).node = Level(s, k).node
         /\ Level(r, k).at \in Messaging => Level(s, k).at \in Messaging
         /\ Level(r, k).at \in Pending <=> Level(s, k).at \in Pending
         /\ Level(r, k).at \notin Preparing
  BY <1>1 DEF Levels
<1>4. g.at \notin Messaging \cup Pending \cup Preparing \cup {"gi_after", "rt_after"}
  BY DEF Messaging, Pending, Preparing
<1>5. Shape(r)
  <2> SUFFICES ASSUME NEW k \in 1..Len(s) PROVE CalledFrom(Level(r, k), Level(r, k + 1))
    BY <1>1 DEF Shape
  <2>1. CASE k = Len(s)
    BY <1>1, <2>1
  <2>2. CASE k < Len(s)
    <3>1. /\ k \in 1..(Len(s) - 1) /\ Level(r, k) = Level(s, k)
          /\ CalledFrom(Level(s, k), Level(s, k + 1))
      BY <1>1, <2>2 DEF Fits, StackOK, Shape
    <3>2. CASE k + 1 < Len(s)
      <4>1. k + 1 \in 1..(Len(s) - 1)
        BY <1>1, <3>2
      <4> QED
        BY <1>1, <3>1, <4>1
    <3>3. CASE k + 1 = Len(s)
      BY <1>1, <3>1, <3>3
    <3> QED
      BY <1>1, <2>2, <3>2, <3>3
  <2> QED
    BY <1>1, <2>1, <2>2
<1>6. PendingOK(r, e)
  <2>1. PendingOK(s, d)
    BY DEF Fits, StackOK
  <2>2. \A k \in Levels(s) : Level(s, k).node \in Nodes
    BY DEF Fits, FrameType
  <2> QED
    BY <1>1, <1>2, <1>3, <1>4, <2>1, <2>2 DEF PendingOK
<1>7. MessagesOK(r)
  <2>1. \A k \in Levels(s) : \A j \in 1..(k - 1) : j \in Levels(s)
    BY <1>1 DEF Levels
  <2>2. MessagesOK(s)
    BY DEF Fits, StackOK
  <2> QED
    BY <1>1, <1>2, <1>3, <1>4, <2>1, <2>2 DEF MessagesOK
<1>8. InstallingOK(r, e, p) /\ AfterOK(r, e, p)
  <2>1. Len(r) - 1 = Len(s) /\ Level(r, Len(r)) = g
    BY <1>1
  <2> QED
    BY <1>1, <1>4, <2>1 DEF InstallingOK, AfterOK
<1>9. \A k \in Levels(r) : /\ Level(r, k).at \notin Preparing
                           /\ Level(r, k).at \in Pending => p[Level(r, k).node] # <<>>
  BY <1>1, <1>2, <1>3, <1>4
<1>10. Fits(r, e, p)
  BY <1>5, <1>6, <1>7, <1>8, <1>9, CalmFits
<1>11. \A n : PendingAt(s, n) => PendingAt(r, n)
  BY <1>2, <1>3 DEF PendingAt
<1> QED
  BY <1>10, <1>11

(* A return while no table is being prepared: what the caller has to find    *)
(* there is for the caller's line to say.                                    *)
LEMMA CalmPop ==
  ASSUME NEW s, NEW r \in Seq(FrameType), NEW d, NEW e, NEW p, NEW q, NEW top,
         Fits(s, d, p), Pops(s, r), top = Level(s, Len(s)),
         \A k \in 1..(Len(s) - 1) :
             /\ Level(s, k).at \notin Preparing
             /\ Level(s, k).at \in Pending =>
                    q[Level(s, k).node] # <<>> /\ e[Level(s, k).node] = Uninstalled,
         InstallingOK(r, e, q), AfterOK(r, e, q)
  PROVE  /\ Fits(r, e, q)
         /\ \A n : PendingAt(s, n) => PendingAt(r, n) \/ (top.at \in Pending /\ top.node = n)
<1>1. /\ Len(s) \in Nat /\ Len(s) > 0 /\ Len(r) = Len(s) - 1
      /\ \A k \in 1..(Len(s) - 1) : Level(r, k) = Level(s, k)
  BY DEF Fits, Pops
<1>2. Levels(r) = 1..(Len(s) - 1) /\ Levels(s) = Levels(r) \cup {Len(s)}
  BY <1>1 DEF Levels
<1>3. Shape(r)
  <2> SUFFICES ASSUME NEW k \in 1..(Len(s) - 2) PROVE CalledFrom(Level(r, k), Level(r, k + 1))
    BY <1>1 DEF Shape
  <2>1. k \in 1..(Len(s) - 1) /\ k + 1 \in 1..(Len(s) - 1)
    BY <1>1
  <2> QED
    BY <1>1, <2>1 DEF Fits, StackOK, Shape
<1>4. PendingOK(r, e)
  BY <1>1, <1>2 DEF PendingOK, Fits, StackOK
<1>5. MessagesOK(r)
  <2>1. \A k \in Levels(r) : \A j \in 1..(k - 1) : j \in Levels(r)
    BY <1>1, <1>2
  <2> QED
    BY <1>1, <1>2, <2>1 DEF MessagesOK, Fits, StackOK
<1>6. Fits(r, e, q)
  BY <1>1, <1>2, <1>3, <1>4, <1>5, CalmFits
<1>7. \A n : PendingAt(s, n) => PendingAt(r, n) \/ (top.at \in Pending /\ top.node = n)
  BY <1>1, <1>2 DEF PendingAt
<1> QED
  BY <1>6, <1>7

(* A program's call, from outside or out of a +initialize.                   *)
LEMMA QuietEnter ==
  ASSUME NEW s, NEW r \in Seq(FrameType), NEW d, NEW p, NEW g,
         Fits(s, d, p), Enters(s, r, g), g.at \in {"gi_fast", "rt_read", "am_link"},
         Len(s) > 0 => Level(s, Len(s)).at = "si_body",
         g.at = "gi_fast" /\ Len(s) > 0 => p[g.node] = <<>>
  PROVE  Quietly(s, r, d, p)
<1>1. /\ Len(s) \in Nat /\ Len(r) = Len(s) + 1 /\ Level(r, Len(s) + 1) = g
      /\ \A k \in 1..Len(s) : Level(r, k) = Level(s, k)
  BY DEF Fits, Enters
<1>2. /\ \A w : ~Anew(s, w)
      /\ \A k \in Levels(s) : /\ Level(s, k).at \notin Preparing
                              /\ Level(s, k).at \in Pending => p[Level(s, k).node] # <<>>
  <2>1. Len(s) > 0 => Level(s, Len(s)).at \notin Busy
    BY DEF Busy, Preparing
  <2> QED
    BY <2>1, Calm
<1>3. Levels(r) = Levels(s) \cup {Len(s) + 1} /\ Levels(s) = 1..Len(s)
  BY <1>1 DEF Levels
<1>4. g.at \notin Pending \cup Preparing \cup Installing \cup {"gi_after", "rt_after"}
  BY DEF Pending, Preparing, Installing
<1>5. Shape(r)
  <2> SUFFICES ASSUME NEW k \in 1..Len(s) PROVE CalledFrom(Level(r, k), Level(r, k + 1))
    BY <1>1 DEF Shape
  <2>1. CASE k = Len(s)
    <3>1. Level(r, k).at = "si_body" /\ Level(r, k + 1) = g
      BY <1>1, <2>1
    <3>2. g.at \in Called
      BY DEF Called, Messaging, Responding, Updates
    <3> QED
      BY <3>1, <3>2 DEF CalledFrom
  <2>2. CASE k < Len(s)
    <3>1. k \in 1..(Len(s) - 1) /\ k + 1 \in 1..Len(s)
      BY <1>1, <2>2
    <3> QED
      BY <1>1, <3>1 DEF Fits, StackOK, Shape
  <2> QED
    BY <1>1, <2>1, <2>2
<1>6. PendingOK(r, d)
  BY <1>1, <1>3, <1>4 DEF PendingOK, Fits, StackOK
<1>7. MessagesOK(r)
  <2> SUFFICES ASSUME NEW k \in Levels(r), Level(r, k).at \in Messaging,
                      NEW j \in 1..(k - 1), Level(r, j).at \in Pending
               PROVE  Level(r, j).node # Level(r, k).node
    BY DEF MessagesOK
  <2>1. j \in Levels(s) /\ Level(r, j) = Level(s, j)
    BY <1>1, <1>3
  <2>2. CASE k \in Levels(s)
    BY <1>1, <1>3, <2>1, <2>2 DEF MessagesOK, Fits, StackOK
  <2>3. CASE k = Len(s) + 1
    <3>1. g.at = "gi_fast" /\ Len(s) > 0
      BY <1>1, <1>3, <2>1, <2>3 DEF Messaging
    <3>2. p[g.node] = <<>> /\ p[Level(s, j).node] # <<>>
      BY <1>2, <2>1, <3>1
    <3> QED
      BY <1>1, <2>1, <2>3, <3>2
  <2> QED
    BY <1>3, <2>2, <2>3
<1>8. InstallingOK(r, d, p) /\ AfterOK(r, d, p)
  BY <1>1, <1>4 DEF InstallingOK, AfterOK, Installing
<1>9. \A k \in Levels(r) : /\ Level(r, k).at \notin Preparing
                           /\ Level(r, k).at \in Pending => p[Level(r, k).node] # <<>>
  BY <1>1, <1>2, <1>3, <1>4
<1>10. Fits(r, d, p)
  BY <1>5, <1>6, <1>7, <1>8, <1>9, CalmFits
<1>11. \A n : PendingAt(s, n) => PendingAt(r, n)
  BY <1>1, <1>3 DEF PendingAt
<1> QED
  BY <1>2, <1>10, <1>11 DEF Quietly

(* A return of a call that installs nothing.                                 *)
LEMMA QuietPop ==
  ASSUME NEW s, NEW r \in Seq(FrameType), NEW d, NEW p, NEW top,
         Fits(s, d, p), Pops(s, r), top = Level(s, Len(s)),
         top.at \in Called \cup Sending
  PROVE  Quietly(s, r, d, p)
<1>1. /\ Len(s) \in Nat /\ Len(s) > 0 /\ Len(r) = Len(s) - 1
      /\ \A k \in 1..(Len(s) - 1) : Level(r, k) = Level(s, k)
  BY DEF Fits, Pops
<1>2. top.at \notin Busy \cup Pending \cup Installing \cup Preparing
  BY DEF Called, Messaging, Responding, Updates, Sending, Busy, Pending, Installing, Preparing
<1>3. /\ \A w : ~Anew(s, w)
      /\ \A k \in Levels(s) : /\ Level(s, k).at \notin Preparing
                              /\ Level(s, k).at \in Pending => p[Level(s, k).node] # <<>>
  BY <1>2, Calm
<1>4. ASSUME Len(r) > 0
      PROVE  Level(r, Len(r)).at \notin {"in_super", "in_check", "in_prepared", "gi_after", "rt_after"}
  <2>1. Len(s) - 1 \in 1..(Len(s) - 1) /\ (Len(s) - 1) + 1 = Len(s)
    BY <1>1, <1>4
  <2>2. CalledFrom(Level(s, Len(s) - 1), top)
    BY <2>1 DEF Fits, StackOK, Shape
  <2> QED
    BY <1>1, <1>2, <2>1, <2>2 DEF CalledFrom
<1>5. InstallingOK(r, d, p) /\ AfterOK(r, d, p)
  BY <1>4 DEF InstallingOK, AfterOK
<1>6. \A k \in 1..(Len(s) - 1) :
          /\ Level(s, k).at \notin Preparing
          /\ Level(s, k).at \in Pending =>
                 p[Level(s, k).node] # <<>> /\ d[Level(s, k).node] = Uninstalled
  <2>1. 1..(Len(s) - 1) \subseteq Levels(s)
    BY <1>1 DEF Levels
  <2> QED
    BY <1>3, <2>1 DEF Fits, StackOK, PendingOK
<1>7. Fits(r, d, p) /\ \A n : PendingAt(s, n) => PendingAt(r, n)
  BY <1>2, <1>5, <1>6, CalmPop
<1> QED
  BY <1>3, <1>7 DEF Quietly

(* A call that installs the table of a class, of its superclass, or sends    *)
(* +initialize, or updates a subclass.                                       *)
LEMMA QuietPush ==
  ASSUME NEW s, NEW r \in Seq(FrameType), NEW d, NEW p, NEW f, NEW g, NEW top,
         Fits(s, d, p), Pushes(s, r, f, g), top = Level(s, Len(s)), f.node = top.node,
         top.at \notin Busy,
         f.at \notin Preparing, f.at \in Messaging => top.at \in Messaging,
         f.at \in Pending <=> top.at \in Pending,
         \A h : CalledFrom(h, top) => CalledFrom(h, f), CalledFrom(f, g),
         g.at \in {"in_super", "si_test", "up_lock"},
         g.at = "in_super" => d[g.node] = Uninstalled /\ f.at # "up_subs"
  PROVE  Quietly(s, r, d, p)
<1>1. /\ \A k \in Levels(s) : /\ Level(s, k).at \notin Preparing
                              /\ Level(s, k).at \in Pending => p[Level(s, k).node] # <<>>
      /\ \A w : ~Anew(s, w)
  BY Calm
<1>2. /\ \A n \in Nodes : d[n] = Uninstalled => d[n] = Uninstalled
      /\ g.at = "in_super" => d[g.node] = Uninstalled
      /\ g.at = "in_super" /\ f.at = "up_subs" => SuperHas(d, p, g.node)
  OBVIOUS
<1>3. Fits(r, d, p) /\ \A n : PendingAt(s, n) => PendingAt(r, n)
  BY <1>1, <1>2, CalmPush
<1> QED
  BY <1>1, <1>3 DEF Quietly

(* __tour_install_dtable_for_class prepares the table of its class first.    *)
LEMMA PreparePush ==
  ASSUME NEW s, NEW r \in Seq(FrameType), NEW d, NEW p, NEW f, NEW g, NEW top,
         Fits(s, d, p), Pushes(s, r, f, g), top = Level(s, Len(s)), f.node = top.node,
         \A k \in Levels(s) : /\ Level(s, k).at \notin Preparing
                              /\ Level(s, k).at \in Pending => p[Level(s, k).node] # <<>>,
         g.at = "pr_start", g.node = top.node,
         d[top.node] = Uninstalled, SuperHas(d, p, top.node),
         \/ top.at = "in_prepared" /\ f.at = "in_init" /\ p[top.node] = <<>>
         \/ top.at = "up_test" /\ f.at = "up_unlock" /\ PendingAt(s, top.node)
  PROVE  Quietly(s, r, d, p)
<1>1. /\ Len(s) \in Nat /\ Len(s) > 0 /\ Len(r) = Len(s) + 1
      /\ Level(r, Len(s)) = f /\ Level(r, Len(s) + 1) = g
      /\ \A k \in 1..(Len(s) - 1) : Level(r, k) = Level(s, k)
  BY DEF Fits, Pushes
<1>2. Levels(r) = Levels(s) \cup {Len(s) + 1} /\ Len(s) + 1 \notin Levels(s)
  BY <1>1 DEF Levels
<1>3. \A k \in Levels(s) : Level(r, k).node = Level(s, k).node
                           /\ (k # Len(s) => Level(r, k) = Level(s, k))
  BY <1>1 DEF Levels
<1>4. Shape(r)
  <2> SUFFICES ASSUME NEW k \in 1..Len(s) PROVE CalledFrom(Level(r, k), Level(r, k + 1))
    BY <1>1 DEF Shape
  <2>1. CASE k = Len(s)
    BY <1>1, <2>1 DEF CalledFrom, Preparing
  <2>2. CASE k < Len(s)
    <3>1. /\ k \in 1..(Len(s) - 1) /\ Level(r, k) = Level(s, k)
          /\ CalledFrom(Level(s, k), Level(s, k + 1))
      BY <1>1, <2>2 DEF Fits, StackOK, Shape
    <3>2. CASE k + 1 < Len(s)
      <4>1. k + 1 \in 1..(Len(s) - 1)
        BY <1>1, <3>2
      <4> QED
        BY <1>1, <3>1, <4>1
    <3>3. CASE k + 1 = Len(s)
      <4>1. CalledFrom(Level(s, k), top) => CalledFrom(Level(s, k), f)
        BY DEF CalledFrom, Called, Messaging, Responding, Updates, Installing, Preparing, Sending
      <4> QED
        BY <1>1, <3>1, <3>3, <4>1
    <3> QED
      BY <1>1, <2>2, <3>2, <3>3
  <2> QED
    BY <1>1, <2>1, <2>2
<1>5. \A k \in Levels(r) : Level(r, k).at \in Pending =>
          \/ k \in Levels(s) /\ Level(s, k).at \in Pending /\ k # Len(s)
          \/ k = Len(s) /\ f.at = "in_init" /\ top.at = "in_prepared" /\ p[top.node] = <<>>
  BY <1>1, <1>2, <1>3 DEF Pending
<1>6. PendingOK(r, d)
  <2> SUFFICES ASSUME NEW k \in Levels(r), Level(r, k).at \in Pending
               PROVE  /\ d[Level(r, k).node] = Uninstalled
                      /\ \A j \in Levels(r) :
                             Level(r, j).at \in Pending /\ Level(r, j).node = Level(r, k).node
                                 => j = k
    BY DEF PendingOK
  <2>1. PendingOK(s, d)
    BY DEF Fits, StackOK
  <2>2. d[Level(r, k).node] = Uninstalled
    BY <1>1, <1>3, <1>5, <2>1 DEF PendingOK
  <2>3. ASSUME NEW j \in Levels(r), Level(r, j).at \in Pending,
               Level(r, j).node = Level(r, k).node
        PROVE  j = k
    BY <1>1, <1>3, <1>5, <2>1, <2>3 DEF PendingOK
  <2> QED
    BY <2>2, <2>3
<1>7. AwaitedOK(r, p)
  <2>1. Level(r, Len(r)).at # "in_init"
    BY <1>1
  <2> QED
    BY <1>1, <1>3, <1>5, <2>1 DEF AwaitedOK, Pending
<1>8. \A n : PendingAt(s, n) => PendingAt(r, n)
  <2> SUFFICES ASSUME NEW n, NEW k \in Levels(s), Level(s, k).at \in Pending, Level(s, k).node = n
               PROVE  PendingAt(r, n)
    BY DEF PendingAt
  <2>1. k # Len(s)
    BY DEF Pending
  <2> QED
    BY <1>2, <1>3, <2>1 DEF PendingAt
<1>9. PendingAt(r, top.node)
  <2>1. Len(s) \in Levels(r)
    BY <1>1, <1>2 DEF Levels
  <2>2. f.at = "in_init" => PendingAt(r, top.node)
    BY <1>1, <2>1 DEF PendingAt, Pending
  <2> QED
    BY <1>8, <2>2
<1>10. \A k \in Levels(r) : Level(r, k).at \in Preparing => k = Len(s) + 1
  BY <1>1, <1>2, <1>3 DEF Preparing
<1>11. PreparingOK(r, d, p)
  BY <1>1, <1>9, <1>10 DEF PreparingOK
<1>12. InstallingOK(r, d, p) /\ AfterOK(r, d, p)
  BY <1>1 DEF InstallingOK, AfterOK
<1>13. MessagesOK(r)
  <2> SUFFICES ASSUME NEW k \in Levels(r), Level(r, k).at \in Messaging,
                      NEW j \in 1..(k - 1), Level(r, j).at \in Pending
               PROVE  Level(r, j).node # Level(r, k).node
    BY DEF MessagesOK
  <2>1. k \in 1..(Len(s) - 1) /\ k \in Levels(s)
    BY <1>1, <1>2 DEF Messaging, Levels
  <2>2. j \in 1..(Len(s) - 1) /\ j \in Levels(s)
    BY <1>1, <2>1 DEF Levels
  <2> QED
    BY <1>1, <2>1, <2>2 DEF MessagesOK, Fits, StackOK
<1>14. Fits(r, d, p)
  <2>1. Len(r) \in Nat /\ \A k \in Levels(r) : Level(r, k) \in FrameType
    BY LevelTyped
  <2> QED
    BY <1>4, <1>6, <1>7, <1>11, <1>12, <1>13, <2>1 DEF Fits, StackOK
<1>15. \A w : Anew(s, w) => Anew(r, w)
  <2> SUFFICES ASSUME NEW w, Anew(s, w) PROVE Anew(r, w)
    OBVIOUS
  <2>1. top.node = w
    BY DEF Anew
  <2>2. Len(s) + 1 \in Levels(r)
    BY <1>2
  <2> QED
    BY <1>1, <2>1, <2>2 DEF Anew, Preparing
<1> QED
  BY <1>8, <1>14, <1>15 DEF Quietly

(* The superclass has a table: it is the class's turn.                       *)
LEMMA PreparedMove ==
  ASSUME NEW s, NEW r \in Seq(FrameType), NEW d, NEW p, NEW f, NEW top,
         Fits(s, d, p), Moves(s, r, f), top = Level(s, Len(s)), f.node = top.node,
         top.at \in {"in_super", "in_check"}, f.at = "in_prepared",
         d[top.node] = Uninstalled, SuperHas(d, p, top.node)
  PROVE  Quietly(s, r, d, p)
<1>1. /\ Len(s) \in Nat /\ Len(s) > 0 /\ Len(r) = Len(s) /\ Level(r, Len(s)) = f
      /\ \A k \in 1..(Len(s) - 1) : Level(r, k) = Level(s, k)
  BY DEF Fits, Moves
<1>2. Levels(r) = Levels(s) /\ Len(s) \in Levels(s)
  BY <1>1 DEF Levels
<1>3. \A k \in Levels(s) :
         /\ Level(r, k).node = Level(s, k).node
         /\ k # Len(s) => Level(r, k) = Level(s, k)
         /\ Level(r, k).at \in Preparing <=> Level(s, k).at \in Preparing
         /\ Level(r, k).at \in Preparing => k # Len(s)
         /\ Level(r, k).at \in Pending <=> Level(s, k).at \in Pending
         /\ Level(r, k).at \in Pending => k # Len(s)
         /\ Level(r, k).at \notin Messaging \/ k # Len(s)
  BY <1>1 DEF Levels, Preparing, Pending, Messaging
<1>4. Shape(r)
  <2> SUFFICES ASSUME NEW k \in 1..(Len(s) - 1) PROVE CalledFrom(Level(r, k), Level(r, k + 1))
    BY <1>1 DEF Shape
  <2>1. CalledFrom(Level(s, k), Level(s, k + 1)) /\ Level(r, k) = Level(s, k)
    BY <1>1 DEF Fits, StackOK, Shape
  <2>2. CASE k + 1 < Len(s)
    <3>1. k + 1 \in 1..(Len(s) - 1)
      BY <1>1, <2>2
    <3> QED
      BY <1>1, <2>1, <3>1
  <2>3. CASE k + 1 = Len(s)
    <3>1. top.at \in Installing /\ f.at \in Installing
          /\ top.at \notin Preparing \cup Sending \cup Called \cup Updates
      BY DEF Installing, Preparing, Sending, Called, Messaging, Responding, Updates
    <3>2. CalledFrom(Level(s, k), top) => CalledFrom(Level(s, k), f)
      BY <3>1 DEF CalledFrom
    <3> QED
      BY <1>1, <2>1, <2>3, <3>2
  <2> QED
    BY <1>1, <2>2, <2>3
<1>5. PendingOK(r, d)
  BY <1>2, <1>3 DEF PendingOK, Fits, StackOK
<1>6. MessagesOK(r)
  <2>1. \A k \in Levels(s) : \A j \in 1..(k - 1) : j \in Levels(s)
    BY <1>1 DEF Levels
  <2> QED
    BY <1>2, <1>3, <2>1 DEF MessagesOK, Fits, StackOK
<1>7. \A n : /\ PendingAt(s, n) => PendingAt(r, n)
             /\ Remaking(s, n) => Remaking(r, n)
  BY <1>2, <1>3 DEF PendingAt, Remaking, Preparing
<1>8. AwaitedOK(r, p)
  <2> SUFFICES ASSUME NEW k \in Levels(r)
               PROVE  /\ Level(r, k).at = "in_install" =>
                            p[Level(r, k).node] # <<>> \/ Remaking(r, Level(r, k).node)
                      /\ Level(r, k).at = "in_init" /\ k = Len(r) => p[Level(r, k).node] # <<>>
    BY DEF AwaitedOK
  <2>1. AwaitedOK(s, p)
    BY DEF Fits, StackOK
  <2>2. k = Len(r) => Level(r, k).at = "in_prepared"
    BY <1>1
  <2>3. k # Len(r) => Level(r, k) = Level(s, k)
    BY <1>1, <1>2, <1>3
  <2> QED
    BY <1>2, <1>7, <2>1, <2>2, <2>3 DEF AwaitedOK
<1>9. PreparingOK(r, d, p)
  <2> SUFFICES ASSUME NEW k \in Levels(r), Level(r, k).at \in Preparing
               PROVE  /\ d[Level(r, k).node] = Uninstalled
                      /\ SuperHas(d, p, Level(r, k).node)
                      /\ PendingAt(r, Level(r, k).node)
                      /\ Level(r, k).at # "pr_start" => p[Level(r, k).node] = <<>>
                      /\ k = Len(r) - 1 /\ Level(r, k).at = "pr_copy"
                      /\ Level(r, Len(r)).at \in {"in_super", "in_prepared"}
                      /\ p[Super[Level(r, k).node]] # <<>>
    BY DEF PreparingOK
  <2>1. k \in Levels(s) /\ Level(s, k).at \in Preparing /\ Level(r, k) = Level(s, k) /\ k # Len(s)
    BY <1>2, <1>3
  <2>2. PreparingOK(s, d, p)
    BY DEF Fits, StackOK
  <2> QED
    BY <1>1, <1>7, <2>1, <2>2 DEF PreparingOK
<1>10. InstallingOK(r, d, p) /\ AfterOK(r, d, p)
  BY <1>1 DEF InstallingOK, AfterOK
<1>11. Fits(r, d, p)
  <2>1. Len(r) \in Nat /\ \A k \in Levels(r) : Level(r, k) \in FrameType
    BY LevelTyped
  <2> QED
    BY <1>4, <1>5, <1>6, <1>8, <1>9, <1>10, <2>1 DEF Fits, StackOK
<1>12. ASSUME NEW w, Anew(s, w) PROVE Anew(r, w)
  <2>1. CASE \E k \in Levels(s) : Level(s, k).at \in Preparing /\ Level(s, k).node = w
    BY <1>2, <1>3, <2>1 DEF Anew
  <2>2. CASE /\ Len(s) > 1 /\ top.node = w /\ Level(s, Len(s) - 1).at = "up_subs"
    BY <1>1, <2>2 DEF Anew
  <2> QED
    BY <1>12, <2>1, <2>2 DEF Anew
<1> QED
  BY <1>7, <1>11, <1>12 DEF Quietly

(* What a call that ends leaves below it.                                    *)
LEMMA PopKeeps ==
  ASSUME NEW s, NEW r \in Seq(FrameType), NEW d, NEW p, Fits(s, d, p), Pops(s, r)
  PROVE  /\ Len(r) \in Nat /\ Len(s) = Len(r) + 1 /\ \A k \in Levels(r) : Level(r, k) \in FrameType
         /\ \A k \in Levels(r) : k \in Levels(s) /\ Level(r, k) = Level(s, k)
         /\ \A k \in Levels(s) : k \in Levels(r) \/ k = Len(s)
         /\ Shape(r) /\ PendingOK(r, d) /\ MessagesOK(r)
         /\ Len(r) > 0 => Len(r) \in Levels(r) /\ CalledFrom(Level(r, Len(r)), Level(s, Len(s)))
<1>1. /\ Len(s) \in Nat /\ Len(s) > 0 /\ Len(r) = Len(s) - 1
      /\ \A k \in 1..(Len(s) - 1) : Level(r, k) = Level(s, k)
  BY DEF Fits, Pops
<1>2. Levels(r) = 1..(Len(s) - 1) /\ Levels(s) = Levels(r) \cup {Len(s)}
  BY <1>1 DEF Levels
<1>3. Shape(r)
  <2> SUFFICES ASSUME NEW k \in 1..(Len(s) - 2) PROVE CalledFrom(Level(r, k), Level(r, k + 1))
    BY <1>1 DEF Shape
  <2>1. k \in 1..(Len(s) - 1) /\ k + 1 \in 1..(Len(s) - 1)
    BY <1>1
  <2> QED
    BY <1>1, <2>1 DEF Fits, StackOK, Shape
<1>4. PendingOK(r, d)
  BY <1>1, <1>2 DEF PendingOK, Fits, StackOK
<1>5. MessagesOK(r)
  <2>1. \A k \in Levels(r) : \A j \in 1..(k - 1) : j \in Levels(r)
    BY <1>1, <1>2
  <2> QED
    BY <1>1, <1>2, <2>1 DEF MessagesOK, Fits, StackOK
<1>6. ASSUME Len(r) > 0
      PROVE  Len(r) \in Levels(r) /\ CalledFrom(Level(r, Len(r)), Level(s, Len(s)))
  <2>1. Len(s) - 1 \in 1..(Len(s) - 1) /\ (Len(s) - 1) + 1 = Len(s)
    BY <1>1, <1>6
  <2>2. CalledFrom(Level(s, Len(s) - 1), Level(s, Len(s)))
    BY <2>1 DEF Fits, StackOK, Shape
  <2> QED
    BY <1>1, <1>2, <2>1, <2>2
<1>7. \A k \in Levels(r) : Level(r, k) \in FrameType
  BY LevelTyped
<1>8. Len(r) \in Nat /\ Len(s) = Len(r) + 1
  BY <1>1
<1>9. /\ \A k \in Levels(r) : k \in Levels(s) /\ Level(r, k) = Level(s, k)
      /\ \A k \in Levels(s) : k \in Levels(r) \/ k = Len(s)
  BY <1>1, <1>2
<1> QED
  BY <1>3, <1>4, <1>5, <1>6, <1>7, <1>8, <1>9

(* The table of the class is prepared and its +initialize under way: the     *)
(* installation returns at once.  It was not called for a message, which a   *)
(* careful program would not have sent.                                      *)
LEMMA PreparedPop ==
  ASSUME NEW s, NEW r \in Seq(FrameType), NEW d, NEW p, NEW top,
         Fits(s, d, p), Pops(s, r), top = Level(s, Len(s)),
         top.at = "in_prepared", p[top.node] # <<>>, PendingAt(s, top.node)
  PROVE  Quietly(s, r, d, p)
<1>1. /\ Len(r) \in Nat /\ Len(s) = Len(r) + 1 /\ \A k \in Levels(r) : Level(r, k) \in FrameType
      /\ \A k \in Levels(r) : k \in Levels(s) /\ Level(r, k) = Level(s, k)
      /\ \A k \in Levels(s) : k \in Levels(r) \/ k = Len(s)
      /\ Shape(r) /\ PendingOK(r, d) /\ MessagesOK(r)
      /\ Len(r) > 0 => Len(r) \in Levels(r) /\ CalledFrom(Level(r, Len(r)), top)
  BY PopKeeps
<1>2. top.at \notin Pending \cup Preparing \cup Sending \cup Called
  BY DEF Pending, Preparing, Sending, Called, Messaging, Responding, Updates
<1>3. \A n : /\ PendingAt(s, n) => PendingAt(r, n)
             /\ Remaking(s, n) => Remaking(r, n)
  BY <1>1, <1>2 DEF PendingAt, Remaking, Preparing
<1>4. ASSUME Len(r) > 0
      PROVE  LET f == Level(r, Len(r)) IN
             \/ f.at \in {"gi_after", "rt_after"} /\ f.node = top.node
             \/ f.at \in {"in_check", "pr_copy"} /\ Super[f.node] = top.node
             \/ f.at = "up_subs"
  BY <1>1, <1>2, <1>4 DEF CalledFrom
<1>5. AwaitedOK(r, p)
  <2> SUFFICES ASSUME NEW k \in Levels(r)
               PROVE  /\ Level(r, k).at = "in_install" =>
                            p[Level(r, k).node] # <<>> \/ Remaking(r, Level(r, k).node)
                      /\ Level(r, k).at = "in_init" /\ k = Len(r) => p[Level(r, k).node] # <<>>
    BY DEF AwaitedOK
  <2>1. AwaitedOK(s, p)
    BY DEF Fits, StackOK
  <2>2. k = Len(r) => Level(r, k).at # "in_init"
    BY <1>1, <1>4 DEF Levels
  <2> QED
    BY <1>1, <1>3, <2>1, <2>2 DEF AwaitedOK
<1>6. PreparingOK(r, d, p)
  <2> SUFFICES ASSUME NEW k \in Levels(r), Level(r, k).at \in Preparing
               PROVE  /\ d[Level(r, k).node] = Uninstalled
                      /\ SuperHas(d, p, Level(r, k).node)
                      /\ PendingAt(r, Level(r, k).node)
                      /\ Level(r, k).at # "pr_start" => p[Level(r, k).node] = <<>>
                      /\ k = Len(r)
    BY DEF PreparingOK
  <2>1. k \in Levels(s) /\ Level(s, k) = Level(r, k) /\ k # Len(s)
    BY <1>1 DEF Levels
  <2>2. PreparingOK(s, d, p)
    BY DEF Fits, StackOK
  <2> QED
    BY <1>1, <1>3, <2>1, <2>2 DEF PreparingOK
<1>7. InstallingOK(r, d, p)
  <2> SUFFICES ASSUME Len(r) > 0
               PROVE  /\ Level(r, Len(r)).at \notin {"in_super", "in_prepared"}
                      /\ Level(r, Len(r)).at = "in_check" => SuperHas(d, p, Level(r, Len(r)).node)
    BY DEF InstallingOK
  <2> QED
    BY <1>4 DEF SuperHas, Has
<1>8. AfterOK(r, d, p)
  <2> SUFFICES ASSUME Len(r) > 0
               PROVE  /\ Level(r, Len(r)).at # "gi_after"
                      /\ Level(r, Len(r)).at = "rt_after" => Has(d, p, Level(r, Len(r)).node)
    BY DEF AfterOK
  <2>1. ASSUME Level(r, Len(r)).at = "gi_after" PROVE FALSE
    <3>1. Level(r, Len(r)).node = top.node
      BY <1>4, <2>1
    <3>2. PICK j \in Levels(r) : Level(r, j).at \in Pending /\ Level(r, j).node = top.node
      BY <1>3 DEF PendingAt
    <3>3. j # Len(r)
      BY <2>1, <3>2 DEF Pending
    <3>4. j \in 1..(Len(r) - 1) /\ Len(r) \in Levels(r)
      BY <1>1, <3>3 DEF Levels
    <3> QED
      BY <1>1, <2>1, <3>1, <3>2, <3>4 DEF MessagesOK, Messaging
  <2> QED
    BY <1>4, <2>1 DEF Has
<1>9. Fits(r, d, p)
  BY <1>1, <1>5, <1>6, <1>7, <1>8 DEF Fits, StackOK
<1>10. ASSUME NEW w, Anew(s, w) PROVE Anew(r, w) \/ Has(d, p, w)
  <2>1. CASE \E k \in Levels(s) : Level(s, k).at \in Preparing /\ Level(s, k).node = w
    BY <1>1, <1>2, <2>1 DEF Anew
  <2>2. CASE top.node = w
    BY <2>2 DEF Has
  <2> QED
    BY <1>10, <2>1, <2>2 DEF Anew
<1> QED
  BY <1>3, <1>9, <1>10 DEF Quietly

(* A call that returns when its class is installed finds its caller right.   *)
LEMMA InstalledPop ==
  ASSUME NEW s, NEW r \in Seq(FrameType), NEW d, NEW e, NEW p, NEW q, NEW top,
         Fits(s, d, p), Pops(s, r), top = Level(s, Len(s)),
         top.at \in Installing \ Busy, e[top.node] # Uninstalled
  PROVE  InstallingOK(r, e, q) /\ AfterOK(r, e, q)
<1>1. Len(r) > 0 => CalledFrom(Level(r, Len(r)), top)
  BY PopKeeps
<1>2. top.at \notin Preparing \cup Sending \cup Called
  BY DEF Installing, Preparing, Sending, Called, Messaging, Responding, Updates
<1>3. ASSUME Len(r) > 0
      PROVE  LET f == Level(r, Len(r)) IN
             \/ f.at \in {"gi_after", "rt_after"} /\ f.node = top.node
             \/ f.at \in {"in_check", "pr_copy"} /\ Super[f.node] = top.node
             \/ f.at = "up_subs"
  BY <1>1, <1>2, <1>3 DEF CalledFrom
<1>4. InstallingOK(r, e, q)
  <2> SUFFICES ASSUME Len(r) > 0
               PROVE  /\ Level(r, Len(r)).at \notin {"in_super", "in_prepared"}
                      /\ Level(r, Len(r)).at = "in_check" => SuperHas(e, q, Level(r, Len(r)).node)
    BY DEF InstallingOK
  <2> QED
    BY <1>3 DEF SuperHas, Has
<1>5. AfterOK(r, e, q)
  BY <1>3 DEF AfterOK, Has
<1> QED
  BY <1>4, <1>5

(* The superclass's +initialize has installed the class.                     *)
LEMMA CheckPop ==
  ASSUME NEW s, NEW r \in Seq(FrameType), NEW d, NEW p, NEW top,
         Fits(s, d, p), Pops(s, r), top = Level(s, Len(s)),
         top.at = "in_check", d[top.node] # Uninstalled
  PROVE  Quietly(s, r, d, p)
<1>1. top.at \in Installing \ Busy /\ top.at \notin Pending
  BY DEF Installing, Busy, Preparing, Pending
<1>2. /\ \A w : ~Anew(s, w)
      /\ \A k \in Levels(s) : /\ Level(s, k).at \notin Preparing
                              /\ Level(s, k).at \in Pending => p[Level(s, k).node] # <<>>
  BY <1>1, Calm
<1>3. InstallingOK(r, d, p) /\ AfterOK(r, d, p)
  BY <1>1, InstalledPop
<1>4. \A k \in 1..(Len(s) - 1) :
          /\ Level(s, k).at \notin Preparing
          /\ Level(s, k).at \in Pending =>
                 p[Level(s, k).node] # <<>> /\ d[Level(s, k).node] = Uninstalled
  <2>1. 1..(Len(s) - 1) \subseteq Levels(s)
    BY DEF Levels, Fits
  <2> QED
    BY <1>2, <2>1 DEF Fits, StackOK, PendingOK
<1>5. Fits(r, d, p) /\ \A n : PendingAt(s, n) => PendingAt(r, n)
  BY <1>1, <1>3, <1>4, CalmPop
<1> QED
  BY <1>2, <1>5 DEF Quietly

(* A class is neither its own superclass nor its superclass's.               *)
LEMMA NoCycle ==
  ASSUME NEW n \in Nodes, Super[n] \in Nodes
  PROVE  Super[n] # n /\ Super[Super[n]] # n
<1>1. {n, Super[n]} \in SUBSET Nodes /\ {n, Super[n]} # {}
  OBVIOUS
<1>2. PICK m \in {n, Super[n]} : Super[m] \notin {n, Super[n]}
  BY <1>1, HierarchyAssumption
<1> QED
  BY <1>2

(* The superclass has no table: it is installed first.                       *)
LEMMA SuperPush ==
  ASSUME NEW s, NEW r \in Seq(FrameType), NEW d, NEW p, NEW f, NEW g, NEW top,
         Fits(s, d, p), Pushes(s, r, f, g), top = Level(s, Len(s)), f.node = top.node,
         top.at = "in_super", f.at = "in_check", g.at = "in_super", g.node = Super[top.node],
         Super[top.node] \in Nodes, ~Has(d, p, Super[top.node]),
         Has(d, p, top.node) =>
             SuperHas(d, p, top.node) \/ Anew(s, Super[top.node])
  PROVE  Quietly(s, r, d, p)
<1>1. Len(s) \in Nat /\ Len(s) > 0 /\ Len(s) \in Levels(s) /\ top \in FrameType
  BY DEF Fits, Pushes, Levels
<1>2. top.node \in Nodes /\ ~SuperHas(d, p, top.node)
  BY <1>1 DEF FrameType, SuperHas
<1>3. d[top.node] = Uninstalled
  BY <1>1 DEF Fits, StackOK, InstallingOK
<1>4. ASSUME NEW k \in Levels(s), Level(s, k).at \in Preparing PROVE FALSE
  <2>1. /\ k = Len(s) - 1 /\ Level(s, k).at = "pr_copy" /\ p[Super[Level(s, k).node]] # <<>>
    <3>1. k # Len(s)
      BY <1>4 DEF Preparing
    <3>2. PreparingOK(s, d, p)
      BY DEF Fits, StackOK
    <3> QED
      BY <1>4, <3>1, <3>2 DEF PreparingOK
  <2>2. CalledFrom(Level(s, k), top)
    <3>1. k \in 1..(Len(s) - 1) /\ k + 1 = Len(s)
      BY <1>1, <2>1 DEF Levels
    <3> QED
      BY <3>1 DEF Fits, StackOK, Shape
  <2>3. top.node = Super[Level(s, k).node]
    BY <2>1, <2>2 DEF CalledFrom
  <2>4. Anew(s, Super[top.node])
    BY <1>2, <2>1, <2>3 DEF Has
  <2>5. PICK j \in Levels(s) : Level(s, j).at \in Preparing /\ Level(s, j).node = Super[top.node]
    BY <2>1, <2>4 DEF Anew
  <2>6. j = k
    <3>1. j # Len(s)
      BY <2>5 DEF Preparing
    <3>2. PreparingOK(s, d, p)
      BY DEF Fits, StackOK
    <3> QED
      BY <2>1, <2>5, <3>1, <3>2 DEF PreparingOK
  <2> QED
    BY <1>2, <2>3, <2>5, <2>6, NoCycle
<1>5. \A k \in Levels(s) : /\ Level(s, k).at \notin Preparing
                           /\ Level(s, k).at \in Pending => p[Level(s, k).node] # <<>>
  BY <1>4, Waiting
<1>6. ASSUME NEW w, Anew(s, w) PROVE FALSE
  <2>1. /\ Level(s, Len(s) - 1).at = "up_subs"
    BY <1>4, <1>6 DEF Anew
  <2> QED
    BY <1>1, <1>2, <2>1 DEF Fits, StackOK, InstallingOK
<1>7. \A h : CalledFrom(h, top) => CalledFrom(h, f)
  <2>1. top.at \in Installing /\ f.at \in Installing
        /\ top.at \notin Preparing \cup Sending \cup Called \cup Updates
    BY DEF Installing, Preparing, Sending, Called, Messaging, Responding, Updates
  <2> QED
    BY <2>1 DEF CalledFrom
<1>8. CalledFrom(f, g)
  BY DEF CalledFrom, Installing
<1>9. /\ f.at \notin Preparing
      /\ f.at \in Messaging => top.at \in Messaging
      /\ f.at \in Pending <=> top.at \in Pending
      /\ g.at = "in_super" => d[g.node] = Uninstalled
      /\ g.at = "in_super" /\ f.at = "up_subs" => SuperHas(d, p, g.node)
      /\ \A n \in Nodes : d[n] = Uninstalled => d[n] = Uninstalled
      /\ g.at \in {"in_super", "si_test", "up_lock"}
  BY DEF Preparing, Messaging, Pending, Has
<1>10. Fits(r, d, p)
  BY <1>5, <1>7, <1>8, <1>9, CalmPush
<1>11. ASSUME NEW n, PendingAt(s, n) PROVE PendingAt(r, n)
  <2>1. PICK k \in Levels(s) : Level(s, k).at \in Pending /\ Level(s, k).node = n
    BY <1>11 DEF PendingAt
  <2>2. k # Len(s)
    BY <2>1 DEF Pending
  <2>3. k \in Levels(r) /\ Level(r, k) = Level(s, k)
    BY <1>1, <2>2 DEF Pushes, Levels
  <2> QED
    BY <2>1, <2>3 DEF PendingAt
<1> QED
  BY <1>6, <1>10, <1>11 DEF Quietly

(* While a table is prepared the superclass, whose own is prepared only, is  *)
(* asked to install it, which it cannot yet.                                 *)
LEMMA CopyPush ==
  ASSUME NEW s, NEW r \in Seq(FrameType), NEW d, NEW p, NEW f, NEW g, NEW top,
         Fits(s, d, p), Pushes(s, r, f, g), top = Level(s, Len(s)), f.node = top.node,
         top.at = "pr_super", f.at = "pr_copy", g.at = "in_super", g.node = Super[top.node],
         Super[top.node] \in Nodes, d[Super[top.node]] = Uninstalled
  PROVE  Quietly(s, r, d, p)
<1>1. /\ Len(s) \in Nat /\ Len(s) > 0 /\ Len(r) = Len(s) + 1
      /\ Level(r, Len(s)) = f /\ Level(r, Len(s) + 1) = g
      /\ \A k \in 1..(Len(s) - 1) : Level(r, k) = Level(s, k)
  BY DEF Fits, Pushes
<1>2. Levels(r) = Levels(s) \cup {Len(s) + 1} /\ Len(s) + 1 \notin Levels(s)
  BY <1>1 DEF Levels
<1>3. \A k \in Levels(s) :
         /\ Level(r, k).node = Level(s, k).node
         /\ k # Len(s) => Level(r, k) = Level(s, k)
         /\ Level(r, k).at \in {"pr_super", "pr_copy"} <=> Level(s, k).at \in {"pr_super", "pr_copy"}
         /\ Level(r, k).at \in Pending <=> Level(s, k).at \in Pending
         /\ Level(r, k).at \in Pending => Level(r, k) = Level(s, k)
         /\ Level(r, k).at \in Messaging => Level(s, k).at \in Messaging
  BY <1>1 DEF Levels, Pending, Messaging
<1>4. g.at \notin Messaging \cup Pending \cup Preparing \cup {"gi_after", "rt_after"}
  BY DEF Messaging, Pending, Preparing
<1>5. Shape(r)
  <2> SUFFICES ASSUME NEW k \in 1..Len(s) PROVE CalledFrom(Level(r, k), Level(r, k + 1))
    BY <1>1 DEF Shape
  <2>1. CASE k = Len(s)
    BY <1>1, <2>1 DEF CalledFrom, Installing
  <2>2. CASE k < Len(s)
    <3>1. /\ k \in 1..(Len(s) - 1) /\ Level(r, k) = Level(s, k)
          /\ CalledFrom(Level(s, k), Level(s, k + 1))
      BY <1>1, <2>2 DEF Fits, StackOK, Shape
    <3>2. CASE k + 1 < Len(s)
      <4>1. k + 1 \in 1..(Len(s) - 1)
        BY <1>1, <3>2
      <4> QED
        BY <1>1, <3>1, <4>1
    <3>3. CASE k + 1 = Len(s)
      <4>1. CalledFrom(Level(s, k), top) => CalledFrom(Level(s, k), f)
        BY DEF CalledFrom, Called, Messaging, Responding, Updates, Installing, Preparing, Sending
      <4> QED
        BY <1>1, <3>1, <3>3, <4>1
    <3> QED
      BY <1>1, <2>2, <3>2, <3>3
  <2> QED
    BY <1>1, <2>1, <2>2
<1>6. PendingOK(r, d)
  <2>1. PendingOK(s, d)
    BY DEF Fits, StackOK
  <2> QED
    BY <1>1, <1>2, <1>3, <1>4, <2>1 DEF PendingOK
<1>7. MessagesOK(r)
  <2>1. \A k \in Levels(s) : \A j \in 1..(k - 1) : j \in Levels(s)
    BY <1>1 DEF Levels
  <2>2. MessagesOK(s)
    BY DEF Fits, StackOK
  <2> QED
    BY <1>1, <1>2, <1>3, <1>4, <2>1, <2>2 DEF MessagesOK
<1>8. \A n : /\ PendingAt(s, n) => PendingAt(r, n)
             /\ Remaking(s, n) => Remaking(r, n)
  BY <1>2, <1>3 DEF PendingAt, Remaking
<1>9. AwaitedOK(r, p)
  <2>1. AwaitedOK(s, p) /\ Level(r, Len(r)).at \notin Pending
    BY <1>1, <1>4 DEF Fits, StackOK
  <2>2. \A k \in Levels(r) : Level(r, k).at \in Pending => k \in Levels(s) /\ Level(r, k) = Level(s, k)
    BY <1>1, <1>2, <1>3, <1>4
  <2> QED
    BY <1>8, <2>1, <2>2 DEF AwaitedOK, Pending
<1>10. PreparingOK(s, d, p) /\ Len(s) \in Levels(s) /\ top.at \in Preparing
  BY <1>1 DEF Fits, StackOK, Levels, Preparing
<1>11. \A k \in Levels(r) : Level(r, k).at \in Preparing => k = Len(s)
  <2>1. \A k \in Levels(s) : Level(s, k).at \in Preparing => k = Len(s)
    BY <1>10 DEF PreparingOK
  <2> QED
    BY <1>1, <1>2, <1>3, <1>4, <2>1
<1>12. /\ d[top.node] = Uninstalled /\ SuperHas(d, p, top.node) /\ PendingAt(s, top.node)
       /\ p[top.node] = <<>>
  BY <1>10 DEF PreparingOK
<1>13. p[Super[top.node]] # <<>>
  BY <1>12 DEF SuperHas, Has
<1>14. PreparingOK(r, d, p)
  BY <1>1, <1>8, <1>11, <1>12, <1>13 DEF PreparingOK
<1>15. InstallingOK(r, d, p) /\ AfterOK(r, d, p)
  <2>1. Level(r, Len(r)) = g /\ Level(r, Len(r) - 1) = f
    BY <1>1
  <2> QED
    BY <2>1 DEF InstallingOK, AfterOK
<1>16. Fits(r, d, p)
  <2>1. Len(r) \in Nat /\ \A k \in Levels(r) : Level(r, k) \in FrameType
    BY LevelTyped
  <2> QED
    BY <1>5, <1>6, <1>7, <1>9, <1>14, <1>15, <2>1 DEF Fits, StackOK
<1>17. \A w : Anew(s, w) => Anew(r, w)
  <2>1. ASSUME NEW w, Anew(s, w) PROVE Anew(r, w)
    <3>1. PICK k \in Levels(s) : Level(s, k).at \in Preparing /\ Level(s, k).node = w
      BY <2>1 DEF Anew
    <3>2. k = Len(s)
      BY <1>10, <3>1 DEF PreparingOK
    <3>3. k \in Levels(r) /\ Level(r, k).at \in Preparing /\ Level(r, k).node = w
      BY <1>1, <1>2, <3>1, <3>2 DEF Preparing
    <3> QED
      BY <3>3 DEF Anew
  <2> QED
    BY <2>1
<1> QED
  BY <1>8, <1>16, <1>17 DEF Quietly

(* The stack and the tables of a thread in the methods only called under the *)
(* lock, where no other thread is in them.                                   *)
Held(s, d, p) ==
    /\ Fits(s, d, p) /\ OneTable(d, p)
    /\ \A n \in Nodes : p[n] # <<>> => PendingAt(s, n)
    /\ \A n \in Nodes : Has(d, p, n) => SuperHas(d, p, n) \/ Anew(s, Super[n])

(* A table that is to be made is dropped, its superclass's found.            *)
LEMMA PrepareMove ==
  ASSUME NEW s, NEW r \in Seq(FrameType), NEW d, NEW p, NEW q, NEW f, NEW top,
         Held(s, d, p), Moves(s, r, f), top = Level(s, Len(s)), f.node = top.node,
         \/ top.at = "pr_start" /\ f.at = "pr_super"
         \/ top.at = "pr_super" /\ f.at = "pr_copy",
         q[top.node] = <<>>, \A m \in Nodes \ {top.node} : q[m] = p[m]
  PROVE  Held(r, d, q)
<1>1. /\ Len(s) \in Nat /\ Len(s) > 0 /\ Len(r) = Len(s) /\ Level(r, Len(s)) = f
      /\ \A k \in 1..(Len(s) - 1) : Level(r, k) = Level(s, k)
      /\ Fits(s, d, p) /\ OneTable(d, p)
  BY DEF Held, Fits, Moves
<1>2. Levels(r) = Levels(s) /\ Len(s) \in Levels(s)
  BY <1>1 DEF Levels
<1>3. \A k \in Levels(s) :
         /\ Level(r, k).node = Level(s, k).node
         /\ k # Len(s) => Level(r, k) = Level(s, k)
         /\ Level(r, k).at \in Pending <=> Level(s, k).at \in Pending
         /\ Level(r, k).at \in Pending => k # Len(s)
         /\ Level(r, k).at \notin Messaging \/ k # Len(s)
  BY <1>1 DEF Levels, Pending, Messaging
<1>4. Shape(r)
  <2> SUFFICES ASSUME NEW k \in 1..(Len(s) - 1) PROVE CalledFrom(Level(r, k), Level(r, k + 1))
    BY <1>1 DEF Shape
  <2>1. CalledFrom(Level(s, k), Level(s, k + 1)) /\ Level(r, k) = Level(s, k)
    BY <1>1 DEF Fits, StackOK, Shape
  <2>2. CASE k + 1 < Len(s)
    <3>1. k + 1 \in 1..(Len(s) - 1)
      BY <1>1, <2>2
    <3> QED
      BY <1>1, <2>1, <3>1
  <2>3. CASE k + 1 = Len(s)
    <3>1. CalledFrom(Level(s, k), top) => CalledFrom(Level(s, k), f)
      BY DEF CalledFrom, Called, Messaging, Responding, Updates, Installing, Preparing, Sending
    <3> QED
      BY <1>1, <2>1, <2>3, <3>1
  <2> QED
    BY <1>1, <2>2, <2>3
<1>5. PendingOK(r, d)
  BY <1>1, <1>2, <1>3 DEF PendingOK, Fits, StackOK
<1>6. MessagesOK(r)
  <2>1. \A k \in Levels(s) : \A j \in 1..(k - 1) : j \in Levels(s)
    BY <1>1 DEF Levels
  <2> QED
    BY <1>1, <1>2, <1>3, <2>1 DEF MessagesOK, Fits, StackOK
<1>7. \A n : PendingAt(s, n) => PendingAt(r, n)
  BY <1>2, <1>3 DEF PendingAt
<1>8. /\ top \in FrameType /\ top.node \in Nodes /\ top.at \in Preparing
      /\ \A k \in Levels(s) : Level(s, k).node \in Nodes
  BY <1>1, <1>2 DEF Fits, FrameType, Preparing
<1>9. \A k \in Levels(s) : Level(s, k).at \in Preparing => k = Len(s)
  <2>1. PreparingOK(s, d, p)
    BY <1>1 DEF Fits, StackOK
  <2>2. top.at \notin {"in_super", "in_prepared"}
    OBVIOUS
  <2> QED
    BY <2>1, <2>2 DEF PreparingOK
<1>10. /\ d[top.node] = Uninstalled /\ SuperHas(d, p, top.node) /\ PendingAt(s, top.node)
  BY <1>1, <1>2, <1>8 DEF Fits, StackOK, PreparingOK
<1>11. Remaking(r, top.node)
  BY <1>1, <1>2 DEF Remaking
<1>12. AwaitedOK(r, q)
  <2> SUFFICES ASSUME NEW k \in Levels(s), k # Len(s)
               PROVE  Level(s, k).at = "in_install" =>
                          q[Level(s, k).node] # <<>> \/ Remaking(r, Level(s, k).node)
    BY <1>1, <1>2, <1>3 DEF AwaitedOK
  <2>1. AwaitedOK(s, p)
    BY <1>1 DEF Fits, StackOK
  <2>2. CASE Level(s, k).node = top.node
    BY <1>11, <2>2
  <2>3. CASE Level(s, k).node # top.node
    <3>1. ~Remaking(s, Level(s, k).node)
      BY <1>9, <2>3 DEF Remaking, Preparing
    <3> QED
      BY <1>8, <2>1, <2>3, <3>1 DEF AwaitedOK
  <2> QED
    BY <2>2, <2>3
<1>13. \A k \in Levels(r) : Level(r, k).at \in Preparing => k = Len(r)
  BY <1>1, <1>2, <1>3, <1>9
<1>14. SuperHas(d, q, top.node)
  BY <1>8, <1>10, NoCycle DEF SuperHas, Has
<1>15. PreparingOK(r, d, q)
  BY <1>1, <1>7, <1>10, <1>13, <1>14 DEF PreparingOK
<1>16. InstallingOK(r, d, q) /\ AfterOK(r, d, q)
  BY <1>1 DEF InstallingOK, AfterOK
<1>17. Fits(r, d, q)
  <2>1. Len(r) \in Nat /\ \A k \in Levels(r) : Level(r, k) \in FrameType
    BY LevelTyped
  <2> QED
    BY <1>4, <1>5, <1>6, <1>12, <1>15, <1>16, <2>1 DEF Fits, StackOK
<1>18. OneTable(d, q)
  <2>1. Len(q[top.node]) <= 1
    OBVIOUS
  <2> QED
    BY <1>1, <2>1 DEF OneTable
<1>19. \A n \in Nodes : q[n] # <<>> => PendingAt(r, n)
  BY <1>7 DEF Held
<1>20. Anew(r, top.node)
  BY <1>1, <1>2 DEF Anew, Preparing
<1>21. ASSUME NEW n \in Nodes, Has(d, q, n) PROVE SuperHas(d, q, n) \/ Anew(r, Super[n])
  <2>1. Has(d, p, n)
    BY <1>21 DEF Has
  <2>2. CASE Anew(s, Super[n])
    <3>1. Super[n] = top.node
      BY <1>8, <1>9, <2>2 DEF Anew, Preparing
    <3> QED
      BY <1>20, <3>1
  <2>3. CASE SuperHas(d, p, n)
    BY <1>20, <2>3 DEF SuperHas, Has
  <2> QED
    BY <2>1, <2>2, <2>3 DEF Held
<1> QED
  BY <1>17, <1>18, <1>19, <1>21 DEF Held

(* The table is prepared.                                                    *)
LEMMA CopyPop ==
  ASSUME NEW s, NEW r \in Seq(FrameType), NEW d, NEW p, NEW q, NEW x, NEW top,
         Held(s, d, p), Pops(s, r), top = Level(s, Len(s)), top.at = "pr_copy",
         q[top.node] = <<x>>, \A m \in Nodes \ {top.node} : q[m] = p[m]
  PROVE  Held(r, d, q)
<1>1. Fits(s, d, p) /\ OneTable(d, p) /\ Len(s) \in Nat /\ Len(s) > 0
  BY DEF Held, Fits, Pops
<1>2. /\ Len(r) \in Nat /\ Len(s) = Len(r) + 1
      /\ \A k \in Levels(r) : k \in Levels(s) /\ Level(r, k) = Level(s, k)
      /\ \A k \in Levels(s) : k \in Levels(r) \/ k = Len(s)
      /\ Len(r) > 0 => Len(r) \in Levels(r) /\ CalledFrom(Level(r, Len(r)), top)
  BY <1>1, PopKeeps
<1>3. /\ Len(s) \in Levels(s) /\ top \in FrameType /\ top.node \in Nodes /\ top.at \in Preparing
      /\ \A k \in Levels(s) : Level(s, k).node \in Nodes
  BY <1>1 DEF Fits, FrameType, Preparing, Levels
<1>4. \A k \in Levels(s) : Level(s, k).at \in Preparing => k = Len(s)
  <2>1. PreparingOK(s, d, p)
    BY <1>1 DEF Fits, StackOK
  <2>2. top.at \notin {"in_super", "in_prepared"}
    OBVIOUS
  <2> QED
    BY <2>1, <2>2 DEF PreparingOK
<1>5. /\ d[top.node] = Uninstalled /\ SuperHas(d, p, top.node) /\ PendingAt(s, top.node)
  BY <1>1, <1>3 DEF Fits, StackOK, PreparingOK
<1>6. q[top.node] # <<>> /\ Len(q[top.node]) <= 1
  OBVIOUS
<1>7. ASSUME Len(r) > 0
      PROVE  /\ Level(r, Len(r)).at \in {"in_init", "up_unlock"}
             /\ Level(r, Len(r)).node = top.node
  <2>1. top.at \notin Installing \cup Sending \cup Called \cup Updates
    BY DEF Installing, Sending, Called, Messaging, Responding, Updates
  <2> QED
    BY <1>2, <1>7, <2>1 DEF CalledFrom
<1>8. ASSUME NEW k \in Levels(r), Level(r, k).at \in Pending
      PROVE  q[Level(r, k).node] # <<>> /\ d[Level(r, k).node] = Uninstalled
  <2>1. d[Level(r, k).node] = Uninstalled
    BY <1>1, <1>2, <1>8 DEF Fits, StackOK, PendingOK
  <2>2. CASE Level(r, k).node = top.node
    BY <1>6, <2>1, <2>2
  <2>3. CASE Level(r, k).node # top.node
    <3>1. ~Remaking(s, Level(s, k).node)
      BY <1>2, <1>4, <2>3 DEF Remaking, Preparing
    <3>2. Level(s, k).at # "in_init"
      <4> SUFFICES ASSUME Level(s, k).at = "in_init" PROVE FALSE
        OBVIOUS
      <4>1. k # Len(r)
        BY <1>2, <1>7, <2>3 DEF Levels
      <4>2. k \in 1..(Len(s) - 1) /\ k + 1 \in Levels(s) /\ k + 1 # Len(s)
        BY <1>2, <4>1 DEF Levels
      <4>3. CalledFrom(Level(s, k), Level(s, k + 1))
        BY <1>1, <4>2 DEF Fits, StackOK, Shape
      <4>4. Level(s, k + 1).at \in Preparing
        BY <4>3 DEF CalledFrom
      <4> QED
        BY <1>4, <4>2, <4>4
    <3>3. p[Level(s, k).node] # <<>>
      BY <1>1, <1>2, <1>8, <3>1, <3>2 DEF Fits, StackOK, AwaitedOK, Pending
    <3> QED
      BY <1>2, <1>3, <2>1, <2>3, <3>3
  <2> QED
    BY <2>2, <2>3
<1>9. \A k \in 1..(Len(s) - 1) :
          /\ Level(s, k).at \notin Preparing
          /\ Level(s, k).at \in Pending =>
                 q[Level(s, k).node] # <<>> /\ d[Level(s, k).node] = Uninstalled
  <2>1. \A k \in 1..(Len(s) - 1) : k \in Levels(s) /\ k \in Levels(r) /\ k # Len(s)
    BY <1>2 DEF Levels
  <2> QED
    BY <1>2, <1>4, <1>8, <2>1
<1>10. InstallingOK(r, d, q) /\ AfterOK(r, d, q)
  BY <1>7 DEF InstallingOK, AfterOK
<1>11. Fits(r, d, q)
  BY <1>1, <1>9, <1>10, CalmPop
<1>12. \A n : PendingAt(s, n) => PendingAt(r, n)
  BY <1>2 DEF PendingAt, Pending
<1>13. OneTable(d, q)
  <2> SUFFICES ASSUME NEW n \in Nodes PROVE Len(q[n]) <= 1 /\ (d[n] # Uninstalled => q[n] = <<>>)
    BY DEF OneTable
  <2>1. CASE n = top.node
    BY <1>5, <1>6, <2>1
  <2>2. CASE n # top.node
    BY <1>1, <2>2 DEF OneTable
  <2> QED
    BY <2>1, <2>2
<1>14. \A n \in Nodes : q[n] # <<>> => PendingAt(r, n)
  BY <1>5, <1>12 DEF Held
<1>15. \A n \in Nodes : Has(d, p, n) => Has(d, q, n)
  BY <1>6 DEF Has
<1>16. ASSUME NEW n \in Nodes, Has(d, q, n) PROVE SuperHas(d, q, n)
  <2>1. CASE n = top.node
    BY <1>5, <1>15, <2>1 DEF SuperHas
  <2>2. CASE n # top.node
    <3>1. Has(d, p, n)
      BY <1>16, <2>2 DEF Has
    <3>2. CASE Anew(s, Super[n])
      <4>1. Super[n] = top.node
        BY <1>3, <1>4, <3>2 DEF Anew
      <4> QED
        BY <1>6, <4>1 DEF SuperHas, Has
    <3>3. CASE SuperHas(d, p, n)
      BY <1>15, <3>3 DEF SuperHas
    <3> QED
      BY <3>1, <3>2, <3>3 DEF Held
  <2> QED
    BY <2>1, <2>2
<1> QED
  BY <1>11, <1>13, <1>14, <1>16 DEF Held

(* The table of a class that gets methods is dropped, and made anew.         *)
LEMMA UpdatePush ==
  ASSUME NEW s, NEW r \in Seq(FrameType), NEW d, NEW e, NEW p, NEW f, NEW g, NEW top,
         Held(s, d, p), Pushes(s, r, f, g), top = Level(s, Len(s)), f.node = top.node,
         top.at = "up_test", f.at = "up_subs", g.at = "in_super", g.node = top.node,
         d[top.node] # Uninstalled, e[top.node] = Uninstalled,
         \A m \in Nodes \ {top.node} : e[m] = d[m]
  PROVE  Held(r, e, p)
<1>1. Fits(s, d, p) /\ OneTable(d, p) /\ Len(s) \in Nat /\ Len(s) > 0
  BY DEF Held, Fits, Pushes
<1>2. /\ Len(s) \in Levels(s) /\ top \in FrameType /\ top.node \in Nodes
      /\ Len(r) = Len(s) + 1 /\ Level(r, Len(r)) = g /\ Level(r, Len(r) - 1) = f
  BY <1>1 DEF Fits, FrameType, Levels, Pushes
<1>3. top.at \notin Busy \cup Pending
  BY DEF Busy, Preparing, Pending
<1>4. /\ \A k \in Levels(s) : /\ Level(s, k).at \notin Preparing
                              /\ Level(s, k).at \in Pending => p[Level(s, k).node] # <<>>
      /\ \A w : ~Anew(s, w)
  BY <1>1, <1>3, Calm
<1>5. \A n \in Nodes : Has(d, p, n) => SuperHas(d, p, n)
  BY <1>4 DEF Held
<1>6. SuperHas(e, p, top.node)
  <2>1. SuperHas(d, p, top.node)
    BY <1>2, <1>5 DEF Has
  <2> QED
    BY <1>2, <2>1, NoCycle DEF SuperHas, Has
<1>7. \A h : CalledFrom(h, top) => CalledFrom(h, f)
  BY DEF CalledFrom, Called, Messaging, Responding, Updates, Installing, Preparing, Sending
<1>8. CalledFrom(f, g)
  BY DEF CalledFrom, Installing
<1>9. /\ f.at \notin Preparing
      /\ f.at \in Messaging => top.at \in Messaging
      /\ f.at \in Pending <=> top.at \in Pending
      /\ g.at = "in_super" => e[g.node] = Uninstalled
      /\ g.at = "in_super" /\ f.at = "up_subs" => SuperHas(e, p, g.node)
      /\ g.at \in {"in_super", "si_test", "up_lock"}
      /\ \A n \in Nodes : d[n] = Uninstalled => e[n] = Uninstalled
  BY <1>6 DEF Preparing, Messaging, Pending
<1>10. Fits(r, e, p)
  BY <1>1, <1>4, <1>7, <1>8, <1>9, CalmPush
<1>11. OneTable(e, p)
  BY <1>1, <1>2 DEF OneTable
<1>12. ASSUME NEW n \in Nodes, p[n] # <<>> PROVE PendingAt(r, n)
  <2>1. PICK k \in Levels(s) : Level(s, k).at \in Pending /\ Level(s, k).node = n
    BY <1>12 DEF Held, PendingAt
  <2>2. k # Len(s)
    BY <1>3, <2>1
  <2>3. k \in Levels(r) /\ Level(r, k) = Level(s, k)
    BY <1>1, <2>2 DEF Pushes, Levels
  <2> QED
    BY <2>1, <2>3 DEF PendingAt
<1>13. Anew(r, top.node)
  BY <1>1, <1>2 DEF Anew
<1>14. ASSUME NEW n \in Nodes, Has(e, p, n) PROVE SuperHas(e, p, n) \/ Anew(r, Super[n])
  <2>1. Has(d, p, n)
    BY <1>2, <1>14 DEF Has
  <2>2. SuperHas(d, p, n)
    BY <1>5, <2>1
  <2>3. CASE Super[n] = top.node
    BY <1>13, <2>3
  <2>4. CASE Super[n] # top.node
    BY <2>2, <2>4 DEF SuperHas, Has
  <2> QED
    BY <2>3, <2>4
<1> QED
  BY <1>10, <1>11, <1>12, <1>14 DEF Held

(* The prepared table is installed.                                          *)
LEMMA InstallPop ==
  ASSUME NEW s, NEW r \in Seq(FrameType), NEW d, NEW e, NEW p, NEW q, NEW top,
         Held(s, d, p), Pops(s, r), top = Level(s, Len(s)), top.at = "in_install",
         e[top.node] # Uninstalled, q[top.node] = <<>>,
         \A m \in Nodes \ {top.node} : e[m] = d[m] /\ q[m] = p[m]
  PROVE  Held(r, e, q)
<1>1. Fits(s, d, p) /\ OneTable(d, p) /\ Len(s) \in Nat /\ Len(s) > 0
  BY DEF Held, Fits, Pops
<1>2. /\ Len(s) \in Levels(s) /\ top \in FrameType /\ top.node \in Nodes
      /\ \A k \in Levels(s) : Level(s, k).node \in Nodes
  BY <1>1 DEF Fits, FrameType, Levels
<1>3. top.at \in Installing \ Busy /\ top.at \in Pending
  BY DEF Installing, Busy, Preparing, Pending
<1>4. /\ \A k \in Levels(s) : /\ Level(s, k).at \notin Preparing
                              /\ Level(s, k).at \in Pending => p[Level(s, k).node] # <<>>
      /\ \A w : ~Anew(s, w)
  BY <1>1, <1>3, Calm
<1>5. InstallingOK(r, e, q) /\ AfterOK(r, e, q)
  BY <1>1, <1>3, InstalledPop
<1>6. \A k \in 1..(Len(s) - 1) :
          /\ Level(s, k).at \notin Preparing
          /\ Level(s, k).at \in Pending =>
                 q[Level(s, k).node] # <<>> /\ e[Level(s, k).node] = Uninstalled
  <2> SUFFICES ASSUME NEW k \in 1..(Len(s) - 1), Level(s, k).at \in Pending
               PROVE  q[Level(s, k).node] # <<>> /\ e[Level(s, k).node] = Uninstalled
    BY <1>4 DEF Levels
  <2>1. k \in Levels(s) /\ k # Len(s)
    BY <1>1 DEF Levels
  <2>2. d[Level(s, k).node] = Uninstalled /\ Level(s, k).node # top.node
    BY <1>1, <1>2, <1>3, <2>1 DEF Fits, StackOK, PendingOK
  <2> QED
    BY <1>2, <1>4, <2>1, <2>2
<1>7. /\ Fits(r, e, q)
      /\ \A n : PendingAt(s, n) => PendingAt(r, n) \/ (top.at \in Pending /\ top.node = n)
  BY <1>1, <1>5, <1>6, CalmPop
<1>8. p[top.node] # <<>> /\ Len(q[top.node]) = 0
  BY <1>2, <1>3, <1>4
<1>9. OneTable(e, q)
  BY <1>1, <1>8 DEF OneTable
<1>10. \A n \in Nodes : q[n] # <<>> => PendingAt(r, n)
  BY <1>7 DEF Held
<1>11. \A n \in Nodes : Has(d, p, n) <=> Has(e, q, n)
  BY <1>8 DEF Has
<1>12. \A n \in Nodes : Has(e, q, n) => SuperHas(e, q, n)
  BY <1>4, <1>11 DEF Held, SuperHas
<1> QED
  BY <1>7, <1>9, <1>10, <1>12 DEF Held

-----------------------------------------------------------------------------
(* A quiet step of one thread leaves what holds of all.                      *)
LEMMA StackFits ==
  ASSUME TypeOK, TablesInv, NEW t \in Threads
  PROVE  Fits(stack[t], dtable, prepared)
<1>1. stack[t] \in Seq(FrameType) /\ Len(stack[t]) \in Nat
  BY DEF TypeOK
<1>2. \A k \in Levels(stack[t]) : Level(stack[t], k) \in FrameType
  BY <1>1, LevelTyped
<1> QED
  BY <1>1, <1>2 DEF Fits, TablesInv

(* So a quiet step keeps all that is said of tables.                         *)
LEMMA QuietTables ==
  ASSUME TypeOK, TablesInv, NEW t \in Threads, OfThread(t), UNCHANGED <<dtable, prepared>>,
         Quietly(stack[t], stack'[t], dtable, prepared)
  PROVE  TablesInv'
<1>1. /\ \A u \in Threads : StackOK(stack[u], dtable, prepared)
      /\ OneTable(dtable, prepared) /\ PreparedPending /\ SupersFirst
  BY DEF TablesInv
<1>2. \A u \in Threads : u # t => stack'[u] = stack[u]
  BY DEF OfThread
<1>3. \A u \in Threads : StackOK(stack'[u], dtable', prepared')
  <2>1. StackOK(stack'[t], dtable, prepared)
    BY DEF Quietly, Fits
  <2> QED
    BY <1>1, <1>2, <2>1
<1>4. OneTable(dtable', prepared')
  BY <1>1
<1>5. \A n : \A u \in Threads : PendingAt(stack[u], n) => PendingAt(stack'[u], n)
  BY <1>2 DEF Quietly
<1>6. PreparedPending'
  BY <1>1, <1>5 DEF PreparedPending, Prepared
<1>7. SupersFirst'
  <2> SUFFICES ASSUME NEW n \in Nodes, Has(dtable, prepared, n)
               PROVE  \/ SuperHas(dtable, prepared, n)
                      \/ \E u \in Threads : Anew(stack'[u], Super[n])
    BY DEF SupersFirst
  <2>1. CASE SuperHas(dtable, prepared, n)
    BY <2>1
  <2>2. CASE \E u \in Threads : Anew(stack[u], Super[n])
    <3>1. PICK u \in Threads : Anew(stack[u], Super[n])
      BY <2>2
    <3>2. Anew(stack'[u], Super[n]) \/ Has(dtable, prepared, Super[n])
      BY <1>2, <3>1 DEF Quietly
    <3> QED
      BY <3>2 DEF SuperHas
  <2> QED
    BY <1>1, <2>1, <2>2 DEF SupersFirst
<1> QED
  BY <1>3, <1>4, <1>6, <1>7 DEF TablesInv

(* Where one thread is under the lock, the others have no part in the        *)
(* tables.                                                                   *)
Outside(s) == \A k \in Levels(s) : Level(s, k).at \notin Locked \cup Inner

(* A stack outside fits any tables.                                          *)
LEMMA OutsideStays ==
  ASSUME NEW s \in Seq(FrameType), NEW d, NEW e, NEW p, NEW q, Outside(s), StackOK(s, d, p)
  PROVE  /\ StackOK(s, e, q)
         /\ \A n : ~PendingAt(s, n)
         /\ \A w : ~Anew(s, w)
<1>1. Len(s) \in Nat /\ Len(s) > 0 => Len(s) \in Levels(s)
  BY DEF Levels
<1>2. \A k \in Levels(s) :
         Level(s, k).at \notin Pending \cup Preparing \cup Installing \cup {"gi_after", "rt_after"}
  BY DEF Outside, Inner, Installing, Pending, Locked
<1>3. PendingOK(s, e) /\ AwaitedOK(s, q) /\ PreparingOK(s, e, q)
  BY <1>2 DEF PendingOK, AwaitedOK, PreparingOK, Pending
<1>4. InstallingOK(s, e, q) /\ AfterOK(s, e, q)
  <2>1. Len(s) \in Nat
    OBVIOUS
  <2>2. Len(s) > 0 => Level(s, Len(s)).at \notin Installing \cup {"gi_after", "rt_after"}
    BY <1>2, <2>1 DEF Levels
  <2> QED
    BY <2>2 DEF InstallingOK, AfterOK, Installing
<1>5. \A w : ~Anew(s, w)
  <2>1. Len(s) \in Nat
    OBVIOUS
  <2>2. Len(s) > 0 => Level(s, Len(s)).at \notin Installing
    BY <1>2, <2>1 DEF Levels
  <2> QED
    BY <1>2, <2>1, <2>2 DEF Anew, Installing
<1>6. \A n : ~PendingAt(s, n)
  BY <1>2 DEF PendingAt
<1>7. StackOK(s, e, q)
  BY <1>3, <1>4 DEF StackOK
<1> QED
  BY <1>5, <1>6, <1>7

(* Where a thread is inside the lock, all others are outside.                *)
LEMMA OthersOutside ==
  ASSUME Serialized, TypeOK, SerialInv, NEW t \in Threads, stack[t] # <<>>,
         Top(t).at \in Locked \cup Inner
  PROVE  \A u \in Threads \ {t} : Outside(stack[u])
<1>1. LockInv /\ CoveredInv /\ mutex \in Mutexes
  BY DEF SerialInv
<1>2. Len(stack[t]) \in Levels(stack[t]) /\ Top(t) = Level(stack[t], Len(stack[t]))
  BY TopTyped, HeadIs DEF Levels, TypeOK
<1>3. LockedLevels(stack[t]) # {}
  BY <1>1, <1>2, InnerInside DEF LockedLevels
<1>4. ASSUME NEW u \in Threads \ {t}, NEW k \in Levels(stack[u]),
             Level(stack[u], k).at \in Locked \cup Inner
      PROVE  FALSE
  <2>1. LockedLevels(stack[u]) # {}
    BY <1>1, <1>4, InnerInside DEF LockedLevels
  <2> QED
    BY <1>1, <1>3, <2>1, OneInside
<1> QED
  BY <1>4 DEF Outside

(* What the invariant says of all stacks, this one thread's stack has.       *)
LEMMA ThreadHeld ==
  ASSUME TypeOK, TablesInv, NEW t \in Threads, \A u \in Threads \ {t} : Outside(stack[u])
  PROVE  Held(stack[t], dtable, prepared)
<1>1. \A u \in Threads \ {t} : /\ \A n : ~PendingAt(stack[u], n)
                               /\ \A w : ~Anew(stack[u], w)
  BY OutsideStays DEF TypeOK, TablesInv
<1>2. Fits(stack[t], dtable, prepared)
  BY StackFits
<1>3. \A n \in Nodes : prepared[n] # <<>> => PendingAt(stack[t], n)
  BY <1>1 DEF TablesInv, PreparedPending, Prepared
<1>4. \A n \in Nodes : Has(dtable, prepared, n) =>
          SuperHas(dtable, prepared, n) \/ Anew(stack[t], Super[n])
  BY <1>1 DEF TablesInv, SupersFirst
<1> QED
  BY <1>2, <1>3, <1>4 DEF Held, TablesInv

(* What this one thread's stack has after a step holds for all.              *)
LEMMA HeldTables ==
  ASSUME TypeOK, TablesInv, NEW t \in Threads, OfThread(t),
         \A u \in Threads \ {t} : Outside(stack[u]),
         Held(stack'[t], dtable', prepared')
  PROVE  TablesInv'
<1>1. \A u \in Threads : StackOK(stack'[u], dtable', prepared')
  <2>1. \A u \in Threads \ {t} : StackOK(stack[u], dtable', prepared')
    BY OutsideStays DEF TypeOK, TablesInv
  <2>2. StackOK(stack'[t], dtable', prepared')
    BY DEF Held, Fits
  <2> QED
    BY <2>1, <2>2 DEF OfThread
<1>2. OneTable(dtable', prepared')
  BY DEF Held
<1>3. PreparedPending'
  BY DEF PreparedPending, Prepared, Held
<1>4. SupersFirst'
  BY DEF SupersFirst, Held
<1> QED
  BY <1>1, <1>2, <1>3, <1>4 DEF TablesInv

(* Steps that prepare and install nothing, at the line they are at.          *)
LEMMA Follows ==
  ASSUME NEW f, NEW top, f.node = top.node,
         \/ top.at \in Called /\ f.at \in Called /\ (top.at \in Updates <=> f.at \in Updates)
         \/ top.at \in Sending /\ f.at \in Sending
         \/ top.at \in Installing /\ f.at \in Installing
  PROVE  \A g : CalledFrom(g, top) => CalledFrom(g, f)
<1>1. /\ \A l \in Called : l \notin Sending \cup Installing \cup Preparing
      /\ \A l \in Sending : l \notin Called \cup Installing \cup Preparing \cup Updates
      /\ \A l \in Installing : l \notin Called \cup Sending \cup Preparing \cup Updates
  BY DEF Called, Sending, Installing, Preparing, Messaging, Responding, Updates
<1> QED
  BY <1>1 DEF CalledFrom

(* A thread that goes on outside of installations and preparations.          *)
LEMMA MovesTables ==
  ASSUME TypeOK, TablesInv, NEW t \in Threads, OfThread(t), UNCHANGED <<dtable, prepared>>,
         stack[t] # <<>>, NEW f \in FrameType, Moves(stack[t], stack'[t], f), f.node = Node(t),
         <<Top(t).at, f.at>> \in Going \cup Taking \cup Giving,
         Top(t).at \notin Installing \cup Preparing
  PROVE  TablesInv'
<1> PICK a : a = Top(t).at
  OBVIOUS
<1> PICK b : b = f.at
  OBVIOUS
<1>1. <<a, b>> \in (Going \cup Taking \cup Giving) /\ a \notin Installing \cup Preparing
  OBVIOUS
<1>2. \/ a \in Called /\ b \in Called /\ (a \in Updates <=> b \in Updates)
      \/ a \in Sending /\ b \in Sending
  BY <1>1 DEF Going, Taking, Giving, Called, Messaging, Responding, Updates, Sending,
     Installing, Preparing
<1>3. Plain(b) /\ (b \in Messaging => a \in Messaging)
  BY <1>1 DEF Going, Taking, Giving, Plain, Messaging, Installing, Preparing
<1>4. Top(t) = Level(stack[t], Len(stack[t])) /\ f.node = Top(t).node
  BY TopTyped DEF Node
<1>5. \A g : CalledFrom(g, Top(t)) => CalledFrom(g, f)
  BY <1>2, <1>4, Follows
<1>6. stack'[t] \in Seq(FrameType)
  BY DEF OfThread
<1>7. Fits(stack[t], dtable, prepared)
  BY StackFits
<1>8. Quietly(stack[t], stack'[t], dtable, prepared)
  BY <1>3, <1>4, <1>5, <1>6, <1>7, QuietMove
<1> QED
  BY <1>8, QuietTables

(* A thread that calls, to install for a message, to send +initialize, or to *)
(* update a subclass.                                                        *)
LEMMA PushesTables ==
  ASSUME TypeOK, TablesInv, NEW t \in Threads, OfThread(t), UNCHANGED <<dtable, prepared>>,
         stack[t] # <<>>, NEW f \in FrameType, NEW g \in FrameType,
         Pushes(stack[t], stack'[t], f, g), f.node = Node(t),
         \/ /\ <<Top(t).at, f.at, g.at>> \in {<<"gi_test", "gi_after", "in_super">>,
                                              <<"rt_test", "rt_after", "in_super">>}
            /\ g.node = Node(t) /\ ~Installed(Node(t))
         \/ <<Top(t).at, f.at, g.at>> \in {<<"in_init", "in_install", "si_test">>,
                                           <<"si_set", "si_register", "si_test">>,
                                           <<"up_subs", "up_subs", "up_lock">>}
  PROVE  TablesInv'
<1> PICK a : a = Top(t).at
  OBVIOUS
<1> PICK b : b = f.at
  OBVIOUS
<1> PICK c : c = g.at
  OBVIOUS
<1>1. <<a, b, c>> \in {<<"gi_test", "gi_after", "in_super">>,
                       <<"rt_test", "rt_after", "in_super">>,
                       <<"in_init", "in_install", "si_test">>,
                       <<"si_set", "si_register", "si_test">>,
                       <<"up_subs", "up_subs", "up_lock">>}
  OBVIOUS
<1>2. /\ a \notin Busy /\ b \notin Preparing
      /\ b \in Messaging => a \in Messaging
      /\ b \in Pending <=> a \in Pending
      /\ c \in {"in_super", "si_test", "up_lock"}
      /\ c = "in_super" => b # "up_subs"
  BY <1>1 DEF Busy, Preparing, Messaging, Pending
<1>3. \/ a \in Called /\ b \in Called /\ (a \in Updates <=> b \in Updates)
      \/ a \in Sending /\ b \in Sending
      \/ a \in Installing /\ b \in Installing
  BY <1>1 DEF Called, Messaging, Responding, Updates, Sending, Installing
<1>4. Top(t) = Level(stack[t], Len(stack[t])) /\ f.node = Top(t).node
  BY TopTyped DEF Node
<1>5. \A h : CalledFrom(h, Top(t)) => CalledFrom(h, f)
  BY <1>3, <1>4, Follows
<1>6. CalledFrom(f, g)
  <2>1. "in_super" \in Installing /\ "si_test" \in Sending /\ "up_lock" \in Updates
    BY DEF Installing, Sending, Updates
  <2> QED
    BY <2>1 DEF CalledFrom
<1>7. g.at = "in_super" => dtable[g.node] = Uninstalled /\ f.at # "up_subs"
  BY <1>2 DEF Installed
<1>8. stack'[t] \in Seq(FrameType)
  BY DEF OfThread
<1>9. Fits(stack[t], dtable, prepared)
  BY StackFits
<1>10. Quietly(stack[t], stack'[t], dtable, prepared)
  BY <1>2, <1>4, <1>5, <1>6, <1>7, <1>8, <1>9, QuietPush
<1> QED
  BY <1>10, QuietTables

(* A message, a test, an update or a sending of +initialize returns.         *)
LEMMA PopsTables ==
  ASSUME TypeOK, TablesInv, NEW t \in Threads, OfThread(t), UNCHANGED <<dtable, prepared>>,
         stack[t] # <<>>, Pops(stack[t], stack'[t]), Top(t).at \in Called \cup Sending
  PROVE  TablesInv'
<1>1. Top(t) = Level(stack[t], Len(stack[t])) /\ stack'[t] \in Seq(FrameType)
  BY TopTyped DEF OfThread
<1>2. Fits(stack[t], dtable, prepared)
  BY StackFits
<1>3. Quietly(stack[t], stack'[t], dtable, prepared)
  BY <1>1, <1>2, QuietPop
<1> QED
  BY <1>3, QuietTables

(* All steps that change no table and begin outside of installations and     *)
(* preparations.                                                             *)
LEMMA PlainTables ==
  ASSUME TypeOK, TablesInv, NEW t \in Threads, Abstractly(t), UNCHANGED <<dtable, prepared>>,
         stack[t] # <<>>,
         \/ Top(t).at = "in_init"
         \/ Top(t).at \notin
                Installing \cup Preparing \cup {"gi_test", "rt_test", "up_test", "si_body"}
  PROVE  TablesInv'
<1>1. OfThread(t) /\ StackStep(t)
  BY DEF Abstractly
<1>2. CASE \E f \in FrameType :
             /\ Moves(stack[t], stack'[t], f) /\ f.node = Node(t)
             /\ <<Top(t).at, f.at>> \in Going \cup Taking \cup Giving
  <2>1. PICK f \in FrameType :
             /\ Moves(stack[t], stack'[t], f) /\ f.node = Node(t)
             /\ <<Top(t).at, f.at>> \in Going \cup Taking \cup Giving
    BY <1>2
  <2>2. Top(t).at # "in_init"
    BY <2>1 DEF Going, Taking, Giving
  <2> QED
    BY <1>1, <2>1, <2>2, MovesTables
<1>3. CASE \E f, g \in FrameType :
             /\ Pushes(stack[t], stack'[t], f, g) /\ f.node = Node(t)
             /\ <<Top(t).at, f.at, g.at>> \in Calling
  <2>1. PICK f \in FrameType, g \in FrameType :
             /\ Pushes(stack[t], stack'[t], f, g) /\ f.node = Node(t)
             /\ <<Top(t).at, f.at, g.at>> \in Calling
    BY <1>3
  <2>2. <<Top(t).at, f.at, g.at>> \in {<<"in_init", "in_install", "si_test">>,
                                       <<"si_set", "si_register", "si_test">>,
                                       <<"up_subs", "up_subs", "up_lock">>}
    BY <2>1 DEF Calling, Installing, Preparing
  <2> QED
    BY <1>1, <2>1, <2>2, PushesTables
<1>4. CASE Pops(stack[t], stack'[t]) /\ Top(t).at \in Returning \cup Ending
  <2>1. Top(t).at \in Called \cup Sending
    BY <1>4 DEF Returning, Ending, Called, Messaging, Updates, Sending, Installing, Preparing
  <2> QED
    BY <1>1, <1>4, <2>1, PopsTables
<1>5. Top(t).at # "si_body"
  OBVIOUS
<1> QED
  BY <1>1, <1>2, <1>3, <1>4, <1>5 DEF StackStep

(* Each part of messaging.c keeps what the assertions rest on, and none of   *)
(* its assertions fails.                                                     *)
LEMMA LookupTables ==
  ASSUME TypeOK, TablesInv, NEW t \in Threads, Lookup(t), mutex' = mutex, aborted = 0
  PROVE  TablesInv' /\ aborted' = 0
<1>1. Abstractly(t)
  BY LookupAbstractly
<1>2. UNCHANGED <<dtable, prepared>>
  BY DEF Lookup, LookFast, LookInstalled, LookLoad, RespondsInstalled, LookUninstalled,
     LookLocked, FirstMessage, LookAgain, LookPrepared, Answer, tables
<1>3. stack[t] # <<>>
  BY DEF Lookup, LookFast, LookInstalled, LookLoad, RespondsInstalled, LookUninstalled,
     LookLocked, FirstMessage, LookAgain, LookPrepared, Answer, At
<1>4. CASE LookFast(t) \/ LookInstalled(t) \/ LookLoad(t) \/ RespondsInstalled(t)
           \/ LookUninstalled(t) \/ LookLocked(t) \/ Answer(t)
  <2>1. /\ aborted' = aborted
        /\ Top(t).at \in {"gi_fast", "gi_read", "gi_load", "rt_read", "gi_lock", "rt_lock", "answered"}
    BY <1>4 DEF LookFast, LookInstalled, LookLoad, RespondsInstalled, LookUninstalled,
       LookLocked, Answer, At
  <2>2. Top(t).at \notin
            Installing \cup Preparing \cup {"gi_test", "rt_test", "up_test", "si_body"}
    BY <2>1 DEF Installing, Preparing
  <2> QED
    BY <1>1, <1>2, <1>3, <2>1, <2>2, PlainTables
<1>5. CASE FirstMessage(t)
  <2>1. /\ aborted' = aborted /\ ~Installed(Node(t)) /\ Node(t) \in Nodes
        /\ \/ Top(t).at = "gi_test" /\ Call(t, "in_super", Node(t), "gi_after")
           \/ Top(t).at = "rt_test" /\ Call(t, "in_super", Node(t), "rt_after")
    BY <1>3, <1>5, TopTyped DEF FirstMessage, At
  <2>2. "in_super" \in Labels /\ "gi_after" \in Labels /\ "rt_after" \in Labels
    BY DEF Labels, Inner, Installing, Locked
  <2>3. OfThread(t)
    BY <1>1 DEF Abstractly
  <2>4. PICK f \in FrameType, g \in FrameType :
          /\ Pushes(stack[t], stack'[t], f, g)
          /\ f.node = Node(t) /\ g.at = "in_super" /\ g.node = Node(t)
          /\ <<Top(t).at, f.at>> \in {<<"gi_test", "gi_after">>, <<"rt_test", "rt_after">>}
    BY <1>3, <2>1, <2>2, CallPushes DEF TypeOK
  <2>5. TablesInv'
    BY <1>2, <1>3, <2>1, <2>3, <2>4, PushesTables
  <2> QED
    BY <2>1, <2>5
<1>6. CASE LookAgain(t)
  <2>1. /\ aborted' = aborted /\ Node(t) \in Nodes
        /\ \/ Top(t).at \in {"gi_test", "gi_after"} /\ Goto(t, "gi_read")
           \/ Top(t).at \in {"rt_test", "rt_after"} /\ Found(t, dtable[Node(t)])
    BY <1>3, <1>6, TopTyped DEF LookAgain, At
  <2>2. "gi_read" \in Labels /\ dtable[Node(t)] \in Tables \cup {Uninstalled}
    BY <2>1 DEF Labels, Looking, TypeOK
  <2>3. OfThread(t)
    BY <1>1 DEF Abstractly
  <2>4. PICK f \in FrameType :
          /\ Moves(stack[t], stack'[t], f) /\ f.node = Node(t)
          /\ \/ Top(t).at \in {"gi_test", "gi_after"} /\ f.at = "gi_read"
             \/ Top(t).at \in {"rt_test", "rt_after"} /\ f.at = "answered"
    BY <1>3, <2>1, <2>2, GotoMoves, FoundMoves DEF TypeOK
  <2>5. /\ <<Top(t).at, f.at>> \in Giving
        /\ Top(t).at \notin Installing \cup Preparing
    BY <2>4 DEF Giving, Installing, Preparing
  <2>6. TablesInv'
    BY <1>2, <1>3, <2>3, <2>4, <2>5, MovesTables
  <2> QED
    BY <2>1, <2>6
<1>7. CASE LookPrepared(t)
  <2>1. ~Installed(Node(t)) /\ Top(t).at \in {"gi_after", "rt_after"}
    BY <1>7 DEF LookPrepared, At
  <2>2. /\ Len(stack[t]) > 0 /\ Top(t) = Level(stack[t], Len(stack[t]))
    BY <1>3, TopTyped, HeadIs DEF TypeOK
  <2>3. AfterOK(stack[t], dtable, prepared)
    BY DEF TablesInv, StackOK
  <2>4. Top(t).at = "rt_after" /\ Prepared(Node(t))
    BY <2>1, <2>2, <2>3 DEF AfterOK, Installed, Prepared, Has, Node
  <2>5. aborted' = 0
    BY <1>7, <2>4 DEF LookPrepared, At, Assert
  <2>6. Top(t).at \notin
            Installing \cup Preparing \cup {"gi_test", "rt_test", "up_test", "si_body"}
    BY <2>4 DEF Installing, Preparing
  <2> QED
    BY <1>1, <1>2, <1>3, <2>5, <2>6, PlainTables
<1> QED
  BY <1>4, <1>5, <1>6, <1>7 DEF Lookup

(* __tour_install_dtable_for_class and                                       *)
(* __tour_install_prepared_dtable_for_class.                                 *)
LEMMA InstallTables ==
  ASSUME Serialized, TypeOK, SerialInv, TablesInv, NEW t \in Threads, Install(t),
         mutex' = mutex, aborted = 0
  PROVE  TablesInv' /\ aborted' = 0
<1>1. Abstractly(t) /\ OfThread(t) /\ stack'[t] \in Seq(FrameType)
  BY InstallAbstractly DEF Abstractly, OfThread
<1>2. stack[t] # <<>> /\ Top(t).at \in Installing
  BY DEF Install, InstallSuper, InstallCheck, InstallPrepare, InstallInitialize,
     InstallPrepared, At, Installing
<1>3. /\ Top(t) = Level(stack[t], Len(stack[t])) /\ Node(t) = Top(t).node /\ Node(t) \in Nodes
      /\ Len(stack[t]) > 0 /\ Len(stack[t]) \in Levels(stack[t])
      /\ Above(t) = Super[Node(t)] /\ Above(t) \in Nodes \cup {NoNode}
  BY <1>2, TopTyped, HeadIs DEF TypeOK, Node, Above, Levels
<1>4. Fits(stack[t], dtable, prepared) /\ StackOK(stack[t], dtable, prepared)
  BY StackFits DEF Fits
<1>5. \A u \in Threads \ {t} : Outside(stack[u])
  BY <1>2, OthersOutside DEF Inner
<1>6. Held(stack[t], dtable, prepared)
  BY <1>5, ThreadHeld
<1>7. /\ Top(t).at \in {"in_super", "in_prepared"} => dtable[Node(t)] = Uninstalled
      /\ Top(t).at \in {"in_check", "in_prepared"} => SuperHas(dtable, prepared, Node(t))
  BY <1>3, <1>4 DEF StackOK, InstallingOK
<1>8. "in_super" \in Labels /\ "in_check" \in Labels /\ "in_prepared" \in Labels
      /\ "in_init" \in Labels /\ "pr_start" \in Labels
  BY DEF Labels, Inner, Installing, Preparing
<1>9. stack \in [Threads -> Seq(FrameType)]
  BY DEF TypeOK
<1>10. ASSUME UNCHANGED <<dtable, prepared>>, Goto(t, "in_prepared"),
              Top(t).at \in {"in_super", "in_check"}, dtable[Node(t)] = Uninstalled,
              SuperHas(dtable, prepared, Node(t))
       PROVE  TablesInv'
  <2>1. PICK f \in FrameType :
          Moves(stack[t], stack'[t], f) /\ f.at = "in_prepared" /\ f.node = Node(t)
    BY <1>2, <1>8, <1>9, <1>10, GotoMoves
  <2>2. Quietly(stack[t], stack'[t], dtable, prepared)
    BY <1>1, <1>3, <1>4, <1>10, <2>1, PreparedMove
  <2> QED
    BY <1>1, <1>10, <2>2, QuietTables
<1>11. CASE InstallSuper(t)
  <2>1. UNCHANGED <<dtable, prepared>> /\ aborted' = aborted /\ Top(t).at = "in_super"
    BY <1>11 DEF InstallSuper, tables, At
  <2>2. CASE Above(t) # NoNode /\ ~Installed(Above(t)) /\ ~Prepared(Above(t))
    <3>1. Above(t) \in Nodes /\ Call(t, "in_super", Above(t), "in_check")
      BY <1>3, <1>11, <2>2 DEF InstallSuper
    <3>2. PICK f \in FrameType, g \in FrameType :
            /\ Pushes(stack[t], stack'[t], f, g)
            /\ f.at = "in_check" /\ f.node = Node(t) /\ g.at = "in_super" /\ g.node = Above(t)
      BY <1>2, <1>8, <1>9, <3>1, CallPushes
    <3>3. ~Has(dtable, prepared, Super[Node(t)])
      BY <1>3, <2>2 DEF Has, Installed, Prepared
    <3>4. Has(dtable, prepared, Node(t)) =>
              \/ SuperHas(dtable, prepared, Node(t))
              \/ Anew(stack[t], Super[Node(t)])
      BY <1>3, <1>6 DEF Held
    <3>5. Quietly(stack[t], stack'[t], dtable, prepared)
      BY <1>1, <1>3, <1>4, <2>1, <3>1, <3>2, <3>3, <3>4, SuperPush
    <3> QED
      BY <1>1, <2>1, <3>5, QuietTables
  <2>3. CASE ~(Above(t) # NoNode /\ ~Installed(Above(t)) /\ ~Prepared(Above(t)))
    <3>1. Goto(t, "in_prepared")
      BY <1>11, <2>3 DEF InstallSuper
    <3>2. SuperHas(dtable, prepared, Node(t))
      BY <1>3, <2>3, NodesAssumption DEF SuperHas, Has, Installed, Prepared
    <3> QED
      BY <1>7, <1>10, <2>1, <3>1, <3>2
  <2> QED
    BY <2>1, <2>2, <2>3
<1>12. CASE InstallCheck(t)
  <2>1. UNCHANGED <<dtable, prepared>> /\ aborted' = aborted /\ Top(t).at = "in_check"
    BY <1>12 DEF InstallCheck, tables, At
  <2>2. CASE Installed(Node(t))
    <3>1. Pops(stack[t], stack'[t])
      BY <1>2, <1>9, <1>12, <2>2, ReturnPops DEF InstallCheck
    <3>2. Quietly(stack[t], stack'[t], dtable, prepared)
      BY <1>1, <1>3, <1>4, <2>1, <2>2, <3>1, CheckPop DEF Installed
    <3> QED
      BY <1>1, <2>1, <3>2, QuietTables
  <2>3. CASE ~Installed(Node(t))
    <3>1. Goto(t, "in_prepared")
      BY <1>12, <2>3 DEF InstallCheck
    <3> QED
      BY <1>7, <1>10, <2>1, <2>3, <3>1 DEF Installed
  <2> QED
    BY <2>1, <2>2, <2>3
<1>13. CASE InstallPrepare(t)
  <2>1. UNCHANGED <<dtable, prepared>> /\ aborted' = aborted /\ Top(t).at = "in_prepared"
    BY <1>13 DEF InstallPrepare, tables, At
  <2>2. CASE Prepared(Node(t))
    <3>1. Pops(stack[t], stack'[t])
      BY <1>2, <1>9, <1>13, <2>2, ReturnPops DEF InstallPrepare
    <3>2. prepared[Node(t)] # <<>> /\ PendingAt(stack[t], Node(t))
      BY <1>3, <1>6, <2>2 DEF Held, Prepared
    <3>3. Quietly(stack[t], stack'[t], dtable, prepared)
      BY <1>1, <1>3, <1>4, <2>1, <3>1, <3>2, PreparedPop
    <3> QED
      BY <1>1, <2>1, <3>3, QuietTables
  <2>3. CASE ~Prepared(Node(t))
    <3>1. Call(t, "pr_start", Node(t), "in_init")
      BY <1>13, <2>3 DEF InstallPrepare
    <3>2. PICK f \in FrameType, g \in FrameType :
            /\ Pushes(stack[t], stack'[t], f, g)
            /\ f.at = "in_init" /\ f.node = Node(t) /\ g.at = "pr_start" /\ g.node = Node(t)
      BY <1>2, <1>3, <1>8, <1>9, <3>1, CallPushes
    <3>3. ASSUME NEW k \in Levels(stack[t]), Level(stack[t], k).at \in Preparing PROVE FALSE
      <4>1. k # Len(stack[t])
        BY <1>3, <2>1, <3>3 DEF Preparing
      <4>2. k = Len(stack[t]) - 1 /\ prepared[Super[Level(stack[t], k).node]] # <<>>
            /\ Level(stack[t], k).at = "pr_copy"
        BY <1>4, <3>3, <4>1 DEF StackOK, PreparingOK
      <4>3. k \in 1..(Len(stack[t]) - 1) /\ k + 1 = Len(stack[t])
        BY <1>4, <4>2 DEF Levels, Fits
      <4>4. CalledFrom(Level(stack[t], k), Top(t))
        BY <1>3, <1>4, <4>3 DEF StackOK, Shape
      <4>5. Node(t) = Super[Level(stack[t], k).node]
        BY <1>3, <4>2, <4>4 DEF CalledFrom
      <4> QED
        BY <2>3, <4>2, <4>5 DEF Prepared
    <3>4. \A k \in Levels(stack[t]) :
             /\ Level(stack[t], k).at \notin Preparing
             /\ Level(stack[t], k).at \in Pending => prepared[Level(stack[t], k).node] # <<>>
      BY <1>4, <3>3, Waiting
    <3>5. Quietly(stack[t], stack'[t], dtable, prepared)
      BY <1>1, <1>3, <1>4, <1>7, <2>1, <2>3, <3>2, <3>4, PreparePush DEF Prepared
    <3> QED
      BY <1>1, <2>1, <3>5, QuietTables
  <2> QED
    BY <2>1, <2>2, <2>3
<1>14. CASE InstallInitialize(t)
  <2>1. UNCHANGED <<dtable, prepared>> /\ aborted' = aborted /\ Top(t).at = "in_init"
    BY <1>14 DEF InstallInitialize, tables, At
  <2> QED
    BY <1>1, <1>2, <2>1, PlainTables
<1>15. CASE InstallPrepared(t)
  <2>1. Top(t).at = "in_install" /\ Pops(stack[t], stack'[t])
    BY <1>2, <1>9, <1>15, ReturnPops DEF InstallPrepared, At
  <2>2. prepared[Node(t)] # <<>>
    BY <1>3, <1>4, <2>1, Calm DEF Busy, Preparing, Pending
  <2>3. dtable[Node(t)] = Uninstalled
    BY <1>3, <1>4, <2>1 DEF StackOK, PendingOK, Pending
  <2>4. /\ dtable' = [dtable EXCEPT ![Node(t)] = Head(prepared[Node(t)])]
        /\ prepared' = [prepared EXCEPT ![Node(t)] = Tail(prepared[Node(t)])]
        /\ aborted' = 0
    BY <1>15, <2>2, <2>3 DEF InstallPrepared, Prepared, Installed, Assert
  <2>5. prepared[Node(t)] \in Seq(Tables) /\ Len(prepared[Node(t)]) <= 1
    BY <1>3, <1>6 DEF TypeOK, Held, OneTable
  <2>6. Head(prepared[Node(t)]) \in Tables /\ Tail(prepared[Node(t)]) = <<>>
    BY <2>2, <2>5, HeadIs
  <2>7. ASSUME NEW x \in Tables PROVE x # Uninstalled
    <3>1. PICK n \in Nodes \cup {NoNode}, k \in Nat : x = <<n, k>>
      BY DEF Tables
    <3>2. Len(x) = 2 /\ Len(<<>>) = 0
      BY <3>1
    <3> QED
      BY <3>2 DEF Uninstalled
  <2>8. dtable'[Node(t)] # Uninstalled /\ prepared'[Node(t)] = <<>>
    BY <1>3, <2>4, <2>6, <2>7 DEF TypeOK
  <2>9. \A m \in Nodes \ {Node(t)} : dtable'[m] = dtable[m] /\ prepared'[m] = prepared[m]
    BY <2>4 DEF TypeOK
  <2>10. Held(stack'[t], dtable', prepared')
    BY <1>1, <1>3, <1>6, <2>1, <2>8, <2>9, InstallPop
  <2> QED
    BY <1>1, <1>5, <2>4, <2>10, HeldTables
<1> QED
  BY <1>11, <1>12, <1>13, <1>14, <1>15 DEF Install

(* __tour_prepare_dtable_for_class.                                          *)
LEMMA PrepareTables ==
  ASSUME Serialized, TypeOK, SerialInv, TablesInv, NEW t \in Threads, Prepare(t),
         mutex' = mutex, aborted = 0
  PROVE  TablesInv' /\ aborted' = 0
<1>1. Abstractly(t) /\ OfThread(t) /\ stack'[t] \in Seq(FrameType)
  BY PrepareAbstractly DEF Abstractly, OfThread
<1>2. stack[t] # <<>> /\ Top(t).at \in Preparing
  BY DEF Prepare, PrepareStart, PrepareSuper, PrepareCopy, At, Preparing
<1>3. /\ Top(t) = Level(stack[t], Len(stack[t])) /\ Node(t) = Top(t).node /\ Node(t) \in Nodes
      /\ Len(stack[t]) \in Levels(stack[t])
      /\ Above(t) = Super[Node(t)] /\ Above(t) \in Nodes \cup {NoNode}
  BY <1>2, TopTyped, HeadIs DEF TypeOK, Node, Above, Levels
<1>4. Fits(stack[t], dtable, prepared) /\ StackOK(stack[t], dtable, prepared)
  BY StackFits DEF Fits
<1>5. \A u \in Threads \ {t} : Outside(stack[u])
  BY <1>2, OthersOutside DEF Inner
<1>6. Held(stack[t], dtable, prepared)
  BY <1>5, ThreadHeld
<1>7. /\ dtable[Node(t)] = Uninstalled /\ SuperHas(dtable, prepared, Node(t))
      /\ Top(t).at # "pr_start" => prepared[Node(t)] = <<>>
  BY <1>2, <1>3, <1>4 DEF StackOK, PreparingOK
<1>8. "pr_super" \in Labels /\ "pr_copy" \in Labels /\ "in_super" \in Labels
  BY DEF Labels, Inner, Installing, Preparing
<1>9. stack \in [Threads -> Seq(FrameType)]
  BY DEF TypeOK
<1>10. CASE PrepareStart(t)
  <2>1. /\ Top(t).at = "pr_start" /\ Goto(t, "pr_super") /\ aborted' = 0 /\ dtable' = dtable
        /\ prepared' =
               [prepared EXCEPT ![Node(t)] = IF Prepared(Node(t)) THEN Tail(@) ELSE @]
    BY <1>7, <1>10 DEF PrepareStart, At, Assert, Installed
  <2>2. PICK f \in FrameType :
          Moves(stack[t], stack'[t], f) /\ f.at = "pr_super" /\ f.node = Node(t)
    BY <1>2, <1>8, <1>9, <2>1, GotoMoves
  <2>3. prepared[Node(t)] \in Seq(Tables) /\ Len(prepared[Node(t)]) <= 1
    BY <1>3, <1>6 DEF TypeOK, Held, OneTable
  <2>4. prepared[Node(t)] # <<>> => Tail(prepared[Node(t)]) = <<>>
    BY <2>3
  <2>5. prepared'[Node(t)] = <<>>
    BY <1>3, <2>1, <2>4 DEF TypeOK, Prepared
  <2>6. \A m \in Nodes \ {Node(t)} : prepared'[m] = prepared[m]
    BY <2>1 DEF TypeOK
  <2>7. Top(t).at = "pr_start"
    BY <2>1
  <2>8. Held(stack'[t], dtable, prepared')
    BY <1>1, <1>3, <1>6, <2>2, <2>5, <2>6, <2>7, PrepareMove
  <2>9. Held(stack'[t], dtable', prepared') /\ aborted' = 0
    BY <2>1, <2>8
  <2> QED
    BY <1>1, <1>5, <2>9, HeldTables
<1>11. CASE PrepareSuper(t)
  <2>1. Top(t).at = "pr_super" /\ UNCHANGED <<dtable, prepared>> /\ aborted' = aborted
    BY <1>11 DEF PrepareSuper, At, tables
  <2>2. CASE Above(t) # NoNode /\ ~Installed(Above(t))
    <3>1. Above(t) \in Nodes /\ Call(t, "in_super", Above(t), "pr_copy")
      BY <1>3, <1>11, <2>2 DEF PrepareSuper
    <3>2. PICK f \in FrameType, g \in FrameType :
            /\ Pushes(stack[t], stack'[t], f, g)
            /\ f.at = "pr_copy" /\ f.node = Node(t) /\ g.at = "in_super" /\ g.node = Above(t)
      BY <1>2, <1>8, <1>9, <3>1, CallPushes
    <3>3. Quietly(stack[t], stack'[t], dtable, prepared)
      BY <1>1, <1>3, <1>4, <2>1, <2>2, <3>1, <3>2, CopyPush DEF Installed
    <3> QED
      BY <1>1, <2>1, <3>3, QuietTables
  <2>3. CASE ~(Above(t) # NoNode /\ ~Installed(Above(t)))
    <3>1. Goto(t, "pr_copy")
      BY <1>11, <2>3 DEF PrepareSuper
    <3>2. PICK f \in FrameType :
            Moves(stack[t], stack'[t], f) /\ f.at = "pr_copy" /\ f.node = Node(t)
      BY <1>2, <1>8, <1>9, <3>1, GotoMoves
    <3>3. Held(stack'[t], dtable, prepared)
      BY <1>1, <1>3, <1>6, <1>7, <2>1, <3>2, PrepareMove
    <3> QED
      BY <1>1, <1>5, <2>1, <3>3, HeldTables
  <2> QED
    BY <2>1, <2>2, <2>3
<1>12. CASE PrepareCopy(t)
  <2>1. /\ Top(t).at = "pr_copy" /\ Pops(stack[t], stack'[t]) /\ dtable' = dtable
    BY <1>2, <1>9, <1>12, ReturnPops DEF PrepareCopy, At
  <2>2. Above(t) \in Nodes => HasTable(Above(t))
    BY <1>3, <1>7 DEF SuperHas, Has, HasTable, Installed, Prepared
  <2>3. aborted' = 0
    BY <1>12, <2>2 DEF PrepareCopy, Assert
  <2> PICK x : x = NewTable(Node(t))
    OBVIOUS
  <2>4. prepared' = [prepared EXCEPT ![Node(t)] = <<x>> \o prepared[Node(t)]]
    BY <1>12 DEF PrepareCopy
  <2>5. x \in Tables /\ prepared[Node(t)] = <<>>
    BY <1>3, <1>7, <2>1, TableTyped
  <2>6. <<x>> \o <<>> = <<x>>
    OBVIOUS
  <2>7. prepared'[Node(t)] = <<x>>
    BY <1>3, <2>4, <2>5, <2>6 DEF TypeOK
  <2>8. \A m \in Nodes \ {Node(t)} : prepared'[m] = prepared[m]
    BY <2>4 DEF TypeOK
  <2>9. Held(stack'[t], dtable', prepared')
    BY <1>1, <1>3, <1>6, <2>1, <2>7, <2>8, CopyPop
  <2> QED
    BY <1>1, <1>5, <2>3, <2>9, HeldTables
<1> QED
  BY <1>10, <1>11, <1>12 DEF Prepare

(* __tour_send_initialize.                                                   *)
LEMMA SendTables ==
  ASSUME TypeOK, TablesInv, NEW t \in Threads, SendInitialize(t), mutex' = mutex, aborted = 0
  PROVE  TablesInv' /\ aborted' = 0
<1>1. Abstractly(t) /\ OfThread(t)
  BY SendAbstractly DEF Abstractly
<1>2. /\ UNCHANGED <<dtable, prepared>> /\ aborted' = aborted /\ stack[t] # <<>>
      /\ Top(t).at \in Sending
  BY DEF SendInitialize, InitializeTest, InitializeSet, InitializeRegister, InitializeSend,
     InitializeDone, At, Sending, tables
<1>3. CASE InitializeDone(t)
  <2>1. Pops(stack[t], stack'[t])
    BY <1>2, <1>3, ReturnPops DEF InitializeDone, TypeOK
  <2> QED
    BY <1>1, <1>2, <2>1, PopsTables
<1>4. CASE ~InitializeDone(t)
  <2>1. Top(t).at \in {"si_test", "si_set", "si_register", "si_send"}
    BY <1>4 DEF SendInitialize, InitializeTest, InitializeSet, InitializeRegister,
       InitializeSend, At
  <2>2. Top(t).at \notin
            Installing \cup Preparing \cup {"gi_test", "rt_test", "up_test", "si_body"}
    BY <2>1 DEF Installing, Preparing
  <2> QED
    BY <1>1, <1>2, <2>2, PlainTables
<1> QED
  BY <1>3, <1>4

(* __tour_update_dispatch_table_for_class and the adding of methods.         *)
LEMMA UpdateTables ==
  ASSUME Serialized, TypeOK, SerialInv, TablesInv, NEW t \in Threads, Update(t),
         mutex' = mutex, aborted = 0
  PROVE  TablesInv' /\ aborted' = 0
<1>1. Abstractly(t) /\ OfThread(t) /\ stack'[t] \in Seq(FrameType)
  BY UpdateAbstractly DEF Abstractly, OfThread
<1>2. stack[t] # <<>> /\ aborted' = aborted
  BY DEF Update, LinkMethods, UpdateLock, UpdatePrepared, UpdateInstalled,
     UpdateSubclass, UpdateUnlock, At
<1>3. /\ Top(t) = Level(stack[t], Len(stack[t])) /\ Node(t) = Top(t).node /\ Node(t) \in Nodes
  BY <1>2, TopTyped DEF Node
<1>4. Fits(stack[t], dtable, prepared) /\ StackOK(stack[t], dtable, prepared)
  BY StackFits DEF Fits
<1>5. stack \in [Threads -> Seq(FrameType)]
  BY DEF TypeOK
<1>6. CASE LinkMethods(t) \/ UpdateLock(t) \/ UpdateSubclass(t) \/ UpdateUnlock(t)
  <2>1. /\ UNCHANGED <<dtable, prepared>>
        /\ Top(t).at \in {"am_link", "up_lock", "up_subs", "up_unlock"}
    BY <1>6 DEF LinkMethods, UpdateLock, UpdateSubclass, UpdateUnlock, At, tables
  <2>2. Top(t).at \notin
            Installing \cup Preparing \cup {"gi_test", "rt_test", "up_test", "si_body"}
    BY <2>1 DEF Installing, Preparing
  <2> QED
    BY <1>1, <1>2, <2>1, <2>2, PlainTables
<1>7. ASSUME Top(t).at = "up_test"
      PROVE  /\ \A u \in Threads \ {t} : Outside(stack[u])
             /\ Held(stack[t], dtable, prepared)
             /\ \A k \in Levels(stack[t]) :
                  /\ Level(stack[t], k).at \notin Preparing
                  /\ Level(stack[t], k).at \in Pending => prepared[Level(stack[t], k).node] # <<>>
             /\ \A w : ~Anew(stack[t], w)
  <2>1. \A u \in Threads \ {t} : Outside(stack[u])
    BY <1>2, <1>7, OthersOutside DEF Locked
  <2>2. Top(t).at \notin Busy
    BY <1>7 DEF Busy, Preparing
  <2> QED
    BY <1>3, <1>4, <2>1, <2>2, ThreadHeld, Calm
<1>8. CASE UpdatePrepared(t)
  <2>1. /\ UNCHANGED <<dtable, prepared>> /\ Top(t).at = "up_test"
        /\ dtable[Node(t)] = Uninstalled
    BY <1>8 DEF UpdatePrepared, At, tables, Installed
  <2>2. CASE Prepared(Node(t))
    <3>1. Call(t, "pr_start", Node(t), "up_unlock") /\ "pr_start" \in Labels
          /\ "up_unlock" \in Labels
      BY <1>8, <2>2 DEF UpdatePrepared, Labels, Inner, Preparing, Locked
    <3>2. PICK f \in FrameType, g \in FrameType :
            /\ Pushes(stack[t], stack'[t], f, g)
            /\ f.at = "up_unlock" /\ f.node = Node(t) /\ g.at = "pr_start" /\ g.node = Node(t)
      BY <1>2, <1>3, <1>5, <3>1, CallPushes
    <3>3. Has(dtable, prepared, Node(t)) /\ PendingAt(stack[t], Node(t))
      BY <1>3, <1>7, <2>1, <2>2 DEF Held, Has, Prepared
    <3>4. SuperHas(dtable, prepared, Node(t))
      BY <1>3, <1>7, <2>1, <3>3 DEF Held
    <3>5. Quietly(stack[t], stack'[t], dtable, prepared)
      BY <1>1, <1>3, <1>4, <1>7, <2>1, <3>2, <3>3, <3>4, PreparePush
    <3> QED
      BY <1>1, <1>2, <2>1, <3>5, QuietTables
  <2>3. CASE ~Prepared(Node(t))
    <3>1. Goto(t, "up_unlock") /\ "up_unlock" \in Labels
      BY <1>8, <2>3 DEF UpdatePrepared, Labels, Locked
    <3>2. PICK f \in FrameType :
            Moves(stack[t], stack'[t], f) /\ f.at = "up_unlock" /\ f.node = Node(t)
      BY <1>2, <1>5, <3>1, GotoMoves
    <3>3. <<"up_test", "up_unlock">> \in Going /\ "up_test" \notin Installing \cup Preparing
      BY DEF Going, Installing, Preparing
    <3> QED
      BY <1>1, <1>2, <2>1, <3>2, <3>3, MovesTables
  <2> QED
    BY <2>2, <2>3
<1>9. CASE UpdateInstalled(t)
  <2>1. /\ Top(t).at = "up_test" /\ dtable[Node(t)] # Uninstalled /\ prepared' = prepared
        /\ dtable' = [dtable EXCEPT ![Node(t)] = Uninstalled]
    BY <1>9 DEF UpdateInstalled, At, Installed
  <2>2. \E f, g \in FrameType :
          /\ Pushes(stack[t], stack'[t], f, g) /\ f.at = "up_subs" /\ f.node = Node(t)
          /\ g.at = "in_super" /\ g.node = Node(t)
    <3> PICK rest : rest = {m \in Nodes : Super[m] = Node(t)}
      OBVIOUS
    <3> PICK f : f = [Top(t) EXCEPT !.at = "up_subs", !.rest = rest]
      OBVIOUS
    <3>1. /\ stack' = [stack EXCEPT ![t] = <<Frame("in_super", Node(t)), f>> \o Tail(@)]
          /\ Keeps(t)
      BY <1>9 DEF UpdateInstalled, MayDiscard, Keeps
    <3>2. <<Top(t).at, "up_subs", "in_super">> \in Calling /\ "in_super" \in Labels
      BY <2>1 DEF Calling, Installing, Inner, Labels
    <3>3. f \in FrameType /\ Pushes(stack[t], stack'[t], f, Frame("in_super", Node(t)))
      BY <1>2, <1>3, <3>1, <3>2, UpdatePushes
    <3>4. Top(t) \in FrameType /\ rest \in SUBSET Nodes
      BY <1>2, TopTyped
    <3>5. f.at = "up_subs" /\ f.node = Node(t)
      BY <3>4, FrameChanged DEF Node
    <3>6. /\ Frame("in_super", Node(t)) \in FrameType
          /\ Frame("in_super", Node(t)).at = "in_super"
          /\ Frame("in_super", Node(t)).node = Node(t)
      BY <1>3, <3>2, FrameTyped
    <3> QED
      BY <3>3, <3>5, <3>6
  <2>3. PICK f \in FrameType, g \in FrameType :
          /\ Pushes(stack[t], stack'[t], f, g) /\ f.at = "up_subs" /\ f.node = Node(t)
          /\ g.at = "in_super" /\ g.node = Node(t)
    BY <2>2
  <2>4. /\ dtable'[Node(t)] = Uninstalled
        /\ \A m \in Nodes \ {Node(t)} : dtable'[m] = dtable[m]
    BY <1>3, <2>1 DEF TypeOK
  <2>5. Held(stack[t], dtable, prepared) /\ Top(t).at = "up_test" /\ dtable[Node(t)] # Uninstalled
    BY <1>7, <2>1
  <2>6. Held(stack'[t], dtable', prepared)
    BY <1>1, <1>3, <2>3, <2>4, <2>5, UpdatePush
  <2>7. Held(stack'[t], dtable', prepared')
    BY <2>1, <2>6
  <2> QED
    BY <1>1, <1>2, <1>7, <2>1, <2>7, HeldTables
<1> QED
  BY <1>6, <1>8, <1>9 DEF Update

(* The calls of a careful program.                                           *)
LEMMA CallTables ==
  ASSUME TypeOK, TablesInv, NEW t \in Threads, CarefulCall(t)
  PROVE  TablesInv' /\ aborted' = aborted
<1>1. AnyCall(t)
  BY DEF CarefulCall, AnyCall
<1>2. Abstractly(t)
  BY <1>1, CallAbstractly
<1>3. OfThread(t) /\ stack'[t] \in Seq(FrameType)
  BY <1>2 DEF Abstractly, OfThread
<1>4. UNCHANGED <<dtable, prepared>> /\ aborted' = aborted
      /\ (stack[t] = <<>> \/ At(t, "si_body"))
  BY DEF CarefulCall, Message, RespondsTo, AddMethods, MayCall, tables
<1>5. PICK n \in Nodes : \/ Message(t, n) /\ (stack[t] = <<>> \/ ~Prepared(n))
                         \/ RespondsTo(t, n)
                         \/ AddMethods(t, n)
  BY DEF CarefulCall
<1>6. \E g \in FrameType :
        /\ Enter(t, g) /\ g.at \in {"gi_fast", "rt_read", "am_link"}
        /\ g.at = "gi_fast" /\ stack[t] # <<>> => prepared[g.node] = <<>>
  <2>1. \A l \in Labels :
          /\ LookupFrame(l, n) \in FrameType /\ LookupFrame(l, n).at = l
          /\ LookupFrame(l, n).node = n
          /\ Frame(l, n) \in FrameType /\ Frame(l, n).at = l
    BY DEF LookupFrame, Frame, FrameType, TypeOK, Uninstalled
  <2>2. "gi_fast" \in Labels /\ "rt_read" \in Labels /\ "am_link" \in Labels
    BY DEF Labels, Looking, Linking
  <2>3. \/ Enter(t, LookupFrame("gi_fast", n)) /\ (stack[t] = <<>> \/ prepared[n] = <<>>)
        \/ Enter(t, LookupFrame("rt_read", n)) \/ Enter(t, Frame("am_link", n))
    BY <1>5 DEF Message, RespondsTo, AddMethods, Prepared
  <2> QED
    BY <2>1, <2>2, <2>3
<1>7. PICK g \in FrameType :
        /\ Enter(t, g) /\ g.at \in {"gi_fast", "rt_read", "am_link"}
        /\ g.at = "gi_fast" /\ stack[t] # <<>> => prepared[g.node] = <<>>
  BY <1>6
<1>8. Enters(stack[t], stack'[t], g)
  BY <1>7, EnterEnters DEF TypeOK
<1>9. Len(stack[t]) > 0 => /\ stack[t] # <<>> /\ Level(stack[t], Len(stack[t])).at = "si_body"
  BY <1>4, TopTyped DEF At
<1>10. Fits(stack[t], dtable, prepared)
  BY StackFits
<1>11. Quietly(stack[t], stack'[t], dtable, prepared)
  BY <1>3, <1>7, <1>8, <1>9, <1>10, QuietEnter
<1> QED
  BY <1>3, <1>4, <1>11, QuietTables

(* A careful program is a program.                                           *)
LEMMA CarefulIsNext == [CarefulNext]_vars => [Next]_vars
<1>1. \A t \in Threads : CarefulCall(t) => AnyCall(t)
  BY DEF CarefulCall, AnyCall
<1> QED
  BY <1>1 DEF CarefulNext, Next

(* Every step of a careful program keeps what is said of tables, and fails   *)
(* no assertion.                                                             *)
LEMMA TablesStep ==
  ASSUME Serialized, TypeOK, SerialInv, TablesInv, aborted = 0, [CarefulNext]_vars
  PROVE  TablesInv' /\ aborted' = 0
<1>1. CASE UNCHANGED vars
  <2>1. stack' = stack /\ dtable' = dtable /\ prepared' = prepared /\ aborted' = aborted
    BY <1>1 DEF vars, tables
  <2> QED
    BY <2>1 DEF TablesInv, PreparedPending, SupersFirst, Prepared
<1>2. CASE CarefulNext
  <2>1. PICK t \in Threads : Step(t) \/ CarefulCall(t)
    BY <1>2 DEF CarefulNext
  <2>2. CASE Step(t)
    BY <2>2, LookupTables, InstallTables, PrepareTables, SendTables, UpdateTables DEF Step
  <2> QED
    BY <2>1, <2>2, CallTables
<1> QED
  BY <1>1, <1>2

(* At first no class has a table.                                            *)
LEMMA TablesInit == Init => TablesInv
<1> SUFFICES ASSUME Init PROVE TablesInv
  OBVIOUS
<1>1. /\ \A t \in Threads : stack[t] = <<>>
      /\ \A n \in Nodes : dtable[n] = Uninstalled /\ prepared[n] = <<>>
  BY DEF Init
<1>2. Len(<<>>) = 0 /\ Levels(<<>>) = {} /\ 1..(Len(<<>>) - 1) = {}
  BY DEF Levels
<1>3. StackOK(<<>>, dtable, prepared)
  BY <1>2 DEF StackOK, Shape, PendingOK, AwaitedOK, PreparingOK, InstallingOK, MessagesOK, AfterOK
<1>4. OneTable(dtable, prepared)
  BY <1>1, <1>2 DEF OneTable
<1>5. PreparedPending /\ SupersFirst
  BY <1>1 DEF PreparedPending, SupersFirst, Prepared, Has
<1> QED
  BY <1>1, <1>3, <1>4, <1>5 DEF TablesInv

(* Where calls to initialize are made one after another, and no +initialize  *)
(* sends a message to a class that is being initialized, no assertion of     *)
(* messaging.c fails: a class has its table prepared from its superclass's,  *)
(* and installed once.                                                       *)
THEOREM TablesRight ==
    Serialized => (CarefulSpec => [](TypeOK /\ SerialInv /\ TablesInv /\ AssertionsHold))
<1> SUFFICES ASSUME Serialized
             PROVE  CarefulSpec => [](TypeOK /\ SerialInv /\ TablesInv /\ AssertionsHold)
  OBVIOUS
<1>1. Init => TypeOK /\ SerialInv /\ TablesInv /\ AssertionsHold
  BY TypeInit, SerialInit, TablesInit DEF Init, AssertionsHold
<1>2. TypeOK /\ SerialInv /\ TablesInv /\ AssertionsHold /\ [CarefulNext]_vars
        => (TypeOK /\ SerialInv /\ TablesInv /\ AssertionsHold)'
  BY CarefulIsNext, TypeStep, SerialStep, TablesStep DEF AssertionsHold
<1> QED
  BY <1>1, <1>2, PTL DEF CarefulSpec

(* No assertion of messaging.c that Dispatch follows ever stops a careful    *)
(* program (155, 559, 577, 615, 626, 630), for any classes and any number of *)
(* threads.                                                                  *)
THEOREM NoAssertionFails == Serialized => (CarefulSpec => []AssertionsHold)
<1> SUFFICES ASSUME Serialized PROVE CarefulSpec => []AssertionsHold
  OBVIOUS
<1> QED
  BY TablesRight, PTL

(* With the recursive lock nothing is half done between calls: a prepared    *)
(* table waits for a call to install it, a class that is marked has had its  *)
(* +initialize or has it under way, and the lock is held for calls under it. *)
THEOREM CallsComplete == Mutexes = {"promised"} => (CarefulSpec => []NothingHalfDone)
<1> SUFFICES ASSUME Mutexes = {"promised"} PROVE CarefulSpec => []NothingHalfDone
  OBVIOUS
<1>1. Serialized
  BY DEF Serialized
<1>2. Init => TypeOK /\ SerialInv /\ TablesInv /\ AssertionsHold /\ MarkInv
  BY TypeInit, SerialInit, TablesInit, MarkInit DEF Init, AssertionsHold
<1>3. /\ TypeOK /\ SerialInv /\ TablesInv /\ AssertionsHold /\ MarkInv
      /\ [CarefulNext]_vars
      => (TypeOK /\ SerialInv /\ TablesInv /\ AssertionsHold /\ MarkInv)'
  BY <1>1, CarefulIsNext, TypeStep, SerialStep, TablesStep, MarkStep DEF AssertionsHold
<1>4. TypeOK /\ SerialInv /\ TablesInv /\ MarkInv => NothingHalfDone
  <2> SUFFICES ASSUME TypeOK, SerialInv, TablesInv, MarkInv, \A t \in Threads : stack[t] = <<>>
               PROVE  /\ \A n \in Nodes : ~Prepared(n)
                      /\ initialized = finished
                      /\ holder = NoThread
    BY DEF NothingHalfDone
  <2>1. \A t \in Threads : Levels(stack[t]) = {} /\ LockedLevels(stack[t]) = {}
    <3>1. Levels(<<>>) = {} /\ LockedLevels(<<>>) = {}
      BY DEF Levels, LockedLevels
    <3> QED
      BY <3>1
  <2>2. \A n \in Nodes : ~Prepared(n)
    BY <2>1 DEF TablesInv, PreparedPending, PendingAt
  <2>3. initialized = finished
    BY <2>1 DEF MarkInv, MarkedOK, UnderWay, SerialInv, OnceInv, SentMarked
  <2>4. holder = NoThread
    BY <2>1 DEF SerialInv, LockInv, TypeOK, LockTypeOK
  <2> QED
    BY <2>2, <2>3, <2>4
<1> QED
  BY <1>2, <1>3, <1>4, PTL DEF CarefulSpec

-----------------------------------------------------------------------------
(* The class hierarchy, climbed from a class to the nearest one in Stop.     *)
(* What the lookup functions return is derived from HierarchyAssumption: the *)
(* library states induction for an operator.                                 *)
Climbs(Stop) == \A n \in Nodes \ Stop : Super[n] \in Nodes

(* Relations of a class to where the climb from it may end.                  *)
ClosedUp(Stop) ==
    {C \in SUBSET (Nodes \X Nodes) :
        /\ \A n \in Nodes \cap Stop : <<n, n>> \in C
        /\ \A n \in Nodes \ Stop, a \in Nodes : <<Super[n], a>> \in C => <<n, a>> \in C}
EndsAt(Stop, n, a) == \A C \in ClosedUp(Stop) : <<n, a>> \in C

(* A climb ends at one class.                                                *)
LEMMA OneEnd ==
  ASSUME NEW Stop, Climbs(Stop), NEW n \in Nodes
  PROVE  \E a \in Nodes : \A b \in Nodes : EndsAt(Stop, n, b) <=> b = a
<1> DEFINE Good(k) == \E a \in Nodes : \A b \in Nodes : EndsAt(Stop, k, b) <=> b = a
           Bad == {k \in Nodes : ~Good(k)}
<1>1. SUFFICES ASSUME Bad # {} PROVE FALSE
  OBVIOUS
<1>2. PICK k \in Bad : Super[k] \notin Bad
  BY <1>1, HierarchyAssumption
<1>3. PICK a \in Nodes : /\ EndsAt(Stop, k, a)
                         /\ k \in Stop => a = k
                         /\ k \notin Stop => \A b \in Nodes : EndsAt(Stop, Super[k], b) <=> b = a
  <2>1. CASE k \in Stop
    <3>1. EndsAt(Stop, k, k)
      BY <1>2, <2>1 DEF EndsAt, ClosedUp
    <3> QED
      BY <1>2, <2>1, <3>1
  <2>2. CASE k \notin Stop
    <3>1. Super[k] \in Nodes
      BY <1>2, <2>2 DEF Climbs
    <3>2. Good(Super[k])
      BY <1>2, <3>1
    <3>3. PICK a \in Nodes : \A b \in Nodes : EndsAt(Stop, Super[k], b) <=> b = a
      BY <3>2
    <3>4. EndsAt(Stop, Super[k], a)
      BY <3>3
    <3>5. EndsAt(Stop, k, a)
      BY <1>2, <2>2, <3>4 DEF EndsAt, ClosedUp
    <3> QED
      BY <2>2, <3>3, <3>5
  <2> QED
    BY <2>1, <2>2
<1>4. ASSUME NEW b \in Nodes, EndsAt(Stop, k, b) PROVE b = a
  <2> SUFFICES ASSUME b # a PROVE FALSE
    OBVIOUS
  <2> DEFINE All == {p \in Nodes \X Nodes : EndsAt(Stop, p[1], p[2])}
             C == All \ {<<k, b>>}
  <2>1. \A m, c \in Nodes : <<m, c>> \in C <=> EndsAt(Stop, m, c) /\ ~(m = k /\ c = b)
    OBVIOUS
  <2>2. ASSUME NEW m \in Nodes \cap Stop PROVE <<m, m>> \in C
    <3>1. EndsAt(Stop, m, m)
      BY <2>2 DEF EndsAt, ClosedUp
    <3> QED
      BY <1>3, <2>1, <3>1
  <2>3. ASSUME NEW m \in Nodes \ Stop, NEW c \in Nodes, <<Super[m], c>> \in C
        PROVE  <<m, c>> \in C
    <3>1. Super[m] \in Nodes
      BY DEF Climbs
    <3>2. EndsAt(Stop, Super[m], c)
      BY <2>1, <2>3, <3>1
    <3>3. EndsAt(Stop, m, c)
      BY <3>2 DEF EndsAt, ClosedUp
    <3>4. ~(m = k /\ c = b)
      BY <1>3, <3>2
    <3> QED
      BY <2>1, <3>3, <3>4
  <2>4. C \in SUBSET (Nodes \X Nodes)
    OBVIOUS
  <2> HIDE DEF C
  <2>5. C \in ClosedUp(Stop)
    BY <2>2, <2>3, <2>4 DEF ClosedUp
  <2>6. <<k, b>> \in C
    BY <1>4, <2>5 DEF EndsAt
  <2> QED
    BY <1>2, <2>1, <2>6
<1>5. Good(k)
  BY <1>3, <1>4
<1> QED
  BY <1>2, <1>5

(* What it is to be the function that a search up the hierarchy defines.     *)
ClimbsTo(f, Stop, base) ==
    /\ f \in [Nodes -> {base[a] : a \in Nodes}]
    /\ \A n \in Nodes : f[n] = IF n \in Stop THEN base[n] ELSE f[Super[n]]

(* There is such a function.                                                 *)
LEMMA ClimbExists ==
  ASSUME NEW Stop, Climbs(Stop), NEW base
  PROVE  \E f : ClimbsTo(f, Stop, base)
<1> DEFINE end == [n \in Nodes |-> CHOOSE a \in Nodes : EndsAt(Stop, n, a)]
           f == [n \in Nodes |-> base[end[n]]]
<1>1. ASSUME NEW n \in Nodes
      PROVE  end[n] \in Nodes /\ \A b \in Nodes : EndsAt(Stop, n, b) <=> b = end[n]
  <2>1. PICK a \in Nodes : \A b \in Nodes : EndsAt(Stop, n, b) <=> b = a
    BY OneEnd
  <2> QED
    BY <2>1
<1> HIDE DEF end
<1>2. ASSUME NEW n \in Nodes PROVE f[n] = IF n \in Stop THEN base[n] ELSE f[Super[n]]
  <2>1. CASE n \in Stop
    <3>1. EndsAt(Stop, n, n)
      BY <2>1 DEF EndsAt, ClosedUp
    <3> QED
      BY <1>1, <2>1, <3>1
  <2>2. CASE n \notin Stop
    <3>1. Super[n] \in Nodes
      BY <2>2 DEF Climbs
    <3>2. EndsAt(Stop, Super[n], end[Super[n]]) /\ end[Super[n]] \in Nodes
      BY <1>1, <3>1
    <3>3. EndsAt(Stop, n, end[Super[n]])
      BY <2>2, <3>2 DEF EndsAt, ClosedUp
    <3>4. end[n] = end[Super[n]]
      BY <1>1, <3>2, <3>3
    <3> QED
      BY <2>2, <3>1, <3>4
  <2> QED
    BY <2>1, <2>2
<1>3. f \in [Nodes -> {base[a] : a \in Nodes}]
  BY <1>1
<1>4. ClimbsTo(f, Stop, base)
  BY <1>2, <1>3 DEF ClimbsTo
<1> QED
  BY <1>4

(* search_for_method_in_hierarchy, step by step.                             *)
LEMMA SearchIs ==
  ASSUME NEW l, NEW n \in Nodes
  PROVE  SearchIn(l)[n] = IF l[n] > 0 THEN <<n, l[n]>>
                          ELSE IF Super[n] = NoNode THEN NoImp ELSE SearchIn(l)[Super[n]]
<1> DEFINE Is(f) == f = [k \in Nodes |-> IF l[k] > 0 THEN <<k, l[k]>>
                                         ELSE IF Super[k] = NoNode THEN NoImp ELSE f[Super[k]]]
<1> PICK Stop : Stop = {k \in Nodes : l[k] > 0 \/ Super[k] = NoNode}
  OBVIOUS
<1> PICK base : base = [k \in Nodes |-> IF l[k] > 0 THEN <<k, l[k]>> ELSE NoImp]
  OBVIOUS
<1>1. Climbs(Stop)
  BY NodesAssumption DEF Climbs
<1>2. PICK f : ClimbsTo(f, Stop, base)
  BY <1>1, ClimbExists
<1>3. \A k \in Nodes : f[k] = IF l[k] > 0 THEN <<k, l[k]>>
                              ELSE IF Super[k] = NoNode THEN NoImp ELSE f[Super[k]]
  BY <1>2 DEF ClimbsTo
<1>4. Is(f)
  BY <1>2, <1>3 DEF ClimbsTo
<1>5. SearchIn(l) = CHOOSE g : Is(g)
  BY DEF SearchIn
<1> HIDE DEF Is
<1>6. Is(SearchIn(l))
  BY <1>4, <1>5
<1> QED
  BY <1>6 DEF Is

(* Below is reached step by step.                                            *)
LEMMA BelowIs ==
  ASSUME NEW n, NEW m \in Nodes
  PROVE  m \in Below(n) <=> m = n \/ (Super[m] # NoNode /\ Super[m] \in Below(n))
<1> DEFINE Is(f) == f = [k \in Nodes |-> k = n \/ (Super[k] # NoNode /\ f[Super[k]])]
           up == CHOOSE g : Is(g)
<1> PICK Stop : Stop = {k \in Nodes : k = n \/ Super[k] = NoNode}
  OBVIOUS
<1> PICK base : base = [k \in Nodes |-> k = n]
  OBVIOUS
<1>1. Climbs(Stop)
  BY NodesAssumption DEF Climbs
<1>2. PICK f : ClimbsTo(f, Stop, base)
  BY <1>1, ClimbExists
<1>3. \A k \in Nodes : f[k] \in BOOLEAN
  <2>1. \A a \in Nodes : base[a] \in BOOLEAN
    OBVIOUS
  <2>2. \A k \in Nodes : \E a \in Nodes : f[k] = base[a]
    BY <1>2 DEF ClimbsTo
  <2> QED
    BY <2>1, <2>2
<1>4. \A k \in Nodes : f[k] = (k = n \/ (Super[k] # NoNode /\ f[Super[k]]))
  <2> TAKE k \in Nodes
  <2>1. Super[k] \in Nodes \cup {NoNode}
    BY NodesAssumption
  <2>2. k = n \/ Super[k] = NoNode => f[k] = (k = n)
    BY <1>2 DEF ClimbsTo
  <2>3. ~(k = n \/ Super[k] = NoNode) => f[k] = f[Super[k]] /\ f[Super[k]] \in BOOLEAN
    BY <1>2, <1>3, <2>1 DEF ClimbsTo
  <2> QED
    BY <2>2, <2>3
<1>5. Is(f)
  BY <1>2, <1>4 DEF ClimbsTo
<1>6. Below(n) = {k \in Nodes : up[k]}
  BY DEF Below
<1> HIDE DEF Is
<1>7. Is(up)
  BY <1>5
<1> HIDE DEF up
<1>8. \A k \in Nodes : up[k] = (k = n \/ (Super[k] # NoNode /\ up[Super[k]]))
  BY <1>7 DEF Is
<1>9. Super[m] \in Nodes \cup {NoNode}
  BY NodesAssumption
<1> QED
  BY <1>6, <1>8, <1>9

(* No class is its own superclass.                                           *)
LEMMA SuperIsOther == ASSUME NEW n \in Nodes PROVE Super[n] # n
<1>1. {n} \in SUBSET Nodes /\ {n} # {}
  OBVIOUS
<1> QED
  BY <1>1, HierarchyAssumption

(* What is below a class is below what that class is below.                  *)
LEMMA BelowAll ==
  ASSUME NEW n, NEW m \in Below(n), NEW k \in Below(m)
  PROVE  k \in Below(n)
<1> DEFINE W == {x \in Below(m) : x \notin Below(n)}
<1> SUFFICES ASSUME W # {} PROVE FALSE
  OBVIOUS
<1>1. W \in SUBSET Nodes
  BY DEF Below
<1>2. PICK x \in W : Super[x] \notin W
  BY <1>1, HierarchyAssumption
<1>3. x \in Nodes /\ x \in Below(m) /\ x \notin Below(n) /\ x # m
  BY <1>1, <1>2
<1>4. Super[x] # NoNode /\ Super[x] \in Below(m)
  BY <1>3, BelowIs
<1>5. Super[x] \in Below(n)
  BY <1>2, <1>4
<1> QED
  BY <1>3, <1>4, <1>5, BelowIs

(* A superclass is not below its subclass.                                   *)
LEMMA AboveIsNotBelow ==
  ASSUME NEW n \in Nodes, Super[n] \in Nodes
  PROVE  Super[n] \notin Below(n)
<1> DEFINE T == {m \in Below(n) : n \in Below(m) /\ m # n} \cup {n}
<1> SUFFICES ASSUME Super[n] \in Below(n) PROVE FALSE
  OBVIOUS
<1>1. Below(n) \subseteq Nodes /\ n \in Below(n) /\ n \in Below(Super[n])
  <2>1. Below(n) \subseteq Nodes
    BY DEF Below
  <2>2. n \in Below(n) /\ Super[n] \in Below(Super[n])
    BY BelowIs
  <2>3. Super[n] # NoNode
    BY NodesAssumption
  <2> QED
    BY <2>1, <2>2, <2>3, BelowIs
<1>2. Super[n] \in T
  BY <1>1, SuperIsOther
<1>3. PICK m \in T : Super[m] \notin T
  BY <1>1, HierarchyAssumption
<1>4. m # n /\ m \in Below(n) /\ n \in Below(m) /\ m \in Nodes
  BY <1>1, <1>2, <1>3
<1>5. Super[m] # NoNode /\ Super[m] \in Below(n) /\ Super[m] \in Nodes
  BY <1>1, <1>4, BelowIs
<1>6. Super[m] # n
  BY <1>3
<1>7. n \notin Below(Super[m])
  BY <1>3, <1>5, <1>6
<1>8. m \in Below(Super[m])
  BY <1>4, <1>5, BelowIs
<1> QED
  BY <1>4, <1>7, <1>8, BelowAll

(* Of two classes only one is below the other.                               *)
LEMMA BelowOneWay ==
  ASSUME NEW n \in Nodes, NEW m \in Nodes, m \in Below(n), n \in Below(m)
  PROVE  m = n
<1> SUFFICES ASSUME m # n PROVE FALSE
  OBVIOUS
<1>1. Super[m] # NoNode /\ Super[m] \in Below(n) /\ Super[m] \in Nodes
  BY BelowIs, NodesAssumption
<1>2. Super[m] \in Below(m)
  BY <1>1, BelowAll
<1> QED
  BY <1>1, <1>2, AboveIsNotBelow

(* A search of the hierarchy finds a method of a class above, or none.       *)
LEMMA SearchFinds ==
  ASSUME NEW l \in [Nodes -> Nat], NEW n \in Nodes
  PROVE  \/ SearchIn(l)[n] = NoImp
         \/ \E a \in Nodes : n \in Below(a) /\ l[a] > 0 /\ SearchIn(l)[n] = <<a, l[a]>>
<1> DEFINE Good(k) == \/ SearchIn(l)[k] = NoImp
                      \/ \E a \in Nodes : /\ k \in Below(a) /\ l[a] > 0
                                           /\ SearchIn(l)[k] = <<a, l[a]>>
           Bad == {k \in Nodes : ~Good(k)}
<1> SUFFICES ASSUME Bad # {} PROVE FALSE
  OBVIOUS
<1>1. PICK k \in Bad : Super[k] \notin Bad
  BY HierarchyAssumption
<1>2. k \in Below(k)
  BY <1>1, BelowIs
<1>3. ~(l[k] > 0) /\ Super[k] # NoNode /\ SearchIn(l)[k] = SearchIn(l)[Super[k]]
  BY <1>1, <1>2, SearchIs
<1>4. Super[k] \in Nodes
  BY <1>1, <1>3, NodesAssumption
<1>5. \A a : Super[k] \in Below(a) => k \in Below(a)
  BY <1>1, <1>3, BelowIs
<1> QED
  BY <1>1, <1>3, <1>4, <1>5

-----------------------------------------------------------------------------
(* The table of a class, of the tables d and the prepared tables p, and that *)
(* it holds the method of the class, one of w lists, or else what the table  *)
(* of its superclass holds.                                                  *)
TableIn(d, p, n) == IF d[n] # Uninstalled THEN d[n] ELSE Head(p[n])
AgreesIn(d, p, w, n) ==
    IF w[n] > 0 THEN TableIn(d, p, n) = <<n, w[n]>>
    ELSE IF Super[n] = NoNode THEN TableIn(d, p, n) = NoImp
    ELSE Has(d, p, Super[n]) /\ TableIn(d, p, n) = TableIn(d, p, Super[n])

(* An update on stack s has yet to come to the table of n.                   *)
ComesTo(s, k, n) ==
    \/ Level(s, k).at \in {"up_lock", "up_test"} /\ Level(s, k).node = n
    \/ Level(s, k).at = "up_subs" /\ n \in Level(s, k).rest
    \/ /\ Level(s, k).at = "up_unlock" /\ Level(s, k).node = n
       /\ k + 1 \in Levels(s) /\ Level(s, k + 1).at = "pr_start"
Awaits(s, n) == \E k \in Levels(s) : ComesTo(s, k, n)

(* The highest level begins to prepare the table of n for an update.         *)
BeginsFor(s, n) ==
    /\ Level(s, Len(s)).at = "pr_start" /\ Len(s) > 1
    /\ Level(s, Len(s) - 1).at = "up_unlock" /\ Level(s, Len(s) - 1).node = n

(* A table agrees with that of the superclass, unless an update has yet to   *)
(* come to it, or the superclass's was prepared anew before it was installed.*)
AgreeInv ==
    \A n \in Nodes : Has(dtable, prepared, n) =>
        \/ AgreesIn(dtable, prepared, own, n)
        \/ \E t \in Threads : Awaits(stack[t], n)
        \/ Super[n] \in stale

(* What an update has yet to come to stays so while other lines are on top.  *)
LEMMA StillAwaits ==
  ASSUME NEW s, NEW r, NEW f, NEW g, Len(s) \in Nat,
         Moves(s, r, f) \/ Pushes(s, r, f, g) \/ Pops(s, r) \/ Enters(s, r, g),
         Len(s) > 0 => Level(s, Len(s)).at \notin {"up_lock", "up_test", "up_subs", "pr_start"},
         NEW n, Awaits(s, n)
  PROVE  Awaits(r, n)
<1>1. PICK k \in Levels(s) : ComesTo(s, k, n)
  BY DEF Awaits
<1>2. k \in 1..Len(s)
  BY DEF Levels
<1>3. CASE k = Len(s)
  BY <1>1, <1>2, <1>3 DEF ComesTo, Levels
<1>4. CASE k < Len(s)
  <2>1. /\ Len(r) \in Nat /\ k \in 1..Len(r) /\ Level(r, k) = Level(s, k)
        /\ Len(r) >= Len(s) - 1 /\ \A j \in 1..(Len(s) - 1) : Level(r, j) = Level(s, j)
    BY <1>2, <1>4 DEF Moves, Pushes, Pops, Enters
  <2>2. CASE k + 1 = Len(s)
    <3>1. Level(s, k + 1).at # "pr_start"
      BY <1>2, <2>2
    <3> QED
      BY <1>1, <2>1, <3>1 DEF ComesTo, Awaits, Levels
  <2>3. CASE k + 1 < Len(s)
    <3>1. k + 1 \in 1..Len(r) /\ Level(r, k + 1) = Level(s, k + 1)
      BY <1>2, <2>1, <2>3
    <3> QED
      BY <1>1, <2>1, <3>1 DEF ComesTo, Awaits, Levels
  <2> QED
    BY <1>2, <1>4, <2>2, <2>3
<1> QED
  BY <1>2, <1>3, <1>4

(* An update on a lower level has yet to come to what it had.                *)
LEMMA AwaitsBelow ==
  ASSUME NEW s, NEW r, Len(s) \in Nat, Len(s) > 0,
         \E f, g : Moves(s, r, f) \/ Pushes(s, r, f, g) \/ Pops(s, r),
         NEW n, Awaits(s, n)
  PROVE  \/ Awaits(r, n)
         \/ ComesTo(s, Len(s), n)
         \/ BeginsFor(s, n)
<1>1. PICK k \in Levels(s) : ComesTo(s, k, n)
  BY DEF Awaits
<1>2. k \in 1..Len(s)
  BY DEF Levels
<1>3. CASE k = Len(s)
  BY <1>1, <1>3
<1>4. CASE k < Len(s)
  <2>1. /\ Len(r) \in Nat /\ k \in 1..Len(r) /\ Level(r, k) = Level(s, k)
        /\ Len(r) >= Len(s) - 1 /\ \A j \in 1..(Len(s) - 1) : Level(r, j) = Level(s, j)
    BY <1>2, <1>4 DEF Moves, Pushes, Pops
  <2>2. CASE k + 1 = Len(s)
    BY <1>1, <1>2, <2>1, <2>2 DEF ComesTo, Awaits, BeginsFor, Levels
  <2>3. CASE k + 1 < Len(s)
    <3>1. k + 1 \in 1..Len(r) /\ Level(r, k + 1) = Level(s, k + 1)
      BY <1>2, <2>1, <2>3
    <3> QED
      BY <1>1, <2>1, <3>1 DEF ComesTo, Awaits, Levels
  <2> QED
    BY <1>2, <1>4, <2>2, <2>3
<1> QED
  BY <1>2, <1>3, <1>4

(* To keep it, each table that a step leaves must agree, have an update to   *)
(* come on the stack of the thread, or be below one that is stale.           *)
LEMMA AgreeBy ==
  ASSUME AgreeInv, NEW t \in Threads, OfThread(t),
         \A n \in Nodes : Has(dtable', prepared', n) =>
            \/ AgreesIn(dtable', prepared', own', n)
            \/ Awaits(stack'[t], n)
            \/ Super[n] \in stale'
            \/ /\ Has(dtable, prepared, n)
               /\ ~AgreesIn(dtable, prepared, own, n)
               /\ Awaits(stack[t], n) => Awaits(stack'[t], n)
               /\ Super[n] \notin stale
  PROVE  AgreeInv'
<1> SUFFICES ASSUME NEW n \in Nodes, Has(dtable', prepared', n)
             PROVE  \/ AgreesIn(dtable', prepared', own', n)
                    \/ \E u \in Threads : Awaits(stack'[u], n)
                    \/ Super[n] \in stale'
  BY DEF AgreeInv
<1>1. CASE /\ Has(dtable, prepared, n)
           /\ ~AgreesIn(dtable, prepared, own, n)
           /\ Awaits(stack[t], n) => Awaits(stack'[t], n)
           /\ Super[n] \notin stale
  <2>1. PICK u \in Threads : Awaits(stack[u], n)
    BY <1>1 DEF AgreeInv
  <2>2. Awaits(stack'[u], n)
    BY <1>1, <2>1 DEF OfThread
  <2> QED
    BY <2>2
<1> QED
  BY <1>1

(* Steps that change no table and no method list, from lines that are not an *)
(* update's.                                                                 *)
LEMMA AgreeQuiet ==
  ASSUME TypeOK, AgreeInv, NEW t \in Threads, Abstractly(t),
         UNCHANGED <<dtable, prepared, own, stale>>,
         stack[t] # <<>> => Top(t).at \notin {"up_lock", "up_test", "up_subs", "pr_start"}
  PROVE  AgreeInv'
<1>1. OfThread(t)
  BY DEF Abstractly
<1>2. Len(stack[t]) \in Nat /\ (Len(stack[t]) > 0 => stack[t] # <<>>)
  BY DEF TypeOK
<1>3. Len(stack[t]) > 0 =>
         Level(stack[t], Len(stack[t])).at \notin {"up_lock", "up_test", "up_subs", "pr_start"}
  BY <1>2, TopTyped
<1>4. PICK f, g : \/ Moves(stack[t], stack'[t], f) \/ Pushes(stack[t], stack'[t], f, g)
                  \/ Pops(stack[t], stack'[t]) \/ Enters(stack[t], stack'[t], g)
  BY DEF Abstractly, StackStep
<1>5. \A n : Awaits(stack[t], n) => Awaits(stack'[t], n)
  BY <1>2, <1>3, <1>4, StillAwaits
<1> QED
  BY <1>1, <1>5, AgreeBy DEF AgreeInv

(* Installing a prepared table changes nothing of what the tables hold.      *)
LEMMA InstallKeeps ==
  ASSUME TypeOK, TablesInv, NEW t \in Threads, InstallPrepared(t), mutex' = mutex,
         aborted' = 0
  PROVE  \A n \in Nodes : /\ Has(dtable', prepared', n) <=> Has(dtable, prepared, n)
                          /\ TableIn(dtable', prepared', n) = TableIn(dtable, prepared, n)
                          /\ dtable[n] # Uninstalled => dtable'[n] # Uninstalled
<1> DEFINE n0 == Node(t)
<1>1. stack[t] # <<>>
  BY DEF InstallPrepared, At
<1>2. n0 \in Nodes
  BY <1>1, TopTyped
<1>3. dtable[n0] = Uninstalled /\ prepared[n0] # <<>>
  BY DEF InstallPrepared, Assert, Installed, Prepared
<1>4. /\ dtable' = [dtable EXCEPT ![n0] = Head(prepared[n0])]
      /\ prepared' = [prepared EXCEPT ![n0] = Tail(prepared[n0])]
  BY <1>3 DEF InstallPrepared, Prepared
<1> HIDE DEF n0
<1>5. prepared[n0] \in Seq(Tables) /\ Len(prepared[n0]) <= 1
  BY <1>2 DEF TypeOK, TablesInv, OneTable
<1>6. Tail(prepared[n0]) = <<>> /\ Head(prepared[n0]) \in Tables
  BY <1>3, <1>5
<1>7. Head(prepared[n0]) # Uninstalled
  BY <1>6 DEF Tables, Uninstalled
<1>8. /\ dtable'[n0] = Head(prepared[n0]) /\ prepared'[n0] = <<>>
      /\ \A n \in Nodes \ {n0} : dtable'[n] = dtable[n] /\ prepared'[n] = prepared[n]
  BY <1>2, <1>4, <1>6 DEF TypeOK
<1> QED
  BY <1>3, <1>7, <1>8 DEF Has, TableIn

(* So they agree as before.                                                  *)
LEMMA AgreeInstall ==
  ASSUME TypeOK, TablesInv, AgreeInv, NEW t \in Threads, InstallPrepared(t), mutex' = mutex,
         aborted' = 0
  PROVE  AgreeInv'
<1>1. Abstractly(t) /\ OfThread(t) /\ stack[t] # <<>> /\ Top(t).at = "in_install"
  BY InstallAbstractly DEF Install, InstallPrepared, At, Abstractly
<1>2. own' = own /\ stale' = stale
  BY DEF InstallPrepared, classes
<1>3. \A n \in Nodes : /\ Has(dtable', prepared', n) <=> Has(dtable, prepared, n)
                       /\ TableIn(dtable', prepared', n) = TableIn(dtable, prepared, n)
  BY InstallKeeps
<1>4. \A n \in Nodes : Super[n] = NoNode \/ Super[n] \in Nodes
  BY NodesAssumption
<1>5. \A n \in Nodes : AgreesIn(dtable', prepared', own', n)
                          <=> AgreesIn(dtable, prepared, own, n)
  BY <1>2, <1>3, <1>4 DEF AgreesIn
<1>6. \A n : Awaits(stack[t], n) => Awaits(stack'[t], n)
  <2>1. Pops(stack[t], stack'[t]) /\ Len(stack[t]) \in Nat /\ Len(stack[t]) > 0
    BY <1>1, ReturnPops, HeadIs DEF InstallPrepared, TypeOK
  <2>2. Level(stack[t], Len(stack[t])).at = "in_install"
    BY <1>1, TopTyped
  <2> QED
    BY <2>1, <2>2, StillAwaits
<1>7. \A n \in Nodes : Has(dtable', prepared', n) =>
            \/ AgreesIn(dtable', prepared', own', n)
            \/ Awaits(stack'[t], n)
            \/ Super[n] \in stale'
            \/ /\ Has(dtable, prepared, n)
               /\ ~AgreesIn(dtable, prepared, own, n)
               /\ Awaits(stack[t], n) => Awaits(stack'[t], n)
               /\ Super[n] \notin stale
  BY <1>2, <1>3, <1>5, <1>6
<1> QED
  BY <1>1, <1>7, AgreeBy

(* A class that prepares a table has none; an entry it has is dropped.       *)
LEMMA StartKeeps ==
  ASSUME TypeOK, TablesInv, NEW t \in Threads, PrepareStart(t), mutex' = mutex,
         NEW n0, n0 = Node(t)
  PROVE  /\ n0 \in Nodes /\ dtable[n0] = Uninstalled /\ dtable' = dtable
         /\ ~Has(dtable', prepared', n0)
         /\ \A n \in Nodes \ {n0} :
               /\ Has(dtable', prepared', n) <=> Has(dtable, prepared, n)
               /\ TableIn(dtable', prepared', n) = TableIn(dtable, prepared, n)
<1>1. stack[t] # <<>> /\ Top(t).at = "pr_start"
  BY DEF PrepareStart, At
<1>2. n0 \in Nodes /\ Top(t) = Level(stack[t], Len(stack[t])) /\ Len(stack[t]) \in Nat
      /\ Len(stack[t]) > 0 /\ Len(stack[t]) \in Levels(stack[t]) /\ Top(t).node = n0
  BY <1>1, TopTyped, HeadIs DEF TypeOK, Levels, Node
<1>3. StackOK(stack[t], dtable, prepared)
  BY DEF TablesInv
<1>4. dtable[n0] = Uninstalled
  BY <1>1, <1>2, <1>3 DEF StackOK, PreparingOK, Preparing
<1>5. /\ dtable' = dtable
      /\ prepared' = [prepared EXCEPT ![n0] = IF Prepared(n0) THEN Tail(@) ELSE @]
  BY DEF PrepareStart
<1>6. prepared[n0] \in Seq(Tables) /\ Len(prepared[n0]) <= 1
  BY <1>2 DEF TypeOK, TablesInv, OneTable
<1>7. Prepared(n0) => Tail(prepared[n0]) = <<>>
  BY <1>6 DEF Prepared
<1>8. /\ prepared'[n0] = <<>>
      /\ \A n \in Nodes \ {n0} : prepared'[n] = prepared[n]
  BY <1>2, <1>5, <1>7 DEF TypeOK, Prepared
<1>9. ~Has(dtable', prepared', n0)
  BY <1>4, <1>5, <1>8 DEF Has
<1>10. ASSUME NEW n \in Nodes \ {n0}
       PROVE  /\ Has(dtable', prepared', n) <=> Has(dtable, prepared, n)
              /\ TableIn(dtable', prepared', n) = TableIn(dtable, prepared, n)
  BY <1>5, <1>8 DEF Has, TableIn
<1> QED
  BY <1>2, <1>4, <1>5, <1>9, <1>10

(* A table prepared anew leaves those below it stale.                        *)
LEMMA AgreeStart ==
  ASSUME TypeOK, TablesInv, AgreeInv, NEW t \in Threads, PrepareStart(t), mutex' = mutex
  PROVE  AgreeInv'
<1> PICK n0 : n0 = Node(t)
  OBVIOUS
<1>1. Abstractly(t) /\ OfThread(t) /\ stack[t] # <<>> /\ Top(t).at = "pr_start"
  BY PrepareAbstractly DEF Prepare, PrepareStart, At, Abstractly
<1>2. n0 \in Nodes /\ Top(t) = Level(stack[t], Len(stack[t])) /\ Len(stack[t]) \in Nat
      /\ Len(stack[t]) > 0 /\ Top(t).node = n0
  BY <1>1, TopTyped, HeadIs DEF TypeOK, Node
<1>3. StackOK(stack[t], dtable, prepared)
  BY DEF TablesInv
<1>4. /\ own' = own
      /\ stale' = IF Prepared(n0) THEN stale \cup {n0} ELSE stale
  BY DEF PrepareStart, classes
<1>5. dtable[n0] = Uninstalled /\ ~Has(dtable', prepared', n0)
  BY StartKeeps
<1>6. \A n \in Nodes \ {n0} :
          /\ Has(dtable', prepared', n) <=> Has(dtable, prepared, n)
          /\ TableIn(dtable', prepared', n) = TableIn(dtable, prepared, n)
  BY StartKeeps
<1>7. ASSUME NEW n \in Nodes \ {n0}, AgreesIn(dtable, prepared, own, n)
       PROVE  AgreesIn(dtable', prepared', own', n) \/ Super[n] \in stale'
  <2>1. CASE Super[n] = n0 /\ Has(dtable, prepared, n0)
    BY <1>5, <1>4, <2>1 DEF Has, Prepared
  <2>2. CASE Super[n] = n0 /\ ~Has(dtable, prepared, n0)
    <3>1. own[n] > 0
      BY <1>2, <1>7, <2>2, NodesAssumption DEF AgreesIn
    <3> QED
      BY <1>4, <1>6, <1>7, <3>1 DEF AgreesIn
  <2>3. CASE Super[n] # n0
    <3>1. Super[n] = NoNode \/ Super[n] \in Nodes \ {n0}
      BY <2>3, NodesAssumption
    <3> QED
      BY <1>4, <1>6, <1>7, <3>1 DEF AgreesIn
  <2> QED
    BY <2>1, <2>2, <2>3
<1>8. ASSUME NEW n \in Nodes \ {n0}, Awaits(stack[t], n) PROVE Awaits(stack'[t], n)
  <2>1. PICK f : Moves(stack[t], stack'[t], f)
    <3>1. Goto(t, "pr_super") /\ "pr_super" \in Labels
      BY DEF PrepareStart, Labels, Inner, Preparing
    <3> QED
      BY <1>1, <3>1, GotoMoves DEF TypeOK
  <2>2. ~ComesTo(stack[t], Len(stack[t]), n)
    BY <1>1, <1>2 DEF ComesTo
  <2>3. ASSUME Len(stack[t]) > 1, Level(stack[t], Len(stack[t]) - 1).at = "up_unlock"
        PROVE  Level(stack[t], Len(stack[t]) - 1).node = n0
    <3>1. CalledFrom(Level(stack[t], Len(stack[t]) - 1), Level(stack[t], Len(stack[t])))
      <4>1. Len(stack[t]) - 1 \in 1..(Len(stack[t]) - 1) /\ Len(stack[t]) - 1 + 1 = Len(stack[t])
        BY <1>2, <2>3
      <4> QED
        BY <1>3, <4>1 DEF StackOK, Shape
    <3> QED
      BY <1>1, <1>2, <2>3, <3>1 DEF CalledFrom
  <2>4. Awaits(stack'[t], n) \/ ComesTo(stack[t], Len(stack[t]), n) \/ BeginsFor(stack[t], n)
    BY <1>2, <1>8, <2>1, AwaitsBelow
  <2> QED
    BY <2>2, <2>3, <2>4 DEF BeginsFor
<1>9. \A n \in Nodes : Has(dtable', prepared', n) =>
            \/ AgreesIn(dtable', prepared', own', n)
            \/ Awaits(stack'[t], n)
            \/ Super[n] \in stale'
            \/ /\ Has(dtable, prepared, n)
               /\ ~AgreesIn(dtable, prepared, own, n)
               /\ Awaits(stack[t], n) => Awaits(stack'[t], n)
               /\ Super[n] \notin stale
  BY <1>5, <1>4, <1>6, <1>7, <1>8
<1> QED
  BY <1>1, <1>9, AgreeBy

(* A class that had no table has one that agrees with its superclass's.      *)
LEMMA CopyMakes ==
  ASSUME TypeOK, TablesInv, NEW t \in Threads, PrepareCopy(t), mutex' = mutex,
         NEW n0, n0 = Node(t)
  PROVE  /\ n0 \in Nodes /\ dtable' = dtable /\ own' = own
         /\ ~Has(dtable, prepared, n0) /\ Has(dtable', prepared', n0)
         /\ AgreesIn(dtable', prepared', own', n0)
         /\ \A n \in Nodes \ {n0} :
               /\ Has(dtable', prepared', n) <=> Has(dtable, prepared, n)
               /\ TableIn(dtable', prepared', n) = TableIn(dtable, prepared, n)
<1>1. stack[t] # <<>> /\ Top(t).at = "pr_copy"
  BY DEF PrepareCopy, At
<1>2. n0 \in Nodes /\ Top(t) = Level(stack[t], Len(stack[t])) /\ Len(stack[t]) \in Nat
      /\ Len(stack[t]) > 0 /\ Len(stack[t]) \in Levels(stack[t]) /\ Top(t).node = n0
  BY <1>1, TopTyped, HeadIs DEF TypeOK, Levels, Node
<1>3. StackOK(stack[t], dtable, prepared)
  BY DEF TablesInv
<1>4. /\ dtable[n0] = Uninstalled /\ prepared[n0] = <<>>
      /\ Super[n0] \in Nodes => Has(dtable, prepared, Super[n0])
  BY <1>1, <1>2, <1>3 DEF StackOK, PreparingOK, Preparing, SuperHas
<1> PICK x : x = NewTable(n0)
  OBVIOUS
<1>5. /\ dtable' = dtable /\ own' = own
      /\ prepared' = [prepared EXCEPT ![n0] = <<x>> \o @]
  BY DEF PrepareCopy, classes
<1>6. x \in Tables
  BY <1>2, TableTyped
<1>7. <<x>> \o <<>> = <<x>> /\ <<x>> # <<>> /\ Head(<<x>>) = x
  BY <1>6
<1>8. /\ prepared'[n0] = <<x>>
      /\ \A n \in Nodes \ {n0} : prepared'[n] = prepared[n]
  BY <1>2, <1>4, <1>5, <1>7 DEF TypeOK
<1>9. Has(dtable', prepared', n0) /\ TableIn(dtable', prepared', n0) = x
      /\ ~Has(dtable, prepared, n0)
  BY <1>4, <1>5, <1>7, <1>8 DEF Has, TableIn
<1>10. ASSUME NEW n \in Nodes \ {n0}
       PROVE  /\ Has(dtable', prepared', n) <=> Has(dtable, prepared, n)
              /\ TableIn(dtable', prepared', n) = TableIn(dtable, prepared, n)
  BY <1>5, <1>8 DEF Has, TableIn
<1>11. AgreesIn(dtable', prepared', own', n0)
  <2>1. CASE own[n0] > 0
    BY <1>5, <1>9, <2>1 DEF AgreesIn, NewTable, Imp
  <2>2. CASE ~(own[n0] > 0) /\ Super[n0] = NoNode
    BY <1>5, <1>9, <2>2, NodesAssumption DEF AgreesIn, NewTable
  <2>3. CASE ~(own[n0] > 0) /\ Super[n0] # NoNode
    <3>1. Super[n0] \in Nodes \ {n0}
      BY <1>2, <2>3, NodesAssumption, SuperIsOther
    <3>2. x = TableIn(dtable, prepared, Super[n0])
      BY <1>4, <2>3, <3>1 DEF NewTable, HasTable, TableOf, TableIn, Has, Installed, Prepared
    <3> QED
      BY <1>4, <1>5, <1>9, <1>10, <2>3, <3>1, <3>2 DEF AgreesIn
  <2> QED
    BY <2>1, <2>2, <2>3
<1> QED
  BY <1>2, <1>5, <1>9, <1>10, <1>11

(* A table is copied from that of the superclass.                            *)
LEMMA AgreeCopy ==
  ASSUME TypeOK, TablesInv, AgreeInv, NEW t \in Threads, PrepareCopy(t), mutex' = mutex
  PROVE  AgreeInv'
<1> PICK n0 : n0 = Node(t)
  OBVIOUS
<1>1. /\ OfThread(t) /\ stack[t] # <<>> /\ Top(t) = Level(stack[t], Len(stack[t]))
      /\ Top(t).at = "pr_copy" /\ Len(stack[t]) \in Nat /\ Len(stack[t]) > 0
  BY PrepareAbstractly, TopTyped, HeadIs DEF Prepare, PrepareCopy, At, Abstractly, TypeOK
<1>2. own' = own /\ stale' = stale
  BY DEF PrepareCopy, classes
<1>3. n0 \in Nodes /\ ~Has(dtable, prepared, n0) /\ AgreesIn(dtable', prepared', own', n0)
  BY CopyMakes
<1>4. \A n \in Nodes \ {n0} :
          /\ Has(dtable', prepared', n) <=> Has(dtable, prepared, n)
          /\ TableIn(dtable', prepared', n) = TableIn(dtable, prepared, n)
  BY CopyMakes
<1>5. ASSUME NEW n \in Nodes \ {n0}, AgreesIn(dtable, prepared, own, n)
       PROVE  AgreesIn(dtable', prepared', own', n)
  <2>1. CASE own[n] > 0
    BY <1>2, <1>4, <1>5, <2>1 DEF AgreesIn
  <2>2. CASE ~(own[n] > 0)
    <3>1. Super[n] = NoNode \/ Super[n] \in Nodes \ {n0}
      BY <1>3, <1>5, <2>2, NodesAssumption DEF AgreesIn
    <3> QED
      BY <1>2, <1>4, <1>5, <2>2, <3>1 DEF AgreesIn
  <2> QED
    BY <2>1, <2>2
<1>6. \A n : Awaits(stack[t], n) => Awaits(stack'[t], n)
  <2>1. Pops(stack[t], stack'[t])
    BY <1>1, ReturnPops DEF PrepareCopy, TypeOK
  <2>2. Level(stack[t], Len(stack[t])).at = "pr_copy"
    BY <1>1
  <2> QED
    BY <1>1, <2>1, <2>2, StillAwaits
<1>7. \A n \in Nodes : Has(dtable', prepared', n) =>
            \/ AgreesIn(dtable', prepared', own', n)
            \/ Awaits(stack'[t], n)
            \/ Super[n] \in stale'
            \/ /\ Has(dtable, prepared, n)
               /\ ~AgreesIn(dtable, prepared, own, n)
               /\ Awaits(stack[t], n) => Awaits(stack'[t], n)
               /\ Super[n] \notin stale
  BY <1>2, <1>3, <1>4, <1>5, <1>6
<1> QED
  BY <1>1, <1>7, AgreeBy

(* New methods leave the table of their class behind: the update is to come. *)
LEMMA AgreeLink ==
  ASSUME TypeOK, AgreeInv, NEW t \in Threads, LinkMethods(t), mutex' = mutex
  PROVE  AgreeInv'
<1> PICK n0 : n0 = Node(t)
  OBVIOUS
<1>1. Abstractly(t) /\ OfThread(t) /\ stack[t] # <<>> /\ Top(t).at = "am_link"
  BY UpdateAbstractly DEF Update, LinkMethods, At, Abstractly
<1>2. n0 \in Nodes /\ Top(t) = Level(stack[t], Len(stack[t])) /\ Len(stack[t]) \in Nat
      /\ Len(stack[t]) > 0
  BY <1>1, TopTyped, HeadIs DEF TypeOK
<1>3. /\ dtable' = dtable /\ prepared' = prepared /\ stale' = stale
      /\ own' = [own EXCEPT ![n0] = @ + 1]
  BY DEF LinkMethods, tables
<1>4. PICK f \in FrameType : Moves(stack[t], stack'[t], f) /\ f.at = "up_lock" /\ f.node = n0
  <2>1. Goto(t, "up_lock") /\ "up_lock" \in Labels
    BY DEF LinkMethods, Labels, Linking
  <2> QED
    BY <1>1, <2>1, GotoMoves DEF TypeOK
<1>5. Awaits(stack'[t], n0)
  BY <1>2, <1>4 DEF Awaits, ComesTo, Moves, Levels
<1>6. \A n : Awaits(stack[t], n) => Awaits(stack'[t], n)
  BY <1>1, <1>2, <1>4, StillAwaits
<1>7. \A n \in Nodes \ {n0} : own'[n] = own[n]
  BY <1>2, <1>3 DEF TypeOK
<1>8. \A n \in Nodes \ {n0} : AgreesIn(dtable', prepared', own', n)
                                <=> AgreesIn(dtable, prepared, own, n)
  BY <1>3, <1>7 DEF AgreesIn
<1>9. \A n \in Nodes : Has(dtable', prepared', n) =>
            \/ AgreesIn(dtable', prepared', own', n)
            \/ Awaits(stack'[t], n)
            \/ Super[n] \in stale'
            \/ /\ Has(dtable, prepared, n)
               /\ ~AgreesIn(dtable, prepared, own, n)
               /\ Awaits(stack[t], n) => Awaits(stack'[t], n)
               /\ Super[n] \notin stale
  BY <1>3, <1>5, <1>6, <1>8
<1> QED
  BY <1>1, <1>9, AgreeBy

(* The steps of an update that leave the tables alone.                       *)
LEMMA AgreeGoesOn ==
  ASSUME TypeOK, AgreeInv, NEW t \in Threads, mutex' = mutex,
         UpdateLock(t) \/ UpdatePrepared(t) \/ UpdateSubclass(t) \/ UpdateUnlock(t)
  PROVE  AgreeInv'
<1> PICK n0 : n0 = Node(t)
  OBVIOUS
<1> PICK s : s = stack[t]
  OBVIOUS
<1> PICK r : r = stack'[t]
  OBVIOUS
<1>1. Abstractly(t) /\ OfThread(t) /\ s # <<>>
  BY UpdateAbstractly DEF Update, UpdateLock, UpdatePrepared, UpdateSubclass, UpdateUnlock, At,
     Abstractly
<1>2. n0 \in Nodes /\ Top(t) = Level(s, Len(s)) /\ Top(t).node = n0 /\ Len(s) \in Nat
      /\ Len(s) > 0 /\ Top(t) \in FrameType
  BY <1>1, TopTyped, HeadIs DEF TypeOK, Node
<1>3. UNCHANGED <<dtable, prepared, own, stale>>
  BY DEF UpdateLock, UpdatePrepared, UpdateSubclass, UpdateUnlock, tables, classes
<1>4. ASSUME NEW n \in Nodes, Awaits(s, n), Has(dtable, prepared, n) PROVE Awaits(r, n)
  <2> DEFINE Shifts == \E f, g : Moves(s, r, f) \/ Pushes(s, r, f, g) \/ Pops(s, r)
  <2>1. ASSUME Shifts, Top(t).at # "pr_start"
        PROVE  Awaits(r, n) \/ ComesTo(s, Len(s), n)
    BY <1>2, <1>4, <2>1, AwaitsBelow DEF BeginsFor
  <2>2. CASE UpdateLock(t)
    <3>1. PICK f \in FrameType : Moves(s, r, f) /\ f.at = "up_test" /\ f.node = n0
      <4>1. Goto(t, "up_test") /\ "up_test" \in Labels
        BY <2>2 DEF UpdateLock, Labels, Locked
      <4> QED
        BY <1>1, <4>1, GotoMoves DEF TypeOK
    <3>2. Top(t).at = "up_lock" /\ Shifts
      BY <2>2, <3>1 DEF UpdateLock, At
    <3>3. CASE ComesTo(s, Len(s), n)
      <4>1. n = n0
        BY <1>2, <3>2, <3>3 DEF ComesTo
      <4>2. Len(s) \in Levels(r) /\ Level(r, Len(s)) = f
        BY <1>2, <3>1 DEF Moves, Levels
      <4> QED
        BY <3>1, <4>1, <4>2 DEF Awaits, ComesTo
    <3> QED
      BY <2>1, <3>2, <3>3
  <2>3. CASE UpdatePrepared(t)
    <3>1. Top(t).at = "up_test" /\ ~Installed(n0)
      BY <2>3 DEF UpdatePrepared, At
    <3>2. CASE Prepared(n0)
      <4>1. PICK f \in FrameType, g \in FrameType : /\ Pushes(s, r, f, g)
                        /\ f.at = "up_unlock" /\ f.node = n0 /\ g.at = "pr_start"
        <5>1. /\ Call(t, "pr_start", n0, "up_unlock") /\ "pr_start" \in Labels
              /\ "up_unlock" \in Labels
          BY <2>3, <3>2 DEF UpdatePrepared, Labels, Inner, Preparing, Locked
        <5>2. stack \in [Threads -> Seq(FrameType)] /\ stack[t] # <<>>
          BY <1>1 DEF TypeOK
        <5> QED
          BY <1>2, <5>1, <5>2, CallPushes
      <4>2. CASE ComesTo(s, Len(s), n)
        <5>1. n = n0
          BY <1>2, <3>1, <4>2 DEF ComesTo
        <5>2. /\ Len(s) \in Levels(r) /\ Level(r, Len(s)) = f
              /\ Len(s) + 1 \in Levels(r) /\ Level(r, Len(s) + 1) = g
          BY <1>2, <4>1 DEF Pushes, Levels
        <5> QED
          BY <4>1, <5>1, <5>2 DEF Awaits, ComesTo
      <4> QED
        BY <2>1, <3>1, <4>1, <4>2
    <3>3. CASE ~Prepared(n0)
      <4>1. PICK f \in FrameType : Moves(s, r, f)
        <5>1. Goto(t, "up_unlock") /\ "up_unlock" \in Labels
          BY <2>3, <3>3 DEF UpdatePrepared, Labels, Locked
        <5> QED
          BY <1>1, <5>1, GotoMoves DEF TypeOK
      <4>2. ~Has(dtable, prepared, n0)
        BY <3>1, <3>3 DEF Has, Installed, Prepared
      <4>3. ~ComesTo(s, Len(s), n)
        BY <1>2, <1>4, <3>1, <4>2 DEF ComesTo
      <4> QED
        BY <2>1, <3>1, <4>1, <4>3
    <3> QED
      BY <3>2, <3>3
  <2>4. CASE UpdateSubclass(t)
    <3>1. Top(t).at = "up_subs"
      BY <2>4 DEF UpdateSubclass, At
    <3>2. PICK m \in Top(t).rest :
            stack' = [stack EXCEPT ![t] =
                <<Frame("up_lock", m), [Top(t) EXCEPT !.rest = @ \ {m}]>> \o Tail(@)]
      BY <2>4 DEF UpdateSubclass
    <3> PICK rest : rest = Top(t).rest \ {m}
      OBVIOUS
    <3> PICK f : f = [Top(t) EXCEPT !.at = "up_subs", !.rest = rest]
      OBVIOUS
    <3>3. rest \subseteq Nodes /\ m \in Nodes /\ f = [Top(t) EXCEPT !.rest = @ \ {m}]
      BY <1>2, <3>1 DEF FrameType
    <3>4. "up_lock" \in Labels /\ <<"up_subs", "up_subs", "up_lock">> \in Calling /\ Keeps(t)
      BY <2>4 DEF Labels, Linking, Calling, UpdateSubclass, Keeps
    <3>5. Pushes(s, r, f, Frame("up_lock", m))
      <4>1. stack' = [stack EXCEPT ![t] = <<Frame("up_lock", m), f>> \o Tail(@)]
        BY <3>2, <3>3
      <4> QED
        BY <1>1, <3>1, <3>3, <3>4, <4>1, UpdatePushes
    <3>6. f.at = "up_subs" /\ f.rest = rest
      BY <1>2 DEF FrameType
    <3>7. Frame("up_lock", m).at = "up_lock" /\ Frame("up_lock", m).node = m
      BY <3>3, <3>4, FrameTyped
    <3>8. CASE ComesTo(s, Len(s), n)
      <4>1. n \in rest \/ n = m
        BY <1>2, <3>1, <3>8 DEF ComesTo
      <4>2. /\ Len(s) \in Levels(r) /\ Level(r, Len(s)) = f
            /\ Len(s) + 1 \in Levels(r) /\ Level(r, Len(s) + 1) = Frame("up_lock", m)
        BY <1>2, <3>5 DEF Pushes, Levels
      <4> QED
        BY <3>6, <3>7, <4>1, <4>2 DEF Awaits, ComesTo
    <3> QED
      BY <2>1, <3>1, <3>5, <3>8
  <2>5. CASE UpdateUnlock(t)
    <3>1. Top(t).at = "up_unlock" \/ (Top(t).at = "up_subs" /\ Top(t).rest = {})
      BY <2>5 DEF UpdateUnlock, At
    <3>2. Pops(s, r)
      BY <1>1, <2>5, ReturnPops DEF UpdateUnlock, TypeOK
    <3>3. ~ComesTo(s, Len(s), n)
      BY <1>2, <3>1 DEF ComesTo, Levels
    <3> QED
      BY <2>1, <3>1, <3>2, <3>3
  <2> QED
    BY <2>2, <2>3, <2>4, <2>5
<1>5. \A n \in Nodes : Has(dtable', prepared', n) =>
            \/ AgreesIn(dtable', prepared', own', n)
            \/ Awaits(stack'[t], n)
            \/ Super[n] \in stale'
            \/ /\ Has(dtable, prepared, n)
               /\ ~AgreesIn(dtable, prepared, own, n)
               /\ Awaits(stack[t], n) => Awaits(stack'[t], n)
               /\ Super[n] \notin stale
  BY <1>3, <1>4
<1> QED
  BY <1>1, <1>5, AgreeBy

(* A table to be installed anew is gone.                                     *)
LEMMA AnewKeeps ==
  ASSUME TypeOK, TablesInv, NEW t \in Threads, UpdateInstalled(t), mutex' = mutex,
         NEW n0, n0 = Node(t)
  PROVE  /\ n0 \in Nodes /\ ~Has(dtable', prepared', n0)
         /\ \A n \in Nodes \ {n0} :
               /\ Has(dtable', prepared', n) <=> Has(dtable, prepared, n)
               /\ TableIn(dtable', prepared', n) = TableIn(dtable, prepared, n)
<1>1. n0 \in Nodes /\ Installed(n0)
  <2>1. stack[t] # <<>> /\ Installed(n0)
    BY DEF UpdateInstalled, At
  <2> QED
    BY <2>1, TopTyped
<1>2. dtable' = [dtable EXCEPT ![n0] = Uninstalled] /\ prepared' = prepared
  BY DEF UpdateInstalled
<1>3. /\ dtable'[n0] = Uninstalled /\ prepared'[n0] = <<>>
      /\ \A n \in Nodes \ {n0} : dtable'[n] = dtable[n]
  BY <1>1, <1>2 DEF TypeOK, TablesInv, OneTable, Installed
<1> QED
  BY <1>1, <1>2, <1>3 DEF Has, TableIn

(* A table that is installed anew leaves the update to come to those below.  *)
LEMMA AgreeAnew ==
  ASSUME TypeOK, TablesInv, AgreeInv, NEW t \in Threads, UpdateInstalled(t), mutex' = mutex
  PROVE  AgreeInv'
<1> PICK n0 : n0 = Node(t)
  OBVIOUS
<1> PICK s : s = stack[t]
  OBVIOUS
<1> PICK r : r = stack'[t]
  OBVIOUS
<1>1. Abstractly(t) /\ OfThread(t) /\ s # <<>> /\ Top(t).at = "up_test" /\ Installed(n0)
  BY UpdateAbstractly DEF Update, UpdateInstalled, At, Abstractly
<1>2. n0 \in Nodes /\ Top(t) = Level(s, Len(s)) /\ Top(t).node = n0 /\ Len(s) \in Nat
      /\ Len(s) > 0 /\ Top(t) \in FrameType
  BY <1>1, TopTyped, HeadIs DEF TypeOK, Node
<1>3. own' = own /\ stale' = stale \ {n0}
  BY DEF UpdateInstalled, classes
<1> PICK rest : rest = {m \in Nodes : Super[m] = n0}
  OBVIOUS
<1> PICK f : f = [Top(t) EXCEPT !.at = "up_subs", !.rest = rest]
  OBVIOUS
<1>4. Pushes(s, r, f, Frame("in_super", n0)) /\ f.at = "up_subs" /\ f.rest = rest
  <2>1. stack' = [stack EXCEPT ![t] = <<Frame("in_super", n0), f>> \o Tail(@)] /\ Keeps(t)
    BY DEF UpdateInstalled, MayDiscard, Keeps
  <2>2. <<"up_test", "up_subs", "in_super">> \in Calling /\ "in_super" \in Labels
    BY DEF Calling, Installing, Inner, Labels
  <2>3. rest \subseteq Nodes
    OBVIOUS
  <2>4. Pushes(s, r, f, Frame("in_super", n0))
    BY <1>1, <1>2, <2>1, <2>2, <2>3, UpdatePushes
  <2>5. f.at = "up_subs" /\ f.rest = rest
    BY <1>2 DEF FrameType
  <2> QED
    BY <2>4, <2>5
<1>5. \A n \in rest : Awaits(r, n)
  <2>1. Len(s) \in Levels(r) /\ Level(r, Len(s)) = f
    BY <1>2, <1>4 DEF Pushes, Levels
  <2> QED
    BY <1>4, <2>1 DEF Awaits, ComesTo
<1>6. ASSUME NEW n \in Nodes \ {n0}, Awaits(s, n) PROVE Awaits(r, n)
  <2>1. Awaits(r, n) \/ ComesTo(s, Len(s), n)
    BY <1>1, <1>2, <1>4, <1>6, AwaitsBelow DEF BeginsFor
  <2> QED
    BY <1>1, <1>2, <1>6, <2>1 DEF ComesTo
<1>7. ~Has(dtable', prepared', n0)
  BY AnewKeeps
<1>8. \A n \in Nodes \ {n0} :
         /\ Has(dtable', prepared', n) <=> Has(dtable, prepared, n)
         /\ TableIn(dtable', prepared', n) = TableIn(dtable, prepared, n)
  BY AnewKeeps
<1>9. ASSUME NEW n \in Nodes \ {n0}, n \notin rest
       PROVE  AgreesIn(dtable', prepared', own', n) <=> AgreesIn(dtable, prepared, own, n)
  <2>1. Super[n] = NoNode \/ Super[n] \in Nodes \ {n0}
    BY <1>9, NodesAssumption
  <2> QED
    BY <1>3, <1>8, <2>1 DEF AgreesIn
<1>10. \A n \in Nodes : n \notin rest => Super[n] # n0
  OBVIOUS
<1>11. \A n \in Nodes : Has(dtable', prepared', n) =>
            \/ AgreesIn(dtable', prepared', own', n)
            \/ Awaits(r, n)
            \/ Super[n] \in stale'
            \/ /\ Has(dtable, prepared, n)
               /\ ~AgreesIn(dtable, prepared, own, n)
               /\ Awaits(s, n) => Awaits(r, n)
               /\ Super[n] \notin stale
  BY <1>3, <1>5, <1>6, <1>7, <1>8, <1>9, <1>10
<1> QED
  BY <1>1, <1>11, AgreeBy

(* Every step of a careful program keeps the tables in agreement.            *)
LEMMA AgreeStep ==
  ASSUME TypeOK, TablesInv, AgreeInv, aborted' = 0, [CarefulNext]_vars
  PROVE  AgreeInv'
<1>1. CASE UNCHANGED vars
  <2>1. /\ stack' = stack /\ dtable' = dtable /\ prepared' = prepared /\ own' = own
        /\ stale' = stale
    BY <1>1 DEF vars, tables, classes
  <2> QED
    BY <2>1 DEF AgreeInv
<1>2. ASSUME NEW t \in Threads, CarefulCall(t) PROVE AgreeInv'
  <2>1. Abstractly(t)
    BY <1>2, CallAbstractly DEF CarefulCall, AnyCall
  <2>2. /\ UNCHANGED <<dtable, prepared, own, stale>>
        /\ stack[t] # <<>> => Top(t).at = "si_body"
    BY <1>2 DEF CarefulCall, Message, RespondsTo, AddMethods, MayCall, At, tables, classes
  <2> QED
    BY <2>1, <2>2, AgreeQuiet
<1>3. ASSUME NEW t \in Threads, Lookup(t), mutex' = mutex PROVE AgreeInv'
  <2>1. Abstractly(t)
    BY <1>3, LookupAbstractly
  <2>2. /\ UNCHANGED <<dtable, prepared, own, stale>>
        /\ Top(t).at \notin {"up_lock", "up_test", "up_subs", "pr_start"}
    BY <1>3 DEF Lookup, LookFast, LookInstalled, LookLoad, RespondsInstalled, LookUninstalled,
       LookLocked, FirstMessage, LookAgain, LookPrepared, Answer, At, tables, classes
  <2> QED
    BY <2>1, <2>2, AgreeQuiet
<1>4. ASSUME NEW t \in Threads, Install(t), mutex' = mutex, ~InstallPrepared(t) PROVE AgreeInv'
  <2>1. Abstractly(t)
    BY <1>4, InstallAbstractly
  <2>2. /\ UNCHANGED <<dtable, prepared, own, stale>>
        /\ Top(t).at \notin {"up_lock", "up_test", "up_subs", "pr_start"}
    BY <1>4 DEF Install, InstallSuper, InstallCheck, InstallPrepare, InstallInitialize, At,
       tables, classes
  <2> QED
    BY <2>1, <2>2, AgreeQuiet
<1>5. ASSUME NEW t \in Threads, PrepareSuper(t), mutex' = mutex PROVE AgreeInv'
  <2>1. Abstractly(t)
    BY <1>5, PrepareAbstractly DEF Prepare
  <2>2. /\ UNCHANGED <<dtable, prepared, own, stale>>
        /\ Top(t).at \notin {"up_lock", "up_test", "up_subs", "pr_start"}
    BY <1>5 DEF PrepareSuper, At, tables, classes
  <2> QED
    BY <2>1, <2>2, AgreeQuiet
<1>6. ASSUME NEW t \in Threads, SendInitialize(t), mutex' = mutex PROVE AgreeInv'
  <2>1. Abstractly(t)
    BY <1>6, SendAbstractly
  <2>2. /\ UNCHANGED <<dtable, prepared, own, stale>>
        /\ Top(t).at \notin {"up_lock", "up_test", "up_subs", "pr_start"}
    BY <1>6 DEF SendInitialize, InitializeTest, InitializeSet, InitializeRegister,
       InitializeSend, InitializeDone, At, tables, classes
  <2> QED
    BY <2>1, <2>2, AgreeQuiet
<1>7. ASSUME NEW t \in Threads, Prepare(t), mutex' = mutex PROVE AgreeInv'
  BY <1>5, <1>7, AgreeStart, AgreeCopy DEF Prepare
<1>8. ASSUME NEW t \in Threads, Update(t), mutex' = mutex PROVE AgreeInv'
  BY <1>8, AgreeLink, AgreeGoesOn, AgreeAnew DEF Update
<1>9. ASSUME NEW t \in Threads, Install(t), mutex' = mutex PROVE AgreeInv'
  BY <1>4, <1>9, AgreeInstall
<1>10. CASE CarefulNext
  <2>1. PICK t \in Threads : Step(t) \/ CarefulCall(t)
    BY <1>10 DEF CarefulNext
  <2> QED
    BY <1>2, <1>3, <1>6, <1>7, <1>8, <1>9, <2>1 DEF Step
<1> QED
  BY <1>1, <1>10

(* Who is rebuilt is not directly below a class that is stale, and those     *)
(* above it are rebuilt.                                                     *)
LEMMA RebuiltAbove ==
  ASSUME TypeOK, NEW n \in Nodes, Rebuilt(n), Super[n] \in Nodes
  PROVE  Super[n] \notin stale /\ Rebuilt(Super[n])
<1>1. n \in Below(Super[n]) /\ Super[n] # n
  <2>1. Super[n] \in Below(Super[n]) /\ Super[n] # NoNode
    BY BelowIs, NodesAssumption
  <2> QED
    BY <2>1, BelowIs, SuperIsOther
<1>2. Super[n] \notin stale
  BY <1>1 DEF Rebuilt
<1>3. ASSUME NEW m \in stale, Super[n] \in Below(m) \ {m} PROVE FALSE
  <2>1. m \in Nodes
    BY DEF TypeOK
  <2>2. n \in Below(m)
    BY <1>1, <1>3, BelowAll
  <2>3. n # m
    BY <1>3, <2>1, AboveIsNotBelow
  <2> QED
    BY <2>2, <2>3 DEF Rebuilt
<1> QED
  BY <1>2, <1>3 DEF Rebuilt

(* So without an update under way each table, installed or prepared, is what *)
(* a search of the hierarchy finds.                                          *)
LEMMA AgreeSearch ==
  ASSUME TypeOK, AgreeInv, ~Updating
  PROVE  \A n \in Nodes : Has(dtable, prepared, n) /\ Rebuilt(n) =>
            TableIn(dtable, prepared, n) = Search[n]
<1> DEFINE Good(n) == Has(dtable, prepared, n) /\ Rebuilt(n) =>
                          TableIn(dtable, prepared, n) = Search[n]
           Bad == {n \in Nodes : ~Good(n)}
<1> SUFFICES ASSUME Bad # {} PROVE FALSE
  OBVIOUS
<1>1. PICK n \in Bad : Super[n] \notin Bad
  BY HierarchyAssumption
<1>2. ASSUME NEW t \in Threads PROVE ~Awaits(stack[t], n)
  <2>1. stack[t] \in Seq(FrameType) /\ Len(stack[t]) \in Nat
    BY DEF TypeOK
  <2>2. ASSUME NEW k \in Levels(stack[t])
        PROVE  Level(stack[t], k).at \notin {"up_lock", "up_test", "up_subs", "up_unlock"}
    <3>1. Len(stack[t]) + 1 - k \in 1..Len(stack[t])
      BY <2>1 DEF Levels
    <3>2. Level(stack[t], k) \in Frames(t)
      BY <3>1 DEF Frames, Level
    <3> QED
      BY <3>2 DEF Updating, InCall
  <2> QED
    BY <2>2 DEF Awaits, ComesTo
<1>3. Super[n] \in Nodes \cup {NoNode} /\ Has(dtable, prepared, n) /\ Rebuilt(n)
      /\ TableIn(dtable, prepared, n) # Search[n]
  BY <1>1, NodesAssumption
<1>4. Super[n] \in Nodes => Super[n] \notin stale /\ Rebuilt(Super[n])
  BY <1>1, <1>3, RebuiltAbove
<1>5. NoNode \notin stale
  BY NodesAssumption DEF TypeOK
<1>6. AgreesIn(dtable, prepared, own, n)
  BY <1>1, <1>2, <1>3, <1>4, <1>5 DEF AgreeInv
<1>7. Search[n] = IF own[n] > 0 THEN <<n, own[n]>>
                  ELSE IF Super[n] = NoNode THEN NoImp ELSE Search[Super[n]]
  BY <1>1, SearchIs DEF Search
<1>8. ~(own[n] > 0) /\ Super[n] # NoNode
  BY <1>3, <1>6, <1>7 DEF AgreesIn
<1>9. /\ Super[n] \in Nodes /\ Has(dtable, prepared, Super[n])
      /\ TableIn(dtable, prepared, n) = TableIn(dtable, prepared, Super[n])
  BY <1>3, <1>6, <1>8 DEF AgreesIn
<1>10. TableIn(dtable, prepared, Super[n]) = Search[Super[n]]
  BY <1>1, <1>4, <1>9
<1> QED
  BY <1>3, <1>7, <1>8, <1>9, <1>10

(* With calls made one after another the tables agree at all times.          *)
THEOREM TablesInAgreement ==
    Serialized => (CarefulSpec => [](TypeOK /\ SerialInv /\ TablesInv /\ AssertionsHold /\ AgreeInv))
<1> SUFFICES ASSUME Serialized
             PROVE  CarefulSpec =>
                        [](TypeOK /\ SerialInv /\ TablesInv /\ AssertionsHold /\ AgreeInv)
  OBVIOUS
<1>1. Init => TypeOK /\ SerialInv /\ TablesInv /\ AssertionsHold /\ AgreeInv
  <2>1. Init => AgreeInv
    BY DEF Init, AgreeInv, Has
  <2> QED
    BY <2>1, TypeInit, SerialInit, TablesInit DEF Init, AssertionsHold
<1>2. /\ TypeOK /\ SerialInv /\ TablesInv /\ AssertionsHold /\ AgreeInv
      /\ [CarefulNext]_vars
      => (TypeOK /\ SerialInv /\ TablesInv /\ AssertionsHold /\ AgreeInv)'
  <2> SUFFICES ASSUME TypeOK, SerialInv, TablesInv, AssertionsHold, AgreeInv,
                      [CarefulNext]_vars
               PROVE  (TypeOK /\ SerialInv /\ TablesInv /\ AssertionsHold /\ AgreeInv)'
    OBVIOUS
  <2>1. TypeOK' /\ SerialInv'
    BY CarefulIsNext, TypeStep, SerialStep
  <2>2. TablesInv' /\ aborted' = 0
    BY TablesStep DEF AssertionsHold
  <2>3. AgreeInv'
    BY <2>2, AgreeStep
  <2> QED
    BY <2>1, <2>2, <2>3 DEF AssertionsHold
<1> QED
  BY <1>1, <1>2, PTL DEF CarefulSpec

(* So between updates an installed table holds the method that a search of   *)
(* the class hierarchy finds: no subclass keeps one its superclass replaced. *)
THEOREM UpdatesReachSubclasses == Serialized => (CarefulSpec => []TablesAgree)
<1> SUFFICES ASSUME Serialized PROVE CarefulSpec => []TablesAgree
  OBVIOUS
<1>1. TypeOK /\ AgreeInv => TablesAgree
  BY AgreeSearch DEF TablesAgree, Has, TableIn, Installed
<1> QED
  BY <1>1, TablesInAgreement, PTL

-----------------------------------------------------------------------------
(* A lookup for class c that began when there were l lists finds nothing     *)
(* older in the tables d and the prepared tables p of c and those above it.  *)
NoneOlder(d, p, c, l) ==
    \A m \in Nodes : c \in Below(m) /\ Has(d, p, m) =>
        AsNewAs(TableIn(d, p, m), SearchIn(l)[m])

(* What holds of a lookup in frame f, when there are w lists.                *)
Sees(d, p, w, f) ==
    f.since # <<>> =>
        /\ \A n \in Nodes : f.since[n] <= w[n]
        /\ NoneOlder(d, p, f.node, f.since)
        /\ f.at = "gi_load" => d[f.node] # Uninstalled \/ w # f.since
        /\ f.at = "answered" => \/ AsNewAs(f.got, SearchIn(f.since)[f.node])
                                \/ f.got = NoImp /\ w # f.since

SeeInv ==
    \A t \in Threads : \A k \in Levels(stack[t]) :
        Sees(dtable, prepared, own, Level(stack[t], k))

(* While an update is past the linking of its list, there are more lists     *)
(* than any lookup began with.                                               *)
PastLink == {"up_lock", "up_test", "up_subs", "up_unlock"}
MoreInv ==
    \A t, u \in Threads : \A k \in Levels(stack[t]), j \in Levels(stack[u]) :
        Level(stack[t], k).at \in PastLink /\ Level(stack[u], j).since # <<>> =>
            own # Level(stack[u], j).since

(* A lookup that goes on to another line sees what it saw.                   *)
LEMMA SeesOn ==
  ASSUME NEW d, NEW p, NEW w, NEW f, NEW h, Sees(d, p, w, h),
         f.since = h.since, f.node = h.node, f.at \notin {"gi_load", "answered"}
  PROVE  Sees(d, p, w, f)
  BY DEF Sees

(* It is enough that lookups on the stacks still see what they saw, and that *)
(* those that move or are new do.                                            *)
LEMMA SeeBy ==
  ASSUME TypeOK, NEW t \in Threads, OfThread(t), NEW f, NEW g,
         \A u \in Threads : \A k \in Levels(stack[u]) :
             Sees(dtable', prepared', own', Level(stack[u], k)),
         \/ Moves(stack[t], stack'[t], f) /\ Sees(dtable', prepared', own', f)
         \/ /\ Pushes(stack[t], stack'[t], f, g)
            /\ Sees(dtable', prepared', own', f) /\ Sees(dtable', prepared', own', g)
         \/ Pops(stack[t], stack'[t])
         \/ Enters(stack[t], stack'[t], g) /\ Sees(dtable', prepared', own', g)
  PROVE  SeeInv'
<1> SUFFICES ASSUME NEW u \in Threads, NEW k \in Levels(stack'[u])
             PROVE  Sees(dtable', prepared', own', Level(stack'[u], k))
  BY DEF SeeInv, Levels, Level
<1> PICK s : s = stack[t]
  OBVIOUS
<1> PICK r : r = stack'[t]
  OBVIOUS
<1>1. CASE u # t
  BY <1>1 DEF OfThread
<1>2. CASE u = t
  <2>1. Len(s) \in Nat /\ k \in 1..Len(r)
    BY <1>2 DEF Levels, TypeOK
  <2>2. \A j \in 1..Len(s) : Sees(dtable', prepared', own', Level(s, j))
    BY DEF Levels
  <2>3. CASE k < Len(s)
    <3>1. Level(r, k) = Level(s, k)
      BY <2>1, <2>3 DEF Moves, Pushes, Pops, Enters
    <3> QED
      BY <1>2, <2>1, <2>2, <2>3, <3>1
  <2>4. CASE k = Len(s)
    <3>1. k \in 1..Len(s)
      BY <2>1, <2>4
    <3>2. ~Pops(s, r)
      BY <2>1, <2>4 DEF Pops
    <3>3. Moves(s, r, f) \/ Pushes(s, r, f, g) => Level(r, k) = f
      BY <2>4 DEF Moves, Pushes
    <3>4. Enters(s, r, g) => Level(r, k) = Level(s, k)
      BY <3>1 DEF Enters
    <3> QED
      BY <1>2, <2>2, <3>1, <3>2, <3>3, <3>4
  <2>5. CASE k > Len(s)
    <3>1. k = Len(s) + 1 /\ ~Pops(s, r) /\ ~Moves(s, r, f)
      BY <2>1, <2>5 DEF Moves, Pushes, Pops, Enters
    <3>2. Pushes(s, r, f, g) \/ Enters(s, r, g) => Level(r, k) = g
      BY <3>1 DEF Pushes, Enters
    <3> QED
      BY <1>2, <3>1, <3>2
  <2> QED
    BY <2>1, <2>3, <2>4, <2>5
<1> QED
  BY <1>1, <1>2

(* The four ways a stack steps, for a lookup that neither loads nor answers. *)
Quiets(t) ==
    LET s == stack[t]
        r == stack'[t]
        Same(f) == /\ f.since = Top(t).since /\ f.node = Node(t)
                   /\ f.at \notin {"gi_load", "answered"}
    IN  /\ s # <<>>
        /\ OfThread(t)
        /\ \/ \E f \in FrameType : Moves(s, r, f) /\ Same(f)
           \/ \E f, g \in FrameType : Pushes(s, r, f, g) /\ Same(f) /\ g.since = <<>>
           \/ Pops(s, r)

(* What no lookup loses, no step of these takes.                             *)
LEMMA SeeQuiet ==
  ASSUME TypeOK, NEW t \in Threads, Quiets(t),
         \A u \in Threads : \A k \in Levels(stack[u]) :
             Sees(dtable', prepared', own', Level(stack[u], k))
  PROVE  SeeInv'
<1> PICK s : s = stack[t]
  OBVIOUS
<1> PICK r : r = stack'[t]
  OBVIOUS
<1>1. s # <<>> /\ OfThread(t)
  BY DEF Quiets
<1>2. Top(t) = Level(s, Len(s)) /\ Len(s) \in Levels(s) /\ Node(t) = Top(t).node
  BY <1>1, TopTyped, HeadIs DEF TypeOK, Levels, Node
<1>3. Sees(dtable', prepared', own', Top(t))
  BY <1>2
<1>4. CASE \E f \in FrameType : /\ Moves(s, r, f) /\ f.since = Top(t).since /\ f.node = Node(t)
                                /\ f.at \notin {"gi_load", "answered"}
  <2>1. PICK f \in FrameType : /\ Moves(s, r, f) /\ f.since = Top(t).since /\ f.node = Node(t)
                               /\ f.at \notin {"gi_load", "answered"}
    BY <1>4
  <2>2. Sees(dtable', prepared', own', f)
    BY <1>2, <1>3, <2>1, SeesOn
  <2> QED
    BY <1>1, <2>1, <2>2, SeeBy
<1>5. CASE \E f, g \in FrameType : /\ Pushes(s, r, f, g) /\ f.since = Top(t).since
                                   /\ f.node = Node(t) /\ f.at \notin {"gi_load", "answered"}
                                   /\ g.since = <<>>
  <2>1. PICK f \in FrameType, g \in FrameType :
          /\ Pushes(s, r, f, g) /\ f.since = Top(t).since /\ f.node = Node(t)
          /\ f.at \notin {"gi_load", "answered"} /\ g.since = <<>>
    BY <1>5
  <2>2. Sees(dtable', prepared', own', f)
    BY <1>2, <1>3, <2>1, SeesOn
  <2>3. Sees(dtable', prepared', own', g)
    BY <2>1 DEF Sees
  <2> QED
    BY <1>1, <2>1, <2>2, <2>3, SeeBy
<1>6. CASE Pops(s, r)
  BY <1>1, <1>6, SeeBy
<1> QED
  BY <1>4, <1>5, <1>6 DEF Quiets

(* A step that takes tables away, and leaves those there are, takes nothing  *)
(* from a lookup but the table it has found installed.                       *)
LEMMA SeesFewer ==
  ASSUME NEW d, NEW p, NEW e, NEW q, NEW w, NEW f \in FrameType, Sees(d, p, w, f),
         \A m \in Nodes : Has(e, q, m) => /\ Has(d, p, m)
                                          /\ TableIn(e, q, m) = TableIn(d, p, m),
         f.since # <<>> /\ d[f.node] # Uninstalled /\ e[f.node] = Uninstalled => w # f.since
  PROVE  Sees(e, q, w, f)
<1> SUFFICES ASSUME f.since # <<>> PROVE Sees(e, q, w, f)
  BY DEF Sees
<1>1. NoneOlder(e, q, f.node, f.since)
  BY DEF Sees, NoneOlder
<1> QED
  BY <1>1 DEF Sees

(* A table copied from one that is not too old is not.                       *)
LEMMA SeesCopy ==
  ASSUME NEW d, NEW p, NEW e, NEW q, NEW w \in [Nodes -> Nat], NEW f \in FrameType,
         Sees(d, p, w, f), NEW n \in Nodes, e = d, ~Has(d, p, n), AgreesIn(e, q, w, n),
         \A m \in Nodes \ {n} : /\ Has(e, q, m) <=> Has(d, p, m)
                                /\ TableIn(e, q, m) = TableIn(d, p, m)
  PROVE  Sees(e, q, w, f)
<1> SUFFICES ASSUME f.since # <<>> PROVE Sees(e, q, w, f)
  BY DEF Sees
<1> PICK l : l = f.since
  OBVIOUS
<1>1. l \in [Nodes -> Nat] /\ (\A m \in Nodes : l[m] <= w[m]) /\ NoneOlder(d, p, f.node, l)
  BY DEF Sees, FrameType
<1>2. ASSUME NEW m \in Nodes \ {n}, f.node \in Below(m), Has(e, q, m)
      PROVE  AsNewAs(TableIn(e, q, m), SearchIn(l)[m])
  BY <1>1, <1>2 DEF NoneOlder
<1>3. SearchIn(l)[n] = IF l[n] > 0 THEN <<n, l[n]>>
                       ELSE IF Super[n] = NoNode THEN NoImp ELSE SearchIn(l)[Super[n]]
  BY SearchIs
<1>4. w[n] \in Nat /\ l[n] \in Nat /\ l[n] <= w[n]
  BY <1>1
<1>5. ASSUME f.node \in Below(n) PROVE AsNewAs(TableIn(e, q, n), SearchIn(l)[n])
  <2>1. CASE w[n] > 0
    <3>1. TableIn(e, q, n) = <<n, w[n]>>
      BY <2>1 DEF AgreesIn
    <3>2. CASE l[n] > 0
      BY <1>3, <1>4, <3>1, <3>2 DEF AsNewAs
    <3>3. CASE ~(l[n] > 0)
      <4>1. CASE SearchIn(l)[n] = NoImp
        BY <4>1 DEF AsNewAs
      <4>2. CASE SearchIn(l)[n] # NoImp
        <5>1. PICK a \in Nodes : n \in Below(a) /\ l[a] > 0 /\ SearchIn(l)[n] = <<a, l[a]>>
          BY <1>1, <4>2, SearchFinds
        <5>2. a # n /\ n # NoNode
          BY <3>3, <5>1, NodesAssumption
        <5>3. <<n, w[n]>> # NoImp
          BY <5>2 DEF NoImp
        <5> QED
          BY <3>1, <5>1, <5>2, <5>3 DEF AsNewAs
      <4> QED
        BY <4>1, <4>2
    <3> QED
      BY <3>2, <3>3
  <2>2. CASE ~(w[n] > 0) /\ Super[n] = NoNode
    BY <1>3, <1>4, <2>2 DEF AsNewAs
  <2>3. CASE ~(w[n] > 0) /\ Super[n] # NoNode
    <3>1. Super[n] \in Nodes \ {n}
      BY <2>3, NodesAssumption, SuperIsOther
    <3>2. /\ Has(e, q, Super[n])
          /\ TableIn(e, q, n) = TableIn(e, q, Super[n])
      BY <2>3 DEF AgreesIn
    <3>3. SearchIn(l)[n] = SearchIn(l)[Super[n]]
      BY <1>3, <1>4, <2>3
    <3>4. f.node \in Below(Super[n])
      <4>1. Super[n] \in Below(Super[n])
        BY <3>1, BelowIs
      <4>2. n \in Below(Super[n])
        BY <2>3, <4>1, BelowIs
      <4> QED
        BY <1>5, <4>2, BelowAll
    <3> QED
      BY <1>2, <3>1, <3>2, <3>3, <3>4
  <2> QED
    BY <2>1, <2>2, <2>3
<1>6. NoneOlder(e, q, f.node, f.since)
  BY <1>2, <1>5 DEF NoneOlder
<1> QED
  BY <1>6 DEF Sees

(* Lists that a lookup began before stay so.                                 *)
LEMMA MoreLists ==
  ASSUME NEW w \in [Nodes -> Nat], NEW x \in [Nodes -> Nat], NEW l \in [Nodes -> Nat],
         \A n \in Nodes : l[n] <= w[n], \A n \in Nodes : w[n] <= x[n]
  PROVE  /\ \A n \in Nodes : l[n] <= x[n]
         /\ w # l \/ x # w => x # l
<1>1. \A n \in Nodes : l[n] \in Nat /\ w[n] \in Nat /\ x[n] \in Nat
  OBVIOUS
<1>2. ASSUME x = l PROVE w = l /\ x = w
  <2>1. \A n \in Nodes : w[n] = l[n] /\ x[n] = w[n]
    BY <1>1, <1>2
  <2> QED
    BY <2>1
<1> QED
  BY <1>1, <1>2

(* So a list more takes nothing from a lookup.                               *)
LEMMA SeesMore ==
  ASSUME NEW d, NEW p, NEW w \in [Nodes -> Nat], NEW x \in [Nodes -> Nat],
         NEW f \in FrameType, Sees(d, p, w, f), \A n \in Nodes : w[n] <= x[n]
  PROVE  Sees(d, p, x, f)
<1> SUFFICES ASSUME f.since # <<>> PROVE Sees(d, p, x, f)
  BY DEF Sees
<1>1. f.since \in [Nodes -> Nat] /\ \A n \in Nodes : f.since[n] <= w[n]
  BY DEF FrameType, Sees
<1>2. (\A n \in Nodes : f.since[n] <= x[n]) /\ (w # f.since => x # f.since)
  BY <1>1, MoreLists
<1> QED
  BY <1>2 DEF Sees

(* What is found in the table of a class, or of one above it, is as new as   *)
(* itself.                                                                   *)
LEMMA AsNewAsItself ==
  ASSUME NEW l \in [Nodes -> Nat], NEW n \in Nodes
  PROVE  AsNewAs(SearchIn(l)[n], SearchIn(l)[n])
<1>1. CASE SearchIn(l)[n] = NoImp
  BY <1>1 DEF AsNewAs
<1>2. CASE SearchIn(l)[n] # NoImp
  <2>1. PICK a \in Nodes : l[a] > 0 /\ SearchIn(l)[n] = <<a, l[a]>>
    BY <1>2, SearchFinds
  <2>2. l[a] >= l[a]
    OBVIOUS
  <2> QED
    BY <2>1, <2>2 DEF AsNewAs
<1> QED
  BY <1>1, <1>2

(* A lookup that begins sees what a search of the hierarchy would.           *)
LEMMA SeesNew ==
  ASSUME TypeOK, AgreeInv, NEW n \in Nodes, NEW l \in {"gi_fast", "rt_read"}
  PROVE  Sees(dtable, prepared, own, LookupFrame(l, n))
<1> PICK f : f = LookupFrame(l, n)
  OBVIOUS
<1>1. /\ f.at = l /\ f.node = n
      /\ f.since = IF Updating \/ ~Rebuilt(n) THEN <<>> ELSE own
  BY DEF LookupFrame, Frame
<1> SUFFICES ASSUME ~Updating, Rebuilt(n), f.since = own PROVE Sees(dtable, prepared, own, f)
  BY <1>1 DEF Sees
<1>2. ASSUME NEW m \in Nodes, n \in Below(m), Has(dtable, prepared, m)
      PROVE  AsNewAs(TableIn(dtable, prepared, m), SearchIn(own)[m])
  <2>1. Rebuilt(m)
    <3> SUFFICES ASSUME NEW x \in stale, m \in Below(x) \ {x} PROVE FALSE
      BY DEF Rebuilt
    <3>1. x \in Nodes
      BY DEF TypeOK
    <3>2. n \in Below(x)
      BY <1>2, BelowAll
    <3>3. n # x
      BY <1>2, <3>1, BelowOneWay
    <3> QED
      BY <3>2, <3>3 DEF Rebuilt
  <2>2. TableIn(dtable, prepared, m) = SearchIn(own)[m]
    BY <1>2, <2>1, AgreeSearch DEF Search
  <2>3. own \in [Nodes -> Nat]
    BY DEF TypeOK
  <2> QED
    BY <2>2, <2>3, AsNewAsItself
<1>3. NoneOlder(dtable, prepared, f.node, f.since)
  BY <1>1, <1>2 DEF NoneOlder
<1>4. \A m \in Nodes : own[m] <= own[m]
  BY DEF TypeOK
<1> QED
  BY <1>1, <1>3, <1>4 DEF Sees

(* What a lookup finds in the table of its class is not too old.             *)
LEMMA SeesOwn ==
  ASSUME TypeOK, NEW f \in FrameType, Sees(dtable, prepared, own, f), f.since # <<>>,
         Has(dtable, prepared, f.node)
  PROVE  AsNewAs(TableIn(dtable, prepared, f.node), SearchIn(f.since)[f.node])
<1>1. f.node \in Nodes /\ f.node \in Below(f.node)
  BY BelowIs DEF FrameType
<1> QED
  BY <1>1 DEF Sees, NoneOlder

(* Going on, a call and a return, of what neither loads nor answers.         *)
LEMMA GotoQuiets ==
  ASSUME TypeOK, NEW t \in Threads, stack[t] # <<>>,
         NEW l \in Labels, l \notin {"gi_load", "answered"}, Goto(t, l)
  PROVE  Quiets(t)
<1>1. stack \in [Threads -> Seq(FrameType)] /\ stack[t] # <<>>
  BY DEF TypeOK
<1>2. PICK f \in FrameType : /\ Moves(stack[t], stack'[t], f)
                             /\ f.at = l /\ f.node = Node(t) /\ f.since = Top(t).since
  BY <1>1, GotoMoves
<1>3. OfThread(t)
  BY <1>1, GotoMoves
<1> QED
  BY <1>1, <1>2, <1>3 DEF Quiets

(* A call leaves the caller at such a line.                                  *)
LEMMA CallQuiets ==
  ASSUME TypeOK, NEW t \in Threads, stack[t] # <<>>, NEW l \in Labels, NEW n \in Nodes,
         NEW back \in Labels, back \notin {"gi_load", "answered"}, Call(t, l, n, back)
  PROVE  Quiets(t)
<1>1. stack \in [Threads -> Seq(FrameType)] /\ stack[t] # <<>>
  BY DEF TypeOK
<1>2. PICK f \in FrameType, g \in FrameType :
         /\ Pushes(stack[t], stack'[t], f, g)
         /\ f.at = back /\ f.node = Node(t) /\ f.since = Top(t).since /\ g.since = <<>>
  BY <1>1, CallPushes
<1>3. OfThread(t)
  BY <1>1, CallPushes
<1> QED
  BY <1>1, <1>2, <1>3 DEF Quiets

(* A return leaves the levels below.                                         *)
LEMMA ReturnQuiets ==
  ASSUME TypeOK, NEW t \in Threads, stack[t] # <<>>, Return(t)
  PROVE  Quiets(t)
  BY ReturnPops DEF Quiets, TypeOK

(* Installing a table is quiet in that sense.                                *)
LEMMA InstallQuiets ==
  ASSUME TypeOK, NEW t \in Threads, Install(t)
  PROVE  Quiets(t)
<1>1. stack[t] # <<>>
  BY DEF Install, InstallSuper, InstallCheck, InstallPrepare, InstallInitialize,
     InstallPrepared, At
<1>2. /\ Node(t) \in Nodes /\ ClassOf[Node(t)] \in Nodes
      /\ Above(t) \in Nodes \cup {NoNode}
  BY <1>1, TopTyped
<1>3. \/ Goto(t, "in_prepared") \/ Return(t)
      \/ Above(t) # NoNode /\ Call(t, "in_super", Above(t), "in_check")
      \/ Call(t, "pr_start", Node(t), "in_init")
      \/ Call(t, "si_test", ClassOf[Node(t)], "in_install")
  BY DEF Install, InstallSuper, InstallCheck, InstallPrepare, InstallInitialize,
     InstallPrepared
<1>4. \A l \in {"in_prepared", "in_super", "in_check", "in_init", "in_install", "pr_start",
                "si_test"} : l \in Labels /\ l \notin {"gi_load", "answered"}
  BY DEF Labels, Inner, Installing, Preparing, Sending
<1> QED
  BY <1>1, <1>2, <1>3, <1>4, GotoQuiets, CallQuiets, ReturnQuiets

(* So is preparing one.                                                      *)
LEMMA PrepareQuiets ==
  ASSUME TypeOK, NEW t \in Threads, Prepare(t)
  PROVE  Quiets(t)
<1>1. stack[t] # <<>>
  BY DEF Prepare, PrepareStart, PrepareSuper, PrepareCopy, At
<1>2. Above(t) \in Nodes \cup {NoNode}
  BY <1>1, TopTyped
<1>3. \/ Goto(t, "pr_super") \/ Goto(t, "pr_copy") \/ Return(t)
      \/ Above(t) # NoNode /\ Call(t, "in_super", Above(t), "pr_copy")
  BY DEF Prepare, PrepareStart, PrepareSuper, PrepareCopy
<1>4. \A l \in {"pr_super", "pr_copy", "in_super"} :
         l \in Labels /\ l \notin {"gi_load", "answered"}
  BY DEF Labels, Inner, Installing, Preparing
<1> QED
  BY <1>1, <1>2, <1>3, <1>4, GotoQuiets, CallQuiets, ReturnQuiets

(* So is sending +initialize.                                                *)
LEMMA SendQuiets ==
  ASSUME TypeOK, NEW t \in Threads, SendInitialize(t)
  PROVE  Quiets(t)
<1>1. stack[t] # <<>>
  BY DEF SendInitialize, InitializeTest, InitializeSet, InitializeRegister, InitializeSend,
     InitializeDone, At
<1>2. Above(t) \in Nodes \cup {NoNode}
  BY <1>1, TopTyped
<1>3. \/ \E l \in {"si_set", "si_register", "si_send", "si_body"} : Goto(t, l)
      \/ Return(t)
      \/ Above(t) # NoNode /\ Call(t, "si_test", Above(t), "si_register")
  BY DEF SendInitialize, InitializeTest, InitializeSet, InitializeRegister, InitializeSend,
     InitializeDone
<1>4. \A l \in Sending : l \in Labels /\ l \notin {"gi_load", "answered"}
  BY DEF Labels, Inner, Sending
<1>5. \A l \in {"si_set", "si_register", "si_send", "si_body", "si_test"} : l \in Sending
  BY DEF Sending
<1> QED
  BY <1>1, <1>2, <1>3, <1>4, <1>5, GotoQuiets, CallQuiets, ReturnQuiets

(* A call of an update that leaves other classes to do.                      *)
LEMMA RestQuiets ==
  ASSUME TypeOK, NEW t \in Threads, stack[t] # <<>>, NEW l \in Labels, NEW n \in Nodes,
         NEW rest \in SUBSET Nodes, NEW f, f = [Top(t) EXCEPT !.at = "up_subs", !.rest = rest],
         stack' = [stack EXCEPT ![t] = <<Frame(l, n), f>> \o Tail(@)],
         <<Top(t).at, "up_subs", l>> \in Calling, Keeps(t)
  PROVE  Quiets(t)
<1>1. /\ OfThread(t) /\ f \in FrameType
      /\ Pushes(stack[t], stack'[t], f, Frame(l, n))
  BY UpdatePushes
<1>2. Top(t) \in FrameType
  BY TopTyped
<1>3. f.at = "up_subs" /\ f.node = Node(t) /\ f.since = Top(t).since
  BY <1>2, FrameChanged DEF Node
<1>4. Frame(l, n) \in FrameType /\ Frame(l, n).since = <<>>
  BY FrameTyped
<1> QED
  BY <1>1, <1>3, <1>4 DEF Quiets

(* So is an update.                                                          *)
LEMMA UpdateQuiets ==
  ASSUME TypeOK, NEW t \in Threads, Update(t)
  PROVE  Quiets(t)
<1>1. stack[t] # <<>>
  BY DEF Update, LinkMethods, UpdateLock, UpdatePrepared, UpdateInstalled, UpdateSubclass,
     UpdateUnlock, At
<1>2. Node(t) \in Nodes /\ Top(t) \in FrameType
  BY <1>1, TopTyped
<1>3. \A l \in {"up_lock", "up_test", "up_unlock", "pr_start"} :
         l \in Labels /\ l \notin {"gi_load", "answered"}
  BY DEF Labels, Linking, Locked, Inner, Preparing
<1>4. CASE \/ \E l \in {"up_lock", "up_test", "up_unlock"} : Goto(t, l)
           \/ Return(t) \/ Call(t, "pr_start", Node(t), "up_unlock")
  BY <1>1, <1>2, <1>3, <1>4, GotoQuiets, CallQuiets, ReturnQuiets
<1>5. CASE UpdateInstalled(t)
  <2> PICK rest : rest = {m \in Nodes : Super[m] = Node(t)}
    OBVIOUS
  <2> PICK f : f = [Top(t) EXCEPT !.at = "up_subs", !.rest = rest]
    OBVIOUS
  <2>1. /\ Top(t).at = "up_test" /\ Keeps(t)
        /\ stack' = [stack EXCEPT ![t] = <<Frame("in_super", Node(t)), f>> \o Tail(@)]
    BY <1>5 DEF UpdateInstalled, MayDiscard, Keeps, At
  <2>2. <<"up_test", "up_subs", "in_super">> \in Calling /\ "in_super" \in Labels
    BY DEF Calling, Installing, Inner, Labels
  <2>3. rest \subseteq Nodes
    OBVIOUS
  <2> QED
    BY <1>1, <1>2, <2>1, <2>2, <2>3, RestQuiets
<1>6. CASE UpdateSubclass(t)
  <2>1. PICK m \in Top(t).rest :
          stack' = [stack EXCEPT ![t] =
              <<Frame("up_lock", m), [Top(t) EXCEPT !.rest = @ \ {m}]>> \o Tail(@)]
    BY <1>6 DEF UpdateSubclass
  <2> PICK rest : rest = Top(t).rest \ {m}
    OBVIOUS
  <2> PICK f : f = [Top(t) EXCEPT !.at = "up_subs", !.rest = rest]
    OBVIOUS
  <2>2. Top(t).at = "up_subs" /\ Keeps(t)
    BY <1>6 DEF UpdateSubclass, Keeps, At
  <2>3. rest \subseteq Nodes /\ m \in Nodes /\ f = [Top(t) EXCEPT !.rest = @ \ {m}]
    BY <1>2, <2>2 DEF FrameType
  <2>4. <<"up_subs", "up_subs", "up_lock">> \in Calling /\ "up_lock" \in Labels
    BY DEF Calling, Linking, Labels
  <2>5. stack' = [stack EXCEPT ![t] = <<Frame("up_lock", m), f>> \o Tail(@)]
    BY <2>1, <2>3
  <2> QED
    BY <1>1, <2>2, <2>3, <2>4, <2>5, RestQuiets
<1> QED
  BY <1>4, <1>5, <1>6 DEF Update, LinkMethods, UpdateLock, UpdatePrepared, UpdateUnlock

(* The steps of a lookup that neither load nor find.                         *)
LookQuietly(t) ==
    \/ \E l \in {"gi_read", "gi_lock", "rt_lock", "gi_test", "rt_test"} : Goto(t, l)
    \/ \E back \in {"gi_after", "rt_after"} : Call(t, "in_super", Node(t), back)
    \/ Return(t)

(* Those are quiet.                                                          *)
LEMMA LookQuiets ==
  ASSUME TypeOK, NEW t \in Threads, stack[t] # <<>>, LookQuietly(t)
  PROVE  Quiets(t)
<1>1. Node(t) \in Nodes
  BY TopTyped
<1>2. \A l \in {"gi_read", "gi_lock", "rt_lock", "gi_test", "rt_test", "gi_after", "rt_after",
                "in_super"} : l \in Labels /\ l \notin {"gi_load", "answered"}
  BY DEF Labels, Looking, Locked, Inner, Installing
<1> QED
  BY <1>1, <1>2, GotoQuiets, CallQuiets, ReturnQuiets DEF LookQuietly

(* The lists that lookups remember are those they remembered before, or the  *)
(* lists there are when one begins.                                          *)
Carried(t) ==
    /\ OfThread(t)
    /\ \A k \in Levels(stack'[t]) :
          LET l == Level(stack'[t], k).since
          IN  \/ l = <<>>
              \/ \E j \in Levels(stack[t]) : Level(stack[t], j).since = l
              \/ l = own' /\ ~Updating

(* Steps that keep what the highest level remembers.                         *)
LEMMA MovesCarry ==
  ASSUME TypeOK, NEW t \in Threads, stack[t] # <<>>, OfThread(t), NEW f, NEW g,
         f.since = Top(t).since,
         \/ Moves(stack[t], stack'[t], f)
         \/ Pushes(stack[t], stack'[t], f, g) /\ g.since = <<>>
         \/ Pops(stack[t], stack'[t])
  PROVE  Carried(t)
<1> PICK s : s = stack[t]
  OBVIOUS
<1> PICK r : r = stack'[t]
  OBVIOUS
<1>1. Len(s) \in Nat /\ Len(s) > 0 /\ Top(t) = Level(s, Len(s))
  BY TopTyped, HeadIs DEF TypeOK
<1>2. ASSUME NEW k \in Levels(r)
      PROVE  Level(r, k).since = <<>> \/ \E j \in Levels(s) : Level(s, j).since = Level(r, k).since
  <2>1. k \in 1..Len(r)
    BY DEF Levels
  <2>2. CASE k < Len(s)
    <3>1. k \in 1..(Len(s) - 1) /\ k \in 1..Len(s)
      BY <1>1, <2>1, <2>2 DEF Moves, Pushes, Pops
    <3>2. Level(r, k) = Level(s, k)
      BY <3>1 DEF Moves, Pushes, Pops
    <3> QED
      BY <3>1, <3>2 DEF Levels
  <2>3. CASE k = Len(s)
    <3>1. ~Pops(s, r)
      BY <1>1, <2>1, <2>3 DEF Pops
    <3>2. Level(r, k) = f
      BY <2>3, <3>1 DEF Moves, Pushes
    <3>3. Len(s) \in Levels(s)
      BY <1>1 DEF Levels
    <3> QED
      BY <1>1, <3>2, <3>3
  <2>4. CASE k > Len(s)
    <3>1. k = Len(s) + 1 /\ ~Pops(s, r) /\ ~Moves(s, r, f)
      BY <1>1, <2>1, <2>4 DEF Moves, Pushes, Pops
    <3> QED
      BY <3>1 DEF Pushes
  <2> QED
    BY <1>1, <2>1, <2>2, <2>3, <2>4
<1> QED
  BY <1>2 DEF Carried

(* Quiet steps do.                                                           *)
LEMMA QuietsCarry ==
  ASSUME TypeOK, NEW t \in Threads, Quiets(t)
  PROVE  Carried(t)
<1> PICK s : s = stack[t]
  OBVIOUS
<1> PICK r : r = stack'[t]
  OBVIOUS
<1>1. s # <<>> /\ OfThread(t)
  BY DEF Quiets
<1>2. CASE \E f \in FrameType : Moves(s, r, f) /\ f.since = Top(t).since
  BY <1>1, <1>2, MovesCarry
<1>3. CASE \E f, g \in FrameType : /\ Pushes(s, r, f, g) /\ f.since = Top(t).since
                                   /\ g.since = <<>>
  BY <1>1, <1>3, MovesCarry
<1>4. CASE Pops(s, r)
  <2>1. PICK f : f = Top(t)
    OBVIOUS
  <2> QED
    BY <1>1, <1>4, <2>1, MovesCarry
<1> QED
  BY <1>2, <1>3, <1>4 DEF Quiets

(* What a lookup may answer with.                                            *)
MayAnswer(imp, l, n) == AsNewAs(imp, SearchIn(l)[n]) \/ (imp = NoImp /\ own # l)

(* A lookup that finds what it may.                                          *)
LEMMA FindSees ==
  ASSUME TypeOK, SeeInv, NEW t \in Threads, stack[t] # <<>>,
         NEW imp \in Tables \cup {Uninstalled}, Found(t, imp),
         UNCHANGED <<dtable, prepared, own>>,
         Top(t).since # <<>> => MayAnswer(imp, Top(t).since, Node(t))
  PROVE  SeeInv' /\ Carried(t)
<1>1. stack \in [Threads -> Seq(FrameType)] /\ stack[t] # <<>>
  BY DEF TypeOK
<1>2. PICK f \in FrameType : /\ Moves(stack[t], stack'[t], f)
                             /\ f.at = "answered" /\ f.node = Node(t)
                             /\ f.since = Top(t).since /\ f.got = imp
  BY <1>1, FoundMoves
<1>3. OfThread(t)
  BY <1>1, FoundMoves
<1>4. Carried(t)
  BY <1>2, <1>3, MovesCarry
<1>5. Top(t) = Level(stack[t], Len(stack[t])) /\ Len(stack[t]) \in Levels(stack[t])
      /\ Node(t) = Top(t).node
  BY TopTyped, HeadIs DEF TypeOK, Levels, Node
<1>6. Sees(dtable, prepared, own, Top(t))
  BY <1>5 DEF SeeInv
<1>7. Sees(dtable, prepared, own, f)
  BY <1>2, <1>5, <1>6 DEF Sees, MayAnswer
<1>8. \A u \in Threads : \A k \in Levels(stack[u]) :
         Sees(dtable', prepared', own', Level(stack[u], k))
  BY DEF SeeInv
<1> QED
  BY <1>2, <1>3, <1>4, <1>7, <1>8, SeeBy

(* In the table of its class it does.                                        *)
LEMMA OwnMayAnswer ==
  ASSUME TypeOK, SeeInv, NEW t \in Threads, stack[t] # <<>>, Top(t).since # <<>>,
         Has(dtable, prepared, Node(t))
  PROVE  MayAnswer(TableIn(dtable, prepared, Node(t)), Top(t).since, Node(t))
<1>1. Top(t) = Level(stack[t], Len(stack[t])) /\ Len(stack[t]) \in Levels(stack[t])
      /\ Node(t) = Top(t).node /\ Top(t) \in FrameType
  BY TopTyped, HeadIs DEF TypeOK, Levels, Node
<1>2. Sees(dtable, prepared, own, Top(t))
  BY <1>1 DEF SeeInv
<1> QED
  BY <1>1, <1>2, SeesOwn DEF MayAnswer

(* The steps of get_implementation and responds_to.                          *)
LEMMA LookSees ==
  ASSUME TypeOK, SeeInv, NEW t \in Threads, Lookup(t), aborted' = 0
  PROVE  SeeInv' /\ Carried(t)
<1> PICK n0 : n0 = Node(t)
  OBVIOUS
<1>1. stack[t] # <<>> /\ UNCHANGED <<dtable, prepared, own>>
  BY DEF Lookup, LookFast, LookInstalled, LookLoad, RespondsInstalled, LookUninstalled,
     LookLocked, FirstMessage, LookAgain, LookPrepared, Answer, At, tables, classes
<1>2. /\ Top(t) = Level(stack[t], Len(stack[t])) /\ Len(stack[t]) \in Levels(stack[t])
      /\ n0 = Top(t).node /\ n0 \in Nodes
  BY <1>1, TopTyped, HeadIs DEF TypeOK, Levels, Node
<1>3. Sees(dtable, prepared, own, Top(t))
  BY <1>2 DEF SeeInv
<1>4. \A u \in Threads : \A k \in Levels(stack[u]) :
         Sees(dtable', prepared', own', Level(stack[u], k))
  BY <1>1 DEF SeeInv
<1>5. CASE LookQuietly(t)
  <2>1. Quiets(t)
    BY <1>1, <1>5, LookQuiets
  <2> QED
    BY <1>4, <2>1, SeeQuiet, QuietsCarry
<1>6. CASE /\ dtable[n0] # Uninstalled
           /\ Found(t, dtable[n0])
  <2>1. dtable[n0] \in Tables \cup {Uninstalled}
    BY <1>2 DEF TypeOK
  <2>2. Has(dtable, prepared, n0) /\ TableIn(dtable, prepared, n0) = dtable[n0]
    BY <1>6 DEF Has, TableIn
  <2>3. Top(t).since # <<>> => MayAnswer(dtable[n0], Top(t).since, n0)
    BY <1>1, <2>2, OwnMayAnswer
  <2> QED
    BY <1>1, <1>6, <2>1, <2>3, FindSees
<1>7. CASE At(t, "gi_load") /\ dtable[n0] = Uninstalled /\ Found(t, NoImp)
  <2>1. NoImp \in Tables
    BY DEF NoImp, Tables
  <2>2. Top(t).since # <<>> => own # Top(t).since
    BY <1>2, <1>3, <1>7 DEF Sees, At
  <2> QED
    BY <1>1, <1>7, <2>1, <2>2, FindSees DEF MayAnswer
<1>8. CASE dtable[n0] # Uninstalled /\ Goto(t, "gi_load")
  <2>1. "gi_load" \in Labels
    BY DEF Labels, Looking
  <2>2. stack \in [Threads -> Seq(FrameType)]
    BY DEF TypeOK
  <2>3. PICK f \in FrameType : /\ Moves(stack[t], stack'[t], f) /\ f.at = "gi_load"
                               /\ f.node = n0 /\ f.since = Top(t).since
    BY <1>1, <1>8, <2>1, <2>2, GotoMoves
  <2>4. OfThread(t)
    BY <1>1, <1>8, <2>1, <2>2, GotoMoves
  <2>5. Sees(dtable', prepared', own', f)
    BY <1>1, <1>2, <1>3, <1>8, <2>3 DEF Sees
  <2>6. Carried(t)
    BY <1>1, <2>3, <2>4, MovesCarry
  <2> QED
    BY <1>4, <2>3, <2>4, <2>5, <2>6, SeeBy
<1>9. CASE dtable[n0] = Uninstalled /\ prepared[n0] # <<>> /\ Found(t, Head(prepared[n0]))
  <2>1. Head(prepared[n0]) \in Tables
    BY <1>2, <1>9 DEF TypeOK
  <2>2. Has(dtable, prepared, n0) /\ TableIn(dtable, prepared, n0) = Head(prepared[n0])
    BY <1>9 DEF Has, TableIn
  <2>3. Top(t).since # <<>> => MayAnswer(Head(prepared[n0]), Top(t).since, n0)
    BY <1>1, <2>2, OwnMayAnswer
  <2> QED
    BY <1>1, <1>9, <2>1, <2>3, FindSees
<1>10. \/ LookQuietly(t)
       \/ dtable[n0] # Uninstalled /\ Found(t, dtable[n0])
       \/ At(t, "gi_load") /\ dtable[n0] = Uninstalled /\ Found(t, NoImp)
       \/ dtable[n0] # Uninstalled /\ Goto(t, "gi_load")
       \/ dtable[n0] = Uninstalled /\ prepared[n0] # <<>> /\ Found(t, Head(prepared[n0]))
  <2>1. CASE LookFast(t) \/ LookInstalled(t) \/ LookLoad(t) \/ RespondsInstalled(t)
    BY <2>1 DEF LookFast, LookInstalled, LookLoad, RespondsInstalled, LookQuietly, Installed
  <2>2. CASE LookUninstalled(t) \/ LookLocked(t) \/ FirstMessage(t) \/ LookAgain(t) \/ Answer(t)
    BY <2>2 DEF LookUninstalled, LookLocked, FirstMessage, LookAgain, Answer, LookQuietly,
       Installed
  <2>3. CASE LookPrepared(t)
    BY <2>3 DEF LookPrepared, LookQuietly, Installed, Prepared, Assert
  <2> QED
    BY <2>1, <2>2, <2>3 DEF Lookup
<1> QED
  BY <1>5, <1>6, <1>7, <1>8, <1>9, <1>10

(* A call of the program's: a lookup sees what a search finds as it begins.  *)
LEMMA CallSees ==
  ASSUME TypeOK, AgreeInv, SeeInv, NEW t \in Threads, AnyCall(t)
  PROVE  SeeInv' /\ Carried(t)
<1>1. PICK n \in Nodes : \/ \E l \in {"gi_fast", "rt_read"} : Enter(t, LookupFrame(l, n))
                         \/ Enter(t, Frame("am_link", n))
  BY DEF AnyCall, Message, RespondsTo, AddMethods
<1>2. UNCHANGED <<dtable, prepared, own>>
  BY DEF AnyCall, Message, RespondsTo, AddMethods, tables, classes
<1>3. "gi_fast" \in Labels /\ "rt_read" \in Labels /\ "am_link" \in Labels
  BY DEF Labels, Looking, Linking
<1>4. \A u \in Threads : \A k \in Levels(stack[u]) :
         Sees(dtable', prepared', own', Level(stack[u], k))
  BY <1>2 DEF SeeInv
<1>5. PICK g \in FrameType : /\ Enter(t, g) /\ Sees(dtable, prepared, own, g)
                             /\ g.since = <<>> \/ (g.since = own /\ ~Updating)
  <2>1. CASE \E l \in {"gi_fast", "rt_read"} : Enter(t, LookupFrame(l, n))
    <3>1. PICK l \in {"gi_fast", "rt_read"} : Enter(t, LookupFrame(l, n))
      BY <2>1
    <3>2. PICK g : g = LookupFrame(l, n)
      OBVIOUS
    <3>3. l \in Labels
      BY <1>3
    <3>4. g \in FrameType /\ g.since = IF Updating \/ ~Rebuilt(n) THEN <<>> ELSE own
      BY <3>2, <3>3 DEF LookupFrame, Frame, FrameType, TypeOK, Uninstalled
    <3>5. Sees(dtable, prepared, own, g)
      BY <3>2, SeesNew
    <3> QED
      BY <3>1, <3>2, <3>4, <3>5
  <2>2. CASE Enter(t, Frame("am_link", n))
    <3>1. Frame("am_link", n) \in FrameType /\ Frame("am_link", n).since = <<>>
      BY <1>3, FrameTyped
    <3> QED
      BY <2>2, <3>1 DEF Sees
  <2> QED
    BY <1>1, <2>1, <2>2
<1>6. OfThread(t) /\ Enters(stack[t], stack'[t], g)
  BY <1>5, EnterEnters DEF TypeOK
<1>7. SeeInv'
  BY <1>2, <1>4, <1>5, <1>6, SeeBy
<1>8. ASSUME NEW k \in Levels(stack'[t])
      PROVE  \/ Level(stack'[t], k).since = <<>>
             \/ \E j \in Levels(stack[t]) : Level(stack[t], j).since = Level(stack'[t], k).since
             \/ Level(stack'[t], k).since = own' /\ ~Updating
  <2>1. k \in 1..(Len(stack[t]) + 1) /\ Len(stack[t]) \in Nat
    BY <1>6 DEF Enters, Levels, TypeOK
  <2>2. CASE k \in 1..Len(stack[t])
    BY <1>6, <2>2 DEF Enters, Levels
  <2>3. CASE k = Len(stack[t]) + 1
    BY <1>2, <1>5, <1>6, <2>3 DEF Enters
  <2> QED
    BY <2>1, <2>2, <2>3
<1> QED
  BY <1>6, <1>7, <1>8 DEF Carried

(* What all lookups see after a step of a thread that neither loads nor      *)
(* finds, they see when they see it with the frames they had.                *)
LEMMA QuietSees ==
  ASSUME TypeOK, SeeInv, NEW t \in Threads, Quiets(t),
         \A f \in FrameType : Sees(dtable, prepared, own, f)
                              /\ (\E u \in Threads : \E k \in Levels(stack[u]) :
                                     f = Level(stack[u], k))
                              => Sees(dtable', prepared', own', f)
  PROVE  SeeInv' /\ Carried(t)
<1>1. \A u \in Threads : \A k \in Levels(stack[u]) :
         /\ Level(stack[u], k) \in FrameType
         /\ Sees(dtable, prepared, own, Level(stack[u], k))
  BY LevelTyped DEF TypeOK, SeeInv
<1>2. \A u \in Threads : \A k \in Levels(stack[u]) :
         Sees(dtable', prepared', own', Level(stack[u], k))
  BY <1>1
<1> QED
  BY <1>2, SeeQuiet, QuietsCarry

(* What is installed was prepared.                                           *)
LEMMA InstallSees ==
  ASSUME TypeOK, TablesInv, SeeInv, NEW t \in Threads, Install(t), mutex' = mutex,
         aborted' = 0
  PROVE  SeeInv' /\ Carried(t)
<1>1. Quiets(t)
  BY InstallQuiets
<1>2. CASE UNCHANGED <<dtable, prepared, own>>
  BY <1>1, <1>2, QuietSees
<1>3. CASE InstallPrepared(t)
  <2>1. \A n \in Nodes : /\ Has(dtable', prepared', n) <=> Has(dtable, prepared, n)
                         /\ TableIn(dtable', prepared', n) = TableIn(dtable, prepared, n)
                         /\ dtable[n] # Uninstalled => dtable'[n] # Uninstalled
    BY <1>3, InstallKeeps
  <2>2. own' = own
    BY <1>3 DEF InstallPrepared, classes
  <2>3. ASSUME NEW f \in FrameType, Sees(dtable, prepared, own, f)
        PROVE  Sees(dtable', prepared', own', f)
    <3>1. f.node \in Nodes
      BY DEF FrameType
    <3> QED
      BY <2>1, <2>2, <2>3, <3>1, SeesFewer
  <2> QED
    BY <1>1, <2>3, QuietSees
<1> QED
  BY <1>2, <1>3 DEF Install, InstallSuper, InstallCheck, InstallPrepare, InstallInitialize,
     tables, classes

(* A table that is prepared takes the place of none that is installed.       *)
LEMMA PrepareSees ==
  ASSUME TypeOK, TablesInv, SeeInv, NEW t \in Threads, Prepare(t), mutex' = mutex
  PROVE  SeeInv' /\ Carried(t)
<1>1. Quiets(t)
  BY PrepareQuiets
<1> PICK n0 : n0 = Node(t)
  OBVIOUS
<1>2. CASE PrepareSuper(t)
  <2>1. UNCHANGED <<dtable, prepared, own>>
    BY <1>2 DEF PrepareSuper, tables, classes
  <2> QED
    BY <1>1, <2>1, QuietSees
<1>3. CASE PrepareStart(t)
  <2>1. /\ n0 \in Nodes /\ dtable' = dtable /\ ~Has(dtable', prepared', n0)
        /\ \A n \in Nodes \ {n0} :
              /\ Has(dtable', prepared', n) <=> Has(dtable, prepared, n)
              /\ TableIn(dtable', prepared', n) = TableIn(dtable, prepared, n)
    BY <1>3, StartKeeps
  <2>2. own' = own
    BY <1>3 DEF PrepareStart, classes
  <2>3. \A m \in Nodes : Has(dtable', prepared', m) =>
           /\ Has(dtable, prepared, m)
           /\ TableIn(dtable', prepared', m) = TableIn(dtable, prepared, m)
    BY <2>1
  <2>4. ASSUME NEW f \in FrameType, Sees(dtable, prepared, own, f)
        PROVE  Sees(dtable', prepared', own', f)
    BY <2>1, <2>2, <2>3, <2>4, SeesFewer
  <2> QED
    BY <1>1, <2>4, QuietSees
<1>4. CASE PrepareCopy(t)
  <2>1. /\ n0 \in Nodes /\ dtable' = dtable /\ own' = own /\ ~Has(dtable, prepared, n0)
        /\ AgreesIn(dtable', prepared', own, n0)
        /\ \A n \in Nodes \ {n0} :
              /\ Has(dtable', prepared', n) <=> Has(dtable, prepared, n)
              /\ TableIn(dtable', prepared', n) = TableIn(dtable, prepared, n)
    BY <1>4, CopyMakes
  <2>2. own \in [Nodes -> Nat]
    BY DEF TypeOK
  <2>3. ASSUME NEW f \in FrameType, Sees(dtable, prepared, own, f)
        PROVE  Sees(dtable', prepared', own', f)
    BY <2>1, <2>2, <2>3, SeesCopy
  <2> QED
    BY <1>1, <2>3, QuietSees
<1> QED
  BY <1>2, <1>3, <1>4 DEF Prepare

(* While a table is installed anew there is a list more than lookups, which  *)
(* may find it taken away, remember.                                         *)
LEMMA UpdateSees ==
  ASSUME TypeOK, TablesInv, SeeInv, MoreInv, NEW t \in Threads, Update(t), mutex' = mutex
  PROVE  SeeInv' /\ Carried(t)
<1>1. Quiets(t)
  BY UpdateQuiets
<1> PICK n0 : n0 = Node(t)
  OBVIOUS
<1>2. CASE UNCHANGED <<dtable, prepared, own>>
  BY <1>1, <1>2, QuietSees
<1>3. CASE LinkMethods(t)
  <2>1. stack[t] # <<>> /\ dtable' = dtable /\ prepared' = prepared
        /\ own' = [own EXCEPT ![n0] = @ + 1]
    BY <1>3 DEF LinkMethods, At, tables
  <2>2. n0 \in Nodes
    BY <2>1, TopTyped
  <2>3. own \in [Nodes -> Nat] /\ own' \in [Nodes -> Nat] /\ \A n \in Nodes : own[n] <= own'[n]
    BY <2>1, <2>2 DEF TypeOK
  <2>4. ASSUME NEW f \in FrameType, Sees(dtable, prepared, own, f)
        PROVE  Sees(dtable', prepared', own', f)
    BY <2>1, <2>3, <2>4, SeesMore
  <2> QED
    BY <1>1, <2>4, QuietSees
<1>4. CASE UpdateInstalled(t)
  <2>1. /\ n0 \in Nodes /\ ~Has(dtable', prepared', n0)
        /\ \A n \in Nodes \ {n0} :
              /\ Has(dtable', prepared', n) <=> Has(dtable, prepared, n)
              /\ TableIn(dtable', prepared', n) = TableIn(dtable, prepared, n)
    BY <1>4, AnewKeeps
  <2>2. own' = own /\ stack[t] # <<>> /\ Top(t).at \in PastLink
    BY <1>4 DEF UpdateInstalled, classes, At, PastLink
  <2>3. \A m \in Nodes : Has(dtable', prepared', m) =>
           /\ Has(dtable, prepared, m)
           /\ TableIn(dtable', prepared', m) = TableIn(dtable, prepared, m)
    BY <2>1
  <2>4. Top(t) = Level(stack[t], Len(stack[t])) /\ Len(stack[t]) \in Levels(stack[t])
    BY <2>2, TopTyped, HeadIs DEF TypeOK, Levels
  <2>5. ASSUME NEW f \in FrameType, Sees(dtable, prepared, own, f),
               NEW u \in Threads, NEW k \in Levels(stack[u]), f = Level(stack[u], k)
        PROVE  Sees(dtable', prepared', own', f)
    <3>1. f.since # <<>> => own # f.since
      BY <2>2, <2>4, <2>5 DEF MoreInv
    <3> QED
      BY <2>2, <2>3, <2>5, <3>1, SeesFewer
  <2> QED
    BY <1>1, <2>5, QuietSees
<1> QED
  BY <1>2, <1>3, <1>4 DEF Update, UpdateLock, UpdatePrepared, UpdateSubclass, UpdateUnlock,
     tables, classes

(* +initialize is sent without a look at the tables.                         *)
LEMMA SendSees ==
  ASSUME TypeOK, SeeInv, NEW t \in Threads, SendInitialize(t)
  PROVE  SeeInv' /\ Carried(t)
<1>1. UNCHANGED <<dtable, prepared, own>>
  BY DEF SendInitialize, InitializeTest, InitializeSet, InitializeRegister, InitializeSend,
     InitializeDone, tables, classes
<1> QED
  BY <1>1, SendQuiets, QuietSees

(* An update that is past the linking of its list was, or links it now.      *)
LEMMA PastLinkWas ==
  ASSUME TypeOK, NEW t \in Threads, Abstractly(t), NEW k \in Levels(stack'[t]),
         Level(stack'[t], k).at \in PastLink
  PROVE  \/ \E j \in Levels(stack[t]) : Level(stack[t], j).at \in PastLink
         \/ At(t, "am_link")
<1> PICK s : s = stack[t]
  OBVIOUS
<1> PICK r : r = stack'[t]
  OBVIOUS
<1>1. s # <<>> => Len(s) \in Levels(s) /\ Top(t) = Level(s, Len(s))
  BY TopTyped, HeadIs DEF TypeOK, Levels
<1>2. \A a, b : NextLine(a, b) /\ b \in PastLink => a \in PastLink \cup {"am_link"}
  BY DEF NextLine, Going, Taking, Giving, Calling, PastLink
<1>3. CASE k \in Levels(s) /\ Level(r, k) = Level(s, k)
  BY <1>3
<1>4. CASE /\ k \in Levels(s) /\ k = Len(s)
           /\ NextLine(Level(s, k).at, Level(r, k).at)
  <2>1. s # <<>>
    BY <1>4 DEF Levels
  <2>2. Top(t).at \in PastLink \cup {"am_link"}
    BY <1>1, <1>2, <1>4, <2>1
  <2> QED
    BY <1>1, <2>1, <2>2 DEF At
<1>5. CASE k = Len(s) + 1 /\ Level(r, k).at \in FirstLines
  <2>1. Level(r, k).at = "up_lock"
    BY <1>5 DEF FirstLines, PastLink
  <2>2. Len(s) \in Nat
    BY DEF TypeOK
  <2>3. Len(r) >= Len(s) + 1
    BY <1>5, <2>2 DEF Levels
  <2>4. ~Pops(s, r) /\ \A f : ~Moves(s, r, f)
    BY <2>2, <2>3 DEF Pops, Moves
  <2>5. \A g : Enters(s, r, g) /\ g.at \in {"gi_fast", "rt_read", "am_link"} => FALSE
    BY <1>5, <2>1 DEF Enters
  <2>6. PICK f, g : s # <<>> /\ Pushes(s, r, f, g) /\ <<Top(t).at, f.at, g.at>> \in Calling
    BY <2>4, <2>5 DEF Abstractly, StackStep
  <2>7. g.at = "up_lock"
    BY <1>5, <2>1, <2>6 DEF Pushes
  <2>8. Top(t).at = "up_subs"
    BY <2>6, <2>7 DEF Calling
  <2> QED
    BY <1>1, <2>6, <2>8 DEF PastLink
<1> QED
  BY <1>3, <1>4, <1>5, LevelsAre

(* The levels of other threads are what they were.                           *)
LEMMA MoreStep ==
  ASSUME TypeOK, SeeInv, MoreInv, NEW t \in Threads, Abstractly(t), Carried(t),
         own' = own \/ LinkMethods(t), ~At(t, "am_link") \/ LinkMethods(t)
  PROVE  MoreInv'
<1> SUFFICES ASSUME NEW u \in Threads, NEW v \in Threads,
                    NEW k \in Levels(stack'[u]), NEW j \in Levels(stack'[v]),
                    Level(stack'[u], k).at \in PastLink, Level(stack'[v], j).since # <<>>
             PROVE  own' # Level(stack'[v], j).since
  BY DEF MoreInv
<1> PICK l : l = Level(stack'[v], j).since
  OBVIOUS
<1>1. OfThread(t)
  BY DEF Abstractly
<1>2. \/ \E i \in Levels(stack[u]) : Level(stack[u], i).at \in PastLink
      \/ LinkMethods(t)
  BY <1>1, PastLinkWas DEF OfThread
<1>3. \/ \E i \in Levels(stack[v]) : Level(stack[v], i).since = l
      \/ l = own' /\ ~Updating
  BY <1>1 DEF OfThread, Carried
<1>4. ASSUME NEW w \in Threads, NEW i \in Levels(stack[w]),
             Level(stack[w], i).at \in PastLink \cup {"am_link"}
      PROVE  Updating
  <2>1. stack[w] \in Seq(FrameType) /\ Len(stack[w]) \in Nat
    BY DEF TypeOK
  <2>2. Len(stack[w]) + 1 - i \in 1..Len(stack[w])
    BY <2>1 DEF Levels
  <2>3. Level(stack[w], i) \in Frames(w)
    BY <2>2 DEF Frames, Level
  <2> QED
    BY <1>4, <2>3 DEF Updating, InCall, PastLink
<1>5. Updating
  <2>1. CASE \E i \in Levels(stack[u]) : Level(stack[u], i).at \in PastLink
    BY <1>4, <2>1
  <2>2. CASE LinkMethods(t)
    <3>1. stack[t] # <<>> /\ Top(t).at = "am_link"
      BY <2>2 DEF LinkMethods, At
    <3>2. Len(stack[t]) \in Levels(stack[t]) /\ Top(t) = Level(stack[t], Len(stack[t]))
      BY <3>1, TopTyped, HeadIs DEF TypeOK, Levels
    <3> QED
      BY <1>4, <3>1, <3>2
  <2> QED
    BY <1>2, <2>1, <2>2
<1>6. PICK i \in Levels(stack[v]) : Level(stack[v], i).since = l
  BY <1>3, <1>5
<1>7. l \in [Nodes -> Nat] /\ \A n \in Nodes : l[n] <= own[n]
  <2>1. Level(stack[v], i) \in FrameType
    BY LevelTyped DEF TypeOK
  <2>2. Sees(dtable, prepared, own, Level(stack[v], i))
    BY DEF SeeInv
  <2> QED
    BY <1>6, <2>1, <2>2 DEF FrameType, Sees
<1>8. CASE LinkMethods(t)
  <2>1. stack[t] # <<>> /\ own' = [own EXCEPT ![Node(t)] = @ + 1]
    BY <1>8 DEF LinkMethods, At
  <2>2. Node(t) \in Nodes
    BY <2>1, TopTyped
  <2>3. own[Node(t)] \in Nat /\ own'[Node(t)] = own[Node(t)] + 1 /\ l[Node(t)] \in Nat
        /\ l[Node(t)] <= own[Node(t)]
    BY <1>7, <2>1, <2>2 DEF TypeOK
  <2> QED
    BY <2>3
<1>9. CASE ~LinkMethods(t)
  BY <1>2, <1>6, <1>9 DEF MoreInv
<1> QED
  BY <1>8, <1>9

(* Tables that agree, and lookups that see.                                  *)
SeenInv == AgreeInv /\ SeeInv /\ MoreInv

(* Every step of a careful program keeps that.                               *)
LEMMA SeenStep ==
  ASSUME TypeOK, TablesInv, SeenInv, aborted' = 0, [CarefulNext]_vars
  PROVE  SeenInv'
<1> USE DEF SeenInv
<1>1. AgreeInv'
  BY AgreeStep
<1>2. ASSUME NEW t \in Threads, Abstractly(t), SeeInv', Carried(t),
             own' = own \/ LinkMethods(t), ~At(t, "am_link") \/ LinkMethods(t)
      PROVE  SeenInv'
  BY <1>1, <1>2, MoreStep
<1>3. CASE UNCHANGED vars
  <2>1. UNCHANGED <<stack, dtable, prepared, own>>
    BY <1>3 DEF vars, tables, classes
  <2> QED
    BY <1>1, <2>1 DEF SeeInv, MoreInv
<1>4. ASSUME NEW t \in Threads, CarefulCall(t) PROVE SeenInv'
  <2>1. AnyCall(t)
    BY <1>4 DEF CarefulCall, AnyCall
  <2>2. Abstractly(t) /\ SeeInv' /\ Carried(t)
    BY <2>1, CallAbstractly, CallSees
  <2>3. own' = own /\ ~At(t, "am_link")
    BY <2>1 DEF AnyCall, Message, RespondsTo, AddMethods, MayCall, At, classes
  <2> QED
    BY <1>2, <2>2, <2>3
<1>5. ASSUME NEW t \in Threads, Lookup(t), mutex' = mutex PROVE SeenInv'
  <2>1. Abstractly(t) /\ SeeInv' /\ Carried(t)
    BY <1>5, LookupAbstractly, LookSees
  <2>2. own' = own /\ ~At(t, "am_link")
    BY <1>5 DEF Lookup, LookFast, LookInstalled, LookLoad, RespondsInstalled, LookUninstalled,
       LookLocked, FirstMessage, LookAgain, LookPrepared, Answer, At, tables, classes
  <2> QED
    BY <1>2, <2>1, <2>2
<1>6. ASSUME NEW t \in Threads, Install(t), mutex' = mutex PROVE SeenInv'
  <2>1. Abstractly(t) /\ SeeInv' /\ Carried(t)
    BY <1>6, InstallAbstractly, InstallSees
  <2>2. own' = own /\ ~At(t, "am_link")
    BY <1>6 DEF Install, InstallSuper, InstallCheck, InstallPrepare, InstallInitialize,
       InstallPrepared, At, classes
  <2> QED
    BY <1>2, <2>1, <2>2
<1>7. ASSUME NEW t \in Threads, Prepare(t), mutex' = mutex PROVE SeenInv'
  <2>1. Abstractly(t) /\ SeeInv' /\ Carried(t)
    BY <1>7, PrepareAbstractly, PrepareSees
  <2>2. own' = own /\ ~At(t, "am_link")
    BY <1>7 DEF Prepare, PrepareStart, PrepareSuper, PrepareCopy, At, classes
  <2> QED
    BY <1>2, <2>1, <2>2
<1>8. ASSUME NEW t \in Threads, SendInitialize(t), mutex' = mutex PROVE SeenInv'
  <2>1. Abstractly(t) /\ SeeInv' /\ Carried(t)
    BY <1>8, SendAbstractly, SendSees
  <2>2. own' = own /\ ~At(t, "am_link")
    BY <1>8 DEF SendInitialize, InitializeTest, InitializeSet, InitializeRegister,
       InitializeSend, InitializeDone, At, classes
  <2> QED
    BY <1>2, <2>1, <2>2
<1>9. ASSUME NEW t \in Threads, Update(t), mutex' = mutex PROVE SeenInv'
  <2>1. Abstractly(t) /\ SeeInv' /\ Carried(t)
    BY <1>9, UpdateAbstractly, UpdateSees
  <2>2. (own' = own \/ LinkMethods(t)) /\ (~At(t, "am_link") \/ LinkMethods(t))
    BY <1>9 DEF Update, UpdateLock, UpdatePrepared, UpdateInstalled, UpdateSubclass,
       UpdateUnlock, At, classes
  <2> QED
    BY <1>2, <2>1, <2>2
<1>10. CASE CarefulNext
  <2>1. PICK t \in Threads : Step(t) \/ CarefulCall(t)
    BY <1>10 DEF CarefulNext
  <2> QED
    BY <1>4, <1>5, <1>6, <1>7, <1>8, <1>9, <2>1 DEF Step
<1> QED
  BY <1>3, <1>10

(* So whatever other threads update in the meantime, an answer is at least   *)
(* as new as the methods there were when the lookup began; only such an      *)
(* update makes the class forward a message that it understands.             *)
THEOREM LookupsStayCurrent == Serialized => (CarefulSpec => []LookupsSeeUpdates)
<1> DEFINE Inv == TypeOK /\ SerialInv /\ TablesInv /\ AssertionsHold /\ SeenInv
<1> SUFFICES ASSUME Serialized PROVE CarefulSpec => []LookupsSeeUpdates
  OBVIOUS
<1>1. Init => Inv
  <2>1. Init => SeenInv
    BY DEF Init, SeenInv, AgreeInv, SeeInv, MoreInv, Has, Levels
  <2> QED
    BY <2>1, TypeInit, SerialInit, TablesInit DEF Init, AssertionsHold
<1>2. Inv /\ [CarefulNext]_vars => Inv'
  <2> SUFFICES ASSUME Inv, [CarefulNext]_vars PROVE Inv'
    OBVIOUS
  <2>1. TypeOK' /\ SerialInv'
    BY CarefulIsNext, TypeStep, SerialStep
  <2>2. TablesInv' /\ aborted' = 0
    BY TablesStep DEF AssertionsHold
  <2>3. SeenInv'
    BY <2>2, SeenStep
  <2> QED
    BY <2>1, <2>2, <2>3 DEF AssertionsHold
<1>3. Inv => LookupsSeeUpdates
  <2> SUFFICES ASSUME Inv, NEW t \in Threads, At(t, "answered"), Top(t).since # <<>>
               PROVE  \/ AsNewAs(Top(t).got, SearchIn(Top(t).since)[Node(t)])
                      \/ Top(t).got = NoImp /\ own # Top(t).since
    BY DEF LookupsSeeUpdates
  <2>1. stack[t] # <<>> /\ Top(t).at = "answered"
    BY DEF At
  <2>2. Top(t) = Level(stack[t], Len(stack[t])) /\ Len(stack[t]) \in Levels(stack[t])
    BY <2>1, TopTyped, HeadIs DEF TypeOK, Levels
  <2>3. Sees(dtable, prepared, own, Top(t))
    BY <2>2 DEF SeenInv, SeeInv
  <2> QED
    BY <2>1, <2>3 DEF Sees, Node
<1> QED
  BY <1>1, <1>2, <1>3, PTL DEF CarefulSpec
=============================================================================
