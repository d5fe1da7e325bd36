------------------------------ MODULE ClassMap ------------------------------
(* What the class registry promises: a map from names to classes, to which   *)
(* names are added once.  A pose puts the impostor in the place of a class   *)
(* under each name that leads to it, one after the other.  A lookup answers  *)
(* with what the map holds at some moment between call and return.  A class  *)
(* stands for its name as well.                                              *)
CONSTANTS Threads, Classes, Nil

VARIABLES registry,     \* the class under each name, or Nil
          lookup        \* each thread's lookup: name and answer so far

vars == <<registry, lookup>>

Idle == <<>>
Asked(c) == <<c>>
Answered(c, found) == <<c, found>>

Init ==
    /\ registry \in [Classes -> Classes \cup {Nil}]
    /\ lookup = [t \in Threads |-> Idle]

Register(c) ==
    /\ registry[c] = Nil
    /\ registry' = [registry EXCEPT ![c] = c]
    /\ UNCHANGED lookup

Replace(c, impostor) ==
    /\ registry[c] # Nil
    /\ registry' = [registry EXCEPT ![c] = impostor]
    /\ UNCHANGED lookup

Ask(t, c) ==
    /\ lookup[t] = Idle
    /\ lookup' = [lookup EXCEPT ![t] = Asked(c)]
    /\ UNCHANGED registry

Answer(t, c) ==
    /\ lookup[t] = Asked(c)
    /\ lookup' = [lookup EXCEPT ![t] = Answered(c, registry[c])]
    /\ UNCHANGED registry

Return(t) ==
    /\ \E c \in Classes, found \in Classes \cup {Nil} : lookup[t] = Answered(c, found)
    /\ lookup' = [lookup EXCEPT ![t] = Idle]
    /\ UNCHANGED registry

Next ==
    \/ \E c \in Classes : Register(c) \/ \E i \in Classes : Replace(c, i)
    \/ \E t \in Threads : Return(t) \/ \E c \in Classes : Ask(t, c) \/ Answer(t, c)

Spec == Init /\ [][Next]_vars
=============================================================================
