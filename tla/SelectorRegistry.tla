-------------------------- MODULE SelectorRegistry --------------------------
(* What the selector tables of selector.c promise: a selector is a name and  *)
(* types with an id; selectors with one name share its id, two names never   *)
(* do, and what is registered stays registered.                              *)
CONSTANTS Names, Types, Ids

VARIABLE known

Init == known = {}

Register(n, ty, id) ==
    /\ \A s \in known : s.name = n => s.types # ty
    /\ \A s \in known : s.name = n <=> s.id = id
    /\ known' = known \cup {[name |-> n, types |-> ty, id |-> id]}

Next == \E n \in Names, ty \in Types, id \in Ids : Register(n, ty, id)

Spec == Init /\ [][Next]_known
=============================================================================
