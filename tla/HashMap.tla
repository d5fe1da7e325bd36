------------------------------ MODULE HashMap ------------------------------
(* What the hash tables of hash.c promise: a partial function from keys to   *)
(* values.  Clients add a key that is absent and remove one that is present. *)
CONSTANTS Keys, Values

VARIABLE map

Init == map = [k \in {} |-> {}]

Present == DOMAIN map

Add(k, v) ==
    /\ k \notin Present
    /\ map' = [j \in Present \cup {k} |-> IF j = k THEN v ELSE map[j]]

Remove(k) ==
    /\ k \in Present
    /\ map' = [j \in Present \ {k} |-> map[j]]

Next ==
    \E k \in Keys :
        \/ \E v \in Values : Add(k, v)
        \/ Remove(k)

Spec == Init /\ [][Next]_map
=============================================================================
