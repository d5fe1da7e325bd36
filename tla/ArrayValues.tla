---------------------------- MODULE ArrayValues ----------------------------
(* What the sparse arrays of sarray.c promise their clients: every handle is *)
(* an array of its own, with a value at every index; a copy starts with the  *)
(* values of its original and neither changes with the other; freeing a      *)
(* handle, or making room, changes no value that can still be read.          *)
EXTENDS Naturals

CONSTANTS Handles,    \* what sarray_new and sarray_lazy_copy return
          Indices,    \* the indices clients use
          Values      \* what they store

VARIABLE contents     \* the values of each handle in use

Init == contents = [h \in {} |-> {}]

InUse == DOMAIN contents

With(h, values) ==
    [k \in InUse \cup {h} |-> IF k = h THEN values ELSE contents[k]]

New(h, default) ==
    /\ h \notin InUse
    /\ contents' = With(h, [i \in Indices |-> default])

Put(h, i, v) ==
    /\ h \in InUse
    /\ contents' = [contents EXCEPT ![h][i] = v]

Copy(h, c) ==
    /\ h \in InUse
    /\ c \notin InUse
    /\ contents' = With(c, contents[h])

Free(h) ==
    /\ h \in InUse
    /\ contents' = [k \in InUse \ {h} |-> contents[k]]

Next ==
    \E h \in Handles :
        \/ \E v \in Values : New(h, v)
        \/ \E i \in Indices, v \in Values : Put(h, i, v)
        \/ \E c \in Handles : Copy(h, c)
        \/ Free(h)

Spec == Init /\ [][Next]_contents
=============================================================================
