---------------------------- MODULE MCClassTable ----------------------------
(* Small instances of ClassTable: a root, a class, and two classes below it. *)
EXTENDS ClassTable, TLC

CONSTANTS root, middle, left, right

Fork == (root :> Nil) @@ (middle :> root) @@ (left :> middle) @@ (right :> middle)
NoneSomeAll == {<<>>, <<left, middle>>, <<middle, right, left>>}
ThreadSymmetry == Permutations(Threads)
=============================================================================
