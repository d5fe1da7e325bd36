------------------------------ MODULE MCSarray ------------------------------
(* Small instances of Sarray.  The addresses malloc returns, and the values  *)
(* clients store, are interchangeable.                                       *)
EXTENDS Sarray, TLC

Symmetry == Permutations(Arrays) \cup Permutations(Buckets) \cup Permutations(Values)
=============================================================================
