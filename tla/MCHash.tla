------------------------------- MODULE MCHash -------------------------------
(* Small instances of Hash.  The keys' hashes make chains longer than one    *)
(* node in every table, and chains that part when the table doubles.         *)
EXTENDS Hash, TLC

CONSTANTS k1, k2, k3, k4, k5, k6

MCKeys == {k1, k2, k3, k4, k5, k6}
MCHashOf == k1 :> 0 @@ k2 :> 0 @@ k3 :> 2 @@ k4 :> 4 @@ k5 :> 1 @@ k6 :> 8
=============================================================================
