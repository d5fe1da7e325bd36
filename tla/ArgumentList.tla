---------------------------- MODULE ArgumentList ----------------------------
(* What encodings.c promises about the arguments of a method: they are a     *)
(* list with a cursor.  Each argument has a place in the frame and a type    *)
(* that can be skipped or not; so has the return type, which is arguments[1] *)
(* here, its place the size of the frame.                                    *)
EXTENDS Naturals, Sequences

CONSTANT MaxNumber      \* bounds the numbers that are asked for

VARIABLES arguments,    \* sequence of [place, known]
          at,           \* the argument the cursor stands at, 1 before the first
          got,          \* what the last call returned
          stopped       \* the program ended in an error

vars == <<arguments, at, got, stopped>>

Known(first, last) == \A i \in first..last : arguments[i].known

Init ==
    /\ at = 1
    /\ got = <<>>
    /\ stopped = FALSE

(* A call that passes the types first..last.                                 *)
Passes(first, last) ==
    /\ ~stopped
    /\ stopped' = ~Known(first, last)
    /\ UNCHANGED arguments

Returns(i, result) ==
    /\ at' = IF stopped' THEN at ELSE i
    /\ got' = IF stopped' THEN <<>> ELSE result

(* The argument behind number i, nothing at the end of the list.             *)
Behind(i) ==
    IF i < Len(arguments)
    THEN Passes(i, i + 1) /\ Returns(i + 1, <<arguments[i + 1].place>>)
    ELSE Passes(i, i) /\ Returns(i, <<>>)

First == Behind(1)
Advance == Behind(at)

(* Number k, the receiver being 0.  One behind the last is an error, whereas *)
(* any further one is only refused.                                          *)
Nth(k) ==
    IF k + 2 <= Len(arguments)
    THEN Passes(1, Len(arguments)) /\ Returns(k + 2, <<arguments[k + 2].place>>)
    ELSE IF k + 1 > Len(arguments)
    THEN Passes(1, Len(arguments)) /\ Returns(at, <<>>)
    ELSE ~stopped /\ stopped' = TRUE /\ Returns(at, <<>>) /\ UNCHANGED arguments

Send ==
    Passes(1, 3) /\ Returns(at, <<arguments[2].place, arguments[3].place, arguments[1].place>>)

Next == First \/ Advance \/ (\E k \in 0..MaxNumber : Nth(k)) \/ Send

Spec == Init /\ [][Next]_vars
=============================================================================
