----------------------------- MODULE Encodings ------------------------------
(* A program walks over the arguments of a method with the functions of      *)
(* encodings.c, has it called by tour_msg_sendv, or lays out a structure.    *)
(* What it looks at is fixed in the initial state: a method with its types   *)
(* string, or the string of a structure, along with what the compiler meant. *)
EXTENDS TypeEncoding

CONSTANTS Methods,      \* [kind, types, parts]: the return type and the
                        \* arguments, each [start, type, place]
          Structures,   \* [kind, types, parts]: the members
          MaxNumber     \* bounds the numbers that are asked for

ASSUME NumberAssumption == MaxNumber \in Nat

VARIABLES subject,
          cursor,       \* the caller's `type', NULL before a first argument
          got,          \* the places the last call returned
          layout,       \* the caller's struct tour_struct_layout
          passed,       \* the calls of next_member that returned
          stopped       \* the program ended in an error

vars == <<subject, cursor, got, layout, passed, stopped>>

Types == subject.types

Init ==
    /\ subject \in Methods \cup Structures
    /\ cursor = NULL
    /\ got = <<>>
    /\ layout = StoppedLayout
    /\ passed = 0
    /\ stopped = FALSE

-----------------------------------------------------------------------------
(* Where an argument is: in the registers or on the stack, at an offset.     *)
Place(s, t) ==
    LET p == SkipTypespec(s, t)
    IN  [regs |-> Char(s, p) = "+", at |-> Atoi(s, p)]

(* method_get_sizeof_arguments: the number behind the return type.           *)
SizeofArguments(s) == Atoi(s, SkipTypespec(s, 1))

(* method_get_number_of_arguments, Stop - 1 where a type cannot be skipped.  *)
NumberOfArguments(s) ==
    LET count[p \in 0..(Len(s) + 1), i \in 0..Len(s)] ==
            IF p = Stop THEN Stop
            ELSE IF p = Len(s) + 1 THEN i
            ELSE count[SkipArgspec(s, p), i + 1]
    IN  count[1, 0] - 1

(* A type that has to be skipped is unknown.                                 *)
Stops == stopped' = TRUE /\ got' = <<>> /\ UNCHANGED cursor

(* The place of the argument at t is returned.                               *)
Arrives(t) ==
    IF SkipTypespec(Types, t) = Stop THEN Stops
    ELSE stopped' = FALSE /\ cursor' = t /\ got' = <<Place(Types, t)>>

(* method_get_next_argument from p.                                          *)
Fetch(p) ==
    \E t \in {SkipArgspec(Types, p)} :
        IF t = Len(Types) + 1 THEN got' = <<>> /\ UNCHANGED <<cursor, stopped>>
        ELSE Arrives(t)

FirstArgument ==
    /\ Fetch(1)
    /\ UNCHANGED <<subject, layout, passed>>

NextArgument ==
    /\ cursor # NULL
    /\ Fetch(cursor)
    /\ UNCHANGED <<subject, layout, passed>>

(* The position n arguments behind p.                                        *)
Behind(p, n) ==
    LET behind[i \in 0..n] == IF i = 0 THEN p ELSE SkipArgspec(Types, behind[i - 1])
    IN  behind[n]

(* A faulty form: the receiver is number 1.                                  *)
NthFromOne(k) ==
    /\ \E number \in {NumberOfArguments(Types)} :
           \/ number < 0 /\ Stops
           \/ 0 <= number /\ number < k /\ got' = <<>> /\ UNCHANGED <<cursor, stopped>>
           \/ k <= number /\ (\E t \in {Behind(1, k)} : Arrives(t))
    /\ UNCHANGED <<subject, layout, passed>>

(* method_get_nth_argument passes arg > number only.                         *)
NthArgument(k) ==
    /\ \E number \in {NumberOfArguments(Types)} :
           \/ number < 0 /\ Stops
           \/ 0 <= number /\ number < k /\ got' = <<>> /\ UNCHANGED <<cursor, stopped>>
           \/ k <= number /\ (\E t \in {Behind(1, k + 1)} : Arrives(t))
    /\ UNCHANGED <<subject, layout, passed>>

(* tour_msg_sendv puts the receiver and the selector at the places of the    *)
(* first two arguments, and hands the frame and its size on.                 *)
SendV ==
    /\ \E self \in {Behind(1, 1)}, op \in {Behind(1, 2)} :
           IF SkipTypespec(Types, op) = Stop THEN Stops
           ELSE /\ got' = <<Place(Types, self), Place(Types, op), SizeofArguments(Types)>>
                /\ UNCHANGED <<cursor, stopped>>
    /\ UNCHANGED <<subject, layout, passed>>

-----------------------------------------------------------------------------
LayoutStructure ==
    /\ layout' = LayoutStart(Types, 1)
    /\ passed' = 0
    /\ UNCHANGED <<subject, cursor, got, stopped>>

NextMember ==
    /\ layout # StoppedLayout
    /\ layout' = LayoutNext(Types, layout)
    /\ stopped' = (layout' = StoppedLayout)
    /\ passed' = IF stopped' THEN passed ELSE passed + 1
    /\ UNCHANGED <<subject, cursor, got>>

Next ==
    /\ ~stopped
    /\ \/ /\ subject.kind = "method"
          /\ \/ FirstArgument
             \/ NextArgument
             \/ \E k \in 0..MaxNumber : NthArgument(k)
             \/ SendV
       \/ /\ subject.kind = "structure"
          /\ LayoutStructure \/ NextMember

Spec == Init /\ [][Next]_vars

-----------------------------------------------------------------------------
Parts == subject.parts
TakesName(enc, end) == Last(enc) = Tok("@") /\ Char(Types, end) = "name"

(* Skipping a type the compiler writes ends right behind it, whatever is     *)
(* nested in it, with two exceptions.  It fails for exactly the types with a *)
(* boolean, a char pointer or an atom in them; and an id with no class name  *)
(* that a named member follows takes that name for its class's, and so does  *)
(* a type that ends in one.  A walk over members goes on at the next one all *)
(* the same, since it passes names anyway.                                   *)
SkipsExactly ==
    \A i \in DOMAIN Parts :
        LET type == Parts[i].type
            end == Parts[i].start + Len(type.enc)
            skipped == SkipTypespec(Types, Parts[i].start)
        IN  /\ skipped = CASE ~type.known -> Stop
                            [] type.known /\ TakesName(type.enc, end) -> end + 1
                            [] OTHER -> end
            /\ type.known /\ subject.kind = "structure" /\ i < Len(Parts) =>
                   BehindName(Types, skipped) = Parts[i + 1].start

(* A type whose size can be asked for never gets fewer bytes than it has in  *)
(* C, nor does an element of an array or an argument.                        *)
SizesCover ==
    \A i \in DOMAIN Parts :
        LET type == Parts[i].type IN
        type.sized =>
            /\ SizeofType(Types, Parts[i].start) >= type.size
            /\ type.size > 0 =>
                   /\ AlignedSize(Types, Parts[i].start) >= type.size
                   /\ PromotedSize(Types, Parts[i].start) >= Max({type.size, WordSize})


(* The cursor is at the return type before the first argument.  A structure  *)
(* stands for a method without arguments, which nobody asks for any.         *)
Argument ==
    IF cursor <= 1 THEN 1
    ELSE SelectInSeq(Parts, LAMBDA part : part.start = cursor)

List == INSTANCE ArgumentList WITH
    arguments <- IF subject.kind = "structure" THEN <<[place |-> 0, known |-> TRUE]>>
                 ELSE [i \in DOMAIN Parts |->
                          [place |-> Parts[i].place, known |-> Parts[i].type.known]],
    at <- Argument,
    stopped <- stopped /\ subject.kind = "method"

(* The walk visits each argument once, in order, at the place the compiler   *)
(* gave it, and numbers find the same ones.                                  *)
ImplementsArgumentList == List!Spec
=============================================================================
