------------------------------- MODULE CTypes -------------------------------
(* Types as a compiler for x86-64 writes them: each with its encoding, its   *)
(* size in C, whether it is free of the types tour_skip_typespec does not    *)
(* know, and whether tour_sizeof_type is made for it: no structure by value, *)
(* no qualifier in front, no array of empty elements.                        *)
EXTENDS TypeEncoding

(* sizeof in C, of void as GCC has it and of a function as nothing.          *)
Width(c) ==
    CASE c = "?" -> 0
      [] c \in {"c", "C", "B", "v"} -> 1      \* char, _Bool, void
      [] c \in {"s", "S"} -> 2               \* short
      [] c \in {"i", "I", "f"} -> 4          \* int, float
      [] OTHER -> 8                          \* long, long long, double, pointers

Primitive(c) ==
    [enc |-> <<Tok(c)>>, size |-> Width(c),
     known |-> c \notin {"B", "*", "%"}, sized |-> c # "?"]

ObjectOf == [Primitive("@") EXCEPT !.enc = <<Tok("@"), Tok("name")>>]

Complex(c) ==
    [enc |-> <<Tok("j"), Tok(c)>>, size |-> 2 * Width(c), known |-> TRUE, sized |-> TRUE]

PointerTo(t) ==
    [enc |-> <<Tok("^")>> \o t.enc, size |-> 8, known |-> t.known, sized |-> TRUE]

ArrayOf(n, t) ==
    [enc |-> <<Tok("["), Num(n)>> \o t.enc \o <<Tok("]")>>, size |-> n * t.size,
     known |-> t.known, sized |-> t.sized /\ t.size > 0]

Qualified(q, t) == [t EXCEPT !.enc = <<Tok(q)>> \o @, !.sized = FALSE]

BitField(position, base, bits) ==
    [enc |-> <<Tok("b"), Num(position), Tok(base), Num(bits)>>, size |-> 0,
     known |-> TRUE, sized |-> FALSE]

(* Members may have names in front.                                          *)
Named(t) == [enc |-> <<Tok("name")>> \o t.enc, type |-> t]
Unnamed(t) == [enc |-> t.enc, type |-> t]

Aggregate(open, members) ==
    [enc |-> <<Tok(open), Tok("tag"), Tok("=")>>
             \o FlattenSeq([i \in DOMAIN members |-> members[i].enc])
             \o <<Tok(Closing(open))>>,
     size |-> 0, known |-> \A i \in DOMAIN members : members[i].type.known, sized |-> FALSE]

Opaque(open) ==
    [enc |-> <<Tok(open), Tok("tag"), Tok(Closing(open))>>, size |-> 0,
     known |-> TRUE, sized |-> FALSE]

(* Where each of a sequence of encodings starts, the first one at p.         *)
Starts(encodings, p) ==
    [i \in DOMAIN encodings |-> p + Len(FlattenSeq(SubSeq(encodings, 1, i - 1)))]

(* The types string of a method: the return type with the frame's size, and  *)
(* every argument with its place.                                            *)
Method(result, frame, arguments) ==
    LET place(a) == (IF a.regs THEN <<Tok("+")>> ELSE <<>>) \o <<Num(a.at)>>
        encodings == <<result.enc \o <<Num(frame)>>>>
                     \o [i \in DOMAIN arguments |-> arguments[i].type.enc \o place(arguments[i])]
    IN  [kind |-> "method",
         types |-> FlattenSeq(encodings),
         parts |-> [i \in DOMAIN encodings |->
             [start |-> Starts(encodings, 1)[i],
              type |-> IF i = 1 THEN result ELSE arguments[i - 1].type,
              place |-> IF i = 1 THEN frame
                        ELSE [regs |-> arguments[i - 1].regs, at |-> arguments[i - 1].at]]]]

Structure(open, members) ==
    LET encodings == [i \in DOMAIN members |-> members[i].enc]
        start(i) == Starts(encodings, 4)[i] + Len(members[i].enc) - Len(members[i].type.enc)
    IN  [kind |-> "structure",
         types |-> Aggregate(open, members).enc,
         parts |-> [i \in DOMAIN members |->
             [start |-> start(i), type |-> members[i].type, place |-> 0]]]
=============================================================================
