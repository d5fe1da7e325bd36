---------------------------- MODULE TypeEncoding ----------------------------
(* The strings that encode types, and the functions of encodings.c that find *)
(* their way in them.  A string is a sequence of tokens: a number is one, so *)
(* is a name in its quotes, so is the tag of a structure.  A pointer into    *)
(* the string s is a position 1..Len(s)+1, the last one that of the '\0'.    *)
(*                                                                           *)
(* tour_error ends the program: there is no handler, or one that answers     *)
(* FALSE.  Numbers stay below the range of an int.                           *)
EXTENDS Integers, SequencesExt

Tok(c) == [c |-> c, n |-> 0]
Num(k) == [c |-> "number", n |-> k]

Stop == 0           \* the position of a program that ended in tour_error
NoSize == -1        \* and the size
NULL == 0

Char(s, p) == IF p \in DOMAIN s THEN s[p].c ELSE "end"

(* atoi, which takes a sign.                                                 *)
Atoi(s, p) ==
    LET q == IF Char(s, p) = "+" THEN p + 1 ELSE p
    IN  IF Char(s, q) = "number" THEN s[q].n ELSE 0

(* A faulty form: a name is taken for the type.                              *)
AtName(s, p) == p

BehindName(s, p) == IF Char(s, p) = "name" THEN p + 1 ELSE p
BehindNumber(s, p) == IF Char(s, p) = "number" THEN p + 1 ELSE p

Closing(c) == IF c = "{" THEN "}" ELSE ")"

(* Behind the '=' of a structure or union, or at its end when there is none. *)
BehindTag(s, p) ==
    LET q == SelectInSubSeq(s, p, Len(s), LAMBDA x : x.c \in {"=", Closing(Char(s, p))})
    IN  IF Char(s, q) = "=" THEN q + 1 ELSE q

-----------------------------------------------------------------------------
(* Sizes and alignments, on x86-64.                                          *)
PrimitiveSize ==
    [c \in {"B", "c", "C", "v"} |-> 1] @@ [c \in {"s", "S"} |-> 2]
    @@ [c \in {"i", "I", "f"} |-> 4]
    @@ [c \in {"l", "L", "q", "Q", "d", "@", "#", ":", "^", "%", "*"} |-> 8]
Complexes == {"c", "C", "s", "S", "i", "I", "l", "L", "q", "Q", "f", "d"}

(* A faulty form: the padding is subtracted.                                 *)
RoundDown(v, a) == IF a = 0 THEN NoSize ELSE (a * (v - a + 1)) \div a

(* ROUND: the product is taken before the quotient, so nothing is rounded.   *)
Round(v, a) == IF a = 0 THEN NoSize ELSE (a * (v + a - 1)) \div a


(* tour_sizeof_type and tour_alignof_type differ for complex numbers only:   *)
(* an array's alignment is its size, as coded, and the layout of a structure *)
(* never comes to its end (LayoutNext).                                      *)
Measures(s) ==
    LET measure[what \in {"size", "align"}, at \in 1..(Len(s) + 1)] ==
        LET p == BehindName(s, at)
            c == Char(s, p)
        IN  CASE c \in DOMAIN PrimitiveSize -> PrimitiveSize[c]
              [] c = "[" ->
                    LET e == BehindNumber(s, p + 1)
                        size == measure["size", e]
                        align == measure["align", e]
                    IN  IF size = NoSize \/ align = NoSize \/ Round(size, align) = NoSize
                        THEN NoSize
                        ELSE Atoi(s, p + 1) * Round(size, align)
              [] c = "b" ->
                    LET position == Atoi(s, p + 1)
                        size == Atoi(s, BehindNumber(s, p + 1) + 1)
                    IN  (position + size) \div 8 - position \div 8
              [] c = "j" /\ Char(s, p + 1) \in Complexes ->
                    (IF what = "size" THEN 2 ELSE 1) * PrimitiveSize[Char(s, p + 1)]
              [] OTHER -> NoSize
    IN  measure

SizeofType(s, p) == Measures(s)["size", p]
AlignofType(s, p) == Measures(s)["align", p]

AlignedSize(s, p) ==
    LET size == SizeofType(s, BehindName(s, p))
        align == AlignofType(s, BehindName(s, p))
    IN  IF size = NoSize \/ align = NoSize THEN NoSize ELSE Round(size, align)

WordSize == 8
PromotedSize(s, p) ==
    LET size == SizeofType(s, BehindName(s, p))
    IN  IF size = NoSize THEN NoSize ELSE Round(size, WordSize)

-----------------------------------------------------------------------------
Qualifiers == {"r", "n", "N", "o", "O", "R", "V", "!"}

SkipTypeQualifiers(s, p) ==
    LET q == SelectInSubSeq(s, p, Len(s), LAMBDA x : x.c \notin Qualifiers)
    IN  IF q = 0 THEN Len(s) + 1 ELSE q

(* The types of one character that tour_skip_typespec knows: the boolean,    *)
(* the char pointer and the atom are not among them.                         *)
Plain == {"#", ":", "c", "C", "s", "S", "i", "I", "l", "L", "q", "Q", "f", "d", "v", "?"}


(* A bit-field has its position, base type and number of bits.               *)
BehindBitField(s, p) == BehindNumber(s, BehindNumber(s, p + 1) + 1)

(* tour_skip_typespec from any position, "type" once it is behind a name and *)
(* qualifiers, and its loop over the members of a structure or union that    *)
(* goes on until the closing character.                                      *)
Skips(s) ==
    LET skip[until \in {"spec", "type", "}", ")"}, p \in 0..(Len(s) + 1)] ==
        LET c == Char(s, p) IN
        CASE p = Stop -> Stop
          [] until = "spec" /\ p # Stop -> skip["type", SkipTypeQualifiers(s, BehindName(s, p))]
          [] until \in {"}", ")"} /\ p # Stop ->
                IF c = until THEN p + 1 ELSE skip[until, skip["spec", p]]
          [] until = "type" /\ p # Stop ->
                CASE c = "@" -> BehindName(s, p + 1)
                  [] c \in Plain -> p + 1
                  [] c = "j" -> p + 2
                  [] c = "[" ->
                        LET e == skip["spec", BehindNumber(s, p + 1)]
                        IN  IF Char(s, e) = "]" THEN e + 1 ELSE Stop
                  [] c = "b" -> BehindBitField(s, p)
                  [] c \in {"{", "("} -> skip[Closing(c), BehindTag(s, p)]
                  [] c = "^" -> skip["spec", p + 1]
                  [] OTHER -> Stop
    IN  skip

SkipTypespec(s, p) == Skips(s)["spec", p]

(* tour_skip_offset passes one character before it looks for digits; that is *)
(* the first digit where an offset has one.                                  *)
SkipOffset(s) ==
    [p \in 0..(Len(s) + 1) |->
        LET q == IF Char(s, p) = "+" THEN p + 1 ELSE p
        IN  IF p = Stop THEN Stop
            ELSE IF Char(s, q) = "number" THEN q + 1 ELSE BehindNumber(s, q + 1)]

SkipArgspec(s, p) == SkipOffset(s)[SkipTypespec(s, p)]

-----------------------------------------------------------------------------
(* The layout of a structure or union that begins at p, member by member.    *)
(* prev_type and record_size tell about the member last passed.  Without a   *)
(* '=' the members are looked for where the tag is.  (A union without one    *)
(* has the search run on to the end of a structure, or beyond the string.)   *)
LayoutStart(s, p) ==
    LET q == SelectInSubSeq(s, p + 1, Len(s), LAMBDA x : x.c \in {"=", "{", "}"})
    IN  [start |-> p, type |-> IF Char(s, q) = "=" THEN q + 1 ELSE p + 1,
         prev |-> NULL, size |-> 0, align |-> 8]

StoppedLayout == [start |-> NULL, type |-> Stop, prev |-> NULL, size |-> 0, align |-> 0]

IsBitField(s, p) == Char(s, p) = "b"

(* The base type of the bit-field at p and its number of bits, NoSize where  *)
(* the base is no type that can be measured and skipped.                     *)
BitFieldBase(s, p) == BehindNumber(s, p + 1)
BitFieldSize(s, p) ==
    LET base == BitFieldBase(s, p)
    IN  IF SizeofType(s, base) = NoSize \/ SkipTypespec(s, base) = Stop THEN NoSize
        ELSE Atoi(s, SkipTypespec(s, base))

(* record_size with the member passed before counted in.                     *)
SizeWithPrevious(s, l) ==
    LET p == SkipTypeQualifiers(s, l.prev)
        union == Char(s, l.start) = "("
        bits == IF IsBitField(s, p) /\ ~union THEN BitFieldSize(s, p)
                ELSE IF SizeofType(s, p) = NoSize THEN NoSize
                ELSE SizeofType(s, p) * 8
    IN  CASE l.prev = NULL -> l.size
          [] l.prev # NULL /\ bits = NoSize -> NoSize
          [] OTHER -> IF union THEN Max({l.size, bits}) ELSE l.size + bits

(* tour_layout_structure_next_member, TRUE whenever it returns.  A member    *)
(* that is no bit-field is aligned as the base type of the bit-field before  *)
(* it; where there was none the alignment is read through NULL.  The end of  *)
(* the structure is no type: skipping it stops.  No target macro of GCC is   *)
(* defined here, PCC_BITFIELD_TYPE_MATTERS among them.                       *)
LayoutNext(s, l) ==
    LET size == SizeWithPrevious(s, l)
        p == SkipTypeQualifiers(s, l.prev)
        begin == BehindName(s, l.type)
        type == SkipTypeQualifiers(s, begin)
        desired ==
            CASE IsBitField(s, type) -> IF BitFieldSize(s, type) = NoSize THEN NoSize ELSE 1
              [] ~IsBitField(s, type) /\ l.prev # NULL /\ IsBitField(s, p)
                    /\ Char(s, l.start) = "{" -> AlignofType(s, BitFieldBase(s, p)) * 8
              [] OTHER -> NoSize
        next == SkipTypespec(s, begin)
    IN  IF size = NoSize \/ desired = NoSize \/ next = Stop THEN StoppedLayout
        ELSE [l EXCEPT !.prev = begin, !.type = next,
                       !.align = Max({@, desired}),
                       !.size = IF IsBitField(s, type) THEN Atoi(s, type + 1)
                                ELSE IF size % desired # 0 THEN Round(size, desired)
                                ELSE size]

(* tour_layout_structure_get_info: the byte of the member last passed.       *)
LayoutOffset(l) == l.size \div 8
=============================================================================
