---------------------------- MODULE MCEncodings -----------------------------
(* Types two levels deep, in methods of two to four arguments and structures *)
(* of none to three members.                                                 *)
EXTENDS Encodings

C == INSTANCE CTypes

Characters == {"i", "c", "d", "@", ":", "?", "B", "*", "%"}
Simple == {C!Primitive(c) : c \in Characters} \cup {C!ObjectOf, C!Complex("f")}

Members == {C!BitField(3, "i", 5), C!Primitive("@"), C!Primitive("i")}

Nested ==
    UNION {{C!PointerTo(t), C!ArrayOf(2, t), C!ArrayOf(0, t), C!Qualified("r", t)} : t \in Simple}
    \cup {C!Aggregate(open, <<C!Named(t), C!Unnamed(u)>>) :
              open \in {"{", "("}, t \in Simple, u \in Members}
    \cup {C!Opaque("{")}

Chosen == {C!PointerTo(C!Primitive("c")), C!ArrayOf(3, C!Primitive("s")), C!Opaque("{"),
           C!Aggregate("{", <<C!Named(C!Primitive("@")), C!Named(C!BitField(0, "i", 3))>>),
           C!Aggregate("(", <<C!Unnamed(C!Primitive("d")), C!Unnamed(C!ObjectOf)>>)}
Deep ==
    UNION {{C!PointerTo(t), C!ArrayOf(3, t), C!Qualified("N", C!Qualified("O", t))} : t \in Chosen}
    \cup {C!Aggregate("{", <<C!Named(t), C!Named(u)>>) : t, u \in Chosen}

At(t, regs, at) == [type |-> t, regs |-> regs, at |-> at]
Hidden == <<At(C!Primitive("@"), FALSE, 0), At(C!Primitive(":"), TRUE, 8)>>

MCMethods ==
    {C!Method(C!Primitive("v"), 16, Hidden)}
    \cup {C!Method(t, 24, Hidden \o <<At(t, regs, 16)>>) :
              t \in Simple \cup Nested \cup Deep, regs \in BOOLEAN}
    \cup {C!Method(C!ObjectOf, 32, Hidden \o <<At(t, TRUE, 12), At(u, FALSE, 24)>>) :
              t \in Simple, u \in Chosen \cup Simple}

NoMembers == [kind |-> "structure", types |-> C!Opaque("{").enc, parts |-> <<>>]
Fields == {C!BitField(0, "i", 3), C!BitField(9, "S", 4), C!BitField(20, "B", 1),
           C!Primitive("i"), C!PointerTo(C!Opaque("{")), C!Primitive("@"), C!ObjectOf,
           C!PointerTo(C!Primitive("@"))}
MCStructures ==
    {C!Structure(open, <<C!Unnamed(t)>>) : open \in {"{", "("}, t \in Fields}
    \cup {C!Structure(open, <<C!Named(t), C!Named(C!Qualified("r", u)), C!Unnamed(v)>>) :
              open \in {"{", "("}, t, u, v \in Fields}
    \cup {C!Structure("{", <<C!Unnamed(C!BitField(2, "i", 7)), C!Named(t), C!Named(u)>>) :
              t, u \in Fields}
    \cup {C!Structure("{", <<>>), NoMembers}
=============================================================================
