---------------------------- MODULE MCVdlConvert ----------------------------
(* Small values for VdlConvert. *)
EXTENDS VdlConvert

V(kind, items) == [kind |-> kind, items |-> items]
S(x) == V("scalar", <<x>>)
F(i, v) == [index |-> i, value |-> v]

Leaf == {S(1), V("nil", <<>>), V("bytes", <<>>), V("bytes", <<2, 3>>)}
Opt(f) == {<<>>, <<f>>}

(* Composites of leaves, and composites of those: every kind at the top,    *)
(* nested, empty, and next to every other.                                  *)
Flat == {V("list", es) : es \in {<<>>} \cup {<<x>> : x \in Leaf} \cup {<<x, y>> : x, y \in Leaf}}
        \cup {V("array", <<x, y>>) : x, y \in Leaf}
        \cup {V("map", <<S(4), x, S(5), y>>) : x, y \in Leaf}
        \cup {V("struct", <<F(0, x), F(1, y)>>) : x, y \in Leaf}
Deep == {V("list", <<x, y>>) : x \in Flat, y \in Leaf}
        \cup {V("map", <<S(6), x>>) : x \in Flat}
        \cup {V("struct", a \o b) : a \in UNION {Opt(F(0, x)) : x \in Flat}, b \in UNION {Opt(F(1, y)) : y \in Leaf}}
Values == Leaf \cup Flat \cup Deep

(* A list in a field that the destination does not have. *)
ListField == {V("struct", <<F(0, V("list", <<S(1)>>)), F(1, S(2))>>)}
=============================================================================
