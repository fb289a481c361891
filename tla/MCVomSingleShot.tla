-------------------------- MODULE MCVomSingleShot --------------------------
(* A small instance of VomSingleShot for TLC. *)
EXTENDS VomSingleShot, TLC

Type(id, refs, inc) == [id |-> id, refs |-> refs, incomplete |-> inc]
Value(types, uses, kind) == [types |-> types, uses |-> uses, kind |-> kind]

(* The messages Encode writes: what a type refers to comes before it.       *)
(* refs maps the ids a definition refers to, to how it refers to them.      *)
ListOf42 == <<Type(42, <<>>, FALSE), Type(41, 42 :> "elem", FALSE)>>
SetOf42 == <<Type(42, <<>>, FALSE), Type(41, 42 :> "key", FALSE)>>
Cyclic == <<Type(42, 41 :> "field", TRUE), Type(41, 42 :> "elem", FALSE)>>
(* Damaged or made by hand: the last two have a reserved id, and an optional *)
(* of a type that is no named struct.                                        *)
Twice == <<Type(42, <<>>, FALSE), Type(42, <<>>, FALSE)>>
Dangling == <<Type(41, 42 :> "elem", FALSE)>>
Unfinished == <<Type(42, <<>>, FALSE), Type(41, 43 :> "field", TRUE)>>
Reserved == <<Type(40, <<>>, FALSE)>>
OptionalOf42 == <<Type(42, 41 :> "optional", TRUE), Type(41, <<>>, FALSE), Type(43, 42 :> "elem", FALSE)>>
MCMalformed == {41 :> "optional"}

(* Values with the same types, one of them broken; types whose messages     *)
(* begin alike; values that name an unknown id or one that was never        *)
(* completed; one without type messages and one whose type messages are cut. *)
MCData == {Value(Cyclic, <<41, 42>>, "good"), Value(Cyclic, <<41>>, "cutValue"),
           Value(ListOf42, <<41, 42>>, "good"), Value(SetOf42, <<41>>, "good"),
           Value(ListOf42, <<41, 43>>, "good"), Value(Twice, <<42>>, "good"),
           Value(Dangling, <<41>>, "good"), Value(Reserved, <<>>, "good"),
           Value(OptionalOf42, <<41>>, "good"),
           Value(Unfinished, <<41>>, "good"), Value(Unfinished, <<42>>, "good"),
           Value(<<>>, <<>>, "good"), Value(<<>>, <<>>, "cutTypes")}

Symmetry == Permutations(G)
=============================================================================
