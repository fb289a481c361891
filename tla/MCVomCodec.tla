----------------------------- MODULE MCVomCodec -----------------------------
(* Types, values and sessions for VomCodec. *)
EXTENDS VomCodec

T(kind, key, elem, fields, len) ==
    [kind |-> kind, key |-> key, elem |-> elem, fields |-> fields, names |-> [i \in DOMAIN fields |-> i], len |-> len]
Named(t, names) == [t EXCEPT !.names = names]

(* 11 is struct{uint; any}, 13 struct{bytes; list of any; ?11}, 17 union{uint; any}, *)
(* 30 struct{int; bool; int}.  The last ones are only asked for.                     *)
Types == <<
    T("any", 0, 0, <<>>, 0), T("uint16", 0, 0, <<>>, 0), T("byte", 0, 0, <<>>, 0),
    T("enum", 0, 0, <<>>, 2), T("string", 0, 0, <<>>, 0), T("typeobject", 0, 0, <<>>, 0),
    T("list", 0, 3, <<>>, 0), T("array", 0, 3, <<>>, 2), T("list", 0, 2, <<>>, 0),
    T("list", 0, 1, <<>>, 0), T("struct", 0, 0, <<2, 1>>, 0), T("optional", 0, 11, <<>>, 0),
    T("struct", 0, 0, <<7, 10, 12>>, 0), T("map", 5, 1, <<>>, 0), T("map", 2, 9, <<>>, 0),
    T("set", 4, 0, <<>>, 0), T("union", 0, 0, <<2, 1>>, 0), T("array", 0, 2, <<>>, 2),
    T("struct", 0, 0, <<2, 5, 9, 3>>, 0), T("map", 21, 2, <<>>, 0), T("struct", 0, 0, <<2>>, 0),
    T("struct", 0, 0, <<6, 2, 5>>, 0), T("map", 21, 9, <<>>, 0), T("list", 0, 12, <<>>, 0),
    T("map", 2, 7, <<>>, 0), T("int16", 0, 0, <<>>, 0), T("bool", 0, 0, <<>>, 0),
    T("list", 0, 26, <<>>, 0), T("map", 26, 27, <<>>, 0), T("struct", 0, 0, <<26, 27, 26>>, 0),
    T("int8", 0, 0, <<>>, 0), T("list", 0, 31, <<>>, 0),
    T("list", 0, 5, <<>>, 0), T("map", 2, 5, <<>>, 0), Named(T("struct", 0, 0, <<2, 1>>, 0), <<3, 4>>),
    Named(T("struct", 0, 0, <<5, 2>>, 0), <<2, 3>>) >>
(* A name for a definition, which TLC then evaluates once. *)
Table == Types

V(n, items) == [n |-> n, items |-> items]
Num(x) == V(<<x>>, <<>>)
Bytes(b) == V(b, <<>>)
Nil == V(<<>>, <<>>)
InAny(t, v) == V(<<t>>, <<v>>)
Opt(v) == V(<<>>, <<v>>)
Of(items) == V(<<>>, items)
M(t, v) == [t |-> t, v |-> v]

(* Numbers of one and of two bytes; bytes that look like control codes. *)
Scalars == {M(26, Num(-1)), M(26, Num(-128)), M(26, Num(127)), M(31, Num(64)), M(27, Num(1)), M(2, Num(1)), M(2, Num(200)), M(3, Num(224)), M(4, Num(1)), M(5, Bytes(<<225, 7>>)), M(5, Bytes(<<>>)),
            M(6, Num(13)), M(7, Bytes(<<>>)), M(7, Bytes(<<224, 225, 255>>)), M(8, Bytes(<<200, 1>>))}

S11(a) == V(<<0, 1>>, <<Num(200), a>>)
Anys == {Nil, InAny(2, Num(200)), InAny(7, Bytes(<<224, 1>>)), InAny(12, Nil), InAny(12, Opt(S11(InAny(3, Num(224))))),
         InAny(10, Of(<<Nil, InAny(2, Num(5))>>)), InAny(17, V(<<1>>, <<InAny(5, Bytes(<<9>>))>>)), InAny(6, Num(12))}

(* The anys that are written with a StartValue (see README on NilValue in a map). *)
StartedAnys == Anys \ {Nil, InAny(12, Nil)}

Flat == {M(9, Of(<<>>)), M(9, Of(<<Num(1), Num(200)>>)), M(18, Of(<<Num(200), Num(2)>>)),
         M(16, Of(<<Num(0), Num(1)>>)), M(17, V(<<0>>, <<Num(200)>>)), M(12, Nil), M(1, Nil), M(12, Opt(V(<<>>, <<>>))),
         M(15, Of(<<Num(1), Of(<<Num(2)>>), Num(200), Of(<<>>)>>)),
         M(19, V(<<0, 1, 2, 3>>, <<Num(1), Bytes(<<8>>), Of(<<Num(7)>>), Num(224)>>)),
         M(20, Of(<<V(<<0>>, <<Num(3)>>), Num(4)>>)),
         M(22, V(<<0, 1, 2>>, <<Num(14), Num(9), Bytes(<<225>>)>>)),
         M(23, Of(<<V(<<0>>, <<Num(3)>>), Of(<<Num(4)>>), V(<<>>, <<>>), Of(<<>>)>>)),
         M(24, Of(<<Nil, Opt(V(<<0>>, <<Num(3)>>)), Nil>>)),
         M(25, Of(<<Num(200), Bytes(<<1, 224>>), Num(1), Bytes(<<>>)>>)),
         M(28, Of(<<Num(5), Num(127)>>)), M(28, Of(<<Num(5), Num(-1)>>)), M(32, Of(<<Num(-128)>>)),
         M(29, Of(<<Num(-7), Num(1), Num(100), Num(0)>>)), M(30, V(<<0, 1, 2>>, <<Num(-128), Num(1), Num(3)>>))}

(* Anys in every kind of value, next to each other and inside each other.   *)
WithAny == {M(10, Of(<<a, b>>)) : a \in Anys, b \in Anys}
           \cup {M(11, S11(a)) : a \in Anys \ {Nil}}
           \cup {M(12, Opt(S11(a))) : a \in Anys \ {Nil}}
           \cup {M(17, V(<<1>>, <<a>>)) : a \in Anys}
           \cup {M(14, Of(<<Bytes(<<6>>), a, Bytes(<<7, 7>>), b>>)) : a \in StartedAnys, b \in StartedAnys \cup {Nil}}
           \cup {M(13, V(<<0, 1, 2>>, <<Bytes(<<200>>), Of(<<a>>), Opt(S11(b))>>)) : a \in Anys, b \in Anys \ {Nil}}
(* A value in an any in a struct. *)
Any11(m) == M(11, V(<<1>>, <<InAny(m.t, m.v)>>))

(* A second message, to see what the first one left behind. *)
Probes == {M(2, Num(3)), M(11, S11(InAny(9, Of(<<Num(1)>>))))}

Writers == {{}, {"fast"}, {"bytewise"}, {"fast", "bytewise"}}
Readers == {{}, {"fast"}, {"fast", "raw"}, {"skipMessage"}, {"rawMessage", "raw"}}

Session(m, p, w, r) == [msgs |-> <<m, p>>, writer |-> w, reader |-> r, want |-> 0]

(* bytewise reading is a conversion: bytes into a list of numbers. *)
HasBytes == {M(7, Bytes(<<224, 225, 255>>)), M(8, Bytes(<<200, 1>>)), Any11(M(7, Bytes(<<224, 225>>))),
             M(25, Of(<<Num(200), Bytes(<<1, 224>>), Num(1), Bytes(<<>>)>>))}
(* Structs whose field 0 is skipped: without an any in it (see README). *)
Skipped == {m \in Flat \cup WithAny : m.t \in {11, 12, 13, 19, 22} /\ m.v # Nil}

(* Numbers, alone and in every kind of value, read into other number kinds  *)
(* and into bytes: some fit and some do not.                                *)
Numbers == {m \in Scalars \cup Flat : m.t \in {2, 3, 7, 8, 9, 15, 18, 19, 20, 26, 28, 29, 30, 31, 32}}
NumberReaders == {r \cup {k} \cup b : r \in {{}, {"fast"}}, k \in Number, b \in {{}, {"bytewise"}}}
ByteReaders == {r \cup {"asBytes"} \cup a : r \in {{}, {"fast"}}, a \in {{}, {"array2"}}}

(* Messages and types that they cannot be read as: another kind, another    *)
(* kind of part, no field or a different one of the same name.              *)
Misfits == {<<M(9, Of(<<Num(1)>>)), 16>>, <<M(9, Of(<<>>)), 33>>, <<M(18, Of(<<Num(1), Num(2)>>)), 33>>,
            <<M(16, Of(<<Num(1)>>)), 9>>, <<M(25, Of(<<>>)), 34>>, <<M(12, Opt(V(<<0>>, <<Num(1)>>))), 35>>,
            <<M(19, V(<<0>>, <<Num(1)>>)), 35>>, <<M(22, V(<<1>>, <<Num(1)>>)), 36>>,
            <<M(17, V(<<0>>, <<Num(200)>>)), 21>>}

MCSessions ==
    {Session(m, p, w, r) : m \in Scalars \cup Flat, p \in Probes, w \in Writers, r \in Readers}
    \cup {Session(m, p, w, r) : m \in WithAny, p \in Probes, w \in {{}, {"fast"}}, r \in Readers}
    \cup {Session(m, p, w, r \cup {"bytewise"}) : m \in HasBytes, p \in Probes, w \in Writers, r \in {{}, {"fast"}}}
    \cup {Session(m, p, {"fast"}, r \cup {"skip"}) : m \in Skipped, p \in Probes, r \in {{}, {"fast"}}}
    \cup {Session(m, M(2, Num(3)), {"fast"}, r) : m \in Numbers, r \in NumberReaders \cup ByteReaders}
    \cup {[Session(x[1], M(2, Num(3)), {"fast"}, {"other"}) EXCEPT !.want = x[2]] : x \in Misfits}
    \cup {Session(m, M(2, Num(3)), w \cup {"noLenHint"}, {"fast"}) : m \in Flat, w \in {{}, {"fast"}}}

(* A nil in a map to any, with an entry after it. *)
NilInMap == {Session(M(14, Of(<<Bytes(<<6>>), Nil, Bytes(<<7>>), InAny(2, Num(1))>>)), M(2, Num(3)), {"fast"}, {"fast"})}
=============================================================================
