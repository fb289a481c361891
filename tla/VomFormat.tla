----------------------------- MODULE VomFormat -----------------------------
(***************************************************************************)
(* What a VOM Encoder and a VOM Decoder agree on: the vdl types, by their  *)
(* type ids, and the bytes of numbers, lengths and control codes.  How the *)
(* ids come to be known on both sides is the subject of VomTypeStream.     *)
(*                                                                         *)
(* On the wire numbers are below 256: one byte up to 127, two from 128 on, *)
(* so that lengths in bytes differ from counts and a raw byte may look     *)
(* like a control code.  uint16 and int16 stand for the wider kinds too;   *)
(* floats are left out.                                                    *)
(***************************************************************************)
EXTENDS Integers, Sequences, SequencesExt

CONSTANT TypeTable    \* id -> [kind, key, elem, fields, names, len]

Kind(t) == TypeTable[t].kind
Key(t) == TypeTable[t].key
Elem(t) == TypeTable[t].elem
FieldType(t, index) == TypeTable[t].fields[index + 1]
NumField(t) == Len(TypeTable[t].fields)

Unsigned == {"byte", "uint16"}
Signed == {"int8", "int16"}
Number == Unsigned \cup Signed
BitLen(k) == IF k \in {"byte", "int8"} THEN 8 ELSE 16

AnyType == CHOOSE t \in DOMAIN TypeTable : Kind(t) = "any"
OptionalType(t) == CHOOSE o \in DOMAIN TypeTable : Kind(o) = "optional" /\ Elem(o) = t

IsBytes(t) == Kind(t) \in {"list", "array"} /\ Kind(Elem(t)) = "byte"

(* The types that t is directly made of. *)
Parts(t) ==
    CASE Kind(t) \in {"list", "array", "optional"} -> {Elem(t)}
      [] Kind(t) = "set" -> {Key(t)}
      [] Kind(t) = "map" -> {Key(t), Elem(t)}
      [] Kind(t) \in {"struct", "union"} -> {FieldType(t, i) : i \in 0 .. NumField(t) - 1}
      [] OTHER -> {}

RECURSIVE ContainsKind(_, _)
ContainsKind(t, kinds) == Kind(t) \in kinds \/ \E p \in Parts(t) : ContainsKind(p, kinds)

containsAny(t) == ContainsKind(t, {"any"})
containsTypeObject(t) == ContainsKind(t, {"typeobject"})

(* vdl.Compatible: the first-pass filter of conversions.  seen has the types *)
(* that were met on either side; meeting one again ends the comparison.      *)
NonOptional(t) == IF Kind(t) = "optional" THEN Elem(t) ELSE t
KindGroup(t) ==
    CASE Kind(t) \in Number -> "number"
      [] Kind(t) \in {"string", "enum"} -> "string"
      [] Kind(t) \in {"array", "list"} -> "list"
      [] OTHER -> Kind(t)

(* The fields that two structs or unions have in common, in the order of    *)
(* the one that has fewer.                                                  *)
CommonFields(a, b) ==
    LET x == IF NumField(a) > NumField(b) THEN b ELSE a
        both == SelectSeq(TypeTable[x].names, LAMBDA f :
                    Contains(TypeTable[a].names, f) /\ Contains(TypeTable[b].names, f))
        field(t, f) == TypeTable[t].fields[SelectInSeq(TypeTable[t].names, LAMBDA g : g = f)]
    IN  [i \in DOMAIN both |-> <<field(a, both[i]), field(b, both[i])>>]
PartsInPairs(a, b) ==
    CASE Kind(a) \in {"array", "list"} -> <<<<Elem(a), Elem(b)>>>>
      [] Kind(a) = "set" -> <<<<Key(a), Key(b)>>>>
      [] Kind(a) = "map" -> <<<<Key(a), Key(b)>>, <<Elem(a), Elem(b)>>>>
      [] Kind(a) \in {"struct", "union"} -> CommonFields(a, b)
      [] OTHER -> <<>>

RECURSIVE compat(_, _, _)
compatParts(pairs, r) ==
    FoldLeft(LAMBDA q, p : IF q.ok THEN compat(p[1], p[2], q.seen) ELSE q,
             [r EXCEPT !.ok = r.ok \/ pairs # <<>>], pairs)
compatTypes(a, b, seen, now) ==
    IF a = b \/ a \in seen.a \/ b \in seen.b THEN [ok |-> TRUE, seen |-> seen]
    ELSE IF AnyType \in {a, b} THEN [ok |-> TRUE, seen |-> now]
    ELSE IF KindGroup(a) # KindGroup(b) THEN [ok |-> FALSE, seen |-> now]
    ELSE compatParts(PartsInPairs(a, b),
                     [ok |-> Kind(a) \notin {"struct", "union"} \/ 0 \in {NumField(a), NumField(b)}, seen |-> now])
compatOf(a, b, seen) == compatTypes(a, b, seen, [a |-> seen.a \cup {a}, b |-> seen.b \cup {b}])
compat(x, y, seen) == compatOf(NonOptional(x), NonOptional(y), seen)
Compatible(a, b) == compat(a, b, [a |-> {}, b |-> {}]).ok

Composite == {"array", "list", "set", "map", "struct", "union", "any", "optional"}
hasChunkLen(t) == ~IsBytes(t) /\ Kind(t) \in Composite
-----------------------------------------------------------------------------
WireCtrlNil == 224
WireCtrlEnd == 225
IsControl(b) == b \in 128 .. 239

lenUint(v) == IF v <= 127 THEN 1 ELSE 2
EncodeUint(v) == IF v <= 127 THEN <<v>> ELSE <<255, v>>

(* The sign of an integer is its lowest bit. *)
EncodeInt(v) == EncodeUint(IF v < 0 THEN -2 * v - 1 ELSE 2 * v)

(* A read of bytes: whether it succeeded, what it read, what is left. *)
Read(n, rest) == [ok |-> TRUE, n |-> n, rest |-> rest]
Failed == [ok |-> FALSE, n |-> <<>>, rest |-> <<>>]

Drop(s, k) == SubSeq(s, k + 1, Len(s))

(* buf.ReadIntoBuf, Skip, ReadByte: the limit of a message and the end of   *)
(* the stream are both the end of s.                                        *)
Take(s, k) == IF Len(s) < k THEN Failed ELSE Read(SubSeq(s, 1, k), Drop(s, k))

(* binaryPeekUintByteLen; 0 stands for its error. *)
UintByteLen(s) == IF s = <<>> THEN 0 ELSE IF s[1] <= 127 THEN 1 ELSE IF s[1] = 255 THEN 2 ELSE 0

DecodeUint(s) ==
    LET k == UintByteLen(s)
    IN  IF k = 0 \/ Len(s) < k THEN Failed ELSE Read(<<s[k]>>, Drop(s, k))

DecodeInt(s) ==
    LET r == DecodeUint(s)
    IN  IF ~r.ok THEN r
        ELSE Read(<<IF r.n[1] % 2 = 1 THEN -((r.n[1] + 1) \div 2) ELSE r.n[1] \div 2>>, r.rest)

DecodeBool(s) == LET r == Take(s, 1) IN IF r.ok /\ r.n[1] <= 1 THEN r ELSE Failed

(* binaryDecodeControlOnly: is the next byte the control code want?  Any    *)
(* other control code is an error.                                          *)
ControlOnly(s, want) ==
    IF s = <<>> \/ (IsControl(s[1]) /\ s[1] # want) THEN Failed
    ELSE IF s[1] = want THEN Read(<<1>>, Tail(s)) ELSE Read(<<0>>, s)

DecodeLenOrArrayLen(s, t) ==
    LET r == DecodeUint(s)
    IN  IF Kind(t) # "array" THEN r
        ELSE IF r.ok /\ r.n = <<0>> THEN Read(<<TypeTable[t].len>>, r.rest) ELSE Failed

DecodeString(s) == LET r == DecodeUint(s) IN IF r.ok THEN Take(r.rest, r.n[1]) ELSE Failed
=============================================================================
