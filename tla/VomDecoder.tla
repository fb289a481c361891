----------------------------- MODULE VomDecoder -----------------------------
(***************************************************************************)
(* vom/decoder.go, decoder_util.go, decoder_fast_read.go and               *)
(* decoder_fast_next.go.  dec is the decoder81; each operation is one call *)
(* of the vdl.Decoder interface and leaves what the call returns in        *)
(* dec.ret: a sequence of numbers, or Err, after which the decoder is not  *)
(* used any more.                                                          *)
(*                                                                         *)
(* refAnyLens is a Go slice: the first len elements of array a.  heap has  *)
(* the arrays; a RawBytes keeps a slice of one of them.                    *)
(***************************************************************************)
EXTENDS VomFormat

VARIABLE dec

Err == <<-1, -1>>

NewDecoder == [in |-> <<>>, stack |-> <<>>, refTypes |-> <<>>, refAnyLens |-> [a |-> 0, len |-> 0],
               heap |-> <<>>, ignoreNextStartValue |-> FALSE, isParentBytes |-> FALSE,
               raws |-> <<>>, ret |-> <<>>]

Slice(heap, s) == IF s.len = 0 THEN <<>> ELSE SubSeq(heap[s.a], 1, s.len)

(* refAnyLens.AddAnyLen: append, which writes into the array while it has   *)
(* room and moves to one of twice the size otherwise.                       *)
AddAnyLen(d, n) ==
    LET s == d.refAnyLens
        size == IF s.a = 0 THEN 0 ELSE Len(d.heap[s.a])
        full == Slice(d.heap, s) \o <<n>>
        larger == full \o [i \in 1 .. (IF size = 0 THEN 0 ELSE size - 1) |-> 0]
    IN  IF s.len < size
        THEN [d EXCEPT !.heap[s.a][s.len + 1] = n, !.refAnyLens.len = @ + 1]
        ELSE [d EXCEPT !.heap = Append(@, larger),
                       !.refAnyLens = [a |-> Len(d.heap) + 1, len |-> s.len + 1]]

DecTop(d) == d.stack[Len(d.stack)]
Fail(d) == [d EXCEPT !.ret = Err]
Return(d, n) == [d EXCEPT !.ret = n]
OK(d) == d.ret # Err

(* nextMessage: the header of the message and then its bytes. *)
nextMessage(d, m) ==
    FoldLeft(AddAnyLen, [d EXCEPT !.in = m.body, !.refTypes = @ \o m.tids], m.anyLens)

(* endMessage: bytes left over are an error, or the next message's header.  *)
endMessage(d) ==
    IF d.in # <<>> THEN Fail(d) ELSE [d EXCEPT !.refTypes = <<>>, !.refAnyLens.len = 0]

(* dfsNextType inside a value: the type of the next part. *)
NextPartType(top) ==
    CASE Kind(top.Type) \in {"array", "list"} -> Elem(top.Type)
      [] Kind(top.Type) = "set" -> Key(top.Type)
      [] Kind(top.Type) = "map" -> IF top.IsMapKey THEN Elem(top.Type) ELSE Key(top.Type)
      [] Kind(top.Type) \in {"struct", "union"} -> FieldType(top.Type, top.Index)
FlipIsMapKey(d) ==
    IF Kind(DecTop(d).Type) = "map" THEN [d EXCEPT !.stack[Len(d.stack)].IsMapKey = ~@] ELSE d

(* Init of a call: at the top level it takes the next message. *)
Dfs(d, msgs) ==
    IF d.stack = <<>> THEN [d |-> nextMessage(d, msgs[1]), tt |-> msgs[1].type]
    ELSE [d |-> FlipIsMapKey(d), tt |-> NextPartType(DecTop(d))]

(* readAnyHeader: the type of an any's value and its length in bytes; the   *)
(* type is AnyType if it is nil.                                            *)
NoHeader == [ok |-> FALSE, tt |-> AnyType, len |-> 0, rest |-> <<>>]
HeaderAt(d, i, j) ==
    IF ~i.ok \/ ~j.ok \/ i.n[1] >= Len(d.refTypes) \/ j.n[1] >= d.refAnyLens.len THEN NoHeader
    ELSE [ok |-> TRUE, tt |-> d.refTypes[i.n[1] + 1], len |-> d.heap[d.refAnyLens.a][j.n[1] + 1], rest |-> j.rest]
readAnyHeader(d) ==
    LET c == ControlOnly(d.in, WireCtrlNil)
        i == DecodeUint(c.rest)
    IN  IF ~c.ok THEN NoHeader
        ELSE IF c.n = <<1>> THEN [ok |-> TRUE, tt |-> AnyType, len |-> 0, rest |-> c.rest]
        ELSE HeaderAt(d, i, DecodeUint(i.rest))

(* isFastReadParent: the parts of t are not any, enum or byte. *)
isFastReadParent(t) ==
    /\ Kind(t) \in {"array", "list", "set", "map", "struct", "union"}
    /\ \A p \in Parts(t) : Kind(p) \notin {"any", "enum", "byte"}

(* The length of a value of type t. *)
EntryLen(t, rest) ==
    CASE Kind(t) \in {"array", "list", "set", "map"} -> DecodeLenOrArrayLen(rest, t)
      [] Kind(t) = "union" -> Read(<<1>>, rest)
      [] Kind(t) = "struct" -> Read(<<NumField(t)>>, rest)
      [] OTHER -> Read(<<-1>>, rest)

(* The check that a message or an any can be read as the type asked for.    *)
Incompatible(d, t, want, tt) ==
    /\ want # 0 /\ (d.stack = <<>> \/ Kind(t) = "any")
    /\ Kind(want) \in {"optional", "array", "list", "set", "map", "struct", "union"}
    /\ tt # want /\ ~Compatible(tt, want)

(* setupType: through any and optional to the type of the value; lengths.   *)
(* want is the type asked for, 0 if there is none or one that is known to   *)
(* be compatible.  An entry for the value is what is set up.                *)
Setup(d, t, want, tt, l) ==
    IF ~l.ok \/ Incompatible(d, t, want, tt)
    THEN [d |-> Fail(d), tt |-> tt, len |-> 0, isAny |-> FALSE, fast |-> FALSE]
    ELSE [d |-> [d EXCEPT !.in = l.rest, !.isParentBytes = d.stack # <<>> /\ IsBytes(DecTop(d).Type)],
          tt |-> tt, len |-> l.n[1], isAny |-> Kind(t) = "any",
          fast |-> d.stack = <<>> /\ Kind(t) # "any" /\ want = tt /\ isFastReadParent(tt)]
(* Through an optional that is not nil: the type of the value and its length. *)
Inner(tt, l) == [tt |-> tt, l |-> l]
InnerOf(h) ==
    CASE ~h.ok \/ (Kind(h.tt) = "optional" /\ h.rest = <<>>) -> Inner(h.tt, Failed)
      [] h.ok /\ Kind(h.tt) = "optional" /\ h.rest # <<>> ->
           IF h.rest[1] = WireCtrlNil THEN Inner(h.tt, Read(<<-1>>, Tail(h.rest)))
           ELSE Inner(Elem(h.tt), EntryLen(Elem(h.tt), h.rest))
      [] h.ok /\ Kind(h.tt) # "optional" -> Inner(h.tt, EntryLen(h.tt, h.rest))
SetupInner(d, t, want, inner) == Setup(d, t, want, inner.tt, inner.l)
setupType(d, t, want) ==
    SetupInner(d, t, want, InnerOf(IF Kind(t) = "any" THEN readAnyHeader(d)
                                   ELSE [ok |-> TRUE, tt |-> t, len |-> 0, rest |-> d.in]))

(* The next value as a call finds it. *)
SetupNext(next, want) == setupType(next.d, next.tt, want)

DecEntry(tt, len, fast) ==
    [Type |-> tt, Index |-> -1, LenHint |-> len, IsMapKey |-> FALSE, FastRead |-> fast,
     NextEntryType |-> 0, NextEntryBytes |-> FALSE]
Opened(s) ==
    IF OK(s.d) THEN Return([s.d EXCEPT !.stack = Append(@, DecEntry(s.tt, s.len, s.fast))], <<s.tt>>) ELSE s.d

ClearFinish(d) == [d EXCEPT !.ignoreNextStartValue = FALSE, !.isParentBytes = FALSE]
-----------------------------------------------------------------------------
IgnoreNextStartValue == dec' = Return([dec EXCEPT !.ignoreNextStartValue = TRUE], <<>>)

(* StartValue; Type, which says if the value is nil, is what it returns. *)
DecStartValue(msgs, want) ==
    IF dec.ignoreNextStartValue
    THEN dec' = Return([dec EXCEPT !.ignoreNextStartValue = FALSE], <<DecTop(dec).Type>>)
    ELSE dec' = Opened(SetupNext(Dfs(Return(dec, <<>>), msgs), want))

Finished(d) ==
    LET e == [ClearFinish(d) EXCEPT !.stack = Front(@)]
    IN  IF e.stack = <<>> THEN endMessage(e) ELSE e

DecFinishValue == dec' = Finished(Return(dec, <<>>))

(* NextEntry returns whether the entries are done. *)
DecNextEntry ==
    LET top == [DecTop(dec) EXCEPT !.Index = @ + 1]
        d == [dec EXCEPT !.stack[Len(dec.stack)] = top]
    IN  dec' = IF Kind(top.Type) \notin {"array", "list", "set", "map"} \/ top.Index > top.LenHint
               THEN Fail(d)
               ELSE Return(d, <<IF top.Index = top.LenHint THEN 1 ELSE 0>>)

(* NextField returns the index of the field, -1 at the end: as index + 1.   *)
FieldAt(index, len, rest) ==
    [dec EXCEPT !.in = rest, !.stack[Len(dec.stack)].Index = index, !.stack[Len(dec.stack)].LenHint = len]
FieldRead(i, top) ==
    IF ~i.ok \/ i.n[1] >= NumField(top.Type) THEN Fail(dec)
    ELSE Return(FieldAt(i.n[1], IF Kind(top.Type) = "struct" THEN top.LenHint ELSE i.n[1] + 1, i.rest), <<i.n[1] + 1>>)
StructField(end, top) ==
    IF ~end.ok THEN Fail(dec)
    ELSE IF end.n = <<1>> THEN Return(FieldAt(top.LenHint, top.LenHint, end.rest), <<0>>)
    ELSE FieldRead(DecodeUint(end.rest), top)
DecNextField ==
    LET top == DecTop(dec)
        index == top.Index + 1
    IN  dec' = IF Kind(top.Type) \notin {"struct", "union"} \/ index > top.LenHint THEN Fail(dec)
               ELSE IF Kind(top.Type) = "struct" THEN StructField(ControlOnly(dec.in, WireCtrlEnd), top)
               ELSE IF index = top.LenHint THEN Return(FieldAt(index, index, dec.in), <<0>>)
               ELSE FieldRead(DecodeUint(dec.in), top)
-----------------------------------------------------------------------------
(* Which Decode method, up to the bits, reads into a destination of kind k, *)
(* and which one can read a value of kind k.                                *)
Method(k) ==
    CASE k \in Number -> "number" [] k \in {"string", "enum"} -> "string" [] OTHER -> k

(* The shifts of decodeUint and decodeInt: x has the bits and the sign of k. *)
Fits(x, k) ==
    IF k \in Signed THEN -(2 ^ (BitLen(k) - 1)) <= x /\ x < 2 ^ (BitLen(k) - 1)
    ELSE 0 <= x /\ x < 2 ^ BitLen(k)

(* The bytes of a value of type t as Decode* reads them. *)
AsUint(d, t, i) ==
    CASE Kind(t) = "enum" -> IF i.ok /\ i.n[1] < TypeTable[t].len THEN i ELSE Failed
      [] Kind(t) = "typeobject" ->
            IF i.ok /\ i.n[1] < Len(d.refTypes) THEN Read(<<d.refTypes[i.n[1] + 1]>>, i.rest) ELSE Failed
      [] OTHER -> i
ReadScalar(d, t, oneByte) ==
    CASE Kind(t) = "bool" -> DecodeBool(d.in)
      [] Kind(t) = "byte" /\ oneByte -> Take(d.in, 1)
      [] Kind(t) \in {"uint16", "enum", "typeobject"} \/ (Kind(t) = "byte" /\ ~oneByte) ->
            AsUint(d, t, DecodeUint(d.in))
      [] Kind(t) \in Signed -> DecodeInt(d.in)
      [] Kind(t) = "string" -> DecodeString(d.in)
      [] OTHER -> Failed

Apply(d, r) == IF r.ok THEN Return([d EXCEPT !.in = r.rest], r.n) ELSE Fail(d)

(* A number is converted to the destination's kind k, or it loses precision. *)
Convert(d, k, r) == IF k \in Number /\ r.ok /\ ~Fits(r.n[1], k) THEN Fail(d) ELSE Apply(d, r)
Decoded(d, t, k, oneByte) ==
    IF Method(Kind(t)) # Method(k) THEN Fail(d) ELSE Convert(d, k, ReadScalar(d, t, oneByte))

(* DecodeUint, DecodeString and their like, into a destination of kind k.   *)
Decode(k) == dec' = Decoded(dec, DecTop(dec).Type, k, dec.isParentBytes)

(* ReadValueUint and its like.  FastRead decodes what the method is for,    *)
(* and does not flip IsMapKey.                                              *)
FastKind(k) ==
    CASE k \in Unsigned -> "uint16" [] k \in Signed -> "int16"
      [] k \in {"string", "enum"} -> "string" [] OTHER -> k
ReadFast(d, k) ==
    Apply(d, ReadScalar(d, CHOOSE t \in DOMAIN TypeTable : Kind(t) = FastKind(k), FALSE))

ReadSetUp(s, k) == IF OK(s.d) THEN Decoded(s.d, s.tt, k, s.d.isParentBytes) ELSE s.d

ReadDone(d, isOnStack) ==
    IF ~OK(d) THEN d
    ELSE IF isOnStack THEN Finished(d)
    ELSE IF d.stack = <<>> THEN endMessage(ClearFinish(d)) ELSE ClearFinish(d)

ReadValue(msgs, k) ==
    dec' = ReadDone(IF dec.stack # <<>> /\ DecTop(dec).FastRead THEN ReadFast(dec, k)
                    ELSE IF dec.ignoreNextStartValue THEN Decoded(dec, DecTop(dec).Type, k, dec.isParentBytes)
                    ELSE ReadSetUp(SetupNext(Dfs(Return(dec, <<>>), msgs), 0), k),
                    dec.ignoreNextStartValue)

(* NextEntryValueUint and its like: the type of the entries is looked at    *)
(* once, unless they are any.  Returns done, or 0 and the value.            *)
FirstEntry(s, k) ==
    IF ~OK(s.d) THEN s.d
    ELSE Decoded([s.d EXCEPT !.stack[Len(s.d.stack)].NextEntryType = IF s.isAny THEN 0 ELSE s.tt,
                             !.stack[Len(s.d.stack)].NextEntryBytes = s.d.isParentBytes],
                 s.tt, k, s.d.isParentBytes)
NotDone(d) == IF OK(d) THEN Return(d, <<0>> \o d.ret) ELSE d
EntryValue(d, top, k) ==
    IF top.Index = top.LenHint THEN Return(d, <<1>>)
    ELSE IF top.NextEntryType # 0
    THEN NotDone(Decoded(FlipIsMapKey(d), top.NextEntryType, k,
                         IF k \in Unsigned THEN top.NextEntryBytes ELSE d.isParentBytes))
    ELSE IF KindGroup(top.Type) \notin {"list", "set", "map"} THEN Fail(d)
    ELSE NotDone(FirstEntry(setupType(FlipIsMapKey(d), NextPartType(top), 0), k))
EntryValueOf(d, k) ==
    EntryValue(Return([d EXCEPT !.stack[Len(d.stack)].Index = @ + 1], <<>>),
               [DecTop(d) EXCEPT !.Index = @ + 1], k)
NextEntryValueDec(k) == dec' = EntryValueOf(dec, k)
-----------------------------------------------------------------------------
(* Bytes; fixedLen is the length of an array to fill, or -1. *)

(* decodeBytes: from bytes. *)
BytesOf(d, len, fixedLen) ==
    IF len = -1 \/ (fixedLen >= 0 /\ fixedLen # len) THEN Fail(d) ELSE Apply(d, Take(d.in, len))

(* vdl.DecodeConvertedBytes: from a list or array of other numbers. *)
RECURSIVE ConvertedBytes(_, _, _)
ByteRead(r, fixedLen, buf) ==
    LET done == r.ret = <<1>>
    IN  IF ~OK(r) \/ (fixedLen >= 0 /\ done # (Len(buf) >= fixedLen)) THEN Fail(r)
        ELSE IF done THEN Return(r, buf) ELSE ConvertedBytes(r, fixedLen, Append(buf, r.ret[2]))
ConvertedBytes(d, fixedLen, buf) == ByteRead(EntryValueOf(d, "byte"), fixedLen, buf)

TopBytes(d, fixedLen) ==
    IF IsBytes(DecTop(d).Type) THEN BytesOf(d, DecTop(d).LenHint, fixedLen) ELSE ConvertedBytes(d, fixedLen, <<>>)

DecodeBytes(fixedLen) == dec' = TopBytes(dec, fixedLen)

ByteList == CHOOSE t \in DOMAIN TypeTable : Kind(t) = "list" /\ IsBytes(t)
FinishIfOK(d) == IF OK(d) THEN Finished(d) ELSE d
EndIfTop(d) == IF OK(d) /\ d.stack = <<>> THEN endMessage(d) ELSE d

(* ReadValueBytes: no entry is pushed for bytes, and one for what has to be *)
(* converted.                                                               *)
BytesSetUp(s, fixedLen) ==
    IF ~OK(s.d) THEN s.d
    ELSE IF IsBytes(s.tt) THEN EndIfTop([BytesOf(s.d, s.len, fixedLen) EXCEPT !.isParentBytes = FALSE])
    ELSE IF ~Compatible(s.tt, ByteList) THEN Fail(s.d)
    ELSE FinishIfOK(ConvertedBytes(Opened(s), fixedLen, <<>>))
ReadValueBytes(msgs, fixedLen) ==
    dec' = IF dec.ignoreNextStartValue
           THEN FinishIfOK(TopBytes([dec EXCEPT !.ignoreNextStartValue = FALSE], fixedLen))
           ELSE BytesSetUp(SetupNext(Dfs(Return(dec, <<>>), msgs), 0), fixedLen)
-----------------------------------------------------------------------------
(* peekValueByteLen: how many bytes the message has; 0 if it cannot tell.   *)
peekValueByteLen(d, t) ==
    IF hasChunkLen(t) THEN Len(d.in)
    ELSE IF Kind(t) = "array" THEN TypeTable[t].len + 1
    ELSE IF Kind(t) \in {"string", "list"}
    THEN LET r == DecodeUint(d.in) IN IF r.ok THEN r.n[1] + UintByteLen(d.in) ELSE 0
    ELSE UintByteLen(d.in)

RECURSIVE skipValue(_, _, _)

SkipParts(d, ts, s0) ==
    FoldLeft(LAMBDA r, t : IF r.ok THEN skipValue(d, t, r.rest) ELSE r, Read(<<>>, s0), ts)

(* The fields of a struct, up to the end code. *)
RECURSIVE SkipFields(_, _, _)
SkipFields(d, t, s) ==
    LET end == ControlOnly(s, WireCtrlEnd)
        i == DecodeUint(end.rest)
        r == skipValue(d, FieldType(t, i.n[1]), i.rest)
    IN  IF ~end.ok THEN Failed
        ELSE IF end.n = <<1>> THEN Read(<<>>, end.rest)
        ELSE IF ~i.ok \/ i.n[1] >= NumField(t) THEN Failed
        ELSE IF r.ok THEN SkipFields(d, t, r.rest) ELSE Failed

(* skipValue: past a value of type t at the beginning of s.  In an any it   *)
(* reads the index of the type, and not the index of the length.            *)
skipValue(d, t, s) ==
    LET len == DecodeLenOrArrayLen(s, t)
        i == DecodeUint(s)
        nil == ControlOnly(s, WireCtrlNil)
        parts == CASE Kind(t) = "set" -> <<Key(t)>>
                   [] Kind(t) = "map" -> <<Key(t), Elem(t)>>
                   [] OTHER -> <<Elem(t)>>
    IN  CASE IsBytes(t) -> IF len.ok THEN Take(len.rest, len.n[1]) ELSE Failed
          [] Kind(t) \in Number \cup {"enum", "typeobject"} -> i
          [] Kind(t) = "bool" -> Take(s, 1)
          [] Kind(t) = "string" -> DecodeString(s)
          [] Kind(t) \in {"array", "list", "set", "map"} /\ ~IsBytes(t) ->
               IF ~len.ok THEN Failed
               ELSE SkipParts(d, FoldLeft(LAMBDA ps, x : ps \o parts, <<>>, [x \in 1 .. len.n[1] |-> x]), len.rest)
          [] Kind(t) = "struct" -> SkipFields(d, t, s)
          [] Kind(t) = "union" ->
               IF i.ok /\ i.n[1] < NumField(t) THEN skipValue(d, FieldType(t, i.n[1]), i.rest) ELSE Failed
          [] Kind(t) = "optional" ->
               IF s = <<>> THEN Failed
               ELSE IF s[1] = WireCtrlNil THEN Read(<<>>, Tail(s)) ELSE skipValue(d, Elem(t), s)
          [] Kind(t) = "any" ->
               IF ~nil.ok THEN Failed
               ELSE IF nil.n = <<1>> THEN Read(<<>>, nil.rest)
               ELSE IF i.ok /\ i.n[1] < Len(d.refTypes) THEN skipValue(d, d.refTypes[i.n[1] + 1], i.rest) ELSE Failed

SkipMessage(d) == IF OK(d) THEN endMessage(Return(d, <<>>)) ELSE d
SkipPart(d, r) == IF r.ok THEN Return([d EXCEPT !.in = r.rest], <<>>) ELSE Fail(d)
SkipNext(next) ==
    IF next.d.stack = <<>>
    THEN SkipMessage(Apply(next.d, Take(next.d.in, peekValueByteLen(next.d, next.tt))))
    ELSE SkipPart(next.d, skipValue(next.d, next.tt, next.d.in))
SkipValue(msgs) == dec' = SkipNext(Dfs(Return(dec, <<>>), msgs))
-----------------------------------------------------------------------------
(* decodeRaw: the bytes, and the tables that they refer to.  The lengths    *)
(* are the decoder's own slice, not a copy.                                 *)
decodeRaw(d, t, len) ==
    LET r == Take(d.in, len)
        raw == [Type |-> t, RefTypes |-> d.refTypes, AnyLengths |-> d.refAnyLens, Data |-> r.n]
    IN  IF r.ok THEN Return([d EXCEPT !.in = r.rest, !.raws = Append(@, raw)], <<t>>) ELSE Fail(d)

NilRaw == [Type |-> AnyType, RefTypes |-> <<>>, AnyLengths |-> [a |-> 0, len |-> 0], Data |-> <<WireCtrlNil>>]

(* readRawBytes: a whole message, or the value of an any, which may itself  *)
(* be an optional; returns its type.                                        *)
RawFromAny(d, h) ==
    IF ~h.ok THEN Fail(d)
    ELSE IF h.tt = AnyType THEN Return([d EXCEPT !.in = h.rest, !.raws = Append(@, NilRaw)], <<AnyType>>)
    ELSE decodeRaw([d EXCEPT !.in = h.rest], h.tt, h.len)
RawNext(next) ==
    IF next.d.stack = <<>> THEN EndIfTop(decodeRaw(next.d, next.tt, peekValueByteLen(next.d, next.tt)))
    ELSE IF Kind(next.tt) # "any" THEN Fail(next.d) ELSE RawFromAny(next.d, readAnyHeader(next.d))
ReadRawBytes(msgs) ==
    dec' = IF dec.ignoreNextStartValue THEN Fail(dec) ELSE RawNext(Dfs(Return(dec, <<>>), msgs))

(* What a RawBytes holds now: its lengths are what the array has. *)
RawContent(d, raw) == [raw EXCEPT !.AnyLengths = Slice(d.heap, raw.AnyLengths)]
=============================================================================
