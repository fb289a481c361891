----------------------------- MODULE VomEncoder -----------------------------
(***************************************************************************)
(* vom/encoder.go and encoder_fast.go: a value as a message.  enc is the   *)
(* encoder81; wire holds the messages written and not read yet.  Each      *)
(* action is one call of the vdl.Encoder interface.                        *)
(***************************************************************************)
EXTENDS VomFormat

VARIABLES enc, wire

NoRef == [index |-> 0, marker |-> 0]

NewEncoder == [stack |-> <<>>, buf |-> <<>>, tids |-> <<>>, anyLens |-> <<>>, msgType |-> 0,
               nextStartValueIsOptional |-> FALSE, isParentBytes |-> FALSE, err |-> FALSE]

Entry(tt, ref) == [Type |-> tt, Index |-> -1, LenHint |-> -1, NumStarted |-> 0, AnyRef |-> ref]

EncTop(e) == e.stack[Len(e.stack)]
SetEncTop(e, top) == [e EXCEPT !.stack[Len(e.stack)] = top]

NextIsAnyByIndex(entry) ==
    LET t == entry.Type
    IN  CASE Kind(t) \in {"list", "array"} -> Elem(t) = AnyType
          [] Kind(t) = "set" -> Key(t) = AnyType
          [] Kind(t) = "map" -> (IF entry.Index % 2 = 1 THEN Key(t) ELSE Elem(t)) = AnyType
          [] Kind(t) \in {"struct", "union"} -> FieldType(t, entry.Index) = AnyType
          [] OTHER -> FALSE

(* Is the value being started, or just finished, inside an any? *)
nextValueIsAny(entry) ==
    LET t == entry.Type
    IN  CASE Kind(t) \in {"list", "array"} -> Elem(t) = AnyType
          [] Kind(t) = "set" -> Key(t) = AnyType
          [] Kind(t) = "map" -> (IF entry.NumStarted % 2 = 1 THEN Key(t) ELSE Elem(t)) = AnyType
          [] Kind(t) \in {"struct", "union"} -> FieldType(t, entry.Index) = AnyType
          [] OTHER -> FALSE

Put(e, bytes) == [e EXCEPT !.buf = @ \o bytes]

(* tids.ReferenceTypeID: the table of the message names each type once. *)
ReferenceTypeID(e, t) ==
    LET ids == IF Contains(e.tids, t) THEN e.tids ELSE Append(e.tids, t)
    IN  Put([e EXCEPT !.tids = ids], EncodeUint(SelectInSeq(ids, LAMBDA x : x = t) - 1))

StartAnyAtIndex(e) ==
    LET index == Len(e.anyLens)
    IN  [e |-> Put([e EXCEPT !.anyLens = Append(@, 0)], EncodeUint(index)),
         ref |-> [index |-> index, marker |-> Len(e.buf)]]

(* anyLens.StartAny: the length counts from after the index itself. *)
StartAny(e) ==
    LET index == Len(e.anyLens)
    IN  [e |-> Put([e EXCEPT !.anyLens = Append(@, 0)], EncodeUint(index)),
         ref |-> [index |-> index, marker |-> Len(e.buf) + lenUint(index)]]

FinishAny(e, ref) == [e EXCEPT !.anyLens[ref.index + 1] = Len(e.buf) - ref.marker]

(* The type and length references in front of a value in an any. *)
AnyHeader(e, t) == StartAny(ReferenceTypeID(e, t))

startMessage(e, t) ==
    [e EXCEPT !.buf = <<>>, !.tids = <<>>, !.anyLens = <<>>, !.msgType = t]

(* finishMessage: the header tells the types and the lengths of the anys;   *)
(* hasLen types also have the length of the value, the limit of its reader. *)
Message(e) == [type |-> e.msgType, tids |-> e.tids, anyLens |-> e.anyLens, body |-> e.buf]

(* The type that the value has for the outside: it may be optional. *)
Outer(e, t) == IF e.nextStartValueIsOptional THEN OptionalType(t) ELSE t
NotOptional(e) == [e EXCEPT !.nextStartValueIsOptional = FALSE]
Started(e) == [e EXCEPT !.stack[Len(e.stack)].NumStarted = @ + 1]
-----------------------------------------------------------------------------
SetNextStartValueIsOptional ==
    enc' = [enc EXCEPT !.nextStartValueIsOptional = TRUE] /\ UNCHANGED wire

NilValueKeepsFlag(t) ==
    LET e == Put(startMessage(enc, t), <<WireCtrlNil>>)
    IN  IF enc.stack = <<>> THEN enc' = e /\ wire' = Append(wire, Message(e))
        ELSE IF nextValueIsAny(EncTop(enc)) /\ Kind(t) = "optional"
        THEN LET h == AnyHeader(enc, t)
             IN  enc' = FinishAny(Put(h.e, <<WireCtrlNil>>), h.ref) /\ UNCHANGED wire
        ELSE enc' = Put(enc, <<WireCtrlNil>>) /\ UNCHANGED wire

(* NilValue leaves the NumStarted of the value around it alone. *)
NilValue(t) ==
    LET e == Put(startMessage(NotOptional(enc), t), <<WireCtrlNil>>)
    IN  IF enc.stack = <<>> THEN enc' = e /\ wire' = Append(wire, Message(e))
        ELSE IF nextValueIsAny(EncTop(enc)) /\ Kind(t) = "optional"
        THEN LET h == AnyHeader(NotOptional(enc), t)
             IN  enc' = FinishAny(Put(h.e, <<WireCtrlNil>>), h.ref) /\ UNCHANGED wire
        ELSE enc' = Put(NotOptional(enc), <<WireCtrlNil>>) /\ UNCHANGED wire

StartValue(t) ==
    LET push(e, ref, bytes) ==
            [NotOptional(e) EXCEPT !.stack = Append(@, Entry(t, ref)), !.isParentBytes = bytes]
    IN  /\ enc' = IF enc.stack = <<>> THEN push(startMessage(enc, Outer(enc, t)), NoRef, FALSE)
                  ELSE LET e == Started(enc)
                           h == AnyHeader(e, Outer(enc, t))
                           bytes == IsBytes(EncTop(enc).Type)
                       IN  IF nextValueIsAny(EncTop(e)) THEN push(h.e, h.ref, bytes)
                           ELSE push(e, NoRef, bytes)
        /\ UNCHANGED wire

FinishValue ==
    LET ref == EncTop(enc).AnyRef
        e == [enc EXCEPT !.stack = Front(@), !.isParentBytes = FALSE]
    IN  IF e.stack = <<>> THEN enc' = e /\ wire' = Append(wire, Message(e))
        ELSE /\ enc' = IF nextValueIsAny(EncTop(e)) THEN FinishAny(e, ref) ELSE e
             /\ UNCHANGED wire

(* The length goes in front of the first entry, or of the end. *)
Advance(e) ==
    LET top == [EncTop(e) EXCEPT !.Index = @ + 1]
        n == IF top.Index # 0 THEN <<>>
             ELSE IF Kind(top.Type) = "array" THEN EncodeUint(0)
             ELSE IF top.LenHint >= 0 THEN EncodeUint(top.LenHint) ELSE <<>>
    IN  Put(SetEncTop(e, top), n)

(* The end itself writes nothing; there is no code for the end of a list    *)
(* whose length was not known at its start.                                 *)
NextEntry(done) ==
    /\ enc' = [Advance(enc) EXCEPT
                  !.err = done /\ Kind(EncTop(enc).Type) # "array" /\ EncTop(enc).LenHint = -1]
    /\ UNCHANGED wire

AtField(e, index) == Put([e EXCEPT !.stack[Len(e.stack)].Index = index], EncodeUint(index))

NextField(index) ==
    /\ enc' = IF index # -1 THEN AtField(enc, index)
              ELSE IF Kind(EncTop(enc).Type) = "struct" THEN Put(enc, <<WireCtrlEnd>>) ELSE enc
    /\ UNCHANGED wire

SetLenHint(n) == enc' = [enc EXCEPT !.stack[Len(enc.stack)].LenHint = n] /\ UNCHANGED wire
-----------------------------------------------------------------------------
(* The bytes of a scalar, a string or bytes of type t. *)
Scalar(t, n, oneByte) ==
    CASE Kind(t) \in {"uint16", "enum"} -> EncodeUint(n[1])
      [] Kind(t) \in Signed -> EncodeInt(n[1])
      [] Kind(t) = "bool" -> n
      [] Kind(t) = "byte" -> IF oneByte THEN n ELSE EncodeUint(n[1])
      [] Kind(t) \in {"string", "list"} -> EncodeUint(Len(n)) \o n
      [] Kind(t) = "array" -> EncodeUint(0) \o n

(* EncodeUint, EncodeString, EncodeBytes and their like. *)
Encode(t, n) == enc' = Put(enc, Scalar(t, n, enc.isParentBytes)) /\ UNCHANGED wire

EncodeTypeObject(t) == enc' = ReferenceTypeID(enc, t) /\ UNCHANGED wire

(* The common part of writeValue, nextEntryValue and nextFieldValue inside  *)
(* a value: no entry is pushed.                                             *)
Inline(e0, t, n) ==
    LET e == NotOptional(Started(e0))
        bytes == Scalar(t, n, IsBytes(EncTop(e).Type))
        h == AnyHeader(e, Outer(e0, t))
    IN  IF nextValueIsAny(EncTop(e)) THEN FinishAny(Put(h.e, bytes), h.ref) ELSE Put(e, bytes)

WriteValue(t, n) ==
    IF enc.stack = <<>>
    THEN LET e == Put(NotOptional(startMessage(enc, Outer(enc, t))), Scalar(t, n, FALSE))
         IN  enc' = e /\ wire' = Append(wire, Message(e))
    ELSE enc' = Inline(enc, t, n) /\ UNCHANGED wire

NextEntryValue(t, n) == enc' = Inline(Advance(enc), t, n) /\ UNCHANGED wire
NextFieldValue(index, t, n) == enc' = Inline(AtField(enc, index), t, n) /\ UNCHANGED wire

(* writeRawBytes: the bytes and the tables they refer to are copied.  raw   *)
(* is [Type, RefTypes, AnyLengths, Data] with the lengths as they are now.  *)
WriteRawBytes(raw) ==
    LET isNil == Kind(raw.Type) \in {"any", "optional"} /\ raw.Data = <<WireCtrlNil>>
        opt == Kind(raw.Type) = "optional"
        tt == IF opt THEN Elem(raw.Type) ELSE raw.Type
        anys == containsAny(tt)
        msgType == Outer([enc EXCEPT !.nextStartValueIsOptional = @ \/ opt], tt)
        e == [startMessage(NotOptional(enc), msgType) EXCEPT
                  !.tids = IF anys \/ containsTypeObject(tt) THEN raw.RefTypes ELSE <<>>,
                  !.anyLens = IF anys THEN raw.AnyLengths ELSE <<>>,
                  !.buf = raw.Data, !.isParentBytes = FALSE]
    IN  IF isNil THEN NilValue(raw.Type) ELSE enc' = e /\ wire' = Append(wire, Message(e))
=============================================================================
