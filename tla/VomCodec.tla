------------------------------ MODULE VomCodec ------------------------------
(***************************************************************************)
(* Values written to a VOM Encoder and read from a VOM Decoder.  A session *)
(* writes and reads its messages in turn.  The writer makes the calls that *)
(* vdl/value_writer.go or vdl/reflect_writer.go makes for the value, the   *)
(* reader those of vdl/value_reader.go or vdl/reflect_reader.go as long as *)
(* each call returns what the value has there.  A RawBytes that is read is *)
(* written again as a message of its own.                                  *)
(*                                                                         *)
(* A value is [n, items]: numbers and parts.  n is the number of a scalar, *)
(* the bytes of a string or of bytes, the field indices of a struct or     *)
(* union, the type of a typeobject or of the value in an any.  items are   *)
(* the parts; keys and elements of a map take turns.                       *)
(***************************************************************************)
EXTENDS VomEncoder, VomDecoder

CONSTANTS Sessions,    \* [msgs : Seq([t, v]), writer, reader, want]: see Style
          KeepRaws     \* the program reads on before it writes a RawBytes

(* fast: the reflect writer or reader.  bytewise: bytes go entry by entry.  *)
(* raw: anys are read as RawBytes.  skip: the destination lacks field 0.    *)
(* rawMessage, skipMessage: the message is read as RawBytes, or skipped.    *)
(* Conversions: a number kind is the one that all numbers are read into;    *)
(* asBytes: lists and arrays of numbers are read into bytes; array2: bytes  *)
(* are read into an array of two; other: the first message is read into the *)
(* type want, which is incompatible with it.  noLenHint: the writer does    *)
(* not tell the lengths of its lists.                                       *)
Style == SUBSET ({"fast", "bytewise", "raw", "skip", "rawMessage", "skipMessage",
                  "asBytes", "array2", "other", "noLenHint"} \cup Number)

VARIABLES session, sent,   \* the session and how many messages are begun
          writes, reads,   \* the calls still to make for the current message
          expected,        \* what the last call of the reader should return
          fwd,             \* is the message in wire a RawBytes written again?
          rawVals,         \* what each RawBytes was read from: [t, v]
          forwarded        \* how many RawBytes have been written again

vars == <<enc, wire, dec, session, sent, writes, reads, expected, fwd, rawVals, forwarded>>
-----------------------------------------------------------------------------
NoMsg == [t |-> 0, v |-> [n |-> <<>>, items |-> <<>>]]

(* A call of the writer with its arguments.  A call of the reader with the   *)
(* kind or the type it asks for, what it should return and, for RawBytes,    *)
(* the value that it should stand for.                                       *)
Do(op, t, n) == <<[op |-> op, t |-> t, n |-> n]>>
AskFor(op, k, t, r, m) == <<[op |-> op, k |-> k, t |-> t, r |-> r, m |-> m]>>
Ask(op, k, r) == AskFor(op, k, 0, r, NoMsg)

IsNil(v) == v.items = <<>>
IsScalar(t) == Kind(t) \in Number \cup {"bool", "enum", "string"}
HasFastpath(t) == IsScalar(t) \/ IsBytes(t)

(* Type and position of the i-th part; a key and its element are one entry. *)
PartType(t, i) ==
    IF Kind(t) = "set" \/ (Kind(t) = "map" /\ i % 2 = 1) THEN Key(t) ELSE Elem(t)
OpensEntry(t, i) == Kind(t) # "map" \/ i % 2 = 1
NumEntries(t, v) == IF Kind(t) = "map" THEN Len(v.items) \div 2 ELSE Len(v.items)

Each(seq, f(_)) == FoldLeft(LAMBDA s, i : s \o f(i), <<>>, [i \in 1 .. Len(seq) |-> i])

(* Bytes as a list of numbers. *)
AsEntries(v) == [n |-> <<>>, items |-> [i \in 1 .. Len(v.n) |-> [n |-> <<v.n[i]>>, items |-> <<>>]]]

RECURSIVE Writes(_, _, _)

WriteEntries(t, v, s) ==
    (IF Kind(t) = "array" \/ "noLenHint" \in s THEN <<>> ELSE Do("SetLenHint", t, <<NumEntries(t, v)>>))
    \o Each(v.items, LAMBDA i :
          LET p == PartType(t, i)
          IN  IF OpensEntry(t, i) /\ "fast" \in s /\ HasFastpath(p)
              THEN Do("NextEntryValue", p, v.items[i].n)
              ELSE (IF OpensEntry(t, i) THEN Do("NextEntry", t, <<0>>) ELSE <<>>) \o Writes(p, v.items[i], s))
    \o Do("NextEntry", t, <<1>>)

WriteFields(t, v, s) ==
    Each(v.items, LAMBDA i :
        LET f == FieldType(t, v.n[i])
        IN  IF "fast" \in s /\ HasFastpath(f) THEN Do("NextFieldValue", f, <<v.n[i]>> \o v.items[i].n)
            ELSE Do("NextField", t, <<v.n[i]>>) \o Writes(f, v.items[i], s))
    \o Do("NextField", t, <<-1>>)

(* Value.VDLWrite and writeReflect. *)
Writes(t, v, s) ==
    CASE Kind(t) = "any" ->
           IF IsNil(v) THEN Do("NilValue", t, <<>>) ELSE Writes(v.n[1], v.items[1], s)
      [] Kind(t) = "optional" ->
           Do("SetNextStartValueIsOptional", t, <<>>)
           \o (IF IsNil(v) THEN Do("NilValue", t, <<>>) ELSE Writes(Elem(t), v.items[1], s))
      [] Kind(t) = "typeobject" ->
           Do("StartValue", t, <<>>) \o Do("EncodeTypeObject", v.n[1], <<>>) \o Do("FinishValue", t, <<>>)
      [] IsBytes(t) /\ "bytewise" \in s ->
           Do("StartValue", t, <<>>) \o WriteEntries(t, AsEntries(v), s) \o Do("FinishValue", t, <<>>)
      [] HasFastpath(t) /\ ~(IsBytes(t) /\ "bytewise" \in s) ->
           IF "fast" \in s THEN Do("WriteValue", t, v.n)
           ELSE Do("StartValue", t, <<>>) \o Do("Encode", t, v.n) \o Do("FinishValue", t, <<>>)
      [] OTHER ->
           Do("StartValue", t, <<>>)
           \o (IF Kind(t) \in {"struct", "union"} THEN WriteFields(t, v, s) ELSE WriteEntries(t, v, s))
           \o Do("FinishValue", t, <<>>)
-----------------------------------------------------------------------------
(* Decoder.Type after StartValue: any or optional only if it is nil. *)
RECURSIVE Shown(_, _)
Shown(t, v) ==
    CASE Kind(t) = "any" -> IF IsNil(v) THEN t ELSE Shown(v.n[1], v.items[1])
      [] Kind(t) = "optional" -> IF IsNil(v) THEN t ELSE Elem(t)
      [] OTHER -> t

(* The type a reader asks for: the one that was written, or one like it.    *)
Want(t, s) == IF Kind(t) # "any" /\ s \cap (Number \cup {"skip", "bytewise", "asBytes", "array2"}) # {} THEN 0 ELSE t

(* The kind that a scalar of type t is read into, and what should come out. *)
Into(t, s) == IF Kind(t) \in Number /\ s \cap Number # {} THEN CHOOSE k \in Number : k \in s ELSE Kind(t)
Converts(t, s, n, r) == IF Into(t, s) \in Number /\ ~Fits(n[1], Into(t, s)) THEN Err ELSE r

(* A list or array that is read into bytes, the length of the destination   *)
(* if it is fixed, and what should come out.                                *)
IntoBytes(t, s) ==
    \/ IsBytes(t) /\ "bytewise" \notin s
    \/ "asBytes" \in s /\ Kind(t) \in {"list", "array"} /\ Kind(Elem(t)) \in Number
FixedLen(t, s) == IF "array2" \in s THEN 2 ELSE IF Kind(t) = "array" THEN TypeTable[t].len ELSE -1
NumbersOf(t, v) == IF IsBytes(t) THEN v.n ELSE [i \in DOMAIN v.items |-> v.items[i].n[1]]
BytesRead(t, s, n) ==
    IF FixedLen(t, s) \notin {-1, Len(n)} \/ \E i \in DOMAIN n : n[i] \notin 0 .. 255 THEN Err ELSE n

RECURSIVE Reads(_, _, _, _)

ReadEntries(t, v, s) ==
    LET one(i) == "fast" \in s /\ OpensEntry(t, i) /\ IsScalar(PartType(t, i))
    IN  Each(v.items, LAMBDA i :
            IF one(i)
            THEN Ask("NextEntryValue", Into(PartType(t, i), s),
                     Converts(PartType(t, i), s, v.items[i].n, <<0>> \o v.items[i].n))
            ELSE (IF OpensEntry(t, i) THEN Ask("NextEntry", "", <<0>>) ELSE <<>>)
                 \o Reads(PartType(t, i), v.items[i], s, FALSE))
        \o (IF one(1) /\ ~(Kind(t) \in {"array", "list"} /\ Len(v.items) > 0)
            THEN Ask("NextEntryValue", Into(PartType(t, 1), s), <<1>>) ELSE Ask("NextEntry", "", <<1>>))

ReadFields(t, v, s) ==
    Each(v.items, LAMBDA i :
        Ask("NextField", "", <<v.n[i] + 1>>)
        \o (IF "skip" \in s /\ v.n[i] = 0 /\ Kind(t) = "struct" THEN Ask("SkipValue", "", <<>>)
            ELSE Reads(FieldType(t, v.n[i]), v.items[i], s, FALSE)))
    \o Ask("NextField", "", <<0>>)

Start(t, v, s) == AskFor("StartValue", "", Want(t, s), <<Shown(t, v)>>, NoMsg)

(* readIntoAny; RawBytes.VDLRead takes the value whatever it is. *)
ReadIntoAny(t, v, s) ==
    LET m == IF IsNil(v) THEN [t |-> t, v |-> v] ELSE [t |-> v.n[1], v |-> v.items[1]]
    IN  IF "raw" \in s THEN AskFor("ReadRawBytes", "", 0, <<m.t>>, m)
        ELSE Start(t, v, s) \o (IF IsNil(v) THEN Ask("FinishValue", "", <<>>) ELSE Reads(m.t, m.v, s, TRUE))

(* Value.read and readReflect; started: StartValue has been called for it. *)
Reads(t, v, s, started) ==
    LET start == IF started THEN <<>> ELSE Start(t, v, s)
        again == IF started THEN Ask("IgnoreNextStartValue", "", <<>>) ELSE <<>>
        finish == Ask("FinishValue", "", <<>>)
    IN  CASE Kind(t) = "any" -> ReadIntoAny(t, v, s)
          [] Kind(t) = "optional" ->
               start \o (IF IsNil(v) THEN finish ELSE Reads(Elem(t), v.items[1], s, TRUE))
          [] IsScalar(t) \/ Kind(t) = "typeobject" ->
               IF "fast" \in s THEN again \o Ask("ReadValue", Into(t, s), Converts(t, s, v.n, v.n))
               ELSE start \o Ask("Decode", Into(t, s), Converts(t, s, v.n, v.n)) \o finish
          [] IsBytes(t) /\ "bytewise" \in s -> start \o ReadEntries(t, AsEntries(v), s) \o finish
          [] IntoBytes(t, s) ->
               LET bytes == BytesRead(t, s, NumbersOf(t, v))
               IN  IF "fast" \in s THEN again \o AskFor("ReadValueBytes", "", FixedLen(t, s), bytes, NoMsg)
                   ELSE start \o AskFor("DecodeBytes", "", FixedLen(t, s), bytes, NoMsg) \o finish
          [] OTHER ->
               start \o (IF Kind(t) \in {"struct", "union"} THEN ReadFields(t, v, s) ELSE ReadEntries(t, v, s))
               \o finish

(* Read at the top level; Value.VDLRead looks at the type first. *)
ReadMessage(t, v, s) ==
    CASE "other" \in s -> AskFor("StartValue", "", session.want, Err, NoMsg)
      [] "rawMessage" \in s -> AskFor("ReadRawBytes", "", 0, <<t>>, [t |-> t, v |-> v])
      [] "skipMessage" \in s -> Ask("SkipValue", "", <<>>)
      [] s \cap {"fast", "rawMessage", "skipMessage", "other"} = {} ->
           AskFor("StartValue", "", AnyType, <<Shown(t, v)>>, NoMsg)
           \o Ask("IgnoreNextStartValue", "", <<>>) \o Reads(t, v, s, FALSE)
      [] "fast" \in s -> Reads(t, v, s, FALSE)
-----------------------------------------------------------------------------
Init ==
    /\ enc = NewEncoder /\ wire = <<>> /\ dec = NewDecoder
    /\ session \in Sessions
    /\ sent = 0 /\ writes = <<>> /\ reads = <<>> /\ expected = <<>>
    /\ fwd = FALSE /\ rawVals = <<>> /\ forwarded = 0

Idle == wire = <<>> /\ writes = <<>> /\ OK(dec)

(* Encoder.Encode is called with the next value. *)
WriteMessage ==
    /\ Idle /\ sent < Len(session.msgs)
    /\ KeepRaws \/ forwarded = Len(dec.raws)
    /\ sent' = sent + 1
    /\ writes' = Writes(session.msgs[sent + 1].t, session.msgs[sent + 1].v, session.writer)
    /\ UNCHANGED <<enc, wire, dec, session, reads, expected, fwd, rawVals, forwarded>>

Arg == Head(writes)
WriterMakes(op) == Arg.op = op

(* After its last call the message is on its way to the reader. *)
WriterNext ==
    /\ writes' = Tail(writes)
    /\ reads' = IF Len(writes) > 1 THEN <<>>
                ELSE ReadMessage(session.msgs[sent].t, session.msgs[sent].v, session.reader)
    /\ fwd' = FALSE
    /\ UNCHANGED <<dec, session, sent, expected, rawVals, forwarded>>

EncodeCall ==
    /\ writes # <<>> /\ ~enc.err
    /\ \/ WriterMakes("StartValue") /\ StartValue(Arg.t)
       \/ WriterMakes("FinishValue") /\ FinishValue
       \/ WriterMakes("NilValue") /\ NilValue(Arg.t)
       \/ WriterMakes("SetNextStartValueIsOptional") /\ SetNextStartValueIsOptional
       \/ WriterMakes("SetLenHint") /\ SetLenHint(Arg.n[1])
       \/ WriterMakes("NextEntry") /\ NextEntry(Arg.n = <<1>>)
       \/ WriterMakes("NextField") /\ NextField(Arg.n[1])
       \/ WriterMakes("Encode") /\ Encode(Arg.t, Arg.n)
       \/ WriterMakes("EncodeTypeObject") /\ EncodeTypeObject(Arg.t)
       \/ WriterMakes("WriteValue") /\ WriteValue(Arg.t, Arg.n)
       \/ WriterMakes("NextEntryValue") /\ NextEntryValue(Arg.t, Arg.n)
       \/ WriterMakes("NextFieldValue") /\ NextFieldValue(Arg.n[1], Arg.t, Tail(Arg.n))
    /\ WriterNext

Asked == Head(reads)
ReaderMakes(op) == Asked.op = op

ReaderNext ==
    /\ reads' = Tail(reads)
    /\ expected' = Asked.r
    /\ rawVals' = IF Asked.op = "ReadRawBytes" THEN Append(rawVals, Asked.m) ELSE rawVals
    /\ UNCHANGED <<enc, wire, session, sent, writes, fwd, forwarded>>

DecodeCall ==
    /\ reads # <<>> /\ OK(dec)
    /\ \/ ReaderMakes("StartValue") /\ DecStartValue(wire, Asked.t)
       \/ ReaderMakes("FinishValue") /\ DecFinishValue
       \/ ReaderMakes("IgnoreNextStartValue") /\ IgnoreNextStartValue
       \/ ReaderMakes("NextEntry") /\ DecNextEntry
       \/ ReaderMakes("NextField") /\ DecNextField
       \/ ReaderMakes("Decode") /\ Decode(Asked.k)
       \/ ReaderMakes("DecodeBytes") /\ DecodeBytes(Asked.t)
       \/ ReaderMakes("ReadValue") /\ ReadValue(wire, Asked.k)
       \/ ReaderMakes("ReadValueBytes") /\ ReadValueBytes(wire, Asked.t)
       \/ ReaderMakes("NextEntryValue") /\ NextEntryValueDec(Asked.k)
       \/ ReaderMakes("SkipValue") /\ SkipValue(wire)
       \/ ReaderMakes("ReadRawBytes") /\ ReadRawBytes(wire)
    /\ ReaderNext

(* Decoder.Decode has returned. *)
MessageRead ==
    /\ wire # <<>> /\ reads = <<>> /\ OK(dec)
    /\ wire' = Tail(wire) /\ dec' = Return(dec, <<>>) /\ expected' = <<>>
    /\ UNCHANGED <<enc, session, sent, writes, reads, fwd, rawVals, forwarded>>

(* RawBytes.VDLWrite to an encoder that is not in a value. *)
Forward ==
    /\ Idle /\ forwarded < Len(dec.raws)
    /\ KeepRaws => sent = Len(session.msgs)
    /\ WriteRawBytes(RawContent(dec, dec.raws[forwarded + 1]))
    /\ forwarded' = forwarded + 1
    /\ LET m == rawVals[forwarded + 1]
           raw == IF Kind(m.t) = "any" THEN {} ELSE session.reader \cap {"raw"}
       IN  reads' = ReadMessage(m.t, m.v, {"fast"} \cup raw)
    /\ fwd' = TRUE
    /\ UNCHANGED <<dec, session, sent, writes, expected, rawVals>>

Done ==
    /\ ~OK(dec) \/ enc.err \/ (Idle /\ sent = Len(session.msgs) /\ forwarded = Len(dec.raws))
    /\ UNCHANGED vars

Next == WriteMessage \/ EncodeCall \/ DecodeCall \/ MessageRead \/ Forward \/ Done

Spec == Init /\ [][Next]_vars
-----------------------------------------------------------------------------
(* A reader gets back the value that was written, call by call and without  *)
(* an error: whichever of the writers wrote it and whichever of the readers *)
(* reads it, with the calls that combine others mixed with plain ones, with *)
(* parts skipped or taken as RawBytes, and whatever message came before.    *)
(* The combined calls are documented as the sequence of the plain ones.     *)
(* With a destination of another type a call fails where the number does    *)
(* not fit, the length is another or the types are incompatible, and there  *)
(* only.                                                                    *)
Decodes == ~fwd => dec.ret = expected

(* A RawBytes stands for the value it was read from: written to an Encoder  *)
(* as a message of its own, with the tables of the message it came from, it *)
(* is read back as that value, and again if it is taken apart once more.    *)
ForwardedDecodes == fwd => dec.ret = expected

(* Nothing of a message is left in the Encoder or the Decoder for the next  *)
(* one: no open value, no pending flag, no table of types or lengths.       *)
NothingCarriedOver ==
    /\ writes = <<>> => enc.stack = <<>> /\ ~enc.nextStartValueIsOptional /\ ~enc.isParentBytes
    /\ wire = <<>> => /\ dec.stack = <<>> /\ dec.in = <<>> /\ dec.refTypes = <<>>
                     /\ dec.refAnyLens.len = 0
                     /\ ~dec.ignoreNextStartValue /\ ~dec.isParentBytes
=============================================================================
