----------------------------- MODULE VdlConvert -----------------------------
(***************************************************************************)
(* vdl.Convert: Write(enc, src) and Read(dec, dst) in two goroutines with  *)
(* a VdlPipe between them.  The writer is the sequence of calls that       *)
(* value_writer.go makes for a value; the reader is value_reader.go,       *)
(* driven by what it finds.  Either side may fail in the middle.           *)
(*                                                                         *)
(* A value is [kind, items].  The items of a scalar, of bytes and of nil   *)
(* are plain data; of an array or list the elements; of a map keys and     *)
(* elements in turn; of a struct or union the fields present, as           *)
(* [index, value].                                                         *)
(***************************************************************************)
EXTENDS VdlPipe, SequencesExt

CONSTANTS Source,    \* the values to convert
          Unknown    \* the field indices the destination does not have

VARIABLES src,       \* the value being written
          wpos,      \* how many calls the writer has made
          rmode,     \* what the reader does next
          rstack,    \* the values it is in: [kind, items so far, len], where
                     \* readList has given the list len elements at its start
          ropened,   \* VDLRead has made its own StartValue call
          rval       \* what it has read: a sequence of one value at the end

readVars == <<rmode, rstack, ropened, rval>>
vars == <<pipeVars, src, wpos, readVars>>
-----------------------------------------------------------------------------
(* value_writer.go and the WriteValue, NextEntryValue and NextFieldValue    *)
(* helpers of pipe_fast.go: a value as calls of the Encoder.                *)

Call(op, arg) == <<[op |-> op, arg |-> arg]>>

RECURSIVE Calls(_)

WriteEntries(es) == FoldLeft(LAMBDA s, e : s \o Call("NextEntry", FALSE) \o Calls(e), <<>>, es)

(* One NextEntry for a key and its element. *)
WritePairs(es) ==
    FoldLeft(LAMBDA s, i : s \o (IF i % 2 = 1 THEN Call("NextEntry", FALSE) ELSE <<>>) \o Calls(es[i]),
             <<>>, [i \in 1 .. Len(es) |-> i])

WriteFields(fs) ==
    FoldLeft(LAMBDA s, f : s \o Call("NextField", f.index) \o Calls(f.value), <<>>, fs)

Calls(v) ==
    Call("StartValue", v.kind)
    \o (CASE v.kind = "scalar" -> Call("EncodeScalar", v.items[1])
          [] v.kind = "bytes"  -> Call("EncodeBytes", v.items)
          [] v.kind = "nil"    -> Call("SetNil", 0)
          [] v.kind = "array"  -> WriteEntries(v.items) \o Call("NextEntry", TRUE)
          [] v.kind = "list"   -> Call("SetLenHint", Len(v.items))
                                  \o WriteEntries(v.items) \o Call("NextEntry", TRUE)
          [] v.kind = "map"    -> Call("SetLenHint", Len(v.items) \div 2)
                                  \o WritePairs(v.items) \o Call("NextEntry", TRUE)
          [] v.kind = "struct" -> WriteFields(v.items) \o Call("NextField", -1))
    \o Call("FinishValue", 0)

(* What Convert promises: the same value, without the unknown fields. *)
RECURSIVE Converted(_)
Converted(v) ==
    [v EXCEPT !.items =
        CASE v.kind \in {"array", "list", "map"} -> [i \in DOMAIN @ |-> Converted(@[i])]
          [] v.kind = "struct" ->
               LET known == SelectSeq(@, LAMBDA f : f.index \notin Unknown)
               IN  [i \in DOMAIN known |-> [known[i] EXCEPT !.value = Converted(@)]]
          [] OTHER -> @]
-----------------------------------------------------------------------------
Init ==
    /\ PipeInit
    /\ src \in Source
    /\ wpos = 0
    /\ rmode = "start" /\ rstack = <<>> /\ ropened = FALSE /\ rval = <<>>

(* The writer makes its next call. *)
WriterCall ==
    /\ wpos < Len(Calls(src))
    /\ wpos' = wpos + 1
    /\ LET c == Calls(src)[wpos + 1]
       IN  \/ c.op = "StartValue" /\ EncStartValue(c.arg)
           \/ c.op = "FinishValue" /\ EncFinishValue
           \/ c.op = "NextEntry" /\ EncNextEntry(c.arg)
           \/ c.op = "NextField" /\ EncNextField(c.arg)
           \/ c.op = "EncodeScalar" /\ EncodeScalar(c.arg)
           \/ c.op = "EncodeBytes" /\ EncodeBytes(c.arg)
           \/ c.op = "SetLenHint" /\ EncSetLenHint(c.arg)
           \/ c.op = "SetNil" /\ EncSetNil
    /\ UNCHANGED <<src, readVars>>

WriterResumes == (EncStartResume \/ EncFinishResume) /\ UNCHANGED <<src, wpos, readVars>>

(* Write returns nil, or the error of a pipe call; the goroutine closes.    *)
WriterCloses ==
    /\ (epc = "run" /\ wpos = Len(Calls(src))) \/ epc = "fail"
    /\ EncClose(IF epc = "fail" THEN Err ELSE "nil")
    /\ UNCHANGED <<src, wpos, readVars>>

(* Write fails by itself, e.g. in a VDLWrite method or a native conversion. *)
WriterFails == epc = "run" /\ EncClose("WriteErr") /\ UNCHANGED <<src, wpos, readVars>>
-----------------------------------------------------------------------------
(* Read: the value being read is on top of rstack. *)

Frame == rstack[Len(rstack)]
Parents == SubSeq(rstack, 1, Len(rstack) - 1)

Goto(mode) == rmode' = mode /\ UNCHANGED <<rstack, ropened, rval>>
Push(kind, items, mode) ==
    /\ rstack' = Append(rstack, [kind |-> kind, items |-> items,
                                 len |-> IF kind = "list" /\ Top.LenHint > 0 THEN Top.LenHint ELSE 0])
    /\ rmode' = mode
    /\ UNCHANGED <<ropened, rval, pipeVars>>

(* read: StartValue on the value to be read. *)
ReadStart == rmode = "start" /\ DecStartValue /\ Goto("opened")

(* VDLRead has looked at the type and calls read, which starts again.       *)
ReadAgain ==
    /\ rmode = "opened" /\ rstack = <<>> /\ ~ropened
    /\ IgnoreNextStartValue
    /\ ropened' = TRUE /\ rmode' = "start"
    /\ UNCHANGED <<rstack, rval>>

(* read, after StartValue: readFromNil or readNonNilValue.  Bytes are read  *)
(* with DecodeBytes or, into a list of another kind, entry by entry.        *)
ReadBody ==
    /\ dpc = "run" /\ rmode = "opened" /\ ropened
    /\ \/ Top.IsNil /\ Push("nil", <<>>, "finish")
       \/ ~Top.IsNil /\ DecType = "scalar" /\ Push("scalar", <<DecArg>>, "finish")
       \/ ~Top.IsNil /\ DecType = "bytes" /\ Push("bytes", ArgBytes, "finish")
       \/ ~Top.IsNil /\ DecType = "bytes" /\ Push("bytes", <<>>, "entries")
       \/ ~Top.IsNil /\ DecType \in {"array", "list", "map", "struct"} /\ Push(DecType, <<>>, "entries")

(* readList, readSet, readMap and DecodeConvertedBytes ask for an entry. *)
ReadEntry ==
    /\ rmode = "entries" /\ Frame.kind \in {"array", "list", "map", "bytes"}
    /\ ~(Frame.kind = "map" /\ Len(Frame.items) % 2 = 1)
    /\ DecNextEntry
    /\ Goto(IF EntryDone THEN "finish" ELSE "start")

(* readMap goes on to the element without asking. *)
ReadMapElem ==
    /\ dpc = "run" /\ rmode = "entries" /\ Frame.kind = "map" /\ Len(Frame.items) % 2 = 1
    /\ Goto("start")
    /\ UNCHANGED pipeVars

(* readStruct, readUnion: the next field, which the destination may lack. *)
ReadField ==
    /\ rmode = "entries" /\ Frame.kind = "struct"
    /\ DecNextField
    /\ Goto(IF NextFieldIndex = -1 THEN "finish"
            ELSE IF NextFieldIndex \in Unknown THEN "skip" ELSE "start")

(* SkipValue: StartValue, then FinishValue. *)
SkipStart == rmode = "skip" /\ DecStartValue /\ Goto("skipped")
SkipFinish == rmode = "skipped" /\ DecFinishValue /\ Goto("entries")

ReadFinish == rmode = "finish" /\ DecFinishValue /\ Goto("finished")

(* The value as it was read: elements of a list that were allocated at the  *)
(* start and never read are zero.                                           *)
Value == [kind  |-> Frame.kind,
          items |-> Frame.items \o [i \in 1 .. (Frame.len - Len(Frame.items)) |-> "zero"]]

(* FinishValue has returned: the value goes into the one around it. *)
ReadUp ==
    /\ dpc = "run" /\ rmode = "finished"
    /\ IF Parents = <<>>
       THEN rval' = <<Value>> /\ rstack' = <<>> /\ rmode' = "end"
       ELSE LET p == Parents[Len(Parents)]
                item == CASE p.kind = "bytes"  -> Frame.items[1]
                          [] p.kind = "struct" -> [index |-> Top.Index, value |-> Value]
                          [] OTHER             -> Value
            IN  /\ rstack' = [Parents EXCEPT ![Len(Parents)].items = Append(@, item)]
                /\ rmode' = "entries"
                /\ UNCHANGED rval
    /\ UNCHANGED <<ropened, pipeVars>>

ReaderCall ==
    /\ \/ ReadStart \/ ReadAgain \/ ReadBody \/ ReadEntry \/ ReadMapElem \/ ReadField
       \/ SkipStart \/ SkipFinish \/ ReadFinish \/ ReadUp
    /\ UNCHANGED <<src, wpos>>

ReaderResumes == (DecStartResume \/ DecFinishResume) /\ UNCHANGED <<src, wpos, readVars>>

ReaderCloses ==
    /\ (dpc = "run" /\ rmode = "end") \/ dpc = "fail"
    /\ DecClose(IF dpc = "fail" THEN Err ELSE "nil")
    /\ UNCHANGED <<src, wpos, readVars>>

(* Read fails by itself: incompatible types, a number that does not fit.    *)
ReaderFails ==
    /\ dpc = "run" /\ rmode # "end"
    /\ DecClose("ReadErr")
    /\ UNCHANGED <<src, wpos, readVars>>
-----------------------------------------------------------------------------
Writer == WriterCall \/ WriterResumes \/ WriterCloses
Reader == ReaderCall \/ ReaderResumes \/ ReaderCloses

Done == epc = "done" /\ dpc = "done" /\ UNCHANGED vars

Next == Writer \/ Reader \/ WriterFails \/ ReaderFails \/ Done

Spec == Init /\ [][Next]_vars

(* Both goroutines are scheduled; neither has to fail. *)
FairSpec == Spec /\ WF_vars(Writer) /\ WF_vars(Reader)
-----------------------------------------------------------------------------
(* Shape of the pipe's state; who sleeps is waiting in a call. *)
TypeOK ==
    /\ State \in {"Encoder", "Decoder", "Closed"}
    /\ epc \in Pc /\ dpc \in Pc
    /\ "E" \in asleep => epc \in {"start", "finish"}
    /\ "D" \in asleep => dpc \in {"start", "finish"}
    /\ \A i \in DOMAIN Stack :
          Stack[i].NextOp \in {"StartDec", "FinishEnc", "FinishDec"} /\ Stack[i].Index \in Int
    /\ wpos \in 0 .. Len(Calls(src))

(* Write and Read follow the protocol pipeOp checks: the only errors are    *)
(* their own.                                                               *)
NoProtocolError == Err \in {"nil", "WriteErr", "ReadErr"}

(* Convert returns no error only if the whole value has arrived, whatever   *)
(* the sides did in between: bytes read as entries, nil, nested and empty   *)
(* values included.                                                         *)
ConvertsWhole == dpc = "done" /\ Err = "nil" => rval = <<Converted(src)>>

(* "The Close method shuts the pipe down, causing everything to unblock":   *)
(* both goroutines end, also when one of them fails.                        *)
BothEnd == <>(epc = "done" /\ dpc = "done")
=============================================================================
