------------------------------ MODULE VdlPipe ------------------------------
(***************************************************************************)
(* vdl/pipe.go: the rendezvous between the goroutine that runs vdl.Write   *)
(* (the encoder E) and the one that runs vdl.Read (the decoder D).  The    *)
(* two share every field without a lock except at StartValue, FinishValue  *)
(* and Close; State hands control back and forth.  A blocking call is two  *)
(* steps: the call up to Cond.Wait, and what follows the wait.  What the   *)
(* two goroutines call is left to the module that composes them.           *)
(***************************************************************************)
EXTENDS Naturals, Integers, Sequences

VARIABLES State,       \* "Encoder", "Decoder" or "Closed"
          Err,         \* "nil" or the first error
          Stack,       \* pipeStackEntry records, the top one last
          DecStarted,
          NextEntryDone, NextFieldIndex, EncIsBytes, Arg, ArgBytes,
          DecBytesAsEntries, DecByteStartValue, ignoreNextStartValue,
          asleep,      \* which of "E" and "D" is inside Cond.Wait
          epc, dpc,    \* what E and D do: see EncPc and DecPc
          eArg         \* the type E passed to the StartValue it waits in

argVars == <<NextEntryDone, NextFieldIndex, EncIsBytes, Arg, ArgBytes>>
byteVars == <<DecBytesAsEntries, DecByteStartValue>>
pipeVars == <<State, Err, Stack, DecStarted, argVars, byteVars, ignoreNextStartValue,
              asleep, epc, dpc, eArg>>

(* run: between calls; start, finish: waiting in StartValue, FinishValue;   *)
(* fail: a call returned an error; done: Close was called.                  *)
Pc == {"run", "start", "finish", "fail", "done"}

PipeInit ==
    /\ State = "Encoder" /\ Err = "nil" /\ Stack = <<>> /\ DecStarted = FALSE
    /\ NextEntryDone = FALSE /\ NextFieldIndex = 0 /\ EncIsBytes = FALSE
    /\ Arg = 0 /\ ArgBytes = <<>>
    /\ DecBytesAsEntries = FALSE /\ DecByteStartValue = FALSE
    /\ ignoreNextStartValue = FALSE
    /\ asleep = {} /\ epc = "run" /\ dpc = "run" /\ eArg = "scalar"
-----------------------------------------------------------------------------
Top == Stack[Len(Stack)]

Entry(tt) == [tt |-> tt, NextOp |-> "StartDec", LenHint |-> -1, Index |-> -1, IsNil |-> FALSE]

(* pipeOp.Next; FinishDec is followed by the removal of the entry. *)
NextOp(op) == CASE op = "StartDec" -> "FinishEnc" [] op = "FinishEnc" -> "FinishDec"

(* The top entry is there and op is the next operation on it. *)
TopExpects(op) == IF Stack = <<>> THEN FALSE ELSE Top.NextOp = op

SetTop(e) == Stack' = [Stack EXCEPT ![Len(Stack)] = e]

CloseSilently(err) ==
    /\ Err' = IF err # "nil" /\ Err = "nil" THEN err ELSE Err
    /\ State' = "Closed"
    /\ UNCHANGED asleep

(* closeLocked: the first error stays, and everyone wakes up. *)
CloseLocked(err) ==
    /\ Err' = IF err # "nil" /\ Err = "nil" THEN err ELSE Err
    /\ State' = "Closed"
    /\ asleep' = {}

(* A call that does not block returns e.Err to its caller. *)
Ret == IF Err = "nil" THEN "run" ELSE "fail"

EncClose(err) ==
    /\ epc \in {"run", "fail"}
    /\ CloseLocked(err)
    /\ epc' = "done"
    /\ UNCHANGED <<Stack, DecStarted, argVars, byteVars, ignoreNextStartValue, dpc, eArg>>

DecClose(err) ==
    /\ dpc \in {"run", "fail"}
    /\ CloseLocked(err)
    /\ dpc' = "done"
    /\ UNCHANGED <<Stack, DecStarted, argVars, byteVars, ignoreNextStartValue, epc, eArg>>
-----------------------------------------------------------------------------
(* The encoder. *)

EncWaitNoHandover(call) ==
    /\ State' = "Decoder"
    /\ asleep' = asleep
    /\ epc' = "run"
    /\ UNCHANGED Err

(* wait with an entry on the stack: hand over to the decoder and sleep. *)
EncWait(call) ==
    /\ State' = "Decoder"
    /\ asleep' = {"E"}
    /\ epc' = call
    /\ UNCHANGED Err

EncBadState ==
    /\ State # "Encoder"
    /\ CloseLocked("InvalidPipeState")
    /\ epc' = "fail"

EncStartValue(tt) ==
    /\ epc = "run"
    /\ eArg' = tt
    /\ \/ EncBadState /\ UNCHANGED Stack
       \/ /\ State = "Encoder" /\ Stack = <<>>
          /\ Stack' = <<Entry(tt)>>
          /\ epc' = Ret
          /\ UNCHANGED <<State, Err, asleep>>
       \/ State = "Encoder" /\ Stack # <<>> /\ EncWait("start") /\ UNCHANGED Stack
    /\ UNCHANGED <<DecStarted, argVars, byteVars, ignoreNextStartValue, dpc>>

EncStartResume ==
    /\ epc = "start" /\ "E" \notin asleep /\ State # "Decoder"
    /\ epc' = Ret
    /\ Stack' = IF Err = "nil" THEN Append(Stack, Entry(eArg)) ELSE Stack
    /\ UNCHANGED <<State, Err, DecStarted, argVars, byteVars, ignoreNextStartValue, asleep, dpc, eArg>>

(* With an empty stack there is nothing to wait for. *)
EncFinishValue ==
    /\ epc = "run"
    /\ \/ EncBadState
       \/ State = "Encoder" /\ Stack # <<>> /\ EncWait("finish")
       \/ State = "Encoder" /\ Stack = <<>> /\ CloseLocked("EmptyPipeStack") /\ epc' = "fail"
    /\ UNCHANGED <<Stack, DecStarted, argVars, byteVars, ignoreNextStartValue, dpc, eArg>>

EncFinishResume ==
    /\ epc = "finish" /\ "E" \notin asleep /\ State # "Decoder"
    /\ IF Err = "nil" /\ ~TopExpects("FinishEnc")
       THEN /\ CloseLocked("PipeOp")
            /\ epc' = "fail"
            /\ UNCHANGED <<Stack, EncIsBytes>>
       ELSE /\ epc' = Ret
            /\ IF Err = "nil"
               THEN SetTop([Top EXCEPT !.NextOp = NextOp(@)]) /\ EncIsBytes' = FALSE
               ELSE UNCHANGED <<Stack, EncIsBytes>>
            /\ UNCHANGED <<State, Err, asleep>>
    /\ UNCHANGED <<DecStarted, NextEntryDone, NextFieldIndex, Arg, ArgBytes, byteVars,
                   ignoreNextStartValue, dpc, eArg>>

(* The calls that only leave something for the decoder to pick up.          *)
EncSet(set) ==
    /\ epc = "run"
    /\ IF State = "Decoder"
       THEN CloseLocked("EncCallDuringDecPhase") /\ epc' = "fail" /\ UNCHANGED <<Stack, argVars>>
       ELSE set /\ epc' = Ret /\ UNCHANGED <<State, Err, asleep>>
    /\ UNCHANGED <<DecStarted, byteVars, ignoreNextStartValue, dpc, eArg>>

EncNextEntry(done) ==
    EncSet(NextEntryDone' = done /\ UNCHANGED <<Stack, NextFieldIndex, EncIsBytes, Arg, ArgBytes>>)
EncNextField(index) ==
    EncSet(NextFieldIndex' = index /\ UNCHANGED <<Stack, NextEntryDone, EncIsBytes, Arg, ArgBytes>>)
EncodeScalar(v) ==
    EncSet(Arg' = v /\ UNCHANGED <<Stack, NextEntryDone, NextFieldIndex, EncIsBytes, ArgBytes>>)
EncodeBytes(b) ==
    EncSet(ArgBytes' = b /\ EncIsBytes' = TRUE /\ UNCHANGED <<Stack, NextEntryDone, NextFieldIndex, Arg>>)

(* The calls that leave something in the top entry; they do not look at     *)
(* State.                                                                   *)
EncOnTop(set, ret) ==
    /\ epc = "run"
    /\ IF Stack = <<>>
       THEN CloseLocked("EmptyPipeStack") /\ epc' = "fail" /\ UNCHANGED Stack
       ELSE set /\ epc' = ret /\ UNCHANGED <<State, Err, asleep>>
    /\ UNCHANGED <<DecStarted, argVars, byteVars, ignoreNextStartValue, dpc, eArg>>

EncSetLenHint(lenHint) == EncOnTop(SetTop([Top EXCEPT !.LenHint = lenHint]), Ret)

(* top.IsNil = true in NilValue, which goes on to FinishValue. *)
EncSetNil == EncOnTop(SetTop([Top EXCEPT !.IsNil = TRUE]), "run")
-----------------------------------------------------------------------------
(* The decoder. *)

DecWaitWithoutStarted(isFinish, call) ==
    /\ IF isFinish
       THEN State' = "Encoder" /\ asleep' = {"D"}
       ELSE /\ UNCHANGED State
            /\ asleep' = IF State = "Encoder" THEN asleep \cup {"D"} ELSE asleep
    /\ DecStarted' = TRUE
    /\ dpc' = call
    /\ UNCHANGED Err

(* wait: once decoding has begun, hand over to the encoder; then sleep      *)
(* while it is the encoder's turn.                                          *)
DecWait(isFinish, call) ==
    /\ IF isFinish \/ DecStarted
       THEN State' = "Encoder" /\ asleep' = {"D"}
       ELSE /\ UNCHANGED State
            /\ asleep' = IF State = "Encoder" THEN asleep \cup {"D"} ELSE asleep
    /\ DecStarted' = TRUE
    /\ dpc' = call
    /\ UNCHANGED Err

(* The ways into StartValue: after an error, ignored, on a byte of bytes    *)
(* read as entries, and the regular one.                                    *)
DecStartValue ==
    /\ dpc = "run"
    /\ IF DecStarted /\ State # "Decoder"
       THEN /\ CloseLocked("InvalidPipeState")
            /\ dpc' = "fail"
            /\ UNCHANGED <<DecStarted, byteVars, ignoreNextStartValue>>
       ELSE \/ /\ ignoreNextStartValue
               /\ ignoreNextStartValue' = FALSE
               /\ dpc' = Ret
               /\ UNCHANGED <<State, Err, asleep, DecStarted, byteVars>>
            \/ /\ ~ignoreNextStartValue /\ DecBytesAsEntries
               /\ IF DecByteStartValue
                  THEN CloseLocked("StartValueOnByte") /\ dpc' = "fail"
                  ELSE dpc' = Ret /\ UNCHANGED <<State, Err, asleep>>
               /\ DecByteStartValue' = TRUE
               /\ UNCHANGED <<DecStarted, DecBytesAsEntries, ignoreNextStartValue>>
            \/ /\ ~ignoreNextStartValue /\ ~DecBytesAsEntries
               /\ IF State = "Closed"
                  THEN dpc' = "start" /\ UNCHANGED <<State, Err, asleep, DecStarted>>
                  ELSE DecWait(FALSE, "start")
               /\ UNCHANGED <<byteVars, ignoreNextStartValue>>
    /\ UNCHANGED <<Stack, argVars, epc, eArg>>

(* After the wait; op is what the top entry must be at. *)
DecResume(call, op, update) ==
    /\ dpc = call /\ "D" \notin asleep /\ State # "Encoder"
    /\ IF Err = "nil" /\ ~TopExpects(op)
       THEN CloseLocked("PipeOp") /\ dpc' = "fail" /\ UNCHANGED Stack
       ELSE /\ dpc' = Ret
            /\ IF Err = "nil" THEN update ELSE UNCHANGED Stack
            /\ UNCHANGED <<State, Err, asleep>>
    /\ UNCHANGED <<DecStarted, argVars, byteVars, ignoreNextStartValue, epc, eArg>>

DecStartResume == DecResume("start", "StartDec", SetTop([Top EXCEPT !.NextOp = NextOp(@)]))
DecFinishResume == DecResume("finish", "FinishDec", Stack' = SubSeq(Stack, 1, Len(Stack) - 1))

DecFinishValue ==
    /\ dpc = "run"
    /\ IF State # "Decoder"
       THEN /\ IF State = "Encoder"
               THEN CloseLocked("InvalidPipeState") /\ dpc' = "fail"
               ELSE dpc' = Ret /\ UNCHANGED <<State, Err, asleep>>
            /\ UNCHANGED <<DecStarted, byteVars>>
       ELSE \/ /\ DecBytesAsEntries /\ DecByteStartValue
               /\ DecByteStartValue' = FALSE
               /\ dpc' = Ret
               /\ UNCHANGED <<State, Err, asleep, DecStarted, DecBytesAsEntries>>
            \/ /\ ~(DecBytesAsEntries /\ DecByteStartValue)
               /\ DecBytesAsEntries' = FALSE
               /\ DecWait(TRUE, "finish")
               /\ UNCHANGED DecByteStartValue
    /\ UNCHANGED <<Stack, argVars, ignoreNextStartValue, epc, eArg>>

DecEmptyStack ==
    /\ Stack = <<>>
    /\ CloseLocked("EmptyPipeStack")
    /\ dpc' = "fail"
    /\ UNCHANGED Stack

(* NextEntry; EntryDone is what it returns. *)
DecNextEntry ==
    /\ dpc = "run"
    /\ \/ DecEmptyStack /\ UNCHANGED <<DecBytesAsEntries, NextEntryDone>>
       \/ /\ Stack # <<>>
          /\ SetTop([Top EXCEPT !.Index = @ + 1])
          /\ DecBytesAsEntries' = (DecBytesAsEntries \/ EncIsBytes)
          /\ NextEntryDone' = FALSE
          /\ dpc' = Ret
          /\ UNCHANGED <<State, Err, asleep>>
    /\ UNCHANGED <<DecStarted, NextFieldIndex, EncIsBytes, Arg, ArgBytes, DecByteStartValue,
                   ignoreNextStartValue, epc, eArg>>

EntryDoneEarly == IF EncIsBytes THEN Top.Index + 2 >= Len(ArgBytes) ELSE NextEntryDone

EntryDone == IF EncIsBytes THEN Top.Index + 1 >= Len(ArgBytes) ELSE NextEntryDone

(* NextField: NextFieldIndex is what it returns. *)
DecNextField ==
    /\ dpc = "run"
    /\ \/ DecEmptyStack /\ UNCHANGED NextFieldIndex
       \/ /\ Stack # <<>>
          /\ SetTop([Top EXCEPT !.Index = NextFieldIndex])
          /\ NextFieldIndex' = -1
          /\ dpc' = Ret
          /\ UNCHANGED <<State, Err, asleep>>
    /\ UNCHANGED <<DecStarted, NextEntryDone, EncIsBytes, Arg, ArgBytes, byteVars,
                   ignoreNextStartValue, epc, eArg>>

(* Type, and the argument of DecodeUint and its like, for the current value. *)
DecType == IF DecBytesAsEntries THEN "scalar" ELSE Top.tt
DecArg == IF DecBytesAsEntries THEN ArgBytes[Top.Index + 1] ELSE Arg

IgnoreNextStartValue ==
    /\ dpc = "run"
    /\ ignoreNextStartValue' = TRUE
    /\ UNCHANGED <<State, Err, Stack, DecStarted, argVars, byteVars, asleep, epc, dpc, eArg>>
-----------------------------------------------------------------------------
(* The pipe with any two goroutines that use it, in or out of protocol: the *)
(* arguments of a call are whatever the call leaves behind.                 *)
PipeNext ==
    \/ EncStartValue(eArg') \/ EncStartResume \/ EncFinishValue \/ EncFinishResume
    \/ EncSet(TRUE) \/ EncOnTop(TRUE, "run") \/ EncOnTop(TRUE, Ret) \/ EncClose(Err')
    \/ DecStartValue \/ DecStartResume \/ DecFinishValue \/ DecFinishResume
    \/ DecNextEntry \/ DecNextField \/ IgnoreNextStartValue \/ DecClose(Err')

PipeSpec == PipeInit /\ [][PipeNext]_pipeVars

(* "Only one call is allowed to be in-flight at a time": from the decoder's *)
(* first StartValue on, the goroutines never run between calls at the same  *)
(* time.  The fields of the pipe are accessed without the lock, so this is  *)
(* what keeps them free of races.                                           *)
OneRuns == ~(epc = "run" /\ dpc = "run" /\ DecStarted)

(* wait and closeLocked broadcast with every change of State: a goroutine   *)
(* is inside Cond.Wait only while State says it is the other one's turn.    *)
SleepersAwaited == ("E" \in asleep => State = "Decoder") /\ ("D" \in asleep => State = "Encoder")
=============================================================================
