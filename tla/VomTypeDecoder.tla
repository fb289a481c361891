--------------------------- MODULE VomTypeDecoder ---------------------------
(***************************************************************************)
(* vom/type_decoder.go: the TypeDecoder shared by the Decoders of all      *)
(* flows.  A processLoop goroutine reads type messages and builds types;   *)
(* every Decoder that meets an unknown type id waits for it on buildCond.  *)
(* One step per critical section of buildMu, typeMu and                    *)
(* processingControlMu.  lookupType keeps buildMu over several steps;      *)
(* buildType never takes it.                                               *)
(***************************************************************************)
EXTENDS VomWire

CONSTANTS Loop,        \* the processLoop goroutines Start may create
          MaxStarts,   \* bound: calls of Start
          MaxStops     \* bound: calls of Stop

VARIABLES idToType,    \* the ids in TypeDecoder.idToType, with what each refers to
          idToWire,    \* likewise for TypeDecoder.idToWire
          derr,        \* TypeDecoder.err
          buildMu,     \* the flow whose lookupType holds buildMu, or NoReader
          goroutineRunning, goroutineShouldStop,
          lpc,         \* lpc[l]: where the processLoop goroutine is
          lerr,        \* lerr[l]: its local err
          lmsg,        \* lmsg[l]: the message it is working on
          rpc,         \* rpc[f]: where f's Decoder is in lookupType
          rid,         \* rid[f]: the id it looks up
          rres,        \* rres[f]: what the last lookupType returned
          rlate,       \* rlate[f]: Stop had been called when it began
          starts, stops

decVars == <<idToType, idToWire, derr, buildMu, goroutineRunning, goroutineShouldStop,
             lpc, lerr, lmsg, rpc, rid, rres, rlate, starts, stops>>
readVars == <<rpc, rid, rres, rlate>>
ctlVars == <<goroutineRunning, goroutineShouldStop, starts, stops>>

NoReader == "none"
NoMsg == [id |-> 0, refs |-> <<>>, incomplete |-> FALSE]

DecInit ==
    /\ idToType = <<>> /\ idToWire = <<>>
    /\ derr = "nil"
    /\ buildMu = NoReader
    /\ goroutineRunning = FALSE /\ goroutineShouldStop = FALSE
    /\ lpc = [l \in Loop |-> "dead"]
    /\ lerr = [l \in Loop |-> "nil"]
    /\ lmsg = [l \in Loop |-> NoMsg]
    /\ rpc = [f \in Flow |-> "idle"]
    /\ rid = [f \in Flow |-> 0]
    /\ rres = [f \in Flow |-> "none"]
    /\ rlate = [f \in Flow |-> FALSE]
    /\ starts = 0 /\ stops = 0
-----------------------------------------------------------------------------
(* Start and Stop, called by the application. *)

StartAlways(l) ==
    /\ starts < MaxStarts
    /\ lpc[l] = "dead"
    /\ starts' = starts + 1
    /\ goroutineShouldStop' = FALSE
    /\ goroutineRunning' = TRUE
    /\ lpc' = [lpc EXCEPT ![l] = "check"]
    /\ lerr' = [lerr EXCEPT ![l] = "nil"]
    /\ UNCHANGED <<idToType, idToWire, derr, buildMu, lmsg, stops, readVars, wireVars>>

(* Start; l names the goroutine it would create. *)
Start(l) ==
    /\ starts < MaxStarts
    /\ lpc[l] = "dead"
    /\ starts' = starts + 1
    /\ goroutineShouldStop' = FALSE
    /\ goroutineRunning' = TRUE
    /\ IF goroutineRunning
       THEN UNCHANGED <<lpc, lerr>>
       ELSE /\ lpc' = [lpc EXCEPT ![l] = "check"]
            /\ lerr' = [lerr EXCEPT ![l] = "nil"]
    /\ UNCHANGED <<idToType, idToWire, derr, buildMu, lmsg, stops, readVars, wireVars>>

Stop ==
    /\ stops < MaxStops
    /\ starts > 0
    /\ stops' = stops + 1
    /\ goroutineShouldStop' = TRUE
    /\ UNCHANGED <<idToType, idToWire, derr, buildMu, goroutineRunning, lpc, lerr, lmsg,
                   starts, readVars, wireVars>>
-----------------------------------------------------------------------------
(* processLoop. *)

(* The top of the loop: leave if told to, or if the last read failed. *)
CheckStop(l) ==
    /\ lpc[l] = "check"
    /\ IF goroutineShouldStop \/ lerr[l] # "nil"
       THEN /\ goroutineShouldStop' = FALSE
            /\ goroutineRunning' = FALSE
            /\ lpc' = [lpc EXCEPT ![l] = "dead"]
       ELSE /\ lpc' = [lpc EXCEPT ![l] = "read"]
            /\ UNCHANGED <<goroutineRunning, goroutineShouldStop>>
    /\ UNCHANGED <<idToType, idToWire, derr, buildMu, lerr, lmsg, starts, stops, readVars, wireVars>>

(* decodeWireType: blocks until there is a message or the stream has ended. *)
ReadWireType(l) ==
    /\ lpc[l] = "read"
    /\ \/ /\ wire # <<>>
          /\ lmsg' = [lmsg EXCEPT ![l] = Head(wire)]
          /\ wire' = Tail(wire)
          /\ lpc' = [lpc EXCEPT ![l] = "add"]
          /\ UNCHANGED lerr
       \/ /\ wire = <<>> /\ closed
          /\ lerr' = [lerr EXCEPT ![l] = "EOF"]
          /\ lpc' = [lpc EXCEPT ![l] = "report"]
          /\ UNCHANGED <<lmsg, wire>>
    /\ UNCHANGED <<idToType, idToWire, derr, buildMu, ctlVars, readVars, closed, values>>

(* addWireType, under buildMu. *)
AddWireType(l) ==
    LET m == lmsg[l]
        dup == m.id < WireIdFirstUserType \/ m.id \in DOMAIN idToType \/ m.id \in DOMAIN idToWire
    IN  /\ lpc[l] = "add"
        /\ buildMu = NoReader
        /\ IF dup
           THEN /\ lerr' = [lerr EXCEPT ![l] = "AlreadyDefined"]
                /\ lpc' = [lpc EXCEPT ![l] = "report"]
                /\ UNCHANGED idToWire
           ELSE /\ idToWire' = [i \in DOMAIN idToWire \cup {m.id} |->
                                    IF i = m.id THEN m.refs ELSE idToWire[i]]
                /\ lpc' = [lpc EXCEPT ![l] = IF m.incomplete THEN "report" ELSE "build"]
                /\ UNCHANGED lerr
        /\ UNCHANGED <<idToType, derr, buildMu, lmsg, ctlVars, readVars, wireVars>>

(* The ids makeType visits from id: those it refers to, directly or not,    *)
(* that are not built yet.                                                  *)
MakeType(id) ==
    {i \in TypeId : \A S \in SUBSET TypeId :
        (/\ id \in S
         /\ \A j \in S \cap DOMAIN idToWire : \A k \in DOMAIN idToWire[j] :
               idToWire[j][k] \in DOMAIN idToType \cup S)
        => i \in S}

BuildOne(l) ==
    /\ lpc[l] = "build"
    /\ LET new == {lmsg[l].id}
       IN  /\ idToType' = [i \in DOMAIN idToType \cup new |->
                              IF i \in new THEN idToWire[i] ELSE idToType[i]]
           /\ idToWire' = [i \in DOMAIN idToWire \ new |-> idToWire[i]]
           /\ UNCHANGED lerr
    /\ lpc' = [lpc EXCEPT ![l] = "report"]
    /\ UNCHANGED <<derr, buildMu, lmsg, ctlVars, readVars, wireVars>>

(* buildType: all of them at once, or errUnknownType when one has not come. *)
(* readSingleType returns that error for versions from Version81 on, which  *)
(* is every version: isAllowedVersion (misc.go) accepts no other.  Built    *)
(* cannot fail, as a TypeEncoder only sends types that vdl has built; a     *)
(* stream that nobody encoded is in VomSingleShot.                          *)
BuildType(l) ==
    /\ lpc[l] = "build"
    /\ LET new == MakeType(lmsg[l].id)
       IN  IF new \subseteq DOMAIN idToWire
           THEN /\ idToType' = [i \in DOMAIN idToType \cup new |->
                                   IF i \in new THEN idToWire[i] ELSE idToType[i]]
                /\ idToWire' = [i \in DOMAIN idToWire \ new |-> idToWire[i]]
                /\ UNCHANGED lerr
           ELSE /\ lerr' = [lerr EXCEPT ![l] = "UnknownType"]
                /\ UNCHANGED <<idToType, idToWire>>
    /\ lpc' = [lpc EXCEPT ![l] = "report"]
    /\ UNCHANGED <<derr, buildMu, lmsg, ctlVars, readVars, wireVars>>

ReportNoBroadcast(l) ==
    /\ lpc[l] = "report"
    /\ buildMu = NoReader
    /\ derr' = lerr[l]
    /\ lpc' = [lpc EXCEPT ![l] = "check"]
    /\ UNCHANGED <<idToType, idToWire, buildMu, lerr, lmsg, ctlVars, readVars, wireVars>>

(* d.err = err and buildCond.Broadcast, under buildMu. *)
Report(l) ==
    /\ lpc[l] = "report"
    /\ buildMu = NoReader
    /\ derr' = lerr[l]
    /\ rpc' = [f \in Flow |-> IF rpc[f] = "waiting" THEN "relock" ELSE rpc[f]]
    /\ lpc' = [lpc EXCEPT ![l] = "check"]
    /\ UNCHANGED <<idToType, idToWire, buildMu, lerr, lmsg, ctlVars, rid, rres, rlate, wireVars>>
-----------------------------------------------------------------------------
(* lookupType, called by the Decoder of flow f for its next value message. *)

Return(f, result) ==
    /\ rpc' = [rpc EXCEPT ![f] = "idle"]
    /\ rres' = [rres EXCEPT ![f] = result]

(* lookupKnownType without buildMu. *)
Lookup(f) ==
    /\ rpc[f] = "idle"
    /\ values[f] # <<>>
    /\ rid' = [rid EXCEPT ![f] = Head(values[f])]
    /\ values' = [values EXCEPT ![f] = Tail(@)]
    /\ rlate' = [rlate EXCEPT ![f] = goroutineShouldStop]
    /\ IF Head(values[f]) \in DOMAIN idToType
       THEN Return(f, "type")
       ELSE rpc' = [rpc EXCEPT ![f] = "relock"] /\ rres' = [rres EXCEPT ![f] = "none"]
    /\ UNCHANGED <<idToType, idToWire, derr, buildMu, ctlVars, lpc, lerr, lmsg, wire, closed>>

(* buildMu.Lock, or the return of Wait: an error other than EOF ends it. *)
LockBuild(f) ==
    /\ rpc[f] = "relock"
    /\ buildMu = NoReader
    /\ IF derr \notin {"nil", "EOF"}
       THEN Return(f, derr) /\ UNCHANGED buildMu
       ELSE /\ buildMu' = f
            /\ rpc' = [rpc EXCEPT ![f] = "find"]
            /\ UNCHANGED rres
    /\ UNCHANGED <<idToType, idToWire, derr, ctlVars, lpc, lerr, lmsg, rid, rlate, wireVars>>

(* lookupKnownType with buildMu held, then the EOF case. *)
Find(f) ==
    /\ rpc[f] = "find"
    /\ \/ /\ rid[f] \in DOMAIN idToType
          /\ Return(f, "type")
          /\ buildMu' = NoReader
       \/ /\ rid[f] \notin DOMAIN idToType
          /\ derr # "nil"
          /\ Return(f, derr)
          /\ buildMu' = NoReader
       \/ /\ rid[f] \notin DOMAIN idToType
          /\ derr = "nil"
          /\ rpc' = [rpc EXCEPT ![f] = "running"]
          /\ UNCHANGED <<buildMu, rres>>
    /\ UNCHANGED <<idToType, idToWire, derr, ctlVars, lpc, lerr, lmsg, rid, rlate, wireVars>>

(* No processLoop: an error.  Otherwise buildCond.Wait releases buildMu. *)
WaitOrGiveUp(f) ==
    /\ rpc[f] = "running"
    /\ buildMu' = NoReader
    /\ IF goroutineRunning
       THEN rpc' = [rpc EXCEPT ![f] = "waiting"] /\ UNCHANGED rres
       ELSE Return(f, "StartNotCalled")
    /\ UNCHANGED <<idToType, idToWire, derr, ctlVars, lpc, lerr, lmsg, rid, rlate, wireVars>>

LoopStep(l) == CheckStop(l) \/ ReadWireType(l) \/ AddWireType(l) \/ BuildType(l) \/ Report(l)
ReaderStep(f) == LockBuild(f) \/ Find(f) \/ WaitOrGiveUp(f)

DecTypeOK ==
    /\ DOMAIN idToType \subseteq TypeId /\ DOMAIN idToWire \subseteq TypeId
    /\ DOMAIN idToType \cap DOMAIN idToWire = {}
    /\ derr \in {"nil", "EOF", "AlreadyDefined", "UnknownType"}
    /\ buildMu \in Flow \cup {NoReader}
    /\ \A f \in Flow : buildMu = f <=> rpc[f] \in {"find", "running"}
    /\ lpc \in [Loop -> {"dead", "check", "read", "add", "build", "report"}]
    /\ rpc \in [Flow -> {"idle", "relock", "find", "running", "waiting"}]
=============================================================================
