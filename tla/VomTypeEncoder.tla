--------------------------- MODULE VomTypeEncoder ---------------------------
(***************************************************************************)
(* vom/type_encoder.go: the TypeEncoder shared by the Encoders of all      *)
(* flows.  encMu serialises the recursive encodeType; lookupTypeId reads   *)
(* typeToId under typeMu only, so another flow may use an id that is       *)
(* assigned and not yet written.  Each critical section of typeMu and each *)
(* write is one step.                                                      *)
(***************************************************************************)
EXTENDS VomWire

CONSTANTS NoFlow,      \* encMu is free
          MaxValues    \* bound: value messages per flow

ASSUME EncoderAssumption == NoFlow \notin Flow /\ MaxValues \in Nat

VARIABLES typeToId,    \* TypeEncoder.typeToId; 0 is a missing entry
          nextId,      \* TypeEncoder.nextId
          encMu,       \* the flow that holds encMu
          sentVersionByte,
          frames,      \* its encodeType calls: [type, next], innermost first
          pending,     \* the pending map it passes down
          epc,         \* epc[f]: where f's Encoder is
          etype,       \* etype[f]: the type of the value it is encoding
          started      \* started[f]: how many values f has begun

encVars == <<typeToId, nextId, encMu, sentVersionByte, frames, pending, epc, etype, started>>

EncInit ==
    /\ typeToId = [t \in Type |-> 0]
    /\ nextId = WireIdFirstUserType
    /\ encMu = NoFlow
    /\ sentVersionByte = FALSE
    /\ frames = <<>>
    /\ pending = {}
    /\ epc = [f \in Flow |-> "idle"]
    /\ etype = [f \in Flow |-> CHOOSE t \in Type : TRUE]
    /\ started = [f \in Flow |-> 0]
-----------------------------------------------------------------------------
(* vdl.Type.Walk(WalkAll): t and every type below it, cycles included. *)
Walk(t) == {u \in Type : \A S \in SUBSET Type :
               t \in S /\ (\A v \in S : \A i \in DOMAIN Refs[v] : Refs[v][i] \in S) => u \in S}

TypeCompleteUnflagged(t, pend) == TRUE

(* A type message is complete when no type below it is still to be written. *)
TypeComplete(t, pend) == Walk(t) \cap pend = {}

(* Encode(v): startMessage asks lookupTypeId before taking encMu. *)
Encode(f, t) ==
    /\ epc[f] = "idle"
    /\ started[f] < MaxValues
    /\ started' = [started EXCEPT ![f] = @ + 1]
    /\ etype' = [etype EXCEPT ![f] = t]
    /\ epc' = [epc EXCEPT ![f] = IF typeToId[t] # 0 THEN "send" ELSE "lock"]
    /\ UNCHANGED <<typeToId, nextId, sentVersionByte, encMu, frames, pending, wireVars>>

(* encMu.Lock in encode, and the version byte before the first type. *)
LockEnc(f) ==
    /\ epc[f] = "lock"
    /\ encMu = NoFlow
    /\ IF sentVersionByte \/ ~closed
       THEN /\ encMu' = f
            /\ sentVersionByte' = TRUE
            /\ epc' = [epc EXCEPT ![f] = "encodeType"]
       ELSE /\ epc' = [epc EXCEPT ![f] = "idle"]
            /\ UNCHANGED <<encMu, sentVersionByte>>
    /\ UNCHANGED <<typeToId, nextId, frames, pending, etype, started, wireVars>>

(* The type encodeType is called with next: the argument of encode, or the  *)
(* next element, key or field of the innermost call.                        *)
Callee(f) == IF frames = <<>> THEN etype[f] ELSE Refs[Head(frames).type][Head(frames).next]

HasCallee == IF frames = <<>> THEN TRUE ELSE Head(frames).next <= Len(Refs[Head(frames).type])

(* The innermost call has got the id of its current child. *)
Advance(fs) == IF fs = <<>> THEN fs
               ELSE <<[Head(fs) EXCEPT !.next = @ + 1]>> \o Tail(fs)

(* lookupOrAssignTypeId finds an id: encodeType returns it at once.  In the *)
(* outermost call that is the end of encode.                                *)
EncodeKnown(f) ==
    /\ epc[f] = "encodeType"
    /\ HasCallee
    /\ typeToId[Callee(f)] # 0
    /\ frames' = Advance(frames)
    /\ IF frames = <<>>
       THEN /\ encMu' = NoFlow
            /\ epc' = [epc EXCEPT ![f] = "send"]
       ELSE UNCHANGED <<encMu, epc>>
    /\ UNCHANGED <<typeToId, nextId, sentVersionByte, pending, etype, started, wireVars>>

(* lookupOrAssignTypeId assigns a new id and encodeType goes into the type. *)
EncodeNew(f) ==
    /\ epc[f] = "encodeType"
    /\ HasCallee
    /\ typeToId[Callee(f)] = 0
    /\ typeToId' = [typeToId EXCEPT ![Callee(f)] = nextId]
    /\ nextId' = nextId + 1
    /\ frames' = <<[type |-> Callee(f), next |-> 1]>> \o frames
    /\ pending' = pending \cup {Callee(f)}
    /\ UNCHANGED <<sentVersionByte, encMu, epc, etype, started, wireVars>>

(* All children have ids: delete(pending, tt), then encodeWireType writes   *)
(* the message; the outermost call unlocks encMu.                           *)
WriteWireType(f) ==
    LET t == Head(frames).type
    IN  /\ epc[f] = "encodeType"
        /\ ~HasCallee
        /\ ~closed
        /\ pending' = pending \ {t}
        /\ wire' = Append(wire, [id |-> typeToId[t],
                                 refs |-> [i \in DOMAIN Refs[t] |-> typeToId[Refs[t][i]]],
                                 incomplete |-> ~TypeComplete(t, pending \ {t})])
        /\ frames' = Advance(Tail(frames))
        /\ IF Tail(frames) = <<>>
           THEN /\ encMu' = NoFlow
                /\ epc' = [epc EXCEPT ![f] = "send"]
           ELSE UNCHANGED <<encMu, epc>>
        /\ UNCHANGED <<typeToId, nextId, sentVersionByte, etype, started, closed, values>>

(* The write fails: every encodeType call returns the error, and so does    *)
(* Encode.  The ids that were assigned stay assigned.                       *)
WriteFails(f) ==
    /\ epc[f] = "encodeType"
    /\ ~HasCallee
    /\ closed
    /\ frames' = <<>>
    /\ pending' = {}
    /\ encMu' = NoFlow
    /\ epc' = [epc EXCEPT ![f] = "idle"]
    /\ UNCHANGED <<typeToId, nextId, sentVersionByte, etype, started, wireVars>>

(* finishMessage: the value goes out on the flow, under its type's id. *)
SendValue(f) ==
    /\ epc[f] = "send"
    /\ values' = [values EXCEPT ![f] = Append(@, typeToId[etype[f]])]
    /\ epc' = [epc EXCEPT ![f] = "idle"]
    /\ UNCHANGED <<typeToId, nextId, sentVersionByte, encMu, frames, pending, etype, started, wire, closed>>

EncStep(f) == LockEnc(f) \/ EncodeKnown(f) \/ EncodeNew(f) \/ WriteWireType(f)
                 \/ WriteFails(f) \/ SendValue(f)

EncTypeOK ==
    /\ typeToId \in [Type -> TypeId \cup {0}]
    /\ encMu \in Flow \cup {NoFlow}
    /\ sentVersionByte \in BOOLEAN
    /\ \A i \in DOMAIN frames : frames[i].type \in Type /\ frames[i].next \in Nat
    /\ pending \in SUBSET Type
    /\ epc \in [Flow -> {"idle", "lock", "encodeType", "send"}]
    /\ \A f \in Flow : epc[f] = "encodeType" <=> encMu = f
    /\ \A f \in Flow : epc[f] = "send" => typeToId[etype[f]] # 0
=============================================================================
