--------------------------- MODULE VomTypeStream ---------------------------
(***************************************************************************)
(* A TypeEncoder and its flows, the connection, and the TypeDecoder and    *)
(* its flows: every interleaving of value flows with the type stream.      *)
(***************************************************************************)
EXTENDS VomTypeEncoder, VomTypeDecoder

vars == <<wireVars, encVars, decVars>>

Init == WireInit /\ EncInit /\ DecInit

Next ==
    \/ \E f \in Flow, t \in Type : Encode(f, t) /\ UNCHANGED decVars
    \/ \E f \in Flow : EncStep(f) /\ UNCHANGED decVars
    \/ CloseWire /\ UNCHANGED <<encVars, decVars>>
    \/ \E l \in Loop : (Start(l) \/ LoopStep(l)) /\ UNCHANGED encVars
    \/ Stop /\ UNCHANGED encVars
    \/ \E f \in Flow : (Lookup(f) \/ ReaderStep(f)) /\ UNCHANGED encVars

Spec == Init /\ [][Next]_vars

(* Goroutines inside the package are scheduled and the reader delivers what *)
(* was written; a Decoder that competes for buildMu gets it in the end.     *)
(* Nobody has to encode, decode, Start, Stop or close the connection.       *)
Fairness ==
    /\ \A f \in Flow : WF_vars(EncStep(f) /\ UNCHANGED decVars)
    /\ \A l \in Loop : WF_vars(LoopStep(l) /\ UNCHANGED encVars)
    /\ \A f \in Flow : SF_vars(ReaderStep(f) /\ UNCHANGED encVars)

FairSpec == Spec /\ Fairness
-----------------------------------------------------------------------------
(* Shape of both sides; in particular a Decoder inside the loop of          *)
(* lookupType is the holder of buildMu, and encodeType runs under encMu.    *)
TypeOK == EncTypeOK /\ DecTypeOK

(* Whatever the flows interleave, and with cyclic types, the type stream    *)
(* never makes readSingleType fail with an unknown or a duplicate type      *)
(* (TypeEncoder.encode), and lookupType reports the end of the stream only  *)
(* for a type that did not arrive before it.  This speaks against the TODO  *)
(* at type_encoder.go:80-82, "There is still a known race condition where   *)
(* multiple flows send types with a cycle, but the types are referenced in  *)
(* different orders": encMu lets one flow write a cycle at a time, each     *)
(* message that closes it too early is flagged incomplete, buildType builds *)
(* the whole cycle at the complete one, and a value that gets ahead of its  *)
(* type waits in lookupType.  The instance has that case: one flow starts   *)
(* the cycle at A, the other at B.                                          *)
NoTypeError ==
    /\ derr \in {"nil", "EOF"} /\ \A l \in Loop : lerr[l] \in {"nil", "EOF"}
    /\ \A f \in Flow : rres[f] = "EOF" => closed /\ rid[f] \notin DOMAIN idToType

Whole(id) ==
    \E t \in Type : /\ typeToId[t] = id
                    /\ idToType[id] = [i \in DOMAIN Refs[t] |-> typeToId[Refs[t][i]]]
                    /\ \A i \in DOMAIN idToType[id] : idToType[id][i] \in DOMAIN idToType

(* The loop waits for input that nobody is about to write. *)
AllProcessed ==
    /\ encMu = NoFlow /\ wire = <<>> /\ ~closed
    /\ \A l \in Loop : lpc[l] \in {"dead", "check", "read"}
    /\ \E l \in Loop : lpc[l] = "read"

(* A type that buildType publishes is whole and is the one that was sent:   *)
(* it refers to exactly the ids of its element, key and field types, and    *)
(* all of them can be looked up too.  When everything written has been      *)
(* processed, no incomplete type stays behind in idToWire and every id in   *)
(* use can be looked up.  A cycle that two flows enter at different types   *)
(* is the case of the TODO at type_encoder.go:80-82.                        *)
BuiltAreWhole ==
    /\ \A id \in DOMAIN idToType : Whole(id)
    /\ AllProcessed => /\ DOMAIN idToWire = {}
                       /\ \A t \in Type : typeToId[t] # 0 => typeToId[t] \in DOMAIN idToType

(* buildType reads and deletes from idToWire without buildMu: there must    *)
(* never be a second processLoop, whatever the sequence of Start and Stop.  *)
OneProcessLoop ==
    /\ \A k, l \in Loop : lpc[k] # "dead" /\ lpc[l] # "dead" => k = l
    /\ \A l \in Loop : lpc[l] # "dead" => goroutineRunning

(* Unless Stop is called, every lookupType returns, with the type or with   *)
(* an error: no wake-up of buildCond is lost.                               *)
LookupReturns == \A f \in Flow : (rpc[f] # "idle") ~> (rpc[f] = "idle" \/ stops > 0)

(* The comment of Stop: "Once Stop is called, subsequent Decode calls on    *)
(* Decoders initialized with d will return errors", so they return.         *)
DecodeAfterStopReturns == \A f \in Flow : (rpc[f] # "idle" /\ rlate[f]) ~> (rpc[f] = "idle")
=============================================================================
