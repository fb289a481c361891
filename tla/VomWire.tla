------------------------------ MODULE VomWire ------------------------------
(***************************************************************************)
(* What the two sides of a VOM connection share when types travel apart    *)
(* from values (vom.NewEncoderWithTypeEncoder, vom.NewDecoderWithTypeDecoder):*)
(* one ordered stream of type messages, and one ordered stream of value    *)
(* messages per flow.  The streams are the io.Writer and io.Reader handed  *)
(* to the package; nothing orders one stream against another.              *)
(***************************************************************************)
EXTENDS Naturals, Sequences, FiniteSets

CONSTANTS Type,    \* the user-defined vdl types (bootstrap types never travel)
          Refs,    \* Refs[t]: the element, key or field types of t, in order
          Flow     \* the flows; each has an Encoder here and a Decoder there

ASSUME WireAssumption == /\ IsFiniteSet(Type)
                         /\ Refs \in [Type -> Seq(Type)]

WireIdFirstUserType == 41

(* One id per type, handed out in sequence. *)
TypeId == WireIdFirstUserType .. (WireIdFirstUserType + Cardinality(Type) - 1)

(* A type message: the wireType of id names the ids it refers to. *)
TypeMsg == [id : TypeId, refs : Seq(TypeId), incomplete : BOOLEAN]

VARIABLES wire,     \* type messages written and not yet read
          closed,   \* the type stream has ended: no more writes succeed
          values    \* values[f]: the type ids of f's value messages in transit

wireVars == <<wire, closed, values>>

WireInit ==
    /\ wire = <<>>
    /\ closed = FALSE
    /\ values = [f \in Flow |-> <<>>]

(* The connection goes away; a reader sees EOF after what is in transit. *)
CloseWire ==
    /\ ~closed
    /\ closed' = TRUE
    /\ UNCHANGED <<wire, values>>
=============================================================================
