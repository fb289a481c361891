-------------------------- MODULE MCVomTypeStream --------------------------
(* A small instance of VomTypeStream for TLC. *)
EXTENDS VomTypeStream, TLC

CONSTANTS A, B

(* A and B refer to each other, and A to itself. *)
PairRefs == (A :> <<B, A>>) @@ (B :> <<A>>)
=============================================================================
