--------------------------- MODULE MCRuntimeInit ---------------------------
(* A small instance of RuntimeInit for TLC. *)
EXTENDS RuntimeInit, TLC

(* Goroutines and calls of Init are interchangeable. *)
Symmetry == Permutations(G) \cup Permutations(Call)
=============================================================================
