----------------------------- MODULE MCContext -----------------------------
(* Small instances of Context for TLC. *)
EXTENDS Context

(* The objects the allocator hands out are interchangeable: with CS = 1..n  *)
(* it is enough to hand them out in order.                                  *)
AllocateInOrder ==
    \A c \in CS : status[c] = "free" /\ status'[c] # "free"
                    => \A d \in CS : d < c => status[d] # "free"

(* Bound: the number of contexts with a deadline. *)
CONSTANT MaxDeadlines
FewDeadlines == Cardinality({c \in CS : ctx[c] # <<>> /\ Head(ctx[c]).key = "deadline"}) <= MaxDeadlines
=============================================================================
