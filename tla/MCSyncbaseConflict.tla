------------------------- MODULE MCSyncbaseConflict -------------------------
(* Small instances of SyncbaseConflict for TLC. *)
EXTENDS SyncbaseConflict

Info(kind, key) == [kind |-> kind, key |-> key]

(* A batch with a read and a written row, and a conflict of two rows, one   *)
(* with the same key.                                                       *)
TwoConflicts ==
    << <<Info("batch", "x"), Info("read", "b"), Info("write", "a")>>,
       <<Info("write", "a"), Info("write", "b")>> >>
Schema(v, needs, has) == [nil |-> FALSE, Version |-> v, needsResolver |-> needs, Resolver |-> has]

(* A schema with a resolver; ones that EnforceSchema refuses, or that start *)
(* no goroutine.                                                            *)
SomeSchemas ==
    {Schema(1, TRUE, TRUE), Schema(1, TRUE, FALSE), Schema(-1, FALSE, TRUE), Schema(1, FALSE, FALSE),
     [nil |-> TRUE, Version |-> -1, needsResolver |-> FALSE, Resolver |-> FALSE]}
=============================================================================
