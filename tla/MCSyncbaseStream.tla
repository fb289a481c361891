-------------------------- MODULE MCSyncbaseStream --------------------------
(* Small instances of SyncbaseStream for TLC. *)
EXTENDS SyncbaseStream

(* A watch stream with a change to be skipped; the result streams of a       *)
(* query, one of which ends before its header row.                           *)
WatchAndExec == {[elems |-> <<"a", "skip", "b">>, header |-> FALSE],
                 [elems |-> <<"header", "a">>, header |-> TRUE],
                 [elems |-> <<>>, header |-> TRUE]}
=============================================================================
