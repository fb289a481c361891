-------------------------- MODULE MCSyncbaseBatch --------------------------
(* A small instance of SyncbaseBatch for TLC: two writers and a reader.  A   *)
(* writer whose first attempt conflicts with the other's commit has a second *)
(* one; ErrConcurrentBatch from fn itself takes it through the last.         *)
EXTENDS SyncbaseBatch
=============================================================================
