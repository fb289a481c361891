--------------------------- MODULE SyncbaseBatch ---------------------------
(***************************************************************************)
(* syncbase/batch.go: RunInBatch, run by several clients against one       *)
(* Syncbase.  The service is external; it is modelled by what the client   *)
(* relies on: a batch reads a snapshot, and Commit applies all of its      *)
(* writes or none.  It is refused with ErrConcurrentBatch when something   *)
(* the batch read has changed, and may be refused for any other reason     *)
(* (access, a batch fn has aborted itself).  Nothing in the client says    *)
(* what Syncbase does with a batch whose Commit it refused, so it may keep *)
(* it or close it.  Calls and answers may be lost, by the network or       *)
(* because ctx is canceled.  The application's fn increments one counter,  *)
(* the transaction that shows lost and repeated updates; it may fail, also *)
(* with ErrConcurrentBatch, and panic.  It does not call Commit itself.    *)
(***************************************************************************)
EXTENDS Naturals, FiniteSets

CONSTANTS Client,
          ReadOnly,      \* the clients whose batches have opts.ReadOnly
          MaxAttempts,   \* 3 in RunInBatch
          MaxLost        \* bound: batches of which a call or an answer is lost

ASSUME BatchAssumption == ReadOnly \subseteq Client /\ MaxAttempts \in Nat \ {0} /\ MaxLost \in Nat

VARIABLES counter,     \* the row in Syncbase
          snapshot,    \* snapshot[c]: what c's latest batch has read of it
          open,        \* the batches open in Syncbase
          refused,     \* the batches whose Commit Syncbase has refused
          pc,          \* pc[c]: where c is in RunInBatch
          attempt,     \* attempt[c]: i + 1 in RunInBatch
          commitCalled,
          rerr,        \* rerr[c]: the err of the attempt, then of RunInBatch
          commits,     \* commits[c]: how often Syncbase committed for c
          lost         \* the batches of which a call or its answer was lost

vars == <<counter, snapshot, open, refused, pc, attempt, commitCalled, rerr, commits, lost>>

(* Each attempt of a client begins one batch. *)
Batch == Client \X (1 .. MaxAttempts)

Init ==
    /\ counter = 0
    /\ snapshot = [c \in Client |-> 0]
    /\ open = {} /\ refused = {} /\ lost = {}
    /\ pc = [c \in Client |-> "begin"]
    /\ attempt = [c \in Client |-> 1]
    /\ commitCalled = [c \in Client |-> FALSE]
    /\ rerr = [c \in Client |-> "nil"]
    /\ commits = [c \in Client |-> 0]

Current(c) == <<c, attempt[c]>>

Goto(c, where) == pc' = [pc EXCEPT ![c] = where]

(* An RPC of c fails on the way there or back. *)
Lose(c) == Cardinality(lost \cup {Current(c)}) <= MaxLost /\ lost' = lost \cup {Current(c)}

(* What Syncbase does with d.BeginBatch. *)
ServerBegin(c) ==
    /\ open' = open \cup {Current(c)}
    /\ snapshot' = [snapshot EXCEPT ![c] = counter]

(* d.BeginBatch: an error ends the attempt; when it is the answer that was  *)
(* lost, Syncbase has begun a batch that the client has no handle of.       *)
BeginBatch(c) ==
    /\ pc[c] = "begin"
    /\ commitCalled' = [commitCalled EXCEPT ![c] = FALSE]
    /\ \/ /\ ServerBegin(c)
          /\ rerr' = [rerr EXCEPT ![c] = "nil"]
          /\ Goto(c, "fn")
          /\ UNCHANGED lost
       \/ /\ Lose(c)
          /\ ServerBegin(c) \/ UNCHANGED <<open, snapshot>>
          /\ rerr' = [rerr EXCEPT ![c] = "rpc"]
          /\ Goto(c, "check")
    /\ UNCHANGED <<counter, refused, attempt, commits>>

(* fn(b), which may fail by itself, with any error, or panic: both leave    *)
(* the attempt through the deferred function, as a readonly batch does.     *)
RunFn(c) ==
    /\ pc[c] = "fn"
    /\ \/ \E err \in {"fn", "ConcurrentBatch", "panic"} : rerr' = [rerr EXCEPT ![c] = err] /\ Goto(c, "deferred")
       \/ rerr' = [rerr EXCEPT ![c] = "nil"] /\ Goto(c, IF c \in ReadOnly THEN "deferred" ELSE "commit")
    /\ UNCHANGED <<counter, snapshot, open, refused, attempt, commitCalled, commits, lost>>

(* What Syncbase does with b.Commit, answering err. *)
ServerCommit(c, err) ==
    \/ /\ snapshot[c] = counter /\ err = "nil"
       /\ counter' = counter + 1
       /\ commits' = [commits EXCEPT ![c] = @ + 1]
       /\ open' = open \ {Current(c)}
       /\ UNCHANGED refused
    \/ /\ err = "refused" \/ (err = "ConcurrentBatch" /\ snapshot[c] # counter)
       /\ refused' = refused \cup {Current(c)}
       /\ open' \in {open, open \ {Current(c)}}
       /\ UNCHANGED <<counter, commits>>

(* b.Commit: answered, or its answer is lost, or the call itself. *)
Commit(c) ==
    /\ pc[c] = "commit"
    /\ commitCalled' = [commitCalled EXCEPT ![c] = TRUE]
    /\ \E err \in {"nil", "refused", "ConcurrentBatch"} :
         \/ ServerCommit(c, err) /\ rerr' = [rerr EXCEPT ![c] = err] /\ UNCHANGED lost
         \/ /\ ServerCommit(c, err) \/ UNCHANGED <<open, refused, counter, commits>>
            /\ Lose(c)
            /\ rerr' = [rerr EXCEPT ![c] = "rpc"]
    /\ Goto(c, "deferred")
    /\ UNCHANGED <<snapshot, attempt>>

(* attemptInBatch is left: a panic goes on through RunInBatch. *)
LeaveAttempt(c) == Goto(c, IF rerr[c] = "panic" THEN "panicked" ELSE "check")

(* An Abort that is called after fn instead of deferred. *)
AbortUnlessPanic(c) ==
    /\ pc[c] = "deferred"
    /\ IF commitCalled[c] \/ rerr[c] = "panic" THEN UNCHANGED <<open, lost>>
       ELSE \/ open' = open \ {Current(c)} /\ UNCHANGED lost
            \/ Lose(c) /\ UNCHANGED open
    /\ LeaveAttempt(c)
    /\ UNCHANGED <<counter, snapshot, refused, attempt, commitCalled, rerr, commits>>

(* The deferred function: Abort unless Commit was called. *)
DeferredAbort(c) ==
    /\ pc[c] = "deferred"
    /\ IF commitCalled[c] THEN UNCHANGED <<open, lost>>
       ELSE \/ open' = open \ {Current(c)} /\ UNCHANGED lost
            \/ Lose(c) /\ open' \in {open, open \ {Current(c)}}
    /\ LeaveAttempt(c)
    /\ UNCHANGED <<counter, snapshot, refused, attempt, commitCalled, rerr, commits>>

RetryAnyError(c) ==
    /\ pc[c] = "check"
    /\ IF rerr[c] # "nil" /\ attempt[c] < MaxAttempts
       THEN attempt' = [attempt EXCEPT ![c] = @ + 1] /\ Goto(c, "begin")
       ELSE Goto(c, "done") /\ UNCHANGED attempt
    /\ UNCHANGED <<counter, snapshot, open, refused, commitCalled, rerr, commits, lost>>

RetryForever(c) ==
    /\ pc[c] = "check"
    /\ Goto(c, IF rerr[c] = "ConcurrentBatch" THEN "begin" ELSE "done")
    /\ UNCHANGED <<counter, snapshot, open, refused, attempt, commitCalled, rerr, commits, lost>>

GiveUpSilently(c) ==
    /\ pc[c] = "check"
    /\ IF rerr[c] = "ConcurrentBatch" /\ attempt[c] < MaxAttempts
       THEN attempt' = [attempt EXCEPT ![c] = @ + 1] /\ Goto(c, "begin") /\ UNCHANGED rerr
       ELSE Goto(c, "done") /\ rerr' = [rerr EXCEPT ![c] = IF @ = "ConcurrentBatch" THEN "nil" ELSE @]
                  /\ UNCHANGED attempt
    /\ UNCHANGED <<counter, snapshot, open, refused, commitCalled, commits, lost>>

(* The loop of RunInBatch: only ErrConcurrentBatch is tried again. *)
CheckRetry(c) ==
    /\ pc[c] = "check"
    /\ IF rerr[c] = "ConcurrentBatch" /\ attempt[c] < MaxAttempts
       THEN attempt' = [attempt EXCEPT ![c] = @ + 1] /\ Goto(c, "begin")
       ELSE Goto(c, "done") /\ UNCHANGED attempt
    /\ UNCHANGED <<counter, snapshot, open, refused, commitCalled, rerr, commits, lost>>

Step(c) == BeginBatch(c) \/ RunFn(c) \/ Commit(c) \/ DeferredAbort(c) \/ CheckRetry(c)

Next == \E c \in Client : Step(c)

Spec == Init /\ [][Next]_vars

FairSpec == Spec /\ \A c \in Client : WF_vars(Step(c))
-----------------------------------------------------------------------------
(* Shape; there are at most MaxAttempts attempts. *)
TypeOK ==
    /\ counter \in Nat /\ open \subseteq Batch
    /\ pc \in [Client -> {"begin", "fn", "commit", "deferred", "check", "done", "panicked"}]
    /\ rerr \in [Client -> {"nil", "rpc", "fn", "panic", "refused", "ConcurrentBatch"}]
    /\ attempt \in [Client -> 1 .. MaxAttempts]

(* RunInBatch has its effect at most once, also when the answer to Commit   *)
(* is lost: only ErrConcurrentBatch, which rules out a commit, is retried.  *)
AtMostOnce == \A c \in Client : commits[c] <= 1

(* RunInBatch returns nil for a writable batch only if its writes were      *)
(* committed, and the writes of a batch that failed or panicked in fn, was  *)
(* refused or conflicted to the end were not.  Only an RPC error leaves it  *)
(* open.                                                                    *)
ResultTellsOutcome ==
    \A c \in Client : pc[c] \in {"done", "panicked"} =>
        /\ rerr[c] = "nil" => commits[c] = IF c \in ReadOnly THEN 0 ELSE 1
        /\ rerr[c] \in {"fn", "panic", "refused", "ConcurrentBatch"} => commits[c] = 0

(* "managing retries and commit/abort": a batch that RunInBatch does not    *)
(* try to commit, because fn failed or panicked or the batch is readonly,   *)
(* is aborted on every path and in every attempt, and one it commits is     *)
(* gone.  What may stay open when the attempt is over is a batch of which a *)
(* call was lost, or one whose Commit Syncbase refused: the code never      *)
(* aborts after a failed Commit, as the TODO at batch.go:66-68 says, and it *)
(* is then up to Syncbase to close the batch.                               *)
NoBatchLeft ==
    \A b \in open : \/ b \in lost \cup refused
                    \/ \E c \in Client : b = Current(c) /\ pc[c] \in {"fn", "commit", "deferred"}

(* RunInBatch returns or panics with fn, whatever the others commit in      *)
(* between.                                                                 *)
RunInBatchReturns == \A c \in Client : <>(pc[c] \in {"done", "panicked"})
=============================================================================
