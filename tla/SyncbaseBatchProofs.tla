------------------------ MODULE SyncbaseBatchProofs ------------------------
(***************************************************************************)
(* Proofs about RunInBatch, for any set of clients, of which any may be     *)
(* read-only, any number of attempts, lost calls and refused Commits, and  *)
(* whatever Syncbase does with the batches it refused to commit.            *)
(***************************************************************************)
EXTENDS SyncbaseBatch, TLAPS

Before == {"begin", "fn", "commit"}
After == {"deferred", "check", "done", "panicked"}

BatchTypes ==
    /\ TypeOK
    /\ snapshot \in [Client -> Nat]
    /\ commitCalled \in [Client -> BOOLEAN]
    /\ commits \in [Client -> Nat]
    /\ lost \subseteq Batch /\ refused \subseteq Batch

(* What client c knows of its commits.  Until Commit is called there are    *)
(* none, in this attempt or an earlier one; afterwards the error of the     *)
(* attempt tells, except when it is an RPC error.                           *)
KnowsCommits(c) ==
    /\ pc[c] \in Before => commits[c] = 0
    /\ pc[c] \in After =>
         /\ commits[c] <= 1
         /\ rerr[c] = "nil" => commits[c] = IF c \in ReadOnly THEN 0 ELSE 1
         /\ rerr[c] \in {"fn", "panic", "refused", "ConcurrentBatch"} => commits[c] = 0
    /\ pc[c] = "commit" => c \notin ReadOnly

(* Whose turn it is to end an open batch of c: Commit's, or, as long as     *)
(* Commit was not called, that of the deferred Abort.                       *)
EndsBatch(c) ==
    /\ pc[c] \in {"fn", "commit"} => ~commitCalled[c]
    /\ \A i \in 1 .. MaxAttempts : <<c, i>> \in open \ (lost \cup refused) =>
         /\ i = attempt[c]
         /\ pc[c] \in {"fn", "commit"} \/ (pc[c] = "deferred" /\ ~commitCalled[c])

BatchInv == BatchTypes /\ \A c \in Client : KnowsCommits(c) /\ EndsBatch(c)

LEMMA BatchInit == Init => BatchInv
BY BatchAssumption
DEF Init, BatchInv, BatchTypes, TypeOK, KnowsCommits, EndsBatch, Before, After

(* A step of one client leaves what the others know as it is. *)
Others(c) ==
    \A d \in Client \ {c} :
        /\ pc'[d] = pc[d] /\ rerr'[d] = rerr[d] /\ commits'[d] = commits[d]
        /\ commitCalled'[d] = commitCalled[d] /\ attempt'[d] = attempt[d]
        /\ \A i \in 1 .. MaxAttempts :
             /\ <<d, i>> \in open' => <<d, i>> \in open
             /\ <<d, i>> \in lost \cup refused => <<d, i>> \in lost' \cup refused'

LEMMA OthersKeep ==
    ASSUME BatchInv, NEW c \in Client, BatchTypes', Others(c), KnowsCommits(c)', EndsBatch(c)'
    PROVE  BatchInv'
<1> SUFFICES ASSUME NEW d \in Client, d # c
             PROVE  KnowsCommits(d)' /\ EndsBatch(d)'
  BY DEF BatchInv
<1>1. KnowsCommits(d) /\ EndsBatch(d) /\ d \in Client \ {c}
  BY DEF BatchInv
<1>2. KnowsCommits(d)'
  BY <1>1 DEF KnowsCommits, Others
<1>3. EndsBatch(d)'
  BY <1>1 DEF EndsBatch, Others
<1> QED
  BY <1>2, <1>3

(* BeginBatch opens a batch, or fails before there is one. *)
LEMMA BeginBatchInv ==
    ASSUME BatchInv, NEW c \in Client, BeginBatch(c)
    PROVE  BatchInv'
<1>1. BatchTypes'
  BY BatchAssumption DEF BatchInv, BatchTypes, TypeOK, BeginBatch, ServerBegin, Current, Batch, Goto, Lose
<1>2. Others(c)
  BY DEF BatchInv, BatchTypes, TypeOK, BeginBatch, ServerBegin, Current, Batch, Goto, Lose, Others
<1>3. KnowsCommits(c)'
  BY DEF BatchInv, BatchTypes, TypeOK, BeginBatch, ServerBegin, Current, Batch, Goto, Lose, KnowsCommits, Before, After
<1>4. EndsBatch(c)'
  BY DEF BatchInv, BatchTypes, TypeOK, BeginBatch, ServerBegin, Current, Batch, Goto, Lose, EndsBatch
<1> QED
  BY <1>1, <1>2, <1>3, <1>4, OthersKeep

(* fn changes nothing in Syncbase until Commit. *)
LEMMA RunFnInv ==
    ASSUME BatchInv, NEW c \in Client, RunFn(c)
    PROVE  BatchInv'
<1>1. BatchTypes'
  BY BatchAssumption DEF BatchInv, BatchTypes, TypeOK, RunFn, Goto
<1>2. Others(c)
  BY DEF BatchInv, BatchTypes, TypeOK, RunFn, Goto, Others
<1>3. KnowsCommits(c)'
  BY DEF BatchInv, BatchTypes, TypeOK, RunFn, Goto, KnowsCommits, Before, After
<1>4. EndsBatch(c)'
  BY DEF BatchInv, BatchTypes, TypeOK, RunFn, Goto, EndsBatch
<1> QED
  BY <1>1, <1>2, <1>3, <1>4, OthersKeep

(* Commit, in each of the three ways the call can go. *)
LEMMA CommitInv ==
    ASSUME BatchInv, NEW c \in Client, Commit(c)
    PROVE  BatchInv'
<1> USE DEF BatchInv, BatchTypes, TypeOK, Commit, ServerCommit, Current, Batch, Goto, Lose
<1>1. BatchTypes'
  <2>1. /\ commits' \in [Client -> Nat]
        /\ counter' \in Nat
        /\ open' \subseteq Batch /\ lost' \subseteq Batch /\ refused' \subseteq Batch
    OBVIOUS
  <2>2. /\ pc' \in [Client -> {"begin", "fn", "commit", "deferred", "check", "done", "panicked"}]
        /\ rerr' \in [Client -> {"nil", "rpc", "fn", "panic", "refused", "ConcurrentBatch"}]
        /\ commitCalled' \in [Client -> BOOLEAN]
        /\ attempt' = attempt /\ snapshot' = snapshot
    OBVIOUS
  <2> QED
    BY <2>1, <2>2
<1>2. Others(c)
  BY DEF Others
<1>3. KnowsCommits(c)'
  BY DEF KnowsCommits, Before, After
<1>4. EndsBatch(c)'
  BY DEF EndsBatch
<1> QED
  BY <1>1, <1>2, <1>3, <1>4, OthersKeep

(* The deferred function ends the batch that Commit did not get to see. *)
LEMMA DeferredAbortInv ==
    ASSUME BatchInv, NEW c \in Client, DeferredAbort(c)
    PROVE  BatchInv'
<1>1. BatchTypes'
  BY DEF BatchInv, BatchTypes, TypeOK, DeferredAbort, LeaveAttempt, Current, Batch, Goto, Lose
<1>2. Others(c)
  BY DEF BatchInv, BatchTypes, TypeOK, DeferredAbort, LeaveAttempt, Current, Batch, Goto, Lose, Others
<1>3. KnowsCommits(c)'
  BY DEF BatchInv, BatchTypes, TypeOK, DeferredAbort, LeaveAttempt, Current, Batch, Goto, KnowsCommits, Before, After
<1>4. EndsBatch(c)'
  BY DEF BatchInv, BatchTypes, TypeOK, DeferredAbort, LeaveAttempt, Current, Batch, Goto, Lose, EndsBatch
<1> QED
  BY <1>1, <1>2, <1>3, <1>4, OthersKeep

(* Only an error that rules out a commit starts another attempt. *)
LEMMA CheckRetryInv ==
    ASSUME BatchInv, NEW c \in Client, CheckRetry(c)
    PROVE  BatchInv'
<1>1. BatchTypes'
  BY BatchAssumption DEF BatchInv, BatchTypes, TypeOK, CheckRetry, Goto
<1>2. Others(c)
  BY DEF BatchInv, BatchTypes, TypeOK, CheckRetry, Goto, Others
<1>3. KnowsCommits(c)'
  BY DEF BatchInv, BatchTypes, TypeOK, CheckRetry, Goto, KnowsCommits, Before, After
<1>4. EndsBatch(c)'
  BY DEF BatchInv, BatchTypes, TypeOK, CheckRetry, Goto, EndsBatch
<1> QED
  BY <1>1, <1>2, <1>3, <1>4, OthersKeep

LEMMA BatchNext == BatchInv /\ [Next]_vars => BatchInv'
<1> SUFFICES ASSUME BatchInv, [Next]_vars PROVE BatchInv'
  OBVIOUS
<1>1. CASE Next
  <2>1. PICK c \in Client : Step(c)
    BY <1>1 DEF Next
  <2> QED
    BY <2>1, BeginBatchInv, RunFnInv, CommitInv, DeferredAbortInv, CheckRetryInv DEF Step
<1>2. CASE UNCHANGED vars
  BY <1>2 DEF vars, BatchInv, BatchTypes, TypeOK, KnowsCommits, EndsBatch
<1> QED
  BY <1>1, <1>2

LEMMA BatchInvariant == Spec => []BatchInv
BY BatchInit, BatchNext, PTL DEF Spec

(* The shape of the state, and no more than MaxAttempts attempts, for any   *)
(* number of clients.                                                       *)
THEOREM BatchTypeOK == Spec => []TypeOK
<1>1. BatchInv => TypeOK
  BY DEF BatchInv, BatchTypes
<1> QED
  BY <1>1, BatchInvariant, PTL

(* RunInBatch never has its effect twice, although a Commit whose answer is *)
(* lost may have been applied and although conflicts are retried.           *)
THEOREM RunInBatchAtMostOnce == Spec => []AtMostOnce
<1>1. BatchInv => AtMostOnce
  BY DEF BatchInv, BatchTypes, TypeOK, KnowsCommits, Before, After, AtMostOnce
<1> QED
  BY <1>1, BatchInvariant, PTL

(* The error RunInBatch returns tells whether its writes were committed,    *)
(* except for the error of an RPC.                                          *)
THEOREM RunInBatchResult == Spec => []ResultTellsOutcome
<1>1. BatchInv => ResultTellsOutcome
  BY DEF BatchInv, KnowsCommits, After, ResultTellsOutcome
<1> QED
  BY <1>1, BatchInvariant, PTL

(* A batch RunInBatch does not try to commit is aborted, also when fn       *)
(* panics, and a committed one is gone: only a lost call, or a Commit that  *)
(* Syncbase refused and after which the code does not abort, leaves one     *)
(* open.                                                                    *)
THEOREM RunInBatchCleansUp == Spec => []NoBatchLeft
<1>1. BatchInv => NoBatchLeft
  <2> SUFFICES ASSUME BatchInv, NEW b \in open, b \notin lost \cup refused
               PROVE  \E c \in Client : b = Current(c) /\ pc[c] \in {"fn", "commit", "deferred"}
    BY DEF NoBatchLeft
  <2>1. PICK c \in Client, i \in 1 .. MaxAttempts : b = <<c, i>>
    BY DEF BatchInv, BatchTypes, TypeOK, Batch
  <2>2. b = Current(c) /\ pc[c] \in {"fn", "commit", "deferred"}
    BY <2>1 DEF BatchInv, EndsBatch, Current
  <2> QED
    BY <2>2
<1> QED
  BY <1>1, BatchInvariant, PTL
=============================================================================
