--------------------------- MODULE SyncbaseStream ---------------------------
(***************************************************************************)
(* The streams of the Syncbase client (syncbase/scan_stream.go,            *)
(* result_stream.go, watch_stream.go and the readers of blob.go): one      *)
(* streaming RPC with its context, shared by goroutines that call Advance, *)
(* Err and Cancel.  They all follow one scheme: mu is held over the        *)
(* blocking receive, and Cancel cancels the context before it takes mu.    *)
(* The RPC, its stream and its server are external.                        *)
(***************************************************************************)
EXTENDS Naturals, Sequences, FiniteSets, SequencesExt

CONSTANTS Proc,      \* the goroutines of the application
          NoProc,
          Streams,   \* the streams there may be: [elems, header]; elems is
                     \* what the server sends, where "skip" is an
                     \* initial-state-skipped change, which only watch knows;
                     \* header: it comes from Exec, which reads a first row
          MaxCalls   \* bound: calls per goroutine

ASSUME StreamAssumption ==
    /\ NoProc \notin Proc /\ MaxCalls \in Nat
    /\ \A s \in Streams : s.elems \in Seq(Range(s.elems)) /\ s.header \in BOOLEAN

VARIABLES stream,      \* the one that was opened
          sent,        \* how many elements the server has sent
          serverEnd,   \* "open", or what the server returned: "nil" or "failed"
          cancelled,   \* the context of the RPC is cancelled
          received,    \* how many elements RecvStream has handed out
          mu,          \* who holds the stream's mutex
          err, finished,
          handle,      \* "opening", "user" or "lost": who has the stream object
          pc,          \* pc[p]: what goroutine p is doing
          calls,       \* calls[p]: how many calls it has made
          got,         \* the elements Advance has staged, in order
          finishes,    \* how often call.Finish was called
          cancelReturned

rpcVars == <<stream, sent, serverEnd, received>>
vars == <<rpcVars, cancelled, mu, err, finished, handle, pc, calls, got, finishes, cancelReturned>>

Init ==
    /\ stream \in Streams
    /\ sent = 0 /\ serverEnd = "open" /\ cancelled = FALSE /\ received = 0
    /\ mu = NoProc /\ err = "nil" /\ finished = FALSE
    /\ handle = IF stream.header THEN "opening" ELSE "user"
    /\ pc = [p \in Proc |-> "idle"]
    /\ calls = [p \in Proc |-> 0]
    /\ got = <<>>
    /\ finishes = 0
    /\ cancelReturned = FALSE
-----------------------------------------------------------------------------
(* The server: it sends, and ends the call at some point. *)
ServerSend ==
    /\ serverEnd = "open"
    /\ sent < Len(stream.elems)
    /\ sent' = sent + 1
    /\ UNCHANGED <<stream, serverEnd, received, cancelled, mu, err, finished, handle, pc, calls, got, finishes, cancelReturned>>

ServerEnds(status) ==
    /\ serverEnd = "open"
    /\ status = "nil" => sent = Len(stream.elems)
    /\ serverEnd' = status
    /\ UNCHANGED <<stream, sent, received, cancelled, mu, err, finished, handle, pc, calls, got, finishes, cancelReturned>>

(* What call.Finish may return: the status of the server, once that has     *)
(* come in, or the cancellation.                                            *)
FinishResults ==
    (IF serverEnd # "open" THEN {serverEnd} ELSE {}) \cup (IF cancelled THEN {"canceled"} ELSE {})

(* What RecvStream.Err may return after a receive that failed: nil at the   *)
(* end of the stream, or why there is no more to receive.                   *)
RecvErrs ==
    (IF received = sent /\ serverEnd # "open" THEN {"nil", serverEnd} ELSE {})
        \cup (IF cancelled THEN {"canceled"} ELSE {})

(* call.Finish; a result stream prefers the error of its receive, recvErr.  *)
Finish(recvErr) ==
    /\ \E f \in FinishResults : err' = IF stream.header /\ recvErr # "nil" THEN recvErr ELSE f
    /\ finishes' = finishes + 1
    /\ finished' = TRUE
-----------------------------------------------------------------------------
(* Exec reads the header row before it returns the stream; no Syncbase      *)
(* call of another goroutine can reach the stream yet.                      *)
ExecHeader ==
    /\ handle = "opening"
    /\ sent > received
    /\ received' = received + 1
    /\ handle' \in {"user", "lost"}    \* lost: the header cannot be decoded
    /\ UNCHANGED <<stream, sent, serverEnd, cancelled, mu, err, finished, pc, calls, got, finishes, cancelReturned>>

(* No first row: Exec returns the error, or a stream that has ended. *)
ExecEnded ==
    /\ handle = "opening"
    /\ sent = received /\ serverEnd # "open"
    /\ \E r \in RecvErrs : Finish(r)
    /\ cancelled' = TRUE
    /\ handle' = IF err' = "nil" THEN "user" ELSE "lost"
    /\ UNCHANGED <<rpcVars, mu, pc, calls, got, cancelReturned>>
-----------------------------------------------------------------------------
Call(p, where) ==
    /\ handle = "user"
    /\ pc[p] = "idle"
    /\ calls[p] < MaxCalls
    /\ calls' = [calls EXCEPT ![p] = @ + 1]
    /\ pc' = [pc EXCEPT ![p] = where]

Return(p) == pc' = [pc EXCEPT ![p] = "idle"]

CallAdvance(p) ==
    /\ Call(p, "advance")
    /\ UNCHANGED <<rpcVars, cancelled, mu, err, finished, handle, got, finishes, cancelReturned>>

AdvanceLockUnchecked(p) ==
    /\ pc[p] = "advance" /\ mu = NoProc
    /\ mu' = p /\ pc' = [pc EXCEPT ![p] = "receive"]
    /\ UNCHANGED <<rpcVars, cancelled, err, finished, handle, calls, got, finishes, cancelReturned>>

(* Advance: take mu; false at once if the call is finished. *)
AdvanceLock(p) ==
    /\ pc[p] = "advance" /\ mu = NoProc
    /\ IF finished THEN Return(p) /\ UNCHANGED mu
       ELSE mu' = p /\ pc' = [pc EXCEPT ![p] = "receive"]
    /\ UNCHANGED <<rpcVars, cancelled, err, finished, handle, calls, got, finishes, cancelReturned>>

(* RecvStream.Advance is true: stage the element, or go round again. *)
AdvanceStages(p) ==
    LET e == stream.elems[received + 1]
    IN  /\ pc[p] = "receive"
        /\ received < sent
        /\ received' = received + 1
        /\ IF e = "skip"
           THEN UNCHANGED <<pc, mu, got>>
           ELSE got' = Append(got, e) /\ mu' = NoProc /\ Return(p)
        /\ UNCHANGED <<stream, sent, serverEnd, cancelled, err, finished, handle, calls, finishes, cancelReturned>>

AdvanceEndsEarly(p) ==
    /\ pc[p] = "receive"
    /\ cancelled \/ serverEnd # "open"
    /\ Finish("nil")
    /\ cancelled' = TRUE
    /\ mu' = NoProc
    /\ Return(p)
    /\ UNCHANGED <<rpcVars, handle, calls, got, cancelReturned>>

(* RecvStream.Advance is false: the stream has ended or the context is      *)
(* cancelled.  Finish, cancel, finished.                                    *)
AdvanceEnds(p) ==
    /\ pc[p] = "receive"
    /\ cancelled \/ (received = sent /\ serverEnd # "open")
    /\ \E r \in RecvErrs : Finish(r)
    /\ cancelled' = TRUE
    /\ mu' = NoProc
    /\ Return(p)
    /\ UNCHANGED <<rpcVars, handle, calls, got, cancelReturned>>

CallCancelLater(p) ==
    /\ Call(p, "cancel")
    /\ UNCHANGED <<rpcVars, cancelled, mu, err, finished, handle, got, finishes, cancelReturned>>

(* Cancel: cancel the context, then take mu. *)
CallCancel(p) ==
    /\ Call(p, "cancel")
    /\ cancelled' = TRUE
    /\ UNCHANGED <<rpcVars, mu, err, finished, handle, got, finishes, cancelReturned>>

CancelForgets(p) ==
    /\ pc[p] = "cancel" /\ mu = NoProc
    /\ IF finished THEN UNCHANGED <<err, finishes>> ELSE err' \in FinishResults /\ finishes' = finishes + 1
    /\ cancelReturned' = TRUE
    /\ Return(p)
    /\ UNCHANGED <<rpcVars, cancelled, mu, finished, handle, calls, got>>

(* No receive has failed, or the call would be finished. *)
CancelLock(p) ==
    /\ pc[p] = "cancel" /\ mu = NoProc
    /\ IF finished THEN UNCHANGED <<err, finished, finishes>> ELSE Finish("nil")
    /\ cancelReturned' = TRUE
    /\ Return(p)
    /\ UNCHANGED <<rpcVars, cancelled, mu, handle, calls, got>>

CallErr(p) ==
    /\ Call(p, "err")
    /\ UNCHANGED <<rpcVars, cancelled, mu, err, finished, handle, got, finishes, cancelReturned>>

ErrLock(p) ==
    /\ pc[p] = "err" /\ mu = NoProc
    /\ Return(p)
    /\ UNCHANGED <<rpcVars, cancelled, mu, err, finished, handle, calls, got, finishes, cancelReturned>>
-----------------------------------------------------------------------------
Step(p) == AdvanceLock(p) \/ AdvanceStages(p) \/ AdvanceEnds(p) \/ CancelLock(p) \/ ErrLock(p)

Next ==
    \/ ServerSend \/ \E s \in {"nil", "failed"} : ServerEnds(s)
    \/ ExecHeader \/ ExecEnded
    \/ \E p \in Proc : CallAdvance(p) \/ CallCancel(p) \/ CallErr(p) \/ Step(p)

Spec == Init /\ [][Next]_vars

(* Goroutines run, and one that waits for mu gets it in the end.  Nothing   *)
(* is asked of the server or of the application.                            *)
FairSpec == Spec /\ \A p \in Proc : SF_vars(Step(p))
-----------------------------------------------------------------------------
(* Shape, and the owner of mu is inside Advance. *)
TypeOK ==
    /\ received \in 0 .. sent /\ sent \in 0 .. Len(stream.elems)
    /\ err \in {"nil", "failed", "canceled"}
    /\ pc \in [Proc -> {"idle", "advance", "receive", "cancel", "err"}]
    /\ \A p \in Proc : pc[p] = "receive" <=> mu = p

(* However Advance and Cancel meet, call.Finish is called at most once, and *)
(* a stream whose call is finished has released its context: reading to the *)
(* end is enough, as the Stream interface says.                             *)
FinishOnce == finishes <= 1 /\ (finished => cancelled)

(* The positions, up to the n-th, of the elements that Advance has to       *)
(* stage: not the header row and not the skipped ones.                      *)
Wanted(n) == {j \in (IF stream.header THEN 2 ELSE 1) .. n : stream.elems[j] # "skip"}

(* got holds these elements, each of them once and in the server's order.   *)
Staged(n) ==
    \E at \in [DOMAIN got -> Wanted(n)] :
        /\ \A i, j \in DOMAIN got : i < j => at[i] < at[j]
        /\ \A k \in Wanted(n) : \E i \in DOMAIN got : at[i] = k
        /\ \A i \in DOMAIN got : got[i] = stream.elems[at[i]]

(* Err is nil after an uncancelled iteration only if the iteration has      *)
(* staged every element the server sent, in order and without the skipped   *)
(* ones.                                                                    *)
NilErrMeansAll ==
    finished /\ err = "nil" /\ ~cancelReturned /\ (\A p \in Proc : pc[p] # "cancel") =>
        serverEnd = "nil" /\ Staged(Len(stream.elems))

(* "Cancel causes Advance to subsequently return false": after Cancel has   *)
(* returned nothing is staged any more, also by an Advance that was under   *)
(* way.                                                                     *)
CancelStops == [][cancelReturned => got' = got]_vars

(* "Cancel does not block": it returns although another goroutine sits in   *)
(* Advance and the server is silent; so does that Advance.                  *)
CancelReturns ==
    \A p \in Proc : (pc[p] = "cancel" \/ (cancelled /\ pc[p] \in {"advance", "receive"})) ~> (pc[p] = "idle")

(* "Err does not block." *)
ErrReturns == \A p \in Proc : (pc[p] = "err") ~> (pc[p] = "idle")

(* "The client must call Cancel if it does not iterate through all          *)
(* elements": Exec is the client of the result stream until it returns it.  *)
DroppedIsReleased == handle = "lost" => cancelled
=============================================================================
