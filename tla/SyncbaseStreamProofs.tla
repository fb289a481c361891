------------------------ MODULE SyncbaseStreamProofs ------------------------
(***************************************************************************)
(* Proofs about the client's streams, for any number of goroutines that     *)
(* call Advance, Err and Cancel in any order, and any streams.              *)
(***************************************************************************)
EXTENDS SyncbaseStream, TLAPS

StreamTypes ==
    /\ TypeOK
    /\ stream \in Streams
    /\ serverEnd \in {"open", "nil", "failed"}
    /\ cancelled \in BOOLEAN /\ finished \in BOOLEAN /\ cancelReturned \in BOOLEAN
    /\ mu \in Proc \cup {NoProc}
    /\ handle \in {"opening", "user", "lost"}
    /\ got \in Seq(Range(stream.elems))

(* Somebody has called Cancel, and maybe it has returned. *)
CancelSeen == cancelReturned \/ \E p \in Proc : pc[p] = "cancel"

(* finished guards call.Finish; the context is cancelled before Cancel      *)
(* waits for mu, and only by Cancel or by who finishes the call.            *)
FinishFlow ==
    /\ finishes = IF finished THEN 1 ELSE 0
    /\ finished => cancelled /\ mu = NoProc
    /\ cancelReturned => finished
    /\ \A p \in Proc : pc[p] = "cancel" => cancelled
    /\ cancelled => finished \/ CancelSeen

(* While Exec reads the header row nobody else has the stream; who has it   *)
(* finds the header row read, or the stream at its end.                     *)
Opening ==
    /\ handle = "opening" => /\ stream.header /\ ~finished /\ received = 0
                             /\ \A p \in Proc : pc[p] = "idle"
    /\ stream.header /\ handle # "opening" => received >= 1 \/ finished

(* What the status of the call says of the elements. *)
StatusFlow ==
    /\ serverEnd = "nil" => sent = Len(stream.elems)
    /\ finished /\ err = "nil" => serverEnd = "nil"
    /\ finished /\ err = "nil" /\ ~CancelSeen => received = sent

StreamInv == StreamTypes /\ FinishFlow /\ Opening /\ StatusFlow /\ Staged(received)

-----------------------------------------------------------------------------
(* The elements of an opened stream are a sequence. *)
LEMMA StreamShape ==
    ASSUME StreamTypes
    PROVE  /\ stream.elems \in Seq(Range(stream.elems))
           /\ Len(stream.elems) \in Nat
           /\ DOMAIN stream.elems = 1 .. Len(stream.elems)
           /\ stream.header \in BOOLEAN
           /\ received \in Nat /\ sent \in Nat
<1>1. stream \in Streams
  BY DEF StreamTypes
<1>2. /\ stream.elems \in Seq(Range(stream.elems))
      /\ stream.header \in BOOLEAN
  BY <1>1, StreamAssumption
<1>3. /\ Len(stream.elems) \in Nat
      /\ DOMAIN stream.elems = 1 .. Len(stream.elems)
  BY <1>2
<1> QED
  BY <1>2, <1>3 DEF StreamTypes, TypeOK

(* One more element has been received and staged. *)
LEMMA StagedAppend ==
    ASSUME StreamTypes, Staged(received), received < sent,
           stream.elems[received + 1] # "skip",
           stream.header => received >= 1,
           stream' = stream, received' = received + 1,
           got' = Append(got, stream.elems[received + 1])
    PROVE  Staged(received)'
<1> DEFINE n == Len(got)
           first == IF stream.header THEN 2 ELSE 1
<1>1. /\ received \in Nat /\ received + 1 \in 1 .. Len(stream.elems) /\ first \in Nat
      /\ first <= received + 1
  BY StreamShape DEF StreamTypes, TypeOK
<1>2. n \in Nat /\ DOMAIN got = 1 .. n /\ got \in Seq(Range(stream.elems))
  BY DEF StreamTypes
<1>3. stream.elems[received + 1] \in Range(stream.elems)
  BY <1>1, StreamShape DEF Range
<1>4. /\ DOMAIN got' = 1 .. n + 1
      /\ \A i \in 1 .. n : got'[i] = got[i]
      /\ got'[n + 1] = stream.elems[received + 1]
  BY <1>2, <1>3
<1>5. Wanted(received)' = Wanted(received) \cup {received + 1}
  BY <1>1 DEF Wanted
<1>6. \A k \in Wanted(received) : k \in Nat /\ k <= received
  BY <1>1 DEF Wanted
<1>p. PICK at \in [DOMAIN got -> Wanted(received)] :
          /\ \A i, j \in DOMAIN got : i < j => at[i] < at[j]
          /\ \A k \in Wanted(received) : \E i \in DOMAIN got : at[i] = k
          /\ \A i \in DOMAIN got : got[i] = stream.elems[at[i]]
  BY DEF Staged
<1>7. /\ at \in [1 .. n -> Wanted(received)]
      /\ \A i, j \in 1 .. n : i < j => at[i] < at[j]
      /\ \A k \in Wanted(received) : \E i \in 1 .. n : at[i] = k
      /\ \A i \in 1 .. n : got[i] = stream.elems[at[i]]
  BY <1>p, <1>2
<1> DEFINE new == [i \in 1 .. n + 1 |-> IF i <= n THEN at[i] ELSE received + 1]
<1>m. /\ \A i \in 1 .. n + 1 : i \in 1 .. n \/ i = n + 1
      /\ \A i \in 1 .. n : i \in 1 .. n + 1 /\ i <= n
      /\ n + 1 \in 1 .. n + 1 /\ ~(n + 1 <= n)
  BY <1>2
<1>n. /\ \A i \in 1 .. n : i \in 1 .. n + 1 /\ new[i] = at[i] /\ at[i] \in Wanted(received)
      /\ new[n + 1] = received + 1
      /\ \A i \in 1 .. n + 1 : i \in 1 .. n \/ i = n + 1
  BY <1>m, <1>7
<1>8. new \in [1 .. n + 1 -> Wanted(received)']
  BY <1>2, <1>5, <1>7
<1>9. ASSUME NEW i \in 1 .. n + 1, NEW j \in 1 .. n + 1, i < j
      PROVE  new[i] < new[j]
  <2>1. i \in 1 .. n
    BY <1>2, <1>9
  <2>2. CASE j \in 1 .. n
    BY <2>1, <2>2, <1>9, <1>n, <1>7
  <2>3. CASE j = n + 1
    BY <2>1, <2>3, <1>n, <1>6, <1>1
  <2> QED
    BY <2>2, <2>3, <1>n
<1>10. ASSUME NEW k \in Wanted(received)'
       PROVE  \E i \in 1 .. n + 1 : new[i] = k
  <2>1. CASE k \in Wanted(received)
    <3>1. PICK i \in 1 .. n : at[i] = k
      BY <2>1, <1>7
    <3> QED
      BY <3>1, <1>n
  <2>2. CASE k = received + 1
    BY <2>2, <1>n, <1>2
  <2> QED
    BY <2>1, <2>2, <1>5
<1>11. ASSUME NEW i \in 1 .. n + 1
       PROVE  got'[i] = stream'.elems[new[i]]
  BY <1>n, <1>4, <1>7
<1> HIDE DEF new, n
<1>12. /\ new \in [DOMAIN got' -> Wanted(received)']
       /\ \A i, j \in DOMAIN got' : i < j => new[i] < new[j]
       /\ \A k \in Wanted(received)' : \E i \in DOMAIN got' : new[i] = k
       /\ \A i \in DOMAIN got' : got'[i] = stream'.elems[new[i]]
  BY <1>4, <1>8, <1>9, <1>10, <1>11
<1> QED
  BY <1>12 DEF Staged

(* An element was received that is not to be staged: the header row, or one *)
(* to be skipped.                                                           *)
LEMMA StagedSkip ==
    ASSUME StreamTypes, Staged(received), stream' = stream, got' = got,
           received' = received + 1,
           (stream.header /\ received = 0) \/ stream.elems[received + 1] = "skip"
    PROVE  Staged(received)'
<1>1. received \in Nat
  BY StreamShape
<1>2. Wanted(received)' = Wanted(received)
  BY <1>1 DEF Wanted
<1> QED
  BY <1>2 DEF Staged

(* Nothing was received. *)
LEMMA StagedSame ==
    ASSUME Staged(received), stream' = stream, got' = got, received' = received
    PROVE  Staged(received)'
<1>1. Wanted(received)' = Wanted(received)
  BY DEF Wanted
<1> QED
  BY <1>1 DEF Staged
-----------------------------------------------------------------------------
LEMMA StreamInit == Init => StreamInv
<1> SUFFICES ASSUME Init PROVE StreamInv
  OBVIOUS
<1>1. /\ stream.elems \in Seq(Range(stream.elems))
      /\ Len(stream.elems) \in Nat
      /\ stream.header \in BOOLEAN
  BY StreamAssumption DEF Init
<1>2. StreamTypes
  <2>1. got \in Seq(Range(stream.elems))
    BY DEF Init
  <2>2. TypeOK
    BY <1>1, StreamAssumption DEF Init, TypeOK
  <2> QED
    BY <1>1, <2>1, <2>2 DEF Init, StreamTypes
<1>3. FinishFlow /\ Opening /\ StatusFlow
  BY <1>1 DEF Init, FinishFlow, Opening, StatusFlow, CancelSeen
<1>4. Wanted(received) = {}
  BY <1>1 DEF Init, Wanted
<1>5. got = <<>> /\ DOMAIN got = {}
  BY DEF Init
<1>6. Staged(received)
  <2> DEFINE none == [i \in DOMAIN got |-> i]
  <2>1. none \in [DOMAIN got -> Wanted(received)]
    BY <1>5
  <2> HIDE DEF none
  <2> QED
    BY <1>4, <1>5, <2>1 DEF Staged
<1> QED
  BY <1>2, <1>3, <1>6 DEF StreamInv

(* The server sends an element or ends the call. *)
LEMMA ServerInv ==
    ASSUME StreamInv, ServerSend \/ \E s \in {"nil", "failed"} : ServerEnds(s)
    PROVE  StreamInv'
<1> USE DEF StreamInv, ServerSend, ServerEnds
<1>0. Len(stream.elems) \in Nat /\ received \in Nat /\ sent \in Nat
  BY StreamShape
<1>1. StreamTypes'
  BY <1>0 DEF StreamTypes, TypeOK
<1>2. FinishFlow' /\ Opening'
  BY <1>0 DEF FinishFlow, Opening, CancelSeen
<1>3. StatusFlow'
  BY <1>0 DEF StatusFlow, CancelSeen
<1>4. Staged(received)'
  BY StagedSame
<1> QED
  BY <1>1, <1>2, <1>3, <1>4

(* Exec reads the header row, or finds the stream at its end. *)
LEMMA ExecInv ==
    ASSUME StreamInv, ExecHeader \/ ExecEnded
    PROVE  StreamInv'
<1>0. /\ Len(stream.elems) \in Nat /\ received \in Nat /\ sent \in Nat /\ stream.header \in BOOLEAN
  BY StreamShape DEF StreamInv
<1>1. CASE ExecHeader
  <2> USE <1>1 DEF StreamInv, ExecHeader
  <2>1. StreamTypes'
    BY <1>0 DEF StreamTypes, TypeOK
  <2>2. FinishFlow' /\ Opening'
    BY <1>0 DEF FinishFlow, Opening, CancelSeen, StreamTypes
  <2>3. StatusFlow'
    BY <1>0 DEF StatusFlow, Opening, CancelSeen
  <2>4. Staged(received)'
    BY StagedSkip DEF Opening
  <2> QED
    BY <2>1, <2>2, <2>3, <2>4
<1>2. CASE ExecEnded
  <2> USE <1>2 DEF StreamInv, ExecEnded, Finish, FinishResults, RecvErrs, rpcVars
  <2>1. StreamTypes'
    BY <1>0 DEF StreamTypes, TypeOK
  <2>2. ~cancelled /\ ~CancelSeen /\ mu = NoProc
    BY DEF FinishFlow, Opening, CancelSeen, StreamTypes, TypeOK
  <2>3. FinishFlow'
    BY <2>2 DEF FinishFlow, Opening, CancelSeen, StreamTypes
  <2>4. Opening'
    BY DEF Opening
  <2>5. StatusFlow'
    BY <2>2 DEF StatusFlow, CancelSeen
  <2>6. Staged(received)'
    BY StagedSame
  <2> QED
    BY <2>1, <2>3, <2>4, <2>5, <2>6
<1> QED
  BY <1>1, <1>2

(* The calls of Advance, Cancel and Err; Cancel cancels the context at once. *)
LEMMA CallInv ==
    ASSUME StreamInv, NEW p \in Proc, CallAdvance(p) \/ CallCancel(p) \/ CallErr(p)
    PROVE  StreamInv'
<1> USE DEF StreamInv, CallAdvance, CallCancel, CallErr, Call, rpcVars
<1>0. pc \in [Proc -> {"idle", "advance", "receive", "cancel", "err"}] /\ pc[p] = "idle"
  BY DEF StreamTypes, TypeOK
<1>1. StreamTypes'
  BY <1>0, StreamAssumption DEF StreamTypes, TypeOK
<1>2. CancelSeen => CancelSeen'
  BY <1>0 DEF CancelSeen
<1>3. CallCancel(p) => CancelSeen'
  BY <1>0 DEF CancelSeen
<1>4. FinishFlow'
  BY <1>0, <1>2, <1>3 DEF FinishFlow, StreamTypes
<1>5. Opening'
  BY DEF Opening
<1>6. StatusFlow'
  BY <1>2 DEF StatusFlow
<1>7. Staged(received)'
  BY StagedSame
<1> QED
  BY <1>1, <1>4, <1>5, <1>6, <1>7

(* Advance takes mu, or returns at once from a finished call. *)
LEMMA AdvanceLockInv ==
    ASSUME StreamInv, NEW p \in Proc, AdvanceLock(p)
    PROVE  StreamInv'
<1> USE DEF StreamInv, AdvanceLock, Return, rpcVars
<1>0. pc \in [Proc -> {"idle", "advance", "receive", "cancel", "err"}] /\ pc[p] = "advance"
  BY DEF StreamTypes, TypeOK
<1>1. StreamTypes'
  <2>1. /\ pc' \in [Proc -> {"idle", "advance", "receive", "cancel", "err"}]
        /\ mu' \in Proc \cup {NoProc}
    BY <1>0 DEF StreamTypes
  <2>2. ASSUME NEW q \in Proc PROVE pc'[q] = "receive" <=> mu' = q
    <3>1. pc[q] # "receive"
      BY StreamAssumption DEF StreamTypes, TypeOK
    <3>2. CASE finished
      BY <3>1, <3>2, <1>0, StreamAssumption DEF StreamTypes, TypeOK
    <3>3. CASE ~finished
      BY <3>1, <3>3, <1>0
    <3> QED
      BY <3>2, <3>3
  <2> QED
    BY <2>1, <2>2 DEF StreamTypes, TypeOK
<1>2. CancelSeen' <=> CancelSeen
  BY <1>0 DEF CancelSeen
<1>3. FinishFlow'
  BY <1>0, <1>2 DEF FinishFlow, StreamTypes
<1>4. Opening'
  BY <1>0 DEF Opening
<1>5. StatusFlow'
  BY <1>2 DEF StatusFlow
<1>6. Staged(received)'
  BY StagedSame
<1> QED
  BY <1>1, <1>3, <1>4, <1>5, <1>6

(* Who receives holds mu, in a stream that is neither finished nor still    *)
(* with Exec.                                                               *)
LEMMA Receiving ==
    ASSUME StreamInv, NEW p \in Proc, pc[p] = "receive"
    PROVE  /\ mu = p /\ ~finished /\ ~cancelReturned /\ handle # "opening"
           /\ stream.header => received >= 1
<1>1. mu = p /\ mu # NoProc
  BY StreamAssumption DEF StreamInv, StreamTypes, TypeOK
<1> QED
  BY <1>1 DEF StreamInv, FinishFlow, Opening

(* Advance has an element: it stages it, or goes round again. *)
LEMMA AdvanceStagesInv ==
    ASSUME StreamInv, NEW p \in Proc, AdvanceStages(p)
    PROVE  StreamInv'
<1> USE DEF StreamInv, AdvanceStages, Return
<1>0. pc \in [Proc -> {"idle", "advance", "receive", "cancel", "err"}] /\ pc[p] = "receive"
  BY DEF StreamTypes, TypeOK
<1>r. /\ mu = p /\ ~finished /\ ~cancelReturned /\ handle # "opening"
      /\ stream.header => received >= 1
  BY <1>0, Receiving
<1>n. /\ Len(stream.elems) \in Nat /\ received \in Nat /\ sent \in Nat
      /\ DOMAIN stream.elems = 1 .. Len(stream.elems) /\ sent <= Len(stream.elems)
  BY StreamShape DEF StreamTypes, TypeOK
<1>e. stream.elems[received + 1] \in Range(stream.elems)
  BY <1>n DEF Range
<1>1. StreamTypes'
  <2>1. got' \in Seq(Range(stream.elems))
    BY <1>e DEF StreamTypes
  <2>2. received' \in 0 .. sent /\ stream' = stream /\ sent' = sent
    BY <1>n
  <2>3. /\ pc' \in [Proc -> {"idle", "advance", "receive", "cancel", "err"}]
        /\ \A q \in Proc : pc'[q] = "receive" <=> mu' = q
        /\ mu' \in Proc \cup {NoProc}
    BY <1>0, <1>r, StreamAssumption DEF StreamTypes, TypeOK
  <2> QED
    BY <2>1, <2>2, <2>3 DEF StreamTypes, TypeOK
<1>2. CancelSeen' <=> CancelSeen
  BY <1>0 DEF CancelSeen
<1>3. FinishFlow'
  BY <1>0, <1>r, <1>2 DEF FinishFlow, StreamTypes
<1>4. Opening'
  BY <1>r, <1>n DEF Opening
<1>5. StatusFlow'
  BY <1>r DEF StatusFlow
<1>6. Staged(received)'
  <2>1. CASE stream.elems[received + 1] = "skip"
    BY <2>1, StagedSkip
  <2>2. CASE stream.elems[received + 1] # "skip"
    BY <2>2, <1>r, StagedAppend
  <2> QED
    BY <2>1, <2>2
<1> QED
  BY <1>1, <1>3, <1>4, <1>5, <1>6

(* Advance finds the end, or the context cancelled. *)
LEMMA AdvanceEndsInv ==
    ASSUME StreamInv, NEW p \in Proc, AdvanceEnds(p)
    PROVE  StreamInv'
<1> USE DEF StreamInv, AdvanceEnds, Return, Finish, FinishResults, RecvErrs, rpcVars
<1>0. pc \in [Proc -> {"idle", "advance", "receive", "cancel", "err"}] /\ pc[p] = "receive"
  BY DEF StreamTypes, TypeOK
<1>r. mu = p /\ ~finished /\ ~cancelReturned /\ handle # "opening"
  BY <1>0, Receiving
<1>1. StreamTypes'
  BY <1>0, <1>r, StreamAssumption DEF StreamTypes, TypeOK
<1>2. CancelSeen' <=> CancelSeen
  BY <1>0 DEF CancelSeen
<1>3. FinishFlow'
  BY <1>0, <1>r, <1>2 DEF FinishFlow, StreamTypes
<1>4. Opening'
  BY <1>r DEF Opening
<1>5. StatusFlow'
  BY <1>r, <1>2 DEF StatusFlow, FinishFlow, StreamTypes
<1>6. Staged(received)'
  BY StagedSame
<1> QED
  BY <1>1, <1>3, <1>4, <1>5, <1>6

(* Cancel has mu: it finishes the call unless that was done. *)
LEMMA CancelLockInv ==
    ASSUME StreamInv, NEW p \in Proc, CancelLock(p)
    PROVE  StreamInv'
<1> USE DEF StreamInv, CancelLock, Return, Finish, FinishResults, RecvErrs, rpcVars
<1>0. pc \in [Proc -> {"idle", "advance", "receive", "cancel", "err"}] /\ pc[p] = "cancel"
  BY DEF StreamTypes, TypeOK
<1>1. StreamTypes'
  BY <1>0, StreamAssumption DEF StreamTypes, TypeOK
<1>2. CancelSeen /\ CancelSeen'
  BY <1>0 DEF CancelSeen
<1>3. FinishFlow'
  BY <1>0, <1>2 DEF FinishFlow, StreamTypes
<1>4. Opening'
  BY <1>0 DEF Opening
<1>5. StatusFlow'
  BY <1>2 DEF StatusFlow
<1>6. Staged(received)'
  BY StagedSame
<1> QED
  BY <1>1, <1>3, <1>4, <1>5, <1>6

LEMMA ErrLockInv ==
    ASSUME StreamInv, NEW p \in Proc, ErrLock(p)
    PROVE  StreamInv'
<1> USE DEF StreamInv, ErrLock, Return, rpcVars
<1>0. pc \in [Proc -> {"idle", "advance", "receive", "cancel", "err"}] /\ pc[p] = "err"
  BY DEF StreamTypes, TypeOK
<1>1. StreamTypes'
  BY <1>0, StreamAssumption DEF StreamTypes, TypeOK
<1>2. CancelSeen' <=> CancelSeen
  BY <1>0 DEF CancelSeen
<1>3. FinishFlow'
  BY <1>0, <1>2 DEF FinishFlow, StreamTypes
<1>4. Opening'
  BY <1>0 DEF Opening
<1>5. StatusFlow'
  BY <1>2 DEF StatusFlow
<1>6. Staged(received)'
  BY StagedSame
<1> QED
  BY <1>1, <1>3, <1>4, <1>5, <1>6

LEMMA StreamNext == StreamInv /\ [Next]_vars => StreamInv'
<1> SUFFICES ASSUME StreamInv, [Next]_vars PROVE StreamInv'
  OBVIOUS
<1>1. CASE ServerSend \/ \E s \in {"nil", "failed"} : ServerEnds(s)
  BY <1>1, ServerInv
<1>2. CASE ExecHeader \/ ExecEnded
  BY <1>2, ExecInv
<1>3. ASSUME NEW p \in Proc, CallAdvance(p) \/ CallCancel(p) \/ CallErr(p) \/ Step(p)
      PROVE  StreamInv'
  BY <1>3, CallInv, AdvanceLockInv, AdvanceStagesInv, AdvanceEndsInv, CancelLockInv, ErrLockInv
  DEF Step
<1>4. CASE UNCHANGED vars
  <2> USE <1>4 DEF vars, rpcVars, StreamInv
  <2>1. StreamTypes' /\ FinishFlow' /\ Opening' /\ StatusFlow'
    BY DEF StreamTypes, TypeOK, FinishFlow, Opening, StatusFlow, CancelSeen
  <2>2. Staged(received)'
    BY StagedSame
  <2> QED
    BY <2>1, <2>2
<1> QED
  BY <1>1, <1>2, <1>3, <1>4 DEF Next

LEMMA StreamInvariant == Spec => []StreamInv
BY StreamInit, StreamNext, PTL DEF Spec
-----------------------------------------------------------------------------
(* The shape of the state; whoever holds mu is inside Advance's receive. *)
THEOREM StreamTypeOK == Spec => []TypeOK
<1>1. StreamInv => TypeOK
  BY DEF StreamInv, StreamTypes
<1> QED
  BY <1>1, StreamInvariant, PTL

(* However many goroutines call Advance and Cancel, call.Finish is called   *)
(* once at most, and a finished call has released its context.              *)
THEOREM StreamFinishOnce == Spec => []FinishOnce
<1>1. StreamInv => FinishOnce
  BY DEF StreamInv, FinishFlow, FinishOnce
<1> QED
  BY <1>1, StreamInvariant, PTL

(* A nil error after an iteration that nobody cancelled means that every    *)
(* element the server sent was staged, once and in order.                   *)
THEOREM StreamNilErrMeansAll == Spec => []NilErrMeansAll
<1>1. StreamInv => NilErrMeansAll
  <2> SUFFICES ASSUME StreamInv, finished, err = "nil", ~cancelReturned,
                      \A p \in Proc : pc[p] # "cancel"
               PROVE  serverEnd = "nil" /\ Staged(Len(stream.elems))
    BY DEF NilErrMeansAll
  <2>1. serverEnd = "nil" /\ received = sent /\ sent = Len(stream.elems)
    BY DEF StreamInv, StatusFlow, CancelSeen
  <2>2. Staged(received)
    BY DEF StreamInv
  <2> QED
    BY <2>1, <2>2
<1> QED
  BY <1>1, StreamInvariant, PTL

(* Also while the iteration is under way, and whoever calls Advance: what   *)
(* was staged is what was received, nothing lost, repeated or out of order. *)
THEOREM StreamStagesInOrder == Spec => []Staged(received)
<1>1. StreamInv => Staged(received)
  BY DEF StreamInv
<1> QED
  BY <1>1, StreamInvariant, PTL

(* After Cancel has returned no Advance stages anything, also none that was *)
(* under way when Cancel was called.                                        *)
THEOREM StreamCancelStops == Spec => CancelStops
<1>1. StreamInv /\ [Next]_vars => [cancelReturned => got' = got]_vars
  <2> SUFFICES ASSUME StreamInv, Next, cancelReturned PROVE got' = got
    BY DEF vars
  <2>1. \A p \in Proc : pc[p] # "receive"
    BY Receiving
  <2> QED
    BY <2>1 DEF Next, Step, ServerSend, ServerEnds, ExecHeader, ExecEnded, CallAdvance, CallCancel,
                CallErr, AdvanceLock, AdvanceStages, AdvanceEnds, CancelLock, ErrLock
<1> QED
  BY <1>1, StreamInvariant, PTL DEF Spec, CancelStops
=============================================================================
