-------------------------- MODULE SyncbaseConflict --------------------------
(***************************************************************************)
(* syncbase/database.go: EnforceSchema, the goroutine that keeps a         *)
(* conflict resolution stream to Syncbase open, and Close.  A conflict     *)
(* arrives as several rows, its resolution goes back as several rows; each *)
(* but the last is marked Continued.  The stream may break at any time.    *)
(* Syncbase itself is external: it sends a conflict again on the next      *)
(* stream until it has a resolution.                                       *)
(***************************************************************************)
EXTENDS Integers, Sequences, FiniteSets, SequencesExt

CONSTANTS Rows,         \* Rows[k]: the ConflictInfos of conflict k, as a
                        \* sequence of [kind, key]: batches, and rows that
                        \* were written, read or scanned
          Schemas,      \* the schemas a handle may be created with:
                        \* [nil, Version, needsResolver, Resolver], the last
                        \* saying whether it has a ConflictResolver
          MaxEnforce,   \* bound: calls of EnforceSchema
          MaxBreaks,    \* bound: broken streams
          CloseEarly    \* Close may be called although no stream was started

Conflict == DOMAIN Rows

(* Syncbase numbers its conflicts from 1, and each is about some row that   *)
(* was written.                                                             *)
ASSUME ConflictAssumption ==
    /\ {MaxEnforce, MaxBreaks} \subseteq Nat /\ CloseEarly \in BOOLEAN
    /\ Schemas \subseteq [nil: BOOLEAN, Version: Int, needsResolver: BOOLEAN, Resolver: BOOLEAN]
    /\ 0 \notin Conflict
    /\ \A k \in Conflict : /\ Rows[k] \in Seq(Range(Rows[k]))
                           /\ \E i \in DOMAIN Rows[k] : Rows[k][i].kind = "write"

Conn == 1 .. MaxEnforce    \* the goroutines, by the EnforceSchema that starts them
NoFn == 0
NoExist == -1    \* no schema is stored: getSchemaMetadata fails with ErrNoExist

VARIABLES schema,       \* d.schema
          version,      \* the schema version stored in Syncbase, or NoExist
          epc, enforced,    \* the EnforceSchema call under way; how many there were
          currMeta,     \* the version it read
          cancelFn, isClosed, panicked,   \* conflictResolutionState
          gpc,          \* gpc[g]: where goroutine g is
          cancelled,    \* cancelled[g]: its context is
          conn,         \* conn[g]: "none", "open" or "broken"
          inbox,        \* inbox[g]: ConflictInfo rows in the stream to the client
          acc,          \* acc[g]: the rows in c
          toSend,       \* toSend[g]: what sendResolution has left
          outbox,       \* outbox[g]: ResolutionInfo rows in the stream to Syncbase
          sacc,         \* sacc[g]: the rows of the resolution Syncbase has so far
          waitingFor,   \* waitingFor[g]: the conflict Syncbase wants resolved, or 0
          resolved,     \* what Syncbase has got: [conflict, rows]
          breaks

schemaVars == <<schema, version, epc, enforced, currMeta>>
stateVars == <<cancelFn, isClosed, panicked>>
serverVars == <<outbox, sacc, waitingFor, resolved>>
clientVars == <<gpc, acc, toSend>>
vars == <<schemaVars, stateVars, clientVars, cancelled, conn, inbox, serverVars, breaks>>

Init ==
    /\ schema \in Schemas
    /\ version = NoExist /\ epc = "idle" /\ enforced = 0 /\ currMeta = 0
    /\ cancelFn = NoFn /\ isClosed = FALSE /\ panicked = FALSE
    /\ gpc = [g \in Conn |-> "none"]
    /\ cancelled = [g \in Conn |-> FALSE]
    /\ conn = [g \in Conn |-> "none"]
    /\ inbox = [g \in Conn |-> <<>>] /\ outbox = [g \in Conn |-> <<>>]
    /\ acc = [g \in Conn |-> {}] /\ sacc = [g \in Conn |-> {}]
    /\ toSend = [g \in Conn |-> <<>>]
    /\ waitingFor = [g \in Conn |-> 0]
    /\ resolved = {}
    /\ breaks = 0
-----------------------------------------------------------------------------
(* EnforceSchema and Close, called by the application. *)

(* The checks of EnforceSchema. *)
SchemaUsable ==
    ~schema.nil /\ schema.Version >= 0 /\ (schema.needsResolver => schema.Resolver)

(* EnforceSchema: a bad schema is refused; then updateSchemaMetadata calls  *)
(* getSchemaMetadata.  A call that fails, except with ErrNoExist, makes     *)
(* EnforceSchema return.                                                    *)
GetSchemaMetadata ==
    /\ epc = "idle" /\ enforced < MaxEnforce /\ ~panicked
    /\ enforced' = enforced + 1
    /\ \/ /\ SchemaUsable
          /\ currMeta' = version
          /\ epc' = IF version >= schema.Version THEN "start" ELSE "set"
       \/ epc' = "idle" /\ UNCHANGED currMeta
    /\ UNCHANGED <<schema, version, stateVars, clientVars, cancelled, conn, inbox, serverVars, breaks>>

(* setSchemaMetadata.  When there was no schema, ErrNoExist says that the   *)
(* database does not exist yet either, and EnforceSchema goes on.           *)
SetSchemaMetadata ==
    /\ epc = "set"
    /\ \/ version' = schema.Version /\ epc' = "start"
       \/ currMeta = NoExist /\ epc' = "start" /\ UNCHANGED version
       \/ epc' = "idle" /\ UNCHANGED version
    /\ UNCHANGED <<schema, enforced, currMeta, stateVars, clientVars, cancelled, conn, inbox, serverVars, breaks>>

(* Another handle of the database, with a newer schema, does the same. *)
OtherSetsMetadata ==
    /\ schema.Version >= 0 /\ version < schema.Version + 1
    /\ version' = schema.Version + 1
    /\ UNCHANGED <<schema, epc, enforced, currMeta, stateVars, clientVars, cancelled, conn, inbox, serverVars, breaks>>

(* The end of EnforceSchema: with a Resolver, crState gets a new cancelFn,  *)
(* and a goroutine is started.  isClosed is left alone.                     *)
StartResolution ==
    /\ epc = "start"
    /\ epc' = "idle"
    /\ IF schema.Resolver
       THEN cancelFn' = enforced /\ gpc' = [gpc EXCEPT ![enforced] = "connect"]
       ELSE UNCHANGED <<cancelFn, gpc>>
    /\ UNCHANGED <<schema, version, enforced, currMeta, isClosed, panicked, acc, toSend, cancelled, conn, inbox, serverVars, breaks>>

CloseNoCancel ==
    /\ ~isClosed /\ ~panicked
    /\ CloseEarly \/ (cancelFn # NoFn /\ epc = "idle")
    /\ isClosed' = TRUE
    /\ UNCHANGED <<schemaVars, cancelFn, panicked, clientVars, cancelled, conn, inbox, serverVars, breaks>>

(* Close: disconnect.  A nil cancelFn panics. *)
Close ==
    /\ ~isClosed /\ ~panicked
    /\ CloseEarly \/ (cancelFn # NoFn /\ epc = "idle")
    /\ isClosed' = TRUE
    /\ IF cancelFn = NoFn
       THEN panicked' = TRUE /\ UNCHANGED cancelled
       ELSE cancelled' = [cancelled EXCEPT ![cancelFn] = TRUE] /\ UNCHANGED panicked
    /\ UNCHANGED <<schemaVars, cancelFn, clientVars, conn, inbox, serverVars, breaks>>

(* The application cancels the context it gave to EnforceSchema. *)
CancelContext(g) ==
    /\ gpc[g] # "none" /\ ~cancelled[g]
    /\ cancelled' = [cancelled EXCEPT ![g] = TRUE]
    /\ UNCHANGED <<schemaVars, stateVars, clientVars, conn, inbox, serverVars, breaks>>
-----------------------------------------------------------------------------
(* establishConflictResolution and listenForConflicts. *)

ConnectKeepsRows(g) ==
    /\ gpc[g] = "connect"
    /\ \/ /\ ~cancelled[g]
          /\ conn' = [conn EXCEPT ![g] = "open"]
          /\ gpc' = [gpc EXCEPT ![g] = "listen"]
          /\ UNCHANGED <<acc, breaks>>
       \/ /\ cancelled[g] \/ breaks < MaxBreaks
          /\ breaks' = IF cancelled[g] THEN breaks ELSE breaks + 1
          /\ gpc' = [gpc EXCEPT ![g] = "check"]
          /\ UNCHANGED <<conn, acc>>
    /\ UNCHANGED <<schemaVars, stateVars, toSend, cancelled, inbox, serverVars>>

(* StartConflictResolver, and an empty conflict c. *)
Connect(g) ==
    /\ gpc[g] = "connect"
    /\ \/ /\ ~cancelled[g]
          /\ conn' = [conn EXCEPT ![g] = "open"]
          /\ acc' = [acc EXCEPT ![g] = {}]
          /\ gpc' = [gpc EXCEPT ![g] = "listen"]
          /\ UNCHANGED breaks
       \/ /\ cancelled[g] \/ breaks < MaxBreaks
          /\ breaks' = IF cancelled[g] THEN breaks ELSE breaks + 1
          /\ gpc' = [gpc EXCEPT ![g] = "check"]
          /\ UNCHANGED <<conn, acc>>
    /\ UNCHANGED <<schemaVars, stateVars, toSend, cancelled, inbox, serverVars>>

(* addRowToConflict: each kind has a set of its own in the Conflict. *)
AddRow(c, row) == c \cup {<<row.conflict, row.kind, row.key>>}

(* conflictStream.Advance. *)
RecvRow(g) ==
    /\ gpc[g] = "listen" /\ conn[g] = "open" /\ inbox[g] # <<>>
    /\ LET row == Head(inbox[g])
       IN  /\ acc' = [acc EXCEPT ![g] = AddRow(@, row)]
           /\ gpc' = [gpc EXCEPT ![g] = IF row.Continued THEN "listen" ELSE "resolve"]
    /\ inbox' = [inbox EXCEPT ![g] = Tail(@)]
    /\ UNCHANGED <<schemaVars, stateVars, toSend, cancelled, conn, serverVars, breaks>>

(* Resolver.OnConflict, by the application: it resolves the rows of the     *)
(* WriteSet; ResultSet is a Go map, so they are sent in any order.          *)
OnConflict(g) ==
    /\ gpc[g] = "resolve"
    /\ \E s \in SetToSeqs({x[3] : x \in {y \in acc[g] : y[2] = "write"}}) : toSend' = [toSend EXCEPT ![g] = s]
    /\ gpc' = [gpc EXCEPT ![g] = "send"]
    /\ UNCHANGED <<schemaVars, stateVars, acc, cancelled, conn, inbox, serverVars, breaks>>

NeverContinued(left) == FALSE

(* count # size in sendResolution. *)
Continued(left) == Len(left) > 1

(* sendResolution, row by row; after the last one a new conflict object. *)
SendRow(g) ==
    /\ gpc[g] = "send" /\ conn[g] = "open" /\ ~cancelled[g]
    /\ outbox' = [outbox EXCEPT ![g] =
                     Append(@, [key |-> Head(toSend[g]), Continued |-> Continued(toSend[g])])]
    /\ toSend' = [toSend EXCEPT ![g] = Tail(@)]
    /\ IF Len(toSend[g]) = 1
       THEN gpc' = [gpc EXCEPT ![g] = "listen"] /\ acc' = [acc EXCEPT ![g] = {}]
       ELSE UNCHANGED <<gpc, acc>>
    /\ UNCHANGED <<schemaVars, stateVars, cancelled, conn, inbox, sacc, waitingFor, resolved, breaks>>

(* Advance is false, or Send fails: listenForConflicts returns; both ends   *)
(* drop what they have of the stream.                                       *)
StreamEnded(g) ==
    /\ gpc[g] \in {"listen", "send"}
    /\ conn[g] = "broken" \/ cancelled[g]
    /\ gpc' = [gpc EXCEPT ![g] = "check"]
    /\ conn' = [conn EXCEPT ![g] = "none"]
    /\ inbox' = [inbox EXCEPT ![g] = <<>>] /\ outbox' = [outbox EXCEPT ![g] = <<>>]
    /\ toSend' = [toSend EXCEPT ![g] = <<>>]
    /\ sacc' = [sacc EXCEPT ![g] = {}] /\ waitingFor' = [waitingFor EXCEPT ![g] = 0]
    /\ UNCHANGED <<schemaVars, stateVars, acc, cancelled, resolved, breaks>>

EndAfterBreak(g) ==
    /\ gpc[g] = "check"
    /\ gpc' = [gpc EXCEPT ![g] = "ended"]
    /\ UNCHANGED <<schemaVars, stateVars, acc, toSend, cancelled, conn, inbox, serverVars, breaks>>

(* isDisconnected: shut down, or sleep and connect again. *)
CheckDisconnected(g) ==
    /\ gpc[g] = "check"
    /\ gpc' = [gpc EXCEPT ![g] = IF isClosed THEN "ended" ELSE "sleep"]
    /\ UNCHANGED <<schemaVars, stateVars, acc, toSend, cancelled, conn, inbox, serverVars, breaks>>

Wake(g) ==
    /\ gpc[g] = "sleep"
    /\ gpc' = [gpc EXCEPT ![g] = "connect"]
    /\ UNCHANGED <<schemaVars, stateVars, acc, toSend, cancelled, conn, inbox, serverVars, breaks>>
-----------------------------------------------------------------------------
(* Syncbase and the network. *)

Resolved == {r.conflict : r \in resolved}

(* One conflict at a time on a stream. *)
ServerSends(g, k) ==
    /\ conn[g] = "open" /\ waitingFor[g] = 0 /\ k \notin Resolved
    /\ waitingFor' = [waitingFor EXCEPT ![g] = k]
    /\ inbox' = [inbox EXCEPT ![g] = [i \in DOMAIN Rows[k] |->
            [conflict |-> k, kind |-> Rows[k][i].kind, key |-> Rows[k][i].key, Continued |-> i < Len(Rows[k])]]]
    /\ UNCHANGED <<schemaVars, stateVars, clientVars, cancelled, conn, outbox, sacc, resolved, breaks>>

ServerRecv(g) ==
    /\ conn[g] = "open" /\ outbox[g] # <<>>
    /\ LET r == Head(outbox[g])
           rows == sacc[g] \cup {r.key}
       IN  IF r.Continued
           THEN sacc' = [sacc EXCEPT ![g] = rows] /\ UNCHANGED <<resolved, waitingFor>>
           ELSE /\ resolved' = resolved \cup {[conflict |-> waitingFor[g], rows |-> rows]}
                /\ sacc' = [sacc EXCEPT ![g] = {}]
                /\ waitingFor' = [waitingFor EXCEPT ![g] = 0]
    /\ outbox' = [outbox EXCEPT ![g] = Tail(@)]
    /\ UNCHANGED <<schemaVars, stateVars, clientVars, cancelled, conn, inbox, breaks>>

Break(g) ==
    /\ conn[g] = "open" /\ breaks < MaxBreaks
    /\ breaks' = breaks + 1
    /\ conn' = [conn EXCEPT ![g] = "broken"]
    /\ UNCHANGED <<schemaVars, stateVars, clientVars, cancelled, inbox, serverVars>>
-----------------------------------------------------------------------------
Goroutine(g) == \/ Connect(g) \/ RecvRow(g) \/ OnConflict(g) \/ SendRow(g) \/ StreamEnded(g)
                \/ CheckDisconnected(g) \/ Wake(g)
Server(g) == (\E k \in Conflict : ServerSends(g, k)) \/ ServerRecv(g)
Enforce == SetSchemaMetadata \/ StartResolution

Next ==
    \/ GetSchemaMetadata \/ Enforce \/ OtherSetsMetadata \/ Close
    \/ \E g \in Conn : CancelContext(g) \/ Goroutine(g) \/ Server(g) \/ Break(g)

Spec == Init /\ [][Next]_vars

(* The goroutine runs, the application's resolver returns, and Syncbase     *)
(* serves a stream that stays up.                                           *)
FairSpec == Spec /\ WF_vars(Enforce) /\ \A g \in Conn : WF_vars(Goroutine(g)) /\ WF_vars(Server(g))
-----------------------------------------------------------------------------
(* Shape, and only a started goroutine has a stream. *)
TypeOK ==
    /\ epc \in {"idle", "set", "start"}
    /\ gpc \in [Conn -> {"none", "connect", "listen", "resolve", "send", "check", "sleep", "ended"}]
    /\ \A g \in Conn : conn[g] # "none" <=> gpc[g] \in {"listen", "resolve", "send"}
    /\ \A g \in Conn : gpc[g] = "send" => toSend[g] # <<>>

(* OnConflict gets the rows of exactly one conflict, all of them, however   *)
(* often the stream broke while they came in.                               *)
WholeConflicts ==
    \A g \in Conn : gpc[g] = "resolve" =>
        \E k \in Conflict : acc[g] = {<<k, Rows[k][i].kind, Rows[k][i].key>> : i \in DOMAIN Rows[k]}

(* Syncbase takes as the resolution of a conflict what the application      *)
(* decided for it: every row of the WriteSet, and none of another conflict. *)
WholeResolutions ==
    \A r \in resolved :
        r.rows = {w.key : w \in {x \in Range(Rows[r.conflict]) : x.kind = "write"}}

(* Unless the handle is closed or the context cancelled, every conflict is  *)
(* resolved in the end, over as many streams as it takes.                   *)
ConflictsResolved ==
    (cancelFn # NoFn) ~> (Resolved = Conflict \/ isClosed \/ \E g \in Conn : cancelled[g])

(* "Close cleans up any state associated with this database handle,         *)
(* including closing the conflict resolution stream (if open)": after Close *)
(* every goroutine ends.                                                    *)
CloseEnds == \A g \in Conn : (isClosed /\ gpc[g] # "none") ~> (gpc[g] = "ended")

(* The same comment: the stream may not be open, so Close works without.    *)
CloseWithoutStream == ~panicked

(* "updateSchemaMetadata ... checks if the SchemaMetadata provided by the   *)
(* app is newer.  If so, it updates the db": never to an older one.         *)
SchemaNeverOlder == [][version' >= version]_vars
=============================================================================
