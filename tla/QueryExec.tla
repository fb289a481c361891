----------------------------- MODULE QueryExec -----------------------------
(***************************************************************************)
(* query/engine/internal/query.go and result_streams.go: clients of one    *)
(* engine prepare statements, fetch them by handle, execute them with      *)
(* parameters, read the results and close them.  An execution works on a   *)
(* copy of the statement, but the copy points to the operators of the      *)
(* original (Expression.CopyAndSubstitute), which the checker writes.      *)
(*                                                                         *)
(* What a where clause means is a parameter: QueryWhere and QueryEngine    *)
(* have it.  The datasource is external: Scan is a snapshot of the rows    *)
(* whose key and indexed field lie in the ranges, in the order of the      *)
(* keys; its stream may fail; Delete refuses some keys.                    *)
(***************************************************************************)
EXTENDS Naturals, Sequences, FiniteSets

CONSTANTS Client,
          Statements,    \* the statements that may be prepared
          ParamValues,   \* the strings that may be supplied for a parameter
          Tables,        \* the contents the table may start with
          Protected,     \* the keys that Delete refuses
          MaxPrepared,   \* bound: statements prepared
          MaxExecs       \* bound: executions by one client

CONSTANTS EmptyWhere,               \* no where clause
          Parameters(_),            \* the number of a clause's parameters
          WithValues(_, _),         \* a clause with values for its parameters
          OperatorsFrom(_, _),      \* a clause with the operators of another one
          Valid(_, _),              \* what the checker says of a clause,
          Checked(_, _),            \* and the clause it leaves
          Scan(_, _),               \* the keys that a clause's ranges let through, in order
          Accepted(_, _)            \* what evaluation says of a row

ASSUME QueryAssumption ==
    /\ MaxPrepared \in Nat /\ MaxExecs \in Nat
    /\ \A s \in Statements : s.limit \in Nat /\ s.offset \in Nat

NoLimit == 0      \* a limit clause is at least 1
NoHandle == 0     \* ids start at 0 in the code, at 1 here

VARIABLES table,                \* table[k]: the value of x in the row with key k
          nextID,
          preparedStatements,   \* the statement of every handle that is not closed
          operators,            \* the where clause of every handle, with its operators as they are
          handle,               \* handle[c]: the PreparedStatement that c holds
          run,                  \* run[c]: c's execution
          execs

execVars == <<table, nextID, preparedStatements, operators, handle, run, execs>>

(* pc: idle, prepare, copy, check, scan, read, deleting, done or panic.     *)
NoRun == [pc |-> "idle", id |-> NoHandle, stmt |-> "none", where |-> EmptyWhere, declared |-> EmptyWhere,
          snapshot |-> <<>>, rows |-> <<>>, stream |-> "none", err |-> FALSE,
          out |-> <<>>, skipped |-> 0, deleted |-> {}, count |-> 0]

ExecInit ==
    /\ table \in Tables
    /\ nextID = 1
    /\ preparedStatements = <<>>
    /\ operators = <<>>
    /\ handle = [c \in Client |-> NoHandle]
    /\ run = [c \in Client |-> NoRun]
    /\ execs = [c \in Client |-> 0]

Finish(c, r) == run' = [run EXCEPT ![c] = [r EXCEPT !.pc = "done"]]
-----------------------------------------------------------------------------
(* Statements and handles. *)

(* PrepareStatement: the id under mutexNextID, then the entry under         *)
(* mutexPreparedStatements.                                                 *)
PrepareStatement(c, s) ==
    /\ run[c].pc = "idle" /\ handle[c] = NoHandle
    /\ nextID <= MaxPrepared
    /\ nextID' = nextID + 1
    /\ run' = [run EXCEPT ![c].pc = "prepare", ![c].id = nextID, ![c].stmt = s]
    /\ UNCHANGED <<table, preparedStatements, operators, handle, execs>>

StorePrepared(c) ==
    LET id == run[c].id
    IN  /\ run[c].pc = "prepare"
        /\ preparedStatements' =
              [i \in DOMAIN preparedStatements \cup {id} |->
                  IF i = id THEN run[c].stmt ELSE preparedStatements[i]]
        /\ operators' =
              [i \in DOMAIN operators \cup {id} |->
                  IF i = id THEN run[c].stmt.where ELSE operators[i]]
        /\ handle' = [handle EXCEPT ![c] = id]
        /\ run' = [run EXCEPT ![c] = NoRun]
        /\ UNCHANGED <<table, nextID, execs>>

(* GetPreparedStatement of a handle that came back from somewhere. *)
GetPreparedStatement(c, id) ==
    /\ run[c].pc = "idle" /\ handle[c] = NoHandle
    /\ id \in DOMAIN preparedStatements
    /\ handle' = [handle EXCEPT ![c] = id]
    /\ UNCHANGED <<table, nextID, preparedStatements, operators, run, execs>>

(* PreparedStatement.Close; results that are being read live on. *)
Close(c) ==
    /\ handle[c] # NoHandle
    /\ run[c].pc \in {"idle", "read", "done"}
    /\ preparedStatements' = [i \in DOMAIN preparedStatements \ {handle[c]} |-> preparedStatements[i]]
    /\ handle' = [handle EXCEPT ![c] = NoHandle]
    /\ UNCHANGED <<table, nextID, operators, run, execs>>
-----------------------------------------------------------------------------
(* PreparedStatement.Exec. *)

(* The lookup.  Another client may have closed the statement: a nil pointer *)
(* is then followed.                                                        *)
ExecLookup(c) ==
    /\ run[c].pc = "idle" /\ handle[c] # NoHandle
    /\ execs[c] < MaxExecs
    /\ execs' = [execs EXCEPT ![c] = @ + 1]
    /\ IF handle[c] \in DOMAIN preparedStatements
       THEN run' = [run EXCEPT ![c].pc = "copy", ![c].id = handle[c],
                               ![c].stmt = preparedStatements[handle[c]]]
       ELSE run' = [run EXCEPT ![c].pc = "panic"]
    /\ UNCHANGED <<table, nextID, preparedStatements, operators, handle>>

(* CopyAndSubstitute, given the parameter values: an error unless there is  *)
(* one for each parameter.                                                  *)
CopyAndSubstitute(c, values) ==
    LET where == run[c].stmt.where
    IN  /\ run[c].pc = "copy"
        /\ IF Len(values) = Parameters(where)
           THEN run' = [run EXCEPT ![c].pc = "check", ![c].where = WithValues(where, values),
                                   ![c].declared = WithValues(where, values)]
           ELSE Finish(c, [run[c] EXCEPT !.err = TRUE])
        /\ UNCHANGED <<table, nextID, preparedStatements, operators, handle, execs>>

(* What an execution sees: its own operands, the statement's operators. *)
Shared(c) == OperatorsFrom(run[c].where, operators[run[c].id])

(* query_checker.Check: the operands it completes belong to the copy, the   *)
(* operators it rewrites to the prepared statement.                         *)
Check(c) ==
    LET esc == run[c].stmt.escape
        checked == Checked(Shared(c), esc)
    IN  /\ run[c].pc = "check"
        /\ operators' = [operators EXCEPT ![run[c].id] = OperatorsFrom(@, checked)]
        /\ IF Valid(Shared(c), esc)
           THEN run' = [run EXCEPT ![c].pc = "scan", ![c].where = checked]
           ELSE Finish(c, [run[c] EXCEPT !.err = TRUE])
        /\ UNCHANGED <<table, nextID, preparedStatements, handle, execs>>

(* execStatement: getIndexRanges and Scan. *)
ExecScan(c) ==
    /\ run[c].pc = "scan"
    /\ run' = [run EXCEPT ![c].pc = IF run[c].stmt.kind = "select" THEN "read" ELSE "deleting",
                          ![c].snapshot = table,
                          ![c].rows = Scan(table, Shared(c)),
                          ![c].stream = "open"]
    /\ UNCHANGED <<table, nextID, preparedStatements, operators, handle, execs>>

(* Scan returns an error. *)
ExecScanFails(c) ==
    /\ run[c].pc = "scan"
    /\ Finish(c, [run[c] EXCEPT !.err = TRUE])
    /\ UNCHANGED <<table, nextID, preparedStatements, operators, handle, execs>>
-----------------------------------------------------------------------------
(* Reading the results of a select. *)

Row(c) == [k |-> Head(run[c].rows), x |-> run[c].snapshot[Head(run[c].rows)]]

(* The first lines of Advance: the limit has been served. *)
LimitServed(c) == run[c].stmt.limit # NoLimit /\ Len(run[c].out) >= run[c].stmt.limit

LimitForgetsCancel(c) ==
    /\ run[c].pc = "read"
    /\ LimitServed(c)
    /\ Finish(c, run[c])
    /\ UNCHANGED <<table, nextID, preparedStatements, operators, handle, execs>>

AdvanceAtLimit(c) ==
    /\ run[c].pc = "read"
    /\ LimitServed(c)
    /\ Finish(c, [run[c] EXCEPT !.stream = IF @ = "open" THEN "cancelled" ELSE @])
    /\ UNCHANGED <<table, nextID, preparedStatements, operators, handle, execs>>

(* One turn of the loop in Advance. *)
AdvanceRow(c) ==
    /\ run[c].pc = "read"
    /\ ~LimitServed(c)
    /\ run[c].stream = "open" /\ run[c].rows # <<>>
    /\ run' = [run EXCEPT ![c] =
                  LET r == [run[c] EXCEPT !.rows = Tail(@)]
                  IN  IF ~Accepted(Shared(c), Row(c)) THEN r
                      ELSE IF r.stmt.offset <= r.skipped THEN [r EXCEPT !.out = Append(@, Row(c).k)]
                      ELSE [r EXCEPT !.skipped = @ + 1]]
    /\ UNCHANGED <<table, nextID, preparedStatements, operators, handle, execs>>

(* Advance finds the stream at its end, failed or cancelled. *)
AdvanceEnd(c) ==
    /\ run[c].pc = "read"
    /\ ~LimitServed(c)
    /\ run[c].stream \in {"cancelled", "failed"} \/ run[c].rows = <<>>
    /\ Finish(c, [run[c] EXCEPT !.stream = IF @ = "open" THEN "end" ELSE @,
                                !.err = run[c].stream = "failed"])
    /\ UNCHANGED <<table, nextID, preparedStatements, operators, handle, execs>>

(* ResultStream.Cancel, at any time. *)
Cancel(c) ==
    /\ run[c].pc = "read" /\ run[c].stream = "open"
    /\ run' = [run EXCEPT ![c].stream = "cancelled"]
    /\ UNCHANGED <<table, nextID, preparedStatements, operators, handle, execs>>

(* The datasource's stream fails. *)
StreamFails(c) ==
    /\ run[c].pc \in {"read", "deleting"} /\ run[c].stream = "open"
    /\ run' = [run EXCEPT ![c].stream = "failed"]
    /\ UNCHANGED <<table, nextID, preparedStatements, operators, handle, execs>>
-----------------------------------------------------------------------------
(* The loop of a delete statement. *)

DeleteLimit(c) == run[c].stmt.limit # NoLimit /\ run[c].count >= run[c].stmt.limit

DeleteCountsAll(c) ==
    LET k == Row(c).k
        match == Accepted(Shared(c), Row(c))
        gone == match /\ k \in DOMAIN table /\ k \notin Protected
    IN  /\ run[c].pc = "deleting" /\ run[c].stream = "open" /\ run[c].rows # <<>>
        /\ ~DeleteLimit(c)
        /\ run' = [run EXCEPT ![c].rows = Tail(@), ![c].count = IF match THEN @ + 1 ELSE @,
                              ![c].deleted = IF gone THEN @ \cup {k} ELSE @]
        /\ table' = IF gone THEN [j \in DOMAIN table \ {k} |-> table[j]] ELSE table
        /\ UNCHANGED <<nextID, preparedStatements, operators, handle, execs>>

(* One turn of the loop.  A row that Delete refuses, or that is gone, does  *)
(* not count.                                                               *)
DeleteRow(c) ==
    LET k == Row(c).k
        gone == Accepted(Shared(c), Row(c)) /\ k \in DOMAIN table /\ k \notin Protected
    IN  /\ run[c].pc = "deleting" /\ run[c].stream = "open" /\ run[c].rows # <<>>
        /\ ~DeleteLimit(c)
        /\ run' = [run EXCEPT ![c].rows = Tail(@), ![c].count = IF gone THEN @ + 1 ELSE @,
                              ![c].deleted = IF gone THEN @ \cup {k} ELSE @]
        /\ table' = IF gone THEN [j \in DOMAIN table \ {k} |-> table[j]] ELSE table
        /\ UNCHANGED <<nextID, preparedStatements, operators, handle, execs>>

(* The loop ends: another row came but the limit is reached, and the stream *)
(* is cancelled on return; or the stream has ended or failed.               *)
DeleteEnds(c) ==
    /\ run[c].pc = "deleting"
    /\ DeleteLimit(c) \/ run[c].rows = <<>> \/ run[c].stream = "failed"
    /\ Finish(c, [run[c] EXCEPT
           !.stream = IF @ # "open" THEN @ ELSE IF run[c].rows # <<>> THEN "cancelled" ELSE "end",
           !.err = run[c].stream = "failed"])
    /\ UNCHANGED <<table, nextID, preparedStatements, operators, handle, execs>>

(* The client is through with the results. *)
Forget(c) ==
    /\ run[c].pc = "done"
    /\ run' = [run EXCEPT ![c] = NoRun]
    /\ UNCHANGED <<table, nextID, preparedStatements, operators, handle, execs>>
-----------------------------------------------------------------------------
ParamLists == UNION {[1 .. n -> ParamValues] : n \in 0 .. 2}

ExecNext ==
    \E c \in Client :
        \/ \E s \in Statements : PrepareStatement(c, s)
        \/ StorePrepared(c)
        \/ \E id \in DOMAIN operators : GetPreparedStatement(c, id)
        \/ Close(c)
        \/ ExecLookup(c)
        \/ \E values \in ParamLists : CopyAndSubstitute(c, values)
        \/ Check(c)
        \/ ExecScan(c) \/ ExecScanFails(c)
        \/ AdvanceAtLimit(c) \/ AdvanceRow(c) \/ AdvanceEnd(c)
        \/ Cancel(c) \/ StreamFails(c)
        \/ DeleteRow(c) \/ DeleteEnds(c)
        \/ Forget(c)

ExecSpec == ExecInit /\ [][ExecNext]_execVars
-----------------------------------------------------------------------------
(* Whoever does not read a key-value stream to its end must cancel it       *)
(* (datasource.KeyValueStream): when Advance has returned false, or a       *)
(* delete has returned, no stream is left open.                             *)
StreamsReleased == \A c \in Client : run[c].pc = "done" => run[c].stream # "open"

(* However many clients delete at once, a delete counts exactly the rows it *)
(* removed, no row is counted twice and none that Delete refused, and it    *)
(* stops at its limit; so does a select (query.go:296, 317).                *)
CountsRight ==
    /\ \A c \in Client :
         LET r == run[c]
         IN  /\ r.count = Cardinality(r.deleted) /\ r.deleted \cap Protected = {}
             /\ r.deleted \cap DOMAIN table = {}
             /\ r.pc \in {"read", "deleting", "done"} /\ r.stmt.limit # NoLimit =>
                   r.count <= r.stmt.limit /\ Len(r.out) <= r.stmt.limit
    /\ \A c, d \in Client : c # d => run[c].deleted \cap run[d].deleted = {}
=============================================================================
