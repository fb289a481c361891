---------------------------- MODULE QueryEngine ----------------------------
(***************************************************************************)
(* The query engine with the where clauses of QueryWhere: what the results *)
(* of select and delete statements must be.                                *)
(***************************************************************************)
EXTENDS QueryExec, QueryWhere

CONSTANT Indexed    \* whether GetIndexFields names the field x

ASSUME KeysAssumption == \A t \in Tables : \A k \in DOMAIN t : k \in Str

(* getIndexRanges, and the datasource's part of Scan: the rows that the      *)
(* index ranges let through, in the order of their keys.                    *)
ScanRows(t, w) ==
    LET kRanges == CompileIndexRanges("k", w)
        xRanges == CompileIndexRanges("x", w)
        Passes(k) ==
            /\ InRanges(k, kRanges.StringRanges)
            /\ Indexed => IF t[k] = Nil THEN xRanges.NilAllowed
                          ELSE InRanges(t[k], xRanges.StringRanges)
    IN  SetToSortSeq({k \in DOMAIN t : Passes(k)}, Below)
-----------------------------------------------------------------------------
(* What a where clause means, without ranges, key-only evaluation or the    *)
(* rewriting of like: a row is accepted when the comparisons hold.          *)
RECURSIVE Accepts(_, _, _)
Accepts(e, row, esc) ==
    LET l == resolveOperand(e.l, row)
        r == resolveOperand(e.r, row)
        like == Matches(ParsePattern(e.r.s, esc).toks, l, 0 .. MaxByte)
    IN  CASE e.op = "none" -> TRUE
          [] e.op = "and" -> Accepts(e.l, row, esc) /\ Accepts(e.r, row, esc)
          [] e.op = "or" -> Accepts(e.l, row, esc) \/ Accepts(e.r, row, esc)
          [] e.op = "is" -> l = Nil
          [] e.op = "isnot" -> l # Nil
          [] OTHER -> /\ l # Nil /\ r # Nil
                      /\ CASE e.op = "like" -> like
                           [] e.op = "notlike" -> ~like
                           [] OTHER -> compareStrings(e.op, l, r, <<>>)

(* The keys that an execution's statement selects from its snapshot. *)
Selected(r) ==
    SetToSortSeq({k \in DOMAIN r.snapshot :
                     Accepts(r.declared, [k |-> k, x |-> r.snapshot[k]], r.stmt.escape)}, Below)

(* The results of a select: offset skipped, cut at the limit. *)
Expected(r) ==
    LET rest == SubSeq(Selected(r), r.stmt.offset + 1, Len(Selected(r)))
    IN  IF r.stmt.limit = NoLimit \/ Len(rest) <= r.stmt.limit THEN rest
        ELSE SubSeq(rest, 1, r.stmt.limit)

(* A select returns, in order, exactly the rows its where clause accepts    *)
(* with the parameters of this execution, after the offset and up to the    *)
(* limit: the index ranges lose none, evaluation by key alone agrees with   *)
(* full evaluation, and executions of one prepared statement do not         *)
(* disturb each other.  Until it ends the results are a prefix of that.     *)
ResultsExact ==
    \A c \in Client :
        /\ run[c].pc \in {"read", "done"} /\ run[c].stream # "none" /\ run[c].stmt.kind = "select"
        => /\ IsPrefix(run[c].out, Expected(run[c]))
           /\ run[c].pc = "done" /\ ~run[c].err /\ run[c].stream # "cancelled"
              => run[c].out = Expected(run[c])

(* A delete removes only rows its where clause accepts, counts exactly the  *)
(* rows it removed, stops at its limit, and short of the limit leaves none  *)
(* of the accepted rows that may be deleted.                                *)
DeleteExact ==
    /\ CountsRight
    /\ \A c \in Client :
         LET accepted == ToSet(Selected(run[c]))
         IN  /\ run[c].pc \in {"deleting", "done"} /\ run[c].stream # "none"
             /\ run[c].stmt.kind = "delete"
             => /\ run[c].deleted \subseteq accepted
                /\ run[c].pc = "done" /\ ~run[c].err /\ ~DeleteLimit(c)
                   => (accepted \ Protected) \cap DOMAIN table = {}
=============================================================================
