----------------------------- MODULE QueryWhere -----------------------------
(***************************************************************************)
(* Where clauses of the query engine: query_checker.go (checkExpression    *)
(* and the index ranges), eval.go, and query/pattern/pattern.go.           *)
(*                                                                         *)
(* An expression is [op, l, r].  Under "and" and "or" l and r are          *)
(* expressions; otherwise they are operands: the key, the field x of the   *)
(* value, a function of one of them, a string literal, nil, or a parameter *)
(* of a prepared statement.  A row is its key and the value of x, which is *)
(* a string or Nil (x is missing or nil).  Literals and fields of other    *)
(* types are left out: the engine compares them with strings by their      *)
(* string form, and only string fields have index ranges.                  *)
(***************************************************************************)
EXTENDS StringRanges

CONSTANTS Percent, Underscore, Newline, NoEscape    \* bytes; NoEscape is the zero byte

Nil == <<MaxByte + 1>>    \* not a string

Field(f) == [t |-> "field", f |-> f]          \* f = "k" or "x"
Function(f) == [t |-> "function", f |-> f]    \* a function of a field
StrLit(s) == [t |-> "str", s |-> s, prefix |-> <<>>, pattern |-> <<>>]
NilLit == [t |-> "nil"]
Parameter == [t |-> "parameter"]
Expr(op, l, r) == [op |-> op, l |-> l, r |-> r]
NoWhere == Expr("none", NilLit, NilLit)    \* a statement without a where clause

IsLogicalOperator(e) == e.op \in {"and", "or"}
IsField(o) == o.t = "field"
IsFunction(o) == o.t = "function"
IsExactField(f, o) == IsField(o) /\ o.f = f
isStringLiteral(o) == o.t = "str"
ContainsFieldOperand(f, e) == IsExactField(f, e.l) \/ IsExactField(f, e.r)
ContainsFunctionOperand(e) == IsFunction(e.l) \/ IsFunction(e.r)
-----------------------------------------------------------------------------
(* Patterns.  ParseWithEscapeChar as a sequence of tokens; bad when an      *)
(* escape precedes something it cannot escape.                              *)

Lit(c) == [wild |-> FALSE, many |-> FALSE, c |-> c]
One == [wild |-> TRUE, many |-> FALSE, c |-> 0]
Many == [wild |-> TRUE, many |-> TRUE, c |-> 0]

ParsePattern(p, esc) ==
    LET Step(st, c) ==
            IF st.escaped
            THEN [st EXCEPT !.toks = Append(@, Lit(c)), !.escaped = FALSE,
                            !.bad = @ \/ c \notin {Percent, Underscore, esc}]
            ELSE IF c = Percent THEN [st EXCEPT !.toks = Append(@, Many)]
            ELSE IF c = Underscore THEN [st EXCEPT !.toks = Append(@, One)]
            ELSE IF c = esc /\ esc # NoEscape THEN [st EXCEPT !.escaped = TRUE]
            ELSE [st EXCEPT !.toks = Append(@, Lit(c))]
        end == FoldLeft(Step, [toks |-> <<>>, escaped |-> FALSE, bad |-> FALSE], p)
    IN  [toks |-> end.toks, bad |-> end.bad \/ end.escaped]

NoWildcards(toks) == \A i \in DOMAIN toks : ~toks[i].wild

(* The literal characters before the first wildcard, unescaped. *)
FixedPrefix(toks) ==
    LET n == CHOOSE m \in 0 .. Len(toks) :
                 /\ \A i \in 1 .. m : ~toks[i].wild
                 /\ m = Len(toks) \/ toks[m + 1].wild
    IN  [i \in 1 .. n |-> toks[i].c]

(* Whether toks match all of s, when a wildcard stands for the characters   *)
(* in W: match[i][j] is about what follows token i and character j.         *)
Matches(toks, s, W) ==
    LET m[i \in 0 .. Len(toks), j \in 0 .. Len(s)] ==
            IF i = Len(toks) THEN j = Len(s)
            ELSE IF toks[i + 1].many
            THEN m[i + 1, j] \/ (j < Len(s) /\ s[j + 1] \in W /\ m[i, j + 1])
            ELSE /\ j < Len(s)
                 /\ IF toks[i + 1].wild THEN s[j + 1] \in W ELSE s[j + 1] = toks[i + 1].c
                 /\ m[i + 1, j + 1]
    IN  m[0, 0]

(* MatchString: % and _ become .*? and . of a regular expression, and a dot *)
(* does not match a newline.                                                *)
MatchString(toks, s) == Matches(toks, s, (0 .. MaxByte) \ {Newline})
-----------------------------------------------------------------------------
(* checkExpression.  A like without wildcards turns into an equality with   *)
(* the unescaped string: the operator of the expression is overwritten.     *)

RECURSIVE ValidExpression(_, _)
ValidExpression(e, esc) ==
    IF IsLogicalOperator(e)
    THEN ValidExpression(e.l, esc) /\ ValidExpression(e.r, esc)
    ELSE /\ e.op \in {"like", "notlike"} =>
                isStringLiteral(e.r) /\ ~ParsePattern(e.r.s, esc).bad
         /\ e.op \in {"is", "isnot"} =>
                (IsField(e.l) \/ IsFunction(e.l)) /\ e.r.t = "nil"

CheckLike(e, esc) ==
    LET p == ParsePattern(e.r.s, esc).toks
        operand == [e.r EXCEPT !.prefix = FixedPrefix(p), !.pattern = p]
    IN  IF ~NoWildcards(p) THEN [e EXCEPT !.r = operand]
        ELSE [e EXCEPT !.op = IF @ = "like" THEN "=" ELSE "<>",
                       !.r = [operand EXCEPT !.s = FixedPrefix(p)]]

(* It stops at the first error; what it has rewritten until then stays. *)
RECURSIVE CheckExpression(_, _)
CheckExpression(e, esc) ==
    IF IsLogicalOperator(e)
    THEN [e EXCEPT !.l = CheckExpression(@, esc),
                   !.r = IF ValidExpression(e.l, esc) THEN CheckExpression(@, esc) ELSE @]
    ELSE IF e.op \in {"like", "notlike"} /\ ValidExpression(e, esc) THEN CheckLike(e, esc) ELSE e
-----------------------------------------------------------------------------
(* Index ranges. *)

SortRanges(ranges) == SortSeq(ranges, LAMBDA a, b : Below(a.Start, b.Start))

RECURSIVE addStringFieldRange(_, _)
addStringFieldRange(f, ranges) ==
    LET I == {i \in DOMAIN ranges : Touches(f, ranges[i])}
        first == CHOOSE i \in I : \A j \in I : i <= j
    IN  IF I = {} THEN SortRanges(Append(ranges, f))
        ELSE addStringFieldRange(MergeRanges(f, ranges[first]), RemoveAt(ranges, first))

(* The two cursors of fieldRangeIntersection are the heads of l and r. *)
RECURSIVE Intersection(_, _, _)
Intersection(l, r, acc) ==
    IF l = <<>> \/ r = <<>> THEN acc
    ELSE LET a == Head(l)
             b == Head(r)
         IN  Intersection(IF LimitBelow(b.Limit, a.Limit) THEN l ELSE Tail(l),
                          IF LimitBelow(a.Limit, b.Limit) THEN r ELSE Tail(r),
                          IF Intersects(a, b)
                          THEN addStringFieldRange(computeRangeIntersection(a, b), acc)
                          ELSE acc)
fieldRangeIntersection(l, r) == Intersection(l, r, <<>>)

fieldRangeUnion(l, r) == FoldLeft(LAMBDA acc, f : addStringFieldRange(f, acc), l, r)

(* The operator that says the same with the operands exchanged. *)
Mirror(op) == CASE op = "<" -> ">" [] op = "<=" -> ">=" [] op = ">" -> "<" [] op = ">=" -> "<="
                [] OTHER -> op

RangesForLiteralOpen(op, lit) ==
    CASE op = "=" -> <<computeStringFieldRangeForSingleValue(lit.s)>>
      [] op = ">" -> <<StringFieldRange(Successor(lit.s), MaxRangeLimit)>>
      [] op = ">=" -> <<StringFieldRange(lit.s, MaxRangeLimit)>>
      [] op = "like" -> <<computeStringFieldRangeForLike(lit.prefix)>>
      [] op = "notlike" -> computeStringFieldRangesForNotLike(lit.prefix)
      [] op \in {"<", "<="} -> <<StringFieldRange(<<>>, lit.s)>>
      [] OTHER -> <<StringFieldRange(<<>>, lit.s), StringFieldRange(Successor(lit.s), MaxRangeLimit)>>

(* The ranges of "field op literal". *)
RangesForLiteral(op, lit) ==
    CASE op = "=" -> <<computeStringFieldRangeForSingleValue(lit.s)>>
      [] op = ">" -> <<StringFieldRange(Successor(lit.s), MaxRangeLimit)>>
      [] op = ">=" -> <<StringFieldRange(lit.s, MaxRangeLimit)>>
      [] op = "like" -> <<computeStringFieldRangeForLike(lit.prefix)>>
      [] op = "notlike" -> computeStringFieldRangesForNotLike(lit.prefix)
      [] op = "<" -> <<StringFieldRange(<<>>, lit.s)>>
      [] op = "<=" -> <<StringFieldRange(<<>>, Successor(lit.s))>>
      [] OTHER -> <<StringFieldRange(<<>>, lit.s), StringFieldRange(Successor(lit.s), MaxRangeLimit)>>

RECURSIVE collectStringFieldRanges(_, _)
collectStringFieldRanges(f, e) ==
    IF IsLogicalOperator(e)
    THEN LET lhs == collectStringFieldRanges(f, e.l)
             rhs == collectStringFieldRanges(f, e.r)
         IN  IF e.op = "and" THEN fieldRangeIntersection(lhs, rhs) ELSE fieldRangeUnion(lhs, rhs)
    ELSE IF ~ContainsFieldOperand(f, e) THEN <<StringFieldRangeAll>>
    ELSE IF IsField(e.l) /\ IsField(e.r)
    THEN IF e.op \in {"=", ">=", "<="} THEN <<StringFieldRangeAll>> ELSE <<>>
    ELSE IF e.op = "is" THEN <<>>
    ELSE IF e.op = "isnot" THEN <<StringFieldRangeAll>>
    ELSE IF isStringLiteral(e.r) THEN RangesForLiteral(e.op, e.r)
    ELSE IF isStringLiteral(e.l) THEN RangesForLiteral(Mirror(e.op), e.l)
    ELSE <<StringFieldRangeAll>>

RECURSIVE determineIfNilAllowed(_, _)
determineIfNilAllowed(f, e) ==
    IF IsLogicalOperator(e)
    THEN LET lhs == determineIfNilAllowed(f, e.l)
             rhs == determineIfNilAllowed(f, e.r)
         IN  IF e.op = "and" THEN lhs /\ rhs ELSE lhs \/ rhs
    ELSE ContainsFieldOperand(f, e) => e.op = "is"

CompileIndexRanges(f, w) ==
    IF w = NoWhere
    THEN [StringRanges |-> <<StringFieldRangeAll>>, NilAllowed |-> TRUE]
    ELSE [StringRanges |-> collectStringFieldRanges(f, w), NilAllowed |-> determineIfNilAllowed(f, w)]
-----------------------------------------------------------------------------
(* Evaluation of a checked expression on a row. *)

ResolveField(f, row) == IF f = "k" THEN row.k ELSE row.x

(* A function yields nil when its argument does; this one leaves a string   *)
(* as it is (Lowercase of a string without capitals).                       *)
resolveOperand(o, row) ==
    CASE o.t \in {"field", "function"} -> ResolveField(o.f, row)
      [] o.t = "str" -> o.s
      [] OTHER -> Nil

compareStrings(op, l, r, pattern) ==
    CASE op = "=" -> l = r
      [] op = "<>" -> l # r
      [] op = "<" -> Below(l, r)
      [] op = "<=" -> AtMost(l, r)
      [] op = ">" -> Below(r, l)
      [] op = ">=" -> AtMost(r, l)
      [] op = "like" -> MatchString(pattern, l)
      [] op = "notlike" -> ~MatchString(pattern, l)
      [] OTHER -> FALSE

evalComparisonOperators(e, row) ==
    LET l == resolveOperand(e.l, row)
        r == resolveOperand(e.r, row)
    IN  IF e.op = "is" THEN l = Nil
        ELSE IF e.op = "isnot" THEN l # Nil
        ELSE /\ l # Nil
             /\ r # Nil
             /\ compareStrings(e.op, l, r, IF isStringLiteral(e.r) THEN e.r.pattern ELSE <<>>)

RECURSIVE Eval(_, _)
Eval(e, row) ==
    IF e.op = "and" THEN Eval(e.l, row) /\ Eval(e.r, row)
    ELSE IF e.op = "or" THEN Eval(e.l, row) \/ Eval(e.r, row)
    ELSE evalComparisonOperators(e, row)

(* What the key alone says of the row. *)
RECURSIVE evalExprUsingOnlyKey(_, _)
evalExprUsingOnlyKey(e, k) ==
    IF IsLogicalOperator(e)
    THEN LET l == evalExprUsingOnlyKey(e.l, k)
             r == evalExprUsingOnlyKey(e.r, k)
         IN  IF e.op = "and"
             THEN IF l = "INCLUDE" /\ r = "INCLUDE" THEN "INCLUDE"
                  ELSE IF "EXCLUDE" \in {l, r} THEN "EXCLUDE" ELSE "FETCH_VALUE"
             ELSE IF "INCLUDE" \in {l, r} THEN "INCLUDE"
                  ELSE IF l = "EXCLUDE" /\ r = "EXCLUDE" THEN "EXCLUDE" ELSE "FETCH_VALUE"
    ELSE IF ~ContainsFieldOperand("k", e) \/ ContainsFunctionOperand(e) \/ ContainsFieldOperand("x", e)
    THEN "FETCH_VALUE"
    ELSE IF evalComparisonOperators(e, [k |-> k, x |-> Nil]) THEN "INCLUDE" ELSE "EXCLUDE"

EvalWhereUsingOnlyKey(w, k) == IF w = NoWhere THEN "INCLUDE" ELSE evalExprUsingOnlyKey(w, k)

(* The match of a row, as selectResultStreamImpl.Advance and the delete     *)
(* loop compute it.                                                         *)
RowMatches(w, row) ==
    LET rv == EvalWhereUsingOnlyKey(w, row.k)
    IN  rv = "INCLUDE" \/ (rv = "FETCH_VALUE" /\ Eval(w, row))
-----------------------------------------------------------------------------
(* Prepared statements: parameters are used up from left to right. *)

RECURSIVE ParamCount(_)
ParamCount(e) ==
    IF IsLogicalOperator(e) THEN ParamCount(e.l) + ParamCount(e.r)
    ELSE Cardinality({o \in {"l", "r"} : e[o] = Parameter})

SubstituteOperand(o, value) == IF o = Parameter THEN StrLit(value) ELSE o

RECURSIVE Substitute(_, _)
Substitute(e, values) ==
    IF IsLogicalOperator(e)
    THEN LET n == ParamCount(e.l)
         IN  [e EXCEPT !.l = Substitute(@, SubSeq(values, 1, n)),
                       !.r = Substitute(@, SubSeq(values, n + 1, Len(values)))]
    ELSE IF values = <<>> THEN e
    ELSE [e EXCEPT !.l = SubstituteOperand(@, Head(values)),
                   !.r = SubstituteOperand(@, values[Len(values)])]

(* e with the operators of f, an expression of the same shape. *)
RECURSIVE WithOperators(_, _)
WithOperators(e, f) ==
    IF IsLogicalOperator(e)
    THEN [e EXCEPT !.l = WithOperators(@, f.l), !.r = WithOperators(@, f.r)]
    ELSE [e EXCEPT !.op = f.op]
=============================================================================
