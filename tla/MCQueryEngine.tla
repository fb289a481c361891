--------------------------- MODULE MCQueryEngine ---------------------------
(* Small instances of QueryEngine for TLC.  The bytes that matter: zero,    *)
(* newline, the two wildcards, an escape character, a letter and the        *)
(* largest byte.                                                            *)
EXTENDS QueryEngine

Caret == 4
A == <<5>>
AA == <<5, 5>>
AZ == <<5, 6>>
Z == <<6>>
ZZ == <<6, 6>>

K == Field("k")
X == Field("x")
Select(w, limit, offset) ==
    [kind |-> "select", where |-> w, limit |-> limit, offset |-> offset, escape |-> NoEscape]
Delete(w, limit) == [Select(w, limit, 0) EXCEPT !.kind = "delete"]

SmallTables == {(A :> Nil) @@ (AA :> Z) @@ (AZ :> AZ) @@ (Z :> A) @@ (ZZ :> Nil)}
SmallProtected == {AZ}

Comparisons == {"=", "<>", "<", "<=", ">", ">="}
KeyLeaves == {Expr(op, K, StrLit(s)) : op \in Comparisons, s \in {A, AZ, Z}}
KeyPatterns == {Expr("like", K, StrLit(s)) : s \in {<<5, Percent>>, <<6, Percent>>, <<5, Underscore>>, A}}
                 \cup {Expr("notlike", K, StrLit(s)) : s \in {<<5, Percent>>, <<Percent>>, AA}}
OtherLeaves == {Expr("<=", StrLit(AA), K), Expr("=", X, StrLit(Z)), Expr("<>", X, StrLit(A)),
                Expr("is", X, NilLit), Expr("isnot", X, NilLit), Expr("=", K, X),
                Expr(">", Function("k"), StrLit(A)), Expr("<", Function("x"), StrLit(Z))}
Leaves == KeyLeaves \cup KeyPatterns \cup OtherLeaves

(* Leaves joined by and and or, among them ranges that touch at an end,     *)
(* overlap, contain each other or do not meet.                              *)
JoinedOf(S, T) == {Expr(op, l, r) : op \in {"and", "or"}, l \in S, r \in T}
Few == {Expr("<", K, StrLit(AA)), Expr(">=", K, StrLit(AA)), Expr("<>", K, StrLit(AZ)), Expr("=", K, StrLit(Z)),
        Expr("like", K, StrLit(<<5, Percent>>)), Expr("isnot", X, NilLit), Expr("is", X, NilLit)}
Prepared == {Expr("like", K, Parameter), Expr("and", Expr("like", K, Parameter), Expr(">=", X, Parameter))}

SmallStatements ==
    {Select(w, NoLimit, 0) : w \in Leaves \cup JoinedOf(Few, Few) \cup Prepared}
    \cup {Select(NoWhere, 2, 1), Select(Expr("<>", K, StrLit(AA)), 1, 2), Select(Expr("isnot", X, NilLit), 2, 0)}
    \cup {Delete(w, l) : w \in {NoWhere, Expr("<", K, StrLit(Z)), Expr("isnot", X, NilLit)}, l \in {NoLimit, 2}}
    \cup {[Select(Expr("like", K, StrLit(<<5, Caret, Percent>>)), NoLimit, 0) EXCEPT !.escape = Caret]}
Patterns == {<<5, Percent>>, <<Percent>>}

(* The same prepared statement, also given a string without wildcards. *)
PreparedStatements == {Select(w, NoLimit, 0) : w \in Prepared}
PatternsAndStrings == Patterns \cup {A}

(* A negated pattern that goes on after its first wildcard, or whose        *)
(* wildcard stands for one character.                                       *)
NotLikeStatements ==
    {Select(Expr("notlike", K, StrLit(s)), NoLimit, 0) : s \in {<<5, Percent, 5>>, <<5, Underscore>>}}
=============================================================================
