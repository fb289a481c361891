-------------------------- MODULE BlessingPatterns --------------------------
(***************************************************************************)
(* security/pattern.go: blessing names and the patterns they match.  A      *)
(* name is the sequence of its components, a pattern the sequence of its    *)
(* components and what stands at its end: "glob" (nothing: extensions       *)
(* match too) or "exact" (the component $), "all" (the pattern ...), "bad"  *)
(* (a pattern that is not well formed).                                     *)
(***************************************************************************)
EXTENDS Naturals, Sequences, SequencesExt

Pattern(toks, end) == [toks |-> toks, end |-> end]
AllPrincipals == Pattern(<<>>, "all")
NoExtension == Pattern(<<>>, "exact")
Glob(toks) == Pattern(toks, "glob")
Exactly(toks) == Pattern(toks, "exact")

IsValid(p) == \/ p.end \in {"all", "exact"}
              \/ p.end = "glob" /\ p.toks # <<>>

MatchedBy(p, names) ==
    \/ p = AllPrincipals
    \/ /\ IsValid(p) /\ p.toks # <<>>
       /\ \E b \in names : \/ b = p.toks
                           \/ p.end = "glob" /\ IsStrictPrefix(p.toks, b)

(* "...:$" is not a well formed pattern. *)
MakeNonExtendable(p) == Pattern(p.toks, IF p.end \in {"exact", "glob"} THEN "exact" ELSE "bad")

(* One pattern for every proper prefix, then p itself. *)
PrefixPatterns(p) ==
    [i \in 1..(IF p.toks = <<>> THEN 0 ELSE Len(p.toks) - 1) |->
        MakeNonExtendable(Glob(SubSeq(p.toks, 1, i)))] \o <<p>>
=============================================================================
