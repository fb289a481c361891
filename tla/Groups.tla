------------------------------- MODULE Groups -------------------------------
(***************************************************************************)
(* services/groups/pattern.go: matching of names against patterns with      *)
(* components that refer to groups.  A group is a set of patterns kept by a *)
(* server; its Relate (external) matches every entry in turn, with the      *)
(* groups visited so far.  Whatever cannot be decided (a malformed pattern, *)
(* a server that fails, a cycle) is approximated: by no names when the hint *)
(* is "Under", by all proper suffixes when it is "Over".                    *)
(***************************************************************************)
EXTENDS AccessLists, FiniteSets

CONSTANTS Tok,       \* the components of names
          Group,     \* the names of groups, which may be components of patterns
          Entries,   \* Entries[g]: the patterns in group g
          Failures,  \* the sets of questions that may fail in a Match (see Servers)
          MaxLen     \* bound: the components of a name

(* A pattern whose components are tokens of toks. *)
IsPattern(p, toks) ==
    /\ p = Pattern(p.toks, p.end) /\ p.toks \in Seq(toks)
    /\ p.end \in {"glob", "exact", "bad"} \/ p = AllPrincipals

(* Components of names have no reserved characters.  A group that contains  *)
(* "..." is left out: see match.                                            *)
ASSUME GroupAssumption ==
    /\ Tok \cap Group = {} /\ "$" \notin Tok
    /\ IsFiniteSet(Tok) /\ IsFiniteSet(Group) /\ MaxLen \in Nat
    /\ \A g \in Group : \A e \in Entries[g] : IsPattern(e, Tok \cup Group) /\ e # AllPrincipals

(* What match returns: the remainders, and why they are approximations. *)
Answer(remainder, apprxs) == [remainder |-> remainder, apprxs |-> apprxs]
UnionOf(answers) == Answer(UNION {a.remainder : a \in answers}, UNION {a.apprxs : a \in answers})

ProperSuffixes(b) == {SubSeq(b, i, Len(b)) : i \in 2..(Len(b) + 1)}

(* An approxRemainder that forgets that a member may end inside of b. *)
ApproxRemainderWhole(hint, b) == IF hint = "Under" THEN {} ELSE {<<>>}

ApproxRemainder(hint, b) == IF hint = "Under" THEN {} ELSE ProperSuffixes(b)

Approximated == "approximated"   \* why does not matter
Approximate(hint, b) == Answer(ApproxRemainder(hint, b), {Approximated})

(* A component of the pattern, applied to the remainders of those before    *)
(* it.  rel says what the groups' servers answer.                           *)
MatchToken(rel, tok, ans) ==
    LET chunks == ans.remainder \ {<<>>}
    IN  IF tok \in Group
        THEN LET r == UnionOf({rel[tok][b] : b \in chunks})
             IN  Answer(r.remainder, ans.apprxs \cup r.apprxs)
        ELSE Answer({Tail(b) : b \in {c \in chunks : Head(c) = tok}}, ans.apprxs)

MatchedByBlessing(rel, toks, b) ==
    LET after[i \in 0..Len(toks)] ==
          IF i = 0 THEN Answer({b}, {}) ELSE MatchToken(rel, toks[i], after[i - 1])
    IN  after[Len(toks)]

EmptyPattern == Glob(<<>>)
Malformed(p) == ~IsValid(p) /\ p # EmptyPattern

(* match, for one name: the empty pattern matches nothing, and a malformed  *)
(* one is approximated.                                                     *)
MatchName(rel, p, hint, b) ==
    IF p = AllPrincipals THEN Answer({<<>>}, {})
    ELSE IF p = EmptyPattern THEN Answer({}, {})
    ELSE IF Malformed(p) THEN Approximate(hint, b)
    ELSE LET ans == MatchedByBlessing(rel, p.toks, b)
         IN  IF p.end = "glob" THEN ans
             ELSE Answer(ans.remainder \cap {<<>>}, ans.apprxs)

(* A remainder that forgets the hint. *)
ServersUnder(hint, down) ==
    LET rel[v \in SUBSET Group] ==
          [g \in Group |-> [b \in Seq(Tok) |->
            IF g \in v \/ <<v, g, b>> \in down THEN Approximate("Under", b)
            ELSE UnionOf({MatchName(rel[v \cup {g}], e, hint, b) : e \in Entries[g]})]]
    IN  rel[{}]

(* remainder: a group that was visited, or whose server does not answer, is *)
(* approximated; the others are asked.  A question is the groups visited,   *)
(* the group asked and the chunk asked about; each one fails on its own,    *)
(* and a relate that fails is one whose chunks all do.  Bound: a question   *)
(* asked again within a Match fares as it did before.                       *)
Servers(hint, down) ==
    LET rel[v \in SUBSET Group] ==
          [g \in Group |-> [b \in Seq(Tok) |->
            IF g \in v THEN Approximate(hint, b)
            ELSE IF <<v, g, b>> \in down THEN Approximate(hint, b)
            ELSE UnionOf({MatchName(rel[v \cup {g}], e, hint, b) : e \in Entries[g]})]]
    IN  rel[{}]

(* Match.  Without names, "..." matches and a malformed pattern is reported *)
(* still.                                                                   *)
Match(p, hint, down, names) ==
    IF p = AllPrincipals THEN Answer({<<>>}, {})
    ELSE LET ans == UnionOf({MatchName(Servers(hint, down), p, hint, b) : b \in names})
         IN  Answer(ans.remainder,
                    ans.apprxs \cup (IF Malformed(p) THEN {Approximated} ELSE {}))
-----------------------------------------------------------------------------
(* What a pattern means, said without the algorithm: the least solution of  *)
(* "the members of a group are the concatenations that its entries spell".  *)
(* A word is a name, or a name that "$" closes: only another "$" may follow. *)
Name == BoundedSeq(Tok, MaxLen) \ {<<>>}
Closed(b) == b \o <<"$">>
Word == Name \cup {Closed(b) : b \in Name}

Cat(x, y) ==
    IF x # <<>> /\ Last(x) = "$" THEN IF y = <<"$">> THEN {x} ELSE {}
    ELSE {x \o y} \cap Word
Cats(X, Y) == UNION {UNION {Cat(x, y) : y \in Y} : x \in X}

Spell(members, p) ==
    LET after[i \in 0..Len(p.toks)] ==
          IF i = 0 THEN {<<>>}
          ELSE Cats(after[i - 1], IF p.toks[i] \in Group THEN members[p.toks[i]] ELSE {<<p.toks[i]>>})
    IN  IF ~IsValid(p) \/ p = AllPrincipals THEN {}
        ELSE IF p.end = "exact" THEN Cats(after[Len(p.toks)], {<<"$">>}) ELSE after[Len(p.toks)]

SpelledBy(members) == [g \in Group |-> UNION {Spell(members, e) : e \in Entries[g]}]

(* Rounds of adding the words that the entries spell, until nothing is      *)
(* added; every round before adds a word to a group.                        *)
Rounds == Cardinality(Group \X Word)
Members ==
    LET step[n \in 0..Rounds + 1] ==
          IF n = 0 THEN [g \in Group |-> {}] ELSE SpelledBy(step[n - 1])
    IN  step[CHOOSE n \in 0..Rounds : step[n + 1] = step[n]]

(* The remainders of name b after the words of W, and after a pattern. *)
Rest(W, b) == {SubSeq(b, Len(w) + 1, Len(b)) : w \in {w \in W : IsPrefix(w, Closed(b))}}
Remainders(members, p, b) == Rest(Spell(members, p), b)

Matches(members, p, b) == p = AllPrincipals \/ Remainders(members, p, b) # {}

(* Whom an access list lets in when every group is known, as types.vdl of  *)
(* access has it: who presents a name that In lists and NotIn does not, and *)
(* nobody else, but that "..." is also for callers without names.           *)
Allowed(members, acl, names) ==
    \/ names = {} /\ AllPrincipals \in ToSet(acl.In)
    \/ \E b \in names : /\ \A p \in ToSet(acl.NotIn) : ~Matches(members, p, b)
                        /\ \E p \in ToSet(acl.In) : Matches(members, p, b)
=============================================================================
