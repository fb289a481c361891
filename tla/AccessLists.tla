----------------------------- MODULE AccessLists -----------------------------
(***************************************************************************)
(* security/access/acl.go and authorizer.go: access lists, the edits of a   *)
(* Permissions and the tags of a method.  An AccessList is a record of the  *)
(* lists In and NotIn, a Permissions a function from tags.                  *)
(***************************************************************************)
EXTENDS BlessingPatterns, TLC

CONSTANTS Order   \* all patterns, in the order in which Go sorts them

EmptyList == [In |-> <<>>, NotIn |-> <<>>]
ListOf(m, tag) == IF tag \in DOMAIN m THEN m[tag] ELSE EmptyList

(* removeDuplicatePatterns (removeDuplicateStrings), then sort. *)
SortUnique(l) == SelectSeq(Order, LAMBDA p : p \in ToSet(l))

Add(m, pattern, tags) ==
    [t \in tags |-> [ListOf(m, t) EXCEPT !.In = SortUnique(Append(@, pattern))]] @@ m

Blacklist(m, blessing, tags) ==
    [t \in tags |-> [ListOf(m, t) EXCEPT !.NotIn = SortUnique(Append(@, blessing))]] @@ m

(* Without tags, all of them. *)
Clear(m, pattern, tags) ==
    LET others(l) == SelectSeq(l, LAMBDA p : p # pattern)
    IN  [t \in (IF tags = {} THEN DOMAIN m ELSE tags) |->
            [In |-> others(ListOf(m, t).In), NotIn |-> others(ListOf(m, t).NotIn)]] @@ m

Normalize(m) == [t \in DOMAIN m |-> [In |-> SortUnique(m[t].In), NotIn |-> SortUnique(m[t].NotIn)]]

(* pruneBlacklisted: the names that no pattern of NotIn matches. *)
PruneBlacklisted(acl, names) ==
    {b \in names : \A i \in DOMAIN acl.NotIn : ~MatchedBy(acl.NotIn[i], {b})}

Includes(acl, names) ==
    \E i \in DOMAIN acl.In : MatchedBy(acl.In[i], PruneBlacklisted(acl, names))

(* isRecognized: does one of the roots' patterns cover what p matches? *)
IsRecognized(p, roots) ==
    \/ p = NoExtension
    \/ \E r \in roots : /\ r # NoExtension
                        /\ ~(p.end = "glob" /\ r.end = "exact")
                        /\ MatchedBy(r, {p.toks})

IsOpen(acl) == acl.NotIn = <<>> /\ acl.In = <<AllPrincipals>>

Enforceable(acl, roots) ==
    \/ IsOpen(acl)
    \/ \A i \in DOMAIN acl.In : /\ acl.In[i] # AllPrincipals
                                /\ IsValid(acl.In[i]) /\ IsRecognized(acl.In[i], roots)

(* Authorize of authorizer.go asks for exactly one tag of its type; the     *)
(* list it goes by, or why there is none.  A second tag is only reached     *)
(* when the first one lets the call pass.                                   *)
TagsOf(tags) == SelectSeq(tags, LAMBDA t : t.type = "access")
Relevant(tags) == [i \in DOMAIN TagsOf(tags) |-> TagsOf(tags)[i].tag]
=============================================================================
