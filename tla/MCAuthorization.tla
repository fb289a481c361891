--------------------------- MODULE MCAuthorization ---------------------------
(* A small instance of Authorization for TLC. *)
EXTENDS Authorization

(* Two members, one group inside the other, and two that include each other. *)
GroupEntries == "g1" :> {Glob(<<"a", "b">>), Glob(<<"b">>)}
             @@ "g2" :> {Glob(<<"g1", "c">>), Exactly(<<"a">>)}
             @@ "g3" :> {Glob(<<"g4", "c">>), Glob(<<"a">>), Pattern(<<"b">>, "bad")}
             @@ "g4" :> {Glob(<<"g3", "b">>), Glob(<<"b">>)}
MCEntries == GroupEntries

(* The questions that can come up, and the sets of them that fail: those to *)
(* one server or to all, one that comes up inside of another, and some      *)
(* about one name only.                                                     *)
MCInner == {<<{"g2"}, "g1">>, <<{"g3"}, "g4">>, <<{"g4"}, "g3">>}
MCAsked == {<<{}, g>> : g \in Group} \cup MCInner
SomeFailures ==
    {{<<q[1], q[2], b>> : q \in d, b \in Name} :
        d \in {{q \in MCAsked : q[2] \in D} : D \in {{}, Group} \cup {{g} : g \in Group}}
              \cup {{q} : q \in MCInner}}
    \cup {{<<{}, "g4", <<"b", "c">>>>}, {<<{"g2"}, "g1", <<"a", "b", "c">>>>, <<{}, "g1", <<"b", "c">>>>}}

(* A name for a definition, which TLC then evaluates once. *)
MCFailures == SomeFailures

MCOrder == <<EmptyPattern, NoExtension, AllPrincipals,
             Glob(<<"g1">>), Glob(<<"g1", "c">>), Glob(<<"g2">>), Exactly(<<"g2">>),
             Glob(<<"g3">>), Glob(<<"g3", "g4">>), Exactly(<<"g4", "c">>),
             Glob(<<"a">>), Pattern(<<"a">>, "bad"), Exactly(<<"a">>),
             Glob(<<"a", "g1">>), Glob(<<"a", "g4">>),
             Glob(<<"a", "b">>), Exactly(<<"a", "b">>), Glob(<<"a", "b", "c">>),
             Glob(<<"b">>), Exactly(<<"b", "a">>)>>

Unconstrained == [kind |-> "const", isValid |-> TRUE]
Early == [kind |-> "expiry", expiry |-> 1]
OnlyGet == [kind |-> "method", methods |-> {"Get"}]
ForPeer == [kind |-> "peer", patterns |-> {Glob(<<"a">>)}]
OnlyRead == [kind |-> "tag", tags |-> {"R"}]
Unknown == [kind |-> "unknown"]
Revocable == [kind |-> "thirdParty", nonce |-> 1, key |-> "kd", caveats |-> <<Early>>]
MCCaveat == {Unconstrained, Early, OnlyGet, ForPeer, OnlyRead, Unknown, Revocable}

Root == BlessSelf("kr", <<"a">>, <<>>)
Other == BlessSelf("ko", <<"b">>, <<>>)
Alice == Bless("kr", "ka", Root, <<"b">>, <<Early, ForPeer>>)
Bob == Bless("ka", "kb", Alice, <<"c">>, <<OnlyGet>>)
BobToo == Bless("ko", "kb", Other, <<"a", "c">>, <<OnlyRead, Revocable>>)
Carol == Bless("kr", "kb", Root, <<"b", "c">>, <<>>)
Dave == Bless("ko", "kb", Other, <<"a", "c">>, <<>>)
Wide == UnionOfBlessings(Carol, Bless("kr", "kb", Root, <<"c">>, <<>>))
Strange == Bless("kr", "kb", Root, <<"c">>, <<Unknown>>)
Both == UnionOfBlessings(BobToo, Strange)

(* Bob's chain after a caveat was lost, signed by another key and with the  *)
(* end of another chain; chains of two keys; an extension no one may have;  *)
(* bytes that are no key.                                                   *)
Lost == <<[Bob[1] EXCEPT ![3].caveats = <<Unconstrained>>]>>
Resigned == <<[Bob[1] EXCEPT ![3].signature.signer = "kb"]>>
Spliced == <<Append(SubSeq(Bob[1], 1, 2), BobToo[1][2])>>
TwoKeys == Bob \o Alice
BadName == <<ChainCertificate("ka", Alice[1], Cert("kb", <<Forbidden>>, <<>>))>>

NoKey == Bless("kr", BadKey, Root, <<"b">>, <<>>)

Discharged == MintDischarge("kd", Revocable, <<Early>>)
Forged == [Discharged EXCEPT !.caveats = <<Unconstrained>>]

R == [type |-> "access", tag |-> "R"]
W == [type |-> "access", tag |-> "W"]
Doc == [type |-> "doc", tag |-> "R"]

Served(chains, discharges, time, tags, authorizer, perms) ==
    [chains |-> chains, discharges |-> discharges, timestamp |-> time, method |-> "Get",
     tags |-> tags, localKey |-> "kr", localBlessings |-> Root,
     authorizer |-> authorizer, perms |-> perms]

(* Permissions as programs put them together. *)
ReadA == Add(<<>>, Glob(<<"a">>), {"R"})
AllButC == Blacklist(Add(ReadA, Glob(<<"b">>), {"R", "W"}), Glob(<<"a", "b", "c">>), {"R"})
OnlyB == Normalize(Clear(Add(ReadA, Exactly(<<"a", "b">>), {"R"}), Glob(<<"a">>), {}))
Groups12 == Blacklist(Add(Add(<<>>, Glob(<<"b">>), {"W"}), Glob(<<"a", "g1">>), {"R", "W"}),
                      Glob(<<"g2">>), {"R", "W"})
Groups34 == Blacklist(Add(<<>>, Glob(<<"a", "g4">>), {"R"}), Glob(<<"g3", "g4">>), {"R"})
Open == Add(<<>>, AllPrincipals, {"R"})
OpenButB == Blacklist(Open, Glob(<<"b">>), {"R"})
Damaged == Blacklist(Add(ReadA, EmptyPattern, {"R"}), Pattern(<<"a">>, "bad"), {"R"})

MCCall ==
    {Served(Bob, {}, 1, <<Doc, R>>, "access", AllButC),
     Served(Bob, {}, 2, <<R>>, "access", AllButC),
     Served(Alice, {}, 1, <<R>>, "access", OnlyB),
     Served(Lost, {}, 1, <<R>>, "access", ReadA),
     Served(Resigned, {}, 1, <<R>>, "access", ReadA),
     Served(Spliced, {}, 1, <<R>>, "access", ReadA),
     Served(TwoKeys, {}, 1, <<R>>, "access", ReadA),
     Served(BadName, {}, 1, <<R>>, "access", ReadA),
     Served(BobToo, {Forged}, 1, <<R, W>>, "access", AllButC),
     Served(Both, {Discharged}, 1, <<R>>, "access", AllButC),
     Served(NoKey, {}, 1, <<R>>, "access", ReadA),
     Served(NamelessBlessing(BadKey), {}, 1, <<R>>, "access", ReadA),
     Served(Other, {}, 1, <<R>>, "access", OpenButB),
     Served(Other, {}, 1, <<R>>, "groups", OpenButB),
     Served(Carol, {}, 1, <<R>>, "groups", Groups12),
     Served(Dave, {}, 1, <<W>>, "access", AllButC),
     Served(Wide, {}, 1, <<R, W>>, "groups", Groups34),
     Served(Root, {}, 1, <<R>>, "groups", Damaged),
     Served(NamelessBlessing("kb"), {}, 1, <<R>>, "access", Open),
     Served(<<>>, {}, 1, <<Doc>>, "access", ReadA),
     Served(<<>>, {}, 1, <<W>>, "groups", ReadA),
     Served(<<<<>>>>, {}, 1, <<R>>, "groups", ReadA)}

MCCertificate == UNION {UNION {ToSet(c.chains[k]) : k \in DOMAIN c.chains} : c \in MCCall}

MCIntroduced == {Both}

Symmetry == Permutations(G)
=============================================================================
