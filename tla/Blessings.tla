------------------------------ MODULE Blessings ------------------------------
(***************************************************************************)
(* security/certificate.go, blessings.go, principal.go, caveat.go,          *)
(* discharge.go and init.go: certificate chains, how they are made, and the *)
(* caveats on them.  Hash functions are free of collisions: the digest of   *)
(* something is that thing.  A signature is a record of who signed what.    *)
(***************************************************************************)
EXTENDS BlessingPatterns, TLC

CONSTANTS Caveat   \* the caveats that occur

Forbidden == "("   \* a component with characters that extensions must not have
blessPurpose == "bless"
dischargePurpose == "discharge"
BadKey == "?"      \* bytes that UnmarshalPublicKey refuses
Parses(key) == key # BadKey
NoSignature == [signer |-> "none", purpose |-> "none", over |-> <<>>]

Sign(key, purpose, digest) == [signer |-> key, purpose |-> purpose, over |-> <<purpose, digest>>]
Verify(sig, key, digest) == sig.signer = key /\ sig.over = <<sig.purpose, digest>>

ValidExtension(e) == e \notin {<<>>, <<"$">>} /\ \A i \in DOMAIN e : e[i] # Forbidden
-----------------------------------------------------------------------------
(* Certificates and chains (certificate.go). *)

Cert(key, extension, caveats) ==
    [publicKey |-> key, extension |-> extension, caveats |-> caveats, signature |-> NoSignature]

(* chainedDigests: a digest stands for the chain up to the certificate, a   *)
(* contentDigest for the same without the certificate's own signature.      *)
ContentDigest(chain, i) ==
    <<SubSeq(chain, 1, i - 1), [chain[i] EXCEPT !.signature = NoSignature]>>

(* A digest that leaves out the last signature. *)
DigestOfContent(chain, i) ==
    Append(SubSeq(chain, 1, i - 1), [chain[i] EXCEPT !.signature = NoSignature])

Digest(chain, i) == SubSeq(chain, 1, i)

ChainCertificate(key, chain, cert) ==
    Append(chain, [cert EXCEPT !.signature =
                      Sign(key, blessPurpose, ContentDigest(Append(chain, cert), Len(chain) + 1))])

(* The first certificate signs itself, the others are signed by the one     *)
(* before them.                                                             *)
SignerOf(chain, i) == chain[IF i = 1 THEN 1 ELSE i - 1].publicKey

(* What validateCertificateChain asks of the i-th certificate: purpose,     *)
(* extension, a key to verify with, and the signature.                      *)
CertOk(chain, i) ==
    /\ chain[i].signature.purpose = blessPurpose
    /\ ValidExtension(chain[i].extension)
    /\ Parses(SignerOf(chain, i))
    /\ Verify(chain[i].signature, SignerOf(chain, i), ContentDigest(chain, i))

KeyOf(chain) == Last(chain).publicKey

(* A chain for a key, whose every certificate is signed by the one before   *)
(* it.                                                                      *)
ValidChain(chain) ==
    chain # <<>> /\ Parses(KeyOf(chain)) /\ \A i \in DOMAIN chain : CertOk(chain, i)

ValidBlessings(chains) ==
    \A k \in DOMAIN chains : ValidChain(chains[k]) /\ KeyOf(chains[k]) = KeyOf(chains[1])
ClaimedName(chain) == FlattenSeq([i \in DOMAIN chain |-> chain[i].extension])
ChainCaveats(chain) == FlattenSeq([i \in DOMAIN chain |-> chain[i].caveats])
IsNameless(chains) ==
    /\ Len(chains) = 1 /\ Len(chains[1]) = 1
    /\ chains[1][1] = Cert(chains[1][1].publicKey, <<>>, <<>>)
-----------------------------------------------------------------------------
(* Principals (principal.go): the chains of a Blessings, <<>> for an error. *)

BlessSelf(key, name, caveats) ==
    IF ValidExtension(name) THEN <<ChainCertificate(key, <<>>, Cert(key, name, caveats))>> ELSE <<>>

Bless(signer, key, with, extension, caveats) ==
    IF with = <<>> \/ IsNameless(with) \/ ~ValidExtension(extension) THEN <<>>
    ELSE IF KeyOf(with[1]) # signer THEN <<>>
    ELSE [i \in DOMAIN with |-> ChainCertificate(signer, with[i], Cert(key, extension, caveats))]

NamelessBlessing(key) == <<<<Cert(key, <<>>, <<>>)>>>>

(* The chains are sorted for printing only, which is left out. *)
UnionOfBlessings(b1, b2) ==
    IF b1 = <<>> THEN b2 ELSE IF b2 = <<>> THEN b1
    ELSE IF IsNameless(b1) /\ IsNameless(b2) THEN b1
    ELSE IF ~IsNameless(b2) /\ KeyOf(b1[1]) # KeyOf(b2[1]) THEN <<>>
    ELSE (IF IsNameless(b1) THEN <<>> ELSE b1) \o (IF IsNameless(b2) THEN <<>> ELSE b2)

(* BlessingRoots (external): pairs of a key and the pattern it is an        *)
(* authority on.                                                            *)
Recognized(roots, chain) ==
    \E r \in roots : r.key = chain[1].publicKey /\ MatchedBy(r.pattern, {ClaimedName(chain)})

(* What AddToRoots adds for a chain. *)
RootOf(chain) == [key |-> chain[1].publicKey, pattern |-> Glob(chain[1].extension)]

BlessingNames(key, chains, roots) ==
    IF chains = <<>> THEN {}
    ELSE IF KeyOf(chains[1]) # key THEN {}
    ELSE {ClaimedName(chains[i]) : i \in {i \in DOMAIN chains : Recognized(roots, chains[i])}}
-----------------------------------------------------------------------------
(* Caveats and discharges (caveat.go, init.go). *)

ThirdPartyId(cav) == <<cav.nonce, cav.key, cav.caveats>>
DischargeDigest(d) == <<d.id, d.caveats>>

MintDischarge(key, cav, caveats) ==
    [id |-> ThirdPartyId(cav), caveats |-> caveats,
     signature |-> Sign(key, dischargePurpose, <<ThirdPartyId(cav), caveats>>)]

(* Every argument of the verification is in the key of the cache. *)
SignatureCacheKey(d, key) == <<key, d.signature, DischargeDigest(d)>>

(* A caveat's outcome, and the discharge signatures verified for it. *)
Outcome(ok, keys) == [ok |-> ok, keys |-> keys]

DischargeVerify(d, key, cache) ==
    IF d.signature.purpose # dischargePurpose THEN Outcome(FALSE, {})
    ELSE IF SignatureCacheKey(d, key) \in cache THEN Outcome(TRUE, {})
    ELSE IF Verify(d.signature, key, DischargeDigest(d)) THEN Outcome(TRUE, {SignatureCacheKey(d, key)})
    ELSE Outcome(FALSE, {})

(* The caveats of a discharge, up to the first that fails, once the         *)
(* discharge itself was verified.                                           *)
InTurn(val, first, cavs) ==
    LET reached == {i \in DOMAIN cavs : first.ok /\ \A j \in 1..i - 1 : val[cavs[j]].ok}
    IN  Outcome(first.ok /\ \A i \in DOMAIN cavs : val[cavs[i]].ok,
                first.keys \cup UNION {val[cavs[i]].keys : i \in reached})

(* The validators that init.go registers, but for the one of third-party    *)
(* caveats.  call holds the facts of the call that they look at; what is    *)
(* not registered is not met.                                               *)
Met(call, roots, cav) ==
    \/ cav.kind = "const"  /\ cav.isValid
    \/ cav.kind = "expiry" /\ call.timestamp <= cav.expiry
    \/ cav.kind = "method" /\ call.method \in cav.methods
    \/ /\ cav.kind = "peer"
       /\ \E p \in cav.patterns : MatchedBy(p, BlessingNames(call.localKey, call.localBlessings, roots))
    \/ /\ cav.kind = "tag"
       /\ \E i \in DOMAIN call.tags : call.tags[i].type = "access" /\ call.tags[i].tag \in cav.tags

FirstParty(call, roots) == [cav \in Caveat |-> Outcome(Met(call, roots, cav), {})]

(* The validator of third-party caveats: the discharge with the caveat's id *)
(* has to be signed by the caveat's key, and val validates its own caveats. *)
ThirdParty(val, call, roots, cache) ==
    [cav \in Caveat |->
       IF cav.kind # "thirdParty" THEN FirstParty(call, roots)[cav]
       ELSE LET ds == {d \in call.discharges : d.id = ThirdPartyId(cav)}
            IN  IF ds = {} THEN Outcome(FALSE, {})
                ELSE LET d == CHOOSE d \in ds : TRUE
                     IN  InTurn(val, DischargeVerify(d, cav.key, cache), d.caveats)]

(* caveatRegistry.validate.  Bound: how deep discharges depend on           *)
(* discharges.                                                              *)
Validators(call, roots, cache) ==
    ThirdParty(ThirdParty(FirstParty(call, roots), call, roots, cache), call, roots, cache)
=============================================================================
