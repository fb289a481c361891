------------------------- MODULE AuthorizationProofs -------------------------
(***************************************************************************)
(* What validateCertificateChain guarantees for any calls, any number of    *)
(* goroutines and any size of the cache: only valid chains enter the cache, *)
(* and exactly the valid blessings are accepted.                            *)
(***************************************************************************)
EXTENDS Authorization, SequenceTheorems, WellFoundedInduction, FiniteSetTheorems, TLAPS

(* The digest of a chain at i stands for its first i certificates, and      *)
(* those are what their checks look at.                                     *)
LEMMA PrefixCertOk ==
    ASSUME NEW chain \in Seq(Certificate), NEW i \in 1..Len(chain), NEW j \in 1..i
    PROVE  /\ SubSeq(chain, 1, i) \in Seq(Certificate)
           /\ Len(SubSeq(chain, 1, i)) = i
           /\ CertOk(SubSeq(chain, 1, i), j) <=> CertOk(chain, j)
<1> DEFINE pre == SubSeq(chain, 1, i)
<1>1. /\ pre \in Seq(Certificate) /\ Len(pre) = i
      /\ \A k \in 1..i : pre[k] = chain[k]
  BY SMTT(30)
<1>2. SubSeq(pre, 1, j - 1) = SubSeq(chain, 1, j - 1)
  BY <1>1, SMTT(30)
<1>3. pre[j] = chain[j] /\ pre[IF j = 1 THEN 1 ELSE j - 1] = chain[IF j = 1 THEN 1 ELSE j - 1]
  BY <1>1, SMTT(30)
<1>4. ContentDigest(pre, j) = ContentDigest(chain, j) /\ SignerOf(pre, j) = SignerOf(chain, j)
  BY <1>2, <1>3 DEF ContentDigest, SignerOf
<1> QED
  BY <1>1, <1>3, <1>4 DEF CertOk

(* What is valid is valid up to each of its certificates, and becomes valid *)
(* again with certificates whose checks pass: each one's key is needed to   *)
(* verify the next, but for the last one's.                                 *)
LEMMA ValidPrefix ==
    ASSUME NEW chain \in Seq(Certificate), NEW i \in 1..Len(chain)
    PROVE  /\ ValidChain(chain) => ValidChain(Digest(chain, i))
           /\ /\ ValidChain(Digest(chain, i)) /\ Parses(KeyOf(chain))
              /\ \A j \in i + 1..Len(chain) : CertOk(chain, j)
              => ValidChain(chain)
<1>1. \A j \in 1..i : CertOk(SubSeq(chain, 1, i), j) <=> CertOk(chain, j)
  BY PrefixCertOk
<1>2. SubSeq(chain, 1, i) \in Seq(Certificate) /\ Len(SubSeq(chain, 1, i)) = i
  <2>1. 1 \in 1..i
    OBVIOUS
  <2> QED
    BY <2>1, PrefixCertOk
<1>3. SubSeq(chain, 1, i) # <<>> /\ DOMAIN SubSeq(chain, 1, i) = 1..i
  BY <1>2
<1>4. chain # <<>> /\ DOMAIN chain = 1..Len(chain) /\ Len(chain) \in Nat
  OBVIOUS
<1>5. /\ KeyOf(SubSeq(chain, 1, i)) = chain[i].publicKey
      /\ i = Len(chain) => KeyOf(SubSeq(chain, 1, i)) = KeyOf(chain)
  <2>1. SubSeq(chain, 1, i)[i] = chain[i]
    OBVIOUS
  <2> QED
    BY <2>1, <1>2 DEF KeyOf, Last
<1>6. ASSUME ValidChain(chain) PROVE Parses(KeyOf(SubSeq(chain, 1, i)))
  <2>1. CASE i = Len(chain)
    BY <2>1, <1>5, <1>6 DEF ValidChain
  <2>2. CASE i # Len(chain)
    <3> DEFINE n == Len(chain)
    <3>0. n \in Nat /\ i \in 1..n /\ i # n
      BY <2>2, <1>4
    <3> HIDE DEF n
    <3>1. i + 1 \in 1..n /\ i + 1 # 1 /\ (i + 1) - 1 = i
      BY <3>0
    <3>2. CertOk(chain, i + 1)
      BY <3>1, <1>4, <1>6 DEF ValidChain, n
    <3> QED
      BY <3>1, <3>2, <1>5 DEF CertOk, SignerOf
  <2> QED
    BY <2>1, <2>2
<1>7. ASSUME ValidChain(chain) PROVE ValidChain(SubSeq(chain, 1, i))
  <2>1. \A j \in 1..i : CertOk(SubSeq(chain, 1, i), j)
    BY <1>1, <1>4, <1>7 DEF ValidChain
  <2> QED
    BY <2>1, <1>3, <1>6, <1>7 DEF ValidChain
<1>8. ASSUME ValidChain(SubSeq(chain, 1, i)), Parses(KeyOf(chain)), \A j \in i + 1..Len(chain) : CertOk(chain, j)
      PROVE  ValidChain(chain)
  <2>1. \A j \in 1..i : CertOk(chain, j)
    BY <1>1, <1>3, <1>8 DEF ValidChain
  <2>2. \A j \in 1..Len(chain) : j \in 1..i \/ j \in i + 1..Len(chain)
    BY <1>4
  <2> QED
    BY <2>1, <2>2, <1>4, <1>8 DEF ValidChain
<1> QED
  BY <1>7, <1>8 DEF Digest

(* What chainCertificate signs is valid, when the signer has the key of a   *)
(* valid chain and the extension is valid.                                  *)
LEMMA ChainedIsValid ==
    ASSUME NEW S, NEW chain \in Seq(S), ValidChain(chain),
           NEW key, NEW extension, NEW caveats, ValidExtension(extension), Parses(key)
    PROVE  LET new == ChainCertificate(KeyOf(chain), chain, Cert(key, extension, caveats))
           IN  ValidChain(new) /\ KeyOf(new) = key
<1> DEFINE n == Len(chain)
           bare == Cert(key, extension, caveats)
           sig == Sign(KeyOf(chain), blessPurpose, ContentDigest(Append(chain, bare), n + 1))
           signed == [bare EXCEPT !.signature = sig]
           new == Append(chain, signed)
<1>1. /\ n \in Nat \ {0} /\ DOMAIN chain = 1..n /\ DOMAIN new = 1..n + 1 /\ Len(new) = n + 1
      /\ new[n + 1] = signed /\ \A i \in 1..n : new[i] = chain[i]
  BY SMTT(30) DEF ValidChain
<1>2. /\ bare = [publicKey |-> key, extension |-> extension, caveats |-> caveats, signature |-> NoSignature]
      /\ signed = [publicKey |-> key, extension |-> extension, caveats |-> caveats, signature |-> sig]
  BY DEF Cert
<1>3. /\ [signed EXCEPT !.signature = NoSignature] = bare
      /\ [bare EXCEPT !.signature = NoSignature] = bare
  <2> HIDE DEF bare, signed, sig
  <2>1. [signed EXCEPT !.signature = NoSignature] = bare
    BY <1>2
  <2>2. [bare EXCEPT !.signature = NoSignature] = bare
    BY <1>2
  <2> QED
    BY <2>1, <2>2
<1>4. /\ SubSeq(new, 1, n) = chain /\ SubSeq(Append(chain, bare), 1, n) = chain
      /\ Append(chain, bare)[n + 1] = bare
      /\ \A i \in 1..n : SubSeq(new, 1, i - 1) = SubSeq(chain, 1, i - 1)
  <2> HIDE DEF bare, signed
  <2> QED
    BY <1>1, SMTT(30)
<1>5. ContentDigest(new, n + 1) = ContentDigest(Append(chain, bare), n + 1)
  <2>1. ContentDigest(new, n + 1) = <<SubSeq(new, 1, n + 1 - 1), [new[n + 1] EXCEPT !.signature = NoSignature]>>
    BY DEF ContentDigest
  <2>2. ContentDigest(Append(chain, bare), n + 1)
          = <<SubSeq(Append(chain, bare), 1, n + 1 - 1),
              [Append(chain, bare)[n + 1] EXCEPT !.signature = NoSignature]>>
    BY DEF ContentDigest
  <2>3. n + 1 - 1 = n
    BY <1>1
  <2> QED
    BY <1>1, <1>3, <1>4, <2>1, <2>2, <2>3
<1>6. CertOk(new, n + 1)
  <2>1. chain[n].publicKey = KeyOf(chain)
    BY <1>1 DEF KeyOf, Last
  <2>2. /\ signed.signature = sig /\ signed.extension = extension
        /\ sig.purpose = blessPurpose /\ sig.signer = KeyOf(chain)
        /\ sig.over = <<sig.purpose, ContentDigest(new, n + 1)>>
    BY <1>2, <1>5 DEF Sign
  <2>3. n + 1 # 1 /\ new[n + 1 - 1] = chain[n]
    <3> HIDE DEF signed, new
    <3>1. n + 1 # 1 /\ n + 1 - 1 = n /\ n \in 1..n
      BY <1>1
    <3> QED
      BY <1>1, <3>1
  <2>4. Parses(KeyOf(chain))
    BY DEF ValidChain
  <2> HIDE DEF signed, sig, new
  <2>5. SignerOf(new, n + 1) = KeyOf(chain)
    BY <2>1, <2>3 DEF SignerOf
  <2> QED
    BY <1>1, <2>2, <2>4, <2>5 DEF CertOk, Verify
<1>7. ASSUME NEW i \in 1..n PROVE CertOk(new, i)
  <2>1. CertOk(chain, i)
    BY <1>1 DEF ValidChain
  <2>2. /\ new[i] = chain[i]
        /\ new[IF i = 1 THEN 1 ELSE i - 1] = chain[IF i = 1 THEN 1 ELSE i - 1]
    BY <1>1
  <2>3. ContentDigest(new, i) = ContentDigest(chain, i)
    <3> HIDE DEF new
    <3> QED
      BY <1>4, <2>2 DEF ContentDigest
  <2> HIDE DEF new
  <2>4. SignerOf(new, i) = SignerOf(chain, i)
    BY <2>2 DEF SignerOf
  <2> QED
    BY <2>1, <2>2, <2>3, <2>4 DEF CertOk
<1>9. KeyOf(new) = key
  BY <1>1, <1>2 DEF KeyOf, Last
<1>8. ValidChain(new)
  <2> HIDE DEF new
  <2>1. new # <<>>
    BY <1>1
  <2> QED
    BY <1>1, <1>6, <1>7, <1>9, <2>1 DEF ValidChain
<1> QED
  BY <1>8, <1>9 DEF ChainCertificate

(* Bless and BlessSelf make valid blessings out of valid ones, which        *)
(* WireBlessingsToNative therefore accepts wherever they are sent           *)
(* (principal.go).                                                          *)
THEOREM BlessedIsValid ==
    ASSUME NEW S, NEW with \in Seq(Seq(S)), ValidBlessings(with),
           NEW signer, NEW key, Parses(signer), Parses(key), NEW extension, NEW caveats
    PROVE  /\ Bless(signer, key, with, extension, caveats) # <<>> =>
                 ValidBlessings(Bless(signer, key, with, extension, caveats))
           /\ ValidBlessings(BlessSelf(signer, extension, caveats))
<1> DEFINE made == Bless(signer, key, with, extension, caveats)
<1>1. ASSUME made # <<>> PROVE ValidBlessings(made)
  <2>1. /\ with # <<>> /\ ValidExtension(extension) /\ KeyOf(with[1]) = signer
        /\ made = [i \in DOMAIN with |-> ChainCertificate(signer, with[i], Cert(key, extension, caveats))]
    BY <1>1 DEF Bless
  <2>2. DOMAIN with = 1..Len(with) /\ 1 \in DOMAIN with
    BY <2>1
  <2> HIDE DEF made
  <2>3. ASSUME NEW i \in DOMAIN with PROVE ValidChain(made[i]) /\ KeyOf(made[i]) = key
    <3>1. ValidChain(with[i]) /\ KeyOf(with[i]) = signer /\ with[i] \in Seq(S)
      BY <2>1, <2>2 DEF ValidBlessings
    <3>2. made[i] = ChainCertificate(KeyOf(with[i]), with[i], Cert(key, extension, caveats))
      BY <2>1, <3>1
    <3> QED
      BY <2>1, <3>1, <3>2, ChainedIsValid
  <2>4. DOMAIN made = DOMAIN with
    BY <2>1
  <2> QED
    BY <2>2, <2>3, <2>4 DEF ValidBlessings
<1>2. ValidBlessings(BlessSelf(signer, extension, caveats))
  <2>1. CASE ~ValidExtension(extension)
    BY <2>1 DEF BlessSelf, ValidBlessings
  <2>2. CASE ValidExtension(extension)
    <3> DEFINE bare == Cert(signer, extension, caveats)
               sig == Sign(signer, blessPurpose, ContentDigest(<<bare>>, 1))
               signed == [bare EXCEPT !.signature = sig]
               chain == <<signed>>
    <3>1. ChainCertificate(signer, <<>>, bare) = chain
      <4> HIDE DEF bare
      <4>1. Append(<<>>, bare) = <<bare>> /\ Len(<<>>) + 1 = 1
        OBVIOUS
      <4>2. Append(<<>>, signed) = <<signed>>
        OBVIOUS
      <4> QED
        BY <4>1, <4>2 DEF ChainCertificate
    <3>2. /\ bare = [publicKey |-> signer, extension |-> extension, caveats |-> caveats, signature |-> NoSignature]
          /\ signed = [publicKey |-> signer, extension |-> extension, caveats |-> caveats, signature |-> sig]
      BY DEF Cert
    <3>3. [signed EXCEPT !.signature = NoSignature] = bare /\ [bare EXCEPT !.signature = NoSignature] = bare
      <4> HIDE DEF bare, signed, sig
      <4>1. [signed EXCEPT !.signature = NoSignature] = bare
        BY <3>2
      <4>2. [bare EXCEPT !.signature = NoSignature] = bare
        BY <3>2
      <4> QED
        BY <4>1, <4>2
    <3>4. /\ chain[1] = signed /\ DOMAIN chain = {1} /\ chain # <<>> /\ Len(chain) = 1 /\ <<bare>>[1] = bare
          /\ SubSeq(chain, 1, 1 - 1) = SubSeq(<<bare>>, 1, 1 - 1)
      <4> HIDE DEF bare, signed
      <4> QED
        OBVIOUS
    <3>5. ContentDigest(chain, 1) = ContentDigest(<<bare>>, 1)
      <4>1. ContentDigest(chain, 1) = <<SubSeq(chain, 1, 1 - 1), [chain[1] EXCEPT !.signature = NoSignature]>>
        BY DEF ContentDigest
      <4>2. ContentDigest(<<bare>>, 1) = <<SubSeq(<<bare>>, 1, 1 - 1), [<<bare>>[1] EXCEPT !.signature = NoSignature]>>
        BY DEF ContentDigest
      <4> HIDE DEF bare, signed, chain
      <4> QED
        BY <3>3, <3>4, <4>1, <4>2
    <3>6. /\ signed.signature = sig /\ signed.extension = extension /\ signed.publicKey = signer
          /\ sig.purpose = blessPurpose /\ sig.signer = signer
          /\ sig.over = <<sig.purpose, ContentDigest(chain, 1)>>
      BY <3>2, <3>5 DEF Sign
    <3> HIDE DEF bare, sig, signed, chain
    <3>7. CertOk(chain, 1)
      BY <2>2, <3>4, <3>6 DEF CertOk, Verify, SignerOf
    <3>8. ValidChain(chain)
      <4>1. KeyOf(chain) = signer
        BY <3>4, <3>6 DEF KeyOf, Last
      <4> QED
        BY <4>1, <3>4, <3>7 DEF ValidChain
    <3>9. BlessSelf(signer, extension, caveats) = <<chain>>
      BY <2>2, <3>1 DEF BlessSelf, bare
    <3> QED
      BY <3>8, <3>9 DEF ValidBlessings
  <2> QED
    BY <2>1, <2>2
<1> QED
  BY <1>1, <1>2
-----------------------------------------------------------------------------
(* The inductive invariant: what validateCertificateChain knows at each of  *)
(* its points.                                                              *)

Places == {"idle", "verify", "cache", "recognize", "caveats", "discharge", "authorize", "prune", "in"}
Results == {"none", "invalid", "noTags", "noPermissions", "multipleTags", "granted"}

Typed ==
    /\ pc \in [G -> Places] /\ result \in [G -> Results]
    /\ call \in [G -> Call]
    /\ ci \in [G -> Nat] /\ cert \in [G -> Nat]

(* g is at a chain, with the ones before it verified and, of this one, the  *)
(* certificates after cert[g].                                              *)
AtChain(g) ==
    /\ result[g] = "none" /\ ~Anonymous(Chains(g))
    /\ ci[g] \in 1..Len(Chains(g)) /\ cert[g] \in 1..Len(Chain(g))
    /\ KeyOf(Chain(g)) = KeyOf(Chains(g)[1]) /\ Parses(KeyOf(Chain(g)))
    /\ \A k \in 1..ci[g] - 1 : ValidChain(Chains(g)[k]) /\ KeyOf(Chains(g)[k]) = KeyOf(Chains(g)[1])
    /\ \A j \in cert[g] + 1..Len(Chain(g)) : CertOk(Chain(g), j)

Accepted(g) ==
    /\ HasNames(g) => Unnamed(Chains(g)) \/ ValidBlessings(Chains(g))
    /\ result[g] = "invalid" => ~Unnamed(Chains(g)) /\ ~ValidBlessings(Chains(g))

Progress(g) ==
    /\ pc[g] = "verify" => AtChain(g)
    /\ pc[g] = "cache" => AtChain(g) /\ ValidChain(Chain(g))
    /\ pc[g] \in {"recognize", "caveats", "discharge"} => ValidBlessings(Chains(g))
    /\ Accepted(g)

ChainInv == Typed /\ CacheSound /\ \A g \in G : Progress(g)

LEMMA ChainTypes ==
    ASSUME Typed, NEW g \in G
    PROVE  /\ Chains(g) \in Seq(Seq(Certificate))
           /\ \A k \in 1..Len(Chains(g)) : Chains(g)[k] \in Seq(Certificate)
           /\ ci[g] \in 1..Len(Chains(g)) => Chain(g) \in Seq(Certificate)
<1>1. Chains(g) \in Seq(Seq(Certificate))
  BY AuthorizationAssumption DEF Typed, Chains
<1> QED
  BY <1>1 DEF Chain

(* A step leaves the goroutines alone that it is not of. *)
LEMMA OthersKeep ==
    ASSUME NEW h \in G, Progress(h), pc'[h] = pc[h], result'[h] = result[h],
           call'[h] = call[h], ci'[h] = ci[h], cert'[h] = cert[h]
    PROVE  Progress(h)'
<1>1. Chains(h)' = Chains(h) /\ Chain(h)' = Chain(h)
  BY DEF Chains, Chain
<1>2. AtChain(h)' <=> AtChain(h)
  BY <1>1 DEF AtChain
<1>3. Accepted(h)' <=> Accepted(h)
  BY <1>1 DEF Accepted, HasNames
<1> QED
  BY <1>1, <1>2, <1>3 DEF Progress

LEMMA InitChainInv == Init => ChainInv
<1> SUFFICES ASSUME Init PROVE ChainInv
  OBVIOUS
<1>1. (CHOOSE c \in Call : TRUE) \in Call
  BY AuthorizationAssumption
<1>2. Typed
  BY <1>1 DEF Init, Typed, Places, Results
<1>3. CacheSound
  BY DEF Init, CacheSound
<1>4. ASSUME NEW g \in G PROVE Progress(g)
  BY DEF Init, Progress, Accepted, HasNames
<1> QED
  BY <1>2, <1>3, <1>4 DEF ChainInv

(* WireBlessingsToNative up to its first chain. *)
LEMMA ReceiveInv ==
    ASSUME ChainInv, NEW g \in G, NEW c \in Call, Receive(g, c)
    PROVE  ChainInv'
<1>1. Typed /\ CacheSound /\ \A h \in G : Progress(h)
  BY DEF ChainInv
<1>2. /\ c.chains \in Seq(Seq(Certificate))
      /\ call' = [call EXCEPT ![g] = c] /\ signatureCache' = signatureCache
  BY AuthorizationAssumption DEF Receive, caches
<1>3. \/ /\ Unnamed(c.chains)
         /\ pc' = [pc EXCEPT ![g] = "authorize"] /\ result' = [result EXCEPT ![g] = "none"]
         /\ UNCHANGED <<ci, cert>>
      \/ /\ ~Anonymous(c.chains) /\ HasKey(c.chains)
         /\ pc' = [pc EXCEPT ![g] = "verify"] /\ result' = [result EXCEPT ![g] = "none"]
         /\ ci' = [ci EXCEPT ![g] = 1] /\ cert' = [cert EXCEPT ![g] = Len(c.chains[1])]
      \/ /\ c.chains # <<>> /\ ~HasKey(c.chains)
         /\ pc' = [pc EXCEPT ![g] = "idle"] /\ result' = [result EXCEPT ![g] = "invalid"]
         /\ UNCHANGED <<ci, cert>>
  BY DEF Receive, Return
<1> HIDE DEF ChainInv
<1>4. c.chains # <<>> => /\ c.chains[1] \in Seq(Certificate) /\ Len(c.chains) \in Nat \ {0}
                         /\ 1 \in DOMAIN c.chains
  BY <1>2
<1>5. Typed'
  <2>1. c.chains # <<>> => Len(c.chains[1]) \in Nat
    BY <1>4
  <2>t1. pc' \in [G -> Places]
    BY <1>1, <1>2, <1>3, <2>1 DEF Typed, Places, Results, Anonymous, Unnamed
  <2>p1. result' \in [G -> Results]
    BY <1>1, <1>2, <1>3, <2>1 DEF Typed, Places, Results, Anonymous, Unnamed
  <2>v1. call' \in [G -> Call]
    BY <1>1, <1>2, <1>3, <2>1 DEF Typed, Places, Results, Anonymous, Unnamed
  <2>c1. ci' \in [G -> Nat]
    <3>1. ci' = ci \/ ci' = [ci EXCEPT ![g] = 1]
      BY <1>3
    <3>2. ci \in [G -> Nat] /\ 1 \in Nat
      BY <1>1 DEF Typed
    <3> QED
      BY <3>1, <3>2
  <2>n1. cert' \in [G -> Nat]
    BY <1>1, <1>2, <1>3, <2>1 DEF Typed, Places, Results, Anonymous, Unnamed
  <2> QED
    BY <2>t1, <2>p1, <2>v1, <2>c1, <2>n1 DEF Typed
<1>6. CacheSound'
  BY <1>1, <1>2 DEF CacheSound
<1>7. Chains(g)' = c.chains
  BY <1>1, <1>2 DEF Chains, Typed
<1>8. Progress(g)'
  <2>1. CASE Unnamed(c.chains) /\ pc'[g] = "authorize" /\ result'[g] = "none"
    BY <1>7, <2>1 DEF Progress, Accepted, HasNames
  <2>2. CASE /\ ~Anonymous(c.chains) /\ HasKey(c.chains)
             /\ pc'[g] = "verify" /\ result'[g] = "none"
             /\ ci'[g] = 1 /\ cert'[g] = Len(c.chains[1])
    <3>1. Chain(g)' = c.chains[1]
      BY <1>7, <2>2 DEF Chain
    <3>2. c.chains # <<>> /\ Len(c.chains[1]) \in Nat \ {0} /\ Parses(KeyOf(c.chains[1]))
      BY <1>4, <2>2 DEF Anonymous, HasKey
    <3>3. AtChain(g)'
      BY <1>4, <1>7, <2>2, <3>1, <3>2 DEF AtChain
    <3> QED
      BY <2>2, <3>3 DEF Progress, Accepted, HasNames
  <2>3. CASE /\ c.chains # <<>> /\ ~HasKey(c.chains)
             /\ pc'[g] = "idle" /\ result'[g] = "invalid"
    <3>1. ~ValidBlessings(c.chains)
      BY <1>4, <2>3 DEF ValidBlessings, ValidChain, HasKey
    <3>2. ~Unnamed(c.chains)
      BY <2>3 DEF Unnamed
    <3> QED
      BY <1>7, <2>3, <3>1, <3>2 DEF Progress, Accepted, HasNames
  <2> QED
    BY <1>1, <1>3, <2>1, <2>2, <2>3 DEF Typed
<1>9. ASSUME NEW h \in G, h # g PROVE Progress(h)'
  BY <1>1, <1>2, <1>3, <1>9, OthersKeep DEF Typed
<1> QED
  BY <1>5, <1>6, <1>8, <1>9 DEF ChainInv

(* The loop of validateCertificateChain. *)
LEMMA VerifyCertInv ==
    ASSUME ChainInv, NEW g \in G, VerifyCert(g)
    PROVE  ChainInv'
<1>1. Typed /\ CacheSound /\ (\A h \in G : Progress(h)) /\ AtChain(g)
  BY DEF ChainInv, Progress, VerifyCert
<1> DEFINE Known == Digest(Chain(g), cert[g]) \in signatureCache
           Ok == CertOk(Chain(g), cert[g])
<1>2. /\ UNCHANGED <<signatureCache, call, ci>>
      /\ \/ /\ Known \/ (Ok /\ cert[g] = 1)
            /\ pc' = [pc EXCEPT ![g] = "cache"] /\ UNCHANGED <<result, cert>>
         \/ /\ ~Known /\ ~Ok
            /\ pc' = [pc EXCEPT ![g] = "idle"] /\ result' = [result EXCEPT ![g] = "invalid"]
            /\ UNCHANGED cert
         \/ /\ Ok /\ cert[g] # 1
            /\ cert' = [cert EXCEPT ![g] = cert[g] - 1] /\ UNCHANGED <<pc, result>>
  BY DEF VerifyCert, Goto, Return, caches
<1> HIDE DEF ChainInv, Known, Ok
<1>3. /\ Chain(g) \in Seq(Certificate) /\ cert[g] \in 1..Len(Chain(g)) /\ Len(Chain(g)) \in Nat
      /\ ci[g] \in DOMAIN Chains(g) /\ Chain(g) = Chains(g)[ci[g]]
      /\ DOMAIN Chain(g) = 1..Len(Chain(g))
  BY <1>1, ChainTypes DEF AtChain, Chain
<1>4. Chains(g)' = Chains(g) /\ Chain(g)' = Chain(g)
  BY <1>2 DEF Chains, Chain
<1>5. Typed'
  <2>1. cert[g] # 1 => cert[g] - 1 \in Nat
    BY <1>3
  <2>t1. pc' \in [G -> Places]
    BY <1>1, <1>2, <2>1 DEF Typed, Places, Results
  <2>p1. result' \in [G -> Results]
    BY <1>1, <1>2, <2>1 DEF Typed, Places, Results
  <2>v1. call' \in [G -> Call]
    BY <1>1, <1>2, <2>1 DEF Typed, Places, Results
  <2>c1. ci' \in [G -> Nat]
    BY <1>1, <1>2, <2>1 DEF Typed, Places, Results
  <2>n1. cert' \in [G -> Nat]
    BY <1>1, <1>2, <2>1 DEF Typed, Places, Results
  <2> QED
    BY <2>t1, <2>p1, <2>v1, <2>c1, <2>n1 DEF Typed
<1>6. CacheSound'
  BY <1>1, <1>2 DEF CacheSound
<1>7. Progress(g)'
  <2>1. CASE (Known \/ (Ok /\ cert[g] = 1)) /\ pc'[g] = "cache" /\ UNCHANGED <<result, cert>>
    <3>1. AtChain(g)'
      BY <1>1, <1>2, <1>4, <2>1 DEF AtChain
    <3>2. ValidChain(Chain(g))
      <4>1. CASE Known
        <5>1. ValidChain(Digest(Chain(g), cert[g]))
          BY <1>1, <4>1 DEF CacheSound, Known
        <5> QED
          BY <1>1, <1>3, <5>1, ValidPrefix DEF AtChain
      <4>2. CASE Ok /\ cert[g] = 1
        BY <1>1, <1>3, <4>2 DEF AtChain, ValidChain, Ok
      <4> QED
        BY <2>1, <4>1, <4>2
    <3> QED
      BY <1>4, <2>1, <3>1, <3>2 DEF Progress, Accepted, HasNames, AtChain
  <2>2. CASE ~Ok /\ pc'[g] = "idle" /\ result'[g] = "invalid"
    <3>1. ~ValidBlessings(Chains(g))
      BY <1>3, <2>2 DEF ValidBlessings, ValidChain, Ok
    <3> QED
      BY <1>1, <1>4, <2>2, <3>1 DEF Progress, Accepted, HasNames, AtChain, Anonymous, Unnamed
  <2>3. CASE /\ Ok /\ cert[g] # 1
             /\ cert'[g] = cert[g] - 1 /\ UNCHANGED <<pc, result>>
    <3>1. AtChain(g)'
      BY <1>1, <1>2, <1>3, <1>4, <2>3 DEF AtChain, Ok
    <3> QED
      BY <1>1, <1>4, <2>3, <3>1 DEF Progress, Accepted, HasNames, AtChain, VerifyCert
  <2> QED
    BY <1>1, <1>2, <2>1, <2>2, <2>3 DEF Typed
<1>8. ASSUME NEW h \in G, h # g PROVE Progress(h)'
  BY <1>1, <1>2, <1>8, OthersKeep DEF Typed
<1> QED
  BY <1>5, <1>6, <1>7, <1>8 DEF ChainInv

(* sigCache.cache, and the next chain. *)
LEMMA CacheChainInv ==
    ASSUME ChainInv, NEW g \in G, CacheChain(g)
    PROVE  ChainInv'
<1>1. /\ Typed /\ CacheSound /\ (\A h \in G : Progress(h))
      /\ AtChain(g) /\ ValidChain(Chain(g))
  BY DEF ChainInv, Progress, CacheChain
<1> DEFINE chains == Chains(g)
           next == ci[g] + 1
           Bad == chains[next] = <<>> \/ KeyOf(chains[next]) # KeyOf(chains[1])
<1>2. /\ call' = call
      /\ signatureCache' \subseteq signatureCache \cup {Digest(Chain(g), i) : i \in cert[g]..Len(Chain(g))}
      /\ \/ /\ ci[g] < Len(chains) /\ Bad
            /\ pc' = [pc EXCEPT ![g] = "idle"] /\ result' = [result EXCEPT ![g] = "invalid"]
            /\ UNCHANGED <<ci, cert>>
         \/ /\ ci[g] < Len(chains) /\ ~Bad
            /\ pc' = [pc EXCEPT ![g] = "verify"] /\ UNCHANGED result
            /\ ci' = [ci EXCEPT ![g] = next] /\ cert' = [cert EXCEPT ![g] = Len(chains[next])]
         \/ /\ ~(ci[g] < Len(chains))
            /\ pc' = [pc EXCEPT ![g] = "recognize"] /\ UNCHANGED <<result, cert>>
            /\ ci' = [ci EXCEPT ![g] = 1]
  BY DEF CacheChain, StartChain, Goto, Return
<1> HIDE DEF ChainInv, Bad
<1>3. /\ Chain(g) \in Seq(Certificate) /\ cert[g] \in 1..Len(Chain(g)) /\ Len(Chain(g)) \in Nat
      /\ ci[g] \in 1..Len(chains) /\ Chain(g) = chains[ci[g]] /\ Len(chains) \in Nat
      /\ DOMAIN chains = 1..Len(chains)
      /\ \A k \in 1..Len(chains) : chains[k] \in Seq(Certificate)
  BY <1>1, ChainTypes DEF AtChain, Chain
<1>4. Chains(g)' = chains
  BY <1>2 DEF Chains
<1> HIDE DEF chains
<1>5. Typed'
  <2>1. ci[g] < Len(chains) => Len(chains[next]) \in Nat
    BY <1>3
  <2>t1. pc' \in [G -> Places]
    BY <1>1, <1>2, <1>3, <2>1 DEF Typed, Places, Results
  <2>p1. result' \in [G -> Results]
    BY <1>1, <1>2, <1>3, <2>1 DEF Typed, Places, Results
  <2>v1. call' \in [G -> Call]
    BY <1>1, <1>2, <1>3, <2>1 DEF Typed, Places, Results
  <2>c1. ci' \in [G -> Nat]
    <3>1. ci' = ci \/ ci' = [ci EXCEPT ![g] = next] \/ ci' = [ci EXCEPT ![g] = 1]
      BY <1>2
    <3>2. ci \in [G -> Nat] /\ next \in Nat /\ 1 \in Nat
      BY <1>1 DEF Typed
    <3> HIDE DEF next
    <3> QED
      BY <3>1, <3>2
  <2>n1. cert' \in [G -> Nat]
    BY <1>1, <1>2, <1>3, <2>1 DEF Typed, Places, Results
  <2> QED
    BY <2>t1, <2>p1, <2>v1, <2>c1, <2>n1 DEF Typed
<1>6. CacheSound'
  <2>1. ASSUME NEW i \in cert[g]..Len(Chain(g)) PROVE ValidChain(Digest(Chain(g), i))
    <3>1. i \in 1..Len(Chain(g))
      BY <1>3
    <3> QED
      BY <1>1, <1>3, <3>1, ValidPrefix
  <2> QED
    BY <1>1, <1>2, <2>1 DEF CacheSound
<1>7. \A k \in 1..ci[g] : ValidChain(chains[k]) /\ KeyOf(chains[k]) = KeyOf(chains[1])
  <2>1. \A k \in 1..ci[g] - 1 : ValidChain(chains[k]) /\ KeyOf(chains[k]) = KeyOf(chains[1])
    BY <1>1 DEF AtChain, chains
  <2>2. ValidChain(chains[ci[g]]) /\ KeyOf(chains[ci[g]]) = KeyOf(chains[1])
    BY <1>1, <1>3 DEF AtChain, chains
  <2> QED
    BY <1>3, <2>1, <2>2
<1>8. Progress(g)'
  <2>1. CASE ci[g] < Len(chains) /\ Bad /\ pc'[g] = "idle" /\ result'[g] = "invalid"
    <3>1. ~ValidBlessings(chains)
      BY <1>3, <2>1 DEF ValidBlessings, ValidChain, Bad
    <3> QED
      BY <1>1, <1>4, <2>1, <3>1 DEF Progress, Accepted, HasNames, AtChain, Anonymous, Unnamed, chains
  <2>2. CASE /\ ci[g] < Len(chains) /\ ~Bad /\ pc'[g] = "verify" /\ UNCHANGED result
             /\ ci'[g] = next /\ cert'[g] = Len(chains[next])
    <3>1. Chain(g)' = chains[next]
      BY <1>4, <2>2 DEF Chain
    <3>2. /\ chains[next] # <<>> /\ chains[next] \in Seq(Certificate) /\ next \in 1..Len(chains)
          /\ Len(chains[next]) \in Nat \ {0} /\ KeyOf(chains[next]) = KeyOf(chains[1])
          /\ next - 1 = ci[g]
      BY <1>3, <2>2 DEF Bad
    <3>5. Parses(KeyOf(chains[next]))
      BY <1>1, <3>2 DEF AtChain, chains
    <3>3. ~Anonymous(chains) /\ result[g] = "none"
      BY <1>1 DEF AtChain, chains
    <3> HIDE DEF next
    <3>4. AtChain(g)'
      BY <1>4, <1>7, <2>2, <3>1, <3>2, <3>3, <3>5 DEF AtChain
    <3> QED
      BY <2>2, <3>3, <3>4 DEF Progress, Accepted, HasNames
  <2>3. CASE ~(ci[g] < Len(chains)) /\ pc'[g] = "recognize" /\ UNCHANGED result
    <3>1. ValidBlessings(chains)
      BY <1>3, <1>7, <2>3 DEF ValidBlessings
    <3>2. result[g] = "none"
      BY <1>1 DEF AtChain
    <3> QED
      BY <1>4, <2>3, <3>1, <3>2 DEF Progress, Accepted, HasNames
  <2> QED
    BY <1>1, <1>2, <2>1, <2>2, <2>3 DEF Typed
<1>9. ASSUME NEW h \in G, h # g PROVE Progress(h)'
  BY <1>1, <1>2, <1>9, OthersKeep DEF Typed
<1> QED
  BY <1>5, <1>6, <1>8, <1>9 DEF ChainInv

(* Goto and Return move g and nobody else. *)
LEMMA Moves ==
    ASSUME Typed, NEW g \in G, NEW l \in Places, Goto(g, l)
    PROVE  /\ pc' \in [G -> Places] /\ result' = result /\ pc'[g] = l
           /\ \A h \in G : h # g => pc'[h] = pc[h]
BY DEF Typed, Goto

LEMMA Returns ==
    ASSUME Typed, NEW g \in G, NEW r \in Results, Return(g, r)
    PROVE  /\ pc' \in [G -> Places] /\ result' \in [G -> Results]
           /\ pc'[g] = "idle" /\ result'[g] = r
           /\ \A h \in G : h # g => pc'[h] = pc[h] /\ result'[h] = result[h]
BY DEF Typed, Return, Places

(* What comes after the validation of the chains keeps them, and ends with  *)
(* a result of the authorizer.                                              *)
Early == {"recognize", "caveats", "discharge"}
Late == {"recognize", "caveats", "discharge", "authorize", "prune", "in"}
Decisions == {"noTags", "noPermissions", "multipleTags", "granted"}

LEMMA LaterInv ==
    ASSUME ChainInv, NEW g \in G,
           \/ Recognize(g) \/ ValidateCaveats(g) \/ CacheDischarges(g)
           \/ Authorize(g) \/ Prune(g) \/ CheckIn(g)
    PROVE  ChainInv'
<1>1. Typed /\ CacheSound /\ (\A h \in G : Progress(h))
  BY DEF ChainInv
<1>2. /\ UNCHANGED <<signatureCache, call, cert>> /\ pc[g] \in Late
      /\ UNCHANGED ci \/ ci' = [ci EXCEPT ![g] = ci[g] + 1]
      /\ \/ UNCHANGED <<pc, result>>
         \/ \E l \in Late : Goto(g, l) /\ (l \in Early => pc[g] \in Early)
         \/ \E r \in Decisions : Return(g, r)
  <2>1. CASE Recognize(g)
    BY <2>1 DEF Recognize, AfterCaveats, caches, Late, Early
  <2>2. CASE ValidateCaveats(g)
    BY <2>2 DEF ValidateCaveats, CheckCaveat, AfterCaveats, caches, Late, Early
  <2>6. CASE CacheDischarges(g)
    BY <2>6 DEF CacheDischarges, AfterCaveats, Late, Early
  <2>3. CASE Authorize(g)
    BY <2>3 DEF Authorize, Pass, caches, Late, Early, Decisions
  <2>4. CASE Prune(g)
    BY <2>4 DEF Prune, caches, Late, Early
  <2>5. CASE CheckIn(g)
    BY <2>5 DEF CheckIn, Pass, caches, Late, Decisions
  <2> QED
    BY <2>1, <2>2, <2>3, <2>4, <2>5, <2>6
<1>3. /\ pc' \in [G -> Places] /\ result' \in [G -> Results]
      /\ \A h \in G : h # g => pc'[h] = pc[h] /\ result'[h] = result[h]
      /\ \/ UNCHANGED <<pc, result>>
         \/ result' = result /\ pc'[g] \in Late /\ (pc'[g] \in Early => pc[g] \in Early)
         \/ pc'[g] = "idle" /\ result'[g] \in Decisions
  <2>1. CASE UNCHANGED <<pc, result>>
    BY <1>1, <2>1 DEF Typed
  <2>2. ASSUME NEW l \in Late, Goto(g, l), l \in Early => pc[g] \in Early
        PROVE  /\ pc' \in [G -> Places] /\ result' = result /\ pc'[g] = l
               /\ \A h \in G : h # g => pc'[h] = pc[h]
    <3>1. l \in Places
      BY DEF Late, Places
    <3> QED
      BY <1>1, <2>2, <3>1, Moves
  <2>3. ASSUME NEW r \in Decisions, Return(g, r)
        PROVE  /\ pc' \in [G -> Places] /\ result' \in [G -> Results]
               /\ pc'[g] = "idle" /\ result'[g] = r
               /\ \A h \in G : h # g => pc'[h] = pc[h] /\ result'[h] = result[h]
    <3>1. r \in Results
      BY DEF Decisions, Results
    <3> QED
      BY <1>1, <2>3, <3>1, Returns
  <2>4. result \in [G -> Results]
    BY <1>1 DEF Typed
  <2> QED
    BY <1>2, <2>1, <2>2, <2>3, <2>4
<1> HIDE DEF ChainInv
<1>4. Typed'
  <2>1. ci \in [G -> Nat] /\ ci[g] + 1 \in Nat /\ call' \in [G -> Call] /\ cert' \in [G -> Nat]
    BY <1>1, <1>2 DEF Typed
  <2>2. ci' \in [G -> Nat]
    BY <1>2, <2>1
  <2> QED
    BY <1>3, <2>1, <2>2 DEF Typed
<1>5. CacheSound'
  BY <1>1, <1>2 DEF CacheSound
<1>6. Chains(g)' = Chains(g)
  BY <1>2 DEF Chains
<1>7. Progress(g)'
  <2>1. Accepted(g) /\ (pc[g] \in Early => ValidBlessings(Chains(g)))
    BY <1>1 DEF Progress, Early
  <2>2. Unnamed(Chains(g)) \/ ValidBlessings(Chains(g))
    BY <1>2, <2>1 DEF Accepted, HasNames, Late, Early
  <2>3. pc'[g] \notin {"verify", "cache"}
    BY <1>2, <1>3 DEF Late
  <2>4. pc'[g] \in Early => ValidBlessings(Chains(g))
    BY <1>3, <2>1 DEF Early
  <2>5. result'[g] = "invalid" => ~Unnamed(Chains(g)) /\ ~ValidBlessings(Chains(g))
    BY <1>3, <2>1 DEF Accepted, Decisions
  <2> QED
    BY <1>6, <2>2, <2>3, <2>4, <2>5 DEF Progress, Accepted, Early
<1>8. ASSUME NEW h \in G, h # g PROVE Progress(h)'
  <2>1. ci'[h] = ci[h]
    BY <1>1, <1>2, <1>8 DEF Typed
  <2> QED
    BY <1>1, <1>2, <1>3, <1>8, <2>1, OthersKeep
<1> QED
  BY <1>4, <1>5, <1>7, <1>8 DEF ChainInv

LEMMA ChainInvariant == Spec => []ChainInv
<1>1. ASSUME ChainInv, [Next]_vars PROVE ChainInv'
  <2>1. ASSUME NEW g \in G, NEW c \in Call, Receive(g, c) PROVE ChainInv'
    BY <1>1, <2>1, ReceiveInv
  <2>2. ASSUME NEW g \in G, VerifyCert(g) PROVE ChainInv'
    BY <1>1, <2>2, VerifyCertInv
  <2>3. ASSUME NEW g \in G, CacheChain(g) PROVE ChainInv'
    BY <1>1, <2>3, CacheChainInv
  <2>4. ASSUME NEW g \in G,
               \/ Recognize(g) \/ ValidateCaveats(g) \/ CacheDischarges(g)
               \/ Authorize(g) \/ Prune(g) \/ CheckIn(g)
        PROVE  ChainInv'
    BY <1>1, <2>4, LaterInv
  <2>5. ASSUME UNCHANGED <<signatureCache, pc, call, ci, cert, result>> PROVE ChainInv'
    <3>1. Typed' /\ CacheSound'
      BY <1>1, <2>5 DEF ChainInv, Typed, CacheSound
    <3>2. ASSUME NEW h \in G PROVE Progress(h)'
      BY <1>1, <2>5, OthersKeep DEF ChainInv
    <3> QED
      BY <3>1, <3>2 DEF ChainInv
  <2>6. ASSUME NEW b \in Introduced, AddToRoots(b) PROVE ChainInv'
    BY <2>5, <2>6 DEF AddToRoots, caches
  <2>7. CASE UNCHANGED vars
    BY <2>5, <2>7 DEF vars, caches
  <2> QED
    BY <1>1, <2>1, <2>2, <2>3, <2>4, <2>6, <2>7 DEF Next
<1> QED
  BY <1>1, InitChainInv, PTL DEF Spec

(* For any number of goroutines, any calls and any limit of the cache: the  *)
(* signatureCache of certificate.go holds only chains that are valid as a   *)
(* whole.                                                                   *)
THEOREM CacheStaysSound == Spec => []CacheSound
<1>1. ChainInv => CacheSound
  BY DEF ChainInv
<1> QED
  BY <1>1, ChainInvariant, PTL

(* WireBlessingsToNative accepts exactly the valid blessings, although it   *)
(* skips what the cache vouches for.                                        *)
THEOREM ValidAccepted == Spec => []AcceptsExactly
<1>1. ChainInv => AcceptsExactly
  BY DEF ChainInv, Progress, Accepted, AcceptsExactly
<1> QED
  BY <1>1, ChainInvariant, PTL
-----------------------------------------------------------------------------
(* Caveats.  What validation comes to is what the discharges prove, and     *)
(* only signatures that are valid enter the cache of discharges.            *)

SoundKeys(keys) == \A k \in keys : k[2].purpose = dischargePurpose /\ Verify(k[2], k[1], k[3])

(* val is right about the caveats, H being the ones that hold. *)
Right(val, H) == \A cav \in Caveat : (val[cav].ok <=> cav \in H) /\ SoundKeys(val[cav].keys)

LEMMA InTurnRight ==
    ASSUME NEW val, NEW H, Right(val, H), NEW first, SoundKeys(first.keys), NEW cavs \in Seq(Caveat)
    PROVE  /\ InTurn(val, first, cavs).ok <=> first.ok /\ \A i \in DOMAIN cavs : cavs[i] \in H
           /\ SoundKeys(InTurn(val, first, cavs).keys)
<1> DEFINE reached == {i \in DOMAIN cavs : first.ok /\ \A j \in 1..i - 1 : val[cavs[j]].ok}
           ok == first.ok /\ \A i \in DOMAIN cavs : val[cavs[i]].ok
           keys == first.keys \cup UNION {val[cavs[i]].keys : i \in reached}
<1>1. InTurn(val, first, cavs) = [ok |-> ok, keys |-> keys]
  BY DEF InTurn, Outcome
<1>2. \A i \in DOMAIN cavs : cavs[i] \in Caveat
  OBVIOUS
<1>3. reached \subseteq DOMAIN cavs
  OBVIOUS
<1>4. SoundKeys(keys)
  <2> HIDE DEF reached
  <2> QED
    BY <1>2, <1>3 DEF Right, SoundKeys
<1>5. ok <=> first.ok /\ \A i \in DOMAIN cavs : cavs[i] \in H
  BY <1>2 DEF Right
<1> HIDE DEF ok, keys
<1>6. InTurn(val, first, cavs).ok = ok /\ InTurn(val, first, cavs).keys = keys
  BY <1>1
<1> QED
  BY <1>4, <1>5, <1>6

(* A discharge passes exactly when the caveat's discharger minted it,       *)
(* whether its signature is looked up or verified.                          *)
LEMMA DischargeRight ==
    ASSUME NEW cache, SoundKeys(cache), NEW d, IsDischarge(d), NEW cav, d.id = ThirdPartyId(cav)
    PROVE  /\ DischargeVerify(d, cav.key, cache).ok <=> d = MintDischarge(cav.key, cav, d.caveats)
           /\ SoundKeys(DischargeVerify(d, cav.key, cache).keys)
<1> DEFINE key == SignatureCacheKey(d, cav.key)
           valid == Verify(d.signature, cav.key, DischargeDigest(d))
           purpose == d.signature.purpose = dischargePurpose
<1>1. key[1] = cav.key /\ key[2] = d.signature /\ key[3] = DischargeDigest(d)
  BY DEF SignatureCacheKey
<1>2. key \in cache => purpose /\ valid
  BY <1>1 DEF SoundKeys
<1>3. purpose /\ valid => SoundKeys({key})
  BY <1>1 DEF SoundKeys
<1>4. SoundKeys({})
  BY DEF SoundKeys
<1>5. d = MintDischarge(cav.key, cav, d.caveats) <=> purpose /\ valid
  <2> DEFINE minted == Sign(cav.key, dischargePurpose, <<ThirdPartyId(cav), d.caveats>>)
  <2>1. d = [id |-> d.id, caveats |-> d.caveats, signature |-> d.signature]
    BY DEF IsDischarge
  <2>2. d.signature = [signer |-> d.signature.signer, purpose |-> d.signature.purpose, over |-> d.signature.over]
    BY DEF IsDischarge
  <2>3. MintDischarge(cav.key, cav, d.caveats) = [id |-> d.id, caveats |-> d.caveats, signature |-> minted]
    BY DEF MintDischarge
  <2>4. minted = [signer |-> cav.key, purpose |-> dischargePurpose, over |-> <<dischargePurpose, DischargeDigest(d)>>]
    BY DEF Sign, DischargeDigest
  <2> HIDE DEF minted
  <2>5. d = MintDischarge(cav.key, cav, d.caveats) <=> d.signature = minted
    BY <2>1, <2>3
  <2>6. d.signature = minted => purpose /\ valid
    <3>1. minted.signer = cav.key /\ minted.purpose = dischargePurpose
          /\ minted.over = <<dischargePurpose, DischargeDigest(d)>>
      BY <2>4
    <3> QED
      BY <3>1 DEF Verify
  <2>7. purpose /\ valid => d.signature = minted
    BY <2>2, <2>4 DEF Verify
  <2> QED
    BY <2>5, <2>6, <2>7
<1> HIDE DEF key, valid, purpose
<1>6. \/ ~purpose /\ DischargeVerify(d, cav.key, cache) = Outcome(FALSE, {})
      \/ purpose /\ key \in cache /\ DischargeVerify(d, cav.key, cache) = Outcome(TRUE, {})
      \/ purpose /\ valid /\ DischargeVerify(d, cav.key, cache) = Outcome(TRUE, {key})
      \/ purpose /\ ~valid /\ key \notin cache /\ DischargeVerify(d, cav.key, cache) = Outcome(FALSE, {})
  BY DEF DischargeVerify, key, valid, purpose
<1>7. \A keys : /\ Outcome(TRUE, keys).ok = TRUE /\ Outcome(FALSE, keys).ok = FALSE
                /\ Outcome(TRUE, keys).keys = keys /\ Outcome(FALSE, keys).keys = keys
  BY DEF Outcome
<1> QED
  BY <1>2, <1>3, <1>4, <1>5, <1>6, <1>7

LEMMA FirstPartyRight ==
    ASSUME NEW c, NEW R
    PROVE  Right(FirstParty(c, R), {cav \in Caveat : Met(c, R, cav)})
<1> SUFFICES ASSUME NEW cav \in Caveat
             PROVE  /\ FirstParty(c, R)[cav].ok <=> Met(c, R, cav)
                    /\ SoundKeys(FirstParty(c, R)[cav].keys)
  BY DEF Right
<1> DEFINE met == Met(c, R, cav)
<1>1. FirstParty(c, R)[cav] = [ok |-> met, keys |-> {}]
  BY DEF FirstParty, Outcome
<1> HIDE DEF met
<1>2. FirstParty(c, R)[cav].ok = met /\ FirstParty(c, R)[cav].keys = {}
  BY <1>1
<1> QED
  BY <1>2 DEF met, SoundKeys

LEMMA ThirdPartyRight ==
    ASSUME NEW c \in Call, NEW R, NEW cache, SoundKeys(cache), NEW val, NEW H, Right(val, H)
    PROVE  Right(ThirdParty(val, c, R, cache), Proved(c, R, H))
<1> SUFFICES ASSUME NEW cav \in Caveat
             PROVE  /\ ThirdParty(val, c, R, cache)[cav].ok <=> cav \in Proved(c, R, H)
                    /\ SoundKeys(ThirdParty(val, c, R, cache)[cav].keys)
  BY DEF Right
<1> DEFINE out == ThirdParty(val, c, R, cache)[cav]
           ds == {d \in c.discharges : d.id = ThirdPartyId(cav)}
<1>1. CASE cav.kind # "thirdParty"
  <2>1. out = FirstParty(c, R)[cav]
    BY <1>1 DEF ThirdParty
  <2>2. cav \in Proved(c, R, H) <=> Met(c, R, cav)
    BY <1>1 DEF Proved
  <2> HIDE DEF out
  <2>3. (out.ok <=> Met(c, R, cav)) /\ SoundKeys(out.keys)
    BY <2>1, FirstPartyRight DEF Right
  <2> QED
    BY <2>2, <2>3 DEF out
<1>2. CASE cav.kind = "thirdParty" /\ ds = {}
  <2>1. out = Outcome(FALSE, {})
    BY <1>2 DEF ThirdParty
  <2>2. cav \notin Proved(c, R, H)
    <3>1. \A d \in c.discharges : d # MintDischarge(cav.key, cav, d.caveats)
      BY <1>2 DEF MintDischarge
    <3> QED
      BY <1>2, <3>1 DEF Proved
  <2> HIDE DEF out
  <2>3. out.ok = FALSE /\ out.keys = {}
    BY <2>1 DEF Outcome
  <2> QED
    BY <2>2, <2>3 DEF out, SoundKeys
<1>3. CASE cav.kind = "thirdParty" /\ ds # {}
  <2> DEFINE d == CHOOSE d \in ds : TRUE
             first == DischargeVerify(d, cav.key, cache)
  <2>1. out = InTurn(val, first, d.caveats)
    BY <1>3 DEF ThirdParty
  <2>2. d \in c.discharges /\ d.id = ThirdPartyId(cav)
    BY <1>3
  <2> HIDE DEF d
  <2>3. IsDischarge(d) /\ d.caveats \in Seq(Caveat)
    BY <2>2, AuthorizationAssumption DEF IsDischarge
  <2>4. \A e \in c.discharges : e = MintDischarge(cav.key, cav, e.caveats) => e = d
    <3>1. \A e \in c.discharges : e = MintDischarge(cav.key, cav, e.caveats) => e.id = ThirdPartyId(cav)
      BY DEF MintDischarge
    <3> QED
      BY <3>1, <2>2, AuthorizationAssumption
  <2>5. (first.ok <=> d = MintDischarge(cav.key, cav, d.caveats)) /\ SoundKeys(first.keys)
    BY <2>2, <2>3, DischargeRight
  <2> HIDE DEF first
  <2>6. /\ out.ok <=> first.ok /\ \A i \in DOMAIN d.caveats : d.caveats[i] \in H
        /\ SoundKeys(out.keys)
    BY <2>1, <2>3, <2>5, InTurnRight
  <2>7. cav \in Proved(c, R, H) <=> /\ d = MintDischarge(cav.key, cav, d.caveats)
                                   /\ \A i \in DOMAIN d.caveats : d.caveats[i] \in H
    BY <1>3, <2>2, <2>4 DEF Proved
  <2> QED
    BY <2>5, <2>6, <2>7 DEF out
<1> QED
  BY <1>1, <1>2, <1>3

(* caveatRegistry.validate. *)
LEMMA ValidatorsRight ==
    ASSUME NEW c \in Call, NEW R, NEW cache, SoundKeys(cache)
    PROVE  Right(Validators(c, R, cache), Holds(c, R))
BY FirstPartyRight, ThirdPartyRight DEF Validators, Holds

(* More roots recognize more names, and more caveats hold. *)
LEMMA MoreRoots ==
    ASSUME NEW c, NEW R, NEW R2, R \subseteq R2
    PROVE  Holds(c, R) \subseteq Holds(c, R2) /\ Proper(c, R) \subseteq Proper(c, R2)
<1>1. \A chain : Recognized(R, chain) => Recognized(R2, chain)
  BY DEF Recognized
<1>2. BlessingNames(c.localKey, c.localBlessings, R) \subseteq BlessingNames(c.localKey, c.localBlessings, R2)
  BY <1>1 DEF BlessingNames
<1>3. \A p : MatchedBy(p, BlessingNames(c.localKey, c.localBlessings, R))
              => MatchedBy(p, BlessingNames(c.localKey, c.localBlessings, R2))
  BY <1>2 DEF MatchedBy
<1>4. ASSUME NEW cav, Met(c, R, cav) PROVE Met(c, R2, cav)
  BY <1>3, <1>4 DEF Met
<1>5. ASSUME NEW H, NEW H2, H \subseteq H2 PROVE Proved(c, R, H) \subseteq Proved(c, R2, H2)
  BY <1>4, <1>5 DEF Proved
<1>6. Holds(c, R) \subseteq Holds(c, R2)
  <2>1. {cav \in Caveat : Met(c, R, cav)} \subseteq {cav \in Caveat : Met(c, R2, cav)}
    BY <1>4
  <2> QED
    BY <2>1, <1>5 DEF Holds
<1> QED
  BY <1>1, <1>6 DEF Proper
-----------------------------------------------------------------------------
(* What RemoteBlessingNames knows at each of its points. *)

Good(c, R, k) ==
    /\ ~IsNameless(c.chains) /\ Recognized(R, c.chains[k])
    /\ \A i \in DOMAIN ChainCaveats(c.chains[k]) : ChainCaveats(c.chains[k])[i] \in Holds(c, R)

(* The first n chains are done with, but for the ones that are pending. *)
Listed(g, n) ==
    /\ names[g] \subseteq Proper(call[g], roots)
    /\ \A j \in DOMAIN pending[g] : /\ pending[g][j] \in 1..n
                                  /\ Recognized(roots, Chains(g)[pending[g][j]])
                                  /\ ChainCaveats(Chains(g)[pending[g][j]]) # <<>>
    /\ \A k \in 1..n : Good(call[g], rootsBefore[g], k) =>
                          ClaimedName(Chains(g)[k]) \in names[g] \/ k \in Range(pending[g])

(* Caveat n of chain k is to be validated, and those before it hold. *)
Upto(c, R, k, n) ==
    /\ n \in DOMAIN ChainCaveats(c.chains[k])
    /\ \A i \in 1..n - 1 : ChainCaveats(c.chains[k])[i] \in Holds(c, R)

Going(g) == pending[g] # <<>> => Upto(call[g], roots, Head(pending[g]), cv[g])

Validating == {"verify", "cache", "recognize", "caveats", "discharge"}

NamesOf(g) ==
    /\ rootsBefore[g] \subseteq roots
    /\ pc[g] \in Validating => result[g] = "none" /\ ~Anonymous(Chains(g))
    /\ pc[g] \in {"verify", "cache"} => names[g] = {} /\ pending[g] = <<>>
    /\ pc[g] = "recognize" => ci[g] \in 1..Len(Chains(g)) /\ Listed(g, ci[g] - 1)
    /\ pc[g] \in {"caveats", "discharge"} => Listed(g, Len(Chains(g))) /\ Going(g)
    /\ pc[g] = "caveats" => pending[g] # <<>>
    /\ pc[g] = "discharge" => SoundKeys(verified[g])
    /\ HasNames(g) => /\ Proper(call[g], rootsBefore[g]) \subseteq names[g]
                      /\ names[g] \subseteq Proper(call[g], roots)

NamesTyped ==
    /\ DOMAIN names = G /\ DOMAIN rootsBefore = G
    /\ pending \in [G -> Seq(Nat)] /\ cv \in [G -> Nat] /\ DOMAIN verified = G

NamesInv == ChainInv /\ DischargesSound /\ NamesTyped /\ \A g \in G : NamesOf(g)

LEMMA InitNames == Init => NamesInv
<1> SUFFICES ASSUME Init PROVE NamesInv
  OBVIOUS
<1>1. ChainInv
  BY InitChainInv
<1>2. DischargesSound /\ NamesTyped
  <2>1. <<>> \in Seq(Nat)
    OBVIOUS
  <2> QED
    BY <2>1 DEF Init, DischargesSound, NamesTyped
<1>3. ASSUME NEW g \in G PROVE NamesOf(g)
  BY DEF Init, NamesOf, HasNames, Validating
<1> QED
  BY <1>1, <1>2, <1>3 DEF NamesInv

(* A goroutine that is not concerned, while roots may be added. *)
LEMMA NamesKept ==
    ASSUME NEW h \in G, NamesOf(h), roots \subseteq roots',
           pc'[h] = pc[h], result'[h] = result[h], call'[h] = call[h], ci'[h] = ci[h],
           names'[h] = names[h], pending'[h] = pending[h], rootsBefore'[h] = rootsBefore[h],
           cv'[h] = cv[h], verified'[h] = verified[h]
    PROVE  NamesOf(h)'
<1>1. Chains(h)' = Chains(h) /\ (HasNames(h)' <=> HasNames(h)) /\ (Anonymous(Chains(h))' <=> Anonymous(Chains(h)))
  BY DEF Chains, HasNames, Anonymous
<1>2. Proper(call[h], roots) \subseteq Proper(call[h], roots')
  BY MoreRoots
<1>3. \A chain : Recognized(roots, chain) => Recognized(roots', chain)
  BY DEF Recognized
<1>4. ASSUME NEW n, Listed(h, n) PROVE Listed(h, n)'
  BY <1>1, <1>2, <1>3, <1>4 DEF Listed
<1>5. rootsBefore'[h] \subseteq roots'
  BY DEF NamesOf
<1>6. pc'[h] = "recognize" => ci'[h] \in 1..Len(Chains(h)') /\ Listed(h, ci[h] - 1)'
  BY <1>1, <1>4 DEF NamesOf
<1>7. Going(h) => Going(h)'
  <2>1. Holds(call[h], roots) \subseteq Holds(call[h], roots')
    BY MoreRoots
  <2> QED
    BY <2>1 DEF Going, Upto
<1>8. pc'[h] \in {"caveats", "discharge"} => Listed(h, Len(Chains(h)))' /\ Going(h)'
  BY <1>1, <1>4, <1>7 DEF NamesOf
<1> QED
  BY <1>1, <1>2, <1>5, <1>6, <1>8 DEF NamesOf

(* What the steps of a goroutine have in common. *)
LEMMA NamesStep ==
    ASSUME NamesInv, ChainInv', NEW g \in G, roots' = roots, DischargesSound', NamesTyped', NamesOf(g)',
           \A h \in G \ {g} : /\ pc'[h] = pc[h] /\ result'[h] = result[h] /\ call'[h] = call[h] /\ ci'[h] = ci[h]
                               /\ names'[h] = names[h] /\ pending'[h] = pending[h]
                               /\ rootsBefore'[h] = rootsBefore[h]
                               /\ cv'[h] = cv[h] /\ verified'[h] = verified[h]
    PROVE  NamesInv'
<1>1. ASSUME NEW h \in G \ {g} PROVE NamesOf(h)'
  BY NamesKept DEF NamesInv
<1> QED
  BY <1>1 DEF NamesInv

LEMMA AnonymousHasNone ==
    ASSUME NEW c, NEW R, Anonymous(c.chains)
    PROVE  Proper(c, R) = {}
BY DEF Anonymous, Proper

LEMMA ReceiveNames ==
    ASSUME NamesInv, NEW g \in G, NEW c \in Call, Receive(g, c)
    PROVE  NamesInv'
<1>1. ChainInv' /\ Typed
  BY ReceiveInv DEF NamesInv, ChainInv
<1>2. /\ call' = [call EXCEPT ![g] = c] /\ names' = [names EXCEPT ![g] = {}]
      /\ pending' = [pending EXCEPT ![g] = <<>>] /\ rootsBefore' = [rootsBefore EXCEPT ![g] = roots]
      /\ roots' = roots /\ dischargeSignatureCache' = dischargeSignatureCache
      /\ cv' = cv /\ verified' = verified
      /\ \A h \in G \ {g} : pc'[h] = pc[h] /\ result'[h] = result[h] /\ ci'[h] = ci[h]
  BY <1>1 DEF Receive, Return, caches, validating, Typed
<1>3. \/ Anonymous(c.chains) /\ pc'[g] = "authorize" /\ result'[g] = "none"
      \/ ~Anonymous(c.chains) /\ pc'[g] = "verify" /\ result'[g] = "none"
      \/ pc'[g] = "idle" /\ result'[g] = "invalid"
  BY <1>1 DEF Receive, Return, Anonymous, Unnamed, Typed
<1>4. /\ call'[g] = c /\ names'[g] = {} /\ pending'[g] = <<>> /\ rootsBefore'[g] = roots
      /\ Chains(g)' = c.chains
  BY <1>1, <1>2 DEF NamesInv, NamesTyped, Typed, Chains
<1>5. NamesTyped' /\ DischargesSound'
  <2>1. <<>> \in Seq(Nat)
    OBVIOUS
  <2> QED
    BY <2>1, <1>2 DEF NamesInv, NamesTyped, DischargesSound
<1>6. NamesOf(g)'
  <2>1. CASE Anonymous(c.chains) /\ pc'[g] = "authorize" /\ result'[g] = "none"
    <3>1. Proper(c, roots) = {}
      BY <2>1, AnonymousHasNone
    <3> QED
      BY <2>1, <3>1, <1>2, <1>4 DEF NamesOf, HasNames, Validating
  <2>2. CASE ~Anonymous(c.chains) /\ pc'[g] = "verify" /\ result'[g] = "none"
    BY <2>2, <1>2, <1>4 DEF NamesOf, HasNames, Validating
  <2>3. CASE pc'[g] = "idle" /\ result'[g] = "invalid"
    BY <2>3, <1>2, <1>4 DEF NamesOf, HasNames, Validating
  <2> QED
    BY <2>1, <2>2, <2>3, <1>3
<1>7. \A h \in G \ {g} : /\ call'[h] = call[h] /\ names'[h] = names[h] /\ pending'[h] = pending[h]
                          /\ rootsBefore'[h] = rootsBefore[h]
  BY <1>1, <1>2 DEF NamesInv, NamesTyped, Typed
<1> QED
  BY <1>1, <1>2, <1>5, <1>6, <1>7, NamesStep

(* While chains are verified there are no names. *)
LEMMA VerifyNames ==
    ASSUME NamesInv, NEW g \in G, VerifyCert(g) \/ CacheChain(g)
    PROVE  NamesInv'
<1>1. ChainInv' /\ Typed /\ AtChain(g) /\ pc[g] \in {"verify", "cache"}
  BY VerifyCertInv, CacheChainInv DEF NamesInv, ChainInv, Progress, VerifyCert, CacheChain
<1>2. UNCHANGED <<dischargeSignatureCache, roots, call, names, pending, rootsBefore, cv, verified>>
  BY DEF VerifyCert, CacheChain, caches, validating
<1>3. \A h \in G \ {g} : pc'[h] = pc[h] /\ result'[h] = result[h] /\ ci'[h] = ci[h]
  BY <1>1 DEF VerifyCert, CacheChain, StartChain, Goto, Return, Typed
<1>4. \/ pc'[g] \in {"verify", "cache"} /\ result'[g] = result[g]
      \/ pc'[g] = "idle" /\ result'[g] = "invalid"
      \/ pc'[g] = "recognize" /\ ci'[g] = 1 /\ result'[g] = result[g]
  BY <1>1 DEF VerifyCert, CacheChain, StartChain, Goto, Return, Typed
<1>5. /\ rootsBefore[g] \subseteq roots /\ result[g] = "none" /\ ~Anonymous(Chains(g))
      /\ names[g] = {} /\ pending[g] = <<>>
  BY <1>1 DEF NamesInv, NamesOf, Validating
<1>6. Chains(g)' = Chains(g) /\ 1 \in 1..Len(Chains(g))
  <2>1. Len(Chains(g)) \in Nat /\ ci[g] \in 1..Len(Chains(g))
    BY <1>1, ChainTypes DEF AtChain
  <2> QED
    BY <2>1, <1>2 DEF Chains
<1>7. NamesOf(g)'
  <2>1. CASE pc'[g] = "recognize" /\ ci'[g] = 1 /\ result'[g] = result[g]
    <3>1. 1..1 - 1 = {} /\ DOMAIN <<>> = {}
      OBVIOUS
    <3>2. Listed(g, ci[g] - 1)'
      BY <2>1, <3>1, <1>2, <1>5 DEF Listed
    <3> QED
      BY <2>1, <3>2, <1>2, <1>5, <1>6 DEF NamesOf, HasNames, Validating
  <2>2. CASE pc'[g] \in {"verify", "cache"} /\ result'[g] = result[g]
    BY <2>2, <1>2, <1>5, <1>6 DEF NamesOf, HasNames, Validating
  <2>3. CASE pc'[g] = "idle" /\ result'[g] = "invalid"
    BY <2>3, <1>2, <1>5, <1>6 DEF NamesOf, HasNames, Validating
  <2> QED
    BY <2>1, <2>2, <2>3, <1>4
<1>8. NamesTyped' /\ DischargesSound'
  BY <1>2 DEF NamesInv, NamesTyped, DischargesSound
<1> QED
  BY <1>1, <1>2, <1>3, <1>7, <1>8, NamesStep

(* All chains are done with: every name they prove is listed. *)
LEMMA AllListed ==
    ASSUME NEW c, c.chains \in Seq(Seq(Certificate)), NEW R, NEW N,
           \A k \in 1..Len(c.chains) : Good(c, R, k) => ClaimedName(c.chains[k]) \in N
    PROVE  Proper(c, R) \subseteq N
<1>1. DOMAIN c.chains = 1..Len(c.chains)
  OBVIOUS
<1> QED
  BY <1>1 DEF Proper, Good

LEMMA RangeAppend ==
    ASSUME NEW s \in Seq(Nat), NEW x \in Nat
    PROVE  /\ Append(s, x) \in Seq(Nat) /\ Range(Append(s, x)) = Range(s) \cup {x}
           /\ \A j \in DOMAIN Append(s, x) : Append(s, x)[j] = x \/ \E i \in DOMAIN s : Append(s, x)[j] = s[i]
<1> DEFINE u == Append(s, x)
<1>1. /\ Len(s) \in Nat /\ DOMAIN s = 1..Len(s) /\ u \in Seq(Nat) /\ DOMAIN u = 1..Len(s) + 1
      /\ \A j \in 1..Len(s) : u[j] = s[j]
      /\ u[Len(s) + 1] = x
  OBVIOUS
<1> HIDE DEF u
<1>2. \A j \in 1..Len(s) + 1 : j \in 1..Len(s) \/ j = Len(s) + 1
  BY <1>1
<1>3. 1..Len(s) \subseteq 1..Len(s) + 1 /\ Len(s) + 1 \in 1..Len(s) + 1
  BY <1>1
<1>4. \A j \in DOMAIN u : u[j] = x \/ \E i \in DOMAIN s : u[j] = s[i]
  BY <1>1, <1>2
<1>5. Range(u) = Range(s) \cup {x}
  BY <1>1, <1>2, <1>3 DEF Range
<1> QED
  BY <1>1, <1>4, <1>5 DEF u

LEMMA PendingTail ==
    ASSUME NEW s \in Seq(Nat), s # <<>>
    PROVE  /\ Tail(s) \in Seq(Nat) /\ 1 \in DOMAIN s /\ Head(s) = s[1]
           /\ Range(s) \subseteq {Head(s)} \cup Range(Tail(s))
           /\ \A j \in DOMAIN Tail(s) : \E i \in DOMAIN s : Tail(s)[j] = s[i]
           /\ Len(s) = 1 <=> Tail(s) = <<>>
<1> DEFINE u == Tail(s)
<1>1. /\ Len(s) \in Nat \ {0} /\ DOMAIN s = 1..Len(s) /\ Head(s) = s[1]
      /\ u \in Seq(Nat) /\ Len(u) = Len(s) - 1 /\ DOMAIN u = 1..Len(s) - 1
      /\ \A j \in 1..Len(s) - 1 : u[j] = s[j + 1]
  OBVIOUS
<1> HIDE DEF u
<1>2. \A j \in 1..Len(s) - 1 : j + 1 \in 1..Len(s)
  BY <1>1
<1>3. \A j \in DOMAIN u : \E i \in DOMAIN s : u[j] = s[i]
  BY <1>1, <1>2
<1>4. ASSUME NEW x \in Range(s) PROVE x \in {Head(s)} \cup Range(u)
  <2>1. PICK i \in 1..Len(s) : x = s[i]
    BY <1>1 DEF Range
  <2>2. i = 1 \/ (i - 1 \in 1..Len(s) - 1 /\ (i - 1) + 1 = i)
    BY <1>1
  <2>3. i = 1 \/ u[i - 1] = x
    BY <2>1, <2>2, <1>1
  <2> QED
    BY <2>1, <2>2, <2>3, <1>1 DEF Range
<1>5. Len(s) = 1 <=> u = <<>>
  <2>1. \A v \in Seq(Nat) : v = <<>> <=> Len(v) = 0
    OBVIOUS
  <2>2. \A a \in Nat \ {0} : a - 1 = 0 <=> a = 1
    OBVIOUS
  <2> QED
    BY <2>1, <2>2, <1>1
<1>6. 1 \in DOMAIN s
  BY <1>1
<1> QED
  BY <1>1, <1>3, <1>4, <1>5, <1>6 DEF u

LEMMA FirstCaveat ==
    ASSUME NEW c \in Call, NEW R, NEW s \in Seq(Nat), s # <<>>,
           \A j \in DOMAIN s : s[j] \in 1..Len(c.chains) /\ ChainCaveats(c.chains[s[j]]) # <<>>
    PROVE  Upto(c, R, Head(s), 1)
<1> DEFINE k == Head(s)
           cavs == ChainCaveats(c.chains[k])
<1>1. k \in 1..Len(c.chains) /\ cavs # <<>>
  BY PendingTail
<1> HIDE DEF k
<1>2. c.chains \in Seq(Seq(Certificate))
  BY AuthorizationAssumption
<1>3. k \in DOMAIN c.chains
  BY <1>1, <1>2
<1>4. cavs \in Seq(Caveat)
  BY <1>3, AuthorizationAssumption
<1> HIDE DEF cavs
<1>5. 1 \in DOMAIN cavs /\ 1..1 - 1 = {}
  BY <1>1, <1>4
<1> QED
  BY <1>5 DEF Upto, cavs, k

(* A chain is recognized or not; its name is listed, or its caveats wait. *)
LEMMA RecognizeNames ==
    ASSUME NamesInv, NEW g \in G, Recognize(g)
    PROVE  NamesInv'
<1>0. PICK n \in Nat : n = ci[g]
  BY DEF NamesInv, ChainInv, Typed
<1> DEFINE chain == Chain(g)
           ok == Recognized(roots, chain)
           free == ChainCaveats(chain) = <<>>
           todo == IF ok /\ ~free THEN Append(pending[g], n) ELSE pending[g]
           named == IF ok /\ free THEN names[g] \cup {ClaimedName(chain)} ELSE names[g]
<1>1. ChainInv' /\ Typed
  BY LaterInv DEF NamesInv, ChainInv
<1>2. /\ pc[g] = "recognize" /\ UNCHANGED <<dischargeSignatureCache, roots, call, rootsBefore, verified>>
      /\ cv' = [cv EXCEPT ![g] = 1]
      /\ names' = [names EXCEPT ![g] = named] /\ pending' = [pending EXCEPT ![g] = todo]
      /\ \/ n < Len(Chains(g)) /\ ci' = [ci EXCEPT ![g] = n + 1] /\ UNCHANGED <<pc, result>>
         \/ /\ ~(n < Len(Chains(g))) /\ UNCHANGED <<ci, result>>
            /\ pc' = [pc EXCEPT ![g] = IF todo = <<>> THEN "authorize" ELSE "caveats"]
  BY <1>0 DEF Recognize, Goto, AfterCaveats, caches, NamesInv, NamesTyped
<1>3. /\ rootsBefore[g] \subseteq roots /\ result[g] = "none" /\ ~Anonymous(Chains(g))
      /\ n \in 1..Len(Chains(g)) /\ Listed(g, n - 1)
  BY <1>0, <1>2 DEF NamesInv, NamesOf, Validating
<1>4. /\ Chains(g) \in Seq(Seq(Certificate)) /\ Len(Chains(g)) \in Nat /\ n \in Nat
      /\ chain = Chains(g)[n] /\ Chains(g) = call[g].chains /\ DOMAIN call[g].chains = 1..Len(Chains(g))
  BY <1>0, <1>1, <1>3, ChainTypes DEF Chain, Chains
<1>5. pending[g] \in Seq(Nat)
  BY DEF NamesInv, NamesTyped
<1>6. /\ todo \in Seq(Nat)
      /\ \A j \in DOMAIN todo : (todo[j] = n /\ ok /\ ~free) \/ \E i \in DOMAIN pending[g] : todo[j] = pending[g][i]
      /\ Range(pending[g]) \subseteq Range(todo)
      /\ ok /\ ~free => n \in Range(todo)
  BY <1>4, <1>5, RangeAppend
<1>7. named \subseteq Proper(call[g], roots)
  <2>1. names[g] \subseteq Proper(call[g], roots)
    BY <1>3 DEF Listed
  <2>2. ok /\ free => ClaimedName(chain) \in Proper(call[g], roots)
    <3>1. ~IsNameless(call[g].chains)
      BY <1>3, <1>4 DEF Anonymous
    <3>2. free => DOMAIN ChainCaveats(chain) = {}
      OBVIOUS
    <3> QED
      BY <3>1, <3>2, <1>3, <1>4 DEF Proper
  <2> QED
    BY <2>1, <2>2
<1> HIDE DEF todo, named
<1>8. /\ names'[g] = named /\ pending'[g] = todo /\ Chains(g)' = Chains(g) /\ call'[g] = call[g]
      /\ rootsBefore'[g] = rootsBefore[g]
  BY <1>2 DEF NamesInv, NamesTyped, Chains
<1>9. ASSUME NEW k \in 1..n, Good(call[g], rootsBefore[g], k)
      PROVE  ClaimedName(Chains(g)[k]) \in named \/ k \in Range(todo)
  <2>1. CASE k = n
    <3>1. Recognized(rootsBefore[g], chain)
      BY <2>1, <1>4, <1>9 DEF Good
    <3>2. ok
      BY <3>1, <1>3 DEF Recognized
    <3> QED
      BY <2>1, <3>2, <1>4, <1>6 DEF named
  <2>2. CASE k # n
    <3>1. k \in 1..n - 1
      BY <2>2, <1>4
    <3>2. ClaimedName(Chains(g)[k]) \in names[g] \/ k \in Range(pending[g])
      BY <3>1, <1>3, <1>9 DEF Listed
    <3> QED
      BY <3>2, <1>6 DEF named
  <2> QED
    BY <2>1, <2>2
<1>10. Listed(g, n)'
  <2>1. ASSUME NEW j \in DOMAIN todo
        PROVE  /\ todo[j] \in 1..n /\ Recognized(roots, Chains(g)[todo[j]])
               /\ ChainCaveats(Chains(g)[todo[j]]) # <<>>
    <3>1. CASE todo[j] = n /\ ok /\ ~free
      BY <3>1, <1>3, <1>4
    <3>2. CASE \E i \in DOMAIN pending[g] : todo[j] = pending[g][i]
      <4>1. /\ todo[j] \in 1..n - 1 /\ Recognized(roots, Chains(g)[todo[j]])
            /\ ChainCaveats(Chains(g)[todo[j]]) # <<>>
        BY <3>2, <1>3 DEF Listed
      <4> QED
        BY <4>1, <1>4
    <3> QED
      BY <3>1, <3>2, <1>6
  <2>2. \A k \in 1..n : Good(call[g], rootsBefore[g], k) => ClaimedName(Chains(g)[k]) \in named \/ k \in Range(todo)
    BY <1>9
  <2> QED
    BY <2>1, <2>2, <1>2, <1>7, <1>8 DEF Listed
<1>11. NamesOf(g)'
  <2>1. CASE n < Len(Chains(g)) /\ ci' = [ci EXCEPT ![g] = n + 1] /\ UNCHANGED <<pc, result>>
    <3>1. ci'[g] = n + 1 /\ ci'[g] \in 1..Len(Chains(g)) /\ ci'[g] - 1 = n
      BY <2>1, <1>1, <1>4 DEF Typed
    <3>2. Listed(g, ci[g] - 1)'
      BY <3>1, <1>10
    <3> QED
      BY <2>1, <3>1, <3>2, <1>2, <1>3, <1>8 DEF NamesOf, HasNames, Validating
  <2>2. CASE /\ ~(n < Len(Chains(g))) /\ UNCHANGED <<ci, result>>
             /\ pc' = [pc EXCEPT ![g] = IF todo = <<>> THEN "authorize" ELSE "caveats"]
    <3>1. n = Len(Chains(g)) /\ pc'[g] = IF todo = <<>> THEN "authorize" ELSE "caveats"
      BY <2>2, <1>1, <1>3, <1>4 DEF Typed
    <3>2. Listed(g, Len(Chains(g)))'
      BY <3>1, <1>8, <1>10
    <3>3. CASE todo = <<>>
      <4>1. /\ Proper(call'[g], rootsBefore'[g]) \subseteq names'[g]
            /\ names'[g] \subseteq Proper(call'[g], roots')
        <5>1. Range(<<>>) = {}
          BY DEF Range
        <5>2. \A k \in 1..Len(Chains(g)) : Good(call[g], rootsBefore[g], k) => ClaimedName(Chains(g)[k]) \in named
          BY <5>1, <3>1, <3>3, <1>9
        <5>3. Proper(call[g], rootsBefore[g]) \subseteq named
          BY <5>2, <1>4, AllListed
        <5> QED
          BY <5>3, <1>2, <1>7, <1>8
      <4> QED
        BY <4>1, <3>1, <3>3, <1>2, <1>3, <1>8 DEF NamesOf, Validating
    <3>4. CASE todo # <<>>
      <4>1. Upto(call[g], roots, Head(todo), 1)
        <5>1. \A j \in DOMAIN todo : /\ todo[j] \in 1..Len(call[g].chains)
                                    /\ ChainCaveats(call[g].chains[todo[j]]) # <<>>
          BY <3>1, <1>4, <1>8, <1>10 DEF Listed
        <5> QED
          BY <5>1, <3>4, <1>1, <1>6, FirstCaveat DEF Typed
      <4>2. cv'[g] = 1
        BY <1>2 DEF NamesInv, NamesTyped
      <4>3. Going(g)'
        BY <4>1, <4>2, <1>2, <1>8 DEF Going
      <4> QED
        BY <4>3, <3>1, <3>2, <3>4, <2>2, <1>2, <1>3, <1>8 DEF NamesOf, HasNames, Validating
    <3> QED
      BY <3>3, <3>4
  <2> QED
    BY <2>1, <2>2, <1>2
<1>12. NamesTyped' /\ DischargesSound'
  BY <1>2, <1>6 DEF NamesInv, NamesTyped, DischargesSound
<1>13. \A h \in G \ {g} : /\ pc'[h] = pc[h] /\ result'[h] = result[h] /\ ci'[h] = ci[h] /\ call'[h] = call[h]
                           /\ names'[h] = names[h] /\ pending'[h] = pending[h] /\ rootsBefore'[h] = rootsBefore[h]
                           /\ cv'[h] = cv[h] /\ verified'[h] = verified[h]
  BY <1>1, <1>2 DEF NamesInv, NamesTyped, Typed
<1> QED
  BY <1>1, <1>2, <1>11, <1>12, <1>13, NamesStep

(* A caveat of a pending chain is validated. *)
LEMMA CaveatNames ==
    ASSUME NamesInv, NEW g \in G, ValidateCaveats(g)
    PROVE  NamesInv'
<1>0. PICK n \in Nat : n = cv[g]
  BY DEF NamesInv, NamesTyped
<1> DEFINE k == Head(pending[g])
           chain == Chains(g)[k]
           cavs == ChainCaveats(chain)
           out == Validators(call[g], roots, dischargeSignatureCache)[cavs[n]]
           over == ~out.ok \/ n >= Len(cavs)
           named == IF out.ok /\ over THEN names[g] \cup {ClaimedName(chain)} ELSE names[g]
           todo == IF over THEN Tail(pending[g]) ELSE pending[g]
           next == IF over THEN 1 ELSE n + 1
           place == IF out.keys # {} THEN "discharge" ELSE IF todo = <<>> THEN "authorize" ELSE "caveats"
<1>1. ChainInv' /\ Typed
  BY LaterInv DEF NamesInv, ChainInv
<1>2. /\ pc[g] = "caveats" /\ UNCHANGED <<dischargeSignatureCache, roots, call, ci, rootsBefore, result>>
      /\ names' = [names EXCEPT ![g] = named] /\ pending' = [pending EXCEPT ![g] = todo]
      /\ cv' = [cv EXCEPT ![g] = next] /\ verified' = [verified EXCEPT ![g] = out.keys]
      /\ pc' = [pc EXCEPT ![g] = place]
  BY <1>0 DEF ValidateCaveats, CheckCaveat, Waiting, AfterCaveats, Goto, caches, NamesInv, NamesTyped
<1>3. /\ rootsBefore[g] \subseteq roots /\ result[g] = "none" /\ ~Anonymous(Chains(g))
      /\ pending[g] # <<>> /\ Listed(g, Len(Chains(g))) /\ Upto(call[g], roots, k, n)
  BY <1>0, <1>2 DEF NamesInv, NamesOf, Validating, Going
<1>4. /\ Chains(g) \in Seq(Seq(Certificate)) /\ Len(Chains(g)) \in Nat
      /\ Chains(g) = call[g].chains /\ DOMAIN call[g].chains = 1..Len(Chains(g)) /\ call[g] \in Call
  BY <1>1, <1>3, ChainTypes DEF Chains, Typed
<1>5. /\ pending[g] \in Seq(Nat) /\ Tail(pending[g]) \in Seq(Nat)
      /\ 1 \in DOMAIN pending[g] /\ k = pending[g][1]
      /\ Range(pending[g]) \subseteq {k} \cup Range(Tail(pending[g]))
      /\ \A j \in DOMAIN Tail(pending[g]) : \E i \in DOMAIN pending[g] : Tail(pending[g])[j] = pending[g][i]
  <2>1. pending[g] \in Seq(Nat)
    BY DEF NamesInv, NamesTyped
  <2> QED
    BY <2>1, <1>3, PendingTail
<1> HIDE DEF k
<1>6. k \in 1..Len(Chains(g)) /\ Recognized(roots, chain)
  BY <1>3, <1>5 DEF Listed
<1>7. cavs \in Seq(Caveat)
  BY <1>4, <1>6, AuthorizationAssumption
<1>8. /\ n \in DOMAIN cavs /\ \A i \in 1..n - 1 : cavs[i] \in Holds(call[g], roots)
  BY <1>3, <1>4 DEF Upto
<1> HIDE DEF cavs
<1>9. Len(cavs) \in Nat /\ DOMAIN cavs = 1..Len(cavs) /\ n \in 1..Len(cavs) /\ cavs[n] \in Caveat
  BY <1>7, <1>8
<1>10. (out.ok <=> cavs[n] \in Holds(call[g], roots)) /\ SoundKeys(out.keys)
  <2>1. SoundKeys(dischargeSignatureCache)
    BY DEF NamesInv, DischargesSound, SoundKeys
  <2>2. Right(Validators(call[g], roots, dischargeSignatureCache), Holds(call[g], roots))
    BY <2>1, <1>4, ValidatorsRight
  <2> QED
    BY <2>2, <1>9 DEF Right
<1> HIDE DEF out
<1>11. out.ok => \A i \in 1..n : cavs[i] \in Holds(call[g], roots)
  <2>1. \A i \in 1..n : i = n \/ i \in 1..n - 1
    BY <1>9
  <2> QED
    BY <2>1, <1>8, <1>10
<1>12. named \subseteq Proper(call[g], roots)
  <2>1. names[g] \subseteq Proper(call[g], roots)
    BY <1>3 DEF Listed
  <2>2. ASSUME out.ok, over PROVE ClaimedName(chain) \in Proper(call[g], roots)
    <3>1. n = Len(cavs)
      <4> DEFINE l == Len(cavs)
      <4>1. n >= l
        BY <2>2
      <4>2. l \in Nat /\ n \in 1..l
        BY <1>9
      <4> HIDE DEF l
      <4>3. n = l
        BY <4>1, <4>2
      <4> QED
        BY <4>3 DEF l
    <3>2. \A i \in DOMAIN cavs : cavs[i] \in Holds(call[g], roots)
      BY <2>2, <3>1, <1>9, <1>11
    <3>3. ~IsNameless(call[g].chains)
      BY <1>3, <1>4 DEF Anonymous
    <3> QED
      BY <3>2, <3>3, <1>4, <1>6 DEF Proper, cavs
  <2> QED
    BY <2>1, <2>2
<1>13. over /\ Good(call[g], rootsBefore[g], k) => ClaimedName(chain) \in named
  <2>1. Holds(call[g], rootsBefore[g]) \subseteq Holds(call[g], roots)
    BY <1>3, MoreRoots
  <2>2. Good(call[g], rootsBefore[g], k) => cavs[n] \in Holds(call[g], rootsBefore[g])
    BY <1>4, <1>8 DEF Good, cavs
  <2> QED
    BY <2>1, <2>2, <1>10
<1>14. /\ todo \in Seq(Nat)
       /\ Range(pending[g]) \subseteq Range(todo) \cup (IF over THEN {k} ELSE {})
       /\ \A j \in DOMAIN todo : \E i \in DOMAIN pending[g] : todo[j] = pending[g][i]
  BY <1>5
<1>15. names[g] \subseteq named
  OBVIOUS
<1> HIDE DEF named, todo
<1>16. /\ names'[g] = named /\ pending'[g] = todo /\ Chains(g)' = Chains(g) /\ call'[g] = call[g]
       /\ rootsBefore'[g] = rootsBefore[g] /\ pc'[g] = place /\ result'[g] = "none"
       /\ cv'[g] = next /\ verified'[g] = out.keys
  BY <1>1, <1>2, <1>3 DEF NamesInv, NamesTyped, Chains, Typed
<1>17. \A j \in DOMAIN todo : /\ todo[j] \in 1..Len(Chains(g)) /\ Recognized(roots, Chains(g)[todo[j]])
                             /\ ChainCaveats(Chains(g)[todo[j]]) # <<>>
  BY <1>3, <1>14 DEF Listed
<1>18. ASSUME NEW m \in 1..Len(Chains(g)), Good(call[g], rootsBefore[g], m)
       PROVE  ClaimedName(Chains(g)[m]) \in named \/ m \in Range(todo)
  <2>1. ClaimedName(Chains(g)[m]) \in names[g] \/ m \in Range(pending[g])
    BY <1>18, <1>3 DEF Listed
  <2>2. over /\ m = k => ClaimedName(Chains(g)[m]) \in named
    BY <1>18, <1>13
  <2> QED
    BY <2>1, <2>2, <1>14, <1>15
<1>19. Listed(g, Len(Chains(g)))'
  BY <1>2, <1>12, <1>16, <1>17, <1>18 DEF Listed
<1>20. Going(g)'
  <2>1. CASE over
    <3>1. todo # <<>> => Upto(call[g], roots, Head(todo), 1)
      BY <1>4, <1>14, <1>17, FirstCaveat
    <3> QED
      BY <2>1, <3>1, <1>2, <1>16 DEF Going
  <2>2. CASE ~over
    <3>1. out.ok /\ n + 1 \in 1..Len(cavs) /\ (n + 1) - 1 = n
      BY <2>2, <1>9
    <3>2. Upto(call[g], roots, k, n + 1)
      BY <3>1, <1>4, <1>9, <1>11 DEF Upto, cavs
    <3>3. Head(todo) = k
      BY <2>2 DEF todo, k
    <3> QED
      BY <2>2, <3>2, <3>3, <1>2, <1>16 DEF Going
  <2> QED
    BY <2>1, <2>2
<1>21. todo = <<>> => /\ Proper(call[g], rootsBefore[g]) \subseteq named
                      /\ named \subseteq Proper(call[g], roots)
  <2>1. Range(<<>>) = {}
    BY DEF Range
  <2>2. todo = <<>> => \A m \in 1..Len(Chains(g)) : Good(call[g], rootsBefore[g], m) => ClaimedName(Chains(g)[m]) \in named
    BY <2>1, <1>18
  <2> QED
    BY <2>2, <1>4, <1>12, AllListed
<1>22. NamesOf(g)'
  <2> HIDE DEF over, next
  <2>1. CASE place = "authorize"
    <3>1. todo = <<>>
      BY <2>1
    <3> QED
      BY <2>1, <3>1, <1>2, <1>3, <1>16, <1>21 DEF NamesOf, Validating
  <2>2. CASE place = "caveats"
    <3>1. todo # <<>>
      BY <2>2
    <3> QED
      BY <2>2, <3>1, <1>2, <1>3, <1>16, <1>19, <1>20 DEF NamesOf, HasNames, Validating
  <2>3. CASE place = "discharge"
    BY <2>3, <1>2, <1>3, <1>10, <1>16, <1>19, <1>20 DEF NamesOf, HasNames, Validating
  <2> QED
    BY <2>1, <2>2, <2>3
<1>23. NamesTyped' /\ DischargesSound'
  <2>1. next \in Nat
    BY <1>0
  <2> QED
    BY <2>1, <1>2, <1>14 DEF NamesInv, NamesTyped, DischargesSound
<1>24. \A h \in G \ {g} : /\ pc'[h] = pc[h] /\ result'[h] = result[h] /\ ci'[h] = ci[h] /\ call'[h] = call[h]
                           /\ names'[h] = names[h] /\ pending'[h] = pending[h] /\ rootsBefore'[h] = rootsBefore[h]
                           /\ cv'[h] = cv[h] /\ verified'[h] = verified[h]
  BY <1>1, <1>2 DEF NamesInv, NamesTyped, Typed
<1> QED
  BY <1>1, <1>2, <1>22, <1>23, <1>24, NamesStep

(* What was verified for a caveat enters the cache. *)
LEMMA DischargeNames ==
    ASSUME NamesInv, NEW g \in G, CacheDischarges(g)
    PROVE  NamesInv'
<1>1. ChainInv' /\ Typed
  BY LaterInv DEF NamesInv, ChainInv
<1> DEFINE place == IF pending[g] = <<>> THEN "authorize" ELSE "caveats"
<1>2. /\ pc[g] = "discharge" /\ UNCHANGED <<roots, call, ci, names, pending, rootsBefore, result, cv>>
      /\ dischargeSignatureCache' \subseteq dischargeSignatureCache \cup verified[g]
      /\ verified' = [verified EXCEPT ![g] = {}]
      /\ pc' = [pc EXCEPT ![g] = place]
  BY DEF CacheDischarges, AfterCaveats, Goto
<1>3. /\ rootsBefore[g] \subseteq roots /\ result[g] = "none" /\ ~Anonymous(Chains(g))
      /\ Listed(g, Len(Chains(g))) /\ Going(g) /\ SoundKeys(verified[g])
  BY <1>2 DEF NamesInv, NamesOf, Validating
<1>4. Chains(g)' = Chains(g) /\ Chains(g) = call[g].chains /\ Chains(g) \in Seq(Seq(Certificate))
  BY <1>1, <1>2, ChainTypes DEF Chains
<1>5. Listed(g, Len(Chains(g)))' /\ Going(g)'
  BY <1>2, <1>3, <1>4 DEF Listed, Going
<1>6. pc'[g] = place
  BY <1>1, <1>2 DEF Typed
<1>7. NamesOf(g)'
  <2>1. CASE pending[g] = <<>>
    <3>1. Range(<<>>) = {}
      BY DEF Range
    <3>2. \A m \in 1..Len(Chains(g)) : Good(call[g], rootsBefore[g], m) => ClaimedName(Chains(g)[m]) \in names[g]
      BY <2>1, <3>1, <1>3 DEF Listed
    <3>3. Proper(call[g], rootsBefore[g]) \subseteq names[g]
      BY <3>2, <1>4, AllListed
    <3>4. names[g] \subseteq Proper(call[g], roots)
      BY <1>3 DEF Listed
    <3> QED
      BY <2>1, <3>3, <3>4, <1>2, <1>3, <1>6 DEF NamesOf, Validating
  <2>2. CASE pending[g] # <<>>
    BY <2>2, <1>2, <1>3, <1>4, <1>5, <1>6 DEF NamesOf, HasNames, Validating
  <2> QED
    BY <2>1, <2>2
<1>8. NamesTyped' /\ DischargesSound'
  BY <1>2, <1>3 DEF NamesInv, NamesTyped, DischargesSound, SoundKeys
<1>9. \A h \in G \ {g} : pc'[h] = pc[h] /\ verified'[h] = verified[h]
  BY <1>1, <1>2 DEF NamesInv, NamesTyped, Typed
<1> QED
  BY <1>1, <1>2, <1>7, <1>8, <1>9, NamesStep

(* The authorizers look at the names and leave them alone. *)
LEMMA DecisionNames ==
    ASSUME NamesInv, NEW g \in G, Authorize(g) \/ Prune(g) \/ CheckIn(g)
    PROVE  NamesInv'
<1>1. ChainInv' /\ Typed
  BY LaterInv DEF NamesInv, ChainInv
<1>2. /\ UNCHANGED <<dischargeSignatureCache, roots, call, ci, names, pending, rootsBefore, cv, verified>>
      /\ pc[g] \in {"authorize", "prune", "in"}
  BY DEF Authorize, Prune, CheckIn, caches, validating
<1>3. \/ UNCHANGED <<pc, result>>
      \/ \E l \in {"prune", "in"} : Goto(g, l)
      \/ \E r \in Decisions : Return(g, r)
  BY DEF Authorize, Prune, CheckIn, Pass, Decisions
<1>4. /\ \A h \in G \ {g} : pc'[h] = pc[h] /\ result'[h] = result[h]
      /\ pc'[g] \in {"authorize", "prune", "in", "idle"}
  BY <1>1, <1>2, <1>3 DEF Goto, Return, Typed
<1>5. /\ rootsBefore[g] \subseteq roots
      /\ Proper(call[g], rootsBefore[g]) \subseteq names[g] /\ names[g] \subseteq Proper(call[g], roots)
  BY <1>2 DEF NamesInv, NamesOf, HasNames
<1>6. NamesOf(g)'
  BY <1>2, <1>4, <1>5 DEF NamesOf, Validating
<1>7. NamesTyped' /\ DischargesSound'
  BY <1>2 DEF NamesInv, NamesTyped, DischargesSound
<1> QED
  BY <1>1, <1>2, <1>4, <1>6, <1>7, NamesStep

LEMMA NamesInvariant == Spec => []NamesInv
<1>1. ASSUME NamesInv, [Next]_vars, ChainInv' PROVE NamesInv'
  <2>1. ASSUME NEW g \in G, NEW c \in Call, Receive(g, c) PROVE NamesInv'
    BY <1>1, <2>1, ReceiveNames
  <2>2. ASSUME NEW g \in G, VerifyCert(g) \/ CacheChain(g) PROVE NamesInv'
    BY <1>1, <2>2, VerifyNames
  <2>3. ASSUME NEW g \in G, Recognize(g) PROVE NamesInv'
    BY <1>1, <2>3, RecognizeNames
  <2>4. ASSUME NEW g \in G, ValidateCaveats(g) PROVE NamesInv'
    BY <1>1, <2>4, CaveatNames
  <2>9. ASSUME NEW g \in G, CacheDischarges(g) PROVE NamesInv'
    BY <1>1, <2>9, DischargeNames
  <2>5. ASSUME NEW g \in G, Authorize(g) \/ Prune(g) \/ CheckIn(g) PROVE NamesInv'
    BY <1>1, <2>5, DecisionNames
  <2>6. ASSUME roots \subseteq roots',
               UNCHANGED <<dischargeSignatureCache, pc, call, ci, pending, names, rootsBefore, result,
                           cv, verified>>
        PROVE  NamesInv'
    <3>1. ASSUME NEW h \in G PROVE NamesOf(h)'
      BY <1>1, <2>6, NamesKept DEF NamesInv
    <3>2. NamesTyped' /\ DischargesSound'
      BY <1>1, <2>6 DEF NamesInv, NamesTyped, DischargesSound
    <3> QED
      BY <1>1, <3>1, <3>2 DEF NamesInv
  <2>7. ASSUME NEW b \in Introduced, AddToRoots(b) PROVE NamesInv'
    BY <2>6, <2>7 DEF AddToRoots, caches, validating
  <2>8. CASE UNCHANGED vars
    BY <2>6, <2>8 DEF vars, caches, validating
  <2> QED
    BY <1>1, <2>1, <2>2, <2>3, <2>4, <2>9, <2>5, <2>7, <2>8 DEF Next
<1> QED
  BY <1>1, InitNames, ChainInvariant, PTL DEF Spec

(* RemoteBlessingNames, for any calls, caveats, discharges and size of the  *)
(* caches, while goroutines share the caches and roots are added: no name   *)
(* comes out that the roots and the discharges do not prove, none is missed *)
(* that they proved when the call began, and only valid signatures enter    *)
(* the cache of discharges.                                                 *)
THEOREM NamesAreProved == Spec => []NamesExact
<1>1. NamesInv => NamesExact
  BY DEF NamesInv, NamesOf, NamesExact
<1> QED
  BY <1>1, NamesInvariant, PTL
-----------------------------------------------------------------------------
(* Induction over the naturals, for a set: the natural numbers are well     *)
(* ordered, so a smallest counterexample would exist.                       *)
LEMMA NatSetInduction ==
    ASSUME NEW S, 0 \in S, \A n \in Nat : n \in S => n + 1 \in S
    PROVE  Nat \subseteq S
<1> DEFINE T == Nat \ S
           R == {ss \in Nat \X Nat : ss[1] < ss[2]}
<1>1. SUFFICES ASSUME T # {} PROVE FALSE
  OBVIOUS
<1>2. PICK x \in T : \A y \in T : ~(<<y, x>> \in R)
  <2> HIDE DEF R, T
  <2>1. IsWellFoundedOn(R, Nat)
    BY NatLessThanWellFounded DEF R, OpToRel
  <2>2. T \subseteq Nat
    BY DEF T
  <2> QED BY <1>1, <2>1, <2>2, WFMin
<1>3. x # 0 /\ x - 1 \in Nat /\ x - 1 < x
  OBVIOUS
<1>4. <<x - 1, x>> \in R
  BY <1>3
<1>5. x - 1 \in S
  BY <1>2, <1>3, <1>4
<1> QED BY <1>3, <1>5

(* The answers after each component of a pattern, and the last of them. *)
InOrder(f, rel, toks, b) ==
    /\ f[0] = Answer({b}, {})
    /\ \A i \in 1..Len(toks) : f[i] = MatchToken(rel, toks[i], f[i - 1])
    /\ MatchedByBlessing(rel, toks, b) = f[Len(toks)]

LEMMA MatchedInTurn ==
    ASSUME NEW rel, NEW toks, Len(toks) \in Nat, NEW b
    PROVE  \E f : InOrder(f, rel, toks, b)
<1> DEFINE Run(f, n) == f = [i \in 0..n |-> IF i = 0 THEN Answer({b}, {})
                                            ELSE MatchToken(rel, toks[i], f[i - 1])]
           S == {n \in Nat : \E f : Run(f, n)}
<1>1. 0 \in S
  <2>1. Run([i \in 0..0 |-> Answer({b}, {})], 0)
    OBVIOUS
  <2> QED BY <2>1
<1>2. ASSUME NEW n \in Nat, n \in S PROVE n + 1 \in S
  <2>1. PICK f : Run(f, n)
    BY <1>2
  <2> DEFINE h == [i \in 0..n + 1 |-> IF i = n + 1 THEN MatchToken(rel, toks[n + 1], f[n]) ELSE f[i]]
  <2>2. \A i \in 0..n : h[i] = f[i]
    OBVIOUS
  <2>3. \A i \in 0..n + 1 : h[i] = IF i = 0 THEN Answer({b}, {}) ELSE MatchToken(rel, toks[i], h[i - 1])
    <3> SUFFICES ASSUME NEW i \in 0..n + 1
                 PROVE  h[i] = IF i = 0 THEN Answer({b}, {}) ELSE MatchToken(rel, toks[i], h[i - 1])
      OBVIOUS
    <3>1. CASE i = n + 1
      BY <3>1, <2>2
    <3>2. CASE i # n + 1
      <4>1. i \in 0..n /\ (i # 0 => i - 1 \in 0..n)
        BY <3>2
      <4> QED BY <4>1, <2>1, <2>2
    <3> QED BY <3>1, <3>2
  <2>4. Run(h, n + 1)
    BY <2>3
  <2>5. \E k : Run(k, n + 1)
    <3> HIDE DEF h, Run
    <3> QED BY <2>4
  <2> HIDE DEF Run
  <2> QED BY <2>5
<1>3. Len(toks) \in S
  <2> HIDE DEF S
  <2> QED BY <1>1, <1>2, NatSetInduction
<1>4. \E f : Run(f, Len(toks))
  BY <1>3
<1> DEFINE after == CHOOSE f : Run(f, Len(toks))
<1>5. Run(after, Len(toks))
  BY <1>4
<1>6. MatchedByBlessing(rel, toks, b) = after[Len(toks)]
  BY DEF MatchedByBlessing
<1>7. /\ after[0] = Answer({b}, {})
      /\ \A i \in 1..Len(toks) : after[i] = MatchToken(rel, toks[i], after[i - 1])
  <2> HIDE DEF after
  <2>1. \A i \in 0..Len(toks) :
          after[i] = IF i = 0 THEN Answer({b}, {}) ELSE MatchToken(rel, toks[i], after[i - 1])
    BY <1>5
  <2>2. 0 \in 0..Len(toks) /\ \A i \in 1..Len(toks) : i \in 0..Len(toks) /\ i # 0
    OBVIOUS
  <2> QED BY <2>1, <2>2, Zenon
<1> HIDE DEF after
<1>8. InOrder(after, rel, toks, b)
  BY <1>6, <1>7 DEF InOrder
<1> QED BY <1>8
(* The words of the first tokens of a pattern, one token after the other. *)
TokWords(m, tok) == IF tok \in Group THEN m[tok] ELSE {<<tok>>}

LEMMA SpelledInTurn ==
    ASSUME NEW m, NEW p, Len(p.toks) \in Nat
    PROVE  \E f : /\ f = [i \in 0..Len(p.toks) |-> IF i = 0 THEN {<<>>}
                                                   ELSE Cats(f[i - 1], TokWords(m, p.toks[i]))]
                  /\ Spell(m, p) = IF ~IsValid(p) \/ p = AllPrincipals THEN {}
                                   ELSE IF p.end = "exact" THEN Cats(f[Len(p.toks)], {<<"$">>})
                                   ELSE f[Len(p.toks)]
<1> DEFINE Run(f, n) == f = [i \in 0..n |-> IF i = 0 THEN {<<>>}
                                            ELSE Cats(f[i - 1], TokWords(m, p.toks[i]))]
           S == {n \in Nat : \E f : Run(f, n)}
<1>1. 0 \in S
  <2>1. Run([i \in 0..0 |-> {<<>>}], 0)
    OBVIOUS
  <2> QED BY <2>1
<1>2. ASSUME NEW n \in Nat, n \in S PROVE n + 1 \in S
  <2>1. PICK f : Run(f, n)
    BY <1>2
  <2> DEFINE h == [i \in 0..n + 1 |-> IF i = n + 1 THEN Cats(f[n], TokWords(m, p.toks[n + 1])) ELSE f[i]]
  <2>2. \A i \in 0..n : h[i] = f[i]
    OBVIOUS
  <2>3. \A i \in 0..n + 1 : h[i] = IF i = 0 THEN {<<>>} ELSE Cats(h[i - 1], TokWords(m, p.toks[i]))
    <3> SUFFICES ASSUME NEW i \in 0..n + 1
                 PROVE  h[i] = IF i = 0 THEN {<<>>} ELSE Cats(h[i - 1], TokWords(m, p.toks[i]))
      OBVIOUS
    <3>1. CASE i = n + 1
      BY <3>1, <2>2
    <3>2. CASE i # n + 1
      <4>1. i \in 0..n /\ (i # 0 => i - 1 \in 0..n)
        BY <3>2
      <4>2. f[i] = IF i = 0 THEN {<<>>} ELSE Cats(f[i - 1], TokWords(m, p.toks[i]))
        BY <4>1, <2>1
      <4> HIDE DEF h
      <4> QED BY <4>1, <4>2, <2>2
    <3> QED BY <3>1, <3>2
  <2>4. Run(h, n + 1)
    BY <2>3
  <2>5. \E k : Run(k, n + 1)
    <3> HIDE DEF h, Run
    <3> QED BY <2>4
  <2> HIDE DEF Run
  <2> QED BY <2>5
<1>3. Len(p.toks) \in S
  <2> HIDE DEF S
  <2> QED BY <1>1, <1>2, NatSetInduction
<1>4. \E f : Run(f, Len(p.toks))
  BY <1>3
<1> DEFINE after == CHOOSE f : Run(f, Len(p.toks))
<1>5. Run(after, Len(p.toks))
  BY <1>4
<1>6. Spell(m, p) = IF ~IsValid(p) \/ p = AllPrincipals THEN {}
                    ELSE IF p.end = "exact" THEN Cats(after[Len(p.toks)], {<<"$">>})
                    ELSE after[Len(p.toks)]
  BY DEF Spell, TokWords
<1> QED BY <1>5, <1>6

(* The answers of the groups' servers, given the groups that were visited.  *)
AskedAt(hint, down, f, v, g, b) ==
    IF g \in v THEN Approximate(hint, b)
    ELSE IF <<v, g, b>> \in down THEN Approximate(hint, b)
    ELSE UnionOf({MatchName(f[v \cup {g}], e, hint, b) : e \in Entries[g]})
Asked(hint, down, f, v) == [g \in Group |-> [b \in Seq(Tok) |-> AskedAt(hint, down, f, v, g, b)]]

LEMMA ServersAnswer ==
    ASSUME NEW hint, NEW down
    PROVE  \E f : /\ f = [v \in SUBSET Group |-> Asked(hint, down, f, v)]
                  /\ Servers(hint, down) = f[{}]
<1> DEFINE Level(n) == {v \in SUBSET Group : Cardinality(Group \ v) <= n}
           Run(f, D) == f = [v \in D |-> Asked(hint, down, f, v)]
           S == {n \in Nat : \E f : Run(f, Level(n))}
<1>0. \A v \in SUBSET Group : IsFiniteSet(Group \ v) /\ Cardinality(Group \ v) \in Nat
  <2> TAKE v \in SUBSET Group
  <2> QED BY FS_Subset, FS_CardinalityType, GroupAssumption
<1>a. \A v \in SUBSET Group, g \in Group : g \notin v =>
        /\ v \cup {g} \in SUBSET Group
        /\ Cardinality(Group \ (v \cup {g})) = Cardinality(Group \ v) - 1
  <2> SUFFICES ASSUME NEW v \in SUBSET Group, NEW g \in Group, g \notin v
               PROVE  Cardinality(Group \ (v \cup {g})) = Cardinality(Group \ v) - 1
    OBVIOUS
  <2>1. Group \ (v \cup {g}) = (Group \ v) \ {g} /\ g \in Group \ v
    OBVIOUS
  <2>2. IsFiniteSet(Group \ v)
    BY <1>0
  <2> QED BY <2>1, <2>2, FS_RemoveElement
<1>b. ASSUME NEW f, NEW h, NEW v \in SUBSET Group, \A g \in Group \ v : f[v \cup {g}] = h[v \cup {g}]
      PROVE  Asked(hint, down, f, v) = Asked(hint, down, h, v)
  <2>1. \A g \in Group, b \in Seq(Tok) : Asked(hint, down, f, v)[g][b] = Asked(hint, down, h, v)[g][b]
    <3> SUFFICES ASSUME NEW g \in Group, NEW b \in Seq(Tok)
                 PROVE  Asked(hint, down, f, v)[g][b] = Asked(hint, down, h, v)[g][b]
      OBVIOUS
    <3>1. CASE g \in v
      BY <3>1 DEF Asked, AskedAt
    <3>2. CASE g \notin v
      <4>1. f[v \cup {g}] = h[v \cup {g}]
        BY <3>2, <1>b
      <4> QED BY <3>2, <4>1 DEF Asked, AskedAt
    <3> QED BY <3>1, <3>2
  <2> QED BY <2>1 DEF Asked
<1>1. 0 \in S
  <2> DEFINE h == [v \in Level(0) |-> Asked(hint, down, <<>>, v)]
  <2>1. ASSUME NEW v \in Level(0) PROVE Group \ v = {}
    BY <1>0, FS_EmptySet
  <2>2. \A v \in Level(0) : h[v] = Asked(hint, down, h, v)
    <3> TAKE v \in Level(0)
    <3> HIDE DEF Level
    <3>1. h[v] = Asked(hint, down, <<>>, v)
      OBVIOUS
    <3>2. v \in SUBSET Group
      BY DEF Level
    <3> HIDE DEF h
    <3> QED BY <2>1, <3>1, <3>2, <1>b
  <2>3. Run(h, Level(0))
    <3> HIDE DEF Level
    <3> QED BY <2>2
  <2>4. \E k : Run(k, Level(0))
    <3> HIDE DEF h, Run
    <3> QED BY <2>3
  <2> QED BY <2>4
<1>2. ASSUME NEW n \in Nat, n \in S PROVE n + 1 \in S
  <2>1. PICK f : Run(f, Level(n))
    BY <1>2
  <2> DEFINE h == [v \in Level(n + 1) |-> IF v \in Level(n) THEN f[v] ELSE Asked(hint, down, f, v)]
  <2>2. Level(n) \subseteq Level(n + 1)
    <3> SUFFICES ASSUME NEW v \in Level(n) PROVE v \in Level(n + 1)
      OBVIOUS
    <3>1. Cardinality(Group \ v) \in Nat /\ Cardinality(Group \ v) <= n
      BY <1>0
    <3> QED BY <3>1
  <2>3. \A v \in Level(n + 1), g \in Group : g \notin v => v \cup {g} \in Level(n)
    <3> SUFFICES ASSUME NEW v \in Level(n + 1), NEW g \in Group, g \notin v
                 PROVE  v \cup {g} \in Level(n)
      OBVIOUS
    <3>1. /\ v \cup {g} \in SUBSET Group
          /\ Cardinality(Group \ (v \cup {g})) = Cardinality(Group \ v) - 1
      BY <1>a
    <3>2. Cardinality(Group \ v) \in Nat /\ Cardinality(Group \ v) <= n + 1
      BY <1>0
    <3> QED BY <3>1, <3>2
  <2>4. \A v \in Level(n) : h[v] = f[v] /\ f[v] = Asked(hint, down, f, v)
    <3> HIDE DEF Level
    <3> QED BY <2>1, <2>2
  <2>5. \A v \in Level(n + 1) : h[v] = Asked(hint, down, f, v)
    <3> HIDE DEF Level
    <3> QED BY <2>4
  <2>6. \A v \in Level(n + 1) : h[v] = Asked(hint, down, h, v)
    <3> TAKE v \in Level(n + 1)
    <3>1. v \in SUBSET Group
      OBVIOUS
    <3> HIDE DEF Level, h
    <3>2. \A g \in Group \ v : f[v \cup {g}] = h[v \cup {g}]
      BY <2>3, <2>4
    <3> QED BY <3>1, <3>2, <2>5, <1>b
  <2>7. Run(h, Level(n + 1))
    <3> HIDE DEF Level
    <3> QED BY <2>6
  <2>8. \E k : Run(k, Level(n + 1))
    <3> HIDE DEF h, Run
    <3> QED BY <2>7
  <2> HIDE DEF Run, Level
  <2> QED BY <2>8
<1>3. Cardinality(Group) \in S /\ Cardinality(Group) \in Nat
  <2>1. Cardinality(Group) \in Nat
    BY FS_CardinalityType, GroupAssumption
  <2> HIDE DEF S
  <2> QED BY <2>1, <1>1, <1>2, NatSetInduction
<1>4. Level(Cardinality(Group)) = SUBSET Group
  <2>1. \A v \in SUBSET Group : Cardinality(Group \ v) <= Cardinality(Group)
    BY FS_Subset, GroupAssumption
  <2> QED BY <2>1
<1>5. \E f : Run(f, SUBSET Group)
  BY <1>3, <1>4
<1> DEFINE rel == CHOOSE f : Run(f, SUBSET Group)
<1>6. Run(rel, SUBSET Group)
  <2> HIDE DEF Run
  <2> QED BY <1>5
<1>7. Servers(hint, down) = rel[{}]
  BY DEF Servers, Asked, AskedAt
<1> QED BY <1>6, <1>7
-----------------------------------------------------------------------------
(* Names and words. *)

LEMMA NameIs == \A s : s \in Name <=> s \in Seq(Tok) /\ Len(s) \in 1..MaxLen
<1> SUFFICES ASSUME NEW s PROVE s \in Name <=> s \in Seq(Tok) /\ Len(s) \in 1..MaxLen
  OBVIOUS
<1>1. ASSUME s \in Name PROVE s \in Seq(Tok) /\ Len(s) \in 1..MaxLen
  <2>1. PICK m \in 0..MaxLen : s \in [1..m -> Tok]
    BY <1>1 DEF Name, BoundedSeq, SeqOf
  <2>2. s \in Seq(Tok) /\ Len(s) = m
    BY <2>1, GroupAssumption
  <2>3. m # 0
    BY <1>1, <2>2 DEF Name
  <2> QED BY <2>2, <2>3, GroupAssumption
<1>2. ASSUME s \in Seq(Tok), Len(s) \in 1..MaxLen PROVE s \in Name
  <2>1. s \in [1..Len(s) -> Tok] /\ Len(s) \in 0..MaxLen /\ s # <<>>
    BY <1>2, GroupAssumption
  <2> QED BY <2>1 DEF Name, BoundedSeq, SeqOf
<1> QED BY <1>1, <1>2

Char == Tok \cup {"$"}

LEMMA NameOrEmpty == \A s \in Name \cup {<<>>} : s \in Seq(Tok) /\ Len(s) \in Nat
<1>1. \A s \in Name : s \in Seq(Tok) /\ Len(s) \in Nat
  BY NameIs
<1>2. <<>> \in Seq(Tok) /\ Len(<<>>) \in Nat
  OBVIOUS
<1> QED BY <1>1, <1>2

LEMMA ClosedIs ==
    ASSUME NEW b \in Seq(Tok)
    PROVE  /\ Closed(b) \in Seq(Char) /\ Len(Closed(b)) = Len(b) + 1
           /\ \A j \in 1..Len(b) : Closed(b)[j] = b[j] /\ b[j] \in Tok
           /\ Closed(b)[Len(b) + 1] = "$"
BY DEF Closed, Char

LEMMA WordIs ==
    ASSUME NEW w \in Word
    PROVE  /\ w \in Seq(Char) /\ Len(w) >= 1
           /\ w[1] \in Tok /\ w[1] # "$"
           /\ w # <<"$">> /\ w # <<>>
           /\ w \in Name => Last(w) # "$" /\ \A j \in 1..Len(w) : w[j] \in Tok
           /\ w \notin Name => Last(w) = "$"
<1>1. CASE w \in Name
  <2>1. w \in Seq(Tok) /\ Len(w) >= 1
    BY <1>1, NameIs, GroupAssumption
  <2>2. \A j \in 1..Len(w) : w[j] \in Tok
    BY <2>1
  <2> QED BY <1>1, <2>1, <2>2, GroupAssumption DEF Char, Last
<1>2. CASE w \notin Name
  <2>1. PICK b \in Name : w = Closed(b)
    BY <1>2 DEF Word
  <2>2. b \in Seq(Tok) /\ Len(b) >= 1
    BY NameIs, GroupAssumption
  <2>3. w \in Seq(Char) /\ Len(w) = Len(b) + 1 /\ w[1] \in Tok /\ w[Len(b) + 1] = "$"
    BY <2>1, <2>2, ClosedIs
  <2> QED BY <1>2, <2>2, <2>3, GroupAssumption DEF Last
<1> QED BY <1>1, <1>2

(* What it means to be a prefix of a closed name. *)
LEMMA PrefixIs ==
    ASSUME NEW w \in Seq(Char), NEW t \in Seq(Char)
    PROVE  IsPrefix(w, t) <=> Len(w) <= Len(t) /\ \A j \in 1..Len(w) : w[j] = t[j]
<1>1. SubSeq(w, 1, Len(w)) = w
  OBVIOUS
<1>2. ASSUME Len(w) <= Len(t)
      PROVE  /\ SubSeq(t, 1, Len(w)) \in Seq(Char) /\ Len(SubSeq(t, 1, Len(w))) = Len(w)
             /\ \A j \in 1..Len(w) : SubSeq(t, 1, Len(w))[j] = t[j]
  BY <1>2
<1>3. ASSUME Len(w) <= Len(t), \A j \in 1..Len(w) : w[j] = t[j]
      PROVE  w = SubSeq(t, 1, Len(w))
  <2> DEFINE u == SubSeq(t, 1, Len(w))
  <2>1. u \in Seq(Char) /\ Len(u) = Len(w) /\ \A j \in 1..Len(w) : u[j] = w[j]
    BY <1>2, <1>3
  <2> HIDE DEF u
  <2>2. u = w
    BY <2>1, SeqEqual
  <2> QED BY <2>2 DEF u
<1> QED BY <1>1, <1>2, <1>3 DEF IsPrefix
Drop(b, k) == SubSeq(b, k + 1, Len(b))

LEMMA DropIs ==
    ASSUME NEW b \in Seq(Tok), NEW k \in 0..Len(b) + 1
    PROVE  /\ Drop(b, k) \in Seq(Tok)
           /\ Len(Drop(b, k)) = IF k <= Len(b) THEN Len(b) - k ELSE 0
           /\ \A j \in 1..Len(Drop(b, k)) : Drop(b, k)[j] = b[k + j]
           /\ Drop(b, k) = <<>> <=> k >= Len(b)
<1> DEFINE c == SubSeq(b, k + 1, Len(b))
<1>1. c \in Seq(Tok)
  OBVIOUS
<1>2. Len(c) = IF k <= Len(b) THEN Len(b) - k ELSE 0
  OBVIOUS
<1>3. \A j \in 1..Len(c) : c[j] = b[k + j]
  OBVIOUS
<1>4. c = <<>> <=> k >= Len(b)
  <2> HIDE DEF c
  <2> QED BY <1>1, <1>2
<1> QED BY <1>1, <1>2, <1>3, <1>4 DEF Drop

LEMMA DropDrop ==
    ASSUME NEW b \in Seq(Tok), NEW k \in 0..Len(b), NEW l \in 0..Len(b) - k + 1
    PROVE  Drop(Drop(b, k), l) = Drop(b, k + l)
<1> DEFINE c == Drop(b, k)
<1>1. c \in Seq(Tok) /\ Len(c) = Len(b) - k /\ \A j \in 1..Len(c) : c[j] = b[k + j]
  BY DropIs
<1>2. /\ Drop(c, l) \in Seq(Tok)
      /\ Len(Drop(c, l)) = IF l <= Len(c) THEN Len(c) - l ELSE 0
      /\ \A j \in 1..Len(Drop(c, l)) : Drop(c, l)[j] = c[l + j]
  <2> HIDE DEF c
  <2>1. l \in 0..Len(c) + 1 /\ c \in Seq(Tok)
    BY <1>1
  <2>2. \A d \in Seq(Tok) : \A k1 \in 0..Len(d) + 1 :
          /\ Drop(d, k1) \in Seq(Tok)
          /\ Len(Drop(d, k1)) = IF k1 <= Len(d) THEN Len(d) - k1 ELSE 0
          /\ \A j \in 1..Len(Drop(d, k1)) : Drop(d, k1)[j] = d[k1 + j]
    <3> TAKE d \in Seq(Tok)
    <3> TAKE k1 \in 0..Len(d) + 1
    <3> QED BY DropIs
  <2> QED BY <2>1, <2>2
<1>3. /\ Drop(b, k + l) \in Seq(Tok)
      /\ Len(Drop(b, k + l)) = IF k + l <= Len(b) THEN Len(b) - (k + l) ELSE 0
      /\ \A j \in 1..Len(Drop(b, k + l)) : Drop(b, k + l)[j] = b[k + l + j]
  <2>1. k + l \in 0..Len(b) + 1
    OBVIOUS
  <2> QED BY <2>1, DropIs
<1> HIDE DEF c
<1>4. Len(Drop(c, l)) = Len(Drop(b, k + l))
  BY <1>1, <1>2, <1>3
<1>5. ASSUME NEW j \in 1..Len(Drop(c, l)) PROVE Drop(c, l)[j] = Drop(b, k + l)[j]
  <2>1. Drop(c, l)[j] = c[l + j] /\ l + j \in 1..Len(c)
    BY <1>1, <1>2
  <2>2. c[l + j] = b[k + (l + j)]
    BY <2>1, <1>1
  <2>3. Drop(b, k + l)[j] = b[k + l + j]
    BY <1>3, <1>4
  <2> QED BY <2>1, <2>2, <2>3
<1>6. Drop(c, l) = Drop(b, k + l)
  BY <1>2, <1>3, <1>4, <1>5, SeqEqual
<1> QED BY <1>6 DEF c

(* The prefixes of a closed name: those that go on behind one of them are   *)
(* the prefixes of what is left.                                            *)
LEMMA PrefixCat ==
    ASSUME NEW b \in Name, NEW x \in Name \cup {<<>>}, NEW y \in Word
    PROVE  IsPrefix(x \o y, Closed(b)) <=>
             /\ IsPrefix(x, Closed(b)) /\ Len(x) < Len(b)
             /\ IsPrefix(y, Closed(Drop(b, Len(x))))
<1> DEFINE n == Len(x)
           w == x \o y
<1>1. /\ b \in Seq(Tok) /\ x \in Seq(Tok) /\ x \in Seq(Char)
      /\ y \in Seq(Char) /\ Len(y) >= 1 /\ y[1] # "$"
      /\ \A j \in 1..n : x[j] \in Tok
  <2>1. b \in Seq(Tok) /\ x \in Seq(Tok)
    BY NameOrEmpty
  <2>2. x \in Seq(Char) /\ \A j \in 1..n : x[j] \in Tok
    BY <2>1 DEF Char
  <2> QED BY <2>1, <2>2, WordIs
<1>2. /\ w \in Seq(Char) /\ Len(w) = n + Len(y)
      /\ \A j \in 1..n : w[j] = x[j]
      /\ \A j \in 1..Len(y) : w[n + j] = y[j]
  BY <1>1
<1>3. /\ Closed(b) \in Seq(Char) /\ Len(Closed(b)) = Len(b) + 1
      /\ \A j \in 1..Len(b) : Closed(b)[j] = b[j]
      /\ Closed(b)[Len(b) + 1] = "$"
  BY <1>1, ClosedIs
<1> HIDE DEF w
<1>4. IsPrefix(w, Closed(b)) <=> Len(w) <= Len(b) + 1 /\ \A j \in 1..Len(w) : w[j] = Closed(b)[j]
  BY <1>2, <1>3, PrefixIs
<1>5. IsPrefix(x, Closed(b)) <=> n <= Len(b) + 1 /\ \A j \in 1..n : x[j] = Closed(b)[j]
  BY <1>1, <1>3, PrefixIs
<1>6. ASSUME n < Len(b)
      PROVE  LET c == Drop(b, n)
             IN  IsPrefix(y, Closed(c)) <=> /\ n + Len(y) <= Len(b) + 1
                                           /\ \A j \in 1..Len(y) : y[j] = Closed(b)[n + j]
  <2> DEFINE c == Drop(b, n)
  <2>1. c \in Seq(Tok) /\ Len(c) = Len(b) - n /\ \A j \in 1..Len(c) : c[j] = b[n + j]
    BY <1>1, <1>6, DropIs
  <2> HIDE DEF c
  <2>2. /\ Closed(c) \in Seq(Char) /\ Len(Closed(c)) = Len(c) + 1
        /\ \A j \in 1..Len(c) : Closed(c)[j] = c[j]
        /\ Closed(c)[Len(c) + 1] = "$"
    BY <2>1, ClosedIs
  <2>3. \A j \in 1..Len(c) + 1 : Closed(c)[j] = Closed(b)[n + j]
    <3> SUFFICES ASSUME NEW j \in 1..Len(c) + 1 PROVE Closed(c)[j] = Closed(b)[n + j]
      OBVIOUS
    <3>1. CASE j <= Len(c)
      <4>1. Closed(c)[j] = c[j] /\ c[j] = b[n + j] /\ n + j \in 1..Len(b)
        BY <3>1, <2>1, <2>2, <1>1
      <4> QED BY <4>1, <1>3
    <3>2. CASE j = Len(c) + 1
      <4>1. n + j = Len(b) + 1
        BY <3>2, <2>1, <1>1
      <4> QED BY <3>2, <4>1, <2>2, <1>3
    <3>3. Len(c) \in Nat
      BY <2>1
    <3> QED BY <3>1, <3>2, <3>3
  <2>4. IsPrefix(y, Closed(c)) <=> Len(y) <= Len(c) + 1 /\ \A j \in 1..Len(y) : y[j] = Closed(c)[j]
    BY <1>1, <2>2, PrefixIs
  <2>5. Len(y) <= Len(c) + 1 <=> n + Len(y) <= Len(b) + 1
    BY <2>1, <1>1
  <2>6. ASSUME Len(y) <= Len(c) + 1
        PROVE  (\A j \in 1..Len(y) : y[j] = Closed(c)[j]) <=> \A j \in 1..Len(y) : y[j] = Closed(b)[n + j]
    <3>1. \A j \in 1..Len(y) : j \in 1..Len(c) + 1
      BY <2>6, <2>1, <1>1
    <3> QED BY <3>1, <2>3
  <2>7. IsPrefix(y, Closed(c)) <=> n + Len(y) <= Len(b) + 1 /\ \A j \in 1..Len(y) : y[j] = Closed(b)[n + j]
    BY <2>4, <2>5, <2>6
  <2> QED BY <2>7 DEF c
<1>7. ASSUME IsPrefix(w, Closed(b))
      PROVE  IsPrefix(x, Closed(b)) /\ n < Len(b) /\ IsPrefix(y, Closed(Drop(b, n)))
  <2>1. n + Len(y) <= Len(b) + 1 /\ \A j \in 1..n + Len(y) : w[j] = Closed(b)[j]
    BY <1>7, <1>4, <1>2
  <2>2. \A j \in 1..n : x[j] = Closed(b)[j]
    <3> TAKE j \in 1..n
    <3>1. j \in 1..n + Len(y)
      BY <1>1
    <3> QED BY <3>1, <2>1, <1>2
  <2>3. \A j \in 1..Len(y) : y[j] = Closed(b)[n + j]
    <3> TAKE j \in 1..Len(y)
    <3>1. n + j \in 1..n + Len(y)
      BY <1>1
    <3> QED BY <3>1, <2>1, <1>2
  <2>4. n # Len(b)
    <3> SUFFICES ASSUME n = Len(b) PROVE FALSE
      OBVIOUS
    <3>1. y[1] = Closed(b)[n + 1]
      BY <2>3, <1>1
    <3> QED BY <3>1, <1>1, <1>3
  <2>5. n < Len(b)
    BY <2>1, <2>4, <1>1
  <2> QED BY <2>1, <2>2, <2>3, <2>5, <1>1, <1>5, <1>6
<1>8. ASSUME IsPrefix(x, Closed(b)), n < Len(b), IsPrefix(y, Closed(Drop(b, n)))
      PROVE  IsPrefix(w, Closed(b))
  <2>1. /\ n + Len(y) <= Len(b) + 1
        /\ \A j \in 1..Len(y) : y[j] = Closed(b)[n + j]
        /\ \A j \in 1..n : x[j] = Closed(b)[j]
    BY <1>8, <1>5, <1>6
  <2>2. ASSUME NEW j \in 1..Len(w) PROVE w[j] = Closed(b)[j]
    <3>1. CASE j <= n
      BY <3>1, <2>1, <1>1, <1>2
    <3>2. CASE j > n
      <4>1. j - n \in 1..Len(y) /\ j = n + (j - n)
        BY <3>2, <1>1, <1>2
      <4>2. w[n + (j - n)] = y[j - n] /\ y[j - n] = Closed(b)[n + (j - n)]
        BY <4>1, <2>1, <1>2
      <4> QED BY <4>1, <4>2
    <3> QED BY <3>1, <3>2, <1>1
  <2> QED BY <2>1, <2>2, <1>2, <1>4
<1> QED BY <1>7, <1>8 DEF w
(* The remainders after a concatenation are the remainders of remainders. *)
LEMMA CatRest ==
    ASSUME NEW b \in Name, NEW X \in SUBSET (Word \cup {<<>>}), NEW Y \in SUBSET Word
    PROVE  Rest(Cats(X, Y), b) = UNION {Rest(Y, c) : c \in Rest(X, b) \ {<<>>}}
<1>1. /\ b \in Seq(Tok) /\ Len(b) \in 1..MaxLen
  BY NameIs
<1>2. \A x \in X : (x # <<>> /\ Last(x) = "$") <=> x \notin Name \cup {<<>>}
  BY WordIs
<1>3. \A y \in Y : y # <<"$">>
  BY WordIs
<1>4. ASSUME NEW r \in Rest(Cats(X, Y), b)
      PROVE  \E c \in Rest(X, b) \ {<<>>} : r \in Rest(Y, c)
  <2>1. PICK w \in Cats(X, Y) : IsPrefix(w, Closed(b)) /\ r = Drop(b, Len(w))
    BY <1>4 DEF Rest, Drop
  <2>2. PICK x \in X, y \in Y : w \in Cat(x, y)
    BY <2>1 DEF Cats
  <2>3. x \in Name \cup {<<>>} /\ w = x \o y
    BY <2>2, <1>2, <1>3 DEF Cat
  <2>4. y \in Word
    OBVIOUS
  <2>5. /\ IsPrefix(x, Closed(b)) /\ Len(x) < Len(b)
        /\ IsPrefix(y, Closed(Drop(b, Len(x))))
    BY <2>1, <2>3, <2>4, PrefixCat
  <2>6. x \in Seq(Tok) /\ y \in Seq(Char) /\ Len(y) >= 1 /\ Len(x) \in Nat
    BY <2>3, <2>4, NameOrEmpty, WordIs
  <2>7. Drop(b, Len(x)) \in Rest(X, b) /\ Drop(b, Len(x)) # <<>>
    <3>1. Drop(b, Len(x)) \in Rest(X, b)
      BY <2>5 DEF Rest, Drop
    <3>2. Len(x) \in 0..Len(b) + 1 /\ ~(Len(x) >= Len(b))
      BY <1>1, <2>5, <2>6
    <3> QED BY <3>1, <3>2, <1>1, DropIs
  <2>8. r = Drop(Drop(b, Len(x)), Len(y))
    <3>1. Len(w) = Len(x) + Len(y)
      BY <2>3, <2>6 DEF Char
    <3>2. Len(x) \in 0..Len(b)
      BY <1>1, <2>5, <2>6
    <3>3. Len(Drop(b, Len(x))) = Len(b) - Len(x) /\ Drop(b, Len(x)) \in Seq(Tok)
      BY <1>1, <3>2, DropIs
    <3>4. Len(Closed(Drop(b, Len(x)))) = Len(b) - Len(x) + 1
      BY <3>3, ClosedIs
    <3>5. Len(y) \in 0..Len(b) - Len(x) + 1
      BY <2>5, <2>6, <3>4 DEF IsPrefix
    <3> QED BY <3>1, <3>2, <3>5, <2>1, <1>1, DropDrop
  <2>9. r \in Rest(Y, Drop(b, Len(x)))
    BY <2>5, <2>8 DEF Rest, Drop
  <2> QED BY <2>7, <2>9
<1>5. ASSUME NEW c \in Rest(X, b) \ {<<>>}, NEW r \in Rest(Y, c)
      PROVE  r \in Rest(Cats(X, Y), b)
  <2>1. PICK x \in X : IsPrefix(x, Closed(b)) /\ c = Drop(b, Len(x))
    BY <1>5 DEF Rest, Drop
  <2>2. PICK y \in Y : IsPrefix(y, Closed(c)) /\ r = Drop(c, Len(y))
    BY <1>5 DEF Rest, Drop
  <2>3. y \in Word /\ y \in Seq(Char) /\ Len(y) >= 1
    BY WordIs
  <2>4. x \in Seq(Char) /\ Len(x) \in Nat /\ Len(x) <= Len(b) + 1
    <3>1. x \in Seq(Char) /\ Len(x) \in Nat
      <4>1. CASE x = <<>>
        BY <4>1
      <4>2. CASE x # <<>>
        BY <4>2, WordIs
      <4> QED BY <4>1, <4>2
    <3>2. Len(Closed(b)) = Len(b) + 1
      BY <1>1, ClosedIs
    <3> QED BY <3>1, <3>2, <2>1 DEF IsPrefix
  <2>5. Len(x) < Len(b)
    <3>1. Len(x) \in 0..Len(b) + 1
      BY <2>4, <1>1
    <3>2. ~(Len(x) >= Len(b))
      BY <3>1, <1>1, <2>1, <1>5, DropIs
    <3> QED BY <3>1, <3>2, <1>1
  <2>6. x \in Name \cup {<<>>}
    <3> SUFFICES ASSUME x \notin Name \cup {<<>>} PROVE FALSE
      OBVIOUS
    <3>1. x # <<>> /\ Last(x) = "$"
      BY <1>2
    <3>2. x[Len(x)] = "$" /\ Len(x) \in 1..Len(b)
      BY <3>1, <2>4, <2>5 DEF Last
    <3>3. x[Len(x)] = Closed(b)[Len(x)]
      <4>1. Closed(b) \in Seq(Char)
        BY <1>1, ClosedIs
      <4> QED BY <4>1, <3>2, <2>1, <2>4, PrefixIs
    <3>4. Closed(b)[Len(x)] \in Tok
      BY <3>2, <1>1, ClosedIs
    <3> QED BY <3>2, <3>3, <3>4, GroupAssumption
  <2>7. IsPrefix(x \o y, Closed(b))
    BY <2>1, <2>2, <2>3, <2>5, <2>6, PrefixCat
  <2>8. x \in Seq(Tok) /\ x \o y \in Seq(Char) /\ Len(x \o y) = Len(x) + Len(y)
    <3>1. x \in Seq(Tok)
      BY <2>6, NameOrEmpty
    <3> QED BY <3>1, <2>3, <2>4
  <2>9. x \o y \in Word
    <3> DEFINE w == x \o y
    <3>1. /\ Closed(b) \in Seq(Char) /\ Len(Closed(b)) = Len(b) + 1
          /\ \A j \in 1..Len(b) : Closed(b)[j] = b[j]
      BY <1>1, ClosedIs
    <3>2. Len(w) >= 1 /\ w \in Seq(Char)
      BY <2>3, <2>4, <2>8
    <3> HIDE DEF w
    <3>3. Len(w) <= Len(b) + 1 /\ \A j \in 1..Len(w) : w[j] = Closed(b)[j]
      BY <2>7, <3>1, <3>2, PrefixIs DEF w
    <3>4. CASE Len(w) <= Len(b)
      <4>1. \A j \in 1..Len(w) : w[j] \in Tok
        BY <3>1, <3>3, <3>4, <3>2, <1>1
      <4>2. w \in Seq(Tok)
        BY <4>1, <3>2
      <4>3. w \in Name
        BY <4>2, <3>2, <3>4, <1>1, NameIs, GroupAssumption
      <4> QED BY <4>3 DEF Word, w
    <3>5. CASE Len(w) = Len(b) + 1
      <4>1. w = Closed(b)
        BY <3>1, <3>2, <3>3, <3>5, SeqEqual
      <4> QED BY <4>1 DEF Word, w
    <3> QED BY <3>2, <3>3, <3>4, <3>5, <1>1
  <2>10. x \o y \in Cats(X, Y)
    BY <2>9, <2>6, <1>2 DEF Cats, Cat
  <2>11. r = Drop(b, Len(x \o y))
    <3>2. Len(x) \in 0..Len(b)
      BY <1>1, <2>4, <2>5
    <3>3. Len(c) = Len(b) - Len(x) /\ c \in Seq(Tok)
      BY <1>1, <3>2, <2>1, DropIs
    <3>4. Len(Closed(c)) = Len(b) - Len(x) + 1
      BY <3>3, ClosedIs
    <3>5. Len(y) \in 0..Len(b) - Len(x) + 1
      BY <2>2, <2>3, <3>4 DEF IsPrefix
    <3> QED BY <3>2, <3>5, <2>1, <2>2, <2>8, <1>1, DropDrop
  <2> QED BY <2>7, <2>10, <2>11 DEF Rest, Drop
<1> QED BY <1>4, <1>5

-----------------------------------------------------------------------------
(* Remainders of a name. *)

LEMMA RestIn == ASSUME NEW W, NEW b, NEW r
                PROVE  r \in Rest(W, b) <=> \E w \in W : IsPrefix(w, Closed(b)) /\ r = Drop(b, Len(w))
BY DEF Rest, Drop

LEMMA RestEmpty ==
    ASSUME NEW b \in Name
    PROVE  Rest({<<>>}, b) = {b}
<1>1. b \in Seq(Tok)
  BY NameIs
<1>2. Drop(b, 0) = b
  BY <1>1 DEF Drop
<1>3. IsPrefix(<<>>, Closed(b))
  <2>1. <<>> \in Seq(Char) /\ Closed(b) \in Seq(Char) /\ Len(Closed(b)) \in Nat
    BY <1>1, ClosedIs
  <2> DEFINE e == <<>>
  <2>2. e \in Seq(Char) /\ Len(e) = 0 /\ 1..0 = {}
    OBVIOUS
  <2> HIDE DEF e
  <2>3. Len(e) <= Len(Closed(b)) /\ \A j \in 1..Len(e) : e[j] = Closed(b)[j]
    BY <2>1, <2>2
  <2>4. IsPrefix(e, Closed(b))
    BY <2>1, <2>2, <2>3, PrefixIs
  <2> QED BY <2>4 DEF e
<1>4. Len(<<>>) = 0
  OBVIOUS
<1> QED BY <1>2, <1>3, <1>4, RestIn

LEMMA TokRest ==
    ASSUME NEW c \in Name, NEW t \in Tok
    PROVE  /\ <<t>> \in Word
           /\ Rest({<<t>>}, c) = IF Head(c) = t THEN {Tail(c)} ELSE {}
           /\ Tail(c) \in Name \cup {<<>>}
<1>1. c \in Seq(Tok) /\ Len(c) \in 1..MaxLen /\ c # <<>>
  BY NameIs
<1>2. <<t>> \in Seq(Tok) /\ Len(<<t>>) = 1 /\ <<t>>[1] = t
  OBVIOUS
<1>3. <<t>> \in Word
  <2>1. 1 \in 1..MaxLen
    BY <1>1, GroupAssumption
  <2>2. <<t>> \in Name
    BY <2>1, <1>2, NameIs
  <2> QED BY <2>2 DEF Word
<1>4. Head(c) = c[1]
  BY <1>1
<1>5. Drop(c, 1) = Tail(c)
  <2>1. Tail(c) \in Seq(Tok) /\ Len(Tail(c)) = Len(c) - 1 /\ \A j \in 1..Len(c) - 1 : Tail(c)[j] = c[j + 1]
    BY <1>1
  <2>2. /\ Drop(c, 1) \in Seq(Tok) /\ Len(Drop(c, 1)) = Len(c) - 1
        /\ \A j \in 1..Len(Drop(c, 1)) : Drop(c, 1)[j] = c[1 + j]
    <3>1. 1 \in 0..Len(c) + 1 /\ 1 <= Len(c)
      BY <1>1
    <3> QED BY <1>1, <3>1, DropIs
  <2>3. \A j \in 1..Len(c) - 1 : Drop(c, 1)[j] = Tail(c)[j]
    BY <2>1, <2>2
  <2> HIDE DEF Drop
  <2> QED BY <2>1, <2>2, <2>3, SeqEqual
<1>6. IsPrefix(<<t>>, Closed(c)) <=> c[1] = t
  <2>1. /\ Closed(c) \in Seq(Char) /\ Len(Closed(c)) = Len(c) + 1 /\ Closed(c)[1] = c[1]
    BY <1>1, ClosedIs
  <2>2. <<t>> \in Seq(Char)
    BY DEF Char
  <2>3. \A j \in 1..1 : j = 1
    OBVIOUS
  <2>4. 1 \in 1..1 /\ 1 <= Len(c) + 1
    BY <1>1
  <2> QED BY <2>1, <2>2, <2>3, <2>4, <1>2, PrefixIs
<1>7. Tail(c) \in Name \cup {<<>>}
  <2>1. Tail(c) \in Seq(Tok) /\ Len(Tail(c)) = Len(c) - 1
    BY <1>1
  <2>2. CASE Tail(c) = <<>>
    BY <2>2
  <2>3. CASE Tail(c) # <<>>
    <3>1. Len(Tail(c)) # 0
      BY <2>1, <2>3
    <3>2. Len(Tail(c)) \in 1..MaxLen
      BY <2>1, <3>1, <1>1, GroupAssumption
    <3> QED BY <2>1, <3>2, NameIs
  <2> QED BY <2>2, <2>3
<1>8. ASSUME NEW r PROVE r \in Rest({<<t>>}, c) <=> Head(c) = t /\ r = Tail(c)
  <2>1. r \in Rest({<<t>>}, c) <=> IsPrefix(<<t>>, Closed(c)) /\ r = Drop(c, Len(<<t>>))
    <3> DEFINE w == <<t>>
    <3> HIDE DEF w
    <3>1. r \in Rest({w}, c) <=> IsPrefix(w, Closed(c)) /\ r = Drop(c, Len(w))
      BY RestIn
    <3> QED BY <3>1 DEF w
  <2> QED BY <2>1, <1>2, <1>4, <1>5, <1>6
<1> QED BY <1>3, <1>7, <1>8

LEMMA SuffixIs ==
    ASSUME NEW b \in Name
    PROVE  /\ ProperSuffixes(b) \subseteq Name \cup {<<>>}
           /\ \A k \in 1..Len(b) + 1 : Drop(b, k) \in ProperSuffixes(b)
<1>1. b \in Seq(Tok) /\ Len(b) \in 1..MaxLen
  BY NameIs
<1>2. ASSUME NEW k \in 1..Len(b) PROVE Drop(b, k) \in Name \cup {<<>>}
  <2>1. Drop(b, k) \in Seq(Tok) /\ Len(Drop(b, k)) = Len(b) - k
    <3>1. k \in 0..Len(b) + 1 /\ k <= Len(b)
      BY <1>1
    <3> QED BY <1>1, <3>1, DropIs
  <2>2. CASE Len(Drop(b, k)) = 0
    BY <2>1, <2>2
  <2>3. CASE Len(Drop(b, k)) # 0
    <3>1. Len(Drop(b, k)) \in 1..MaxLen
      BY <2>1, <2>3, <1>1, GroupAssumption
    <3> QED BY <2>1, <3>1, NameIs
  <2> QED BY <2>2, <2>3
<1>3. ASSUME NEW s \in ProperSuffixes(b) PROVE s \in Name \cup {<<>>}
  <2>1. PICK i \in 2..Len(b) + 1 : s = SubSeq(b, i, Len(b))
    BY <1>3 DEF ProperSuffixes
  <2>2. i - 1 \in 1..Len(b) /\ (i - 1) + 1 = i
    BY <1>1
  <2>3. s = Drop(b, i - 1)
    BY <2>1, <2>2 DEF Drop
  <2> QED BY <1>2, <2>2, <2>3
<1>4. ASSUME NEW k \in 1..Len(b) + 1 PROVE Drop(b, k) \in ProperSuffixes(b)
  <2>1. CASE k <= Len(b)
    <3>1. k + 1 \in 2..(Len(b) + 1)
      BY <2>1, <1>1
    <3> QED BY <3>1 DEF Drop, ProperSuffixes
  <2>2. CASE k = Len(b) + 1
    <3>1. Drop(b, k) = <<>> /\ Drop(b, Len(b)) = <<>>
      <4>1. k \in 0..Len(b) + 1 /\ k >= Len(b) /\ Len(b) \in 0..Len(b) + 1 /\ Len(b) >= Len(b)
        BY <2>2, <1>1
      <4> QED BY <4>1, <1>1, DropIs
    <3>2. Len(b) + 1 \in 2..(Len(b) + 1)
      BY <1>1
    <3>3. Drop(b, Len(b)) \in ProperSuffixes(b)
      BY <3>2 DEF Drop, ProperSuffixes
    <3> QED BY <3>1, <3>3
  <2> QED BY <2>1, <2>2, <1>1
<1> QED BY <1>3, <1>4

(* A word that is a prefix of a closed name is at least one component long, *)
(* so what it leaves is a proper suffix.                                    *)
LEMMA RestSuffix ==
    ASSUME NEW b \in Name, NEW W \in SUBSET Word
    PROVE  Rest(W, b) \subseteq ProperSuffixes(b)
<1>1. b \in Seq(Tok)
  BY NameIs
<1> SUFFICES ASSUME NEW r \in Rest(W, b) PROVE r \in ProperSuffixes(b)
  OBVIOUS
<1>2. PICK w \in W : IsPrefix(w, Closed(b)) /\ r = Drop(b, Len(w))
  BY RestIn
<1>3. w \in Seq(Char) /\ Len(w) >= 1
  BY WordIs
<1>4. Len(w) <= Len(b) + 1
  BY <1>1, <1>2, <1>3, ClosedIs, PrefixIs
<1>5. Len(w) \in 1..Len(b) + 1
  BY <1>1, <1>3, <1>4
<1> QED BY <1>2, <1>5, SuffixIs

LEMMA CatsWords ==
    ASSUME NEW X \in SUBSET (Word \cup {<<>>}), NEW Y
    PROVE  Cats(X, Y) \in SUBSET Word
BY DEF Cats, Cat

LEMMA RestUnion ==
    ASSUME NEW WW, NEW b
    PROVE  Rest(UNION WW, b) = UNION {Rest(W, b) : W \in WW}
<1>1. \A r : r \in Rest(UNION WW, b) <=> \E W \in WW : r \in Rest(W, b)
  BY RestIn
<1> QED BY <1>1

LEMMA EndRest ==
    ASSUME NEW b \in Name, NEW X \in SUBSET (Word \cup {<<>>})
    PROVE  Rest(Cats(X, {<<"$">>}), b) = Rest(X, b) \cap {<<>>}
<1>1. /\ b \in Seq(Tok) /\ Len(b) \in 1..MaxLen
      /\ Closed(b) \in Seq(Char) /\ Len(Closed(b)) = Len(b) + 1
      /\ \A j \in 1..Len(b) : Closed(b)[j] = b[j] /\ b[j] \in Tok
      /\ Closed(b)[Len(b) + 1] = "$"
  BY NameIs, ClosedIs
<1>2. \A k \in Nat : k <= Len(b) + 1 => (Drop(b, k) = <<>> <=> k >= Len(b))
  <2> TAKE k \in Nat
  <2>1. k <= Len(b) + 1 => k \in 0..Len(b) + 1
    BY <1>1
  <2> QED BY <2>1, <1>1, DropIs
(* What follows "$" is nothing. *)
<1>3. ASSUME NEW w \in Word, IsPrefix(w, Closed(b)), Last(w) = "$"
      PROVE  Len(w) = Len(b) + 1
  <2>1. w \in Seq(Char) /\ Len(w) >= 1 /\ w[Len(w)] = "$"
    BY <1>3, WordIs DEF Last
  <2>2. Len(w) <= Len(b) + 1 /\ w[Len(w)] = Closed(b)[Len(w)]
    BY <2>1, <1>1, <1>3, PrefixIs
  <2>3. Len(w) \notin 1..Len(b)
    BY <2>1, <2>2, <1>1, GroupAssumption
  <2> QED BY <2>1, <2>2, <2>3, <1>1
<1>4. ASSUME NEW x \in Name
      PROVE  /\ Closed(x) \in Word /\ Last(Closed(x)) = "$" /\ Len(Closed(x)) = Len(x) + 1
             /\ IsPrefix(Closed(x), Closed(b)) <=> IsPrefix(x, Closed(b)) /\ Len(x) >= Len(b)
  <2>1. /\ x \in Seq(Tok) /\ Len(x) \in 1..MaxLen
        /\ Closed(x) \in Seq(Char) /\ Len(Closed(x)) = Len(x) + 1
        /\ \A j \in 1..Len(x) : Closed(x)[j] = x[j] /\ x[j] \in Tok
        /\ Closed(x)[Len(x) + 1] = "$"
    BY NameIs, ClosedIs
  <2>2. Closed(x) \in Word /\ Last(Closed(x)) = "$"
    BY <2>1 DEF Word, Last
  <2>3. x \in Seq(Char)
    BY <2>1 DEF Char
  <2>4. ASSUME IsPrefix(Closed(x), Closed(b)) PROVE IsPrefix(x, Closed(b)) /\ Len(x) >= Len(b)
    <3>1. Len(x) = Len(b)
      BY <2>1, <2>2, <2>4, <1>1, <1>3
    <3>2. \A j \in 1..Len(x) : x[j] = Closed(b)[j]
      <4> TAKE j \in 1..Len(x)
      <4>1. j \in 1..Len(Closed(x))
        BY <2>1
      <4> QED BY <4>1, <2>1, <2>4, <1>1, PrefixIs
    <3> QED BY <3>1, <3>2, <2>1, <2>3, <1>1, PrefixIs
  <2>5. ASSUME IsPrefix(x, Closed(b)), Len(x) >= Len(b) PROVE IsPrefix(Closed(x), Closed(b))
    <3>1. Len(x) <= Len(b) + 1 /\ \A j \in 1..Len(x) : x[j] = Closed(b)[j]
      BY <2>3, <2>5, <1>1, PrefixIs
    <3>2. Len(x) # Len(b) + 1
      BY <3>1, <2>1, <1>1, GroupAssumption
    <3>3. Len(x) = Len(b)
      BY <3>1, <3>2, <2>1, <2>5, <1>1
    <3>4. \A j \in 1..Len(Closed(x)) : Closed(x)[j] = Closed(b)[j]
      BY <3>1, <3>3, <2>1, <1>1
    <3> QED BY <3>3, <3>4, <2>1, <1>1, PrefixIs
  <2> QED BY <2>1, <2>2, <2>4, <2>5
<1>5. <<"$">> \notin Word
  BY WordIs
<1>6. \A x \in Word : (x \notin Name) <=> Last(x) = "$"
  BY WordIs
<1>7. \A x \in Word : x # <<>> /\ Len(x) \in Nat
  BY WordIs
<1>8. ASSUME NEW r \in Rest(Cats(X, {<<"$">>}), b) PROVE r \in Rest(X, b) /\ r = <<>>
  <2>1. PICK w \in Cats(X, {<<"$">>}) : IsPrefix(w, Closed(b)) /\ r = Drop(b, Len(w))
    BY <1>8, RestIn
  <2>2. PICK x \in X : w \in Cat(x, <<"$">>)
    BY <2>1 DEF Cats
  <2>3. CASE x = <<>>
    <3>1. <<>> \o <<"$">> = <<"$">>
      OBVIOUS
    <3> QED BY <2>2, <2>3, <3>1, <1>5 DEF Cat
  <2>4. CASE x \in Word /\ x \notin Name
    <3>1. w = x
      BY <2>2, <2>4, <1>6, <1>7 DEF Cat
    <3>2. r \in Rest(X, b)
      BY <3>1, <2>1, RestIn
    <3>3. Len(w) = Len(b) + 1
      BY <3>1, <2>1, <2>4, <1>3, <1>6
    <3> QED BY <3>2, <3>3, <2>1, <1>1, <1>2
  <2>5. CASE x \in Name
    <3>0. x \in Word
      BY <2>5 DEF Word
    <3>1. w = Closed(x)
      BY <3>0, <2>2, <2>5, <1>6, <1>7 DEF Cat, Closed
    <3>2. IsPrefix(x, Closed(b)) /\ Len(x) >= Len(b) /\ Len(w) = Len(x) + 1
      BY <3>1, <2>1, <2>5, <1>4
    <3>3. Len(w) = Len(b) + 1
      BY <3>1, <2>1, <2>5, <1>3, <1>4
    <3>4. Len(x) \in Nat
      BY <3>0, <1>7
    <3>5. Drop(b, Len(x)) = <<>> /\ Drop(b, Len(w)) = <<>>
      BY <3>2, <3>3, <3>4, <1>1, <1>2
    <3> QED BY <3>2, <3>5, <2>1, RestIn
  <2> QED BY <2>3, <2>4, <2>5
<1>9. ASSUME <<>> \in Rest(X, b) PROVE <<>> \in Rest(Cats(X, {<<"$">>}), b)
  <2>1. PICK x \in X : IsPrefix(x, Closed(b)) /\ <<>> = Drop(b, Len(x))
    BY <1>9, RestIn
  <2>2. CASE x = <<>>
    <3>1. Len(x) = 0 /\ 0 \in Nat /\ 0 <= Len(b) + 1 /\ ~(0 >= Len(b))
      BY <2>2, <1>1
    <3> QED BY <2>1, <3>1, <1>2
  <2>3. CASE x \in Word /\ x \notin Name
    <3>1. x \in Cat(x, <<"$">>)
      BY <2>3, <1>6, <1>7 DEF Cat
    <3>2. x \in Cats(X, {<<"$">>})
      BY <3>1 DEF Cats
    <3> QED BY <3>2, <2>1, RestIn
  <2>4. CASE x \in Name
    <3>0. x \in Word /\ Len(x) \in Nat /\ x # <<>> /\ Last(x) # "$"
      BY <2>4, <1>6, <1>7 DEF Word
    <3>1. Len(x) <= Len(b) + 1
      BY <3>0, <2>1, <1>1, WordIs, PrefixIs
    <3>2. Len(x) >= Len(b)
      BY <3>0, <3>1, <2>1, <1>2
    <3>3. IsPrefix(Closed(x), Closed(b)) /\ Closed(x) \in Word /\ Last(Closed(x)) = "$"
      BY <3>2, <2>1, <2>4, <1>4
    <3>4. Closed(x) \in Cat(x, <<"$">>)
      BY <3>0, <3>3 DEF Cat, Closed
    <3>5. Closed(x) \in Cats(X, {<<"$">>})
      BY <3>4 DEF Cats
    <3>6. Len(Closed(x)) = Len(b) + 1
      BY <3>3, <1>3
    <3>7. Drop(b, Len(Closed(x))) = <<>>
      BY <3>6, <1>1, <1>2
    <3> QED BY <3>3, <3>5, <3>7, RestIn
  <2> QED BY <2>2, <2>3, <2>4
<1> QED BY <1>8, <1>9

-----------------------------------------------------------------------------
(* An answer lies on the side of the exact remainders that the hint names.  *)
Sound(hint, ans, exact) ==
    /\ ans.remainder \subseteq Name \cup {<<>>}
    /\ hint = "Under" => ans.remainder \subseteq exact
    /\ hint = "Over" => exact \subseteq ans.remainder
    /\ ans.apprxs = {} => ans.remainder = exact

RelSound(rel, hint) == \A g \in Group, c \in Name : Sound(hint, rel[g][c], Rest(Members[g], c))

LEMMA TokenSound ==
    ASSUME NEW hint, NEW rel, RelSound(rel, hint), NEW tok \in Tok \cup Group, NEW ans,
           \A g \in Group : Members[g] \subseteq Word,
           NEW X \in SUBSET (Word \cup {<<>>}), NEW b \in Name, Sound(hint, ans, Rest(X, b))
    PROVE  Sound(hint, MatchToken(rel, tok, ans), Rest(Cats(X, TokWords(Members, tok)), b))
<1> DEFINE chunks == ans.remainder \ {<<>>}
           E == Rest(X, b)
           Y == TokWords(Members, tok)
           new == MatchToken(rel, tok, ans)
<1>1. Y \in SUBSET Word
  <2>1. CASE tok \in Group
    BY <2>1 DEF TokWords
  <2>2. CASE tok \notin Group
    BY <2>2, TokRest DEF TokWords
  <2> QED BY <2>1, <2>2
<1>2. Rest(Cats(X, Y), b) = UNION {Rest(Y, c) : c \in E \ {<<>>}}
  <2> HIDE DEF Y
  <2> QED BY <1>1, CatRest
<1>3. chunks \subseteq Name
  BY DEF Sound
<1>4. CASE tok \in Group
  <2> DEFINE r(c) == rel[tok][c]
  <2>1. Y = Members[tok]
    BY <1>4 DEF TokWords
  <2>2. new.remainder = UNION {r(c).remainder : c \in chunks}
    BY <1>4 DEF MatchToken, UnionOf, Answer
  <2>3. new.apprxs = ans.apprxs \cup UNION {r(c).apprxs : c \in chunks}
    BY <1>4 DEF MatchToken, UnionOf, Answer
  <2>4. \A c \in chunks : Sound(hint, r(c), Rest(Y, c))
    BY <1>3, <1>4, <2>1 DEF RelSound
  <2> HIDE DEF r, new, Y, chunks
  <2>5. new.remainder \subseteq Name \cup {<<>>}
    BY <2>2, <2>4 DEF Sound
  <2>6. ASSUME hint = "Under" PROVE new.remainder \subseteq Rest(Cats(X, Y), b)
    <3>1. chunks \subseteq E \ {<<>>} /\ \A c \in chunks : r(c).remainder \subseteq Rest(Y, c)
      BY <2>6, <2>4 DEF Sound, chunks
    <3> QED BY <3>1, <2>2, <1>2
  <2>7. ASSUME hint = "Over" PROVE Rest(Cats(X, Y), b) \subseteq new.remainder
    <3>1. E \ {<<>>} \subseteq chunks /\ \A c \in chunks : Rest(Y, c) \subseteq r(c).remainder
      BY <2>7, <2>4 DEF Sound, chunks
    <3> QED BY <3>1, <2>2, <1>2
  <2>8. ASSUME new.apprxs = {} PROVE new.remainder = Rest(Cats(X, Y), b)
    <3>1. ans.apprxs = {} /\ \A c \in chunks : r(c).apprxs = {}
      BY <2>8, <2>3
    <3>2. chunks = E \ {<<>>} /\ \A c \in chunks : r(c).remainder = Rest(Y, c)
      BY <3>1, <2>4 DEF Sound, chunks
    <3> QED BY <3>2, <2>2, <1>2
  <2>9. Sound(hint, new, Rest(Cats(X, Y), b))
    BY <2>5, <2>6, <2>7, <2>8 DEF Sound
  <2> QED BY <2>9 DEF new, Y
<1>5. CASE tok \notin Group
  <2>1. Y = {<<tok>>} /\ tok \in Tok
    BY <1>5 DEF TokWords
  <2>2. new.remainder = {Tail(c) : c \in {d \in chunks : Head(d) = tok}} /\ new.apprxs = ans.apprxs
    BY <1>5 DEF MatchToken, Answer
  <2>3. \A c \in Name : /\ Tail(c) \in Name \cup {<<>>}
                         /\ Rest(Y, c) = IF Head(c) = tok THEN {Tail(c)} ELSE {}
    BY <2>1, TokRest
  <2> HIDE DEF new, Y, chunks
  <2>4. new.remainder \subseteq Name \cup {<<>>}
    BY <2>2, <2>3, <1>3
  <2>5. new.remainder = UNION {Rest(Y, c) : c \in chunks}
    <3>1. \A c \in chunks : Rest(Y, c) = IF Head(c) = tok THEN {Tail(c)} ELSE {}
      BY <2>3, <1>3
    <3> QED BY <3>1, <2>2
  <2>6. ASSUME hint = "Under" PROVE new.remainder \subseteq Rest(Cats(X, Y), b)
    <3>1. chunks \subseteq E \ {<<>>}
      BY <2>6 DEF Sound, chunks
    <3> QED BY <3>1, <2>5, <1>2
  <2>7. ASSUME hint = "Over" PROVE Rest(Cats(X, Y), b) \subseteq new.remainder
    <3>1. E \ {<<>>} \subseteq chunks
      BY <2>7 DEF Sound, chunks
    <3> QED BY <3>1, <2>5, <1>2
  <2>8. ASSUME new.apprxs = {} PROVE new.remainder = Rest(Cats(X, Y), b)
    <3>1. chunks = E \ {<<>>}
      BY <2>8, <2>2 DEF Sound, chunks
    <3> QED BY <3>1, <2>5, <1>2
  <2>9. Sound(hint, new, Rest(Cats(X, Y), b))
    BY <2>4, <2>6, <2>7, <2>8 DEF Sound
  <2> QED BY <2>9 DEF new, Y
<1> QED BY <1>4, <1>5

(* What a pattern spells consists of words. *)
LEMMA SpellWords ==
    ASSUME NEW m, NEW p, IsPattern(p, Tok \cup Group)
    PROVE  Spell(m, p) \in SUBSET Word
<1>1. /\ Len(p.toks) \in Nat /\ (p.toks = <<>> <=> Len(p.toks) = 0)
      /\ p = AllPrincipals \/ p.end \in {"glob", "exact", "bad"}
  BY DEF IsPattern
<1>2. PICK f : /\ f = [i \in 0..Len(p.toks) |-> IF i = 0 THEN {<<>>}
                                                ELSE Cats(f[i - 1], TokWords(m, p.toks[i]))]
               /\ Spell(m, p) = IF ~IsValid(p) \/ p = AllPrincipals THEN {}
                                ELSE IF p.end = "exact" THEN Cats(f[Len(p.toks)], {<<"$">>})
                                ELSE f[Len(p.toks)]
  BY <1>1, SpelledInTurn
<1> DEFINE S == {i \in Nat : i \in 0..Len(p.toks) =>
                              f[i] \in SUBSET (Word \cup {<<>>}) /\ (i # 0 => f[i] \in SUBSET Word)}
<1>3. 0 \in S
  BY <1>1, <1>2
<1>4. ASSUME NEW i \in Nat, i \in S PROVE i + 1 \in S
  <2> SUFFICES ASSUME i + 1 \in 0..Len(p.toks) PROVE f[i + 1] \in SUBSET Word
    OBVIOUS
  <2>1. i \in 0..Len(p.toks) /\ i + 1 # 0 /\ (i + 1) - 1 = i
    BY <1>1
  <2>2. f[i + 1] = Cats(f[i], TokWords(m, p.toks[i + 1]))
    BY <2>1, <1>2
  <2>3. f[i] \in SUBSET (Word \cup {<<>>})
    BY <2>1, <1>4
  <2> QED BY <2>2, <2>3, CatsWords
<1>5. Len(p.toks) \in S
  <2> HIDE DEF S
  <2> QED BY <1>1, <1>3, <1>4, NatSetInduction
<1>6. f[Len(p.toks)] \in SUBSET (Word \cup {<<>>}) /\ (Len(p.toks) # 0 => f[Len(p.toks)] \in SUBSET Word)
  BY <1>1, <1>5
<1>7. CASE ~IsValid(p) \/ p = AllPrincipals
  BY <1>7, <1>2
<1>8. CASE ~(~IsValid(p) \/ p = AllPrincipals)
  <2>1. CASE p.end = "exact"
    BY <1>8, <2>1, <1>2, <1>6, CatsWords
  <2>2. CASE p.end # "exact"
    <3>1. p.end = "glob" /\ p.toks # <<>>
      BY <1>8, <2>2, <1>1 DEF IsValid
    <3> QED BY <3>1, <1>8, <2>2, <1>1, <1>2, <1>6
  <2> QED BY <2>1, <2>2
<1> QED BY <1>7, <1>8

(* There are finitely many words. *)
LEMMA FiniteImage ==
    ASSUME NEW f, IsFiniteSet(DOMAIN f)
    PROVE  IsFiniteSet({f[x] : x \in DOMAIN f})
<1> DEFINE T == {f[x] : x \in DOMAIN f}
           h == [x \in DOMAIN f |-> f[x]]
<1>1. h \in Surjection(DOMAIN f, T)
  BY DEF Surjection
<1> QED BY <1>1, FS_Surjection

LEMMA FiniteWord == IsFiniteSet(Word)
<1> DEFINE S == {n \in Nat : IsFiniteSet([1..n -> Tok])}
<1>1. 0 \in S
  <2>1. 1..0 = {}
    OBVIOUS
  <2>2. \A s, t \in [1..0 -> Tok] : s = t
    BY <2>1
  <2> DEFINE E == [1..0 -> Tok]
  <2>3. E = {} \/ \E s : E = {s}
    BY <2>2
  <2> HIDE DEF E
  <2>4. IsFiniteSet(E)
    <3>1. CASE E = {}
      BY <3>1, FS_EmptySet
    <3>2. CASE \E s : E = {s}
      <4>1. PICK s : E = {s}
        BY <3>2
      <4> QED BY <4>1, FS_Singleton
    <3> QED BY <3>1, <3>2, <2>3
  <2> QED BY <2>4 DEF E
<1>2. ASSUME NEW n \in Nat, n \in S PROVE n + 1 \in S
  <2> DEFINE D == [1..n -> Tok] \X Tok
             f == [x \in D |-> [i \in 1..n + 1 |-> IF i = n + 1 THEN x[2] ELSE x[1][i]]]
             T == {f[x] : x \in DOMAIN f}
  <2>1. IsFiniteSet(D)
    BY <1>2, GroupAssumption, FS_Product
  <2>2. DOMAIN f = D
    OBVIOUS
  <2>3. IsFiniteSet(T)
    <3> HIDE DEF D, f
    <3> QED BY <2>1, <2>2, FiniteImage
  <2>4. ASSUME NEW s \in [1..n + 1 -> Tok] PROVE s \in T
    <3> DEFINE x == <<[i \in 1..n |-> s[i]], s[n + 1]>>
    <3>1. x \in D
      OBVIOUS
    <3>2. f[x] = s
      OBVIOUS
    <3> QED BY <3>1, <3>2, <2>2
  <2>5. [1..n + 1 -> Tok] \in SUBSET T
    BY <2>4
  <2>6. IsFiniteSet([1..n + 1 -> Tok])
    <3> HIDE DEF T
    <3> QED BY <2>3, <2>5, FS_Subset
  <2> QED BY <2>6
<1>3. \A n \in Nat : IsFiniteSet([1..n -> Tok])
  <2>1. Nat \subseteq S
    <3> HIDE DEF S
    <3> QED BY <1>1, <1>2, NatSetInduction
  <2> QED BY <2>1
<1> DEFINE F == [n \in 0..MaxLen |-> [1..n -> Tok]]
           B == {F[n] : n \in DOMAIN F}
<1>4. IsFiniteSet(B)
  <2>1. DOMAIN F = 0..MaxLen /\ IsFiniteSet(0..MaxLen)
    BY GroupAssumption, FS_Interval
  <2> HIDE DEF F
  <2> QED BY <2>1, FiniteImage
<1>5. \A T \in B : IsFiniteSet(T)
  BY <1>3, GroupAssumption
<1>6. IsFiniteSet(UNION B)
  <2> HIDE DEF B
  <2> QED BY <1>4, <1>5, FS_UNION
<1>7. Name \in SUBSET UNION B
  <2> SUFFICES ASSUME NEW s \in Name PROVE s \in UNION B
    OBVIOUS
  <2>1. s \in Seq(Tok) /\ Len(s) \in 1..MaxLen
    BY NameIs
  <2>2. Len(s) \in 0..MaxLen /\ s \in [1..Len(s) -> Tok]
    BY <2>1, GroupAssumption
  <2>3. F[Len(s)] \in B /\ s \in F[Len(s)]
    BY <2>2
  <2> HIDE DEF B
  <2> QED BY <2>3
<1>8. IsFiniteSet(Name)
  <2> HIDE DEF B
  <2> QED BY <1>6, <1>7, FS_Subset
<1> DEFINE C == [b \in Name |-> Closed(b)]
<1>9. IsFiniteSet({C[b] : b \in DOMAIN C})
  <2>1. DOMAIN C = Name
    OBVIOUS
  <2> HIDE DEF C
  <2> QED BY <2>1, <1>8, FiniteImage
<1>10. {Closed(b) : b \in Name} = {C[b] : b \in DOMAIN C}
  OBVIOUS
<1> HIDE DEF C
<1> QED BY <1>8, <1>9, <1>10, FS_Union DEF Word

(* Larger groups spell more. *)
Larger(m, k) == \A g \in Group : m[g] \subseteq k[g]

LEMMA CatsLarger ==
    ASSUME NEW X1, NEW X2, X1 \subseteq X2, NEW Y1, NEW Y2, Y1 \subseteq Y2
    PROVE  Cats(X1, Y1) \subseteq Cats(X2, Y2)
BY DEF Cats

LEMMA SpellLarger ==
    ASSUME NEW m, NEW k, Larger(m, k), NEW p, IsPattern(p, Tok \cup Group)
    PROVE  Spell(m, p) \subseteq Spell(k, p)
<1>1. Len(p.toks) \in Nat
  BY DEF IsPattern
<1>2. PICK f : /\ f = [i \in 0..Len(p.toks) |-> IF i = 0 THEN {<<>>}
                                                ELSE Cats(f[i - 1], TokWords(m, p.toks[i]))]
               /\ Spell(m, p) = IF ~IsValid(p) \/ p = AllPrincipals THEN {}
                                ELSE IF p.end = "exact" THEN Cats(f[Len(p.toks)], {<<"$">>})
                                ELSE f[Len(p.toks)]
  BY <1>1, SpelledInTurn
<1>3. PICK h : /\ h = [i \in 0..Len(p.toks) |-> IF i = 0 THEN {<<>>}
                                                ELSE Cats(h[i - 1], TokWords(k, p.toks[i]))]
               /\ Spell(k, p) = IF ~IsValid(p) \/ p = AllPrincipals THEN {}
                                ELSE IF p.end = "exact" THEN Cats(h[Len(p.toks)], {<<"$">>})
                                ELSE h[Len(p.toks)]
  BY <1>1, SpelledInTurn
<1> DEFINE S == {i \in Nat : i \in 0..Len(p.toks) => f[i] \subseteq h[i]}
<1>4. 0 \in S
  BY <1>1, <1>2, <1>3
<1>5. ASSUME NEW i \in Nat, i \in S PROVE i + 1 \in S
  <2> SUFFICES ASSUME i + 1 \in 0..Len(p.toks) PROVE f[i + 1] \subseteq h[i + 1]
    OBVIOUS
  <2>1. i \in 0..Len(p.toks) /\ i + 1 # 0 /\ (i + 1) - 1 = i
    BY <1>1
  <2>2. f[i + 1] = Cats(f[i], TokWords(m, p.toks[i + 1]))
    BY <2>1, <1>2
  <2>3. h[i + 1] = Cats(h[i], TokWords(k, p.toks[i + 1]))
    BY <2>1, <1>3
  <2>4. TokWords(m, p.toks[i + 1]) \subseteq TokWords(k, p.toks[i + 1])
    BY DEF TokWords, Larger
  <2>5. f[i] \subseteq h[i]
    BY <2>1, <1>5
  <2> QED BY <2>2, <2>3, <2>4, <2>5, CatsLarger
<1>6. Len(p.toks) \in S
  <2> HIDE DEF S
  <2> QED BY <1>1, <1>4, <1>5, NatSetInduction
<1>7. f[Len(p.toks)] \subseteq h[Len(p.toks)]
  BY <1>1, <1>6
<1>8. Cats(f[Len(p.toks)], {<<"$">>}) \subseteq Cats(h[Len(p.toks)], {<<"$">>})
  BY <1>7, CatsLarger
<1> QED BY <1>2, <1>3, <1>7, <1>8

LEMMA SpelledByLarger ==
    ASSUME NEW m, NEW k, Larger(m, k)
    PROVE  Larger(SpelledBy(m), SpelledBy(k))
<1> SUFFICES ASSUME NEW g \in Group PROVE SpelledBy(m)[g] \subseteq SpelledBy(k)[g]
  BY DEF Larger
<1>1. \A e \in Entries[g] : Spell(m, e) \subseteq Spell(k, e)
  BY GroupAssumption, SpellLarger
<1>2. /\ SpelledBy(m)[g] = UNION {Spell(m, e) : e \in Entries[g]}
      /\ SpelledBy(k)[g] = UNION {Spell(k, e) : e \in Entries[g]}
  BY DEF SpelledBy
<1> QED BY <1>1, <1>2

LEMMA SpelledByWords ==
    ASSUME NEW m
    PROVE  SpelledBy(m) \in [Group -> SUBSET Word]
<1>1. \A g \in Group : \A e \in Entries[g] : Spell(m, e) \in SUBSET Word
  BY GroupAssumption, SpellWords
<1> QED BY <1>1 DEF SpelledBy

(* The rounds in which Members are found. *)
Round(f, n) == f = [i \in 0..n |-> IF i = 0 THEN [g \in Group |-> {}] ELSE SpelledBy(f[i - 1])]

LEMMA RoundsExist ==
    ASSUME NEW N \in Nat
    PROVE  \E f : Round(f, N)
<1> DEFINE S == {n \in Nat : \E f : Round(f, n)}
<1>1. 0 \in S
  <2>1. Round([i \in 0..0 |-> [g \in Group |-> {}]], 0)
    BY DEF Round
  <2> QED BY <2>1
<1>2. ASSUME NEW n \in Nat, n \in S PROVE n + 1 \in S
  <2>1. PICK f : Round(f, n)
    BY <1>2
  <2> DEFINE h == [i \in 0..n + 1 |-> IF i = n + 1 THEN SpelledBy(f[n]) ELSE f[i]]
  <2>2. \A i \in 0..n : h[i] = f[i]
    OBVIOUS
  <2>3. \A i \in 0..n + 1 : h[i] = IF i = 0 THEN [g \in Group |-> {}] ELSE SpelledBy(h[i - 1])
    <3> SUFFICES ASSUME NEW i \in 0..n + 1
                 PROVE  h[i] = IF i = 0 THEN [g \in Group |-> {}] ELSE SpelledBy(h[i - 1])
      OBVIOUS
    <3>1. CASE i = n + 1
      BY <3>1, <2>2
    <3>2. CASE i # n + 1
      <4>1. i \in 0..n /\ (i # 0 => i - 1 \in 0..n)
        BY <3>2
      <4>2. f[i] = IF i = 0 THEN [g \in Group |-> {}] ELSE SpelledBy(f[i - 1])
        BY <4>1, <2>1 DEF Round
      <4> HIDE DEF h
      <4> QED BY <4>1, <4>2, <2>2
    <3> QED BY <3>1, <3>2
  <2>4. Round(h, n + 1)
    BY <2>3 DEF Round
  <2> HIDE DEF h
  <2> QED BY <2>4
<1>3. N \in S
  <2> HIDE DEF S
  <2> QED BY <1>1, <1>2, NatSetInduction
<1> QED BY <1>3

(* Each round adds to the one before; one that adds nothing must come,      *)
(* since there are only so many words to add.                               *)
LEMMA RoundsEnd ==
    ASSUME NEW f, Round(f, Rounds + 1)
    PROVE  Rounds \in Nat /\ \E n \in 0..Rounds : f[n + 1] = f[n]
<1> DEFINE U == Group \X Word
           In(n) == {x \in U : x[2] \in f[n][x[1]]}
<1>1. IsFiniteSet(U) /\ Rounds \in Nat /\ Cardinality(U) = Rounds
  BY FiniteWord, GroupAssumption, FS_Product, FS_CardinalityType DEF Rounds
<1>2. /\ f[0] = [g \in Group |-> {}]
      /\ \A n \in 0..Rounds : f[n + 1] = SpelledBy(f[n])
  <2>1. \A i \in 0..Rounds + 1 : f[i] = IF i = 0 THEN [g \in Group |-> {}] ELSE SpelledBy(f[i - 1])
    BY DEF Round
  <2>2. 0 \in 0..Rounds + 1
    BY <1>1
  <2>3. \A n \in 0..Rounds : n + 1 \in 0..Rounds + 1 /\ n + 1 # 0 /\ (n + 1) - 1 = n
    BY <1>1
  <2>4. f[0] = [g \in Group |-> {}]
    BY <2>1, <2>2
  <2>5. ASSUME NEW n \in 0..Rounds PROVE f[n + 1] = SpelledBy(f[n])
    BY <2>1, <2>3
  <2> QED BY <2>4, <2>5
<1>3. \A n \in 0..Rounds + 1 : f[n] \in [Group -> SUBSET Word]
  <2> TAKE n \in 0..Rounds + 1
  <2>1. CASE n = 0
    BY <2>1, <1>2
  <2>2. CASE n # 0
    <3>1. n - 1 \in 0..Rounds /\ (n - 1) + 1 = n
      BY <2>2, <1>1
    <3>2. f[n] = SpelledBy(f[n - 1])
      BY <3>1, <1>2
    <3> QED BY <3>2, SpelledByWords
  <2> QED BY <2>1, <2>2
<1> DEFINE S == {n \in Nat : n \in 0..Rounds => Larger(f[n], f[n + 1])}
<1>4. 0 \in S
  <2>1. \A g \in Group : f[0][g] = {}
    BY <1>2
  <2> QED BY <2>1 DEF Larger
<1>5. ASSUME NEW n \in Nat, n \in S PROVE n + 1 \in S
  <2> SUFFICES ASSUME n + 1 \in 0..Rounds PROVE Larger(f[n + 1], f[(n + 1) + 1])
    OBVIOUS
  <2>1. n \in 0..Rounds
    BY <1>1
  <2>2. Larger(f[n], f[n + 1])
    BY <2>1, <1>5
  <2> QED BY <2>1, <2>2, <1>2, SpelledByLarger
<1>6. \A n \in 0..Rounds : Larger(f[n], f[n + 1])
  <2>1. Nat \subseteq S
    <3> HIDE DEF S
    <3> QED BY <1>4, <1>5, NatSetInduction
  <2> QED BY <2>1, <1>1
<1>7. SUFFICES ASSUME \A n \in 0..Rounds : f[n + 1] # f[n] PROVE FALSE
  BY <1>1
<1>8. \A n : IsFiniteSet(In(n)) /\ Cardinality(In(n)) \in Nat /\ Cardinality(In(n)) <= Rounds
  <2> TAKE n
  <2>1. In(n) \in SUBSET U
    OBVIOUS
  <2> HIDE DEF U, In
  <2> QED BY <2>1, <1>1, FS_Subset, FS_CardinalityType
<1>9. ASSUME NEW n \in 0..Rounds PROVE Cardinality(In(n)) < Cardinality(In(n + 1))
  <2>1. f[n] \in [Group -> SUBSET Word] /\ f[n + 1] \in [Group -> SUBSET Word]
    <3>1. n \in 0..Rounds + 1 /\ n + 1 \in 0..Rounds + 1
      BY <1>1
    <3> QED BY <3>1, <1>3
  <2>2. Larger(f[n], f[n + 1]) /\ f[n + 1] # f[n]
    BY <1>6, <1>7
  <2>3. PICK g \in Group : f[n][g] # f[n + 1][g]
    BY <2>1, <2>2
  <2>4. PICK w \in f[n + 1][g] : w \notin f[n][g]
    BY <2>2, <2>3 DEF Larger
  <2>5. <<g, w>> \in In(n + 1) /\ <<g, w>> \notin In(n)
    BY <2>1, <2>4
  <2>6. In(n) \in SUBSET In(n + 1)
    BY <2>2 DEF Larger
  <2> HIDE DEF In
  <2>7. Cardinality(In(n)) <= Cardinality(In(n + 1)) /\ Cardinality(In(n)) # Cardinality(In(n + 1))
    BY <2>5, <2>6, <1>8, FS_Subset
  <2> QED BY <2>7, <1>8
<1> DEFINE C == {n \in Nat : n \in 0..Rounds + 1 => Cardinality(In(n)) >= n}
<1> HIDE DEF In, U
<1>10. 0 \in C
  BY <1>8
<1>11. ASSUME NEW n \in Nat, n \in C PROVE n + 1 \in C
  <2> SUFFICES ASSUME n + 1 \in 0..Rounds + 1 PROVE Cardinality(In(n + 1)) >= n + 1
    OBVIOUS
  <2>1. n \in 0..Rounds /\ n \in 0..Rounds + 1
    BY <1>1
  <2>2. Cardinality(In(n)) >= n
    BY <2>1, <1>11
  <2>3. /\ Cardinality(In(n)) < Cardinality(In(n + 1))
        /\ Cardinality(In(n)) \in Nat /\ Cardinality(In(n + 1)) \in Nat
    BY <2>1, <1>8, <1>9
  <2> QED BY <2>2, <2>3
<1>12. Rounds + 1 \in C
  <2>1. Rounds + 1 \in Nat
    BY <1>1
  <2> HIDE DEF C
  <2> QED BY <2>1, <1>10, <1>11, NatSetInduction
<1>13. Cardinality(In(Rounds + 1)) >= Rounds + 1
  BY <1>12, <1>1
<1> QED BY <1>13, <1>1, <1>8

(* The members of the groups are what their entries spell. *)
LEMMA MembersSpelled == Members = SpelledBy(Members)
<1>1. Rounds \in Nat
  BY FiniteWord, GroupAssumption, FS_Product, FS_CardinalityType DEF Rounds
<1> DEFINE step == CHOOSE f : Round(f, Rounds + 1)
           n == CHOOSE n \in 0..Rounds : step[n + 1] = step[n]
<1>2. Round(step, Rounds + 1)
  <2>1. \E f : Round(f, Rounds + 1)
    BY <1>1, RoundsExist
  <2> QED BY <2>1
<1>3. Members = step[n]
  BY DEF Members, Round
<1> HIDE DEF step
<1>4. n \in 0..Rounds /\ step[n + 1] = step[n]
  <2>1. \E k \in 0..Rounds : step[k + 1] = step[k]
    BY <1>2, RoundsEnd
  <2> QED BY <2>1
<1> HIDE DEF n
<1>5. step[n + 1] = SpelledBy(step[n])
  <2>1. n + 1 \in 0..Rounds + 1 /\ n + 1 # 0 /\ (n + 1) - 1 = n
    BY <1>1, <1>4
  <2> QED BY <2>1, <1>2 DEF Round
<1> QED BY <1>3, <1>4, <1>5

LEMMA MembersAre ==
    ASSUME NEW g \in Group
    PROVE  /\ Members[g] = UNION {Spell(Members, e) : e \in Entries[g]}
           /\ Members[g] \subseteq Word
<1>1. Members[g] = UNION {Spell(Members, e) : e \in Entries[g]}
  <2> DEFINE m == Members
  <2> HIDE DEF m
  <2>1. SpelledBy(m)[g] = UNION {Spell(m, e) : e \in Entries[g]}
    BY DEF SpelledBy
  <2>2. m = SpelledBy(m)
    BY MembersSpelled DEF m
  <2>3. m[g] = UNION {Spell(m, e) : e \in Entries[g]}
    BY <2>1, <2>2
  <2> QED BY <2>3 DEF m
<1>2. \A e \in Entries[g] : Spell(Members, e) \in SUBSET Word
  BY GroupAssumption, SpellWords
<1> QED BY <1>1, <1>2

(* Matching keeps to the side the hint names, if the groups' servers do. *)
LEMMA ApproximateSound ==
    ASSUME NEW hint \in {"Under", "Over"}, NEW b \in Name,
           NEW exact \in SUBSET ProperSuffixes(b)
    PROVE  Sound(hint, Approximate(hint, b), exact)
<1> DEFINE a == Approximate(hint, b)
<1>1. a.remainder = (IF hint = "Under" THEN {} ELSE ProperSuffixes(b)) /\ a.apprxs = {Approximated}
  BY DEF Approximate, ApproxRemainder, Answer
<1> HIDE DEF a
<1>2. Sound(hint, a, exact)
  <2>1. a.apprxs # {}
    BY <1>1
  <2> QED BY <1>1, <2>1, SuffixIs DEF Sound
<1> QED BY <1>2 DEF a

LEMMA EmptyIsInvalid == ~IsValid(EmptyPattern) /\ EmptyPattern # AllPrincipals
BY DEF IsValid, EmptyPattern, AllPrincipals, Glob, Pattern

LEMMA NameSound ==
    ASSUME NEW hint \in {"Under", "Over"}, NEW rel, RelSound(rel, hint),
           NEW p, IsPattern(p, Tok \cup Group), p # AllPrincipals, NEW b \in Name
    PROVE  Sound(hint, MatchName(rel, p, hint, b), Remainders(Members, p, b))
<1>1. /\ p.toks \in Seq(Tok \cup Group) /\ Len(p.toks) \in Nat /\ p.end \in {"glob", "exact", "bad"}
  BY DEF IsPattern
<1>2. PICK s : /\ s = [i \in 0..Len(p.toks) |-> IF i = 0 THEN {<<>>}
                                                ELSE Cats(s[i - 1], TokWords(Members, p.toks[i]))]
               /\ Spell(Members, p) = IF ~IsValid(p) \/ p = AllPrincipals THEN {}
                                      ELSE IF p.end = "exact" THEN Cats(s[Len(p.toks)], {<<"$">>})
                                      ELSE s[Len(p.toks)]
  BY <1>1, SpelledInTurn
<1>3. PICK f : InOrder(f, rel, p.toks, b)
  BY <1>1, MatchedInTurn
<1> DEFINE n == Len(p.toks)
           S == {i \in Nat : i \in 0..n => s[i] \in SUBSET (Word \cup {<<>>}) /\ Sound(hint, f[i], Rest(s[i], b))}
<1>4. 0 \in S
  <2>1. 0 \in 0..n /\ s[0] = {<<>>} /\ f[0] = Answer({b}, {})
    BY <1>1, <1>2, <1>3 DEF InOrder
  <2>2. Rest(s[0], b) = {b}
    BY <2>1, RestEmpty
  <2>3. Sound(hint, f[0], Rest(s[0], b))
    BY <2>1, <2>2 DEF Sound, Answer
  <2> QED BY <2>1, <2>3
<1>5. ASSUME NEW i \in Nat, i \in S PROVE i + 1 \in S
  <2> SUFFICES ASSUME i + 1 \in 0..n
               PROVE  s[i + 1] \in SUBSET (Word \cup {<<>>}) /\ Sound(hint, f[i + 1], Rest(s[i + 1], b))
    OBVIOUS
  <2>1. i \in 0..n /\ i + 1 # 0 /\ (i + 1) - 1 = i /\ i + 1 \in 1..n
    BY <1>1
  <2>2. s[i + 1] = Cats(s[i], TokWords(Members, p.toks[i + 1]))
    BY <2>1, <1>2
  <2>3. f[i + 1] = MatchToken(rel, p.toks[i + 1], f[i])
    BY <2>1, <1>3 DEF InOrder
  <2>4. s[i] \in SUBSET (Word \cup {<<>>}) /\ Sound(hint, f[i], Rest(s[i], b))
    BY <2>1, <1>5
  <2>5. p.toks[i + 1] \in Tok \cup Group
    BY <2>1, <1>1
  <2>6. \A g \in Group : Members[g] \subseteq Word
    BY MembersAre
  <2>7. Sound(hint, f[i + 1], Rest(s[i + 1], b))
    BY <2>2, <2>3, <2>4, <2>5, <2>6, TokenSound
  <2> QED BY <2>2, <2>4, <2>7, CatsWords
<1>6. n \in S
  <2> HIDE DEF S
  <2> QED BY <1>1, <1>4, <1>5, NatSetInduction
<1>7. s[n] \in SUBSET (Word \cup {<<>>}) /\ Sound(hint, f[n], Rest(s[n], b))
  BY <1>1, <1>6
<1>8. CASE ~IsValid(p)
  <2>1. Spell(Members, p) = {}
    BY <1>8, <1>2
  <2>2. Remainders(Members, p, b) = {}
    BY <2>1, RestIn DEF Remainders
  <2>3. CASE p = EmptyPattern
    <3>1. MatchName(rel, p, hint, b) = Answer({}, {})
      BY <2>3 DEF MatchName
    <3> QED BY <2>2, <3>1 DEF Sound, Answer
  <2>4. CASE p # EmptyPattern
    <3>1. MatchName(rel, p, hint, b) = Approximate(hint, b)
      BY <1>8, <2>4 DEF MatchName, Malformed
    <3> QED BY <2>2, <3>1, ApproximateSound
  <2> QED BY <2>3, <2>4
<1>9. CASE IsValid(p) /\ p.end = "glob"
  <2>1. MatchName(rel, p, hint, b) = f[n]
    BY <1>9, <1>3, EmptyIsInvalid DEF MatchName, Malformed, InOrder
  <2>2. Spell(Members, p) = s[n]
    BY <1>9, <1>2
  <2> QED BY <2>1, <2>2, <1>7 DEF Remainders
<1>10. CASE IsValid(p) /\ p.end = "exact"
  <2>1. MatchName(rel, p, hint, b) = Answer(f[n].remainder \cap {<<>>}, f[n].apprxs)
    BY <1>10, <1>3, EmptyIsInvalid DEF MatchName, Malformed, InOrder
  <2>2. Spell(Members, p) = Cats(s[n], {<<"$">>})
    BY <1>10, <1>2
  <2>3. Remainders(Members, p, b) = Rest(s[n], b) \cap {<<>>}
    BY <2>2, <1>7, EndRest DEF Remainders
  <2> QED BY <2>1, <2>3, <1>7 DEF Sound, Answer
<1> QED BY <1>1, <1>8, <1>9, <1>10 DEF IsValid

LEMMA UnionSound ==
    ASSUME NEW hint, NEW A, NEW X,
           \A a \in A : \E x \in X : Sound(hint, a, x),
           \A x \in X : \E a \in A : Sound(hint, a, x)
    PROVE  Sound(hint, UnionOf(A), UNION X)
<1> DEFINE u == UnionOf(A)
<1>1. u.remainder = UNION {a.remainder : a \in A} /\ u.apprxs = UNION {a.apprxs : a \in A}
  BY DEF UnionOf, Answer
<1> HIDE DEF u
<1>2. Sound(hint, u, UNION X)
  <2>1. u.remainder \subseteq Name \cup {<<>>}
    BY <1>1 DEF Sound
  <2>2. hint = "Under" => u.remainder \subseteq UNION X
    BY <1>1 DEF Sound
  <2>3. hint = "Over" => UNION X \subseteq u.remainder
    BY <1>1 DEF Sound
  <2>4. ASSUME u.apprxs = {} PROVE u.remainder = UNION X
    <3>1. \A a \in A : a.apprxs = {}
      BY <2>4, <1>1
    <3>2. (\A a \in A : \E x \in X : a.remainder = x) /\ \A x \in X : \E a \in A : a.remainder = x
      BY <3>1 DEF Sound
    <3>3. \A r : r \in u.remainder <=> \E a \in A : r \in a.remainder
      BY <1>1
    <3>4. ASSUME NEW r \in u.remainder PROVE r \in UNION X
      <4>1. PICK a \in A : r \in a.remainder
        BY <3>3
      <4>2. PICK x \in X : a.remainder = x
        BY <3>2
      <4> QED BY <4>1, <4>2
    <3>5. ASSUME NEW r \in UNION X PROVE r \in u.remainder
      <4>1. PICK x \in X : r \in x
        OBVIOUS
      <4>2. PICK a \in A : a.remainder = x
        BY <3>2
      <4> QED BY <4>1, <4>2, <3>3
    <3> QED BY <3>4, <3>5
  <2> QED BY <2>1, <2>2, <2>3, <2>4 DEF Sound
<1> QED BY <1>2 DEF u

(* The answers of the servers keep to the side the hint names, however the  *)
(* groups refer to each other and whichever questions fail.                 *)
LEMMA ServersSound ==
    ASSUME NEW hint \in {"Under", "Over"}, NEW down
    PROVE  RelSound(Servers(hint, down), hint)
<1>1. PICK f : /\ f = [v \in SUBSET Group |-> Asked(hint, down, f, v)]
               /\ Servers(hint, down) = f[{}]
  BY ServersAnswer
<1> DEFINE S == {n \in Nat : \A v \in SUBSET Group : Cardinality(Group \ v) <= n => RelSound(f[v], hint)}
<1>2. \A v \in SUBSET Group : IsFiniteSet(Group \ v) /\ Cardinality(Group \ v) \in Nat
  <2> TAKE v \in SUBSET Group
  <2> QED BY FS_Subset, FS_CardinalityType, GroupAssumption
<1>3. ASSUME NEW v \in SUBSET Group, \A g \in Group \ v : RelSound(f[v \cup {g}], hint)
      PROVE  RelSound(f[v], hint)
  <2> SUFFICES ASSUME NEW g \in Group, NEW c \in Name
               PROVE  Sound(hint, f[v][g][c], Rest(Members[g], c))
    BY DEF RelSound
  <2>0. c \in Seq(Tok)
    BY NameIs
  <2>1. f[v][g][c] = AskedAt(hint, down, f, v, g, c)
    <3>1. f[v] = Asked(hint, down, f, v)
      BY <1>1
    <3> QED BY <3>1, <2>0 DEF Asked
  <2>2. Rest(Members[g], c) \in SUBSET ProperSuffixes(c)
    <3>1. Members[g] \in SUBSET Word
      BY MembersAre
    <3> QED BY <3>1, RestSuffix
  <2>3. CASE g \in v
    BY <2>1, <2>2, <2>3, ApproximateSound DEF AskedAt
  <2>4. CASE g \notin v /\ <<v, g, c>> \in down
    BY <2>1, <2>2, <2>4, ApproximateSound DEF AskedAt
  <2>5. CASE g \notin v /\ <<v, g, c>> \notin down
    <3> DEFINE A == {MatchName(f[v \cup {g}], e, hint, c) : e \in Entries[g]}
               X == {Remainders(Members, e, c) : e \in Entries[g]}
    <3>1. f[v][g][c] = UnionOf(A)
      BY <2>1, <2>5 DEF AskedAt
    <3>2. Rest(Members[g], c) = UNION X
      <4>1. Members[g] = UNION {Spell(Members, e) : e \in Entries[g]}
        BY MembersAre
      <4>2. Rest(Members[g], c) = UNION {Rest(W, c) : W \in {Spell(Members, e) : e \in Entries[g]}}
        BY <4>1, RestUnion
      <4> QED BY <4>2 DEF Remainders
    <3>3. \A e \in Entries[g] : Sound(hint, MatchName(f[v \cup {g}], e, hint, c), Remainders(Members, e, c))
      <4> TAKE e \in Entries[g]
      <4>1. IsPattern(e, Tok \cup Group) /\ e # AllPrincipals
        BY GroupAssumption
      <4>2. RelSound(f[v \cup {g}], hint)
        BY <1>3, <2>5
      <4> QED BY <4>1, <4>2, NameSound
    <3>4. (\A a \in A : \E x \in X : Sound(hint, a, x)) /\ \A x \in X : \E a \in A : Sound(hint, a, x)
      BY <3>3
    <3> HIDE DEF A, X
    <3> QED BY <3>1, <3>2, <3>4, UnionSound
  <2> QED BY <2>3, <2>4, <2>5
<1>4. 0 \in S
  <2> SUFFICES ASSUME NEW v \in SUBSET Group, Cardinality(Group \ v) <= 0 PROVE RelSound(f[v], hint)
    OBVIOUS
  <2>1. Group \ v = {}
    BY <1>2, FS_EmptySet
  <2> QED BY <2>1, <1>3
<1>5. ASSUME NEW n \in Nat, n \in S PROVE n + 1 \in S
  <2>0. n + 1 \in Nat
    OBVIOUS
  <2> SUFFICES ASSUME NEW v \in SUBSET Group, Cardinality(Group \ v) <= n + 1 PROVE RelSound(f[v], hint)
    BY <2>0, Zenon
  <2>1. ASSUME NEW g \in Group \ v PROVE RelSound(f[v \cup {g}], hint)
    <3>1. Group \ (v \cup {g}) = (Group \ v) \ {g} /\ v \cup {g} \in SUBSET Group
      OBVIOUS
    <3>a. IsFiniteSet(Group \ v) /\ Cardinality(Group \ v) \in Nat
      BY <1>2, Zenon
    <3>b. Cardinality((Group \ v) \ {g}) = IF g \in Group \ v THEN Cardinality(Group \ v) - 1
                                           ELSE Cardinality(Group \ v)
      BY <3>a, FS_RemoveElement, Zenon
    <3>2. Cardinality(Group \ (v \cup {g})) = Cardinality(Group \ v) - 1
      BY <3>1, <3>b, Zenon
    <3>3. Cardinality(Group \ (v \cup {g})) <= n
      BY <3>2, <1>2
    <3> QED BY <3>1, <3>3, <1>5
  <2> QED BY <2>1, <1>3
<1>6. Cardinality(Group) \in S /\ Cardinality(Group) \in Nat
  <2>1. Cardinality(Group) \in Nat
    BY FS_CardinalityType, GroupAssumption
  <2> HIDE DEF S
  <2> QED BY <2>1, <1>4, <1>5, NatSetInduction
<1>7. RelSound(f[{}], hint)
  <2>1. Group \ {} = Group /\ {} \in SUBSET Group
    OBVIOUS
  <2> QED BY <2>1, <1>6
<1> QED BY <1>1, <1>7

(* Match, for one name. *)
LEMMA MatchSound ==
    ASSUME NEW hint \in {"Under", "Over"}, NEW down, NEW p, IsPattern(p, Tok \cup Group),
           p # AllPrincipals, NEW b \in Name
    PROVE  Sound(hint, Match(p, hint, down, {b}), Remainders(Members, p, b))
<1> DEFINE a == MatchName(Servers(hint, down), p, hint, b)
<1>1. Sound(hint, a, Remainders(Members, p, b))
  BY ServersSound, NameSound
<1> DEFINE m == IF Malformed(p) THEN {Approximated} ELSE {}
<1>2. Match(p, hint, down, {b}) = Answer(UnionOf({a}).remainder, UnionOf({a}).apprxs \cup m)
  BY DEF Match
<1> HIDE DEF a, m
<1>3. UnionOf({a}).remainder = a.remainder /\ UnionOf({a}).apprxs = a.apprxs
  BY DEF UnionOf, Answer
<1>4. /\ Match(p, hint, down, {b}).remainder = a.remainder
      /\ Match(p, hint, down, {b}).apprxs = a.apprxs \cup m
  BY <1>2, <1>3 DEF Answer
<1> QED BY <1>1, <1>4 DEF Sound
-----------------------------------------------------------------------------
(* Patterns without groups. *)

LEMMA TokPrefix ==
    ASSUME NEW u \in Seq(Tok), NEW t \in Seq(Tok)
    PROVE  /\ IsPrefix(u, t) <=> Len(u) <= Len(t) /\ \A j \in 1..Len(u) : u[j] = t[j]
           /\ Len(u) = Len(t) /\ (\A j \in 1..Len(u) : u[j] = t[j]) => u = t
           /\ Len(u) \in Nat /\ Len(t) \in Nat
<1>1. u \in Seq(Char) /\ t \in Seq(Char)
  BY DEF Char
<1>2. Len(u) = Len(t) /\ (\A j \in 1..Len(u) : u[j] = t[j]) => u = t
  BY SeqEqual
<1> QED BY <1>1, <1>2, PrefixIs

LEMMA PrefixTransitive ==
    ASSUME NEW u \in Seq(Tok), NEW v \in Seq(Tok), NEW t \in Seq(Tok), IsPrefix(u, v), IsStrictPrefix(v, t)
    PROVE  IsStrictPrefix(u, t)
<1>1. IsPrefix(v, t) /\ v # t
  BY DEF IsStrictPrefix
<1>2. Len(u) <= Len(v) /\ Len(v) <= Len(t) /\ Len(u) \in Nat /\ Len(v) \in Nat /\ Len(t) \in Nat
  BY <1>1, TokPrefix
<1>3. (\A j \in 1..Len(u) : u[j] = v[j]) /\ \A j \in 1..Len(v) : v[j] = t[j]
  BY <1>1, TokPrefix
<1>4. \A j \in 1..Len(u) : j \in 1..Len(v)
  BY <1>2
<1>5. IsPrefix(u, t)
  BY <1>2, <1>3, <1>4, TokPrefix
<1>6. Len(v) < Len(t)
  <2>1. Len(v) # Len(t)
    BY <1>1, <1>3, TokPrefix
  <2> QED BY <2>1, <1>2
<1>7. Len(u) # Len(t)
  BY <1>2, <1>6
<1> QED BY <1>5, <1>7 DEF IsStrictPrefix

(* An Enforceable list stays below the roots. *)
LEMMA EnforcedIsCovered ==
    ASSUME NEW p, IsPattern(p, Tok), p # AllPrincipals, NEW b \in Name
    PROVE  EnforcedCovered(p, b)
<1> SUFFICES ASSUME NEW q \in AllPatterns, Enforceable([In |-> <<p>>, NotIn |-> <<>>], {q}),
                    MatchedBy(p, {b})
             PROVE  MatchedBy(q, {b})
  BY DEF EnforcedCovered
<1>1. IsValid(p) /\ IsRecognized(p, {q})
  <2> DEFINE acl == [In |-> <<p>>, NotIn |-> <<>>]
  <2>1. ~IsOpen(acl)
    <3>1. <<p>> # <<AllPrincipals>>
      <4>1. <<p>>[1] = p /\ <<AllPrincipals>>[1] = AllPrincipals
        OBVIOUS
      <4> QED BY <4>1
    <3> QED BY <3>1 DEF IsOpen
  <2>2. acl.In = <<p>> /\ 1 \in DOMAIN <<p>> /\ <<p>>[1] = p
    OBVIOUS
  <2> HIDE DEF acl
  <2>3. Enforceable(acl, {q})
    BY DEF acl
  <2> QED BY <2>1, <2>2, <2>3 DEF Enforceable
<1>2. /\ p.toks \in Seq(Tok) /\ p.toks # <<>> /\ b \in Seq(Tok)
      /\ b = p.toks \/ (p.end = "glob" /\ IsStrictPrefix(p.toks, b))
  BY NameIs DEF MatchedBy, IsPattern
<1>3. p # NoExtension
  BY <1>2 DEF NoExtension, Pattern
<1>4. ~(p.end = "glob" /\ q.end = "exact") /\ MatchedBy(q, {p.toks})
  BY <1>1, <1>3 DEF IsRecognized
<1>5. CASE q = AllPrincipals
  BY <1>5 DEF MatchedBy
<1>6. CASE q # AllPrincipals
  <2>1. /\ IsValid(q) /\ q.toks # <<>>
        /\ p.toks = q.toks \/ (q.end = "glob" /\ IsStrictPrefix(q.toks, p.toks))
    BY <1>4, <1>6 DEF MatchedBy
  <2>2. q.end \in {"glob", "exact"} /\ q.toks \in Seq(Tok \cup Group)
    BY <1>6, <2>1, PatternAssumption DEF IsPattern, IsValid
  <2>3. q.toks \in Seq(Tok) /\ IsPrefix(q.toks, p.toks)
    <3>1. CASE p.toks = q.toks
      BY <3>1, <1>2, TokPrefix
    <3>2. CASE IsStrictPrefix(q.toks, p.toks)
      <4> DEFINE u == q.toks
                 t == p.toks
      <4>1. IsPrefix(u, t) /\ u \in Seq(Tok \cup Group) /\ t \in Seq(Tok)
        BY <3>2, <2>2, <1>2 DEF IsStrictPrefix
      <4> HIDE DEF u, t
      <4>2. SubSeq(u, 1, Len(u)) = u /\ SubSeq(t, 1, Len(u)) \in Seq(Tok)
        <5>1. SubSeq(u, 1, Len(u)) = u
          BY <4>1
        <5>2. Len(u) \in Nat /\ Len(u) <= Len(t)
          BY <4>1 DEF IsPrefix
        <5> QED BY <4>1, <5>1, <5>2
      <4>3. u \in Seq(Tok)
        BY <4>1, <4>2 DEF IsPrefix
      <4> QED BY <4>1, <4>3 DEF u, t
    <3> QED BY <2>1, <3>1, <3>2
  <2>4. CASE b = p.toks
    BY <2>1, <2>4 DEF MatchedBy
  <2>5. CASE p.end = "glob" /\ IsStrictPrefix(p.toks, b)
    <3>1. q.end = "glob"
      BY <1>4, <2>2, <2>5
    <3>2. IsStrictPrefix(q.toks, b)
      BY <1>2, <2>3, <2>5, PrefixTransitive
    <3> QED BY <3>1, <3>2, <2>1 DEF MatchedBy
  <2> QED BY <1>2, <2>4, <2>5
<1> QED BY <1>5, <1>6

(* The first components of a pattern. *)
LEMMA Firsts ==
    ASSUME NEW t \in Seq(Tok), NEW i \in 1..Len(t)
    PROVE  /\ SubSeq(t, 1, i) \in Seq(Tok) /\ Len(SubSeq(t, 1, i)) = i
           /\ \A j \in 1..i : SubSeq(t, 1, i)[j] = t[j]
OBVIOUS

LEMMA PrefixPatternsAre ==
    ASSUME NEW p, IsPattern(p, Tok), p.toks # <<>>, NEW b \in Name
    PROVE  (\E i \in DOMAIN PrefixPatterns(p) : MatchedBy(PrefixPatterns(p)[i], {b}))
           <=> MatchedBy(p, {b}) \/ \E i \in 1..Len(p.toks) - 1 : b = SubSeq(p.toks, 1, i)
<1> DEFINE t == p.toks
           n == Len(t) - 1
           s == [i \in 1..n |-> MakeNonExtendable(Glob(SubSeq(t, 1, i)))]
<1>1. t \in Seq(Tok) /\ n \in Nat /\ t # <<>>
  BY DEF IsPattern
<1>2. PrefixPatterns(p) = s \o <<p>>
  BY DEF PrefixPatterns
<1>3. ASSUME NEW i \in 1..n PROVE s[i] = Exactly(SubSeq(t, 1, i))
  BY DEF MakeNonExtendable, Glob, Exactly, Pattern
<1>4. ASSUME NEW i \in 1..n PROVE MatchedBy(s[i], {b}) <=> b = SubSeq(t, 1, i)
  <2> DEFINE u == SubSeq(t, 1, i)
             q == Exactly(u)
  <2>0. i \in 1..Len(t)
    BY <1>1
  <2>1. u # <<>>
    <3>1. Len(u) = i /\ i # 0
      BY <1>1, <2>0, Firsts
    <3> HIDE DEF u
    <3> QED BY <3>1
  <2> HIDE DEF u
  <2>2. q.toks = u /\ q.end = "exact" /\ q # AllPrincipals
    BY DEF Exactly, Pattern, AllPrincipals
  <2> HIDE DEF q
  <2>3. MatchedBy(q, {b}) <=> b = u
    BY <2>1, <2>2 DEF MatchedBy, IsValid
  <2> QED BY <2>3, <1>3 DEF q, u
<1>5. s \in Seq(Range(s)) /\ Len(s) = n /\ DOMAIN s = 1..n
  <2> HIDE DEF n
  <2>1. DOMAIN s = 1..n
    OBVIOUS
  <2>2. s \in [1..n -> Range(s)]
    BY <2>1 DEF Range
  <2>3. Len(s) = n
    <3> HIDE DEF s
    <3> QED BY <2>2, <1>1
  <2> QED BY <2>1, <2>2, <2>3, <1>1
<1> HIDE DEF s, n
<1>6. /\ DOMAIN (s \o <<p>>) = 1..n + 1 /\ (s \o <<p>>)[n + 1] = p
      /\ \A i \in 1..n : (s \o <<p>>)[i] = s[i]
  <2> DEFINE T == Range(s) \cup {p}
  <2>1. s \in Seq(T) /\ <<p>> \in Seq(T)
    BY <1>5
  <2> HIDE DEF T
  <2> QED BY <1>1, <1>5, <2>1
<1>7. (\E i \in 1..n + 1 : MatchedBy((s \o <<p>>)[i], {b}))
      <=> MatchedBy(p, {b}) \/ \E i \in 1..n : b = SubSeq(t, 1, i)
  <2>1. \A i \in 1..n + 1 : i \in 1..n \/ i = n + 1
    BY <1>1
  <2>2. n + 1 \in 1..n + 1 /\ \A i \in 1..n : i \in 1..n + 1
    BY <1>1
  <2> QED BY <2>1, <2>2, <1>4, <1>6
<1>8. (\E i \in DOMAIN PrefixPatterns(p) : MatchedBy(PrefixPatterns(p)[i], {b}))
      <=> MatchedBy(p, {b}) \/ \E i \in 1..n : b = SubSeq(t, 1, i)
  BY <1>2, <1>6, <1>7
<1> QED BY <1>8 DEF n

LEMMA PrefixesAreExtended ==
    ASSUME NEW p, IsPattern(p, Tok), Len(p.toks) <= MaxLen, p # AllPrincipals, IsValid(p), NEW b \in Name
    PROVE  PrefixesExtend(p, b)
<1> DEFINE t == p.toks
<1>1. /\ t \in Seq(Tok) /\ Len(t) \in Nat /\ b \in Seq(Tok) /\ Len(b) \in 1..MaxLen
      /\ p.end \in {"glob", "exact"}
  BY NameIs DEF IsPattern, IsValid
<1>2. CASE t = <<>>
  <2>1. \A c : ~MatchedBy(p, {c})
    BY <1>2 DEF MatchedBy
  <2>2. PrefixPatterns(p) = <<p>>
    <3> DEFINE e == [i \in 1..0 |-> MakeNonExtendable(Glob(SubSeq(t, 1, i)))]
    <3>2. e = <<>>
      OBVIOUS
    <3>3. PrefixPatterns(p) = e \o <<p>>
      BY <1>2 DEF PrefixPatterns
    <3> QED BY <3>2, <3>3
  <2>3. \A i \in DOMAIN <<p>> : <<p>>[i] = p
    OBVIOUS
  <2>4. \A i \in DOMAIN PrefixPatterns(p) : PrefixPatterns(p)[i] = p
    BY <2>2, <2>3
  <2>5. ~\E i \in DOMAIN PrefixPatterns(p) : MatchedBy(PrefixPatterns(p)[i], {b})
    BY <2>1, <2>4
  <2> QED BY <2>1, <2>5 DEF PrefixesExtend
<1>3. CASE t # <<>>
  <2>1. t \in Name
    <3>1. Len(t) # 0
      BY <1>1, <1>3
    <3>2. Len(t) \in 1..MaxLen
      BY <3>1, <1>1, GroupAssumption
    <3> QED BY <3>2, <1>1, NameIs
  <2>2. MatchedBy(p, {t})
    BY <1>3 DEF MatchedBy
  <2>3. ASSUME NEW i \in 1..Len(t) - 1, b = SubSeq(t, 1, i)
        PROVE  IsPrefix(b, t)
    <3>1. i \in 1..Len(t) /\ i <= Len(t)
      BY <1>1
    <3>2. Len(b) = i /\ \A j \in 1..i : b[j] = t[j]
      BY <2>3, <3>1, <1>1, Firsts
    <3> QED BY <3>1, <3>2, <1>1, TokPrefix
  <2>4. ASSUME NEW c \in Name, IsPrefix(b, c), MatchedBy(p, {c}), ~MatchedBy(p, {b})
        PROVE  \E i \in 1..Len(t) - 1 : b = SubSeq(t, 1, i)
    <3>1. c \in Seq(Tok) /\ p # AllPrincipals
      BY NameIs
    <3>2. IsPrefix(t, c)
      <4>1. c = t \/ IsStrictPrefix(t, c)
        BY <2>4, <3>1 DEF MatchedBy
      <4>2. IsPrefix(t, t)
        BY <1>1, TokPrefix
      <4> QED BY <4>1, <4>2 DEF IsStrictPrefix
    <3>3. b # t
      BY <2>2, <2>4
    <3>4. /\ Len(b) <= Len(c) /\ \A j \in 1..Len(b) : b[j] = c[j]
          /\ Len(t) <= Len(c) /\ \A j \in 1..Len(t) : t[j] = c[j]
          /\ Len(c) \in Nat
      BY <2>4, <3>1, <3>2, <1>1, TokPrefix
    <3>5. Len(b) < Len(t)
      <4> SUFFICES ASSUME Len(t) <= Len(b) PROVE FALSE
        BY <1>1
      <4>1. \A j \in 1..Len(t) : j \in 1..Len(b)
        BY <1>1
      <4>2. IsPrefix(t, b)
        BY <4>1, <3>4, <1>1, TokPrefix
      <4>3. IsStrictPrefix(t, b)
        BY <4>2, <3>3 DEF IsStrictPrefix
      <4>4. p.end = "glob"
        <5> SUFFICES ASSUME p.end # "glob" PROVE FALSE
          OBVIOUS
        <5>1. c = t
          BY <2>4, <3>1 DEF MatchedBy
        <5>2. Len(b) = Len(t)
          BY <5>1, <3>4, <1>1
        <5>3. \A j \in 1..Len(b) : b[j] = t[j]
          BY <5>1, <3>4
        <5> QED BY <5>2, <5>3, <3>3, <1>1, TokPrefix
      <4> QED BY <4>3, <4>4, <1>3, <2>4 DEF MatchedBy
    <3>6. Len(b) \in 1..Len(t) - 1 /\ Len(b) \in 1..Len(t)
      BY <3>5, <1>1
    <3>7. /\ SubSeq(t, 1, Len(b)) \in Seq(Tok) /\ Len(SubSeq(t, 1, Len(b))) = Len(b)
          /\ \A j \in 1..Len(b) : SubSeq(t, 1, Len(b))[j] = t[j]
      BY <3>6, <1>1, Firsts
    <3>8. \A j \in 1..Len(b) : b[j] = SubSeq(t, 1, Len(b))[j]
      <4> TAKE j \in 1..Len(b)
      <4>1. j \in 1..Len(t)
        BY <3>6, <1>1
      <4> QED BY <4>1, <3>4, <3>7
    <3>9. b = SubSeq(t, 1, Len(b))
      BY <3>7, <3>8, <1>1, TokPrefix
    <3> QED BY <3>6, <3>9
  <2>5. (\E i \in DOMAIN PrefixPatterns(p) : MatchedBy(PrefixPatterns(p)[i], {b}))
        <=> MatchedBy(p, {b}) \/ \E i \in 1..Len(t) - 1 : b = SubSeq(t, 1, i)
    BY <1>3, PrefixPatternsAre
  <2> HIDE DEF t
  <2> QED BY <2>1, <2>2, <2>3, <2>4, <2>5 DEF PrefixesExtend
<1> QED BY <1>2, <1>3

LEMMA MatchIsBounded ==
    ASSUME NEW p, IsPattern(p, Tok \cup Group), p # AllPrincipals, NEW b \in Name
    PROVE  MatchBounded(p, b)
<1>1. ASSUME NEW down \in Failures, NEW hint \in {"Under", "Over"}
      PROVE  Sound(hint, Match(p, hint, down, {b}), Remainders(Members, p, b))
  BY MatchSound
<1> QED BY <1>1 DEF MatchBounded, Sound

(* The laws of patterns, for any names, patterns and groups: Match of       *)
(* services/groups errs on the side its hint names however groups refer to  *)
(* each other and whatever questions fail, PrefixPatterns are the names that *)
(* can be extended to match, and Enforceable lists stay below the roots.    *)
THEOREM PatternsObeyLaws == Spec => []PatternLaws
<1>1. ASSUME NEW p \in AllPatterns \ {AllPrincipals}, NEW b \in Name
      PROVE  /\ MatchBounded(p, b)
             /\ ToSet(p.toks) \subseteq Tok =>
                   (IsValid(p) => PrefixesExtend(p, b)) /\ EnforcedCovered(p, b)
  <2>1. IsPattern(p, Tok \cup Group) /\ p # AllPrincipals /\ Len(p.toks) <= MaxLen
    BY PatternAssumption
  <2>2. ASSUME ToSet(p.toks) \subseteq Tok PROVE IsPattern(p, Tok)
    <3>1. p.toks \in Seq(Tok \cup Group) /\ \A i \in DOMAIN p.toks : p.toks[i] \in Tok
      BY <2>1, <2>2 DEF IsPattern, ToSet
    <3> DEFINE t == p.toks
    <3>2. t \in Seq(Tok)
      <4>1. t \in Seq(Tok \cup Group) /\ \A i \in DOMAIN t : t[i] \in Tok
        BY <3>1
      <4> HIDE DEF t
      <4>2. t \in [1..Len(t) -> Tok] /\ Len(t) \in Nat
        BY <4>1
      <4> QED BY <4>2
    <3> QED BY <2>1, <3>2 DEF IsPattern
  <2> QED BY <2>1, <2>2, MatchIsBounded, PrefixesAreExtended, EnforcedIsCovered
<1>2. PatternLaws
  BY <1>1 DEF PatternLaws
<1> QED BY <1>2, PTL
-----------------------------------------------------------------------------
(* The inductive invariant of Authorize: which names are gone and why, and  *)
(* what is known of those that are left.                                    *)

Blacklisted(g, b) == \E i \in DOMAIN Acl(g).NotIn : Matches(Members, Acl(g).NotIn[i], b)

Asking(g) ==
    /\ Tags(g)[1] \in DOMAIN call[g].perms /\ np[g] \in Nat \ {0}
    /\ blessings[g] \subseteq names[g]
    /\ \A b \in names[g] \ blessings[g] : apprxs[g] # {} \/ Blacklisted(g, b)

Pruned(g) ==
    \A b \in blessings[g], i \in DOMAIN Acl(g).NotIn :
      i < np[g] \/ (i = np[g] /\ b \in done[g]) => ~Matches(Members, Acl(g).NotIn[i], b)

Refused(g) ==
    \A i \in DOMAIN Acl(g).In : i < np[g] =>
      apprxs[g] # {} \/ (/\ Acl(g).In[i] # AllPrincipals
                         /\ \A b \in blessings[g] : ~Matches(Members, Acl(g).In[i], b))

Decided(g) ==
    /\ result[g] = "granted" =>
          Len(Tags(g)) = 1 /\ (AllBut(Acl(g)) \/ Allowed(Members, Acl(g), names[g]))
    /\ result[g] = "noPermissions" /\ Tags(g)[1] \in DOMAIN call[g].perms =>
          apprxs[g] # {} \/ ~Allowed(Members, Acl(g), names[g])

Deciding(g) ==
    /\ pc[g] # "idle" => result[g] = "none"
    /\ pc[g] = "prune" => Asking(g) /\ Pruned(g)
    /\ pc[g] = "in" => /\ Asking(g) /\ Refused(g)
                       /\ \A b \in blessings[g] : ~Blacklisted(g, b)
    /\ Decided(g)

DecisionTyped ==
    DOMAIN blessings = G /\ DOMAIN np = G /\ DOMAIN done = G /\ DOMAIN apprxs = G

DecisionInv == DecisionTyped /\ \A g \in G : Deciding(g)

(* Without groups, to match is to be matched. *)
LEMMA PlainMatches ==
    ASSUME NEW p, IsPattern(p, Tok), NEW b \in Name
    PROVE  MatchedBy(p, {b}) <=> Matches(Members, p, b)
<1>1. CASE p = AllPrincipals
  BY <1>1 DEF MatchedBy, Matches
<1>2. CASE p # AllPrincipals
  <2> DEFINE t == p.toks
             n == Len(t)
             rel == Servers("Over", {})
             ans == MatchName(rel, p, "Over", b)
  <2>1. /\ t \in Seq(Tok) /\ n \in Nat /\ b \in Seq(Tok) /\ Len(b) \in 1..MaxLen
        /\ p.end \in {"glob", "exact", "bad"} /\ IsPattern(p, Tok \cup Group)
    <3>1. t \in Seq(Tok \cup Group)
      BY DEF IsPattern
    <3> QED BY <3>1, <1>2, NameIs DEF IsPattern
  <2>2. Matches(Members, p, b) <=> Remainders(Members, p, b) # {}
    BY <1>2 DEF Matches
  <2>3. Sound("Over", ans, Remainders(Members, p, b))
    BY <1>2, <2>1, ServersSound, NameSound
  <2>4. PICK f : InOrder(f, rel, t, b)
    <3> HIDE DEF rel
    <3> QED BY <2>1, MatchedInTurn
  <2> DEFINE Fits(i) == i <= Len(b) /\ \A j \in 1..i : t[j] = b[j]
             S == {i \in Nat : i \in 0..n => /\ f[i].apprxs = {}
                                            /\ f[i].remainder = IF Fits(i) THEN {Drop(b, i)} ELSE {}}
  <2>5. 0 \in S
    <3>1. f[0].apprxs = {} /\ f[0].remainder = {b}
      BY <2>4 DEF InOrder, Answer
    <3>2. Drop(b, 0) = b
      BY <2>1 DEF Drop
    <3>3. Fits(0)
      BY <2>1
    <3> QED BY <3>1, <3>2, <3>3
  <2>6. ASSUME NEW i \in Nat, i \in S PROVE i + 1 \in S
    <3> SUFFICES ASSUME i + 1 \in 0..n
                 PROVE  /\ f[i + 1].apprxs = {}
                        /\ f[i + 1].remainder = IF Fits(i + 1) THEN {Drop(b, i + 1)} ELSE {}
      OBVIOUS
    <3>1. i \in 0..n /\ i + 1 \in 1..n /\ (i + 1) - 1 = i
      BY <2>1
    <3>2. /\ f[i].apprxs = {} /\ f[i].remainder = IF Fits(i) THEN {Drop(b, i)} ELSE {}
      BY <3>1, <2>6
    <3>3. t[i + 1] \in Tok /\ t[i + 1] \notin Group
      BY <3>1, <2>1, GroupAssumption
    <3>4. f[i + 1] = MatchToken(rel, t[i + 1], f[i])
      BY <3>1, <2>4 DEF InOrder
    <3> DEFINE chunks == f[i].remainder \ {<<>>}
    <3>5. /\ f[i + 1].apprxs = {}
          /\ f[i + 1].remainder = {Tail(c) : c \in {d \in chunks : Head(d) = t[i + 1]}}
      BY <3>2, <3>3, <3>4 DEF MatchToken, Answer
    <3>6. Fits(i + 1) <=> Fits(i) /\ i < Len(b) /\ t[i + 1] = b[i + 1]
      <4>1. ASSUME Fits(i + 1) PROVE Fits(i) /\ i < Len(b) /\ t[i + 1] = b[i + 1]
        <5>1. i + 1 \in 1..i + 1 /\ \A j \in 1..i : j \in 1..i + 1
          OBVIOUS
        <5>2. i <= Len(b) /\ i < Len(b)
          BY <4>1, <2>1
        <5> QED BY <4>1, <5>1, <5>2
      <4>2. ASSUME Fits(i), i < Len(b), t[i + 1] = b[i + 1] PROVE Fits(i + 1)
        <5>1. \A j \in 1..i + 1 : j \in 1..i \/ j = i + 1
          OBVIOUS
        <5> QED BY <4>2, <5>1, <2>1
      <4> QED BY <4>1, <4>2
    <3> DEFINE c == Drop(b, i)
    <3>7. CASE ~Fits(i)
      BY <3>2, <3>5, <3>6, <3>7
    <3>8. CASE Fits(i) /\ i >= Len(b)
      <4>1. c = <<>>
        <5>1. i \in 0..Len(b) + 1
          BY <3>8, <2>1
        <5> QED BY <5>1, <3>8, <2>1, DropIs
      <4>2. chunks = {}
        BY <4>1, <3>2, <3>8
      <4>3. ~Fits(i + 1)
        BY <3>6, <3>8, <2>1
      <4> HIDE DEF Fits
      <4> QED BY <4>2, <4>3, <3>5
    <3>9. CASE Fits(i) /\ i < Len(b)
      <4>1. /\ c \in Seq(Tok) /\ Len(c) = Len(b) - i /\ c # <<>>
            /\ \A j \in 1..Len(c) : c[j] = b[i + j]
        <5>1. i \in 0..Len(b) + 1 /\ i <= Len(b) /\ ~(i >= Len(b))
          BY <3>9, <2>1
        <5> QED BY <5>1, <2>1, DropIs
      <4>2. chunks = {c}
        BY <4>1, <3>2, <3>9
      <4>3. Drop(c, 1) = Drop(b, i + 1)
        <5>1. i \in 0..Len(b) /\ 1 \in 0..Len(b) - i + 1
          BY <3>9, <2>1
        <5> QED BY <5>1, <2>1, DropDrop
      <4>4. Drop(c, 1) = Tail(c)
        <5> HIDE DEF c
        <5>1. /\ Tail(c) \in Seq(Tok) /\ Len(Tail(c)) = Len(c) - 1
              /\ \A j \in 1..Len(c) - 1 : Tail(c)[j] = c[j + 1]
          <6>1. c \in Seq(Tok) /\ c # <<>>
            BY <4>1
          <6> QED BY <6>1
        <5>2. Len(c) >= 1
          BY <4>1
        <5>3. 1 \in 0..Len(c) + 1 /\ 1 <= Len(c)
          BY <4>1, <5>2
        <5>4. /\ Drop(c, 1) \in Seq(Tok) /\ Len(Drop(c, 1)) = Len(c) - 1
              /\ \A j \in 1..Len(Drop(c, 1)) : Drop(c, 1)[j] = c[1 + j]
          BY <5>3, <4>1, DropIs
        <5>5. \A j \in 1..Len(c) - 1 : Drop(c, 1)[j] = Tail(c)[j]
          BY <5>1, <5>4
        <5> QED BY <5>1, <5>4, <5>5, SeqEqual
      <4>5. Head(c) = b[i + 1]
        <5> HIDE DEF c
        <5>1. Head(c) = c[1] /\ 1 \in 1..Len(c)
          BY <4>1
        <5> QED BY <5>1, <4>1
      <4> HIDE DEF c, Fits, chunks
      <4> QED BY <4>2, <4>3, <4>4, <4>5, <3>5, <3>6, <3>9
    <3> QED BY <3>7, <3>8, <3>9, <2>1
  <2>7. n \in S
    <3> HIDE DEF S
    <3> QED BY <2>1, <2>5, <2>6, NatSetInduction
  <2>8. f[n].apprxs = {} /\ f[n].remainder = IF Fits(n) THEN {Drop(b, n)} ELSE {}
    <3>1. n \in 0..n
      BY <2>1
    <3> HIDE DEF Fits, n
    <3> QED BY <3>1, <2>7
  <2>9. Fits(n) <=> b = t \/ IsStrictPrefix(t, b)
    <3>1. Fits(n) <=> IsPrefix(t, b)
      BY <2>1, TokPrefix
    <3>2. IsPrefix(t, t)
      BY <2>1, TokPrefix
    <3> QED BY <3>1, <3>2 DEF IsStrictPrefix
  <2>10. ASSUME Fits(n) PROVE Drop(b, n) = <<>> <=> b = t
    <3>1. n \in 0..Len(b) + 1
      BY <2>1, <2>10
    <3>2. Drop(b, n) = <<>> <=> n >= Len(b)
      BY <3>1, <2>1, DropIs
    <3>3. ASSUME n >= Len(b) PROVE b = t
      <4>1. Len(t) = Len(b) /\ \A j \in 1..Len(t) : t[j] = b[j]
        BY <3>3, <2>1, <2>10
      <4> QED BY <4>1, <2>1, TokPrefix
    <3> QED BY <3>2, <3>3, <2>1
  <2>11. MatchedByBlessing(rel, t, b) = f[n]
    BY <2>4 DEF InOrder
  <2> HIDE DEF Fits, rel
  <2>12. CASE ~IsValid(p)
    <3>1. Spell(Members, p) = {}
      BY <2>12 DEF Spell
    <3>2. Remainders(Members, p, b) = {}
      BY <3>1, RestIn DEF Remainders
    <3> QED BY <3>2, <2>2, <2>12, <1>2 DEF MatchedBy
  <2>13. CASE IsValid(p) /\ p.end = "glob"
    <3>0. p # EmptyPattern /\ ~Malformed(p) /\ t # <<>>
      BY <2>13, EmptyIsInvalid DEF Malformed, IsValid
    <3>1. ans = f[n] /\ t # <<>>
      BY <3>0, <2>11, <2>13, <1>2 DEF MatchName
    <3>2. Remainders(Members, p, b) = f[n].remainder
      BY <3>1, <2>3, <2>8 DEF Sound
    <3>3. MatchedBy(p, {b}) <=> b = t \/ IsStrictPrefix(t, b)
      BY <3>1, <2>13, <1>2 DEF MatchedBy
    <3> QED BY <3>2, <3>3, <2>2, <2>8, <2>9
  <2>14. CASE IsValid(p) /\ p.end = "exact"
    <3>0. p # EmptyPattern /\ ~Malformed(p)
      BY <2>14, EmptyIsInvalid DEF Malformed
    <3>1. ans = Answer(f[n].remainder \cap {<<>>}, f[n].apprxs)
      BY <3>0, <2>11, <2>14, <1>2 DEF MatchName
    <3>2. Remainders(Members, p, b) = f[n].remainder \cap {<<>>}
      BY <3>1, <2>3, <2>8 DEF Sound, Answer
    <3>3. MatchedBy(p, {b}) <=> t # <<>> /\ b = t
      BY <2>14, <1>2 DEF MatchedBy
    <3>4. b # <<>>
      BY <2>1
    <3>5. MatchedBy(p, {b}) <=> b = t
      BY <3>3, <3>4
    <3>6. CASE Fits(n)
      <4>1. Remainders(Members, p, b) = {Drop(b, n)} \cap {<<>>}
        BY <3>2, <3>6, <2>8
      <4> QED BY <4>1, <3>5, <3>6, <2>2, <2>10
    <3>7. CASE ~Fits(n)
      <4>1. Remainders(Members, p, b) = {}
        BY <3>2, <3>7, <2>8
      <4> QED BY <4>1, <3>5, <3>7, <2>2, <2>9
    <3> QED BY <3>6, <3>7
  <2> QED BY <2>1, <2>12, <2>13, <2>14 DEF IsValid
<1> QED BY <1>1, <1>2

(* The questions of pruneBlacklisted and of includes, and what their        *)
(* answers say.                                                             *)
LEMMA AskedOver ==
    ASSUME NEW p, IsPattern(p, Tok \cup Group), NEW down, NEW b \in Name
    PROVE  LET ans == Match(p, "Over", down, {b})
           IN  /\ ans.remainder = {} => ~Matches(Members, p, b)
               /\ ans.remainder # {} => ans.apprxs # {} \/ Matches(Members, p, b)
<1> DEFINE ans == Match(p, "Over", down, {b})
<1>1. CASE p = AllPrincipals
  <2>1. ans = Answer({<<>>}, {}) /\ Matches(Members, p, b)
    BY <1>1 DEF Match, Matches
  <2>2. ans.remainder = {<<>>}
    BY <2>1 DEF Answer
  <2> HIDE DEF ans
  <2>3. /\ ans.remainder = {} => ~Matches(Members, p, b)
        /\ ans.remainder # {} => ans.apprxs # {} \/ Matches(Members, p, b)
    BY <2>1, <2>2
  <2> QED BY <2>3 DEF ans
<1>2. CASE p # AllPrincipals
  <2>1. Sound("Over", ans, Remainders(Members, p, b))
    BY <1>2, MatchSound
  <2> HIDE DEF ans
  <2>2. /\ ans.remainder = {} => ~Matches(Members, p, b)
        /\ ans.remainder # {} => ans.apprxs # {} \/ Matches(Members, p, b)
    BY <2>1, <1>2 DEF Sound, Matches
  <2> QED BY <2>2 DEF ans
<1> QED BY <1>1, <1>2

LEMMA AskedUnder ==
    ASSUME NEW p, IsPattern(p, Tok \cup Group), NEW down, NEW B \in SUBSET Name
    PROVE  LET ans == Match(p, "Under", down, B)
           IN  /\ ans.remainder # {} => p = AllPrincipals \/ \E b \in B : Matches(Members, p, b)
               /\ ans.remainder = {} =>
                     p # AllPrincipals /\ (ans.apprxs # {} \/ \A b \in B : ~Matches(Members, p, b))
<1> DEFINE ans == Match(p, "Under", down, B)
           a(b) == MatchName(Servers("Under", down), p, "Under", b)
           m == IF Malformed(p) THEN {Approximated} ELSE {}
<1>1. CASE p = AllPrincipals
  <2>1. ans = Answer({<<>>}, {})
    BY <1>1 DEF Match
  <2>2. ans.remainder = {<<>>}
    BY <2>1 DEF Answer
  <2> QED BY <2>2, <1>1
<1>2. CASE p # AllPrincipals
  <2>1. \A b \in B : Sound("Under", a(b), Remainders(Members, p, b))
    BY <1>2, ServersSound, NameSound
  <2>2. /\ \A r : r \in ans.remainder <=> \E b \in B : r \in a(b).remainder
        /\ \A b \in B : a(b).apprxs \subseteq ans.apprxs
    <3> DEFINE u == UnionOf({a(b) : b \in B})
    <3>1. ans = Answer(u.remainder, u.apprxs \cup m)
      BY <1>2 DEF Match
    <3>2. /\ \A r : r \in u.remainder <=> \E b \in B : r \in a(b).remainder
          /\ \A b \in B : a(b).apprxs \subseteq u.apprxs
      <4> HIDE DEF a
      <4> QED BY DEF UnionOf, Answer
    <3> HIDE DEF u, ans, m, a
    <3>3. ans.remainder = u.remainder /\ ans.apprxs = u.apprxs \cup m
      BY <3>1 DEF Answer
    <3> QED BY <3>2, <3>3
  <2> HIDE DEF ans, a, m
  <2>3. ASSUME ans.remainder # {} PROVE \E b \in B : Matches(Members, p, b)
    <3>1. PICK b \in B : a(b).remainder # {}
      BY <2>2, <2>3
    <3>2. Remainders(Members, p, b) # {}
      BY <3>1, <2>1 DEF Sound
    <3> QED BY <3>2 DEF Matches
  <2>4. ASSUME ans.remainder = {}, ans.apprxs = {}, NEW b \in B PROVE ~Matches(Members, p, b)
    <3>1. a(b).remainder = {} /\ a(b).apprxs = {}
      BY <2>2, <2>4
    <3>2. Remainders(Members, p, b) = {}
      BY <3>1, <2>1 DEF Sound
    <3> QED BY <3>2, <1>2 DEF Matches
  <2>5. /\ ans.remainder # {} => p = AllPrincipals \/ \E b \in B : Matches(Members, p, b)
        /\ ans.remainder = {} =>
              p # AllPrincipals /\ (ans.apprxs # {} \/ \A b \in B : ~Matches(Members, p, b))
    BY <2>3, <2>4, <1>2
  <2> QED BY <2>5 DEF ans
<1> QED BY <1>1, <1>2

(* "..." lets everybody in, but where NotIn keeps somebody out. *)
LEMMA OpenAllowed ==
    ASSUME NEW acl, NEW N, AllPrincipals \in ToSet(acl.In)
    PROVE  AllBut(acl) \/ Allowed(Members, acl, N)
<1>1. CASE acl.NotIn # <<>>
  BY <1>1 DEF AllBut
<1>2. CASE acl.NotIn = <<>>
  <2>1. ToSet(acl.NotIn) = {}
    BY <1>2 DEF ToSet
  <2> QED BY <2>1 DEF Allowed, Matches
<1> QED BY <1>1, <1>2

(* Includes of security/access, for lists without groups. *)
LEMMA IncludesAllowed ==
    ASSUME NEW acl, NEW N \in SUBSET Name,
           \A i \in DOMAIN acl.In : IsPattern(acl.In[i], Tok),
           \A i \in DOMAIN acl.NotIn : IsPattern(acl.NotIn[i], Tok)
    PROVE  /\ Includes(acl, N) => AllBut(acl) \/ Allowed(Members, acl, N)
           /\ Allowed(Members, acl, N) => Includes(acl, N)
<1> DEFINE kept == PruneBlacklisted(acl, N)
<1>1. \A b \in N : b \in kept <=> \A p \in ToSet(acl.NotIn) : ~Matches(Members, p, b)
  BY PlainMatches DEF PruneBlacklisted, ToSet
<1>2. kept \subseteq N
  BY DEF PruneBlacklisted
<1> HIDE DEF kept
<1>3. \A p : MatchedBy(p, kept) <=> p = AllPrincipals \/ \E b \in kept : MatchedBy(p, {b})
  BY DEF MatchedBy
<1>4. \A i \in DOMAIN acl.In : MatchedBy(acl.In[i], kept) <=>
        acl.In[i] = AllPrincipals \/ \E b \in kept : Matches(Members, acl.In[i], b)
  BY <1>2, <1>3, PlainMatches
<1>5. Includes(acl, N) <=> \E i \in DOMAIN acl.In : MatchedBy(acl.In[i], kept)
  BY DEF Includes, kept
<1>6. ASSUME NEW i \in DOMAIN acl.In, MatchedBy(acl.In[i], kept)
      PROVE  AllBut(acl) \/ Allowed(Members, acl, N)
  <2>1. CASE acl.In[i] = AllPrincipals
    BY <2>1, OpenAllowed DEF ToSet
  <2>2. CASE \E b \in kept : Matches(Members, acl.In[i], b)
    BY <2>2, <1>1, <1>2 DEF Allowed, ToSet
  <2> QED BY <1>4, <1>6, <2>1, <2>2
<1>7. ASSUME Allowed(Members, acl, N) PROVE \E i \in DOMAIN acl.In : MatchedBy(acl.In[i], kept)
  <2>1. CASE AllPrincipals \in ToSet(acl.In)
    BY <2>1, <1>4 DEF ToSet
  <2>2. CASE \E b \in N : /\ \A p \in ToSet(acl.NotIn) : ~Matches(Members, p, b)
                          /\ \E p \in ToSet(acl.In) : Matches(Members, p, b)
    BY <2>2, <1>1, <1>4 DEF ToSet
  <2> QED BY <1>7, <2>1, <2>2 DEF Allowed
<1> QED BY <1>5, <1>6, <1>7

(* The names of a call that has names, and the patterns of its list. *)
LEMMA NamesInInstance ==
    ASSUME NamesInv, NEW g \in G, HasNames(g)
    PROVE  names[g] \in SUBSET Name
<1>1. /\ Anonymous(Chains(g)) \/ ValidBlessings(Chains(g))
      /\ names[g] \subseteq Proper(call[g], roots) /\ call[g] \in Call
  BY DEF Unnamed, Anonymous, NamesInv, NamesOf, ChainInv, Progress, Accepted, Typed
<1>2. CASE Anonymous(Chains(g))
  BY <1>1, <1>2, AnonymousHasNone DEF Chains
<1>3. CASE ValidBlessings(Chains(g))
  <2>1. \A k \in DOMAIN call[g].chains : ClaimedName(call[g].chains[k]) \in Name
    BY <1>1, <1>3, PatternAssumption DEF ValidBlessings, Chains
  <2>2. Proper(call[g], roots) \subseteq Name
    BY <2>1 DEF Proper
  <2> QED BY <1>1, <2>2
<1> QED BY <1>1, <1>2, <1>3

LEMMA AclIs ==
    ASSUME NEW g \in G, call[g] \in Call, Tags(g)[1] \in DOMAIN call[g].perms
    PROVE  /\ DOMAIN Acl(g).In = 1..Len(Acl(g).In) /\ Len(Acl(g).In) \in Nat
           /\ DOMAIN Acl(g).NotIn = 1..Len(Acl(g).NotIn) /\ Len(Acl(g).NotIn) \in Nat
           /\ \A i \in DOMAIN Acl(g).In : IsPattern(Acl(g).In[i], Tok \cup Group)
           /\ \A i \in DOMAIN Acl(g).NotIn : IsPattern(Acl(g).NotIn[i], Tok \cup Group)
           /\ call[g].authorizer = "access" =>
                /\ \A i \in DOMAIN Acl(g).In : IsPattern(Acl(g).In[i], Tok)
                /\ \A i \in DOMAIN Acl(g).NotIn : IsPattern(Acl(g).NotIn[i], Tok)
<1> DEFINE acl == Acl(g)
<1>1. acl.In \in Seq(AllPatterns) /\ acl.NotIn \in Seq(AllPatterns)
  BY PatternAssumption DEF Acl
<1>2. call[g].authorizer = "access" =>
        \A p \in ToSet(acl.In) \cup ToSet(acl.NotIn) : p.toks \in Seq(Tok)
  BY PatternAssumption DEF Acl
<1> HIDE DEF acl
<1>3. /\ DOMAIN acl.In = 1..Len(acl.In) /\ Len(acl.In) \in Nat
      /\ DOMAIN acl.NotIn = 1..Len(acl.NotIn) /\ Len(acl.NotIn) \in Nat
  BY <1>1
<1>4. /\ \A i \in DOMAIN acl.In : acl.In[i] \in AllPatterns
      /\ \A i \in DOMAIN acl.NotIn : acl.NotIn[i] \in AllPatterns
  BY <1>1
<1>5. /\ \A i \in DOMAIN acl.In : IsPattern(acl.In[i], Tok \cup Group)
      /\ \A i \in DOMAIN acl.NotIn : IsPattern(acl.NotIn[i], Tok \cup Group)
  BY <1>4, PatternAssumption
<1>6. ASSUME call[g].authorizer = "access"
      PROVE  /\ \A i \in DOMAIN acl.In : IsPattern(acl.In[i], Tok)
             /\ \A i \in DOMAIN acl.NotIn : IsPattern(acl.NotIn[i], Tok)
  <2>1. /\ \A i \in DOMAIN acl.In : acl.In[i].toks \in Seq(Tok)
        /\ \A i \in DOMAIN acl.NotIn : acl.NotIn[i].toks \in Seq(Tok)
    BY <1>2, <1>6 DEF ToSet
  <2> QED BY <2>1, <1>5 DEF IsPattern
<1>7. call[g].authorizer = "access" =>
        /\ \A i \in DOMAIN acl.In : IsPattern(acl.In[i], Tok)
        /\ \A i \in DOMAIN acl.NotIn : IsPattern(acl.NotIn[i], Tok)
  BY <1>6
<1> QED BY <1>3, <1>5, <1>7 DEF acl

LEMMA OthersDecide ==
    ASSUME NEW h \in G, Deciding(h), pc'[h] = pc[h], result'[h] = result[h], call'[h] = call[h],
           names'[h] = names[h], blessings'[h] = blessings[h], np'[h] = np[h], done'[h] = done[h],
           apprxs'[h] = apprxs[h]
    PROVE  Deciding(h)'
<1>1. Tags(h)' = Tags(h) /\ Acl(h)' = Acl(h) /\ (call[h].perms)' = call[h].perms
  BY DEF Tags, Acl
<1>2. \A b : Blacklisted(h, b)' <=> Blacklisted(h, b)
  BY <1>1 DEF Blacklisted
<1>3. Asking(h)' <=> Asking(h)
  BY <1>1, <1>2 DEF Asking
<1>4. Pruned(h)' <=> Pruned(h)
  BY <1>1 DEF Pruned
<1>5. Refused(h)' <=> Refused(h)
  BY <1>1 DEF Refused
<1>6. Decided(h)' <=> Decided(h)
  BY <1>1 DEF Decided
<1> QED BY <1>2, <1>3, <1>4, <1>5, <1>6 DEF Deciding

LEMMA InitDecision == Init => DecisionInv
BY DEF Init, DecisionInv, DecisionTyped, Deciding, Decided

(* A step of g that does not reach Authorize. *)
LEMMA EarlierDecision ==
    ASSUME NamesInv, DecisionInv, NEW g \in G,
           (\E c \in Call : Receive(g, c)) \/ VerifyCert(g) \/ CacheChain(g)
             \/ Recognize(g) \/ ValidateCaveats(g) \/ CacheDischarges(g)
    PROVE  DecisionInv'
<1>1. Typed /\ NamesTyped /\ (pc[g] \in Validating => result[g] = "none")
  BY DEF NamesInv, ChainInv, NamesOf
<1>2. /\ blessings' = blessings /\ np' = np /\ done' = done
      /\ DOMAIN apprxs' = G /\ \A h \in G \ {g} : apprxs'[h] = apprxs[h]
  BY DEF Receive, VerifyCert, CacheChain, Recognize, ValidateCaveats, CheckCaveat, CacheDischarges, including,
         DecisionInv, DecisionTyped
<1>3. \A h \in G \ {g} : /\ pc'[h] = pc[h] /\ result'[h] = result[h]
                         /\ call'[h] = call[h] /\ names'[h] = names[h]
  BY <1>1 DEF Receive, VerifyCert, CacheChain, Recognize, ValidateCaveats, CheckCaveat, CacheDischarges,
              StartChain, Goto, Return, Typed, NamesTyped
<1>4. /\ pc'[g] \notin {"prune", "in"}
      /\ pc'[g] # "idle" => result'[g] = "none"
      /\ result'[g] \in {"none", "invalid"}
  BY <1>1 DEF Receive, VerifyCert, CacheChain, Recognize, ValidateCaveats, CheckCaveat, CacheDischarges,
              AfterCaveats, StartChain, Goto, Return, Typed, Validating
<1>5. Deciding(g)'
  BY <1>4 DEF Deciding, Decided
<1>6. ASSUME NEW h \in G \ {g} PROVE Deciding(h)'
  BY <1>2, <1>3, OthersDecide DEF DecisionInv
<1>7. DecisionTyped'
  BY <1>2 DEF DecisionInv, DecisionTyped
<1> QED BY <1>5, <1>6, <1>7 DEF DecisionInv

(* What the steps of Authorize have in common. *)
LEMMA DecisionStep ==
    ASSUME NamesInv, DecisionInv, NEW g \in G, Authorize(g) \/ Prune(g) \/ CheckIn(g)
    PROVE  /\ Typed /\ call[g] \in Call /\ names[g] \in SUBSET Name
           /\ pc[g] \in {"authorize", "prune", "in"} /\ result[g] = "none"
           /\ call' = call /\ names' = names
           /\ Tags(g)' = Tags(g) /\ Acl(g)' = Acl(g)
           /\ \A b : Blacklisted(g, b)' <=> Blacklisted(g, b)
           /\ Deciding(g)' => DecisionInv'
<1>1. pc[g] \in {"authorize", "prune", "in"} /\ Typed /\ NamesTyped
  BY DEF Authorize, Prune, CheckIn, NamesInv, ChainInv
<1>2. call' = call /\ names' = names
  BY DEF Authorize, Prune, CheckIn
<1>3. result[g] = "none"
  BY <1>1 DEF DecisionInv, Deciding
<1>4. names[g] \in SUBSET Name
  BY <1>1, NamesInInstance DEF HasNames
<1>5. Tags(g)' = Tags(g) /\ Acl(g)' = Acl(g)
  BY <1>2 DEF Tags, Acl
<1>6. \A b : Blacklisted(g, b)' <=> Blacklisted(g, b)
  BY <1>5 DEF Blacklisted
<1>7. /\ DecisionTyped'
      /\ \A h \in G \ {g} : /\ blessings'[h] = blessings[h] /\ np'[h] = np[h]
                            /\ done'[h] = done[h] /\ apprxs'[h] = apprxs[h]
  BY DEF Authorize, Prune, CheckIn, including, DecisionInv, DecisionTyped
<1>8. \A h \in G \ {g} : pc'[h] = pc[h] /\ result'[h] = result[h]
  BY <1>1 DEF Authorize, Prune, CheckIn, Pass, Goto, Return, Typed
<1>9. ASSUME NEW h \in G \ {g} PROVE Deciding(h)'
  BY <1>2, <1>7, <1>8, <1>9, OthersDecide DEF DecisionInv
<1>10. call[g] \in Call
  BY <1>1 DEF Typed
<1> QED BY <1>1, <1>2, <1>3, <1>4, <1>5, <1>6, <1>7, <1>9, <1>10 DEF DecisionInv

LEMMA AuthorizeDecision ==
    ASSUME NamesInv, DecisionInv, NEW g \in G, Authorize(g)
    PROVE  DecisionInv'
<1>1. /\ Typed /\ call[g] \in Call /\ names[g] \in SUBSET Name /\ result[g] = "none"
      /\ call' = call /\ names' = names /\ Tags(g)' = Tags(g) /\ Acl(g)' = Acl(g)
      /\ Deciding(g)' => DecisionInv'
  BY DecisionStep
<1> SUFFICES Deciding(g)'
  BY <1>1
<1>2. \/ Return(g, "noTags")
      \/ Tags(g)[1] \notin DOMAIN call[g].perms /\ Return(g, "noPermissions")
      \/ /\ Tags(g)[1] \in DOMAIN call[g].perms /\ call[g].authorizer = "access"
         /\ IF Includes(Acl(g), names[g]) THEN Pass(g) ELSE Return(g, "noPermissions")
      \/ /\ Tags(g)[1] \in DOMAIN call[g].perms
         /\ Goto(g, "prune")
         /\ blessings' = [blessings EXCEPT ![g] = names[g]]
         /\ np' = [np EXCEPT ![g] = 1] /\ done' = [done EXCEPT ![g] = {}]
  BY DEF Authorize
<1>3. CASE Return(g, "noTags")
  <2>1. pc'[g] = "idle" /\ result'[g] = "noTags"
    BY <1>1, <1>3 DEF Return, Typed
  <2> QED BY <2>1 DEF Deciding, Decided
<1>4. CASE Tags(g)[1] \notin DOMAIN call[g].perms /\ Return(g, "noPermissions")
  <2>1. pc'[g] = "idle" /\ result'[g] = "noPermissions"
    BY <1>1, <1>4 DEF Return, Typed
  <2> QED BY <2>1, <1>1, <1>4 DEF Deciding, Decided
<1>5. CASE /\ Tags(g)[1] \in DOMAIN call[g].perms /\ call[g].authorizer = "access"
           /\ IF Includes(Acl(g), names[g]) THEN Pass(g) ELSE Return(g, "noPermissions")
  <2>1. /\ Includes(Acl(g), names[g]) => AllBut(Acl(g)) \/ Allowed(Members, Acl(g), names[g])
        /\ Allowed(Members, Acl(g), names[g]) => Includes(Acl(g), names[g])
    <3>1. /\ \A i \in DOMAIN Acl(g).In : IsPattern(Acl(g).In[i], Tok)
          /\ \A i \in DOMAIN Acl(g).NotIn : IsPattern(Acl(g).NotIn[i], Tok)
      BY <1>1, <1>5, AclIs
    <3> QED BY <3>1, <1>1, IncludesAllowed
  <2>2. \/ /\ AllBut(Acl(g)) \/ Allowed(Members, Acl(g), names[g])
           /\ pc'[g] = "idle"
           /\ result'[g] = IF Len(Tags(g)) = 1 THEN "granted" ELSE "multipleTags"
        \/ ~Allowed(Members, Acl(g), names[g]) /\ pc'[g] = "idle" /\ result'[g] = "noPermissions"
    BY <1>1, <1>5, <2>1 DEF Pass, Return, Typed
  <2> QED BY <2>2, <1>1 DEF Deciding, Decided
<1>6. CASE /\ Tags(g)[1] \in DOMAIN call[g].perms
           /\ Goto(g, "prune")
           /\ blessings' = [blessings EXCEPT ![g] = names[g]]
           /\ np' = [np EXCEPT ![g] = 1] /\ done' = [done EXCEPT ![g] = {}]
  <2>1. pc'[g] = "prune" /\ result'[g] = "none"
    BY <1>1, <1>6 DEF Goto, Typed
  <2>2. blessings'[g] = names[g] /\ np'[g] = 1 /\ done'[g] = {}
    BY <1>6 DEF DecisionInv, DecisionTyped
  <2>3. Asking(g)'
    BY <2>2, <1>1, <1>6 DEF Asking
  <2>4. Pruned(g)'
    <3>1. \A i \in DOMAIN Acl(g).NotIn : ~(i < 1)
      BY <1>1, <1>6, AclIs
    <3> QED BY <3>1, <2>2, <1>1 DEF Pruned
  <2> QED BY <2>1, <2>3, <2>4 DEF Deciding, Decided
<1> QED BY <1>2, <1>3, <1>4, <1>5, <1>6

LEMMA PruneDecision ==
    ASSUME NamesInv, DecisionInv, NEW g \in G, Prune(g)
    PROVE  DecisionInv'
<1>1. /\ Typed /\ call[g] \in Call /\ names[g] \in SUBSET Name /\ result[g] = "none"
      /\ call' = call /\ names' = names /\ Tags(g)' = Tags(g) /\ Acl(g)' = Acl(g)
      /\ \A b : Blacklisted(g, b)' <=> Blacklisted(g, b)
      /\ Deciding(g)' => DecisionInv'
  BY DecisionStep
<1> SUFFICES Deciding(g)'
  BY <1>1
<1>2. pc[g] = "prune" /\ Asking(g) /\ Pruned(g)
  BY DEF Prune, DecisionInv, Deciding
<1>3. /\ DOMAIN Acl(g).NotIn = 1..Len(Acl(g).NotIn) /\ Len(Acl(g).NotIn) \in Nat
      /\ DOMAIN Acl(g).In = 1..Len(Acl(g).In) /\ np[g] \in Nat \ {0}
      /\ \A i \in DOMAIN Acl(g).NotIn : IsPattern(Acl(g).NotIn[i], Tok \cup Group)
  BY <1>1, <1>2, AclIs DEF Asking
<1>4. DecisionTyped /\ blessings[g] \in SUBSET Name
  BY <1>1, <1>2 DEF DecisionInv, Asking
<1>5. CASE /\ np[g] > Len(Acl(g).NotIn) /\ Goto(g, "in") /\ np' = [np EXCEPT ![g] = 1]
           /\ UNCHANGED <<blessings, done, apprxs>>
  <2>1. pc'[g] = "in" /\ result'[g] = "none" /\ np'[g] = 1
    BY <1>1, <1>4, <1>5 DEF Goto, Typed, DecisionTyped
  <2>2. Asking(g)'
    BY <2>1, <1>1, <1>2, <1>5 DEF Asking
  <2>3. Refused(g)'
    <3>1. \A i \in DOMAIN Acl(g).In : ~(i < 1)
      BY <1>3
    <3> QED BY <3>1, <2>1, <1>1 DEF Refused
  <2>4. \A b \in blessings'[g] : ~Blacklisted(g, b)'
    <3>1. \A i \in DOMAIN Acl(g).NotIn : i < np[g]
      BY <1>3, <1>5
    <3> QED BY <3>1, <1>1, <1>2, <1>5 DEF Pruned, Blacklisted
  <2> QED BY <2>1, <2>2, <2>3, <2>4 DEF Deciding, Decided
<1>6. CASE /\ np[g] <= Len(Acl(g).NotIn) /\ blessings[g] \subseteq done[g]
           /\ np' = [np EXCEPT ![g] = @ + 1] /\ done' = [done EXCEPT ![g] = {}]
           /\ UNCHANGED <<pc, result, blessings, apprxs>>
  <2>1. np'[g] = np[g] + 1 /\ done'[g] = {} /\ np[g] + 1 \in Nat \ {0}
    BY <1>3, <1>4, <1>6 DEF DecisionTyped
  <2>2. Asking(g)'
    BY <2>1, <1>1, <1>2, <1>6 DEF Asking
  <2>3. Pruned(g)'
    <3>1. \A i \in DOMAIN Acl(g).NotIn : i < np[g] + 1 => i < np[g] \/ i = np[g]
      BY <1>3
    <3> QED BY <3>1, <2>1, <1>1, <1>2, <1>6 DEF Pruned
  <2> QED BY <2>2, <2>3, <1>1, <1>2, <1>6 DEF Deciding, Decided
<1>7. ASSUME np[g] <= Len(Acl(g).NotIn), NEW b \in blessings[g] \ done[g], NEW down \in Failures,
             NEW ans, ans = Match(Acl(g).NotIn[np[g]], "Over", down, {b}),
             blessings' = [blessings EXCEPT ![g] = IF ans.remainder # {} THEN @ \ {b} ELSE @],
             done' = [done EXCEPT ![g] = @ \cup {b}],
             apprxs' = [apprxs EXCEPT ![g] = @ \cup ans.apprxs],
             UNCHANGED <<pc, result, np>>
      PROVE  Deciding(g)'
  <2>1. /\ blessings'[g] = IF ans.remainder # {} THEN blessings[g] \ {b} ELSE blessings[g]
        /\ done'[g] = done[g] \cup {b} /\ apprxs'[g] = apprxs[g] \cup ans.apprxs
    BY <1>4, <1>7 DEF DecisionTyped
  <2>2. np[g] \in DOMAIN Acl(g).NotIn
    BY <1>3, <1>7
  <2> DEFINE p == Acl(g).NotIn[np[g]]
  <2>3. /\ ans.remainder = {} => ~Matches(Members, p, b)
        /\ ans.remainder # {} => ans.apprxs # {} \/ Matches(Members, p, b)
    <3>1. IsPattern(p, Tok \cup Group) /\ b \in Name
      BY <2>2, <1>3, <1>4
    <3> HIDE DEF p
    <3>2. ans = Match(p, "Over", down, {b})
      BY <1>7 DEF p
    <3> QED BY <3>1, <3>2, AskedOver
  <2>4. Asking(g)'
    <3>1. ASSUME NEW d \in names[g] \ blessings'[g] PROVE apprxs'[g] # {} \/ Blacklisted(g, d)
      <4>1. CASE d \in blessings[g]
        <5>1. d = b /\ ans.remainder # {}
          BY <4>1, <3>1, <2>1
        <5> QED BY <5>1, <2>3, <2>1, <2>2 DEF Blacklisted
      <4>2. CASE d \notin blessings[g]
        BY <4>2, <2>1, <1>2 DEF Asking
      <4> QED BY <4>1, <4>2
    <3>2. blessings'[g] \subseteq names[g] /\ np'[g] \in Nat \ {0}
      BY <2>1, <1>2, <1>7 DEF Asking
    <3>3. Tags(g)[1] \in DOMAIN call[g].perms
      BY <1>2 DEF Asking
    <3> QED BY <3>1, <3>2, <3>3, <1>1 DEF Asking
  <2>5. Pruned(g)'
    <3>1. ASSUME NEW d \in blessings'[g], NEW i \in DOMAIN Acl(g).NotIn,
                 i < np[g] \/ (i = np[g] /\ d \in done'[g])
          PROVE  ~Matches(Members, Acl(g).NotIn[i], d)
      <4>1. d \in blessings[g]
        BY <2>1
      <4>2. CASE i < np[g] \/ (i = np[g] /\ d \in done[g])
        BY <4>1, <4>2, <1>2 DEF Pruned
      <4>3. CASE i = np[g] /\ d = b
        <5>1. ans.remainder = {}
          BY <4>3, <2>1
        <5> QED BY <5>1, <4>3, <2>3
      <4> QED BY <3>1, <4>2, <4>3, <2>1
    <3> QED BY <3>1, <1>1, <1>7 DEF Pruned
  <2> QED BY <2>4, <2>5, <1>1, <1>2, <1>7 DEF Deciding, Decided
<1> QED BY <1>5, <1>6, <1>7 DEF Prune

LEMMA CheckInDecision ==
    ASSUME NamesInv, DecisionInv, NEW g \in G, CheckIn(g)
    PROVE  DecisionInv'
<1>1. /\ Typed /\ call[g] \in Call /\ names[g] \in SUBSET Name /\ result[g] = "none"
      /\ call' = call /\ names' = names /\ Tags(g)' = Tags(g) /\ Acl(g)' = Acl(g)
      /\ \A b : Blacklisted(g, b)' <=> Blacklisted(g, b)
      /\ Deciding(g)' => DecisionInv'
  BY DecisionStep
<1> SUFFICES Deciding(g)'
  BY <1>1
<1>2. pc[g] = "in" /\ Asking(g) /\ Refused(g) /\ \A b \in blessings[g] : ~Blacklisted(g, b)
  BY DEF CheckIn, DecisionInv, Deciding
<1>3. /\ DOMAIN Acl(g).In = 1..Len(Acl(g).In) /\ Len(Acl(g).In) \in Nat /\ np[g] \in Nat \ {0}
      /\ \A i \in DOMAIN Acl(g).In : IsPattern(Acl(g).In[i], Tok \cup Group)
  BY <1>1, <1>2, AclIs DEF Asking
<1>4. DecisionTyped /\ blessings[g] \in SUBSET Name /\ blessings[g] \subseteq names[g] /\ blessings' = blessings
  BY <1>1, <1>2 DEF DecisionInv, Asking, CheckIn
<1>5. CASE np[g] > Len(Acl(g).In) /\ Return(g, "noPermissions") /\ UNCHANGED <<np, apprxs>>
  <2>1. pc'[g] = "idle" /\ result'[g] = "noPermissions"
    BY <1>1, <1>5 DEF Return, Typed
  <2>2. ASSUME apprxs[g] = {} PROVE ~Allowed(Members, Acl(g), names[g])
    <3>1. \A i \in DOMAIN Acl(g).In : /\ Acl(g).In[i] # AllPrincipals
                                     /\ \A b \in blessings[g] : ~Matches(Members, Acl(g).In[i], b)
      <4>1. \A i \in DOMAIN Acl(g).In : i < np[g]
        BY <1>3, <1>5
      <4> QED BY <4>1, <2>2, <1>2 DEF Refused
    <3>2. \A b \in names[g] : ~Blacklisted(g, b) => b \in blessings[g]
      BY <2>2, <1>2 DEF Asking
    <3> QED BY <3>1, <3>2 DEF Allowed, ToSet, Blacklisted
  <2> QED BY <2>1, <2>2, <1>1, <1>5 DEF Deciding, Decided
<1>6. ASSUME np[g] <= Len(Acl(g).In), NEW down \in Failures,
             NEW ans, ans = Match(Acl(g).In[np[g]], "Under", down, blessings[g]),
             apprxs' = [apprxs EXCEPT ![g] = @ \cup ans.apprxs],
             IF ans.remainder # {} THEN Pass(g) /\ UNCHANGED np
             ELSE np' = [np EXCEPT ![g] = @ + 1] /\ UNCHANGED <<pc, result>>
      PROVE  Deciding(g)'
  <2> DEFINE p == Acl(g).In[np[g]]
  <2>1. np[g] \in DOMAIN Acl(g).In
    BY <1>3, <1>6
  <2>2. /\ ans.remainder # {} => p = AllPrincipals \/ \E b \in blessings[g] : Matches(Members, p, b)
        /\ ans.remainder = {} =>
              p # AllPrincipals /\ (ans.apprxs # {} \/ \A b \in blessings[g] : ~Matches(Members, p, b))
    <3>1. IsPattern(p, Tok \cup Group)
      BY <2>1, <1>3
    <3> HIDE DEF p
    <3>2. ans = Match(p, "Under", down, blessings[g])
      BY <1>6 DEF p
    <3> QED BY <3>1, <3>2, <1>4, AskedUnder
  <2>3. apprxs'[g] = apprxs[g] \cup ans.apprxs
    BY <1>4, <1>6 DEF DecisionTyped
  <2>4. CASE ans.remainder # {}
    <3>1. pc'[g] = "idle" /\ result'[g] = IF Len(Tags(g)) = 1 THEN "granted" ELSE "multipleTags"
      BY <2>4, <1>1, <1>6 DEF Pass, Return, Typed
    <3>2. AllBut(Acl(g)) \/ Allowed(Members, Acl(g), names[g])
      <4>1. CASE p = AllPrincipals
        BY <4>1, <2>1, OpenAllowed DEF ToSet
      <4>2. CASE \E b \in blessings[g] : Matches(Members, p, b)
        <5>1. PICK b \in blessings[g] : Matches(Members, p, b)
          BY <4>2
        <5>2. b \in names[g] /\ ~Blacklisted(g, b)
          BY <1>2, <1>4
        <5> QED BY <5>1, <5>2, <2>1 DEF Allowed, ToSet, Blacklisted
      <4> QED BY <4>1, <4>2, <2>2, <2>4
    <3> QED BY <3>1, <3>2, <1>1 DEF Deciding, Decided
  <2>5. CASE ans.remainder = {}
    <3>1. np'[g] = np[g] + 1 /\ np[g] + 1 \in Nat \ {0} /\ UNCHANGED <<pc, result>>
      BY <2>5, <1>3, <1>4, <1>6 DEF DecisionTyped
    <3>2. Asking(g)'
      BY <3>1, <2>3, <1>1, <1>2, <1>4 DEF Asking
    <3>3. Refused(g)'
      <4>1. ASSUME NEW i \in DOMAIN Acl(g).In, i < np[g] + 1
            PROVE  apprxs'[g] # {} \/ (/\ Acl(g).In[i] # AllPrincipals
                                       /\ \A b \in blessings[g] : ~Matches(Members, Acl(g).In[i], b))
        <5>1. CASE i < np[g]
          BY <5>1, <2>3, <1>2 DEF Refused
        <5>2. CASE i = np[g]
          BY <5>2, <2>2, <2>3, <2>5
        <5> QED BY <4>1, <5>1, <5>2, <1>3
      <4> QED BY <4>1, <3>1, <1>1, <1>4 DEF Refused
    <3> QED BY <3>1, <3>2, <3>3, <1>1, <1>2, <1>4 DEF Deciding, Decided
  <2> QED BY <2>4, <2>5
<1> QED BY <1>5, <1>6 DEF CheckIn

LEMMA DecisionInvariant == Spec => []DecisionInv
<1>1. ASSUME NamesInv, DecisionInv, [Next]_vars PROVE DecisionInv'
  <2>1. ASSUME NEW g \in G, (\E c \in Call : Receive(g, c)) \/ VerifyCert(g) \/ CacheChain(g)
                              \/ Recognize(g) \/ ValidateCaveats(g) \/ CacheDischarges(g)
        PROVE  DecisionInv'
    BY <1>1, <2>1, EarlierDecision
  <2>2. ASSUME NEW g \in G, Authorize(g) PROVE DecisionInv'
    BY <1>1, <2>2, AuthorizeDecision
  <2>3. ASSUME NEW g \in G, Prune(g) PROVE DecisionInv'
    BY <1>1, <2>3, PruneDecision
  <2>4. ASSUME NEW g \in G, CheckIn(g) PROVE DecisionInv'
    BY <1>1, <2>4, CheckInDecision
  <2>5. ASSUME UNCHANGED <<pc, call, names, including, result>> PROVE DecisionInv'
    <3>1. ASSUME NEW h \in G PROVE Deciding(h)'
      BY <1>1, <2>5, OthersDecide DEF DecisionInv, including
    <3>2. DecisionTyped'
      BY <1>1, <2>5 DEF DecisionInv, DecisionTyped, including
    <3> QED BY <3>1, <3>2 DEF DecisionInv
  <2>6. ASSUME NEW b \in Introduced, AddToRoots(b) PROVE DecisionInv'
    BY <2>5, <2>6 DEF AddToRoots
  <2>7. CASE UNCHANGED vars
    BY <2>5, <2>7 DEF vars
  <2> QED
    BY <1>1, <2>1, <2>2, <2>3, <2>4, <2>6, <2>7 DEF Next
<1> QED
  BY <1>1, InitDecision, NamesInvariant, PTL DEF Spec

(* The authorizers of security/access and services/groups, for any lists,   *)
(* groups and calls: whatever questions to group servers fail at whatever   *)
(* moment and however groups include each other, access is granted only to  *)
(* a call that presents a name of In that is not in NotIn (but for lists    *)
(* with "..." in In next to a NotIn, which acl.go reads differently), and   *)
(* refused for lack of permissions only to a call that presents none, or    *)
(* when an answer was approximated.                                         *)
THEOREM AccessAsListed == Spec => []AuthorizedExactly
<1>1. DecisionInv => AuthorizedExactly
  BY DEF DecisionInv, Deciding, Decided, AuthorizedExactly
<1> QED
  BY <1>1, DecisionInvariant, PTL
=============================================================================
