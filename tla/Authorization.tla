---------------------------- MODULE Authorization ----------------------------
(***************************************************************************)
(* The server side of a call, from the certificate chains that arrive to    *)
(* the decision of the authorizer: WireBlessingsToNative with the cache of  *)
(* verified chains, RemoteBlessingNames with the cache of verified          *)
(* discharges, and Authorize of security/access or services/groups.         *)
(* Goroutines serve calls at the same time.  A look into a cache, an        *)
(* insertion, a chain's look at the roots, the validation of a caveat and a *)
(* question of the groups' authorizer are steps of their own; a third-party *)
(* caveat is validated with the discharges behind it in one step, and what  *)
(* was verified for it enters the cache in the next.                        *)
(***************************************************************************)
EXTENDS Blessings, Groups, FiniteSetsExt

CONSTANTS G,                       \* the goroutines
          Call,                    \* the calls they serve, as records (see below)
          Certificate,             \* the certificates that occur in them
          Introduced,              \* the Blessings that AddToRoots may be called with
          signatureCacheMaxSize,   \* the limit of both caches
          MaxCalls                 \* bound: the number of calls

(* The fields of a PublicKeyDischarge. *)
IsDischarge(d) ==
    /\ d = [id |-> d.id, caveats |-> d.caveats,
            signature |-> [signer |-> d.signature.signer, purpose |-> d.signature.purpose,
                           over |-> d.signature.over]]
    /\ d.caveats \in Seq(Caveat)

(* A call has the chains (of certificates) and the discharges of the remote *)
(* end; timestamp, method and tags; the local key and blessings; and the    *)
(* authorizer ("access" or "groups") with its perms.  RemoteDischarges is a *)
(* map from ids.                                                            *)
ASSUME AuthorizationAssumption ==
    /\ signatureCacheMaxSize \in Nat /\ MaxCalls \in Nat /\ Call # {}
    /\ \A c \in Call :
          /\ c.chains \in Seq(Seq(Certificate)) /\ c.authorizer \in {"access", "groups"}
          /\ \A k \in DOMAIN c.chains : ChainCaveats(c.chains[k]) \in Seq(Caveat)
          /\ \A d \in c.discharges : IsDischarge(d)
          /\ \A d, e \in c.discharges : d.id = e.id => d = e

AllPatterns == ToSet(Order)

(* Names and patterns are those of the instance: valid chains claim names,  *)
(* no pattern is longer than a name may be, lists consist of patterns, and  *)
(* those of security/access know no groups.                                 *)
ASSUME PatternAssumption ==
    /\ \A p \in AllPatterns : IsPattern(p, Tok \cup Group) /\ Len(p.toks) <= MaxLen
    /\ \A c \in Call :
          /\ \A k \in DOMAIN c.chains : ValidChain(c.chains[k]) => ClaimedName(c.chains[k]) \in Name
          /\ \A t \in DOMAIN c.perms :
                /\ c.perms[t] \in [In : Seq(AllPatterns), NotIn : Seq(AllPatterns)]
                /\ c.authorizer = "access" =>
                      \A p \in ToSet(c.perms[t].In) \cup ToSet(c.perms[t].NotIn) : p.toks \in Seq(Tok)

VARIABLES signatureCache, dischargeSignatureCache,   \* the two sigCaches
          roots,         \* the local principal's BlessingRoots
          pc, call,      \* per goroutine: its place, its call
          ci, cert,      \* the chain and the certificate it is at
          pending,       \* pendingNames: the chains whose caveats wait for validation
          cv,            \* the caveat it is at, of the first of them
          verified,      \* the discharges it has verified and not yet cached
          names,         \* validatedNames
          rootsBefore,   \* the roots when the call began (history)
          blessings,     \* includes: the names that are not blacklisted
          np, done,      \* the pattern it is at, and the names Match was asked about
          apprxs,        \* why an answer of Match was approximate
          result, calls

caches == <<signatureCache, dischargeSignatureCache>>
validating == <<cv, verified>>
including == <<blessings, np, done, apprxs>>
vars == <<caches, roots, pc, call, ci, cert, pending, validating, names, rootsBefore, including,
          result, calls>>

Init ==
    /\ signatureCache = {} /\ dischargeSignatureCache = {}
    /\ roots = {} /\ calls = 0
    /\ pc = [g \in G |-> "idle"]
    /\ call = [g \in G |-> CHOOSE c \in Call : TRUE]
    /\ ci = [g \in G |-> 1] /\ cert = [g \in G |-> 1]
    /\ cv = [g \in G |-> 1] /\ verified = [g \in G |-> {}]
    /\ pending = [g \in G |-> <<>>] /\ names = [g \in G |-> {}]
    /\ rootsBefore = [g \in G |-> {}]
    /\ blessings = [g \in G |-> {}] /\ np = [g \in G |-> 1] /\ done = [g \in G |-> {}]
    /\ apprxs = [g \in G |-> {}]
    /\ result = [g \in G |-> "none"]

Chains(g) == call[g].chains
Chain(g) == Chains(g)[ci[g]]
Goto(g, l) == pc' = [pc EXCEPT ![g] = l] /\ UNCHANGED result
Return(g, r) == pc' = [pc EXCEPT ![g] = "idle"] /\ result' = [result EXCEPT ![g] = r]

(* sigCache.cache: over the limit, random entries go. *)
CacheIn(cache, digests, new) ==
    IF Cardinality(cache \cup digests) <= signatureCacheMaxSize THEN new = cache \cup digests
    ELSE new \in kSubset(signatureCacheMaxSize, cache \cup digests)
-----------------------------------------------------------------------------
(* WireBlessingsToNative and validateCertificateChain. *)

(* The checks before chain k of chains is validated: it may not be empty,   *)
(* and all chains belong to one key, which Receive found to be one.         *)
StartChain(g, chains, k) ==
    IF chains[k] = <<>> \/ KeyOf(chains[k]) # KeyOf(chains[1])
    THEN Return(g, "invalid") /\ UNCHANGED <<ci, cert>>
    ELSE /\ Goto(g, "verify")
         /\ ci' = [ci EXCEPT ![g] = k]
         /\ cert' = [cert EXCEPT ![g] = Len(chains[k])]

(* UnmarshalPublicKey of the key that the first chain is for. *)
HasKey(chains) == chains[1] # <<>> /\ Parses(KeyOf(chains[1]))

Anonymous(chains) == chains = <<>> \/ IsNameless(chains)
Unnamed(chains) == chains = <<>> \/ (IsNameless(chains) /\ HasKey(chains))

Receive(g, c) ==
    /\ pc[g] = "idle" /\ calls < MaxCalls
    /\ calls' = calls + 1
    /\ call' = [call EXCEPT ![g] = c]
    /\ names' = [names EXCEPT ![g] = {}]
    /\ pending' = [pending EXCEPT ![g] = <<>>]
    /\ rootsBefore' = [rootsBefore EXCEPT ![g] = roots]
    /\ apprxs' = [apprxs EXCEPT ![g] = {}]
    /\ \/ /\ Unnamed(c.chains)
          /\ pc' = [pc EXCEPT ![g] = "authorize"]
          /\ result' = [result EXCEPT ![g] = "none"]
          /\ UNCHANGED <<ci, cert>>
       \/ /\ ~Anonymous(c.chains) /\ HasKey(c.chains)
          /\ pc' = [pc EXCEPT ![g] = "verify"]
          /\ result' = [result EXCEPT ![g] = "none"]
          /\ ci' = [ci EXCEPT ![g] = 1]
          /\ cert' = [cert EXCEPT ![g] = Len(c.chains[1])]
       \/ /\ c.chains # <<>> /\ ~HasKey(c.chains)
          /\ Return(g, "invalid")
          /\ UNCHANGED <<ci, cert>>
    /\ UNCHANGED <<caches, roots, validating, blessings, np, done>>

(* A loop that stops at any cached prefix, with certificates after it that  *)
(* it has not come to.                                                      *)
VerifyCertTrusting(g) ==
    /\ pc[g] = "verify"
    /\ \/ /\ \E i \in 1..cert[g] : Digest(Chain(g), i) \in signatureCache
          /\ Goto(g, "cache")
          /\ UNCHANGED cert
       \/ /\ \A i \in 1..cert[g] : Digest(Chain(g), i) \notin signatureCache
          /\ IF ~CertOk(Chain(g), cert[g]) THEN Return(g, "invalid") /\ UNCHANGED cert
             ELSE IF cert[g] = 1 THEN Goto(g, "cache") /\ UNCHANGED cert
             ELSE cert' = [cert EXCEPT ![g] = @ - 1] /\ UNCHANGED <<pc, result>>
    /\ UNCHANGED <<caches, roots, call, ci, pending, validating, names, rootsBefore, including, calls>>

(* The body of the loop over the certificates, from the last to the first:  *)
(* one look into the cache, then the certificate's own checks.              *)
VerifyCert(g) ==
    /\ pc[g] = "verify"
    /\ \/ /\ Digest(Chain(g), cert[g]) \in signatureCache
          /\ Goto(g, "cache")
          /\ UNCHANGED cert
       \/ /\ Digest(Chain(g), cert[g]) \notin signatureCache
          /\ IF ~CertOk(Chain(g), cert[g]) THEN Return(g, "invalid") /\ UNCHANGED cert
             ELSE IF cert[g] = 1 THEN Goto(g, "cache") /\ UNCHANGED cert
             ELSE cert' = [cert EXCEPT ![g] = @ - 1] /\ UNCHANGED <<pc, result>>
    /\ UNCHANGED <<caches, roots, call, ci, pending, validating, names, rootsBefore, including, calls>>

(* The chain is valid: its digests from cert[g] on enter the cache, and the *)
(* next chain is looked at.                                                 *)
CacheChain(g) ==
    /\ pc[g] = "cache"
    /\ \E new \in SUBSET (signatureCache \cup {Digest(Chain(g), i) : i \in cert[g]..Len(Chain(g))}) :
          /\ CacheIn(signatureCache, {Digest(Chain(g), i) : i \in cert[g]..Len(Chain(g))}, new)
          /\ signatureCache' = new
    /\ IF ci[g] < Len(Chains(g)) THEN StartChain(g, Chains(g), ci[g] + 1)
       ELSE /\ Goto(g, "recognize")
            /\ ci' = [ci EXCEPT ![g] = 1]
            /\ UNCHANGED cert
    /\ UNCHANGED <<dischargeSignatureCache, roots, call, pending, validating, names, rootsBefore,
                   including, calls>>
-----------------------------------------------------------------------------
(* RemoteBlessingNames. *)

(* Where g goes on while chains wait for their caveats, and afterwards. *)
AfterCaveats(todo) == IF todo = <<>> THEN "authorize" ELSE "caveats"

Recognize(g) ==
    /\ pc[g] = "recognize"
    /\ LET ok == Recognized(roots, Chain(g))
           todo == IF ok /\ ChainCaveats(Chain(g)) # <<>> THEN Append(pending[g], ci[g]) ELSE pending[g]
       IN  /\ names' = [names EXCEPT ![g] = IF ok /\ ChainCaveats(Chain(g)) = <<>>
                                            THEN @ \cup {ClaimedName(Chain(g))} ELSE @]
           /\ pending' = [pending EXCEPT ![g] = todo]
           /\ IF ci[g] < Len(Chains(g)) THEN ci' = [ci EXCEPT ![g] = @ + 1] /\ UNCHANGED <<pc, result>>
              ELSE Goto(g, AfterCaveats(todo)) /\ UNCHANGED ci
           /\ cv' = [cv EXCEPT ![g] = 1]
    /\ UNCHANGED <<caches, roots, call, cert, verified, rootsBefore, including, calls>>

(* The chain whose caveats are validated. *)
Waiting(g) == Chains(g)[Head(pending[g])]

(* defaultCaveatValidation, for a caveat of the chain that g is at, whose   *)
(* last one is at `last': the first caveat that fails ends it.              *)
CheckCaveat(g, last) ==
    /\ pc[g] = "caveats"
    /\ LET out == Validators(call[g], roots, dischargeSignatureCache)[ChainCaveats(Waiting(g))[cv[g]]]
           over == ~out.ok \/ cv[g] >= last
           todo == IF over THEN Tail(pending[g]) ELSE pending[g]
       IN  /\ names' = [names EXCEPT ![g] = IF out.ok /\ over THEN @ \cup {ClaimedName(Waiting(g))} ELSE @]
           /\ pending' = [pending EXCEPT ![g] = todo]
           /\ cv' = [cv EXCEPT ![g] = IF over THEN 1 ELSE @ + 1]
           /\ verified' = [verified EXCEPT ![g] = out.keys]
           /\ Goto(g, IF out.keys # {} THEN "discharge" ELSE AfterCaveats(todo))
    /\ UNCHANGED <<caches, roots, call, ci, cert, rootsBefore, including, calls>>

(* A loop that leaves out the last caveat. *)
ValidateCaveatsShort(g) == CheckCaveat(g, Len(ChainCaveats(Waiting(g))) - 1)

ValidateCaveats(g) == CheckCaveat(g, Len(ChainCaveats(Waiting(g))))

(* The discharges just verified enter the cache. *)
CacheDischarges(g) ==
    /\ pc[g] = "discharge"
    /\ \E new \in SUBSET (dischargeSignatureCache \cup verified[g]) :
          /\ CacheIn(dischargeSignatureCache, verified[g], new)
          /\ dischargeSignatureCache' = new
    /\ verified' = [verified EXCEPT ![g] = {}]
    /\ Goto(g, AfterCaveats(pending[g]))
    /\ UNCHANGED <<signatureCache, roots, call, ci, cert, pending, cv, names, rootsBefore, including, calls>>
-----------------------------------------------------------------------------
(* Authorize. *)

Tags(g) == Relevant(call[g].tags)
Acl(g) == call[g].perms[Tags(g)[1]]
(* A second tag is only come to when the first one lets the call pass. *)
Pass(g) == Return(g, IF Len(Tags(g)) = 1 THEN "granted" ELSE "multipleTags")

Authorize(g) ==
    /\ pc[g] = "authorize"
    /\ \/ /\ Tags(g) = <<>>
          /\ Return(g, "noTags") /\ UNCHANGED including
       \/ /\ Tags(g) # <<>>
          /\ IF Tags(g)[1] \notin DOMAIN call[g].perms
             THEN Return(g, "noPermissions") /\ UNCHANGED including
             ELSE \/ /\ call[g].authorizer = "access"
                     /\ IF Includes(Acl(g), names[g]) THEN Pass(g) ELSE Return(g, "noPermissions")
                     /\ UNCHANGED including
                  \/ /\ call[g].authorizer = "groups"
                     /\ Goto(g, "prune")
                     /\ blessings' = [blessings EXCEPT ![g] = names[g]]
                     /\ np' = [np EXCEPT ![g] = 1] /\ done' = [done EXCEPT ![g] = {}]
                     /\ UNCHANGED apprxs
    /\ UNCHANGED <<caches, roots, call, ci, cert, pending, validating, names, rootsBefore, calls>>

(* pruneBlacklisted of services/groups: each pattern of NotIn against each  *)
(* name that is left, in the random order of a Go map.  down are the        *)
(* questions to servers that fail meanwhile.                                *)
Prune(g) ==
    /\ pc[g] = "prune"
    /\ \/ /\ np[g] > Len(Acl(g).NotIn)
          /\ Goto(g, "in")
          /\ np' = [np EXCEPT ![g] = 1]
          /\ UNCHANGED <<blessings, done, apprxs>>
       \/ /\ np[g] <= Len(Acl(g).NotIn) /\ blessings[g] \subseteq done[g]
          /\ np' = [np EXCEPT ![g] = @ + 1] /\ done' = [done EXCEPT ![g] = {}]
          /\ UNCHANGED <<pc, result, blessings, apprxs>>
       \/ /\ np[g] <= Len(Acl(g).NotIn)
          /\ \E b \in blessings[g] \ done[g], down \in Failures :
               LET ans == Match(Acl(g).NotIn[np[g]], "Over", down, {b})
               IN  /\ blessings' = [blessings EXCEPT ![g] = IF ans.remainder # {} THEN @ \ {b} ELSE @]
                   /\ done' = [done EXCEPT ![g] = @ \cup {b}]
                   /\ apprxs' = [apprxs EXCEPT ![g] = @ \cup ans.apprxs]
          /\ UNCHANGED <<pc, result, np>>
    /\ UNCHANGED <<caches, roots, call, ci, cert, pending, validating, names, rootsBefore, calls>>

(* includes of services/groups: one pattern of In after the other. *)
CheckIn(g) ==
    /\ pc[g] = "in"
    /\ \/ /\ np[g] > Len(Acl(g).In)
          /\ Return(g, "noPermissions") /\ UNCHANGED <<np, apprxs>>
       \/ /\ np[g] <= Len(Acl(g).In)
          /\ \E down \in Failures :
               LET ans == Match(Acl(g).In[np[g]], "Under", down, blessings[g])
               IN  /\ apprxs' = [apprxs EXCEPT ![g] = @ \cup ans.apprxs]
                   /\ IF ans.remainder # {} THEN Pass(g) /\ UNCHANGED np
                      ELSE np' = [np EXCEPT ![g] = @ + 1] /\ UNCHANGED <<pc, result>>
    /\ UNCHANGED <<caches, roots, call, ci, cert, pending, validating, names, rootsBefore, blessings,
                   done, calls>>
-----------------------------------------------------------------------------
(* What happens meanwhile. *)

(* A step of AddToRoots, which adds the roots of the chains one by one and  *)
(* may stop with an error at any of them.                                   *)
AddToRoots(chains) ==
    /\ ~IsNameless(chains)
    /\ \E k \in DOMAIN chains :
          /\ \A i \in 1..k - 1 : RootOf(chains[i]) \in roots
          /\ RootOf(chains[k]) \notin roots
          /\ roots' = roots \cup {RootOf(chains[k])}
    /\ UNCHANGED <<caches, pc, call, ci, cert, pending, validating, names, rootsBefore, including,
                   result, calls>>

Next ==
    \/ \E g \in G : \/ \E c \in Call : Receive(g, c)
                    \/ VerifyCert(g) \/ CacheChain(g)
                    \/ Recognize(g) \/ ValidateCaveats(g) \/ CacheDischarges(g)
                    \/ Authorize(g) \/ Prune(g) \/ CheckIn(g)
    \/ \E b \in Introduced : AddToRoots(b)

Spec == Init /\ [][Next]_vars
-----------------------------------------------------------------------------
(* Whatever goroutines verify at the same time and whatever is evicted, the *)
(* cache of validateCertificateChain holds nothing but chains that are      *)
(* valid from their first certificate to their last.                        *)
CacheSound == \A d \in signatureCache : ValidChain(d)

HasNames(g) == pc[g] \in {"authorize", "prune", "in"} \/ result[g] \notin {"none", "invalid"}

(* WireBlessingsToNative accepts exactly the blessings whose chains are all *)
(* valid and of one key (or that are nameless), wherever the cache lets it  *)
(* stop and whatever other goroutines put into it or evict meanwhile.       *)
AcceptsExactly ==
    \A g \in G :
      /\ HasNames(g) => Unnamed(Chains(g)) \/ ValidBlessings(Chains(g))
      /\ result[g] = "invalid" => ~Unnamed(Chains(g)) /\ ~ValidBlessings(Chains(g))

(* The caveats that hold in the call, by what its discharges prove. *)
Proved(c, R, inner) ==
    {cav \in Caveat :
       IF cav.kind = "thirdParty"
       THEN \E d \in c.discharges : /\ d = MintDischarge(cav.key, cav, d.caveats)
                                   /\ \A i \in DOMAIN d.caveats : d.caveats[i] \in inner
       ELSE Met(c, R, cav)}
Holds(c, R) == Proved(c, R, Proved(c, R, {cav \in Caveat : Met(c, R, cav)}))

Proper(c, R) ==
    {ClaimedName(c.chains[k]) : k \in
        {k \in DOMAIN c.chains :
           /\ ~IsNameless(c.chains) /\ Recognized(R, c.chains[k])
           /\ \A i \in DOMAIN ChainCaveats(c.chains[k]) : ChainCaveats(c.chains[k])[i] \in Holds(c, R)}}

DischargesSound ==
    \A k \in dischargeSignatureCache : k[2].purpose = dischargePurpose /\ Verify(k[2], k[1], k[3])

(* RemoteBlessingNames returns the names that are rooted in the roots and   *)
(* whose caveats all hold (blessings.go:545-548): none that the roots do    *)
(* not justify by now, all that they justified when the call began.  The    *)
(* cache of discharges holds none whose signature is not valid.  An expiry  *)
(* caveat holds up to and including its time, as init.go:34 and caveat.vdl  *)
(* have it; caveat.go:222 says "before".                                    *)
NamesExact ==
    /\ DischargesSound
    /\ \A g \in G : HasNames(g) =>
          Proper(call[g], rootsBefore[g]) \subseteq names[g] /\ names[g] \subseteq Proper(call[g], roots)

(* A list with "..." in In and patterns in NotIn, which Enforceable refuses *)
(* (acl.go:85).                                                             *)
AllBut(acl) == AllPrincipals \in ToSet(acl.In) /\ acl.NotIn # <<>>

(* Access is granted only to a call with one tag whose list lets one of its *)
(* names in and blacklists that name by no pattern (access/types.vdl:109),  *)
(* however many servers of groups fail at whatever moment and however the   *)
(* groups refer to each other; and it is refused for lack of permissions    *)
(* only when the list does not let the call in, or an answer about a group  *)
(* had to be approximated.  The first is not claimed for the lists of       *)
(* AllBut: acl.go:20-28 drops the blacklisted names and finds that "..."    *)
(* matches whatever is left, also when nothing is, where types.vdl:109-110  *)
(* and the TODO of security/types.vdl:32-36 have such a caller refused.     *)
AuthorizedExactly ==
    \A g \in G :
      /\ result[g] = "granted" =>
            Len(Tags(g)) = 1 /\ (AllBut(Acl(g)) \/ Allowed(Members, Acl(g), names[g]))
      /\ result[g] = "noPermissions" /\ Tags(g)[1] \in DOMAIN call[g].perms =>
            apprxs[g] # {} \/ ~Allowed(Members, Acl(g), names[g])
-----------------------------------------------------------------------------
(* Laws of the operators, over all names and patterns of the instance. *)

(* What Match returns lies on the side of the exact remainders that the     *)
(* hint says, for every set of questions that fail, and is exact when       *)
(* nothing was approximated.                                                *)
MatchBounded(p, b) ==
    \A down \in Failures :
      LET exact == Remainders(Members, p, b)
          over == Match(p, "Over", down, {b})
          under == Match(p, "Under", down, {b})
      IN  /\ under.remainder \subseteq exact /\ exact \subseteq over.remainder
          /\ over.apprxs = {} => over.remainder = exact
          /\ under.apprxs = {} => under.remainder = exact

(* PrefixPatterns(p) is matched by the names that match p or can be         *)
(* extended to match it.                                                    *)
PrefixesExtend(p, b) ==
    (\E i \in DOMAIN PrefixPatterns(p) : MatchedBy(PrefixPatterns(p)[i], {b}))
    <=> (MatchedBy(p, {b}) \/ \E c \in Name : IsPrefix(b, c) /\ MatchedBy(p, {c}))

(* A list that is Enforceable grants nothing to a name that no root covers. *)
EnforcedCovered(p, b) ==
    \A q \in AllPatterns :
      Enforceable([In |-> <<p>>, NotIn |-> <<>>], {q}) /\ MatchedBy(p, {b}) => MatchedBy(q, {b})

(* The laws of patterns, for every name and pattern of the instance: Match  *)
(* of services/groups errs on the side its hint names (pattern.go:34),      *)
(* PrefixPatterns are the extendable names (security/pattern.go:105), and   *)
(* an Enforceable list stays below the roots (acl.go:73).                   *)
PatternLaws ==
    calls = 0 /\ roots = {} => \A p \in AllPatterns \ {AllPrincipals}, b \in Name :
      /\ MatchBounded(p, b)
      /\ ToSet(p.toks) \subseteq Tok =>
            (IsValid(p) => PrefixesExtend(p, b)) /\ EnforcedCovered(p, b)
=============================================================================
