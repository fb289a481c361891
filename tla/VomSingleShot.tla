--------------------------- MODULE VomSingleShot ---------------------------
(***************************************************************************)
(* vom/single_shot.go: concurrent calls of vom.Decode and the cache of      *)
(* TypeDecoders they share, keyed by the bytes of the type messages.        *)
(* A decoder derived from a cached one has locks of its own but the maps    *)
(* idToType and idToWire of the original, so the locks do not order the     *)
(* goroutines' accesses: every access of a map is a step.                   *)
(***************************************************************************)
EXTENDS Naturals, Sequences, FiniteSets

CONSTANTS G,           \* the goroutines that call vom.Decode
          Data,        \* the byte strings they pass, as records (see IsData)
          Malformed,   \* the definitions vdl.TypeBuilder rejects
          MaxDecodes   \* bound: the number of calls

(* A type message defines an id; refs and uses are the ids that it and the  *)
(* value message look up, without those of the bootstrap types, which are   *)
(* always known; kind tells a good value from one whose bytes end too early, in the   *)
(* type messages or in the value.                                           *)
IsData(d) ==
    /\ d.types \in Seq({d.types[i] : i \in DOMAIN d.types})
    /\ \A i \in DOMAIN d.types :
          /\ d.types[i].id \in Nat /\ d.types[i].incomplete \in BOOLEAN
          /\ DOMAIN d.types[i].refs \subseteq Nat
    /\ d.uses \in Seq(Nat)
    /\ d.kind \in {"good", "cutTypes", "cutValue"}

ASSUME SingleShotAssumption == MaxDecodes \in Nat /\ \A d \in Data : IsData(d)

WireIdFirstUserType == 41

Maps == 1..MaxDecodes   \* the pairs of maps that TypeDecoders may own
Empty == <<>>           \* the map without entries

(* m[k] = v, for a map m. *)
Put(m, k, v) == [x \in DOMAIN m \cup {k} |-> IF x = k THEN v ELSE m[x]]

VARIABLES decoders,             \* singleShotTypeDecoderCache: from keys to Maps
          idToType, idToWire,   \* idToType[m], idToWire[m]: from ids to definitions
          allocated,            \* the maps made so far
          pc, data, tdec,       \* per goroutine: its place, its data, its decoder's maps
          cacheMiss, next,      \* its variable cacheMiss; how many messages it has read
          got,                  \* the types its value has looked up
          result, calls

maps == <<idToType, idToWire>>
vars == <<decoders, maps, allocated, pc, data, tdec, cacheMiss, next, got, result, calls>>

NoResult == [err |-> "none", types |-> <<>>]

Init ==
    /\ decoders = Empty
    /\ idToType = [m \in Maps |-> Empty] /\ idToWire = [m \in Maps |-> Empty]
    /\ allocated = 0 /\ calls = 0
    /\ pc = [g \in G |-> "idle"]
    /\ data \in [G -> {CHOOSE d \in Data : TRUE}]
    /\ tdec = [g \in G |-> 0]
    /\ cacheMiss = [g \in G |-> FALSE]
    /\ next = [g \in G |-> 0]
    /\ got = [g \in G |-> <<>>]
    /\ result = [g \in G |-> NoResult]

Return(g, err) ==
    /\ pc' = [pc EXCEPT ![g] = "idle"]
    /\ result' = [result EXCEPT ![g] = [err |-> err, types |-> got[g]]]

Goto(g, l) == pc' = [pc EXCEPT ![g] = l] /\ UNCHANGED result
-----------------------------------------------------------------------------
KeyOfFirst(d) == SubSeq(d.types, 1, IF d.types = <<>> THEN 0 ELSE 1)

(* computeTypeDecoderCacheKey: the bytes of all type messages. *)
CacheKey(d) == d.types

(* The start of Decode, up to the computed key. *)
Decode(g, d) ==
    /\ pc[g] = "idle" /\ calls < MaxDecodes
    /\ calls' = calls + 1
    /\ data' = [data EXCEPT ![g] = d]
    /\ got' = [got EXCEPT ![g] = <<>>]
    /\ next' = [next EXCEPT ![g] = 0]
    /\ IF d.kind = "cutTypes"
       THEN /\ result' = [result EXCEPT ![g] = [err |-> "error", types |-> <<>>]]
            /\ UNCHANGED pc
       ELSE /\ result' = [result EXCEPT ![g] = NoResult]
            /\ pc' = [pc EXCEPT ![g] = "lookup"]
    /\ UNCHANGED <<decoders, maps, allocated, tdec, cacheMiss>>

(* A lookup that puts the new decoder into the cache right away. *)
LookupAndReserve(g) ==
    /\ pc[g] = "lookup"
    /\ IF CacheKey(data[g]) \in DOMAIN decoders
       THEN /\ tdec' = [tdec EXCEPT ![g] = decoders[CacheKey(data[g])]]
            /\ cacheMiss' = [cacheMiss EXCEPT ![g] = FALSE]
            /\ Goto(g, "value")
            /\ UNCHANGED <<allocated, decoders>>
       ELSE /\ tdec' = [tdec EXCEPT ![g] = allocated + 1]
            /\ allocated' = allocated + 1
            /\ decoders' = Put(decoders, CacheKey(data[g]), allocated + 1)
            /\ cacheMiss' = [cacheMiss EXCEPT ![g] = TRUE]
            /\ Goto(g, "types")
    /\ UNCHANGED <<maps, data, next, got, calls>>

(* typeDecoderCache.lookup, under RLock; then a decoder of its own that     *)
(* starts at the type messages (newTypeDecoderInternal), or one that        *)
(* shares the cached maps and starts at the value                           *)
(* (newDerivedTypeDecoderInternal).                                         *)
Lookup(g) ==
    /\ pc[g] = "lookup"
    /\ IF CacheKey(data[g]) \in DOMAIN decoders
       THEN /\ tdec' = [tdec EXCEPT ![g] = decoders[CacheKey(data[g])]]
            /\ cacheMiss' = [cacheMiss EXCEPT ![g] = FALSE]
            /\ Goto(g, "value")
            /\ UNCHANGED allocated
       ELSE /\ tdec' = [tdec EXCEPT ![g] = allocated + 1]
            /\ allocated' = allocated + 1
            /\ cacheMiss' = [cacheMiss EXCEPT ![g] = TRUE]
            /\ Goto(g, "types")
    /\ UNCHANGED <<decoders, maps, data, next, got, calls>>

(* nextMessage of the Decoder reads type messages until the value message   *)
(* comes; addWireType stores one of them, unless its id is reserved or      *)
(* defined already.                                                         *)
AddWireType(g) ==
    /\ pc[g] = "types"
    /\ UNCHANGED <<decoders, idToType, allocated, data, tdec, cacheMiss, got, calls>>
    /\ \/ /\ next[g] = Len(data[g].types)
          /\ next' = [next EXCEPT ![g] = 0]
          /\ Goto(g, "value")
          /\ UNCHANGED idToWire
       \/ /\ next[g] < Len(data[g].types)
          /\ LET m == data[g].types[next[g] + 1]
             IN  IF m.id < WireIdFirstUserType \/ m.id \in DOMAIN idToWire[tdec[g]] \cup DOMAIN idToType[tdec[g]]
                 THEN Return(g, "error") /\ UNCHANGED <<idToWire, next>>
                 ELSE /\ idToWire' = [idToWire EXCEPT ![tdec[g]] = Put(@, m.id, m.refs)]
                      /\ next' = [next EXCEPT ![g] = @ + 1]
                      /\ Goto(g, IF m.incomplete THEN "types" ELSE "build")

(* The ids makeType reaches from id through types that are not built yet:   *)
(* the least set with id that follows the references of the wire types.     *)
Reach(wire, built, id) ==
    LET ids == UNION ({{id}} \cup {DOMAIN wire[i] : i \in DOMAIN wire})
    IN  {i \in ids : \A S \in SUBSET ids :
           id \in S /\ (\A j \in S \cap DOMAIN wire : DOMAIN wire[j] \subseteq built \cup S) => i \in S}

(* makeType finds all of these wire types, and then Built succeeds. *)
Builds(wire, new) == new \subseteq DOMAIN wire /\ \A i \in new : wire[i] \notin Malformed

(* buildType: the types that the last message completes, all at once, or an *)
(* error when one of them is unknown or rejected by vdl.TypeBuilder.        *)
(* readSingleType would drop the error below Version81, but isAllowedVersion *)
(* (misc.go) accepts that version only.                                     *)
BuildType(g) ==
    LET m == tdec[g]
        new == Reach(idToWire[m], DOMAIN idToType[m], data[g].types[next[g]].id)
    IN  /\ pc[g] = "build"
        /\ IF Builds(idToWire[m], new)
           THEN /\ idToType' = [idToType EXCEPT ![m] =
                       [i \in DOMAIN @ \cup new |-> IF i \in new THEN idToWire[m][i] ELSE @[i]]]
                /\ idToWire' = [idToWire EXCEPT ![m] = [i \in DOMAIN @ \ new |-> @[i]]]
                /\ Goto(g, "types")
           ELSE Return(g, "error") /\ UNCHANGED maps
        /\ UNCHANGED <<decoders, allocated, data, tdec, cacheMiss, next, got, calls>>

(* The value message: one lookupType after the other, in the maps of the    *)
(* decoder.  No processLoop runs, so an unknown id is errStartNotCalled.    *)
LookupType(g) ==
    /\ pc[g] = "value" /\ next[g] < Len(data[g].uses)
    /\ LET id == data[g].uses[next[g] + 1]
       IN  IF id \in DOMAIN idToType[tdec[g]]
           THEN /\ got' = [got EXCEPT ![g] = Append(@, idToType[tdec[g]][id])]
                /\ next' = [next EXCEPT ![g] = @ + 1]
                /\ UNCHANGED <<pc, result>>
           ELSE Return(g, "error") /\ UNCHANGED <<got, next>>
    /\ UNCHANGED <<decoders, maps, allocated, data, tdec, cacheMiss, calls>>

(* The end of the value: an error is returned before the cache is touched.  *)
EndValue(g) ==
    /\ pc[g] = "value" /\ next[g] = Len(data[g].uses)
    /\ IF data[g].kind = "cutValue" THEN Return(g, "error")
       ELSE IF cacheMiss[g] THEN Goto(g, "insert")
       ELSE Return(g, "nil")
    /\ UNCHANGED <<decoders, maps, allocated, data, tdec, cacheMiss, next, got, calls>>

(* typeDecoderCache.insert, under Lock: the first one stays. *)
Insert(g) ==
    /\ pc[g] = "insert"
    /\ decoders' = IF CacheKey(data[g]) \in DOMAIN decoders THEN decoders
                   ELSE Put(decoders, CacheKey(data[g]), tdec[g])
    /\ Return(g, "nil")
    /\ UNCHANGED <<maps, allocated, data, tdec, cacheMiss, next, got, calls>>

Next ==
    \E g \in G : \/ \E d \in Data : Decode(g, d)
                 \/ Lookup(g) \/ AddWireType(g) \/ BuildType(g)
                 \/ LookupType(g) \/ EndValue(g) \/ Insert(g)

Spec == Init /\ [][Next]_vars
-----------------------------------------------------------------------------
(* The maps of a goroutine's decoder, while it uses them. *)
Uses(g, m) == tdec[g] = m /\ pc[g] \in {"types", "build", "value", "insert"}

(* Maps that another goroutine's decoder uses, or that are in the cache,    *)
(* are never written again: the goroutines hold different locks, and a      *)
(* write would race with their reads (type_decoder.go, addWireType,         *)
(* buildType and lookupKnownType of a derived decoder).                     *)
SharedNotWritten ==
    \A g \in G : pc[g] \in {"types", "build"} =>
      /\ \A h \in G \ {g} : ~Uses(h, tdec[g])
      /\ \A k \in DOMAIN decoders : decoders[k] # tdec[g]

(* The types that type messages define, when they define every id once, and *)
(* those of them that are built: the ones below a complete message.         *)
TypesIn(ms) == [id \in {ms[i].id : i \in DOMAIN ms} |->
                  ms[CHOOSE i \in DOMAIN ms : ms[i].id = id].refs]
Beneath(ms, i) == Reach(TypesIn(ms), {}, ms[i].id)
Complete(ms) == {i \in DOMAIN ms : ~ms[i].incomplete}

(* All that the i-th message needs has arrived with it and is well-formed. *)
Buildable(ms, i) ==
    /\ Beneath(ms, i) \subseteq {ms[j].id : j \in 1 .. i}
    /\ \A id \in Beneath(ms, i) : TypesIn(ms)[id] \notin Malformed

(* When a Decoder of its own, reading the data from its first byte, would   *)
(* succeed ("logically", single_shot.go:43): each id is one of a user type  *)
(* and defined once, every complete type can be built when it arrives, and  *)
(* the value uses types that were completed.                                *)
Alone(d) ==
    LET ms == d.types
    IN  /\ d.kind = "good"
        /\ \A i, j \in DOMAIN ms : ms[i].id = ms[j].id => i = j
        /\ \A i \in DOMAIN ms : ms[i].id >= WireIdFirstUserType
        /\ \A i \in Complete(ms) : Buildable(ms, i)
        /\ \A k \in DOMAIN d.uses : \E i \in Complete(ms) : d.uses[k] \in Beneath(ms, i)

(* Whatever the cache holds and whoever fills it meanwhile, Decode returns  *)
(* what a fresh Decoder would: the same types, or an error exactly when it  *)
(* would fail.                                                              *)
DecodesAlone ==
    \A g \in G : result[g] # NoResult =>
      /\ result[g].err = "nil" <=> Alone(data[g])
      /\ result[g].err = "nil" =>
            result[g].types = [i \in DOMAIN data[g].uses |-> TypesIn(data[g].types)[data[g].uses[i]]]
=============================================================================
