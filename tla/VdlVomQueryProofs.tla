------------------------- MODULE VdlVomQueryProofs -------------------------
(***************************************************************************)
(* What holds between goroutines that share something without a lock: the  *)
(* maps that the cache of vom.Decode hands out, the fields of the pipe      *)
(* between the two sides of vdl.Convert, and the rows that executions of    *)
(* the query engine delete.  The three models have nothing in common; each *)
(* theorem is about the specification of one.  Last come the ranges of     *)
(* strings that the query checker computes.                                *)
(***************************************************************************)
EXTENDS VomSingleShot, VdlPipe, QueryExec, StringRanges, FiniteSetTheorems,
        WellFoundedInduction, TLAPS

(* vom.Decode and its cache of TypeDecoders, for any number of goroutines,  *)
(* calls and byte strings.                                                  *)
Place == {"idle", "lookup", "types", "build", "value", "insert"}

ShotTypes ==
    /\ pc \in [G -> Place]
    /\ tdec \in [G -> Nat] /\ cacheMiss \in [G -> BOOLEAN] /\ next \in [G -> Nat]
    /\ DOMAIN data = G /\ DOMAIN got = G /\ DOMAIN result = G
    /\ allocated \in Nat /\ calls \in Nat
    /\ DOMAIN idToType = Maps /\ DOMAIN idToWire = Maps
    /\ \A g \in G : pc[g] # "idle" => data[g] \in Data

(* Each call makes at most one pair of maps. *)
LookingUp == {g \in G : pc[g] = "lookup"}
MapsSuffice ==
    /\ IsFiniteSet(LookingUp)
    /\ allocated + Cardinality(LookingUp) <= calls /\ calls <= MaxDecodes

Active(g) == pc[g] \in {"types", "build", "value", "insert"}

(* A goroutine that missed the cache has maps of its own, which are not in  *)
(* the cache; one that hit it uses the cached maps of its key.              *)
Ownership ==
    /\ \A g \in G :
         /\ Active(g) => tdec[g] \in 1 .. allocated
         /\ pc[g] \in {"types", "build", "insert"} => cacheMiss[g]
         /\ Active(g) /\ cacheMiss[g] => \A k \in DOMAIN decoders : decoders[k] # tdec[g]
         /\ Active(g) /\ ~cacheMiss[g] => /\ CacheKey(data[g]) \in DOMAIN decoders
                                          /\ decoders[CacheKey(data[g])] = tdec[g]
    /\ \A k \in DOMAIN decoders : decoders[k] \in 1 .. allocated
    /\ \A g, h \in G : /\ Active(g) /\ cacheMiss[g] /\ Active(h) /\ cacheMiss[h]
                       /\ tdec[g] = tdec[h]
                       => g = h

(* A pair of maps holds what the first n of the type messages ms define. *)
Holds(types, wire, ms, n) ==
    /\ DOMAIN types \cup DOMAIN wire = {ms[i].id : i \in 1 .. n}
    /\ DOMAIN types \cap DOMAIN wire = {}
    /\ \A i \in 1 .. n :
         /\ ms[i].id \in DOMAIN types => types[ms[i].id] = ms[i].refs
         /\ ms[i].id \in DOMAIN wire => wire[ms[i].id] = ms[i].refs
         /\ ms[i].id >= WireIdFirstUserType
    /\ \A i, j \in 1 .. n : ms[i].id = ms[j].id => i = j

(* No two type messages define the same id. *)
Once(ms) == \A i, j \in DOMAIN ms : ms[i].id = ms[j].id => i = j

(* The types built are those below the complete ones of the first n type    *)
(* messages, and each of these could be built.                              *)
Built(types, ms, n) ==
    Once(ms) =>
      /\ DOMAIN types = UNION {Beneath(ms, i) : i \in Complete(ms) \cap 1 .. n}
      /\ \A i \in Complete(ms) \cap 1 .. n : Buildable(ms, i)

Whole(types, wire, ms) == Holds(types, wire, ms, Len(ms)) /\ Built(types, ms, Len(ms))

(* What the maps hold: those in the cache all that their key defines, those *)
(* of a goroutine what it has read, new ones nothing.                       *)
CacheWhole == \A k \in DOMAIN decoders : Whole(idToType[decoders[k]], idToWire[decoders[k]], k)

OwnHolds(g) ==
    LET ms == data[g].types
        types == idToType[tdec[g]]
        wire == idToWire[tdec[g]]
        n == next[g]
    IN  /\ pc[g] \in {"types", "build"} => n <= Len(ms) /\ Holds(types, wire, ms, n)
        /\ pc[g] = "types" => Built(types, ms, n)
        /\ pc[g] = "build" => /\ n > 0 /\ n \in Complete(ms) /\ ms[n].id \in DOMAIN wire
                              /\ Built(types, ms, n - 1)
        /\ pc[g] \in {"value", "insert"} /\ cacheMiss[g] => Whole(types, wire, ms)

NewEmpty == \A m \in Maps : m > allocated => idToType[m] = Empty /\ idToWire[m] = Empty

Contents == CacheWhole /\ NewEmpty /\ \A g \in G : OwnHolds(g)

(* What d defines at the first n ids its value looks up, all of them built. *)
Found(types, d, n) ==
    /\ \A k \in 1 .. n : /\ d.uses[k] \in DOMAIN TypesIn(d.types)
                          /\ \E i \in Complete(d.types) : d.uses[k] \in Beneath(d.types, i)
    /\ types = [k \in 1 .. n |-> TypesIn(d.types)[d.uses[k]]]

(* What g has found so far, and what it returns. *)
Answer(g) ==
    /\ pc[g] # "idle" => data[g].kind # "cutTypes" /\ result[g] = NoResult
    /\ pc[g] \in {"lookup", "types", "build"} => got[g] = <<>>
    /\ pc[g] = "lookup" => next[g] = 0
    /\ pc[g] = "value" => next[g] <= Len(data[g].uses) /\ Found(got[g], data[g], next[g])
    /\ pc[g] = "insert" => data[g].kind = "good" /\ Found(got[g], data[g], Len(data[g].uses))
    /\ result[g] = NoResult \/ result[g].err \in {"nil", "error"}
    /\ result[g].err = "nil" => /\ data[g] \in Data /\ Alone(data[g])
                               /\ Found(result[g].types, data[g], Len(data[g].uses))
    /\ result[g].err = "error" => ~Alone(data[g])

ShotInv == ShotTypes /\ MapsSuffice /\ Ownership /\ Contents /\ \A g \in G : Answer(g)
-----------------------------------------------------------------------------
LEMMA DataShape ==
    ASSUME NEW d \in Data
    PROVE  /\ d.types \in Seq({d.types[i] : i \in DOMAIN d.types})
           /\ Len(d.types) \in Nat /\ DOMAIN d.types = 1 .. Len(d.types)
           /\ d.uses \in Seq(Nat)
           /\ Len(d.uses) \in Nat /\ DOMAIN d.uses = 1 .. Len(d.uses)
           /\ d.kind \in {"good", "cutTypes", "cutValue"}
<1>1. IsData(d)
  BY SingleShotAssumption
<1>2. /\ d.types \in Seq({d.types[i] : i \in DOMAIN d.types})
      /\ d.uses \in Seq(Nat)
      /\ d.kind \in {"good", "cutTypes", "cutValue"}
  BY <1>1 DEF IsData
<1> HIDE DEF IsData
<1> QED
  BY <1>2

(* A new decoder's maps hold nothing. *)
LEMMA HoldsNothing ==
    ASSUME NEW ms
    PROVE  Holds(Empty, Empty, ms, 0) /\ Built(Empty, ms, 0)
BY DEF Holds, Built, Empty

(* addWireType stores the definition of an id that is new. *)
LEMMA HoldsAdd ==
    ASSUME NEW types, NEW wire, NEW ms, NEW n \in Nat, Holds(types, wire, ms, n),
           ms[n + 1].id \notin DOMAIN wire \cup DOMAIN types, ms[n + 1].id >= WireIdFirstUserType
    PROVE  Holds(types, Put(wire, ms[n + 1].id, ms[n + 1].refs), ms, n + 1)
<1> DEFINE id == ms[n + 1].id
           new == Put(wire, id, ms[n + 1].refs)
<1>1. /\ DOMAIN new = DOMAIN wire \cup {id}
      /\ new[id] = ms[n + 1].refs
      /\ \A x \in DOMAIN wire : x # id => new[x] = wire[x]
  BY DEF Put
<1>2. \A i \in 1 .. n + 1 : i \in 1 .. n \/ i = n + 1
  OBVIOUS
<1>3. 1 .. n \subseteq 1 .. n + 1 /\ n + 1 \in 1 .. n + 1
  OBVIOUS
<1>4. \A i \in 1 .. n : ms[i].id # id
  BY DEF Holds
<1> HIDE DEF id, new
<1>5. DOMAIN types \cup DOMAIN new = {ms[i].id : i \in 1 .. n + 1}
  BY <1>1, <1>2, <1>3 DEF Holds, id
<1>6. ASSUME NEW i \in 1 .. n + 1
      PROVE  /\ ms[i].id \in DOMAIN types => types[ms[i].id] = ms[i].refs
             /\ ms[i].id \in DOMAIN new => new[ms[i].id] = ms[i].refs
             /\ ms[i].id >= WireIdFirstUserType
  BY <1>1, <1>2, <1>4 DEF Holds, id
<1>7. ASSUME NEW i \in 1 .. n + 1, NEW j \in 1 .. n + 1, ms[i].id = ms[j].id
      PROVE  i = j
  BY <1>2, <1>4, <1>7 DEF Holds, id
<1>8. DOMAIN types \cap DOMAIN new = {}
  BY <1>1 DEF Holds, id
<1> QED
  BY <1>5, <1>6, <1>7, <1>8 DEF Holds, id, new

(* Reach is the least set that contains id and follows references... *)
LEMMA ReachLeast ==
    ASSUME NEW wire, NEW built, NEW id, NEW S, id \in S,
           \A j \in S \cap DOMAIN wire : DOMAIN wire[j] \subseteq built \cup S
    PROVE  Reach(wire, built, id) \subseteq S
<1> DEFINE ids == UNION ({{id}} \cup {DOMAIN wire[i] : i \in DOMAIN wire})
<1>1. S \cap ids \in SUBSET ids /\ id \in S \cap ids
  OBVIOUS
<1>2. \A j \in DOMAIN wire : DOMAIN wire[j] \subseteq ids
  OBVIOUS
<1>3. \A j \in (S \cap ids) \cap DOMAIN wire : DOMAIN wire[j] \subseteq built \cup (S \cap ids)
  BY <1>2
<1>4. Reach(wire, built, id) =
        {i \in ids : \A R \in SUBSET ids :
           id \in R /\ (\A j \in R \cap DOMAIN wire : DOMAIN wire[j] \subseteq built \cup R) => i \in R}
  BY DEF Reach
<1> HIDE DEF ids
<1> QED
  BY <1>1, <1>3, <1>4

(* ...and is such a set itself. *)
LEMMA ReachClosed ==
    ASSUME NEW wire, NEW built, NEW id
    PROVE  /\ id \in Reach(wire, built, id)
           /\ \A j \in Reach(wire, built, id) \cap DOMAIN wire :
                 DOMAIN wire[j] \subseteq built \cup Reach(wire, built, id)
<1> DEFINE ids == UNION ({{id}} \cup {DOMAIN wire[i] : i \in DOMAIN wire})
           Good(R) == id \in R /\ (\A j \in R \cap DOMAIN wire : DOMAIN wire[j] \subseteq built \cup R)
<1>1. Reach(wire, built, id) = {i \in ids : \A R \in SUBSET ids : Good(R) => i \in R}
  BY DEF Reach
<1>2. id \in Reach(wire, built, id)
  BY <1>1
<1>3. ASSUME NEW j \in Reach(wire, built, id) \cap DOMAIN wire, NEW k \in DOMAIN wire[j], k \notin built
      PROVE  k \in Reach(wire, built, id)
  <2>1. k \in ids
    OBVIOUS
  <2>2. ASSUME NEW R \in SUBSET ids, Good(R) PROVE k \in R
    <3>1. j \in R
      BY <2>2, <1>1
    <3> QED
      BY <3>1, <2>2, <1>3
  <2> HIDE DEF ids, Good
  <2> QED
    BY <2>1, <2>2, <1>1
<1> QED
  BY <1>2, <1>3

(* The definitions, when no id has two. *)
LEMMA TypesInOnce ==
    ASSUME NEW ms, Once(ms), NEW i \in DOMAIN ms
    PROVE  ms[i].id \in DOMAIN TypesIn(ms) /\ TypesIn(ms)[ms[i].id] = ms[i].refs
<1> DEFINE id == ms[i].id
           c == CHOOSE j \in DOMAIN ms : ms[j].id = id
<1>1. id \in {ms[j].id : j \in DOMAIN ms}
  OBVIOUS
<1>2. id \in DOMAIN TypesIn(ms) /\ TypesIn(ms)[id] = ms[c].refs
  BY <1>1 DEF TypesIn
<1>3. c \in DOMAIN ms /\ ms[c].id = id
  OBVIOUS
<1>4. c = i
  BY <1>3 DEF Once
<1> QED
  BY <1>2, <1>4

(* What buildType builds of a complete message are the types below it that  *)
(* are not built yet; it fails exactly when one of those below has not      *)
(* arrived or is malformed.                                                 *)
LEMMA BuildRight ==
    ASSUME NEW types, NEW wire, NEW ms, NEW n \in Nat, n > 0, 1 .. n \subseteq DOMAIN ms, Once(ms),
           Holds(types, wire, ms, n), Built(types, ms, n - 1),
           n \in Complete(ms), ms[n].id \in DOMAIN wire,
           NEW new, new = Reach(wire, DOMAIN types, ms[n].id)
    PROVE  /\ Builds(wire, new) =>
                 /\ DOMAIN types \cup new = UNION {Beneath(ms, i) : i \in Complete(ms) \cap 1 .. n}
                 /\ Buildable(ms, n)
           /\ ~Builds(wire, new) => ~Buildable(ms, n)
<1> DEFINE id == ms[n].id
           T == TypesIn(ms)
           below == Beneath(ms, n)
           upTo == {ms[j].id : j \in 1 .. n}
           before == Complete(ms) \cap 1 .. (n - 1)
<1>1. below = Reach(T, {}, id)
  BY DEF Beneath
<1>2. \A j \in DOMAIN wire : j \in DOMAIN T /\ T[j] = wire[j]
  <2> TAKE j \in DOMAIN wire
  <2>1. PICK i \in 1 .. n : ms[i].id = j
    BY DEF Holds
  <2>2. wire[j] = ms[i].refs
    BY <2>1 DEF Holds
  <2> QED
    BY <2>1, <2>2, TypesInOnce
<1>3. DOMAIN types \cup DOMAIN wire = upTo /\ DOMAIN types \cap DOMAIN wire = {}
  BY DEF Holds
<1>4. /\ DOMAIN types = UNION {Beneath(ms, i) : i \in before}
      /\ \A i \in before : \A x \in Beneath(ms, i) : T[x] \notin Malformed
  BY DEF Built, Buildable
<1>5. id \in new /\ \A j \in new \cap DOMAIN wire : DOMAIN wire[j] \subseteq DOMAIN types \cup new
  BY ReachClosed
<1>6. id \in below /\ \A j \in below \cap DOMAIN T : DOMAIN T[j] \subseteq below
  BY <1>1, ReachClosed
<1>7. \A j \in DOMAIN types \cap DOMAIN T : DOMAIN T[j] \subseteq DOMAIN types
  <2> TAKE j \in DOMAIN types \cap DOMAIN T
  <2>1. PICK i \in before : j \in Beneath(ms, i)
    BY <1>4
  <2>2. DOMAIN T[j] \subseteq Beneath(ms, i)
    BY <2>1, ReachClosed DEF Beneath
  <2> QED
    BY <2>2, <1>4
<1>8. Complete(ms) \cap 1 .. n = before \cup {n}
  OBVIOUS
<1> HIDE DEF below, T, id, upTo, before
<1>9. new \subseteq below
  <2>1. \A j \in below \cap DOMAIN wire : DOMAIN wire[j] \subseteq DOMAIN types \cup below
    BY <1>2, <1>6
  <2> QED
    BY <2>1, <1>6, ReachLeast DEF id
<1>10. new \cap DOMAIN types = {}
  <2>1. id \in new \ DOMAIN types
    BY <1>3, <1>5 DEF id
  <2>2. \A j \in (new \ DOMAIN types) \cap DOMAIN wire :
           DOMAIN wire[j] \subseteq DOMAIN types \cup (new \ DOMAIN types)
    BY <1>5
  <2>3. new \subseteq new \ DOMAIN types
    <3> DEFINE S == new \ DOMAIN types
    <3>1. id \in S /\ \A j \in S \cap DOMAIN wire : DOMAIN wire[j] \subseteq DOMAIN types \cup S
      BY <2>1, <2>2
    <3> HIDE DEF S
    <3>2. Reach(wire, DOMAIN types, id) \subseteq S
      BY <3>1, ReachLeast
    <3> QED
      BY <3>2 DEF S, id
  <2> QED
    BY <2>3
<1>11. ASSUME new \subseteq DOMAIN wire
       PROVE  below \subseteq DOMAIN types \cup new
  <2>1. \A j \in (DOMAIN types \cup new) \cap DOMAIN T : DOMAIN T[j] \subseteq {} \cup (DOMAIN types \cup new)
    BY <1>2, <1>5, <1>7, <1>11
  <2>2. id \in DOMAIN types \cup new
    BY <1>5
  <2> DEFINE S == DOMAIN types \cup new
  <2>3. id \in S /\ \A j \in S \cap DOMAIN T : DOMAIN T[j] \subseteq {} \cup S
    BY <2>1, <2>2
  <2> HIDE DEF S
  <2>4. Reach(T, {}, id) \subseteq S
    BY <2>3, ReachLeast
  <2> QED
    BY <2>4, <1>1 DEF S
<1>12. ASSUME new \subseteq DOMAIN wire
       PROVE  /\ DOMAIN types \cup new = UNION {Beneath(ms, i) : i \in before \cup {n}}
              /\ below \subseteq upTo
  <2>1. UNION {Beneath(ms, i) : i \in before \cup {n}} = DOMAIN types \cup below
    BY <1>4 DEF below
  <2> QED
    BY <2>1, <1>3, <1>9, <1>11, <1>12
<1>13. ASSUME ~(new \subseteq DOMAIN wire) PROVE ~(below \subseteq upTo)
  BY <1>3, <1>9, <1>10, <1>13
<1>14. ASSUME Builds(wire, new), NEW x \in below PROVE T[x] \notin Malformed
  <2>1. x \in DOMAIN types \cup new
    BY <1>11, <1>14 DEF Builds
  <2>2. CASE x \in DOMAIN types
    BY <2>2, <1>4
  <2>3. CASE x \in new
    BY <2>3, <1>2, <1>14 DEF Builds
  <2> QED
    BY <2>1, <2>2, <2>3
<1>15. ASSUME new \subseteq DOMAIN wire, ~Builds(wire, new) PROVE \E x \in below : T[x] \in Malformed
  BY <1>2, <1>9, <1>15 DEF Builds
<1>16. Buildable(ms, n) <=> below \subseteq upTo /\ \A x \in below : T[x] \notin Malformed
  BY DEF Buildable, below, upTo, T
<1>17. CASE Builds(wire, new)
  BY <1>17, <1>8, <1>12, <1>14, <1>16 DEF Builds
<1>18. CASE ~Builds(wire, new)
  BY <1>18, <1>13, <1>15, <1>16
<1> QED
  BY <1>17, <1>18

(* One more message that is not complete builds nothing. *)
LEMMA BuiltIncomplete ==
    ASSUME NEW types, NEW ms, NEW n \in Nat, Built(types, ms, n), n + 1 \notin Complete(ms)
    PROVE  Built(types, ms, n + 1)
<1>1. Complete(ms) \cap 1 .. (n + 1) = Complete(ms) \cap 1 .. n
  OBVIOUS
<1> QED
  BY <1>1 DEF Built

(* What is looked up in maps that hold all type messages is what these say. *)
LEMMA HoldsFound ==
    ASSUME NEW d \in Data, NEW types, NEW wire, Whole(types, wire, d.types), NEW id
    PROVE  /\ Once(d.types)
           /\ id \in DOMAIN types <=> \E i \in Complete(d.types) : id \in Beneath(d.types, i)
           /\ id \in DOMAIN types => id \in DOMAIN TypesIn(d.types) /\ TypesIn(d.types)[id] = types[id]
           /\ \A i \in Complete(d.types) : Buildable(d.types, i)
           /\ \A i \in DOMAIN d.types : d.types[i].id >= WireIdFirstUserType
<1> DEFINE ms == d.types
<1>1. DOMAIN ms = 1 .. Len(ms)
  BY DataShape
<1>2. Once(ms)
  BY <1>1 DEF Whole, Holds, Once
<1>3. Complete(ms) \cap 1 .. Len(ms) = Complete(ms)
  BY <1>1 DEF Complete
<1>4. /\ DOMAIN types = UNION {Beneath(ms, i) : i \in Complete(ms)}
      /\ \A i \in Complete(ms) : Buildable(ms, i)
  BY <1>2, <1>3 DEF Whole, Built
<1>5. ASSUME id \in DOMAIN types PROVE id \in DOMAIN TypesIn(ms) /\ TypesIn(ms)[id] = types[id]
  <2>1. PICK i \in DOMAIN ms : ms[i].id = id
    BY <1>1, <1>5 DEF Whole, Holds
  <2>2. types[id] = ms[i].refs
    BY <2>1, <1>1, <1>5 DEF Whole, Holds
  <2> QED
    BY <2>1, <2>2, <1>2, TypesInOnce
<1>6. \A i \in DOMAIN ms : ms[i].id >= WireIdFirstUserType
  BY <1>1 DEF Whole, Holds
<1> QED
  BY <1>2, <1>4, <1>5, <1>6

(* A goroutine that has found all that the value looks up, in whole maps,   *)
(* has done as well as a decoder of its own.                                *)
LEMMA WholeAlone ==
    ASSUME NEW d \in Data, NEW types, NEW wire, Whole(types, wire, d.types),
           d.kind = "good", NEW t, Found(t, d, Len(d.uses))
    PROVE  Alone(d)
<1>1. DOMAIN d.uses = 1 .. Len(d.uses)
  BY DataShape
<1>2. /\ Once(d.types) /\ \A i \in Complete(d.types) : Buildable(d.types, i)
      /\ \A i \in DOMAIN d.types : d.types[i].id >= WireIdFirstUserType
  BY HoldsFound
<1> QED
  BY <1>1, <1>2 DEF Alone, Found, Once

LEMMA FoundNothing ==
    ASSUME NEW d
    PROVE  Found(<<>>, d, 0)
BY DEF Found

(* lookupType found one more. *)
LEMMA FoundAppend ==
    ASSUME NEW d, NEW types, NEW n \in Nat, Found(types, d, n), d.uses[n + 1] \in DOMAIN TypesIn(d.types),
           \E i \in Complete(d.types) : d.uses[n + 1] \in Beneath(d.types, i)
    PROVE  Found(Append(types, TypesIn(d.types)[d.uses[n + 1]]), d, n + 1)
<1> DEFINE f(i) == TypesIn(d.types)[d.uses[i]]
<1>1. types = [i \in 1 .. n |-> f(i)]
  BY DEF Found
<1>2. Append(types, f(n + 1)) = [i \in 1 .. n + 1 |-> f(i)]
  <2> HIDE DEF f
  <2>1. types \in Seq({f(i) : i \in 1 .. n}) /\ Len(types) = n
    BY <1>1
  <2> QED
    BY <2>1, <1>1
<1>3. \A i \in 1 .. n + 1 : i \in 1 .. n \/ i = n + 1
  OBVIOUS
<1> QED
  BY <1>2, <1>3 DEF Found
-----------------------------------------------------------------------------
LEMMA ShotInit == Init => ShotInv
<1> SUFFICES ASSUME Init PROVE ShotInv
  OBVIOUS
<1> USE SingleShotAssumption DEF Init
<1>0. LookingUp = {} /\ DOMAIN decoders = {} /\ \A g \in G : pc[g] = "idle"
  BY DEF LookingUp, Empty
<1>1. ShotTypes
  BY DEF ShotTypes, Place
<1>2. MapsSuffice
  BY <1>0, FS_EmptySet DEF MapsSuffice
<1>3. Ownership
  BY <1>0 DEF Ownership, Active
<1>4. Contents
  BY <1>0 DEF Contents, CacheWhole, OwnHolds, NewEmpty
<1>5. \A g \in G : Answer(g)
  BY <1>0 DEF Answer, NoResult
<1> QED
  BY <1>1, <1>2, <1>3, <1>4, <1>5 DEF ShotInv

(* A step of another goroutine leaves h where it is. *)
SameFor(h) ==
    /\ pc'[h] = pc[h] /\ data'[h] = data[h] /\ tdec'[h] = tdec[h] /\ cacheMiss'[h] = cacheMiss[h]
    /\ next'[h] = next[h] /\ got'[h] = got[h] /\ result'[h] = result[h]

LEMMA OthersAnswer ==
    ASSUME ShotInv, NEW g \in G, \A h \in G \ {g} : SameFor(h), Answer(g)'
    PROVE  \A h \in G : Answer(h)'
<1> SUFFICES ASSUME NEW h \in G \ {g} PROVE Answer(h)'
  OBVIOUS
<1> QED
  BY DEF ShotInv, SameFor, Answer

(* What the maps hold stays as it is when no map is written. *)
LEMMA ContentsKept ==
    ASSUME ShotInv, NEW g \in G, \A h \in G \ {g} : SameFor(h), OwnHolds(g)',
           decoders' = decoders, idToType' = idToType, idToWire' = idToWire, allocated' \in Nat,
           allocated' >= allocated
    PROVE  Contents'
<1>1. CacheWhole'
  BY DEF ShotInv, Contents, CacheWhole
<1>2. NewEmpty'
  <2> SUFFICES ASSUME NEW m \in Maps, m > allocated'
               PROVE  idToType[m] = Empty /\ idToWire[m] = Empty
    BY DEF NewEmpty
  <2>1. m > allocated
    BY SingleShotAssumption DEF Maps, ShotInv, ShotTypes
  <2> QED
    BY <2>1 DEF ShotInv, Contents, NewEmpty
<1>3. ASSUME NEW h \in G \ {g} PROVE OwnHolds(h)'
  BY DEF ShotInv, Contents, SameFor, OwnHolds
<1> QED
  BY <1>1, <1>2, <1>3 DEF Contents

LEMMA LookingUpSame ==
    ASSUME ShotInv, LookingUp' = LookingUp, calls' = calls, allocated' = allocated
    PROVE  MapsSuffice'
BY DEF ShotInv, MapsSuffice

(* Decode starts: nobody else is concerned, and there will be a map for it. *)
LEMMA DecodeInv ==
    ASSUME ShotInv, NEW g \in G, NEW d \in Data, Decode(g, d)
    PROVE  ShotInv'
<1> USE SingleShotAssumption
<1>0. /\ \A h \in G \ {g} : SameFor(h)
      /\ pc[g] = "idle" /\ data'[g] = d /\ got'[g] = <<>> /\ next'[g] = 0
      /\ decoders' = decoders /\ idToType' = idToType /\ idToWire' = idToWire
      /\ tdec' = tdec /\ cacheMiss' = cacheMiss /\ allocated' = allocated
      /\ calls < MaxDecodes /\ calls' = calls + 1
      /\ \/ d.kind = "cutTypes" /\ pc' = pc /\ result'[g].err = "error"
         \/ d.kind # "cutTypes" /\ pc' = [pc EXCEPT ![g] = "lookup"] /\ pc'[g] = "lookup" /\ result'[g] = NoResult
  BY DEF ShotInv, ShotTypes, Decode, SameFor, maps
<1>1. ShotTypes'
  <2>1. /\ pc' \in [G -> Place] /\ next' \in [G -> Nat]
        /\ DOMAIN data' = G /\ DOMAIN got' = G /\ DOMAIN result' = G
    BY DEF ShotInv, ShotTypes, Decode, Place
  <2>2. \A h \in G : pc'[h] # "idle" => data'[h] \in Data
    BY <1>0 DEF ShotInv, ShotTypes, SameFor
  <2> QED
    BY <1>0, <2>1, <2>2 DEF ShotInv, ShotTypes
<1>2. MapsSuffice'
  <2>0. Cardinality(LookingUp) \in Nat
    BY FS_CardinalityType DEF ShotInv, MapsSuffice
  <2>1. CASE d.kind = "cutTypes"
    <3>1. LookingUp' = LookingUp
      BY <2>1, <1>0 DEF LookingUp
    <3> QED
      BY <2>0, <3>1, <1>0 DEF ShotInv, MapsSuffice, ShotTypes
  <2>2. CASE d.kind # "cutTypes"
    <3>1. LookingUp' = LookingUp \cup {g} /\ g \notin LookingUp
      BY <2>2, <1>0 DEF LookingUp, ShotInv, ShotTypes
    <3>2. /\ IsFiniteSet(LookingUp')
          /\ Cardinality(LookingUp') = Cardinality(LookingUp) + 1
      BY <3>1, FS_AddElement DEF ShotInv, MapsSuffice
    <3> QED
      BY <2>0, <3>2, <1>0 DEF ShotInv, MapsSuffice, ShotTypes
  <2> QED
    BY <2>1, <2>2
<1>3. Ownership'
  BY <1>0 DEF ShotInv, Ownership, Active, SameFor
<1>4. OwnHolds(g)'
  BY <1>0 DEF OwnHolds
<1>5. Answer(g)'
  BY <1>0 DEF Answer, NoResult, Alone
<1>6. Contents'
  BY <1>0, <1>4, ContentsKept DEF ShotInv, ShotTypes
<1> QED
  BY <1>0, <1>1, <1>2, <1>3, <1>5, <1>6, OthersAnswer DEF ShotInv

(* The lookup in the cache: a hit shares the cached maps, a miss gets new   *)
(* ones that nobody else has.                                               *)
LEMMA LookupInv ==
    ASSUME ShotInv, NEW g \in G, Lookup(g)
    PROVE  ShotInv'
<1> USE SingleShotAssumption
<1>0. /\ \A h \in G \ {g} : SameFor(h)
      /\ pc[g] = "lookup" /\ data' = data /\ got' = got /\ next' = next /\ result' = result
      /\ decoders' = decoders /\ idToType' = idToType /\ idToWire' = idToWire
      /\ calls' = calls
      /\ \/ /\ CacheKey(data[g]) \in DOMAIN decoders
            /\ tdec'[g] = decoders[CacheKey(data[g])] /\ ~cacheMiss'[g]
            /\ pc'[g] = "value" /\ allocated' = allocated
         \/ /\ tdec'[g] = allocated + 1 /\ allocated' = allocated + 1 /\ cacheMiss'[g]
            /\ pc'[g] = "types"
  BY DEF ShotInv, ShotTypes, Lookup, Goto, SameFor, maps
<1>c. \A k \in DOMAIN decoders : decoders[k] \in 1 .. allocated
  BY DEF ShotInv, Ownership
<1>t. allocated \in Nat /\ calls \in Nat /\ data[g] \in Data
  BY <1>0 DEF ShotInv, ShotTypes
<1>1. ShotTypes'
  <2>0. \A k \in DOMAIN decoders : decoders[k] \in Nat
    BY <1>c, <1>t
  <2>1. /\ pc' \in [G -> Place] /\ tdec' \in [G -> Nat] /\ cacheMiss' \in [G -> BOOLEAN]
        /\ allocated' \in Nat
    <3>1. pc' \in [G -> Place]
      BY DEF ShotInv, ShotTypes, Lookup, Goto, Place
    <3>2. CASE CacheKey(data[g]) \in DOMAIN decoders
      BY <2>0, <3>1, <3>2, <1>t DEF ShotInv, ShotTypes, Lookup
    <3>3. CASE CacheKey(data[g]) \notin DOMAIN decoders
      <4>1. /\ tdec' = [tdec EXCEPT ![g] = allocated + 1] /\ allocated' = allocated + 1
            /\ cacheMiss' = [cacheMiss EXCEPT ![g] = TRUE]
        BY <3>3 DEF Lookup
      <4>2. allocated + 1 \in Nat
        BY <1>t
      <4> QED
        BY <3>1, <4>1, <4>2 DEF ShotInv, ShotTypes
    <3> QED
      BY <3>2, <3>3
  <2>2. \A h \in G : pc'[h] # "idle" => data'[h] \in Data
    BY <1>0 DEF ShotInv, ShotTypes, SameFor
  <2> QED
    BY <1>0, <2>1, <2>2 DEF ShotInv, ShotTypes
<1>m. /\ IsFiniteSet(LookingUp')
      /\ Cardinality(LookingUp') = Cardinality(LookingUp) - 1
      /\ Cardinality(LookingUp) \in Nat /\ Cardinality(LookingUp') \in Nat
  <2>1. LookingUp' = LookingUp \ {g} /\ g \in LookingUp
    BY <1>0 DEF LookingUp, SameFor
  <2> QED
    BY <2>1, FS_RemoveElement, FS_CardinalityType DEF ShotInv, MapsSuffice
<1>2. MapsSuffice'
  BY <1>0, <1>t, <1>m DEF ShotInv, MapsSuffice
<1>n. allocated + 1 \in Maps
  BY <1>t, <1>m DEF ShotInv, MapsSuffice, Maps
<1>3. Ownership'
  <2>1. \A h \in G \ {g} : Active(h)' => Active(h) /\ tdec[h] \in 1 .. allocated
    BY <1>0 DEF ShotInv, Ownership, SameFor, Active
  <2>2. \A i \in 1 .. allocated : i \in 1 .. allocated' /\ i # allocated + 1
    BY <1>0, <1>t
  <2>3. allocated' = allocated + 1 => allocated + 1 \in 1 .. allocated'
    BY <1>t
  <2>4. ASSUME NEW h \in G
        PROVE  /\ Active(h)' => tdec'[h] \in 1 .. allocated'
               /\ pc'[h] \in {"types", "build", "insert"} => cacheMiss'[h]
               /\ Active(h)' /\ cacheMiss'[h] => \A k \in DOMAIN decoders : decoders[k] # tdec'[h]
               /\ Active(h)' /\ ~cacheMiss'[h] => /\ CacheKey(data[h]) \in DOMAIN decoders
                                                  /\ decoders[CacheKey(data[h])] = tdec'[h]
    <3>1. CASE h = g
      BY <3>1, <1>0, <1>c, <2>2, <2>3
    <3>2. CASE h # g
      BY <3>2, <1>0, <2>1, <2>2 DEF ShotInv, Ownership, SameFor, Active
    <3> QED
      BY <3>1, <3>2
  <2>5. ASSUME NEW h \in G, NEW i \in G, Active(h)', cacheMiss'[h], Active(i)', cacheMiss'[i],
               tdec'[h] = tdec'[i]
        PROVE  h = i
    BY <2>5, <1>0, <2>1, <2>2 DEF ShotInv, Ownership, SameFor
  <2> QED
    BY <1>0, <1>c, <2>2, <2>4, <2>5 DEF Ownership, CacheKey
<1>4. OwnHolds(g)'
  <2>1. CASE pc'[g] = "value"
    BY <1>0, <2>1 DEF OwnHolds
  <2>2. CASE pc'[g] = "types"
    <3>1. allocated + 1 > allocated
      BY <1>t
    <3>2. idToType[allocated + 1] = Empty /\ idToWire[allocated + 1] = Empty
      BY <1>n, <3>1 DEF ShotInv, Contents, NewEmpty
    <3>3. next'[g] = 0 /\ 0 <= Len(data[g].types)
      BY <1>0, <1>t, DataShape DEF ShotInv, Answer
    <3> QED
      BY <1>0, <2>2, <3>2, <3>3, HoldsNothing DEF OwnHolds
  <2> QED
    BY <1>0, <2>1, <2>2
<1>5. Answer(g)'
  <2>1. next[g] = 0 /\ got[g] = <<>> /\ data[g].kind # "cutTypes" /\ result[g] = NoResult
    BY <1>0 DEF ShotInv, Answer
  <2>2. 0 <= Len(data[g].uses)
    BY <1>t, DataShape
  <2> QED
    BY <1>0, <2>1, <2>2, FoundNothing DEF Answer, NoResult
<1>6. Contents'
  BY <1>0, <1>4, <1>t, ContentsKept
<1> QED
  BY <1>0, <1>1, <1>2, <1>3, <1>5, <1>6, OthersAnswer DEF ShotInv

(* A goroutine's maps are among those there are. *)
LEMMA OwnMap ==
    ASSUME ShotInv, NEW g \in G, Active(g)
    PROVE  tdec[g] \in Maps /\ data[g] \in Data
<1>1. tdec[g] \in 1 .. allocated
  BY DEF ShotInv, Ownership
<1>2. Cardinality(LookingUp) \in Nat
  BY FS_CardinalityType DEF ShotInv, MapsSuffice
<1>3. allocated <= MaxDecodes
  BY <1>2, SingleShotAssumption DEF ShotInv, MapsSuffice, ShotTypes
<1> QED
  BY <1>1, <1>3, SingleShotAssumption DEF ShotInv, ShotTypes, Active, Maps

(* Between the lookup and the insert a goroutine writes no maps but its own, *)
(* and these only when it missed the cache: nobody else notices.             *)
LEMMA OwnStep ==
    ASSUME ShotInv, NEW g \in G, Active(g), \A h \in G \ {g} : SameFor(h),
           decoders' = decoders, allocated' = allocated, calls' = calls,
           data' = data, tdec' = tdec, cacheMiss' = cacheMiss,
           pc' \in [G -> Place], next' \in [G -> Nat], DOMAIN got' = G, DOMAIN result' = G,
           DOMAIN idToType' = Maps, DOMAIN idToWire' = Maps,
           pc'[g] # "lookup", pc'[g] \in {"types", "build", "insert"} => cacheMiss[g],
           \A m \in Maps : m # tdec[g] \/ ~cacheMiss[g] =>
                               idToType'[m] = idToType[m] /\ idToWire'[m] = idToWire[m],
           OwnHolds(g)', Answer(g)'
    PROVE  ShotInv'
<1> USE SingleShotAssumption
<1>0. tdec[g] \in Maps /\ data[g] \in Data /\ tdec[g] \in 1 .. allocated
  BY OwnMap DEF ShotInv, Ownership
<1>1. ShotTypes'
  <2>1. \A h \in G : pc'[h] # "idle" => data'[h] \in Data
    BY <1>0 DEF ShotInv, ShotTypes, SameFor
  <2> QED
    BY <2>1 DEF ShotInv, ShotTypes
<1>2. MapsSuffice'
  <2>1. LookingUp' = LookingUp
    BY DEF LookingUp, SameFor, Active
  <2> QED
    BY <2>1, LookingUpSame
<1>3. Ownership'
  <2>1. \A h \in G : Active(h)' => Active(h)
    BY DEF Active, SameFor
  <2>2. \A h \in G : pc'[h] \in {"types", "build", "insert"} => cacheMiss[h]
    BY DEF ShotInv, Ownership, SameFor
  <2> QED
    BY <2>1, <2>2 DEF ShotInv, Ownership
<1>4. CacheWhole'
  <2> SUFFICES ASSUME NEW k \in DOMAIN decoders
               PROVE  Whole(idToType'[decoders[k]], idToWire'[decoders[k]], k)
    BY DEF CacheWhole
  <2>1. decoders[k] \in 1 .. allocated /\ (cacheMiss[g] => decoders[k] # tdec[g])
    BY DEF ShotInv, Ownership
  <2>2. decoders[k] \in Maps
    <3>1. Cardinality(LookingUp) \in Nat
      BY FS_CardinalityType DEF ShotInv, MapsSuffice
    <3>2. allocated <= MaxDecodes
      BY <3>1 DEF ShotInv, MapsSuffice, ShotTypes
    <3> QED
      BY <2>1, <3>2 DEF ShotInv, ShotTypes, Maps
  <2>3. idToType'[decoders[k]] = idToType[decoders[k]] /\ idToWire'[decoders[k]] = idToWire[decoders[k]]
    BY <2>1, <2>2
  <2> QED
    BY <2>3 DEF ShotInv, Contents, CacheWhole
<1>5. NewEmpty'
  <2> SUFFICES ASSUME NEW m \in Maps, m > allocated
               PROVE  idToType'[m] = Empty /\ idToWire'[m] = Empty
    BY DEF NewEmpty
  <2>1. m # tdec[g]
    BY <1>0 DEF ShotInv, ShotTypes, Maps
  <2> QED
    BY <2>1 DEF ShotInv, Contents, NewEmpty
<1>6. ASSUME NEW h \in G \ {g} PROVE OwnHolds(h)'
  <2>1. CASE Active(h) /\ cacheMiss[h]
    <3>1. tdec[h] \in Maps
      BY <2>1, OwnMap
    <3>2. tdec[h] # tdec[g] \/ ~cacheMiss[g]
      BY <2>1 DEF ShotInv, Ownership
    <3>3. idToType'[tdec[h]] = idToType[tdec[h]] /\ idToWire'[tdec[h]] = idToWire[tdec[h]]
      BY <3>1, <3>2
    <3> QED
      BY <3>3 DEF ShotInv, Contents, OwnHolds, SameFor
  <2>2. CASE ~Active(h) \/ ~cacheMiss[h]
    BY <2>2 DEF ShotInv, Ownership, OwnHolds, SameFor, Active
  <2> QED
    BY <2>1, <2>2
<1>7. Contents'
  BY <1>4, <1>5, <1>6 DEF Contents
<1> QED
  BY <1>1, <1>2, <1>3, <1>7, OthersAnswer DEF ShotInv

(* addWireType: the end of the type messages, an id that is known already,  *)
(* or one more definition.                                                  *)
LEMMA AddWireTypeInv ==
    ASSUME ShotInv, NEW g \in G, AddWireType(g)
    PROVE  ShotInv'
<1> DEFINE m == tdec[g]
           ms == data[g].types
           n == next[g]
<1>0. /\ pc[g] = "types" /\ Active(g) /\ cacheMiss[g] /\ m \in Maps /\ data[g] \in Data
      /\ n \in Nat /\ Len(ms) \in Nat /\ n <= Len(ms)
      /\ DOMAIN ms = 1 .. Len(ms)
      /\ Holds(idToType[m], idToWire[m], ms, n) /\ Built(idToType[m], ms, n)
      /\ got[g] = <<>> /\ data[g].kind # "cutTypes" /\ result[g] = NoResult
      /\ 0 <= Len(data[g].uses)
  <2>1. pc[g] = "types" /\ Active(g)
    BY DEF AddWireType, Active
  <2>2. m \in Maps /\ data[g] \in Data
    BY <2>1, OwnMap
  <2> QED
    BY <2>1, <2>2, DataShape DEF ShotInv, ShotTypes, Ownership, Contents, OwnHolds, Answer
<1>1. /\ \A h \in G \ {g} : SameFor(h)
      /\ decoders' = decoders /\ allocated' = allocated /\ calls' = calls /\ idToType' = idToType
      /\ data' = data /\ tdec' = tdec /\ cacheMiss' = cacheMiss /\ got' = got
      /\ pc' \in [G -> Place] /\ next' \in [G -> Nat] /\ DOMAIN result' = G
      /\ DOMAIN idToWire' = Maps
      /\ \A x \in Maps : x # m => idToWire'[x] = idToWire[x]
  <2>1. /\ decoders' = decoders /\ allocated' = allocated /\ calls' = calls /\ idToType' = idToType
        /\ data' = data /\ tdec' = tdec /\ cacheMiss' = cacheMiss /\ got' = got
    BY DEF AddWireType
  <2>2. /\ pc' \in [G -> Place] /\ DOMAIN result' = G
        /\ \A h \in G \ {g} : pc'[h] = pc[h] /\ result'[h] = result[h]
    BY DEF ShotInv, ShotTypes, AddWireType, Goto, Return, Place
  <2>3. next' \in [G -> Nat] /\ \A h \in G \ {g} : next'[h] = next[h]
    <3>1. next \in [G -> Nat] /\ next[g] + 1 \in Nat
      BY DEF ShotInv, ShotTypes
    <3>2. \E v \in Nat : next' = [next EXCEPT ![g] = v]
      BY <3>1, <1>0 DEF AddWireType
    <3> QED
      BY <3>1, <3>2
  <2>4. /\ DOMAIN idToWire' = Maps
        /\ \A x \in Maps : x # m => idToWire'[x] = idToWire[x]
    <3>1. DOMAIN idToWire = Maps
      BY DEF ShotInv, ShotTypes
    <3>2. idToWire' = idToWire \/ \E w : idToWire' = [idToWire EXCEPT ![m] = w]
      BY DEF AddWireType
    <3> QED
      BY <3>1, <3>2
  <2> QED
    BY <2>1, <2>2, <2>3, <2>4 DEF SameFor
<1>2. OwnHolds(g)' /\ Answer(g)' /\ pc'[g] \in {"types", "build", "value", "idle"}
  <2>1. CASE n = Len(ms)
    <3>1. pc'[g] = "value" /\ next'[g] = 0 /\ idToWire' = idToWire /\ result' = result
      BY <2>1, <1>0 DEF AddWireType, Goto, ShotInv, ShotTypes
    <3> QED
      BY <2>1, <3>1, <1>0, <1>1, FoundNothing DEF OwnHolds, Whole, Answer, NoResult
  <2>2. CASE n < Len(ms) /\ ms[n + 1].id \in DOMAIN idToWire[m] \cup DOMAIN idToType[m]
    <3>1. pc'[g] = "idle" /\ result'[g].err = "error"
      BY <2>2, <1>0 DEF AddWireType, Return, ShotInv, ShotTypes
    <3>2. PICK i \in 1 .. n : ms[i].id = ms[n + 1].id
      <4>1. DOMAIN idToType[m] \cup DOMAIN idToWire[m] = {ms[i].id : i \in 1 .. n}
        BY <1>0 DEF Holds
      <4> HIDE DEF ms, m, n
      <4> QED
        BY <4>1, <2>2
    <3>3. i \in DOMAIN ms /\ n + 1 \in DOMAIN ms /\ i # n + 1
      BY <2>2, <1>0
    <3>4. ~Alone(data[g])
      BY <3>2, <3>3 DEF Alone
    <3> QED
      BY <3>1, <3>4, <1>1 DEF OwnHolds, Answer
  <2>4. CASE n < Len(ms) /\ ms[n + 1].id < WireIdFirstUserType
    <3>1. pc'[g] = "idle" /\ result'[g].err = "error"
      BY <2>4, <1>0 DEF AddWireType, Return, ShotInv, ShotTypes
    <3>2. n + 1 \in DOMAIN ms
      BY <2>4, <1>0
    <3>3. ms[n + 1].id \in Nat
      BY <3>2, <1>0, SingleShotAssumption DEF IsData
    <3>4. ~Alone(data[g])
      BY <2>4, <3>2, <3>3 DEF Alone, WireIdFirstUserType
    <3> QED
      BY <3>1, <3>4, <1>1 DEF OwnHolds, Answer
  <2>3. CASE /\ n < Len(ms) /\ ms[n + 1].id \notin DOMAIN idToWire[m] \cup DOMAIN idToType[m]
             /\ ~(ms[n + 1].id < WireIdFirstUserType)
    <3>1. /\ pc'[g] \in {"types", "build"} /\ next'[g] = n + 1 /\ result' = result
          /\ idToWire'[m] = Put(idToWire[m], ms[n + 1].id, ms[n + 1].refs)
      BY <2>3, <1>0 DEF AddWireType, Goto, ShotInv, ShotTypes
    <3>2. Holds(idToType[m], idToWire'[m], ms, n + 1)
      <4>1. n + 1 \in DOMAIN ms
        BY <2>3, <1>0
      <4>2. ms[n + 1].id \in Nat
        BY <4>1, <1>0, SingleShotAssumption DEF IsData
      <4>3. ms[n + 1].id >= WireIdFirstUserType
        BY <4>2, <2>3 DEF WireIdFirstUserType
      <4> QED
        BY <2>3, <3>1, <4>3, <1>0, HoldsAdd
    <3>3. n + 1 <= Len(ms)
      BY <2>3, <1>0
    <3>4. OwnHolds(g)'
      <4>1. n + 1 \in DOMAIN ms /\ n + 1 > 0 /\ (n + 1) - 1 = n
        BY <3>3, <1>0
      <4>2. CASE ms[n + 1].incomplete
        <5>1. Built(idToType[m], ms, n + 1)
          BY <4>2, <1>0, BuiltIncomplete DEF Complete
        <5>2. pc'[g] = "types"
          BY <4>2, <2>3, <1>0 DEF AddWireType, Goto, ShotInv, ShotTypes
        <5> QED
          BY <5>1, <5>2, <3>1, <3>2, <3>3, <1>1 DEF OwnHolds
      <4>3. CASE ~ms[n + 1].incomplete
        <5>1. n + 1 \in Complete(ms)
          BY <4>1, <4>3 DEF Complete
        <5>2. pc'[g] = "build"
          BY <4>3, <2>3, <1>0 DEF AddWireType, Goto, ShotInv, ShotTypes
        <5>3. ms[n + 1].id \in DOMAIN idToWire'[m]
          BY <3>1 DEF Put
        <5> QED
          BY <4>1, <5>1, <5>2, <5>3, <3>1, <3>2, <3>3, <1>0, <1>1 DEF OwnHolds
      <4> QED
        BY <4>2, <4>3
    <3>5. Answer(g)'
      BY <3>1, <1>0, <1>1 DEF Answer, NoResult
    <3> QED
      BY <3>1, <3>4, <3>5
  <2> QED
    BY <2>1, <2>2, <2>3, <2>4, <1>0
<1>3. DOMAIN got' = G /\ DOMAIN idToType' = Maps
  BY <1>1 DEF ShotInv, ShotTypes
<1> QED
  BY <1>0, <1>1, <1>2, <1>3, OwnStep

(* buildType: the new types move to idToType, or one is unknown or malformed. *)
LEMMA BuildTypeInv ==
    ASSUME ShotInv, NEW g \in G, BuildType(g)
    PROVE  ShotInv'
<1> DEFINE m == tdec[g]
           new == Reach(idToWire[m], DOMAIN idToType[m], data[g].types[next[g]].id)
<1>0. /\ pc[g] = "build" /\ Active(g) /\ cacheMiss[g] /\ m \in Maps /\ data[g] \in Data
      /\ next[g] \in Nat /\ next[g] > 0 /\ next[g] <= Len(data[g].types)
      /\ 1 .. next[g] \subseteq DOMAIN data[g].types
      /\ next[g] \in Complete(data[g].types) /\ data[g].types[next[g]].id \in DOMAIN idToWire[m]
      /\ Holds(idToType[m], idToWire[m], data[g].types, next[g])
      /\ Built(idToType[m], data[g].types, next[g] - 1)
      /\ got[g] = <<>> /\ data[g].kind # "cutTypes" /\ result[g] = NoResult
  <2>1. pc[g] = "build" /\ Active(g)
    BY DEF BuildType, Active
  <2>2. m \in Maps /\ data[g] \in Data
    BY <2>1, OwnMap
  <2> QED
    BY <2>1, <2>2, DataShape DEF ShotInv, ShotTypes, Ownership, Contents, OwnHolds, Answer
<1>1. /\ \A h \in G \ {g} : SameFor(h)
      /\ decoders' = decoders /\ allocated' = allocated /\ calls' = calls /\ next' = next
      /\ data' = data /\ tdec' = tdec /\ cacheMiss' = cacheMiss /\ got' = got
      /\ pc' \in [G -> Place] /\ DOMAIN result' = G
      /\ DOMAIN idToWire' = Maps /\ DOMAIN idToType' = Maps
      /\ \A x \in Maps : x # m => idToType'[x] = idToType[x] /\ idToWire'[x] = idToWire[x]
  <2> HIDE DEF new
  <2> QED
    BY DEF ShotInv, ShotTypes, BuildType, Goto, Return, SameFor, Place, maps
<1>2. OwnHolds(g)' /\ Answer(g)' /\ pc'[g] \in {"types", "idle"}
  <2>1. CASE Builds(idToWire[m], new)
    <3>1. /\ pc'[g] = "types" /\ result' = result
          /\ idToType'[m] = [i \in DOMAIN idToType[m] \cup new |->
                                IF i \in new THEN idToWire[m][i] ELSE idToType[m][i]]
          /\ idToWire'[m] = [i \in DOMAIN idToWire[m] \ new |-> idToWire[m][i]]
      BY <2>1, <1>0 DEF BuildType, Goto, ShotInv, ShotTypes
    <3> HIDE DEF new
    <3>2. Holds(idToType'[m], idToWire'[m], data[g].types, next[g])
      <4>1. /\ DOMAIN idToType'[m] = DOMAIN idToType[m] \cup new
            /\ \A x \in DOMAIN idToType'[m] :
                  idToType'[m][x] = IF x \in new THEN idToWire[m][x] ELSE idToType[m][x]
            /\ DOMAIN idToWire'[m] = DOMAIN idToWire[m] \ new
            /\ \A x \in DOMAIN idToWire'[m] : idToWire'[m][x] = idToWire[m][x]
        BY <3>1
      <4>2. /\ Holds(idToType[m], idToWire[m], data[g].types, next[g])
            /\ new \subseteq DOMAIN idToWire[m]
        BY <2>1, <1>0 DEF Builds
      <4> HIDE DEF m
      <4>3. DOMAIN idToType'[m] \cup DOMAIN idToWire'[m] = DOMAIN idToType[m] \cup DOMAIN idToWire[m]
        BY <4>1, <4>2
      <4>4. DOMAIN idToType'[m] \cap DOMAIN idToWire'[m] = {}
        BY <4>1, <4>2 DEF Holds
      <4> QED
        BY <4>1, <4>2, <4>3, <4>4 DEF Holds
    <3>5. Built(idToType'[m], data[g].types, next[g])
      <4> DEFINE ms == data[g].types
      <4>1. SUFFICES ASSUME Once(ms)
                     PROVE  /\ DOMAIN idToType'[m] = UNION {Beneath(ms, i) : i \in Complete(ms) \cap 1 .. next[g]}
                            /\ \A i \in Complete(ms) \cap 1 .. next[g] : Buildable(ms, i)
        BY DEF Built
      <4>2. /\ DOMAIN idToType[m] \cup new = UNION {Beneath(ms, i) : i \in Complete(ms) \cap 1 .. next[g]}
            /\ Buildable(ms, next[g])
        <5> DEFINE types == idToType[m]
                   wire == idToWire[m]
                   n == next[g]
        <5>1. /\ n \in Nat /\ n > 0 /\ 1 .. n \subseteq DOMAIN ms /\ Once(ms)
              /\ Holds(types, wire, ms, n) /\ Built(types, ms, n - 1)
              /\ n \in Complete(ms) /\ ms[n].id \in DOMAIN wire
          BY <4>1, <1>0
        <5>2. new = Reach(wire, DOMAIN types, ms[n].id) /\ Builds(wire, new)
          BY <2>1 DEF new
        <5>3. SUFFICES /\ DOMAIN types \cup new = UNION {Beneath(ms, i) : i \in Complete(ms) \cap 1 .. n}
                       /\ Buildable(ms, n)
          OBVIOUS
        <5> HIDE DEF types, wire, n, ms, m
        <5> QED
          BY <5>1, <5>2, BuildRight
      <4>3. \A i \in Complete(ms) \cap 1 .. (next[g] - 1) : Buildable(ms, i)
        BY <4>1, <1>0 DEF Built
      <4>4. \A i \in 1 .. next[g] : i \in 1 .. (next[g] - 1) \/ i = next[g]
        BY <1>0
      <4> QED
        BY <4>2, <4>3, <4>4, <3>1
    <3>3. OwnHolds(g)'
      BY <3>1, <3>2, <3>5, <1>0, <1>1 DEF OwnHolds
    <3>4. Answer(g)'
      BY <3>1, <1>0, <1>1 DEF Answer, NoResult
    <3> QED
      BY <3>1, <3>3, <3>4
  <2>2. CASE ~Builds(idToWire[m], new)
    <3>1. pc'[g] = "idle" /\ result'[g].err = "error"
      BY <2>2, <1>0 DEF BuildType, Return, ShotInv, ShotTypes
    <3> HIDE DEF new
    <3>2. ~Alone(data[g])
      <4> DEFINE ms == data[g].types
      <4>1. Once(ms) => ~Buildable(ms, next[g])
        <5> DEFINE types == idToType[m]
                   wire == idToWire[m]
                   n == next[g]
        <5>1. SUFFICES ASSUME Once(ms)
                       PROVE  ~Buildable(ms, n)
          OBVIOUS
        <5>2. /\ n \in Nat /\ n > 0 /\ 1 .. n \subseteq DOMAIN ms
              /\ Holds(types, wire, ms, n) /\ Built(types, ms, n - 1)
              /\ n \in Complete(ms) /\ ms[n].id \in DOMAIN wire
          BY <1>0
        <5>3. new = Reach(wire, DOMAIN types, ms[n].id) /\ ~Builds(wire, new)
          BY <2>2 DEF new
        <5> HIDE DEF types, wire, n, ms, m
        <5> QED
          BY <5>1, <5>2, <5>3, BuildRight
      <4> QED
        BY <4>1, <1>0 DEF Alone, Once
    <3> QED
      BY <3>1, <3>2, <1>1 DEF OwnHolds, Answer
  <2> QED
    BY <2>1, <2>2
<1>3. DOMAIN got' = G /\ next' \in [G -> Nat]
  BY <1>1 DEF ShotInv, ShotTypes
<1> QED
  BY <1>0, <1>1, <1>2, <1>3, OwnStep

(* The goroutine's maps hold all that its type messages define, be they its *)
(* own or those in the cache.                                               *)
LEMMA MapsWhole ==
    ASSUME ShotInv, NEW g \in G, pc[g] \in {"value", "insert"}
    PROVE  Whole(idToType[tdec[g]], idToWire[tdec[g]], data[g].types)
<1>1. CASE cacheMiss[g]
  BY <1>1 DEF ShotInv, Contents, OwnHolds
<1>2. CASE ~cacheMiss[g]
  <2>1. data[g].types \in DOMAIN decoders /\ decoders[data[g].types] = tdec[g]
    BY <1>2 DEF ShotInv, Ownership, Active, CacheKey
  <2> QED
    BY <2>1 DEF ShotInv, Contents, CacheWhole
<1> QED
  BY <1>1, <1>2

(* lookupType of a value: what it finds is what the type messages say. *)
LEMMA LookupTypeInv ==
    ASSUME ShotInv, NEW g \in G, LookupType(g)
    PROVE  ShotInv'
<1> DEFINE m == tdec[g]
           id == data[g].uses[next[g] + 1]
<1>0. /\ pc[g] = "value" /\ Active(g) /\ data[g] \in Data
      /\ next[g] \in Nat /\ next[g] < Len(data[g].uses) /\ Len(data[g].uses) \in Nat
      /\ Found(got[g], data[g], next[g]) /\ data[g].kind # "cutTypes" /\ result[g] = NoResult
  <2>1. pc[g] = "value" /\ Active(g) /\ next[g] < Len(data[g].uses)
    BY DEF LookupType, Active
  <2>2. data[g] \in Data
    BY <2>1, OwnMap
  <2> QED
    BY <2>1, <2>2, DataShape DEF ShotInv, ShotTypes, Answer
<1>1. /\ decoders' = decoders /\ allocated' = allocated /\ calls' = calls
      /\ idToType' = idToType /\ idToWire' = idToWire
      /\ data' = data /\ tdec' = tdec /\ cacheMiss' = cacheMiss
      /\ pc' \in [G -> Place] /\ next' \in [G -> Nat] /\ DOMAIN got' = G /\ DOMAIN result' = G
      /\ \A h \in G \ {g} : SameFor(h)
  <2>1. /\ decoders' = decoders /\ allocated' = allocated /\ calls' = calls
        /\ idToType' = idToType /\ idToWire' = idToWire
        /\ data' = data /\ tdec' = tdec /\ cacheMiss' = cacheMiss
    BY DEF LookupType, maps
  <2>2. /\ pc' \in [G -> Place] /\ DOMAIN result' = G
        /\ \A h \in G \ {g} : pc'[h] = pc[h] /\ result'[h] = result[h]
    BY DEF ShotInv, ShotTypes, LookupType, Return, Place
  <2>3. /\ next' \in [G -> Nat] /\ DOMAIN got' = G
        /\ \A h \in G \ {g} : next'[h] = next[h] /\ got'[h] = got[h]
    BY DEF ShotInv, ShotTypes, LookupType
  <2> QED
    BY <2>1, <2>2, <2>3 DEF SameFor
<1>2. CASE id \in DOMAIN idToType[m]
  <2>1. /\ pc' = pc /\ result' = result /\ next'[g] = next[g] + 1
        /\ got'[g] = Append(got[g], idToType[m][id])
    BY <1>2 DEF LookupType, ShotInv, ShotTypes
  <2>2. Whole(idToType[m], idToWire[m], data[g].types)
    BY <1>0, MapsWhole
  <2>3. /\ id \in DOMAIN TypesIn(data[g].types) /\ TypesIn(data[g].types)[id] = idToType[m][id]
        /\ \E i \in Complete(data[g].types) : id \in Beneath(data[g].types, i)
    <3> DEFINE d == data[g]
               types == idToType[m]
    <3>1. d \in Data /\ Whole(types, idToWire[m], d.types) /\ id \in DOMAIN types
      BY <2>2, <1>0, <1>2
    <3> HIDE DEF id, m, d, types
    <3>2. /\ id \in DOMAIN TypesIn(d.types) /\ TypesIn(d.types)[id] = types[id]
          /\ \E i \in Complete(d.types) : id \in Beneath(d.types, i)
      BY <3>1, HoldsFound
    <3> QED
      BY <3>2 DEF d, types
  <2>4. Found(got'[g], data[g], next[g] + 1)
    BY <2>1, <2>3, <1>0, FoundAppend
  <2>5. OwnHolds(g)'
    BY <2>1, <2>2, <1>0, <1>1 DEF OwnHolds
  <2>c. next[g] + 1 <= Len(data[g].uses)
    BY <1>0
  <2>6. Answer(g)'
    <3>1. pc'[g] = "value" /\ result'[g].err = "none" /\ result'[g] = NoResult
      BY <2>1, <1>0 DEF NoResult
    <3>2. next'[g] <= Len(data'[g].uses) /\ Found(got'[g], data'[g], next'[g])
      BY <2>1, <2>4, <2>c, <1>1
    <3>3. data'[g].kind # "cutTypes"
      BY <1>0, <1>1
    <3> QED
      BY <3>1, <3>2, <3>3 DEF Answer
  <2> QED
    BY <2>1, <2>5, <2>6, <1>0, <1>1, OwnStep DEF ShotInv, ShotTypes
<1>3. CASE id \notin DOMAIN idToType[m]
  <2>1. pc'[g] = "idle" /\ result'[g].err = "error"
    BY <1>3 DEF LookupType, Return, ShotInv, ShotTypes
  <2>3. Whole(idToType[m], idToWire[m], data[g].types)
    BY <1>0, MapsWhole
  <2>4. \A i \in Complete(data[g].types) : id \notin Beneath(data[g].types, i)
    <3> DEFINE d == data[g]
               types == idToType[m]
    <3>1. d \in Data /\ Whole(types, idToWire[m], d.types) /\ id \notin DOMAIN types
      BY <2>3, <1>0, <1>3
    <3> HIDE DEF id, m, d, types
    <3>2. ~ \E i \in Complete(d.types) : id \in Beneath(d.types, i)
      BY <3>1, HoldsFound
    <3> QED
      BY <3>2 DEF d
  <2>5. next[g] + 1 \in DOMAIN data[g].uses
    BY <1>0, DataShape
  <2>6. ~Alone(data[g])
    BY <2>4, <2>5 DEF Alone
  <2>2. OwnHolds(g)' /\ Answer(g)'
    BY <2>1, <2>6, <1>1 DEF OwnHolds, Answer
  <2> QED
    BY <2>1, <2>2, <1>0, <1>1, OwnStep DEF ShotInv, ShotTypes
<1> QED
  BY <1>2, <1>3

(* The end of the value. *)
LEMMA EndValueInv ==
    ASSUME ShotInv, NEW g \in G, EndValue(g)
    PROVE  ShotInv'
<1>0. /\ pc[g] = "value" /\ Active(g) /\ data[g] \in Data
      /\ next[g] = Len(data[g].uses)
      /\ data[g].kind \in {"good", "cutValue"}
      /\ Found(got[g], data[g], Len(data[g].uses)) /\ result[g] = NoResult
  <2>1. pc[g] = "value" /\ Active(g) /\ next[g] = Len(data[g].uses)
    BY DEF EndValue, Active
  <2>2. data[g] \in Data
    BY <2>1, OwnMap
  <2> QED
    BY <2>1, <2>2, DataShape DEF ShotInv, ShotTypes, Answer
<1>1. /\ decoders' = decoders /\ allocated' = allocated /\ calls' = calls
      /\ idToType' = idToType /\ idToWire' = idToWire
      /\ data' = data /\ tdec' = tdec /\ cacheMiss' = cacheMiss /\ next' = next /\ got' = got
      /\ pc' \in [G -> Place] /\ DOMAIN result' = G
      /\ \A h \in G \ {g} : SameFor(h)
  BY DEF ShotInv, ShotTypes, EndValue, Return, Goto, Place, maps, SameFor
<1>2. Whole(idToType[tdec[g]], idToWire[tdec[g]], data[g].types)
  BY <1>0, MapsWhole
<1>3. data[g].kind = "good" <=> Alone(data[g])
  BY <1>0, <1>2, WholeAlone DEF Alone
<1>4. \/ pc'[g] = "idle" /\ data[g].kind # "good" /\ result'[g] = [err |-> "error", types |-> got[g]]
      \/ pc'[g] = "insert" /\ cacheMiss[g] /\ data[g].kind = "good" /\ result' = result
      \/ pc'[g] = "idle" /\ data[g].kind = "good" /\ result'[g] = [err |-> "nil", types |-> got[g]]
  BY <1>0 DEF EndValue, Return, Goto, ShotInv, ShotTypes
<1>5. OwnHolds(g)'
  BY <1>1, <1>2, <1>4 DEF OwnHolds
<1>6. Answer(g)'
  BY <1>0, <1>1, <1>3, <1>4 DEF Answer, NoResult
<1> QED
  BY <1>0, <1>1, <1>4, <1>5, <1>6, OwnStep DEF ShotInv, ShotTypes

(* The insert into the cache: the goroutine's maps are whole, and it does   *)
(* not use them any more.                                                   *)
LEMMA InsertInv ==
    ASSUME ShotInv, NEW g \in G, Insert(g)
    PROVE  ShotInv'
<1> DEFINE key == data[g].types
<1>0. /\ pc[g] = "insert" /\ Active(g) /\ cacheMiss[g] /\ data[g] \in Data
      /\ data[g].kind = "good" /\ Found(got[g], data[g], Len(data[g].uses))
      /\ tdec[g] \in 1 .. allocated
  <2>1. pc[g] = "insert" /\ Active(g)
    BY DEF Insert, Active
  <2>2. data[g] \in Data
    BY <2>1, OwnMap
  <2> QED
    BY <2>1, <2>2 DEF ShotInv, Ownership, Answer
<1>1. /\ allocated' = allocated /\ calls' = calls /\ idToType' = idToType /\ idToWire' = idToWire
      /\ data' = data /\ tdec' = tdec /\ cacheMiss' = cacheMiss /\ next' = next /\ got' = got
      /\ pc' \in [G -> Place] /\ DOMAIN result' = G
      /\ \A h \in G \ {g} : SameFor(h)
      /\ pc'[g] = "idle" /\ result'[g] = [err |-> "nil", types |-> got[g]]
  BY DEF ShotInv, ShotTypes, Insert, Return, Place, maps, SameFor
<1>2. /\ DOMAIN decoders \subseteq DOMAIN decoders'
      /\ \A k \in DOMAIN decoders : decoders'[k] = decoders[k]
      /\ \A k \in DOMAIN decoders' : k \in DOMAIN decoders \/ (k = key /\ decoders'[k] = tdec[g])
  BY DEF Insert, Put, CacheKey
<1>3. Whole(idToType[tdec[g]], idToWire[tdec[g]], key)
  BY <1>0, MapsWhole
<1>4. Alone(data[g])
  BY <1>0, <1>3, WholeAlone
<1>5. ShotTypes'
  <2>1. \A h \in G : pc'[h] # "idle" => data'[h] \in Data
    BY <1>1 DEF ShotInv, ShotTypes, SameFor
  <2> QED
    BY <1>1, <2>1 DEF ShotInv, ShotTypes
<1>6. MapsSuffice'
  <2>1. LookingUp' = LookingUp
    BY <1>0, <1>1 DEF LookingUp, SameFor
  <2> QED
    BY <1>1, <2>1, LookingUpSame
<1>7. Ownership'
  <2>1. \A h \in G : Active(h)' => h # g /\ Active(h) /\ (cacheMiss[h] => tdec[h] # tdec[g])
    BY <1>0, <1>1 DEF ShotInv, Ownership, Active, SameFor
  <2>2. \A h \in G : pc'[h] \in {"types", "build", "insert"} => cacheMiss[h]
    BY <1>1 DEF ShotInv, Ownership, SameFor
  <2>3. \A h \in G : Active(h)' /\ cacheMiss[h] => \A k \in DOMAIN decoders' : decoders'[k] # tdec[h]
    BY <1>2, <2>1 DEF ShotInv, Ownership
  <2>4. \A h \in G : Active(h)' /\ ~cacheMiss[h] => /\ CacheKey(data[h]) \in DOMAIN decoders'
                                                    /\ decoders'[CacheKey(data[h])] = tdec[h]
    BY <1>2, <2>1 DEF ShotInv, Ownership
  <2>5. \A k \in DOMAIN decoders' : decoders'[k] \in 1 .. allocated
    BY <1>0, <1>2 DEF ShotInv, Ownership
  <2>6. \A h, i \in G : Active(h)' /\ cacheMiss[h] /\ Active(i)' /\ cacheMiss[i] /\ tdec[h] = tdec[i] => h = i
    BY <2>1 DEF ShotInv, Ownership
  <2>7. \A h \in G : Active(h)' => tdec[h] \in 1 .. allocated
    BY <2>1 DEF ShotInv, Ownership
  <2> QED
    BY <1>1, <2>2, <2>3, <2>4, <2>5, <2>6, <2>7 DEF Ownership, CacheKey
<1>8. Contents'
  <2>1. CacheWhole'
    BY <1>1, <1>2, <1>3 DEF ShotInv, Contents, CacheWhole
  <2>2. NewEmpty'
    BY <1>1 DEF ShotInv, Contents, NewEmpty
  <2>3. ASSUME NEW h \in G PROVE OwnHolds(h)'
    BY <1>1 DEF ShotInv, Contents, OwnHolds, SameFor
  <2> QED
    BY <2>1, <2>2, <2>3 DEF Contents
<1>9. Answer(g)'
  BY <1>0, <1>1, <1>4 DEF Answer
<1> QED
  BY <1>1, <1>5, <1>6, <1>7, <1>8, <1>9, OthersAnswer DEF ShotInv

LEMMA ShotNext == ShotInv /\ [Next]_vars => ShotInv'
<1> SUFFICES ASSUME ShotInv, [Next]_vars PROVE ShotInv'
  OBVIOUS
<1>1. CASE Next
  BY <1>1, DecodeInv, LookupInv, AddWireTypeInv, BuildTypeInv, LookupTypeInv, EndValueInv, InsertInv
  DEF Next
<1>2. CASE UNCHANGED vars
  <2> USE <1>2 DEF vars, maps
  <2>1. ShotTypes' /\ MapsSuffice'
    BY DEF ShotInv, ShotTypes, MapsSuffice, LookingUp
  <2>2. Ownership'
    BY DEF ShotInv, Ownership, Active
  <2>3. Contents'
    BY DEF ShotInv, Contents, CacheWhole, OwnHolds, NewEmpty
  <2>4. \A g \in G : Answer(g)'
    BY DEF ShotInv, Answer
  <2> QED
    BY <2>1, <2>2, <2>3, <2>4 DEF ShotInv
<1> QED
  BY <1>1, <1>2

LEMMA ShotInvariant == Spec => []ShotInv
BY ShotInit, ShotNext, PTL DEF Spec
-----------------------------------------------------------------------------
(* The TypeDecoders derived from a cached one share its maps under locks of *)
(* their own; still there is no race, because nobody writes maps that are   *)
(* shared or cached.                                                        *)
THEOREM SingleShotSharedNotWritten == Spec => []SharedNotWritten
<1>1. ShotInv => SharedNotWritten
  BY DEF ShotInv, Ownership, Active, SharedNotWritten, Uses
<1> QED
  BY <1>1, ShotInvariant, PTL

(* vom.Decode returns what a Decoder of its own would, whoever put the maps *)
(* it uses into the cache: it fails exactly when the bytes alone make it    *)
(* fail, and the types of the value are the ones that these bytes define.   *)
THEOREM SingleShotDecodesAlone == Spec => []DecodesAlone
<1>1. ShotInv => DecodesAlone
  <2> SUFFICES ASSUME ShotInv, NEW g \in G, result[g] # NoResult
               PROVE  /\ result[g].err = "nil" <=> Alone(data[g])
                      /\ result[g].err = "nil" => result[g].types =
                            [i \in DOMAIN data[g].uses |-> TypesIn(data[g].types)[data[g].uses[i]]]
    BY DEF DecodesAlone
  <2>1. Answer(g)
    BY DEF ShotInv
  <2>2. result[g].err = "nil" <=> Alone(data[g])
    BY <2>1 DEF Answer
  <2>3. ASSUME result[g].err = "nil"
        PROVE  result[g].types = [i \in DOMAIN data[g].uses |-> TypesIn(data[g].types)[data[g].uses[i]]]
    <3>1. DOMAIN data[g].uses = 1 .. Len(data[g].uses)
      BY <2>1, <2>3, DataShape DEF Answer
    <3> QED
      BY <2>1, <2>3, <3>1 DEF Answer, Found
  <2> QED
    BY <2>2, <2>3
<1> QED
  BY <1>1, ShotInvariant, PTL
-----------------------------------------------------------------------------
(* The pipe, between any two goroutines, whatever they call. *)

(* Who may be between calls in each State. *)
Turns ==
    /\ State \in {"Encoder", "Decoder", "Closed"}
    /\ State = "Decoder" => epc \in {"start", "finish"}
    /\ State = "Encoder" /\ DecStarted => dpc \in {"start", "finish"}
    /\ State = "Closed" => epc \in {"fail", "done"} \/ dpc \in {"fail", "done"}

PipeInv == Turns /\ SleepersAwaited

(* The turns and the wake-ups are preserved by every call. *)
LEMMA PipeInvStep == PipeInv /\ [PipeNext]_pipeVars => PipeInv'
<1> SUFFICES ASSUME PipeInv, [PipeNext]_pipeVars PROVE PipeInv'
  OBVIOUS
<1> USE DEF PipeInv, Turns, SleepersAwaited
<1>1. CASE EncStartValue(eArg')
  BY <1>1 DEF EncStartValue, EncBadState, EncWait, CloseLocked, Ret
<1>2. CASE EncStartResume
  BY <1>2 DEF EncStartResume, Ret
<1>3. CASE EncFinishValue
  BY <1>3 DEF EncFinishValue, EncBadState, EncWait, CloseLocked
<1>4. CASE EncFinishResume
  BY <1>4 DEF EncFinishResume, CloseLocked, Ret
<1>5. CASE EncSet(TRUE)
  BY <1>5 DEF EncSet, CloseLocked, Ret
<1>15. CASE EncOnTop(TRUE, "run") \/ EncOnTop(TRUE, Ret)
  BY <1>15 DEF EncOnTop, CloseLocked, Ret
<1>6. CASE EncClose(Err')
  BY <1>6 DEF EncClose, CloseLocked
<1>7. CASE DecStartValue
  BY <1>7 DEF DecStartValue, DecWait, CloseLocked, Ret
<1>8. CASE DecStartResume
  BY <1>8 DEF DecStartResume, DecResume, CloseLocked, Ret
<1>9. CASE DecFinishValue
  BY <1>9 DEF DecFinishValue, DecWait, CloseLocked, Ret
<1>10. CASE DecFinishResume
  BY <1>10 DEF DecFinishResume, DecResume, CloseLocked, Ret
<1>11. CASE DecNextEntry \/ DecNextField
  BY <1>11 DEF DecNextEntry, DecNextField, DecEmptyStack, CloseLocked, Ret
<1>12. CASE IgnoreNextStartValue
  BY <1>12 DEF IgnoreNextStartValue
<1>13. CASE DecClose(Err')
  BY <1>13 DEF DecClose, CloseLocked
<1>14. CASE UNCHANGED pipeVars
  BY <1>14 DEF pipeVars
<1> QED
  BY <1>1, <1>2, <1>3, <1>4, <1>5, <1>6, <1>7, <1>8, <1>9, <1>10, <1>11, <1>12, <1>13, <1>14, <1>15
  DEF PipeNext

LEMMA PipeInvariant == PipeSpec => []PipeInv
<1>1. PipeInit => PipeInv
  BY DEF PipeInit, PipeInv, Turns, SleepersAwaited
<1> QED
  BY <1>1, PipeInvStep, PTL DEF PipeSpec

(* The unlocked fields of the pipe are never used by both goroutines at     *)
(* once, whatever the goroutines call and however they fail.                *)
THEOREM PipeExclusive == PipeSpec => []OneRuns
<1>1. PipeInv => OneRuns
  BY DEF PipeInv, Turns, OneRuns
<1> QED
  BY <1>1, PipeInvariant, PTL

(* No Broadcast is missing: wait never sleeps through its own turn, and     *)
(* nobody sleeps in a closed pipe.                                          *)
THEOREM PipeWakeups == PipeSpec => []SleepersAwaited
<1>1. PipeInv => SleepersAwaited
  BY DEF PipeInv
<1> QED
  BY <1>1, PipeInvariant, PTL
-----------------------------------------------------------------------------
(* The query engine, for any clients, statements and meaning of where       *)
(* clauses.                                                                 *)

RunFields == {"pc", "id", "stmt", "where", "declared", "snapshot", "rows", "stream", "err",
              "out", "skipped", "deleted", "count"}

(* What an execution may have counted, returned and deleted. *)
Within(r, t) ==
    /\ IsFiniteSet(r.deleted) /\ r.count = Cardinality(r.deleted)
    /\ r.deleted \cap Protected = {} /\ r.deleted \cap DOMAIN t = {}
    /\ \E S : r.out \in Seq(S)
    /\ r.stmt.limit # NoLimit => r.count <= r.stmt.limit /\ Len(r.out) <= r.stmt.limit

Unstarted(r) == r.stream = "none" /\ r.deleted = {} /\ r.count = 0 /\ r.out = <<>>

(* An execution at its place, when the table is t. *)
RunOK(r, t) ==
    /\ DOMAIN r = RunFields
    /\ r.pc \in {"idle", "prepare", "copy", "check", "scan", "read", "deleting", "done", "panic"}
    /\ r.pc \in {"prepare", "copy", "check", "scan", "read", "deleting", "done"} => r.stmt \in Statements
    /\ r.pc \notin {"read", "deleting", "done"} => Unstarted(r)
    /\ r.pc \in {"read", "deleting", "done"} => Within(r, t)
    /\ r.pc = "done" => r.stream # "open"

ExecInv ==
    /\ DOMAIN run = Client /\ DOMAIN handle = Client
    /\ \A id \in DOMAIN preparedStatements : preparedStatements[id] \in Statements
    /\ \A c \in Client : RunOK(run[c], table)
    /\ \A c, d \in Client : c # d => run[c].deleted \cap run[d].deleted = {}

LEMMA NoRunOK ==
    ASSUME NEW t
    PROVE  RunOK(NoRun, t) /\ NoRun.deleted = {}
BY DEF RunOK, NoRun, RunFields, Unstarted

(* A run that has returned and deleted nothing is within its limit. *)
LEMMA UnstartedWithin ==
    ASSUME NEW r, Unstarted(r), r.stmt \in Statements, NEW t
    PROVE  Within(r, t)
<1>1. IsFiniteSet({}) /\ Cardinality({}) = 0
  BY FS_EmptySet
<1>2. r.stmt.limit \in Nat
  BY QueryAssumption
<1>3. <<>> \in Seq({}) /\ Len(<<>>) = 0
  OBVIOUS
<1>4. r.count = Cardinality(r.deleted) /\ IsFiniteSet(r.deleted) /\ r.count = 0
  BY <1>1 DEF Unstarted
<1>5. r.out \in Seq({}) /\ Len(r.out) = 0
  BY <1>3 DEF Unstarted
<1>6. r.deleted = {}
  BY DEF Unstarted
<1> QED
  BY <1>2, <1>4, <1>5, <1>6 DEF Within

(* A step of client c that deletes nothing. *)
LEMMA OneRunStep ==
    ASSUME ExecInv, NEW c \in Client, NEW r, run' = [run EXCEPT ![c] = r], RunOK(r, table),
           r.deleted = run[c].deleted \/ r.deleted = {}, table' = table, DOMAIN handle' = Client,
           \A id \in DOMAIN preparedStatements' : preparedStatements'[id] \in Statements
    PROVE  ExecInv'
<1>1. DOMAIN run' = Client /\ run'[c] = r /\ \A d \in Client \ {c} : run'[d] = run[d]
  BY DEF ExecInv
<1>2. \A d \in Client : RunOK(run'[d], table)
  BY <1>1 DEF ExecInv
<1>3. ASSUME NEW d \in Client, NEW e \in Client, d # e
      PROVE  run'[d].deleted \cap run'[e].deleted = {}
  BY <1>1, <1>3 DEF ExecInv
<1> QED
  BY <1>1, <1>2, <1>3 DEF ExecInv

LEMMA PrepareExecInv ==
    ASSUME ExecInv, NEW c \in Client, NEW s \in Statements, PrepareStatement(c, s)
    PROVE  ExecInv'
<1> DEFINE r == [run[c] EXCEPT !.pc = "prepare", !.id = nextID, !.stmt = s]
<1>1. run' = [run EXCEPT ![c] = r] /\ run[c].pc = "idle"
  BY DEF PrepareStatement
<1>2. RunOK(run[c], table) /\ Unstarted(run[c]) /\ DOMAIN run[c] = RunFields
  BY <1>1 DEF ExecInv, RunOK
<1>3. DOMAIN r = RunFields /\ r.pc = "prepare" /\ r.stmt = s /\ Unstarted(r) /\ r.deleted = run[c].deleted
  BY <1>2 DEF RunFields, Unstarted
<1> HIDE DEF r
<1>4. RunOK(r, table)
  BY <1>3 DEF RunOK
<1> QED
  BY <1>1, <1>3, <1>4, OneRunStep DEF PrepareStatement, ExecInv

LEMMA StoreExecInv ==
    ASSUME ExecInv, NEW c \in Client, StorePrepared(c)
    PROVE  ExecInv'
<1>1. run[c].stmt \in Statements
  BY DEF StorePrepared, ExecInv, RunOK
<1>2. \A id \in DOMAIN preparedStatements' : preparedStatements'[id] \in Statements
  BY <1>1 DEF StorePrepared, ExecInv
<1>3. run' = [run EXCEPT ![c] = NoRun] /\ table' = table /\ DOMAIN handle' = Client
  BY DEF StorePrepared, ExecInv
<1> QED
  BY <1>2, <1>3, NoRunOK, OneRunStep

(* The handles change and no execution does. *)
LEMMA HandleExecInv ==
    ASSUME ExecInv, NEW c \in Client, Close(c) \/ \E id \in DOMAIN operators : GetPreparedStatement(c, id)
    PROVE  ExecInv'
<1>1. run' = run /\ table' = table /\ DOMAIN handle' = Client
  BY DEF Close, GetPreparedStatement, ExecInv
<1>2. \A id \in DOMAIN preparedStatements' : preparedStatements'[id] \in Statements
  BY DEF Close, GetPreparedStatement, ExecInv
<1> QED
  BY <1>1, <1>2 DEF ExecInv

LEMMA LookupExecInv ==
    ASSUME ExecInv, NEW c \in Client, ExecLookup(c)
    PROVE  ExecInv'
<1>1. run[c].pc = "idle" /\ Unstarted(run[c]) /\ DOMAIN run[c] = RunFields
  BY DEF ExecLookup, ExecInv, RunOK
<1>2. CASE handle[c] \in DOMAIN preparedStatements
  <2> DEFINE r == [run[c] EXCEPT !.pc = "copy", !.id = handle[c], !.stmt = preparedStatements[handle[c]]]
  <2>1. run' = [run EXCEPT ![c] = r]
    BY <1>2 DEF ExecLookup
  <2>2. /\ DOMAIN r = RunFields /\ r.pc = "copy" /\ r.stmt \in Statements /\ Unstarted(r)
        /\ r.deleted = run[c].deleted
    BY <1>1, <1>2 DEF RunFields, Unstarted, ExecInv
  <2> HIDE DEF r
  <2>3. RunOK(r, table)
    BY <2>2 DEF RunOK
  <2> QED
    BY <2>1, <2>2, <2>3, OneRunStep DEF ExecLookup, ExecInv
<1>3. CASE handle[c] \notin DOMAIN preparedStatements
  <2> DEFINE r == [run[c] EXCEPT !.pc = "panic"]
  <2>1. run' = [run EXCEPT ![c] = r]
    BY <1>3 DEF ExecLookup
  <2>2. DOMAIN r = RunFields /\ r.pc = "panic" /\ Unstarted(r) /\ r.deleted = run[c].deleted
    BY <1>1 DEF RunFields, Unstarted
  <2> HIDE DEF r
  <2>3. RunOK(r, table)
    BY <2>2 DEF RunOK
  <2> QED
    BY <2>1, <2>2, <2>3, OneRunStep DEF ExecLookup, ExecInv
<1> QED
  BY <1>2, <1>3

(* A step before the scan that goes on or fails. *)
LEMMA BeforeScan ==
    ASSUME ExecInv, NEW c \in Client, run[c].pc \in {"copy", "check", "scan"},
           NEW r, DOMAIN r = RunFields, Unstarted(r), r.stmt = run[c].stmt,
           r.pc \in {"check", "scan", "done"}, run' = [run EXCEPT ![c] = r],
           table' = table, handle' = handle, preparedStatements' = preparedStatements
    PROVE  ExecInv'
<1>1. r.stmt \in Statements
  BY DEF ExecInv, RunOK
<1>2. r.deleted = {} /\ r.stream # "open"
  BY DEF Unstarted
<1>3. RunOK(r, table)
  BY <1>1, <1>2, UnstartedWithin DEF RunOK
<1> QED
  BY <1>2, <1>3, OneRunStep DEF ExecInv

LEMMA CopyExecInv ==
    ASSUME ExecInv, NEW c \in Client, NEW values, CopyAndSubstitute(c, values)
    PROVE  ExecInv'
<1> DEFINE w == WithValues(run[c].stmt.where, values)
           r == [run[c] EXCEPT !.pc = "check", !.where = w, !.declared = w]
           e == [[run[c] EXCEPT !.err = TRUE] EXCEPT !.pc = "done"]
<1>1. run[c].pc = "copy" /\ Unstarted(run[c]) /\ DOMAIN run[c] = RunFields
  BY DEF CopyAndSubstitute, ExecInv, RunOK
<1>2. run' = [run EXCEPT ![c] = r] \/ run' = [run EXCEPT ![c] = e]
  BY DEF CopyAndSubstitute, Finish
<1>3. /\ DOMAIN r = RunFields /\ r.pc = "check" /\ Unstarted(r) /\ r.stmt = run[c].stmt
      /\ DOMAIN e = RunFields /\ e.pc = "done" /\ Unstarted(e) /\ e.stmt = run[c].stmt
  BY <1>1 DEF RunFields, Unstarted
<1> HIDE DEF r, e
<1> QED
  BY <1>1, <1>2, <1>3, BeforeScan DEF CopyAndSubstitute

LEMMA CheckExecInv ==
    ASSUME ExecInv, NEW c \in Client, Check(c)
    PROVE  ExecInv'
<1> DEFINE w == Checked(Shared(c), run[c].stmt.escape)
           r == [run[c] EXCEPT !.pc = "scan", !.where = w]
           e == [[run[c] EXCEPT !.err = TRUE] EXCEPT !.pc = "done"]
<1>1. run[c].pc = "check" /\ Unstarted(run[c]) /\ DOMAIN run[c] = RunFields
  BY DEF Check, ExecInv, RunOK
<1>2. run' = [run EXCEPT ![c] = r] \/ run' = [run EXCEPT ![c] = e]
  BY DEF Check, Finish
<1>3. /\ DOMAIN r = RunFields /\ r.pc = "scan" /\ Unstarted(r) /\ r.stmt = run[c].stmt
      /\ DOMAIN e = RunFields /\ e.pc = "done" /\ Unstarted(e) /\ e.stmt = run[c].stmt
  BY <1>1 DEF RunFields, Unstarted
<1> HIDE DEF r, e
<1> QED
  BY <1>1, <1>2, <1>3, BeforeScan DEF Check

LEMMA ScanExecInv ==
    ASSUME ExecInv, NEW c \in Client, ExecScan(c) \/ ExecScanFails(c)
    PROVE  ExecInv'
<1>1. run[c].pc = "scan" /\ Unstarted(run[c]) /\ DOMAIN run[c] = RunFields /\ run[c].stmt \in Statements
  BY DEF ExecScan, ExecScanFails, ExecInv, RunOK
<1>2. CASE ExecScanFails(c)
  <2> DEFINE e == [[run[c] EXCEPT !.err = TRUE] EXCEPT !.pc = "done"]
  <2>1. run' = [run EXCEPT ![c] = e]
    BY <1>2 DEF ExecScanFails, Finish
  <2>2. DOMAIN e = RunFields /\ e.pc = "done" /\ Unstarted(e) /\ e.stmt = run[c].stmt
    BY <1>1 DEF RunFields, Unstarted
  <2> HIDE DEF e
  <2> QED
    BY <1>1, <1>2, <2>1, <2>2, BeforeScan DEF ExecScanFails
<1>3. CASE ExecScan(c)
  <2> DEFINE next1 == IF run[c].stmt.kind = "select" THEN "read" ELSE "deleting"
             rows == Scan(table, Shared(c))
             r == [run[c] EXCEPT !.pc = next1, !.snapshot = table, !.rows = rows, !.stream = "open"]
  <2>1. run' = [run EXCEPT ![c] = r]
    BY <1>3 DEF ExecScan
  <2>2. /\ DOMAIN r = RunFields /\ r.pc \in {"read", "deleting"} /\ r.stmt = run[c].stmt
        /\ r.deleted = run[c].deleted /\ r.count = run[c].count /\ r.out = run[c].out
    BY <1>1 DEF RunFields
  <2> HIDE DEF r
  <2>3. Within(run[c], table)
    BY <1>1, UnstartedWithin
  <2>4. Within(r, table)
    BY <2>2, <2>3 DEF Within
  <2>5. RunOK(r, table)
    BY <1>1, <2>2, <2>4 DEF RunOK
  <2> QED
    BY <1>3, <2>1, <2>2, <2>5, OneRunStep DEF ExecScan, ExecInv
<1> QED
  BY <1>2, <1>3

(* A step while results are read or rows deleted that changes neither what  *)
(* was returned nor what was deleted.                                       *)
LEMMA WhileOpen ==
    ASSUME ExecInv, NEW c \in Client, run[c].pc \in {"read", "deleting"},
           NEW r, DOMAIN r = RunFields, r.stmt = run[c].stmt, r.deleted = run[c].deleted,
           r.count = run[c].count, r.out = run[c].out,
           r.pc = run[c].pc \/ (r.pc = "done" /\ r.stream # "open"),
           run' = [run EXCEPT ![c] = r],
           table' = table, handle' = handle, preparedStatements' = preparedStatements
    PROVE  ExecInv'
<1>1. r.stmt \in Statements /\ Within(run[c], table)
  BY DEF ExecInv, RunOK
<1>2. Within(r, table)
  BY <1>1 DEF Within
<1>3. RunOK(r, table)
  BY <1>1, <1>2 DEF RunOK
<1> QED
  BY <1>3, OneRunStep DEF ExecInv

LEMMA EndExecInv ==
    ASSUME ExecInv, NEW c \in Client,
           AdvanceAtLimit(c) \/ AdvanceEnd(c) \/ DeleteEnds(c) \/ Cancel(c) \/ StreamFails(c)
    PROVE  ExecInv'
<1>1. run[c].pc \in {"read", "deleting"} /\ DOMAIN run[c] = RunFields
  BY DEF AdvanceAtLimit, AdvanceEnd, DeleteEnds, Cancel, StreamFails, ExecInv, RunOK
<1>2. PICK s, e : \/ run' = [run EXCEPT ![c] = [run[c] EXCEPT !.stream = s, !.err = e, !.pc = "done"]] /\ s # "open"
                  \/ run' = [run EXCEPT ![c] = [run[c] EXCEPT !.stream = s]]
  <2> DEFINE r == run[c]
             D(s, e) == [r EXCEPT !.stream = s, !.err = e, !.pc = "done"]
  <2>1. CASE AdvanceAtLimit(c)
    <3> DEFINE s == IF r.stream = "open" THEN "cancelled" ELSE r.stream
    <3>1. [[r EXCEPT !.stream = s] EXCEPT !.pc = "done"] = D(s, r.err)
      BY <1>1 DEF RunFields
    <3>2. run' = [run EXCEPT ![c] = D(s, r.err)] /\ s # "open"
      BY <2>1, <3>1 DEF AdvanceAtLimit, Finish
    <3> HIDE DEF s
    <3> WITNESS s, r.err
    <3> QED
      BY <3>2
  <2>2. CASE AdvanceEnd(c)
    <3> DEFINE s == IF r.stream = "open" THEN "end" ELSE r.stream
               e == r.stream = "failed"
    <3>1. run' = [run EXCEPT ![c] = D(s, e)] /\ s # "open"
      BY <2>2 DEF AdvanceEnd, Finish
    <3> HIDE DEF s, e
    <3> WITNESS s, e
    <3> QED
      BY <3>1
  <2>3. CASE DeleteEnds(c)
    <3> DEFINE s == IF r.stream # "open" THEN r.stream ELSE IF r.rows # <<>> THEN "cancelled" ELSE "end"
               e == r.stream = "failed"
    <3>1. run' = [run EXCEPT ![c] = D(s, e)] /\ s # "open"
      BY <2>3 DEF DeleteEnds, Finish
    <3> HIDE DEF s, e
    <3> WITNESS s, e
    <3> QED
      BY <3>1
  <2>4. CASE Cancel(c)
    BY <2>4 DEF Cancel
  <2>5. CASE StreamFails(c)
    BY <2>5 DEF StreamFails
  <2> QED
    BY <2>1, <2>2, <2>3, <2>4, <2>5
<1>3. PICK r : /\ run' = [run EXCEPT ![c] = r] /\ DOMAIN r = RunFields /\ r.stmt = run[c].stmt
               /\ r.deleted = run[c].deleted /\ r.count = run[c].count /\ r.out = run[c].out
               /\ r.pc = run[c].pc \/ (r.pc = "done" /\ r.stream # "open")
  <2> DEFINE d == [run[c] EXCEPT !.stream = s, !.err = e, !.pc = "done"]
             k == [run[c] EXCEPT !.stream = s]
  <2>1. /\ DOMAIN d = RunFields /\ d.stmt = run[c].stmt /\ d.pc = "done" /\ d.stream = s
        /\ d.deleted = run[c].deleted /\ d.count = run[c].count /\ d.out = run[c].out
    BY <1>1 DEF RunFields
  <2>2. /\ DOMAIN k = RunFields /\ k.stmt = run[c].stmt /\ k.pc = run[c].pc
        /\ k.deleted = run[c].deleted /\ k.count = run[c].count /\ k.out = run[c].out
    BY <1>1 DEF RunFields
  <2> HIDE DEF d, k
  <2> QED
    BY <1>2, <2>1, <2>2 DEF d, k
<1> QED
  BY <1>1, <1>3, WhileOpen DEF AdvanceAtLimit, AdvanceEnd, DeleteEnds, Cancel, StreamFails

(* One more row of a select: below the limit there is room for it. *)
LEMMA AdvanceExecInv ==
    ASSUME ExecInv, NEW c \in Client, AdvanceRow(c)
    PROVE  ExecInv'
<1> DEFINE r0 == [run[c] EXCEPT !.rows = Tail(@)]
           ra == [r0 EXCEPT !.out = Append(@, Row(c).k)]
           rs == [r0 EXCEPT !.skipped = @ + 1]
<1>1. /\ run[c].pc = "read" /\ DOMAIN run[c] = RunFields /\ run[c].stmt \in Statements
      /\ ~LimitServed(c) /\ Within(run[c], table)
  BY DEF AdvanceRow, ExecInv, RunOK
<1>2. \/ run' = [run EXCEPT ![c] = r0] \/ run' = [run EXCEPT ![c] = ra]
      \/ run' = [run EXCEPT ![c] = rs]
  BY DEF AdvanceRow
<1>3. /\ DOMAIN r0 = RunFields /\ r0.stmt = run[c].stmt /\ r0.pc = "read"
      /\ r0.deleted = run[c].deleted /\ r0.count = run[c].count /\ r0.out = run[c].out
  BY <1>1 DEF RunFields
<1> DEFINE k == Row(c).k
<1> HIDE DEF r0, k
<1>4. /\ DOMAIN rs = RunFields /\ rs.stmt = run[c].stmt /\ rs.pc = "read"
      /\ rs.deleted = run[c].deleted /\ rs.count = run[c].count /\ rs.out = run[c].out
  BY <1>3 DEF RunFields
<1>5. /\ DOMAIN ra = RunFields /\ ra.stmt = run[c].stmt /\ ra.pc = "read"
      /\ ra.deleted = run[c].deleted /\ ra.count = run[c].count /\ ra.out = Append(run[c].out, k)
  BY <1>3 DEF RunFields, k
<1> HIDE DEF ra, rs
<1>6. table' = table /\ handle' = handle /\ preparedStatements' = preparedStatements
  BY DEF AdvanceRow
<1>7. CASE run' = [run EXCEPT ![c] = r0] \/ run' = [run EXCEPT ![c] = rs]
  BY <1>1, <1>3, <1>4, <1>6, <1>7, WhileOpen
<1>8. CASE run' = [run EXCEPT ![c] = ra]
  <2>1. PICK S : run[c].out \in Seq(S)
    BY <1>1 DEF Within
  <2>2. run[c].out \in Seq(S \cup {k}) /\ Len(run[c].out) \in Nat
    BY <2>1
  <2>3. ra.out \in Seq(S \cup {k}) /\ Len(ra.out) = Len(run[c].out) + 1
    BY <2>2, <1>5
  <2>4. run[c].stmt.limit \in Nat
    BY <1>1, QueryAssumption
  <2>5. run[c].stmt.limit # NoLimit => Len(ra.out) <= run[c].stmt.limit
    BY <1>1, <2>2, <2>3, <2>4 DEF LimitServed
  <2>6. Within(ra, table)
    BY <1>1, <1>5, <2>3, <2>5 DEF Within
  <2>7. RunOK(ra, table)
    BY <1>1, <1>5, <2>6 DEF RunOK
  <2> QED
    BY <1>5, <1>6, <1>8, <2>7, OneRunStep DEF ExecInv
<1> QED
  BY <1>2, <1>7, <1>8

(* One more row of a delete: it leaves the table, so that nobody else can   *)
(* count it.                                                                *)
LEMMA DeleteExecInv ==
    ASSUME ExecInv, NEW c \in Client, DeleteRow(c)
    PROVE  ExecInv'
<1> DEFINE k == Row(c).k
           gone == Accepted(Shared(c), Row(c)) /\ k \in DOMAIN table /\ k \notin Protected
           rn == [run[c] EXCEPT !.rows = Tail(@)]
           rg == [run[c] EXCEPT !.rows = Tail(@), !.count = @ + 1, !.deleted = @ \cup {k}]
<1>1. /\ run[c].pc = "deleting" /\ DOMAIN run[c] = RunFields /\ run[c].stmt \in Statements
      /\ ~DeleteLimit(c) /\ Within(run[c], table)
      /\ handle' = handle /\ preparedStatements' = preparedStatements
  BY DEF DeleteRow, ExecInv, RunOK
<1>2. CASE ~gone
  <2>1. run' = [run EXCEPT ![c] = rn] /\ table' = table
    <3>1. table' = table
      BY <1>2 DEF DeleteRow
    <3>2. run' = [run EXCEPT ![c] = [run[c] EXCEPT !.rows = Tail(@), !.count = @, !.deleted = @]]
      BY <1>2 DEF DeleteRow
    <3>3. [run[c] EXCEPT !.rows = Tail(@), !.count = @, !.deleted = @] = rn
      BY <1>1 DEF RunFields
    <3> QED
      BY <3>1, <3>2, <3>3
  <2>2. /\ DOMAIN rn = RunFields /\ rn.stmt = run[c].stmt /\ rn.pc = "deleting"
        /\ rn.deleted = run[c].deleted /\ rn.count = run[c].count /\ rn.out = run[c].out
    BY <1>1 DEF RunFields
  <2> HIDE DEF rn
  <2> QED
    BY <1>1, <2>1, <2>2, WhileOpen
<1>3. CASE gone
  <2>1. /\ run' = [run EXCEPT ![c] = rg]
        /\ table' = [j \in DOMAIN table \ {k} |-> table[j]]
    BY <1>3 DEF DeleteRow
  <2>2. /\ DOMAIN rg = RunFields /\ rg.stmt = run[c].stmt /\ rg.pc = "deleting"
        /\ rg.deleted = run[c].deleted \cup {k} /\ rg.count = run[c].count + 1 /\ rg.out = run[c].out
    BY <1>1 DEF RunFields
  <2>3. k \in DOMAIN table /\ k \notin Protected
    BY <1>3
  <2> HIDE DEF rg, k, gone
  <2>4. DOMAIN table' = DOMAIN table \ {k}
    BY <2>1
  <2>5. k \notin run[c].deleted /\ \A d \in Client : k \notin run[d].deleted
    <3>1. \A d \in Client : RunOK(run[d], table)
      BY DEF ExecInv
    <3>2. \A d \in Client : run[d].deleted \cap DOMAIN table = {}
      BY <3>1 DEF RunOK, Unstarted, Within
    <3> QED
      BY <3>2, <2>3
  <2>6. /\ IsFiniteSet(rg.deleted) /\ Cardinality(rg.deleted) = Cardinality(run[c].deleted) + 1
        /\ Cardinality(run[c].deleted) \in Nat
    <3> DEFINE before == run[c].deleted
    <3>1. IsFiniteSet(before) /\ k \notin before /\ rg.deleted = before \cup {k}
      BY <1>1, <2>2, <2>5 DEF Within
    <3> HIDE DEF before
    <3>2. IsFiniteSet(before \cup {k}) /\ Cardinality(before \cup {k}) = Cardinality(before) + 1
      BY <3>1, FS_AddElement
    <3>3. Cardinality(before) \in Nat
      BY <3>1, FS_CardinalityType
    <3> QED
      BY <3>1, <3>2, <3>3 DEF before
  <2>7. rg.stmt.limit # NoLimit => rg.count <= rg.stmt.limit
    <3>1. run[c].stmt.limit \in Nat
      BY <1>1, QueryAssumption
    <3>2. run[c].count \in Nat
      BY <1>1, <2>6 DEF Within
    <3> QED
      BY <1>1, <2>2, <3>1, <3>2 DEF DeleteLimit
  <2>8. Within(rg, table')
    <3>1. rg.deleted \cap Protected = {} /\ rg.deleted \cap DOMAIN table' = {}
      BY <1>1, <2>2, <2>3, <2>4 DEF Within
    <3>2. rg.count = Cardinality(rg.deleted)
      BY <1>1, <2>2, <2>6 DEF Within
    <3> QED
      BY <1>1, <2>2, <2>6, <2>7, <3>1, <3>2 DEF Within
  <2>9. DOMAIN run' = Client /\ run'[c] = rg /\ \A d \in Client \ {c} : run'[d] = run[d]
    BY <2>1 DEF ExecInv
  <2>10. ASSUME NEW d \in Client PROVE RunOK(run'[d], table')
    <3>1. CASE d = c
      BY <1>1, <2>2, <2>8, <2>9, <3>1 DEF RunOK
    <3>2. CASE d # c
      <4>1. RunOK(run[d], table) /\ run'[d] = run[d]
        BY <2>9, <3>2 DEF ExecInv
      <4>2. Within(run[d], table) => Within(run[d], table')
        BY <2>4 DEF Within
      <4> QED
        BY <4>1, <4>2 DEF RunOK
    <3> QED
      BY <3>1, <3>2
  <2>11. ASSUME NEW d \in Client, NEW e \in Client, d # e
         PROVE  run'[d].deleted \cap run'[e].deleted = {}
    BY <2>2, <2>5, <2>9, <2>11 DEF ExecInv
  <2> QED
    BY <1>1, <2>9, <2>10, <2>11 DEF ExecInv
<1> QED
  BY <1>2, <1>3

LEMMA ExecInvariant == ExecSpec => []ExecInv
<1>1. ExecInit => ExecInv
  <2> SUFFICES ASSUME ExecInit PROVE ExecInv
    OBVIOUS
  <2>1. DOMAIN run = Client /\ DOMAIN handle = Client /\ \A c \in Client : run[c] = NoRun
    BY DEF ExecInit
  <2>2. DOMAIN preparedStatements = {}
    BY DEF ExecInit
  <2> QED
    BY <2>1, <2>2, NoRunOK DEF ExecInv
<1>2. ExecInv /\ [ExecNext]_execVars => ExecInv'
  <2> SUFFICES ASSUME ExecInv, [ExecNext]_execVars PROVE ExecInv'
    OBVIOUS
  <2>1. CASE UNCHANGED execVars
    BY <2>1 DEF execVars, ExecInv
  <2>2. ASSUME NEW c \in Client, Forget(c) PROVE ExecInv'
    BY <2>2, NoRunOK, OneRunStep DEF Forget, ExecInv
  <2> QED
    BY <2>1, <2>2, PrepareExecInv, StoreExecInv, HandleExecInv, LookupExecInv, CopyExecInv,
       CheckExecInv, ScanExecInv, EndExecInv, AdvanceExecInv, DeleteExecInv
    DEF ExecNext
<1> QED
  BY <1>1, <1>2, PTL DEF ExecSpec

(* Whatever where clauses mean and however executions of several clients    *)
(* interleave, none that has ended leaves a stream of the datasource open.  *)
THEOREM EndedReleaseStreams == ExecSpec => []StreamsReleased
<1>1. ExecInv => StreamsReleased
  BY DEF ExecInv, RunOK, StreamsReleased
<1> QED
  BY <1>1, ExecInvariant, PTL

(* Deletes of several clients at once never count a row twice, and neither  *)
(* they nor selects exceed their limits.                                    *)
THEOREM DeletesCountRight == ExecSpec => []CountsRight
<1>1. ExecInv => CountsRight
  <2> SUFFICES ASSUME ExecInv, NEW c \in Client
               PROVE  /\ run[c].count = Cardinality(run[c].deleted) /\ run[c].deleted \cap Protected = {}
                      /\ run[c].deleted \cap DOMAIN table = {}
                      /\ run[c].pc \in {"read", "deleting", "done"} /\ run[c].stmt.limit # NoLimit =>
                            run[c].count <= run[c].stmt.limit /\ Len(run[c].out) <= run[c].stmt.limit
    BY DEF CountsRight, ExecInv
  <2>1. RunOK(run[c], table)
    BY DEF ExecInv
  <2>2. CASE run[c].pc \in {"read", "deleting", "done"}
    BY <2>1, <2>2 DEF RunOK, Within
  <2>3. CASE run[c].pc \notin {"read", "deleting", "done"}
    BY <2>1, <2>3, FS_EmptySet DEF RunOK, Unstarted
  <2> QED
    BY <2>2, <2>3
<1> QED
  BY <1>1, ExecInvariant, PTL
-----------------------------------------------------------------------------
(* The ranges of strings that the checker computes.  A string is read as an *)
(* infinite sequence of digits, 0 after its end, so that the order of Go    *)
(* strings is the order of the first digits that differ.                    *)
Digit(s, n) == IF n <= Len(s) THEN s[n] + 1 ELSE 0
Differ(s, t, n) == Digit(s, n) < Digit(t, n) /\ \A j \in 1 .. (n - 1) : Digit(s, j) = Digit(t, j)

LEMMA StrIs ==
    ASSUME NEW s \in Str
    PROVE  /\ s \in Seq(Nat) /\ Len(s) \in Nat /\ DOMAIN s = 1 .. Len(s)
           /\ \A i \in 1 .. Len(s) : s[i] \in Nat /\ s[i] <= MaxByte
           /\ \A n \in Nat : Digit(s, n + 1) \in Nat
BY MaxByteAssumption DEF Str, Digit

LEMMA DigitsEqual ==
    ASSUME NEW s \in Str, NEW t \in Str, \A n \in Nat \ {0} : Digit(s, n) = Digit(t, n)
    PROVE  s = t
<1>1. /\ Len(s) \in Nat /\ Len(t) \in Nat
      /\ \A i \in 1 .. Len(s) : s[i] \in Nat
      /\ \A i \in 1 .. Len(t) : t[i] \in Nat
  BY StrIs
<1>2. Len(s) <= Len(t)
  <2>1. SUFFICES ASSUME Len(s) > Len(t) PROVE FALSE
    BY <1>1
  <2>2. Digit(s, Len(s)) = s[Len(s)] + 1 /\ Digit(t, Len(s)) = 0 /\ s[Len(s)] \in Nat
    BY <2>1, <1>1 DEF Digit
  <2> QED
    BY <2>1, <2>2, <1>1
<1>3. Len(t) <= Len(s)
  <2>1. SUFFICES ASSUME Len(t) > Len(s) PROVE FALSE
    BY <1>1
  <2>2. Digit(t, Len(t)) = t[Len(t)] + 1 /\ Digit(s, Len(t)) = 0 /\ t[Len(t)] \in Nat
    BY <2>1, <1>1 DEF Digit
  <2> QED
    BY <2>1, <2>2, <1>1
<1>4. \A i \in 1 .. Len(s) : s[i] = t[i]
  <2> TAKE i \in 1 .. Len(s)
  <2>1. Digit(s, i) = s[i] + 1 /\ Digit(t, i) = t[i] + 1 /\ i \in Nat \ {0}
    BY <1>1, <1>2, <1>3 DEF Digit
  <2>2. s[i] \in Nat /\ t[i] \in Nat
    BY <1>1, <1>2, <1>3
  <2> QED
    BY <2>1, <2>2
<1>5. s \in Seq(0 .. MaxByte) /\ t \in Seq(0 .. MaxByte) /\ Len(s) = Len(t)
  BY <1>1, <1>2, <1>3 DEF Str
<1> QED
  BY <1>4, <1>5

LEMMA PrefixIsPointwise ==
    ASSUME NEW s \in Str, NEW t \in Str
    PROVE  IsPrefix(s, t) <=> Len(s) <= Len(t) /\ \A i \in 1 .. Len(s) : s[i] = t[i]
<1>1. Len(s) \in Nat /\ Len(t) \in Nat
  BY StrIs
<1>2. ASSUME Len(s) <= Len(t)
      PROVE  SubSeq(s, 1, Len(s)) = SubSeq(t, 1, Len(s)) <=> \A i \in 1 .. Len(s) : s[i] = t[i]
  BY <1>1, <1>2 DEF Str
<1> QED
  BY <1>2 DEF IsPrefix

LEMMA BelowIsFirstDigit ==
    ASSUME NEW s \in Str, NEW t \in Str
    PROVE  Below(s, t) <=> \E n \in Nat \ {0} : Differ(s, t, n)
<1>1. /\ Len(s) \in Nat /\ Len(t) \in Nat /\ DOMAIN s = 1 .. Len(s) /\ DOMAIN t = 1 .. Len(t)
      /\ \A i \in 1 .. Len(s) : s[i] \in Nat
      /\ \A i \in 1 .. Len(t) : t[i] \in Nat
  BY StrIs
<1>2. ASSUME NEW i \in DOMAIN s \cap DOMAIN t
      PROVE  SubSeq(s, 1, i - 1) = SubSeq(t, 1, i - 1) <=> \A j \in 1 .. (i - 1) : s[j] = t[j]
  BY <1>1 DEF Str
<1>3. ASSUME IsStrictPrefix(s, t)
      PROVE  \E n \in Nat \ {0} : Differ(s, t, n)
  <2>1. Len(s) <= Len(t) /\ s # t /\ \A i \in 1 .. Len(s) : s[i] = t[i]
    BY <1>3, PrefixIsPointwise DEF IsStrictPrefix
  <2>2. Len(s) # Len(t)
    <3>1. s \in Seq(0 .. MaxByte) /\ t \in Seq(0 .. MaxByte)
      BY DEF Str
    <3>2. Len(s) = Len(t) => s = t
      BY <3>1, <2>1
    <3> QED
      BY <3>2, <2>1
  <2> DEFINE n == Len(s) + 1
  <2>3. n \in Nat \ {0} /\ n <= Len(t) /\ n > Len(s) /\ t[n] \in Nat
    <3>1. n \in Nat \ {0} /\ n <= Len(t) /\ n > Len(s)
      <4>1. Len(s) \in Nat /\ Len(t) \in Nat /\ Len(s) <= Len(t) /\ Len(s) # Len(t)
        BY <2>1, <2>2, <1>1
      <4> QED
        BY <4>1
    <3>2. n \in 1 .. Len(t)
      BY <3>1, <1>1
    <3> QED
      BY <3>1, <3>2, <1>1
  <2>4. Digit(s, n) = 0 /\ Digit(t, n) = t[n] + 1
    BY <2>3, <1>1 DEF Digit
  <2>5. \A j \in 1 .. (n - 1) : Digit(s, j) = Digit(t, j)
    BY <2>1, <2>3, <1>1 DEF Digit
  <2>6. Differ(s, t, n)
    <3> HIDE DEF n
    <3> QED
      BY <2>3, <2>4, <2>5 DEF Differ
  <2> QED
    BY <2>3, <2>6
<1>4. ASSUME NEW i \in DOMAIN s \cap DOMAIN t, s[i] < t[i], SubSeq(s, 1, i - 1) = SubSeq(t, 1, i - 1)
      PROVE  \E n \in Nat \ {0} : Differ(s, t, n)
  <2>1. i \in Nat \ {0} /\ i <= Len(s) /\ i <= Len(t) /\ s[i] \in Nat /\ t[i] \in Nat
    BY <1>1
  <2>2. \A j \in 1 .. (i - 1) : s[j] = t[j]
    BY <1>2, <1>4
  <2>3. Digit(s, i) < Digit(t, i)
    BY <2>1, <1>1, <1>4 DEF Digit
  <2>4. \A j \in 1 .. (i - 1) : Digit(s, j) = Digit(t, j)
    BY <2>1, <2>2, <1>1 DEF Digit
  <2> QED
    BY <2>1, <2>3, <2>4 DEF Differ
<1>5. ASSUME NEW n \in Nat \ {0}, Differ(s, t, n)
      PROVE  Below(s, t)
  <2>1. Digit(s, n) < Digit(t, n) /\ \A j \in 1 .. (n - 1) : Digit(s, j) = Digit(t, j)
    BY <1>5 DEF Differ
  <2>2. n <= Len(t)
    <3>1. SUFFICES ASSUME n > Len(t) PROVE FALSE
      BY <1>1
    <3>2. Digit(t, n) = 0 /\ Digit(s, n) \in Nat
      BY <3>1, <1>1 DEF Digit
    <3> QED
      BY <3>2, <2>1
  <2>3. \A j \in 1 .. (n - 1) : j <= Len(s) /\ s[j] = t[j]
    <3> TAKE j \in 1 .. (n - 1)
    <3>1. j <= Len(t) /\ t[j] \in Nat /\ Digit(t, j) = t[j] + 1
      BY <2>2, <1>1 DEF Digit
    <3>2. j <= Len(s)
      <4>1. SUFFICES ASSUME j > Len(s) PROVE FALSE
        BY <1>1
      <4>2. Digit(s, j) = 0
        BY <4>1, <1>1 DEF Digit
      <4> QED
        BY <4>2, <3>1, <2>1
    <3>3. Digit(s, j) = s[j] + 1 /\ s[j] \in Nat
      BY <3>2, <1>1 DEF Digit
    <3>4. s[j] + 1 = t[j] + 1
      BY <3>1, <3>3, <2>1
    <3> QED
      BY <3>1, <3>2, <3>3, <3>4
  <2>4. CASE n <= Len(s)
    <3>1. n \in DOMAIN s \cap DOMAIN t
      BY <2>4, <2>2, <1>1
    <3>2. Digit(s, n) = s[n] + 1 /\ Digit(t, n) = t[n] + 1 /\ s[n] \in Nat /\ t[n] \in Nat
      BY <2>4, <2>2, <1>1 DEF Digit
    <3>3. s[n] < t[n]
      BY <3>2, <2>1
    <3>4. SubSeq(s, 1, n - 1) = SubSeq(t, 1, n - 1)
      BY <3>1, <1>2, <2>3
    <3> QED
      BY <3>1, <3>3, <3>4 DEF Below
  <2>5. CASE n > Len(s)
    <3>1. n - 1 <= Len(s)
      <4>1. CASE n = 1
        BY <4>1, <1>1
      <4>2. CASE n # 1
        <5>1. n - 1 \in 1 .. (n - 1)
          BY <4>2
        <5> QED
          BY <5>1, <2>3
      <4> QED
        BY <4>1, <4>2
    <3>2. Len(s) = n - 1
      BY <3>1, <2>5, <1>1
    <3>3. IsPrefix(s, t)
      BY <3>2, <2>2, <2>3, <1>1, PrefixIsPointwise
    <3>4. s # t
      BY <3>2, <2>2, <1>1
    <3> QED
      BY <3>3, <3>4 DEF Below, IsStrictPrefix
  <2> QED
    BY <2>4, <2>5, <1>1
<1>6. Below(s, t) => \E n \in Nat \ {0} : Differ(s, t, n)
  BY <1>3, <1>4 DEF Below
<1> QED
  BY <1>5, <1>6

LEMMA LeastNat ==
    ASSUME NEW T, T \subseteq Nat, T # {}
    PROVE  \E x \in T : \A y \in T : x <= y
<1> DEFINE R == {ss \in Nat \X Nat : ss[1] < ss[2]}
<1>1. IsWellFoundedOn(R, Nat)
  BY NatLessThanWellFounded DEF OpToRel
<1>2. PICK x \in T : \A y \in T : ~(<<y, x>> \in R)
  <2> HIDE DEF R
  <2> QED
    BY <1>1, WFMin
<1>3. \A y \in T : ~(y < x)
  <2> TAKE y \in T
  <2>1. <<y, x>> \in Nat \X Nat
    OBVIOUS
  <2> QED
    BY <2>1, <1>2
<1> QED
  BY <1>3

LEMMA DigitNat ==
    ASSUME NEW s \in Str, NEW n \in Nat \ {0}
    PROVE  Digit(s, n) \in Nat
<1>1. n - 1 \in Nat /\ (n - 1) + 1 = n
  OBVIOUS
<1> QED
  BY <1>1, StrIs

(* Strings are linearly ordered. *)
LEMMA BelowIrreflexive ==
    ASSUME NEW s \in Str
    PROVE  ~Below(s, s)
<1>1. \A n \in Nat \ {0} : Digit(s, n) \in Nat
  BY DigitNat
<1> QED
  BY <1>1, BelowIsFirstDigit DEF Differ

LEMMA BelowTransitive ==
    ASSUME NEW s \in Str, NEW t \in Str, NEW u \in Str, Below(s, t), Below(t, u)
    PROVE  Below(s, u)
<1>1. PICK m \in Nat \ {0} : Differ(s, t, m)
  BY BelowIsFirstDigit
<1>2. PICK n \in Nat \ {0} : Differ(t, u, n)
  BY BelowIsFirstDigit
<1>3. \A k \in Nat \ {0} : Digit(s, k) \in Nat /\ Digit(t, k) \in Nat /\ Digit(u, k) \in Nat
  BY DigitNat
<1>4. CASE m <= n
  <2>1. Digit(t, m) <= Digit(u, m)
    BY <1>2, <1>3, <1>4 DEF Differ
  <2>2. Differ(s, u, m)
    BY <1>1, <1>2, <1>3, <1>4, <2>1 DEF Differ
  <2> QED
    BY <2>2, BelowIsFirstDigit
<1>5. CASE n < m
  <2>1. Digit(s, n) = Digit(t, n)
    BY <1>1, <1>5 DEF Differ
  <2>2. Differ(s, u, n)
    BY <1>1, <1>2, <1>3, <1>5, <2>1 DEF Differ
  <2> QED
    BY <2>2, BelowIsFirstDigit
<1> QED
  BY <1>4, <1>5

LEMMA BelowTotal ==
    ASSUME NEW s \in Str, NEW t \in Str
    PROVE  s = t \/ Below(s, t) \/ Below(t, s)
<1> DEFINE T == {n \in Nat \ {0} : Digit(s, n) # Digit(t, n)}
<1>1. CASE T = {}
  BY <1>1, DigitsEqual
<1>2. CASE T # {}
  <2>1. PICK n \in T : \A j \in T : n <= j
    <3> HIDE DEF T
    <3>1. T \subseteq Nat
      BY DEF T
    <3> QED
      BY <3>1, <1>2, LeastNat
  <2>2. \A j \in 1 .. (n - 1) : Digit(s, j) = Digit(t, j)
    BY <2>1
  <2>3. Digit(s, n) \in Nat /\ Digit(t, n) \in Nat /\ Digit(s, n) # Digit(t, n) /\ n \in Nat \ {0}
    BY <2>1, DigitNat
  <2>4. CASE Digit(s, n) < Digit(t, n)
    BY <2>2, <2>3, <2>4, BelowIsFirstDigit DEF Differ
  <2>5. CASE Digit(t, n) < Digit(s, n)
    BY <2>2, <2>3, <2>5, BelowIsFirstDigit DEF Differ
  <2> QED
    BY <2>3, <2>4, <2>5
<1> QED
  BY <1>1, <1>2

RangeOf == [Start : Str, Limit : Str]

(* A range without a limit reaches to the end; others end below their limit. *)
BelowLimit(s, limit) == limit = MaxRangeLimit \/ Below(s, limit)

(* The order of strings in the form the comparisons of ranges use it. *)
LEMMA StringOrder ==
    ASSUME NEW s \in Str, NEW t \in Str, NEW u \in Str
    PROVE  /\ ~Below(s, s)
           /\ Below(s, t) /\ Below(t, u) => Below(s, u)
           /\ s = t \/ Below(s, t) \/ Below(t, s)
BY BelowIrreflexive, BelowTransitive, BelowTotal

LEMMA LowerLimitIs ==
    ASSUME NEW s \in Str, NEW a \in Str, NEW b \in Str
    PROVE  /\ LowerLimit(a, b) \in Str
           /\ BelowLimit(s, LowerLimit(a, b)) <=> BelowLimit(s, a) /\ BelowLimit(s, b)
<1>1. /\ Below(s, a) /\ Below(a, b) => Below(s, b)
      /\ Below(s, b) /\ Below(b, a) => Below(s, a)
      /\ a = b \/ Below(a, b) \/ Below(b, a)
  BY StringOrder
<1> QED
  BY <1>1 DEF LowerLimit, LimitBelow, BelowLimit

LEMMA HigherLimitIs ==
    ASSUME NEW s \in Str, NEW a \in Str, NEW b \in Str
    PROVE  /\ HigherLimit(a, b) \in Str
           /\ BelowLimit(s, HigherLimit(a, b)) <=> BelowLimit(s, a) \/ BelowLimit(s, b)
<1>1. /\ Below(s, a) /\ Below(a, b) => Below(s, b)
      /\ Below(s, b) /\ Below(b, a) => Below(s, a)
      /\ a = b \/ Below(a, b) \/ Below(b, a)
  BY StringOrder
<1> QED
  BY <1>1 DEF HigherLimit, LimitBelow, BelowLimit

LEMMA StartsAre ==
    ASSUME NEW s \in Str, NEW a \in Str, NEW b \in Str
    PROVE  /\ LaterStart(a, b) \in Str /\ EarlierStart(a, b) \in Str
           /\ AtMost(LaterStart(a, b), s) <=> AtMost(a, s) /\ AtMost(b, s)
           /\ AtMost(EarlierStart(a, b), s) <=> AtMost(a, s) \/ AtMost(b, s)
<1>1. /\ Below(a, b) /\ Below(b, s) => Below(a, s)
      /\ Below(b, a) /\ Below(a, s) => Below(b, s)
      /\ a = b \/ Below(a, b) \/ Below(b, a)
      /\ Below(a, b) => ~Below(b, a)
  BY StringOrder
<1> QED
  BY <1>1 DEF LaterStart, EarlierStart, AtMost

(* computeRangeIntersection: a string is in both ranges exactly when the    *)
(* test finds that they meet and the string is in the range it returns.     *)
THEOREM IntersectionExact ==
    ASSUME NEW l \in RangeOf, NEW r \in RangeOf, NEW s \in Str
    PROVE  InRange(s, l) /\ InRange(s, r)
             <=> Intersects(l, r) /\ InRange(s, computeRangeIntersection(l, r))
<1>1. l.Start \in Str /\ l.Limit \in Str /\ r.Start \in Str /\ r.Limit \in Str
  BY DEF RangeOf
<1>2. InRange(s, computeRangeIntersection(l, r)) <=> InRange(s, l) /\ InRange(s, r)
  <2>1. /\ computeRangeIntersection(l, r).Start = LaterStart(l.Start, r.Start)
        /\ computeRangeIntersection(l, r).Limit = LowerLimit(l.Limit, r.Limit)
    BY DEF computeRangeIntersection, StringFieldRange
  <2> QED
    BY <2>1, <1>1, StartsAre, LowerLimitIs DEF InRange, BelowLimit
<1>3. ASSUME InRange(s, l), InRange(s, r)
      PROVE  Intersects(l, r)
  <2>1. l.Start = r.Start \/ Below(l.Start, r.Start) \/ Below(r.Start, l.Start)
    BY <1>1, StringOrder
  <2>2. \A x \in {l.Start, r.Start}, y \in {l.Limit, r.Limit} : Below(x, s) /\ Below(s, y) => Below(x, y)
    BY <1>1, StringOrder
  <2> QED
    BY <1>3, <2>1, <2>2 DEF InRange, AtMost, Intersects, StartBelowLimit
<1> QED
  BY <1>2, <1>3

(* addStringFieldRange: when its test says that two ranges touch, the range *)
(* that replaces them holds the strings of both and no other.               *)
THEOREM MergeExact ==
    ASSUME NEW f \in RangeOf, NEW r \in RangeOf, NEW s \in Str, Touches(f, r)
    PROVE  InRange(s, MergeRanges(f, r)) <=> InRange(s, f) \/ InRange(s, r)
<1>1. f.Start \in Str /\ f.Limit \in Str /\ r.Start \in Str /\ r.Limit \in Str
  BY DEF RangeOf
<1>2. InRange(s, MergeRanges(f, r))
        <=> /\ AtMost(f.Start, s) \/ AtMost(r.Start, s)
            /\ BelowLimit(s, f.Limit) \/ BelowLimit(s, r.Limit)
  <2>1. /\ MergeRanges(f, r).Start = EarlierStart(f.Start, r.Start)
        /\ MergeRanges(f, r).Limit = HigherLimit(f.Limit, r.Limit)
    BY DEF MergeRanges, StringFieldRange
  <2> QED
    BY <2>1, <1>1, StartsAre, HigherLimitIs DEF InRange, BelowLimit
<1>3. \A x \in {f, r} : InRange(s, x) <=> AtMost(x.Start, s) /\ BelowLimit(s, x.Limit)
  BY DEF InRange, BelowLimit
<1>4. SUFFICES ASSUME AtMost(f.Start, s) \/ AtMost(r.Start, s),
                      BelowLimit(s, f.Limit) \/ BelowLimit(s, r.Limit)
               PROVE  InRange(s, f) \/ InRange(s, r)
  BY <1>2, <1>3
<1>5. CASE AtMost(r.Start, f.Start) /\ StartAtMostLimit(f.Start, r.Limit)
  <2>1. AtMost(r.Start, s)
    BY <1>1, <1>4, <1>5, StringOrder DEF AtMost
  <2>2. CASE BelowLimit(s, r.Limit)
    BY <2>1, <2>2, <1>3
  <2>3. CASE ~BelowLimit(s, r.Limit)
    <3>1. r.Limit # MaxRangeLimit /\ AtMost(r.Limit, s) /\ AtMost(f.Start, r.Limit)
      BY <2>3, <1>1, <1>5, StringOrder DEF BelowLimit, AtMost, StartAtMostLimit
    <3>2. AtMost(f.Start, s)
      BY <3>1, <1>1, StringOrder DEF AtMost
    <3> QED
      BY <3>2, <2>3, <1>3, <1>4
  <2> QED
    BY <2>2, <2>3
<1>6. CASE LimitAtLeastStart(f.Limit, r.Start) /\ ~LimitBelow(r.Limit, f.Limit)
  <2>1. BelowLimit(s, r.Limit)
    <3>1. r.Limit = MaxRangeLimit \/ AtMost(f.Limit, r.Limit)
      BY <1>1, <1>6, StringOrder DEF LimitBelow, AtMost
    <3>2. f.Limit # MaxRangeLimit
      BY <1>6 DEF LimitAtLeastStart
    <3> QED
      BY <3>1, <3>2, <1>1, <1>4, StringOrder DEF BelowLimit, AtMost
  <2>2. CASE AtMost(r.Start, s)
    BY <2>1, <2>2, <1>3
  <2>3. CASE ~AtMost(r.Start, s)
    <3>1. Below(s, r.Start) /\ AtMost(r.Start, f.Limit)
      BY <2>3, <1>1, <1>6, StringOrder DEF AtMost, LimitAtLeastStart
    <3>2. BelowLimit(s, f.Limit)
      BY <3>1, <1>1, StringOrder DEF BelowLimit, AtMost
    <3> QED
      BY <3>2, <2>3, <1>3, <1>4
  <2> QED
    BY <2>2, <2>3
<1>7. CASE AtMost(f.Start, r.Start) /\ ~LimitBelow(f.Limit, r.Limit)
  <2>1. AtMost(f.Start, s)
    BY <1>1, <1>4, <1>7, StringOrder DEF AtMost
  <2>2. f.Limit = MaxRangeLimit \/ (r.Limit # MaxRangeLimit /\ AtMost(r.Limit, f.Limit))
    BY <1>1, <1>7, StringOrder DEF LimitBelow, AtMost
  <2>3. BelowLimit(s, f.Limit)
    BY <2>2, <1>1, <1>4, StringOrder DEF BelowLimit, AtMost
  <2> QED
    BY <2>1, <2>3, <1>3
<1> QED
  BY <1>5, <1>6, <1>7 DEF Touches

(* A string with a zero byte appended. *)
LEMMA SuccessorIs ==
    ASSUME NEW t \in Str
    PROVE  /\ Successor(t) \in Str /\ Successor(t) # MaxRangeLimit
           /\ \A n \in Nat \ {0} : Digit(Successor(t), n) = IF n = Len(t) + 1 THEN 1 ELSE Digit(t, n)
<1>1. Len(t) \in Nat /\ t \in Seq(0 .. MaxByte) /\ 0 \in 0 .. MaxByte
  BY StrIs, MaxByteAssumption DEF Str
<1>2. /\ Successor(t) \in Seq(0 .. MaxByte) /\ Len(Successor(t)) = Len(t) + 1
      /\ Successor(t)[Len(t) + 1] = 0
      /\ \A i \in 1 .. Len(t) : Successor(t)[i] = t[i]
  BY <1>1 DEF Successor
<1>3. Successor(t) # <<>>
  BY <1>1, <1>2
<1>4. ASSUME NEW n \in Nat \ {0}
      PROVE  Digit(Successor(t), n) = IF n = Len(t) + 1 THEN 1 ELSE Digit(t, n)
  <2>1. CASE n = Len(t) + 1
    BY <1>1, <1>2, <2>1 DEF Digit
  <2>2. CASE n <= Len(t)
    BY <1>1, <1>2, <2>2 DEF Digit
  <2>3. CASE n > Len(t) + 1
    BY <1>1, <1>2, <2>3 DEF Digit
  <2> QED
    BY <1>1, <2>1, <2>2, <2>3
<1> QED
  BY <1>2, <1>3, <1>4 DEF Str, MaxRangeLimit

(* computeStringFieldRangeForSingleValue: exactly that string. *)
THEOREM SingleValueExact ==
    ASSUME NEW t \in Str, NEW s \in Str
    PROVE  InRange(s, computeStringFieldRangeForSingleValue(t)) <=> s = t
<1> DEFINE u == Successor(t)
<1>1. u \in Str /\ u # MaxRangeLimit /\ Len(t) \in Nat
  BY SuccessorIs, StrIs
<1>2. \A n \in Nat \ {0} : Digit(u, n) = IF n = Len(t) + 1 THEN 1 ELSE Digit(t, n)
  BY SuccessorIs
<1>3. InRange(s, computeStringFieldRangeForSingleValue(t)) <=> AtMost(t, s) /\ Below(s, u)
  BY <1>1 DEF InRange, computeStringFieldRangeForSingleValue, StringFieldRange
<1> HIDE DEF u
<1>4. \A n \in Nat \ {0} : Digit(s, n) \in Nat /\ Digit(t, n) \in Nat /\ Digit(u, n) \in Nat
  BY <1>1, DigitNat
<1>5. Digit(t, Len(t) + 1) = 0 /\ \A n \in Nat \ {0} : n > Len(t) => Digit(t, n) = 0
  BY <1>1 DEF Digit
<1>6. Below(t, u)
  <2>1. Len(t) + 1 \in Nat \ {0}
    BY <1>1
  <2>2. Differ(t, u, Len(t) + 1)
    BY <1>1, <1>2, <1>5, <2>1 DEF Differ
  <2> QED
    BY <1>1, <2>1, <2>2, BelowIsFirstDigit
<1>7. ASSUME Below(t, s), Below(s, u)
      PROVE  FALSE
  <2>1. PICK m \in Nat \ {0} : Differ(t, s, m)
    BY <1>7, BelowIsFirstDigit
  <2>2. PICK n \in Nat \ {0} : Differ(s, u, n)
    BY <1>1, <1>7, BelowIsFirstDigit
  <2>3. CASE m < n
    <3>1. Digit(s, m) = Digit(u, m) /\ Digit(t, m) < Digit(s, m)
      BY <2>1, <2>2, <2>3 DEF Differ
    <3>2. m = Len(t) + 1
      BY <3>1, <1>2, <1>4
    <3>3. Digit(s, n) < Digit(u, n) /\ n > Len(t) + 1
      BY <2>2, <2>3, <3>2 DEF Differ
    <3>4. Digit(u, n) = 0 /\ Digit(s, n) \in Nat
      <4>1. n # Len(t) + 1 /\ n > Len(t)
        BY <3>3, <1>1
      <4>2. Digit(u, n) = Digit(t, n)
        BY <4>1, <1>2
      <4> QED
        BY <4>1, <4>2, <1>4, <1>5
    <3> QED
      BY <3>3, <3>4
  <2>4. CASE n <= m
    <3>1. Digit(s, n) < Digit(u, n) /\ Digit(t, n) <= Digit(s, n)
      BY <2>1, <2>2, <2>4, <1>4 DEF Differ
    <3>2. n = Len(t) + 1
      BY <3>1, <1>2, <1>4
    <3>3. Digit(s, n) = 0
      BY <3>1, <3>2, <1>2, <1>4
    <3>4. m # n /\ m > Len(t) /\ m > n
      BY <2>1, <2>4, <3>2, <3>3, <1>1, <1>4, <1>5 DEF Differ
    <3>5. Digit(t, m) < Digit(s, m)
      BY <2>1 DEF Differ
    <3>6. n > Len(s) /\ Digit(s, m) = 0
      <4>1. Len(s) \in Nat /\ \A i \in 1 .. Len(s) : s[i] \in Nat
        BY StrIs
      <4>2. n > Len(s)
        BY <3>3, <4>1 DEF Digit
      <4> QED
        BY <4>1, <4>2, <3>4 DEF Digit
    <3> QED
      BY <3>5, <3>6, <1>4
  <2> QED
    BY <2>3, <2>4
<1> QED
  BY <1>3, <1>6, <1>7 DEF AtMost

(* afterPrefix: the last byte that can grow, if there is one, does. *)
LEMMA AfterPrefixIs ==
    ASSUME NEW p \in Str
    PROVE  \E n \in 0 .. Len(p) :
             /\ \A i \in n + 1 .. Len(p) : p[i] = MaxByte
             /\ n > 0 => p[n] < MaxByte
             /\ afterPrefix(p) = [i \in 1 .. n |-> IF i = n THEN p[i] + 1 ELSE p[i]]
<1> DEFINE EndsAt(m) == /\ \A i \in m + 1 .. Len(p) : p[i] = MaxByte
                      /\ m > 0 => p[m] # MaxByte
           T == {m \in Nat : m <= Len(p) /\ \A i \in m + 1 .. Len(p) : p[i] = MaxByte}
<1>1. Len(p) \in Nat /\ \A i \in 1 .. Len(p) : p[i] \in Nat /\ p[i] <= MaxByte
  BY StrIs
<1>2. Len(p) \in T /\ T \subseteq Nat
  BY <1>1
<1>3. PICK m \in T : \A k \in T : m <= k
  <2> HIDE DEF T
  <2> QED
    BY <1>2, LeastNat
<1>4. m \in 0 .. Len(p) /\ EndsAt(m)
  <2>1. ASSUME m > 0, p[m] = MaxByte PROVE FALSE
    <3>1. m - 1 \in Nat /\ m - 1 <= Len(p) /\ (m - 1) + 1 = m
      BY <1>1, <1>3, <2>1
    <3>2. \A i \in m .. Len(p) : p[i] = MaxByte
      BY <1>1, <1>3, <2>1
    <3>3. m - 1 \in T
      BY <3>1, <3>2
    <3> HIDE DEF T
    <3>4. m <= m - 1
      BY <3>3, <1>3
    <3> QED
      BY <3>1, <3>4
  <2> QED
    BY <1>1, <1>3, <2>1
<1> DEFINE n == CHOOSE k \in 0 .. Len(p) :
                    /\ \A i \in k + 1 .. Len(p) : p[i] = MaxByte
                    /\ k > 0 => p[k] # MaxByte
<1>5. afterPrefix(p) = [i \in 1 .. n |-> IF i = n THEN p[i] + 1 ELSE p[i]]
  BY Zenon DEF afterPrefix
<1>6. /\ n \in 0 .. Len(p) /\ \A i \in n + 1 .. Len(p) : p[i] = MaxByte
      /\ n > 0 => p[n] # MaxByte
  <2>1. \E k \in 0 .. Len(p) : /\ \A i \in k + 1 .. Len(p) : p[i] = MaxByte
                               /\ k > 0 => p[k] # MaxByte
    BY <1>4
  <2> QED
    BY <2>1, Zenon
<1> HIDE DEF n
<1>7. n > 0 => p[n] < MaxByte
  <2>1. n > 0 => n \in 1 .. Len(p)
    BY <1>1, <1>6
  <2>2. n > 0 => p[n] \in Nat /\ p[n] <= MaxByte
    BY <2>1, <1>1
  <2> QED
    BY <2>2, <1>6, MaxByteAssumption
<1> QED
  BY <1>5, <1>6, <1>7

(* The digits of afterPrefix(p), whose length is n. *)
Grown(q, p, n) ==
    /\ n \in 0 .. Len(p) /\ (\A i \in n + 1 .. Len(p) : p[i] = MaxByte)
    /\ q \in Str /\ (q = MaxRangeLimit <=> n = 0)
    /\ n > 0 => /\ Digit(q, n) = Digit(p, n) + 1
                /\ \A j \in 1 .. (n - 1) : Digit(q, j) = Digit(p, j)
                /\ \A j \in Nat : j > n => Digit(q, j) = 0

LEMMA AfterPrefixGrows ==
    ASSUME NEW p \in Str
    PROVE  \E n \in 0 .. Len(p) : Grown(afterPrefix(p), p, n)
<1> DEFINE q == afterPrefix(p)
<1>1. Len(p) \in Nat /\ \A i \in 1 .. Len(p) : p[i] \in Nat /\ p[i] <= MaxByte
  BY StrIs
<1>2. PICK n \in 0 .. Len(p) : /\ \A i \in n + 1 .. Len(p) : p[i] = MaxByte
                               /\ n > 0 => p[n] < MaxByte
                               /\ q = [i \in 1 .. n |-> IF i = n THEN p[i] + 1 ELSE p[i]]
  BY AfterPrefixIs
<1> HIDE DEF q
<1>3. \A i \in 1 .. n : (IF i = n THEN p[i] + 1 ELSE p[i]) \in 0 .. MaxByte
  BY <1>1, <1>2, MaxByteAssumption
<1>4. q \in Seq(0 .. MaxByte) /\ Len(q) = n /\ n \in Nat /\ n <= Len(p)
  BY <1>1, <1>2, <1>3
<1>5. q = <<>> <=> n = 0
  BY <1>4
<1>6. ASSUME n > 0
      PROVE  /\ Digit(q, n) = Digit(p, n) + 1
             /\ \A j \in 1 .. (n - 1) : Digit(q, j) = Digit(p, j)
             /\ \A j \in Nat : j > n => Digit(q, j) = 0
  <2>1. q[n] = p[n] + 1 /\ \A j \in 1 .. (n - 1) : q[j] = p[j]
    BY <1>2, <1>4, <1>6
  <2>2. Digit(q, n) = q[n] + 1 /\ Digit(p, n) = p[n] + 1
    BY <1>4, <1>6 DEF Digit
  <2>3. \A j \in 1 .. (n - 1) : Digit(q, j) = q[j] + 1 /\ Digit(p, j) = p[j] + 1
    BY <1>1, <1>4, <1>6 DEF Digit
  <2>4. \A j \in Nat : j > n => Digit(q, j) = 0
    BY <1>4 DEF Digit
  <2> QED
    BY <2>1, <2>2, <2>3, <2>4
<1> QED
  BY <1>2, <1>4, <1>5, <1>6 DEF Grown, Str, MaxRangeLimit, q

(* A string has a prefix when it has its digits. *)
LEMMA PrefixDigits ==
    ASSUME NEW p \in Str, NEW s \in Str
    PROVE  IsPrefix(p, s) <=> \A j \in 1 .. Len(p) : Digit(p, j) = Digit(s, j)
<1>1. /\ Len(p) \in Nat /\ Len(s) \in Nat
      /\ \A i \in 1 .. Len(p) : p[i] \in Nat
      /\ \A i \in 1 .. Len(s) : s[i] \in Nat
  BY StrIs
<1>2. ASSUME IsPrefix(p, s) PROVE \A j \in 1 .. Len(p) : Digit(p, j) = Digit(s, j)
  BY <1>1, <1>2, PrefixIsPointwise DEF Digit
<1>3. ASSUME \A j \in 1 .. Len(p) : Digit(p, j) = Digit(s, j)
      PROVE  IsPrefix(p, s)
  <2>1. ASSUME NEW j \in 1 .. Len(p) PROVE j <= Len(s) /\ p[j] = s[j]
    <3>1. Digit(p, j) = p[j] + 1 /\ p[j] \in Nat
      BY <1>1 DEF Digit
    <3>2. j <= Len(s)
      <4>1. SUFFICES ASSUME j > Len(s) PROVE FALSE
        BY <1>1
      <4>2. Digit(s, j) = 0
        BY <4>1, <1>1 DEF Digit
      <4> QED
        BY <4>2, <3>1, <1>3
    <3>3. Digit(s, j) = s[j] + 1 /\ s[j] \in Nat
      BY <3>2, <1>1 DEF Digit
    <3>4. p[j] + 1 = s[j] + 1
      BY <3>1, <3>3, <1>3
    <3> QED
      BY <3>1, <3>2, <3>3, <3>4
  <2>2. Len(p) <= Len(s)
    <3>1. CASE Len(p) = 0
      BY <3>1, <1>1
    <3>2. CASE Len(p) # 0
      <4>1. Len(p) \in 1 .. Len(p)
        BY <3>2, <1>1
      <4> QED
        BY <4>1, <2>1
    <3> QED
      BY <3>1, <3>2
  <2> QED
    BY <2>1, <2>2, PrefixIsPointwise
<1> QED
  BY <1>2, <1>3

(* computeStringFieldRangeForLike: the strings with the fixed prefix of the *)
(* pattern and no others, also when the prefix ends in 255 bytes or is      *)
(* nothing but them.                                                        *)
THEOREM LikeRangeExact ==
    ASSUME NEW p \in Str, NEW s \in Str
    PROVE  InRange(s, computeStringFieldRangeForLike(p)) <=> IsPrefix(p, s)
<1>0. Len(p) \in Nat /\ \A k \in Nat \ {0} : Digit(p, k) \in Nat /\ Digit(s, k) \in Nat
  BY StrIs, DigitNat
<1>1. IsPrefix(p, s) => AtMost(p, s)
  BY DEF AtMost, Below, IsStrictPrefix
<1>2. CASE p = <<>>
  <2>1. IsPrefix(p, s)
    <3>1. Len(p) = 0
      BY <1>2
    <3> QED
      BY <3>1, PrefixDigits
  <2> QED
    BY <1>1, <1>2, <2>1 DEF InRange, computeStringFieldRangeForLike, StringFieldRangeAll, StringFieldRange
<1>3. CASE p # <<>>
  <2> DEFINE q == afterPrefix(p)
  <2>1. InRange(s, computeStringFieldRangeForLike(p)) <=> AtMost(p, s) /\ BelowLimit(s, q)
    BY <1>3 DEF InRange, computeStringFieldRangeForLike, StringFieldRange, BelowLimit
  <2>2. PICK n \in 0 .. Len(p) : Grown(q, p, n)
    BY AfterPrefixGrows
  <2> HIDE DEF q
  <2>3. n \in Nat /\ n <= Len(p) /\ q \in Str
    BY <1>0, <2>2 DEF Grown
  <2>4. ASSUME IsPrefix(p, s) PROVE BelowLimit(s, q)
    <3>1. CASE n = 0
      BY <3>1, <2>2 DEF Grown, BelowLimit
    <3>2. CASE n > 0
      <4>1. \A j \in 1 .. Len(p) : Digit(p, j) = Digit(s, j)
        BY <2>4, PrefixDigits
      <4>2. n \in Nat \ {0} /\ Digit(s, n) \in Nat /\ Digit(q, n) = Digit(s, n) + 1
        BY <4>1, <3>2, <2>2, <2>3, <1>0 DEF Grown
      <4>3. \A j \in 1 .. (n - 1) : Digit(s, j) = Digit(q, j)
        BY <4>1, <3>2, <2>2, <2>3, <1>0 DEF Grown
      <4>4. Differ(s, q, n)
        BY <4>2, <4>3 DEF Differ
      <4> QED
        BY <4>2, <4>4, <2>3, BelowIsFirstDigit DEF BelowLimit
    <3> QED
      BY <3>1, <3>2, <2>3
  <2>5. ASSUME AtMost(p, s), BelowLimit(s, q) PROVE IsPrefix(p, s)
    <3>1. CASE p = s
      BY <3>1, PrefixDigits
    <3>2. CASE Below(p, s)
      <4>1. PICK m \in Nat \ {0} : Differ(p, s, m)
        BY <3>2, BelowIsFirstDigit
      <4>2. CASE m > Len(p)
        BY <4>1, <4>2, <1>0, PrefixDigits DEF Differ
      <4>3. CASE m <= Len(p)
        <5>1. m <= n
          <6>1. SUFFICES ASSUME m > n PROVE FALSE
            BY <2>3
          <6>2. m \in n + 1 .. Len(p)
            BY <6>1, <4>3, <1>0, <2>3
          <6>3. p[m] = MaxByte
            BY <6>2, <2>2 DEF Grown
          <6>4. Digit(p, m) = MaxByte + 1
            BY <6>3, <4>3 DEF Digit
          <6>5. Digit(s, m) <= MaxByte + 1
            <7>1. Len(s) \in Nat /\ \A i \in 1 .. Len(s) : s[i] \in Nat /\ s[i] <= MaxByte
              BY StrIs
            <7> QED
              BY <7>1, MaxByteAssumption DEF Digit
          <6>6. Digit(p, m) < Digit(s, m)
            BY <4>1 DEF Differ
          <6> QED
            BY <6>4, <6>5, <6>6, <1>0, MaxByteAssumption
        <5>2. n > 0 /\ q # MaxRangeLimit
          BY <5>1, <2>2, <2>3 DEF Grown
        <5>3. PICK k \in Nat \ {0} : Differ(s, q, k)
          BY <5>2, <2>3, <2>5, BelowIsFirstDigit DEF BelowLimit
        <5>4. /\ Digit(q, n) = Digit(p, n) + 1
              /\ \A j \in 1 .. (n - 1) : Digit(q, j) = Digit(p, j)
              /\ \A j \in Nat : j > n => Digit(q, j) = 0
          BY <5>2, <2>2 DEF Grown
        <5>5. Digit(p, m) < Digit(s, m) /\ \A j \in 1 .. (m - 1) : Digit(p, j) = Digit(s, j)
          BY <4>1 DEF Differ
        <5>6. Digit(s, k) < Digit(q, k) /\ \A j \in 1 .. (k - 1) : Digit(s, j) = Digit(q, j)
          BY <5>3 DEF Differ
        <5>7. CASE k < m
          <6>1. k \in 1 .. (m - 1) /\ k \in 1 .. (n - 1)
            BY <5>1, <5>7, <2>3
          <6>2. Digit(s, k) = Digit(q, k)
            BY <6>1, <5>4, <5>5
          <6> QED
            BY <6>2, <5>6, <1>0
        <5>8. CASE k >= m /\ m < n
          <6>1. m \in 1 .. (n - 1)
            BY <5>8, <2>3
          <6>2. Digit(q, m) < Digit(s, m)
            BY <6>1, <5>4, <5>5
          <6>3. k = m \/ m \in 1 .. (k - 1)
            BY <5>8
          <6> QED
            BY <6>2, <6>3, <5>6, <1>0, <5>4, <6>1
        <5>9. CASE k = m /\ m = n
          BY <5>9, <5>4, <5>5, <5>6, <1>0
        <5>10. CASE k > m /\ m = n
          <6>1. Digit(q, k) = 0
            BY <5>10, <5>4
          <6> QED
            BY <6>1, <5>6, <1>0
        <5> QED
          BY <5>1, <5>7, <5>8, <5>9, <5>10, <2>3
      <4> QED
        BY <4>2, <4>3, <1>0
    <3> QED
      BY <2>5, <3>1, <3>2 DEF AtMost
  <2> QED
    BY <1>1, <2>1, <2>4, <2>5
<1> QED
  BY <1>2, <1>3
=============================================================================
