------------------------ MODULE VomTypeStreamProofs ------------------------
(***************************************************************************)
(* Why the type stream never fails: for any types, however they refer to   *)
(* each other, any flows and any calls of Start and Stop, what the         *)
(* TypeEncoder writes the TypeDecoder can build.                           *)
(***************************************************************************)
EXTENDS VomTypeStream, FiniteSetTheorems, TLAPS

(* A call of encodeType, at the next-th child of type. *)
Frame == [type : Type, next : Nat \ {0}]

(* The encoder: what is in its variables, and what holding encMu means. *)
EncTypes ==
    /\ typeToId \in [Type -> TypeId \cup {0}]
    /\ encMu \in Flow \cup {NoFlow}
    /\ frames \in Seq(Frame)
    /\ epc \in [Flow -> {"idle", "lock", "encodeType", "send"}]
    /\ etype \in [Flow -> Type \cup {CHOOSE t \in Type : TRUE}]
    /\ \A f \in Flow : epc[f] # "idle" => etype[f] \in Type
    /\ \A f \in Flow : epc[f] = "encodeType" <=> encMu = f
    /\ encMu = NoFlow => frames = <<>>

Assigned == {t \in Type : typeToId[t] # 0}

(* Ids are handed out in sequence, one to a type. *)
Ids ==
    /\ \A t, u \in Type : typeToId[t] = typeToId[u] /\ typeToId[t] # 0 => t = u
    /\ \A t \in Type : typeToId[t] < nextId
    /\ nextId = WireIdFirstUserType + Cardinality(Assigned)

(* The calls of encodeType: each is working on the current child of the one *)
(* below it and has ids for the children before.                            *)
StackOf(fs, ids) ==
    /\ \A i \in DOMAIN fs :
          /\ ids[fs[i].type] # 0
          /\ fs[i].next <= Len(Refs[fs[i].type]) + 1
          /\ \A j \in 1 .. fs[i].next - 1 : ids[Refs[fs[i].type][j]] # 0
          /\ fs[i].type \in Walk(fs[Len(fs)].type)
    /\ \A i, j \in DOMAIN fs : fs[i].type = fs[j].type => i = j
    /\ \A i \in DOMAIN fs : i > 1 =>
          /\ fs[i].next <= Len(Refs[fs[i].type])
          /\ Refs[fs[i].type][fs[i].next] = fs[i - 1].type

(* The pending types are those on the stack. *)
Stack == pending = {frames[i].type : i \in DOMAIN frames} /\ StackOf(frames, typeToId)
-----------------------------------------------------------------------------
(* Where a message that was written is now: on the wire, in the hands of    *)
(* the loop, in idToWire or in idToType.                                    *)
WireIds(n) == {wire[k].id : k \in 1 .. n}
HandIds == {lmsg[l].id : l \in {k \in Loop : lpc[k] = "add"}}
Received == DOMAIN idToWire \cup DOMAIN idToType
Written == WireIds(Len(wire)) \cup HandIds \cup Received

(* refs are the ids of what t refers to. *)
Says(refs, t) ==
    /\ refs \in Seq(TypeId)
    /\ DOMAIN refs = DOMAIN Refs[t]
    /\ \A i \in DOMAIN Refs[t] : refs[i] = typeToId[Refs[t][i]]

(* id stands for a type, and refs are those of this type. *)
Defines(id, refs) == \E t \in Type : typeToId[t] = id /\ Says(refs, t)

DecTypes ==
    /\ wire \in Seq(TypeMsg)
    /\ lpc \in [Loop -> {"dead", "check", "read", "add", "build", "report"}]
    /\ lmsg \in [Loop -> TypeMsg \cup {NoMsg}]
    /\ lerr \in [Loop -> {"nil", "EOF"}]
    /\ DOMAIN idToWire \subseteq TypeId /\ DOMAIN idToType \subseteq TypeId
    /\ \A l \in Loop : lpc[l] \in {"add", "build"} => lmsg[l] \in TypeMsg

(* Every message is about a type with an id, wherever it is. *)
Contents ==
    /\ \A k \in DOMAIN wire : Defines(wire[k].id, wire[k].refs)
    /\ \A l \in Loop : lpc[l] \in {"add", "build"} => Defines(lmsg[l].id, lmsg[l].refs)
    /\ \A id \in DOMAIN idToWire : Defines(id, idToWire[id])
    /\ \A id \in DOMAIN idToType : Defines(id, idToType[id])

(* There is one message for a type, and none for those on the stack. *)
OneMessage ==
    /\ \A j, k \in DOMAIN wire : wire[j].id = wire[k].id => j = k
    /\ \A k \in DOMAIN wire : wire[k].id \notin HandIds \cup Received
    /\ HandIds \cap Received = {}
    /\ DOMAIN idToWire \cap DOMAIN idToType = {}
    /\ \A i \in DOMAIN frames : typeToId[frames[i].type] \notin Written

(* While the stream is open, an id that is assigned was written or will be. *)
Accounted == ~closed => \A t \in Assigned : typeToId[t] \in Written \/ t \in pending

(* Everything below the type of m is among these ids. *)
Ready(m, ids) == \A t \in Type : typeToId[t] = m.id => \A u \in Walk(t) : typeToId[u] \in ids

(* What a complete message needs has been written before it. *)
CompleteReady ==
    /\ \A k \in DOMAIN wire : ~wire[k].incomplete => Ready(wire[k], Received \cup HandIds \cup WireIds(k))
    /\ \A l \in Loop : lpc[l] = "add" /\ ~lmsg[l].incomplete => Ready(lmsg[l], Received \cup {lmsg[l].id})
    /\ \A l \in Loop : lpc[l] = "build" =>
          lmsg[l].id \in DOMAIN idToWire /\ ~lmsg[l].incomplete /\ Ready(lmsg[l], Received)

(* Built types refer to built types. *)
BuiltClosed == \A id \in DOMAIN idToType : \A i \in DOMAIN idToType[id] : idToType[id][i] \in DOMAIN idToType

(* m is complete and t below its type. *)
Covers(m, t) == ~m.incomplete /\ \E v \in Type : typeToId[v] = m.id /\ t \in Walk(v)

(* While the stream is open, a type that was written and is not built will  *)
(* be: with a complete message that is under way, or with the outermost     *)
(* call of encodeType, whose message will be complete.                      *)
Covered ==
    ~closed => \A t \in Type : typeToId[t] \in Written \ DOMAIN idToType =>
        \/ \E k \in DOMAIN wire : Covers(wire[k], t)
        \/ \E l \in Loop : lpc[l] \in {"add", "build"} /\ Covers(lmsg[l], t)
        \/ frames # <<>> /\ t \in Walk(frames[Len(frames)].type)
-----------------------------------------------------------------------------
(* Nothing comes any more, and the loop has nothing in its hands. *)
Ended == closed /\ wire = <<>> /\ \A l \in Loop : lpc[l] \notin {"add", "build"}

(* EOF is reported after everything that was written has been processed. *)
EofLast ==
    /\ derr \in {"nil", "EOF"} /\ DOMAIN rres = Flow /\ DOMAIN rid = Flow
    /\ derr = "EOF" => Ended
    /\ \A l \in Loop : lerr[l] = "EOF" => Ended
    /\ \A f \in Flow : rres[f] = "EOF" => Ended /\ rid[f] \notin DOMAIN idToType

Stream == Contents /\ OneMessage /\ Accounted /\ CompleteReady /\ BuiltClosed /\ Covered

TypeStreamInv == EncTypes /\ Ids /\ Stack /\ DecTypes /\ Stream /\ OneProcessLoop /\ EofLast
-----------------------------------------------------------------------------
(* Walk(t) is the least set that holds t and what its members refer to. *)
LEMMA WalkSelf == ASSUME NEW t \in Type PROVE t \in Walk(t)
BY DEF Walk

LEMMA WalkClosed ==
    ASSUME NEW t \in Type, NEW u \in Walk(t), NEW i \in DOMAIN Refs[u]
    PROVE  Refs[u][i] \in Walk(t)
<1>1. u \in Type
  BY DEF Walk
<1>2. Refs[u] \in Seq(Type)
  BY <1>1, WireAssumption
<1>3. Refs[u][i] \in Type
  BY <1>2
<1> QED
  BY <1>1, <1>3 DEF Walk

LEMMA WalkLeast ==
    ASSUME NEW t \in Type, NEW S \in SUBSET Type, t \in S,
           \A v \in S : \A i \in DOMAIN Refs[v] : Refs[v][i] \in S
    PROVE  Walk(t) \subseteq S
BY DEF Walk

LEMMA WalkTypes == ASSUME NEW t \in Type PROVE Walk(t) \subseteq Type
BY DEF Walk

LEMMA WalkBelow ==
    ASSUME NEW t \in Type, NEW u \in Walk(t) PROVE Walk(u) \subseteq Walk(t)
<1>1. Walk(t) \in SUBSET Type /\ u \in Type
  BY WalkTypes
<1> QED
  BY <1>1, WalkClosed, WalkLeast
-----------------------------------------------------------------------------
(* The stack of calls, innermost first. *)
LEMMA AdvanceFrames ==
    ASSUME NEW fs \in Seq(Frame), fs # <<>>
    PROVE  /\ Advance(fs) \in Seq(Frame)
           /\ Len(Advance(fs)) = Len(fs)
           /\ Advance(fs)[1] = [type |-> fs[1].type, next |-> fs[1].next + 1]
           /\ \A i \in DOMAIN fs : i > 1 => Advance(fs)[i] = fs[i]
<1>0. fs[1] \in Frame /\ Head(fs) = fs[1]
  OBVIOUS
<1>1. [Head(fs) EXCEPT !.next = @ + 1] = [type |-> fs[1].type, next |-> fs[1].next + 1]
  BY <1>0 DEF Frame
<1>2. [type |-> fs[1].type, next |-> fs[1].next + 1] \in Frame
  BY <1>0 DEF Frame
<1> DEFINE g == [type |-> fs[1].type, next |-> fs[1].next + 1]
<1>3. Advance(fs) = <<g>> \o Tail(fs)
  BY <1>1 DEF Advance
<1> HIDE DEF g
<1> QED
  BY <1>2, <1>3 DEF g

LEMMA StackAdvance ==
    ASSUME NEW fs \in Seq(Frame), fs # <<>>, NEW ids, StackOf(fs, ids),
           fs[1].next <= Len(Refs[fs[1].type]), ids[Refs[fs[1].type][fs[1].next]] # 0
    PROVE  StackOf(Advance(fs), ids)
<1> DEFINE gs == Advance(fs)
<1>1. /\ gs \in Seq(Frame) /\ Len(gs) = Len(fs)
      /\ gs[1] = [type |-> fs[1].type, next |-> fs[1].next + 1]
      /\ \A i \in DOMAIN fs : i > 1 => gs[i] = fs[i]
  BY AdvanceFrames
<1> HIDE DEF gs
<1>2. \A i \in DOMAIN gs : i \in DOMAIN fs /\ gs[i].type = fs[i].type
  BY <1>1
<1>3. gs[Len(gs)].type = fs[Len(fs)].type
  BY <1>1, <1>2
<1>4. fs[1].next \in Nat \ {0} /\ fs[1].type \in Type
  <2>1. fs[1] \in Frame
    OBVIOUS
  <2> QED
    BY <2>1 DEF Frame
<1>5. Len(Refs[fs[1].type]) \in Nat
  BY <1>4, WireAssumption
<1>6. ASSUME NEW i \in DOMAIN gs
      PROVE  /\ ids[gs[i].type] # 0
             /\ gs[i].next <= Len(Refs[gs[i].type]) + 1
             /\ \A j \in 1 .. gs[i].next - 1 : ids[Refs[gs[i].type][j]] # 0
             /\ gs[i].type \in Walk(gs[Len(gs)].type)
  <2>1. CASE i = 1
    <3>1. gs[i].next = fs[1].next + 1 /\ gs[i].type = fs[1].type /\ 1 \in DOMAIN fs
      BY <1>1, <2>1
    <3>2. \A j \in 1 .. fs[1].next : ids[Refs[fs[1].type][j]] # 0
      <4>1. \A j \in 1 .. fs[1].next : j = fs[1].next \/ j \in 1 .. fs[1].next - 1
        BY <1>4
      <4> QED
        BY <3>1, <4>1 DEF StackOf
    <3>3. fs[1].next + 1 - 1 = fs[1].next
      BY <1>4
    <3> QED
      BY <1>3, <1>4, <1>5, <3>1, <3>2, <3>3 DEF StackOf
  <2>2. CASE i > 1
    BY <1>1, <1>2, <1>3, <2>2 DEF StackOf
  <2> QED
    BY <1>1, <2>1, <2>2
<1>7. \A i, j \in DOMAIN gs : gs[i].type = gs[j].type => i = j
  BY <1>2 DEF StackOf
<1>8. ASSUME NEW i \in DOMAIN gs, i > 1
      PROVE  gs[i].next <= Len(Refs[gs[i].type]) /\ Refs[gs[i].type][gs[i].next] = gs[i - 1].type
  <2>1. i \in DOMAIN fs /\ i - 1 \in DOMAIN gs /\ gs[i] = fs[i]
    BY <1>1, <1>8
  <2>2. gs[i - 1].type = fs[i - 1].type
    BY <1>2, <2>1
  <2> QED
    BY <1>8, <2>1, <2>2 DEF StackOf
<1> QED
  BY <1>6, <1>7, <1>8 DEF StackOf, gs

LEMMA PushFrame ==
    ASSUME NEW fs \in Seq(Frame), NEW g \in Frame
    PROVE  /\ <<g>> \o fs \in Seq(Frame)
           /\ Len(<<g>> \o fs) = Len(fs) + 1
           /\ (<<g>> \o fs)[1] = g
           /\ \A i \in 2 .. Len(fs) + 1 : (<<g>> \o fs)[i] = fs[i - 1]
OBVIOUS

LEMMA PopFrame ==
    ASSUME NEW fs \in Seq(Frame), fs # <<>>
    PROVE  /\ Tail(fs) \in Seq(Frame) /\ Len(Tail(fs)) = Len(fs) - 1
           /\ \A i \in 1 .. Len(fs) - 1 : Tail(fs)[i] = fs[i + 1]
OBVIOUS

LEMMA StackPop ==
    ASSUME NEW fs \in Seq(Frame), fs # <<>>, NEW ids, StackOf(fs, ids) PROVE StackOf(Tail(fs), ids)
<1> DEFINE gs == Tail(fs)
<1>1. /\ gs \in Seq(Frame) /\ Len(gs) = Len(fs) - 1 /\ DOMAIN gs = 1 .. Len(fs) - 1
      /\ \A i \in 1 .. Len(fs) - 1 : gs[i] = fs[i + 1]
  BY PopFrame
<1> HIDE DEF gs
<1>2. \A i \in DOMAIN gs : i + 1 \in DOMAIN fs /\ gs[i] = fs[i + 1]
  BY <1>1
<1>3. gs # <<>> => gs[Len(gs)] = fs[Len(fs)]
  BY <1>1
<1>4. \A i \in DOMAIN gs : gs # <<>>
  BY <1>1
<1>5. \A i \in DOMAIN gs : i > 1 => i - 1 \in DOMAIN gs /\ gs[i - 1] = fs[i]
  BY <1>1
<1>6. \A i, j \in DOMAIN gs : gs[i].type = gs[j].type => i = j
  <2>1. \A i, j \in DOMAIN gs : gs[i].type = gs[j].type => i + 1 = j + 1
    BY <1>2 DEF StackOf
  <2> QED
    BY <1>1, <2>1
<1>7. \A i \in DOMAIN gs :
          /\ ids[gs[i].type] # 0
          /\ gs[i].next <= Len(Refs[gs[i].type]) + 1
          /\ \A j \in 1 .. gs[i].next - 1 : ids[Refs[gs[i].type][j]] # 0
          /\ gs[i].type \in Walk(gs[Len(gs)].type)
  BY <1>2, <1>3, <1>4 DEF StackOf
<1>8. ASSUME NEW i \in DOMAIN gs, i > 1
      PROVE  gs[i].next <= Len(Refs[gs[i].type]) /\ Refs[gs[i].type][gs[i].next] = gs[i - 1].type
  <2>1. i \in Nat /\ i + 1 \in DOMAIN fs /\ i + 1 > 1 /\ (i + 1) - 1 = i
    BY <1>1, <1>2, <1>8
  <2>2. /\ fs[i + 1].next <= Len(Refs[fs[i + 1].type])
        /\ Refs[fs[i + 1].type][fs[i + 1].next] = fs[(i + 1) - 1].type
    BY <2>1 DEF StackOf
  <2>3. gs[i] = fs[i + 1] /\ gs[i - 1] = fs[i]
    BY <1>2, <1>5, <1>8
  <2> QED
    BY <2>1, <2>2, <2>3
<1> QED
  BY <1>6, <1>7, <1>8 DEF StackOf, gs

LEMMA StackPush ==
    ASSUME NEW fs \in Seq(Frame), NEW ids, StackOf(fs, ids), NEW t \in Type, ids[t] # 0,
           \A i \in DOMAIN fs : fs[i].type # t,
           fs # <<>> => fs[1].next <= Len(Refs[fs[1].type]) /\ Refs[fs[1].type][fs[1].next] = t
    PROVE  StackOf(<<[type |-> t, next |-> 1]>> \o fs, ids)
<1> DEFINE g == [type |-> t, next |-> 1]
           gs == <<g>> \o fs
<1>1. g \in Frame
  BY DEF Frame
<1>2. /\ gs \in Seq(Frame) /\ Len(gs) = Len(fs) + 1 /\ gs[1] = g
      /\ \A i \in 2 .. Len(fs) + 1 : gs[i] = fs[i - 1]
  BY <1>1, PushFrame
<1>3. g.type = t /\ g.next = 1
  OBVIOUS
<1> HIDE DEF gs, g
<1>4. \A i \in DOMAIN gs : i = 1 \/ (i > 1 /\ i - 1 \in DOMAIN fs /\ gs[i] = fs[i - 1])
  BY <1>2
<1>5. Len(Refs[t]) \in Nat
  BY WireAssumption
<1>6. gs[1].type \in Walk(gs[Len(gs)].type)
  <2>1. CASE fs = <<>>
    BY <1>2, <1>3, <2>1, WalkSelf
  <2>2. CASE fs # <<>>
    <3>1. gs[Len(gs)] = fs[Len(fs)] /\ 1 \in DOMAIN fs /\ Len(fs) \in DOMAIN fs
      BY <1>2, <2>2
    <3>2. fs[1] \in Frame /\ fs[Len(fs)] \in Frame
      BY <3>1
    <3>3. fs[1].type \in Walk(fs[Len(fs)].type)
      BY <3>1 DEF StackOf
    <3>4. fs[1].next \in DOMAIN Refs[fs[1].type]
      BY <2>2, <3>2, WireAssumption DEF Frame
    <3>5. t \in Walk(fs[Len(fs)].type)
      BY <2>2, <3>2, <3>3, <3>4, WalkClosed DEF Frame
    <3> QED
      BY <1>2, <1>3, <3>1, <3>5
  <2> QED
    BY <2>1, <2>2
<1>7. ASSUME NEW i \in DOMAIN gs
      PROVE  /\ ids[gs[i].type] # 0
             /\ gs[i].next <= Len(Refs[gs[i].type]) + 1
             /\ \A j \in 1 .. gs[i].next - 1 : ids[Refs[gs[i].type][j]] # 0
             /\ gs[i].type \in Walk(gs[Len(gs)].type)
  <2>1. CASE i = 1
    BY <1>2, <1>3, <1>5, <1>6, <2>1
  <2>2. CASE i > 1
    <3>1. i - 1 \in DOMAIN fs /\ gs[i] = fs[i - 1] /\ gs[Len(gs)] = fs[Len(fs)]
      BY <1>2, <1>4, <2>2
    <3> QED
      BY <3>1 DEF StackOf
  <2> QED
    BY <1>4, <2>1, <2>2
<1>8. ASSUME NEW i \in DOMAIN gs, NEW j \in DOMAIN gs, gs[i].type = gs[j].type
      PROVE  i = j
  <2>1. CASE i > 1 /\ j > 1
    <3>1. i - 1 = j - 1
      BY <1>4, <1>8, <2>1 DEF StackOf
    <3> QED
      BY <1>2, <3>1
  <2>2. CASE i = 1 \/ j = 1
    BY <1>2, <1>3, <1>4, <1>8, <2>2
  <2> QED
    BY <1>4, <2>1, <2>2
<1>9. ASSUME NEW i \in DOMAIN gs, i > 1
      PROVE  gs[i].next <= Len(Refs[gs[i].type]) /\ Refs[gs[i].type][gs[i].next] = gs[i - 1].type
  <2>1. CASE i = 2
    BY <1>2, <1>3, <1>4, <2>1
  <2>2. CASE i > 2
    <3>1. i - 1 \in DOMAIN gs /\ i - 1 > 1 /\ gs[i] = fs[i - 1]
      BY <1>2, <1>4, <2>2
    <3>2. gs[i - 1] = fs[(i - 1) - 1] /\ i - 1 \in DOMAIN fs
      BY <1>4, <2>2, <3>1
    <3> QED
      BY <3>1, <3>2 DEF StackOf
  <2> QED
    BY <1>2, <1>9, <2>1, <2>2
<1> QED
  BY <1>7, <1>8, <1>9 DEF StackOf, gs, g
-----------------------------------------------------------------------------
LEMMA TypeStreamInit == Init => TypeStreamInv
<1> SUFFICES ASSUME Init PROVE TypeStreamInv
  OBVIOUS
<1> USE DEF Init, WireInit, EncInit, DecInit
<1>1. EncTypes
  BY EncoderAssumption DEF EncTypes
<1>2. Assigned = {}
  BY DEF Assigned
<1>3. Ids
  BY <1>2, FS_EmptySet DEF Ids, WireIdFirstUserType
<1>4. Stack
  BY DEF Stack, StackOf
<1>5. DecTypes
  BY DEF DecTypes
<1>6. Written = {}
  BY DEF Written, WireIds, HandIds, Received
<1>7. Stream
  BY <1>2, <1>6 DEF Stream, Contents, OneMessage, Accounted, CompleteReady, BuiltClosed, Covered,
       HandIds, Received
<1>8. OneProcessLoop /\ EofLast
  BY DEF OneProcessLoop, EofLast
<1> QED
  BY <1>1, <1>3, <1>4, <1>5, <1>7, <1>8 DEF TypeStreamInv
-----------------------------------------------------------------------------
(* Steps that move no message and leave the types on the stack alone. *)
LEMMA StreamQuiet ==
    ASSUME Stream, frames \in Seq(Frame), frames' \in Seq(Frame),
           UNCHANGED <<typeToId, pending, wire, closed, lmsg, idToWire, idToType>>,
           Len(frames') = Len(frames), \A i \in DOMAIN frames : frames'[i].type = frames[i].type,
           \A l \in Loop : \/ lpc'[l] = lpc[l]
                           \/ lpc[l] \notin {"add", "build"} /\ lpc'[l] \notin {"add", "build"}
    PROVE  Stream'
<1>1. HandIds' = HandIds
  BY DEF HandIds
<1>2. Received' = Received
  BY DEF Received
<1>3. WireIds(Len(wire))' = WireIds(Len(wire)) /\ \A k \in DOMAIN wire : WireIds(k)' = WireIds(k)
  BY DEF WireIds
<1>4. Written' = Written
  BY <1>1, <1>2, <1>3 DEF Written
<1>5. Contents'
  BY DEF Stream, Contents, Defines, Says
<1>6. OneMessage'
  BY <1>1, <1>2, <1>4 DEF Stream, OneMessage
<1>7. Accounted'
  BY <1>4 DEF Stream, Accounted, Assigned
<1>8. CompleteReady'
  <2>1. \A k \in DOMAIN wire' : ~wire'[k].incomplete => Ready(wire[k], Received \cup HandIds \cup WireIds(k))'
    BY <1>1, <1>2, <1>3 DEF Stream, CompleteReady, Ready
  <2>2. \A l \in Loop : lpc'[l] = "add" /\ ~lmsg'[l].incomplete => Ready(lmsg[l], Received \cup {lmsg[l].id})'
    BY <1>2 DEF Stream, CompleteReady, Ready
  <2>3. \A l \in Loop : lpc'[l] = "build" =>
            lmsg'[l].id \in DOMAIN idToWire' /\ ~lmsg'[l].incomplete /\ Ready(lmsg[l], Received)'
    BY <1>2 DEF Stream, CompleteReady, Ready
  <2> QED
    BY <2>1, <2>2, <2>3 DEF CompleteReady
<1>9. BuiltClosed'
  BY DEF Stream, BuiltClosed
<1>10. Covered'
  <2>1. frames # <<>> <=> frames' # <<>>
    OBVIOUS
  <2>2. frames # <<>> => frames'[Len(frames')].type = frames[Len(frames)].type
    OBVIOUS
  <2> QED
    BY <1>4, <2>1, <2>2 DEF Stream, Covered, Covers
<1> QED
  BY <1>5, <1>6, <1>7, <1>8, <1>9, <1>10 DEF Stream

(* Steps that leave the decoder, the wire and the ids alone. *)
LEMMA DecoderQuiet ==
    ASSUME TypeStreamInv, UNCHANGED <<decVars, wire, closed, typeToId, nextId>>
    PROVE  Ids' /\ DecTypes' /\ OneProcessLoop' /\ EofLast'
<1> USE DEF TypeStreamInv, decVars
<1>1. Ids'
  BY DEF Ids, Assigned
<1>2. DecTypes'
  BY DEF DecTypes
<1>3. OneProcessLoop'
  BY DEF OneProcessLoop
<1>4. EofLast'
  BY DEF EofLast, Ended
<1> QED
  BY <1>1, <1>2, <1>3, <1>4

LEMMA EncodeInv ==
    ASSUME TypeStreamInv, NEW f \in Flow, NEW t \in Type, Encode(f, t), UNCHANGED decVars
    PROVE  TypeStreamInv'
<1> USE DEF TypeStreamInv, Encode, wireVars
<1>1. EncTypes'
  BY EncoderAssumption DEF EncTypes
<1>2. Stack'
  BY DEF Stack
<1>3. Stream'
  BY StreamQuiet DEF EncTypes, decVars
<1> QED
  BY <1>1, <1>2, <1>3, DecoderQuiet

LEMMA LockEncInv ==
    ASSUME TypeStreamInv, NEW f \in Flow, LockEnc(f), UNCHANGED decVars
    PROVE  TypeStreamInv'
<1> USE DEF TypeStreamInv, LockEnc, wireVars
<1>1. EncTypes'
  BY EncoderAssumption DEF EncTypes
<1>2. Stack'
  BY DEF Stack
<1>3. Stream'
  BY StreamQuiet DEF EncTypes, decVars
<1> QED
  BY <1>1, <1>2, <1>3, DecoderQuiet

LEMMA SendValueInv ==
    ASSUME TypeStreamInv, NEW f \in Flow, SendValue(f), UNCHANGED decVars
    PROVE  TypeStreamInv'
<1> USE DEF TypeStreamInv, SendValue
<1>1. EncTypes'
  BY EncoderAssumption DEF EncTypes
<1>2. Stack'
  BY DEF Stack
<1>3. Stream'
  BY StreamQuiet DEF EncTypes, decVars
<1> QED
  BY <1>1, <1>2, <1>3, DecoderQuiet

LEMMA EncodeKnownInv ==
    ASSUME TypeStreamInv, NEW f \in Flow, EncodeKnown(f), UNCHANGED decVars
    PROVE  TypeStreamInv'
<1> USE DEF TypeStreamInv, EncodeKnown, wireVars
<1>1. CASE frames = <<>>
  <2>1. frames' = frames
    BY <1>1 DEF Advance
  <2>2. EncTypes'
    BY <1>1, <2>1, EncoderAssumption DEF EncTypes
  <2>3. Stack'
    BY <2>1 DEF Stack
  <2>4. Stream'
    BY <2>1, StreamQuiet DEF EncTypes, decVars
  <2> QED
    BY <2>2, <2>3, <2>4, DecoderQuiet
<1>2. CASE frames # <<>>
  <2>1. /\ frames \in Seq(Frame) /\ frames' \in Seq(Frame) /\ Len(frames') = Len(frames)
        /\ frames'[1] = [type |-> frames[1].type, next |-> frames[1].next + 1]
        /\ \A i \in DOMAIN frames : i > 1 => frames'[i] = frames[i]
    BY <1>2, AdvanceFrames DEF EncTypes
  <2>2. /\ frames[1].next <= Len(Refs[frames[1].type])
        /\ typeToId[Refs[frames[1].type][frames[1].next]] # 0
    BY <1>2 DEF HasCallee, Callee
  <2>3. \A i \in DOMAIN frames : frames'[i].type = frames[i].type
    BY <2>1
  <2>4. EncTypes'
    BY <1>2, <2>1 DEF EncTypes
  <2>5. Stack'
    <3>1. StackOf(frames', typeToId)
      BY <1>2, <2>1, <2>2, StackAdvance DEF Stack
    <3>2. {frames'[i].type : i \in DOMAIN frames'} = {frames[i].type : i \in DOMAIN frames}
      BY <2>1, <2>3
    <3> QED
      BY <3>1, <3>2 DEF Stack
  <2>6. Stream'
    BY <2>1, <2>3, StreamQuiet DEF decVars
  <2> QED
    BY <2>4, <2>5, <2>6, DecoderQuiet
<1> QED
  BY <1>1, <1>2

LEMMA WriteFailsInv ==
    ASSUME TypeStreamInv, NEW f \in Flow, WriteFails(f), UNCHANGED decVars
    PROVE  TypeStreamInv'
<1> USE DEF TypeStreamInv, WriteFails, wireVars
<1>1. EncTypes'
  BY EncoderAssumption DEF EncTypes
<1>2. Stack'
  BY DEF Stack, StackOf
<1>3. Stream'
  <2> USE DEF Stream, decVars
  <2>1. HandIds' = HandIds /\ Received' = Received /\ \A n \in Nat : WireIds(n)' = WireIds(n)
    BY DEF HandIds, Received, WireIds
  <2>2. Contents'
    BY DEF Contents, Defines, Says
  <2>3. OneMessage'
    BY <2>1 DEF OneMessage
  <2>4. Accounted' /\ Covered'
    BY DEF Accounted, Covered
  <2>5. CompleteReady'
    <3>1. DOMAIN wire \subseteq Nat
      BY DEF DecTypes
    <3> QED
      BY <2>1, <3>1 DEF CompleteReady, Ready
  <2>6. BuiltClosed'
    BY DEF BuiltClosed
  <2> QED
    BY <2>2, <2>3, <2>4, <2>5, <2>6
<1> QED
  BY <1>1, <1>2, <1>3, DecoderQuiet

LEMMA CloseWireInv ==
    ASSUME TypeStreamInv, CloseWire, UNCHANGED <<encVars, decVars>>
    PROVE  TypeStreamInv'
<1> USE DEF TypeStreamInv, CloseWire, encVars, decVars
<1>1. EncTypes'
  BY DEF EncTypes
<1>2. Stack'
  BY DEF Stack
<1>3. Ids'
  BY DEF Ids, Assigned
<1>4. DecTypes' /\ OneProcessLoop'
  BY DEF DecTypes, OneProcessLoop
<1>5. EofLast'
  BY DEF EofLast, Ended
<1>6. Stream'
  <2> USE DEF Stream
  <2>1. HandIds' = HandIds /\ Received' = Received /\ \A n \in Nat : WireIds(n)' = WireIds(n)
    BY DEF HandIds, Received, WireIds
  <2>2. Contents'
    BY DEF Contents, Defines, Says
  <2>3. OneMessage'
    <3>1. Written' = Written
      BY <2>1 DEF Written, DecTypes
    <3> QED
      BY <2>1, <3>1 DEF OneMessage
  <2>4. Accounted' /\ Covered'
    BY DEF Accounted, Covered
  <2>5. CompleteReady'
    <3>1. DOMAIN wire \subseteq Nat
      BY DEF DecTypes
    <3> QED
      BY <2>1, <3>1 DEF CompleteReady, Ready
  <2>6. BuiltClosed'
    BY DEF BuiltClosed
  <2> QED
    BY <2>2, <2>3, <2>4, <2>5, <2>6
<1> QED
  BY <1>1, <1>2, <1>3, <1>4, <1>5, <1>6
-----------------------------------------------------------------------------
(* There are ids enough for all types. *)
LEMMA IdsSuffice ==
    ASSUME TypeStreamInv, NEW c \in Type, typeToId[c] = 0
    PROVE  /\ nextId \in TypeId /\ nextId # 0
           /\ Cardinality(Assigned \cup {c}) = Cardinality(Assigned) + 1
           /\ Cardinality(Assigned) \in Nat
<1>1. IsFiniteSet(Type) /\ Assigned \subseteq Type /\ c \notin Assigned /\ Assigned \cup {c} \subseteq Type
  BY WireAssumption DEF Assigned
<1>2. IsFiniteSet(Assigned) /\ Cardinality(Assigned) \in Nat /\ Cardinality(Type) \in Nat
  BY <1>1, FS_Subset, FS_CardinalityType
<1>3. Cardinality(Assigned \cup {c}) = Cardinality(Assigned) + 1
  BY <1>1, <1>2, FS_AddElement
<1>4. Cardinality(Assigned \cup {c}) <= Cardinality(Type)
  BY <1>1, FS_Subset
<1>5. nextId = WireIdFirstUserType + Cardinality(Assigned)
  BY DEF TypeStreamInv, Ids
<1> QED
  BY <1>2, <1>3, <1>4, <1>5 DEF TypeId, WireIdFirstUserType

LEMMA TypeIdPositive == 0 \notin TypeId /\ \A id \in TypeId : id \in Nat /\ id # 0
BY WireAssumption, FS_CardinalityType DEF TypeId, WireIdFirstUserType

LEMMA WireTyped ==
    ASSUME TypeStreamInv, NEW k \in 1 .. Len(wire)
    PROVE  wire[k] \in TypeMsg /\ wire[k].id \in TypeId /\ k \in DOMAIN wire
<1>1. wire \in Seq(TypeMsg)
  BY DEF TypeStreamInv, DecTypes
<1>2. wire[k] \in TypeMsg /\ k \in DOMAIN wire
  BY <1>1
<1> QED
  BY <1>2 DEF TypeMsg

(* A message that was written is about a type that has had its id since. *)
LEMMA WrittenIds ==
    ASSUME TypeStreamInv, NEW id \in Written
    PROVE  /\ id \in TypeId /\ \E t \in Type : typeToId[t] = id
           /\ \A t \in Type : typeToId[t] = id =>
                 \A i \in DOMAIN Refs[t] : typeToId[Refs[t][i]] \in TypeId
<1>1. \E refs : Defines(id, refs)
  <2>1. CASE id \in WireIds(Len(wire))
    BY <2>1 DEF WireIds, TypeStreamInv, Stream, Contents, DecTypes
  <2>2. CASE id \in HandIds
    BY <2>2 DEF HandIds, TypeStreamInv, Stream, Contents
  <2>3. CASE id \in Received
    BY <2>3 DEF Received, TypeStreamInv, Stream, Contents
  <2> QED
    BY <2>1, <2>2, <2>3 DEF Written
<1>2. PICK refs : Defines(id, refs)
  BY <1>1
<1>3. PICK t \in Type : typeToId[t] = id /\ Says(refs, t)
  BY <1>2 DEF Defines
<1>4. id \in TypeId
  <2>1. CASE id \in WireIds(Len(wire))
    BY <2>1, WireTyped DEF WireIds
  <2>2. CASE id \in HandIds
    BY <2>2 DEF HandIds, TypeStreamInv, DecTypes, TypeMsg
  <2>3. CASE id \in Received
    BY <2>3 DEF Received, TypeStreamInv, DecTypes
  <2> QED
    BY <2>1, <2>2, <2>3 DEF Written
<1>5. \A u \in Type : typeToId[u] = id => u = t
  BY <1>3, <1>4, TypeIdPositive DEF TypeStreamInv, Ids
<1>6. \A i \in DOMAIN Refs[t] : typeToId[Refs[t][i]] \in TypeId
  <2>1. \A i \in DOMAIN refs : refs[i] \in TypeId
    BY <1>3 DEF Says
  <2> QED
    BY <1>3, <2>1 DEF Says
<1> QED
  BY <1>3, <1>4, <1>5, <1>6

LEMMA EncodeNewInv ==
    ASSUME TypeStreamInv, NEW f \in Flow, EncodeNew(f), UNCHANGED decVars
    PROVE  TypeStreamInv'
<1> USE DEF TypeStreamInv
<1>1. PICK c \in Type : c = Callee(f)
  <2>1. CASE frames = <<>>
    BY <2>1 DEF EncodeNew, Callee, EncTypes
  <2>2. CASE frames # <<>>
    <3>1. frames[1] \in Frame /\ Head(frames) = frames[1]
      BY <2>2 DEF EncTypes
    <3>2. frames[1].next \in 1 .. Len(Refs[frames[1].type]) /\ frames[1].type \in Type
      BY <2>2, <3>1 DEF EncodeNew, HasCallee, Frame
    <3>3. Refs[frames[1].type] \in Seq(Type)
      BY <3>2, WireAssumption
    <3> QED
      BY <2>2, <3>1, <3>2, <3>3 DEF Callee
  <2> QED
    BY <2>1, <2>2
<1>2. /\ typeToId[c] = 0 /\ typeToId' = [typeToId EXCEPT ![c] = nextId] /\ nextId' = nextId + 1
      /\ frames' = <<[type |-> c, next |-> 1]>> \o frames /\ pending' = pending \cup {c}
      /\ UNCHANGED <<encMu, epc, etype, wire, closed>>
  BY <1>1 DEF EncodeNew, wireVars
<1>3. UNCHANGED <<lpc, lmsg, lerr, idToWire, idToType, derr, rres, rid, goroutineRunning>>
  BY DEF decVars
<1>4. /\ nextId \in TypeId /\ nextId # 0
      /\ Cardinality(Assigned \cup {c}) = Cardinality(Assigned) + 1 /\ Cardinality(Assigned) \in Nat
  BY <1>2, IdsSuffice
<1>5. \A t \in Type : typeToId'[t] = IF t = c THEN nextId ELSE typeToId[t]
  BY <1>2 DEF EncTypes
<1>6. /\ frames \in Seq(Frame) /\ frames' \in Seq(Frame) /\ Len(frames') = Len(frames) + 1
      /\ frames'[1] = [type |-> c, next |-> 1]
      /\ \A i \in 2 .. Len(frames) + 1 : frames'[i] = frames[i - 1]
  <2>1. frames \in Seq(Frame) /\ [type |-> c, next |-> 1] \in Frame
    BY DEF EncTypes, Frame
  <2> QED
    BY <1>2, <2>1, PushFrame
<1>7. EncTypes'
  <2>1. epc[f] = "encodeType"
    BY DEF EncodeNew
  <2>2. encMu' = f /\ f # NoFlow
    BY <1>2, <2>1, EncoderAssumption DEF EncTypes
  <2> QED
    BY <1>2, <1>4, <1>6, <2>2 DEF EncTypes
<1>8. Assigned' = Assigned \cup {c}
  BY <1>4, <1>5 DEF Assigned
<1>9. Ids'
  <2>1. nextId \in Nat
    BY <1>4, TypeIdPositive
  <2>2. \A t \in Type : typeToId[t] < nextId /\ typeToId[t] \in Nat
    <3>1. \A t \in Type : typeToId[t] \in TypeId \cup {0}
      BY DEF EncTypes
    <3>2. \A t \in Type : typeToId[t] < nextId
      BY DEF Ids
    <3>3. \A t \in Type : typeToId[t] \in Nat
      BY <3>1, TypeIdPositive
    <3> QED
      BY <2>1, <3>2, <3>3
  <2>3. \A t, u \in Type : typeToId'[t] = typeToId'[u] /\ typeToId'[t] # 0 => t = u
    BY <1>5, <2>1, <2>2 DEF Ids
  <2>4. \A t \in Type : typeToId'[t] < nextId'
    BY <1>2, <1>5, <2>1, <2>2
  <2>5. nextId' = WireIdFirstUserType + Cardinality(Assigned')
    BY <1>2, <1>4, <1>8 DEF Ids, WireIdFirstUserType
  <2> QED
    BY <2>3, <2>4, <2>5 DEF Ids
<1>10. \A i \in DOMAIN frames : frames[i].type \in Type /\ frames[i].type # c
  <2>1. \A i \in DOMAIN frames : frames[i] \in Frame
    BY <1>6
  <2> QED
    BY <1>2, <2>1 DEF Stack, StackOf, Frame
<1>11. Stack'
  <2>1. StackOf(frames, typeToId')
    <3>1. \A t \in Type : typeToId[t] # 0 => typeToId'[t] # 0
      BY <1>4, <1>5
    <3>2. \A i \in DOMAIN frames : \A j \in 1 .. frames[i].next - 1 : Refs[frames[i].type][j] \in Type
      <4> SUFFICES ASSUME NEW i \in DOMAIN frames, NEW j \in 1 .. frames[i].next - 1
                   PROVE  Refs[frames[i].type][j] \in Type
        OBVIOUS
      <4>1. frames[i].next \in Nat /\ frames[i].next <= Len(Refs[frames[i].type]) + 1
        <5>1. frames[i] \in Frame
          BY <1>6
        <5> QED
          BY <5>1 DEF Frame, Stack, StackOf
      <4>2. Refs[frames[i].type] \in Seq(Type)
        BY <1>10, WireAssumption
      <4>3. j \in 1 .. Len(Refs[frames[i].type])
        BY <4>1, <4>2
      <4> QED
        BY <4>2, <4>3
    <3> QED
      BY <1>10, <3>1, <3>2 DEF Stack, StackOf
  <2>2. frames # <<>> => frames[1].next <= Len(Refs[frames[1].type]) /\ Refs[frames[1].type][frames[1].next] = c
    BY <1>1, <1>6 DEF EncodeNew, HasCallee, Callee
  <2>3. StackOf(frames', typeToId')
    <3>1. typeToId'[c] # 0
      BY <1>4, <1>5
    <3> QED
      <4>1. StackOf(<<[type |-> c, next |-> 1]>> \o frames, typeToId')
        <5>1. PICK ids : ids = typeToId'
          OBVIOUS
        <5>2. PICK fs \in Seq(Frame) : fs = frames
          BY <1>6
        <5>3. StackOf(fs, ids) /\ ids[c] # 0 /\ \A i \in DOMAIN fs : fs[i].type # c
          BY <1>10, <2>1, <3>1, <5>1, <5>2
        <5>4. fs # <<>> => fs[1].next <= Len(Refs[fs[1].type]) /\ Refs[fs[1].type][fs[1].next] = c
          BY <2>2, <5>2
        <5>5. StackOf(<<[type |-> c, next |-> 1]>> \o fs, ids)
          BY <5>3, <5>4, StackPush
        <5> QED
          BY <5>1, <5>2, <5>5
      <4> QED
        BY <1>2, <4>1
  <2>4. {frames'[i].type : i \in DOMAIN frames'} = {frames[i].type : i \in DOMAIN frames} \cup {c}
    <3>1. \A i \in DOMAIN frames' : i = 1 \/ (i \in 2 .. Len(frames) + 1 /\ i - 1 \in DOMAIN frames)
      BY <1>6
    <3>2. \A i \in DOMAIN frames : i + 1 \in DOMAIN frames' /\ frames'[i + 1] = frames[i]
      BY <1>6
    <3>3. 1 \in DOMAIN frames' /\ frames'[1].type = c
      BY <1>6
    <3>4. \A i \in DOMAIN frames' : frames'[i].type \in {frames[j].type : j \in DOMAIN frames} \cup {c}
      BY <1>6, <3>1, <3>3
    <3>5. \A i \in DOMAIN frames : frames[i].type \in {frames'[j].type : j \in DOMAIN frames'}
      BY <3>2
    <3> QED
      BY <3>3, <3>4, <3>5
  <2> QED
    BY <1>2, <2>3, <2>4 DEF Stack
<1>12. DecTypes'
  BY <1>2, <1>3 DEF DecTypes
<1>13. OneProcessLoop' /\ EofLast'
  BY <1>2, <1>3 DEF OneProcessLoop, EofLast, Ended
<1>14. /\ HandIds' = HandIds /\ Received' = Received
       /\ WireIds(Len(wire))' = WireIds(Len(wire)) /\ \A k \in DOMAIN wire : WireIds(k)' = WireIds(k)
  BY <1>2, <1>3 DEF HandIds, Received, WireIds
<1>15. Written' = Written
  BY <1>14 DEF Written
<1>16. \A id \in Written : id \in TypeId /\ id # 0 /\ id # nextId
  <2>1. \A t \in Type : typeToId[t] # nextId
    BY <1>4, TypeIdPositive DEF Ids, EncTypes
  <2> QED
    BY <2>1, WrittenIds, TypeIdPositive
<1>17. \A id \in Written : \A t \in Type : typeToId'[t] = id <=> typeToId[t] = id
  BY <1>2, <1>5, <1>16
<1>18. \A refs, id : Defines(id, refs) /\ id # 0 => Defines(id, refs)'
  <2> SUFFICES ASSUME NEW refs, NEW id, NEW t \in Type, typeToId[t] = id, id # 0, Says(refs, t)
               PROVE  typeToId'[t] = id /\ Says(refs, t)'
    BY DEF Defines
  <2>1. Refs[t] \in Seq(Type)
    BY WireAssumption
  <2>2. \A i \in DOMAIN Refs[t] : Refs[t][i] \in Type /\ refs[i] \in TypeId
    BY <2>1 DEF Says
  <2>3. \A i \in DOMAIN Refs[t] : refs[i] = typeToId'[Refs[t][i]]
    BY <1>2, <1>5, <2>2, TypeIdPositive DEF Says
  <2> QED
    BY <1>2, <1>5, <2>3 DEF Says
<1>19. Contents'
  <2>1. \A k \in DOMAIN wire : wire[k].id # 0
    <3>1. DOMAIN wire = 1 .. Len(wire)
      BY DEF DecTypes
    <3> QED
      BY <3>1, WireTyped, TypeIdPositive
  <2>2. \A l \in Loop : lpc[l] \in {"add", "build"} => lmsg[l].id # 0
    BY TypeIdPositive DEF DecTypes, TypeMsg
  <2>3. \A id \in Received : id # 0
    BY TypeIdPositive DEF DecTypes, Received
  <2> QED
    BY <1>2, <1>3, <1>18, <2>1, <2>2, <2>3 DEF Stream, Contents, Received
<1>20. OneMessage'
  <2>1. ASSUME NEW i \in DOMAIN frames' PROVE typeToId'[frames'[i].type] \notin Written
    <3>1. CASE i = 1
      BY <1>5, <1>6, <1>16, <3>1
    <3>2. CASE i > 1
      <4>1. i - 1 \in DOMAIN frames /\ frames'[i] = frames[i - 1]
        BY <1>6, <3>2
      <4> QED
        BY <1>5, <1>10, <4>1 DEF Stream, OneMessage
    <3> QED
      BY <1>6, <3>1, <3>2
  <2> QED
    BY <1>2, <1>3, <1>14, <1>15, <2>1 DEF Stream, OneMessage
<1>21. Accounted'
  BY <1>2, <1>5, <1>8, <1>15 DEF Stream, Accounted, Assigned
<1>22. ASSUME NEW m, NEW ids, m.id \in Written, ids \subseteq Written, Ready(m, ids)
       PROVE  \A t \in Type : typeToId'[t] = m.id => \A u \in Walk(t) : typeToId'[u] \in ids
  BY <1>5, <1>16, <1>17, <1>22, WalkTypes, <1>2 DEF Ready
<1>23. CompleteReady'
  <2>1. \A k \in DOMAIN wire : k \in 1 .. Len(wire) /\ k <= Len(wire)
    BY DEF DecTypes
  <2>2. ASSUME NEW k \in DOMAIN wire, ~wire[k].incomplete
        PROVE  Ready(wire[k], Received \cup HandIds \cup WireIds(k))'
    <3>1. wire[k].id \in Written
      BY <2>1 DEF Written, WireIds
    <3>2. Received \cup HandIds \cup WireIds(k) \subseteq Written
      BY <2>1 DEF Written, WireIds, DecTypes
    <3> QED
      BY <1>2, <1>14, <1>22, <2>2, <3>1, <3>2 DEF Stream, CompleteReady, Ready
  <2>3. ASSUME NEW l \in Loop, lpc[l] = "add", ~lmsg[l].incomplete
        PROVE  Ready(lmsg[l], Received \cup {lmsg[l].id})'
    <3>1. lmsg[l].id \in Written /\ Received \cup {lmsg[l].id} \subseteq Written
      BY <2>3 DEF Written, HandIds
    <3> QED
      BY <1>3, <1>14, <1>22, <2>3, <3>1 DEF Stream, CompleteReady, Ready
  <2>4. ASSUME NEW l \in Loop, lpc[l] = "build" PROVE Ready(lmsg[l], Received)'
    <3>1. lmsg[l].id \in Written /\ Received \subseteq Written
      BY <2>4 DEF Written, Received, Stream, CompleteReady
    <3> QED
      BY <1>3, <1>14, <1>22, <2>4, <3>1 DEF Stream, CompleteReady, Ready
  <2> QED
    BY <1>2, <1>3, <2>2, <2>3, <2>4 DEF Stream, CompleteReady
<1>24. BuiltClosed'
  BY <1>3 DEF Stream, BuiltClosed
<1>25. Covered'
  <2> SUFFICES ASSUME ~closed, NEW t \in Type, typeToId'[t] \in Written \ DOMAIN idToType
               PROVE  \/ \E k \in DOMAIN wire : Covers(wire[k], t)'
                      \/ \E l \in Loop : lpc[l] \in {"add", "build"} /\ Covers(lmsg[l], t)'
                      \/ frames' # <<>> /\ t \in Walk(frames'[Len(frames')].type)
    BY <1>2, <1>3, <1>15 DEF Covered
  <2>1. typeToId[t] \in Written \ DOMAIN idToType
    BY <1>17
  <2>2. CASE \E k \in DOMAIN wire : Covers(wire[k], t)
    <3>1. PICK k \in DOMAIN wire : Covers(wire[k], t)
      BY <2>2
    <3>2. wire[k].id \in Written
      BY DEF Written, WireIds, DecTypes
    <3> QED
      BY <1>2, <1>17, <3>1, <3>2 DEF Covers
  <2>3. CASE \E l \in Loop : lpc[l] \in {"add", "build"} /\ Covers(lmsg[l], t)
    <3>1. PICK l \in Loop : lpc[l] \in {"add", "build"} /\ Covers(lmsg[l], t)
      BY <2>3
    <3>2. lmsg[l].id \in Written
      BY <3>1 DEF Written, HandIds, Received, Stream, CompleteReady
    <3> QED
      BY <1>3, <1>17, <3>1, <3>2 DEF Covers
  <2>4. CASE frames # <<>> /\ t \in Walk(frames[Len(frames)].type)
    BY <1>6, <2>4
  <2> QED
    BY <2>1, <2>2, <2>3, <2>4 DEF Stream, Covered
<1> QED
  BY <1>7, <1>9, <1>11, <1>12, <1>13, <1>19, <1>20, <1>21, <1>23, <1>24, <1>25 DEF Stream
-----------------------------------------------------------------------------
(* A message that says it is complete comes after everything below it: what *)
(* was written before refers to assigned ids only, and whatever is assigned *)
(* and not written is pending.                                              *)
LEMMA CompleteIsReady ==
    ASSUME NEW t \in Type, NEW ids, NEW have, NEW pend,
           ids[t] \in have, Walk(t) \cap pend = {},
           \A u \in Type : ids[u] \in have => \A i \in DOMAIN Refs[u] : ids[Refs[u][i]] # 0,
           \A u \in Type : ids[u] # 0 => ids[u] \in have \/ u \in pend
    PROVE  \A u \in Walk(t) : ids[u] \in have
<1> DEFINE S == {u \in Walk(t) : ids[u] \in have}
<1>1. S \in SUBSET Type /\ t \in S
  BY WalkTypes, WalkSelf
<1>2. ASSUME NEW v \in S, NEW i \in DOMAIN Refs[v] PROVE Refs[v][i] \in S
  <2>1. Refs[v][i] \in Walk(t) /\ Refs[v][i] \in Type
    BY WalkClosed, WalkTypes
  <2>2. ids[Refs[v][i]] # 0
    BY <1>1
  <2> QED
    BY <2>1, <2>2
<1>3. Walk(t) \subseteq S
  BY <1>1, <1>2, WalkLeast
<1> QED
  BY <1>3

LEMMA WriteWireTypeInv ==
    ASSUME TypeStreamInv, NEW f \in Flow, WriteWireType(f), UNCHANGED decVars
    PROVE  TypeStreamInv'
<1> USE DEF TypeStreamInv
<1>1. frames # <<>>
  BY DEF WriteWireType, HasCallee
<1>2. frames \in Seq(Frame) /\ 1 \in DOMAIN frames /\ frames[1] \in Frame /\ Head(frames) = frames[1]
  BY <1>1 DEF EncTypes
<1>3. PICK t \in Type : t = frames[1].type
  BY <1>2 DEF Frame
<1>4. PICK m : m = [id |-> typeToId[t],
                    refs |-> [i \in DOMAIN Refs[t] |-> typeToId[Refs[t][i]]],
                    incomplete |-> ~TypeComplete(t, pending \ {t})]
  OBVIOUS
<1>5. /\ ~closed /\ ~closed' /\ pending' = pending \ {t} /\ wire' = Append(wire, m)
      /\ frames' = Advance(Tail(frames)) /\ UNCHANGED <<typeToId, nextId, etype>>
      /\ epc[f] = "encodeType"
      /\ IF Tail(frames) = <<>> THEN encMu' = NoFlow /\ epc' = [epc EXCEPT ![f] = "send"]
         ELSE UNCHANGED <<encMu, epc>>
  BY <1>2, <1>3, <1>4 DEF WriteWireType
<1>6. UNCHANGED <<lpc, lmsg, lerr, idToWire, idToType, derr, rres, rid, goroutineRunning>>
  BY DEF decVars
<1>7. Refs[t] \in Seq(Type) /\ DOMAIN Refs[t] = 1 .. Len(Refs[t]) /\ \A i \in DOMAIN Refs[t] : Refs[t][i] \in Type
  <2>1. Refs[t] \in Seq(Type)
    BY WireAssumption
  <2> QED
    BY <2>1
<1>8. \A i \in DOMAIN Refs[t] : typeToId[Refs[t][i]] # 0 /\ typeToId[Refs[t][i]] \in TypeId
  <2>1. frames[1].next = Len(Refs[t]) + 1
    BY <1>1, <1>2, <1>3, <1>7 DEF WriteWireType, HasCallee, Stack, StackOf, Frame
  <2>2. \A i \in DOMAIN Refs[t] : i \in 1 .. frames[1].next - 1
    BY <1>7, <2>1
  <2>3. \A i \in DOMAIN Refs[t] : typeToId[Refs[t][i]] # 0
    BY <1>2, <1>3, <2>2 DEF Stack, StackOf
  <2> QED
    BY <1>7, <2>3 DEF EncTypes
<1>9. typeToId[t] # 0 /\ typeToId[t] \in TypeId
  BY <1>2, <1>3 DEF Stack, StackOf, EncTypes
<1>10. m \in TypeMsg /\ m.id = typeToId[t] /\ Says(m.refs, t)
  <2>1. m.id = typeToId[t] /\ m.refs = [i \in DOMAIN Refs[t] |-> typeToId[Refs[t][i]]]
    BY <1>4
  <2>2. m.refs \in Seq(TypeId)
    BY <1>7, <1>8, <2>1
  <2>3. m \in TypeMsg
    BY <1>4, <1>9, <2>1, <2>2 DEF TypeMsg, TypeComplete
  <2> QED
    BY <2>1, <2>2, <2>3 DEF Says
<1>11. m.incomplete <=> ~(Walk(t) \cap (pending \ {t}) = {})
  BY <1>4 DEF TypeComplete
<1>12. /\ Tail(frames) \in Seq(Frame) /\ Len(Tail(frames)) = Len(frames) - 1
       /\ \A i \in 1 .. Len(frames) - 1 : Tail(frames)[i] = frames[i + 1]
  BY <1>1, <1>2, PopFrame
<1>13. /\ frames' \in Seq(Frame) /\ Len(frames') = Len(frames) - 1
       /\ \A i \in 1 .. Len(frames) - 1 : frames'[i].type = frames[i + 1].type
       /\ frames' = <<>> <=> Tail(frames) = <<>>
  <2>1. CASE Tail(frames) = <<>>
    BY <1>5, <1>12, <2>1 DEF Advance
  <2>2. CASE Tail(frames) # <<>>
    <3>1. /\ frames' \in Seq(Frame) /\ Len(frames') = Len(Tail(frames))
          /\ frames'[1] = [type |-> Tail(frames)[1].type, next |-> Tail(frames)[1].next + 1]
          /\ \A i \in DOMAIN Tail(frames) : i > 1 => frames'[i] = Tail(frames)[i]
      BY <1>5, <1>12, <2>2, AdvanceFrames
    <3>2. \A i \in DOMAIN Tail(frames) : frames'[i].type = Tail(frames)[i].type
      BY <3>1
    <3>3. DOMAIN Tail(frames) = 1 .. Len(frames) - 1
      BY <1>12
    <3>4. \A i \in 1 .. Len(frames) - 1 : frames'[i].type = frames[i + 1].type
      BY <1>12, <3>2, <3>3
    <3>5. frames' # <<>>
      BY <1>12, <2>2, <3>1
    <3> QED
      BY <1>12, <2>2, <3>1, <3>4, <3>5
  <2> QED
    BY <2>1, <2>2
<1>14. EncTypes'
  <2>1. encMu = f /\ f # NoFlow
    BY <1>5, EncoderAssumption DEF EncTypes
  <2>2. CASE Tail(frames) = <<>>
    BY <1>5, <1>13, <2>1, <2>2, EncoderAssumption DEF EncTypes
  <2>3. CASE Tail(frames) # <<>>
    BY <1>5, <1>13, <2>1, <2>3 DEF EncTypes
  <2> QED
    BY <2>2, <2>3
<1>15. \A i \in DOMAIN frames : i = 1 \/ (i \in 2 .. Len(frames) /\ frames[i].type # t)
  BY <1>2, <1>3 DEF Stack, StackOf
<1>16. {frames'[i].type : i \in DOMAIN frames'} = {frames[i].type : i \in DOMAIN frames} \ {t}
  <2>1. \A i \in DOMAIN frames' : i + 1 \in DOMAIN frames /\ i + 1 # 1 /\ frames'[i].type = frames[i + 1].type
    BY <1>2, <1>13
  <2>2. \A i \in DOMAIN frames : i # 1 => i - 1 \in DOMAIN frames' /\ frames'[i - 1].type = frames[i].type
    BY <1>2, <1>13
  <2>3. \A i \in DOMAIN frames' : frames'[i].type \in {frames[j].type : j \in DOMAIN frames} \ {t}
    BY <1>15, <2>1
  <2>4. \A i \in DOMAIN frames : frames[i].type # t => frames[i].type \in {frames'[j].type : j \in DOMAIN frames'}
    BY <1>3, <2>2
  <2> QED
    BY <2>3, <2>4
<1>17. Stack'
  <2>1. CASE Tail(frames) = <<>>
    <3>1. frames' = <<>>
      BY <1>13, <2>1
    <3>2. StackOf(frames', typeToId')
      BY <3>1 DEF StackOf
    <3> QED
      BY <1>5, <1>16, <3>2 DEF Stack
  <2>2. CASE Tail(frames) # <<>>
    <3>1. StackOf(Tail(frames), typeToId)
      BY <1>1, <1>2, StackPop DEF Stack
    <3>2. 2 \in DOMAIN frames /\ Tail(frames)[1] = frames[2] /\ 2 - 1 = 1
      BY <1>2, <1>12, <2>2
    <3>3. frames[2].next <= Len(Refs[frames[2].type]) /\ Refs[frames[2].type][frames[2].next] = t
      BY <1>3, <3>2 DEF Stack, StackOf
    <3>4. StackOf(Advance(Tail(frames)), typeToId)
      BY <1>9, <1>12, <2>2, <3>1, <3>2, <3>3, StackAdvance
    <3> QED
      BY <1>5, <1>16, <3>4 DEF Stack
  <2> QED
    BY <2>1, <2>2
<1>18. Ids'
  BY <1>5 DEF Ids, Assigned
<1>19. wire \in Seq(TypeMsg) /\ wire' \in Seq(TypeMsg) /\ Len(wire') = Len(wire) + 1 /\ wire'[Len(wire) + 1] = m
       /\ \A k \in 1 .. Len(wire) : wire'[k] = wire[k]
  BY <1>5, <1>10 DEF DecTypes
<1>20. DecTypes'
  BY <1>6, <1>19 DEF DecTypes
<1>21. OneProcessLoop'
  BY <1>6 DEF OneProcessLoop
<1>22. EofLast'
  BY <1>5, <1>6 DEF EofLast, Ended
<1>23. HandIds' = HandIds /\ Received' = Received
  BY <1>6 DEF HandIds, Received
<1>24. /\ \A k \in 1 .. Len(wire) : WireIds(k)' = WireIds(k)
       /\ WireIds(Len(wire))' = WireIds(Len(wire)) \cup {m.id}
  <2>1. \A k \in 1 .. Len(wire) : WireIds(k)' = WireIds(k)
    BY <1>19 DEF WireIds
  <2>2. 1 .. Len(wire') = 1 .. Len(wire) \cup {Len(wire) + 1}
    BY <1>19
  <2>3. {wire'[k].id : k \in 1 .. Len(wire')} = {wire[k].id : k \in 1 .. Len(wire)} \cup {m.id}
    BY <1>19, <2>2
  <2> QED
    BY <2>1, <2>3 DEF WireIds
<1>25. Written' = Written \cup {m.id}
  BY <1>19, <1>23, <1>24 DEF Written
<1>26. m.id \notin Written
  BY <1>2, <1>3, <1>10 DEF Stream, OneMessage
<1>27. \A k \in DOMAIN wire' : (k \in DOMAIN wire /\ wire'[k] = wire[k]) \/ (k = Len(wire) + 1 /\ wire'[k] = m)
  BY <1>19
<1>28. \A k \in DOMAIN wire : wire[k].id \in Written
  BY <1>19 DEF Written, WireIds
<1>29. Contents'
  <2>1. Defines(m.id, m.refs)
    BY <1>10 DEF Defines
  <2>2. \A id, refs : Defines(id, refs)' <=> Defines(id, refs)
    BY <1>5 DEF Defines, Says
  <2>3. \A k \in DOMAIN wire' : Defines(wire'[k].id, wire'[k].refs)
    BY <1>27, <2>1 DEF Stream, Contents
  <2> QED
    BY <1>6, <2>2, <2>3 DEF Stream, Contents
<1>30. OneMessage'
  <2>1. \A j, k \in DOMAIN wire' : wire'[j].id = wire'[k].id => j = k
    BY <1>26, <1>27, <1>28 DEF Stream, OneMessage
  <2>2. \A k \in DOMAIN wire' : wire'[k].id \notin HandIds \cup Received
    BY <1>26, <1>27 DEF Stream, OneMessage, Written
  <2>3. ASSUME NEW i \in DOMAIN frames' PROVE typeToId[frames'[i].type] \notin Written \cup {m.id}
    <3>1. PICK j \in DOMAIN frames : frames'[i].type = frames[j].type /\ frames[j].type # t
      BY <1>16
    <3>2. frames[j].type \in Type
      <4>1. frames[j] \in Frame
        BY <1>2
      <4> QED
        BY <4>1 DEF Frame
    <3>3. typeToId[frames[j].type] # m.id
      BY <1>9, <1>10, <3>1, <3>2 DEF Ids
    <3> QED
      BY <3>1, <3>3 DEF Stream, OneMessage
  <2> QED
    BY <1>5, <1>6, <1>23, <1>25, <2>1, <2>2, <2>3 DEF Stream, OneMessage
<1>31. Accounted'
  BY <1>5, <1>10, <1>25 DEF Stream, Accounted, Assigned
<1>32. ~m.incomplete => \A u \in Walk(t) : typeToId[u] \in Written \cup {m.id}
  <2> SUFFICES ASSUME ~m.incomplete PROVE \A u \in Walk(t) : typeToId[u] \in Written \cup {m.id}
    OBVIOUS
  <2>1. Walk(t) \cap (pending \ {t}) = {}
    BY <1>11
  <2>2. ASSUME NEW u \in Type, typeToId[u] \in Written \cup {m.id}, NEW i \in DOMAIN Refs[u]
        PROVE  typeToId[Refs[u][i]] # 0
    <3>1. CASE typeToId[u] \in Written
      BY <3>1, WrittenIds, TypeIdPositive
    <3>2. CASE typeToId[u] = m.id
      BY <1>8, <1>9, <1>10, <3>2 DEF Ids
    <3> QED
      BY <2>2, <3>1, <3>2
  <2>3. \A u \in Type : typeToId[u] # 0 => typeToId[u] \in Written \cup {m.id} \/ u \in pending \ {t}
    BY <1>5, <1>10 DEF Stream, Accounted, Assigned
  <2>4. typeToId[t] \in Written \cup {m.id}
    BY <1>10
  <2> QED
    <3>1. PICK ids, have, pend : ids = typeToId /\ have = Written \cup {m.id} /\ pend = pending \ {t}
      OBVIOUS
    <3>2. /\ ids[t] \in have /\ Walk(t) \cap pend = {}
          /\ \A u \in Type : ids[u] \in have => \A i \in DOMAIN Refs[u] : ids[Refs[u][i]] # 0
          /\ \A u \in Type : ids[u] # 0 => ids[u] \in have \/ u \in pend
      BY <2>1, <2>2, <2>3, <2>4, <3>1
    <3>3. \A u \in Walk(t) : ids[u] \in have
      BY <3>2, CompleteIsReady
    <3> QED
      BY <3>1, <3>3
<1>33. CompleteReady'
  <2>1. \A k \in DOMAIN wire : WireIds(k)' = WireIds(k)
    BY <1>19, <1>24
  <2>3. ~m.incomplete => \A v \in Type : typeToId[v] = m.id =>
            \A u \in Walk(v) : typeToId[u] \in Received \cup HandIds \cup WireIds(Len(wire))'
    <3>1. \A v \in Type : typeToId[v] = m.id => v = t
      BY <1>9, <1>10 DEF Ids
    <3>2. Written \cup {m.id} = Received \cup HandIds \cup WireIds(Len(wire))'
      BY <1>24 DEF Written
    <3> QED
      BY <1>32, <3>1, <3>2
  <2>4. \A k \in DOMAIN wire' : ~wire'[k].incomplete => Ready(wire[k], Received \cup HandIds \cup WireIds(k))'
    <3> SUFFICES ASSUME NEW k \in DOMAIN wire', ~wire'[k].incomplete
                 PROVE  \A v \in Type : typeToId[v] = wire'[k].id =>
                          \A u \in Walk(v) : typeToId[u] \in Received \cup HandIds \cup WireIds(k)'
      BY <1>5, <1>23 DEF Ready
    <3>1. CASE k \in DOMAIN wire /\ wire'[k] = wire[k]
      BY <2>1, <3>1 DEF Stream, CompleteReady, Ready
    <3>2. CASE k = Len(wire) + 1 /\ wire'[k] = m
      <4>1. WireIds(k)' = WireIds(Len(wire))'
        BY <1>19, <3>2 DEF WireIds
      <4> QED
        BY <2>3, <3>2, <4>1
    <3> QED
      BY <1>27, <3>1, <3>2
  <2>5. \A l \in Loop : lpc'[l] = "add" /\ ~lmsg'[l].incomplete => Ready(lmsg[l], Received \cup {lmsg[l].id})'
    BY <1>5, <1>6, <1>23 DEF Stream, CompleteReady, Ready
  <2>6. \A l \in Loop : lpc'[l] = "build" =>
            lmsg'[l].id \in DOMAIN idToWire' /\ ~lmsg'[l].incomplete /\ Ready(lmsg[l], Received)'
    BY <1>5, <1>6, <1>23 DEF Stream, CompleteReady, Ready
  <2> QED
    BY <2>4, <2>5, <2>6 DEF CompleteReady
<1>34. BuiltClosed'
  BY <1>6 DEF Stream, BuiltClosed
<1>35. Covered'
  <2> SUFFICES ASSUME NEW u \in Type, typeToId[u] \in (Written \cup {m.id}) \ DOMAIN idToType
               PROVE  \/ \E k \in DOMAIN wire' : Covers(wire'[k], u)
                      \/ \E l \in Loop : lpc[l] \in {"add", "build"} /\ Covers(lmsg[l], u)
                      \/ frames' # <<>> /\ u \in Walk(frames'[Len(frames')].type)
    BY <1>5, <1>6, <1>25 DEF Covered, Covers
  <2>1. frames' # <<>> => frames'[Len(frames')].type = frames[Len(frames)].type
    BY <1>2, <1>13
  <2>2. frames' = <<>> => frames[Len(frames)].type = t /\ ~m.incomplete
    <3> SUFFICES ASSUME frames' = <<>> PROVE frames[Len(frames)].type = t /\ ~m.incomplete
      OBVIOUS
    <3>1. Len(frames) = 1
      BY <1>2, <1>13
    <3>2. pending \ {t} = {}
      BY <1>16 DEF Stack
    <3> QED
      BY <1>3, <1>11, <3>1, <3>2
  <2>3. Len(wire) + 1 \in DOMAIN wire' /\ wire'[Len(wire) + 1] = m
    BY <1>19
  <2>4. u \in Walk(frames[Len(frames)].type) => \/ frames' # <<>> /\ u \in Walk(frames'[Len(frames')].type)
                                              \/ \E k \in DOMAIN wire' : Covers(wire'[k], u)
    BY <1>10, <2>1, <2>2, <2>3 DEF Covers
  <2>5. CASE typeToId[u] = m.id
    <3>1. u = t
      BY <1>9, <1>10, <2>5 DEF Ids
    <3> QED
      BY <1>2, <1>3, <2>4, <3>1 DEF Stack, StackOf
  <2>6. CASE typeToId[u] \in Written
    <3>1. \/ \E k \in DOMAIN wire : Covers(wire[k], u)
          \/ \E l \in Loop : lpc[l] \in {"add", "build"} /\ Covers(lmsg[l], u)
          \/ frames # <<>> /\ u \in Walk(frames[Len(frames)].type)
      BY <1>5, <2>6 DEF Stream, Covered
    <3>2. \A k \in DOMAIN wire : k \in DOMAIN wire' /\ wire'[k] = wire[k]
      BY <1>19
    <3> QED
      BY <2>4, <3>1, <3>2
  <2> QED
    BY <2>5, <2>6
<1> QED
  BY <1>14, <1>17, <1>18, <1>20, <1>21, <1>22, <1>29, <1>30, <1>31, <1>33, <1>34, <1>35 DEF Stream
-----------------------------------------------------------------------------
LEMMA EncoderQuiet ==
    ASSUME TypeStreamInv, UNCHANGED encVars PROVE EncTypes' /\ Ids' /\ Stack'
<1>1. EncTypes'
  BY DEF TypeStreamInv, EncTypes, encVars
<1>2. Ids' /\ Stack'
  BY DEF TypeStreamInv, Ids, Assigned, Stack, encVars
<1> QED
  BY <1>1, <1>2

LEMMA StartInv ==
    ASSUME TypeStreamInv, NEW l \in Loop, Start(l), UNCHANGED encVars
    PROVE  TypeStreamInv'
<1> USE DEF TypeStreamInv, Start, readVars, wireVars
<1>1. DecTypes'
  BY DEF DecTypes
<1>2. OneProcessLoop'
  BY DEF OneProcessLoop, DecTypes
<1>3. EofLast'
  BY DEF EofLast, Ended, DecTypes
<1>4. Stream'
  BY StreamQuiet DEF EncTypes, DecTypes, encVars
<1> QED
  BY <1>1, <1>2, <1>3, <1>4, EncoderQuiet

LEMMA StopInv ==
    ASSUME TypeStreamInv, Stop, UNCHANGED encVars
    PROVE  TypeStreamInv'
<1> USE DEF TypeStreamInv, Stop, readVars, wireVars
<1>1. DecTypes'
  BY DEF DecTypes
<1>2. OneProcessLoop'
  BY DEF OneProcessLoop
<1>3. EofLast'
  BY DEF EofLast, Ended
<1>4. Stream'
  BY StreamQuiet DEF EncTypes, encVars
<1> QED
  BY <1>1, <1>2, <1>3, <1>4, EncoderQuiet

LEMMA CheckStopInv ==
    ASSUME TypeStreamInv, NEW l \in Loop, CheckStop(l), UNCHANGED encVars
    PROVE  TypeStreamInv'
<1> USE DEF TypeStreamInv, CheckStop, readVars, wireVars
<1>1. DecTypes'
  BY DEF DecTypes
<1>2. OneProcessLoop'
  BY DEF OneProcessLoop, DecTypes
<1>3. EofLast'
  BY DEF EofLast, Ended, DecTypes
<1>4. Stream'
  BY StreamQuiet DEF EncTypes, DecTypes, encVars
<1> QED
  BY <1>1, <1>2, <1>3, <1>4, EncoderQuiet

LEMMA ReportInv ==
    ASSUME TypeStreamInv, NEW l \in Loop, Report(l), UNCHANGED encVars
    PROVE  TypeStreamInv'
<1> USE DEF TypeStreamInv, Report, ctlVars, wireVars
<1>1. DecTypes'
  BY DEF DecTypes
<1>2. OneProcessLoop'
  BY DEF OneProcessLoop, DecTypes
<1>3. EofLast'
  BY DEF EofLast, Ended, DecTypes
<1>4. Stream'
  BY StreamQuiet DEF EncTypes, DecTypes, encVars
<1> QED
  BY <1>1, <1>2, <1>3, <1>4, EncoderQuiet

(* The readers: only what lookupType returns is of interest. *)
LEMMA ReaderQuiet ==
    ASSUME TypeStreamInv, UNCHANGED encVars,
           UNCHANGED <<idToType, idToWire, derr, ctlVars, lpc, lerr, lmsg, wire, closed>>
    PROVE  EncTypes' /\ Ids' /\ Stack' /\ DecTypes' /\ OneProcessLoop' /\ Stream'
<1>1. DecTypes'
  BY DEF TypeStreamInv, DecTypes
<1>2. OneProcessLoop'
  BY DEF TypeStreamInv, OneProcessLoop, ctlVars
<1>3. Stream'
  BY StreamQuiet DEF TypeStreamInv, EncTypes, encVars
<1> QED
  BY <1>1, <1>2, <1>3, EncoderQuiet

LEMMA LookupInv ==
    ASSUME TypeStreamInv, NEW f \in Flow, Lookup(f), UNCHANGED encVars
    PROVE  TypeStreamInv'
<1>1. EofLast'
  BY DEF TypeStreamInv, Lookup, Return, EofLast, Ended
<1> QED
  BY <1>1, ReaderQuiet DEF TypeStreamInv, Lookup

LEMMA LockBuildInv ==
    ASSUME TypeStreamInv, NEW f \in Flow, LockBuild(f), UNCHANGED encVars
    PROVE  TypeStreamInv'
<1>1. EofLast'
  BY DEF TypeStreamInv, LockBuild, Return, EofLast, Ended, wireVars
<1> QED
  BY <1>1, ReaderQuiet DEF TypeStreamInv, LockBuild, wireVars

LEMMA FindInv ==
    ASSUME TypeStreamInv, NEW f \in Flow, Find(f), UNCHANGED encVars
    PROVE  TypeStreamInv'
<1>1. EofLast'
  BY DEF TypeStreamInv, Find, Return, EofLast, Ended, wireVars
<1> QED
  BY <1>1, ReaderQuiet DEF TypeStreamInv, Find, wireVars

LEMMA WaitOrGiveUpInv ==
    ASSUME TypeStreamInv, NEW f \in Flow, WaitOrGiveUp(f), UNCHANGED encVars
    PROVE  TypeStreamInv'
<1>1. EofLast'
  BY DEF TypeStreamInv, WaitOrGiveUp, Return, EofLast, Ended, wireVars
<1> QED
  BY <1>1, ReaderQuiet DEF TypeStreamInv, WaitOrGiveUp, wireVars
-----------------------------------------------------------------------------
LEMMA ReadWireTypeInv ==
    ASSUME TypeStreamInv, NEW l \in Loop, ReadWireType(l), UNCHANGED encVars
    PROVE  TypeStreamInv'
<1> USE DEF TypeStreamInv
<1>1. lpc[l] = "read" /\ closed' = closed /\ UNCHANGED <<idToType, idToWire, derr, goroutineRunning, rres, rid>>
  BY DEF ReadWireType, ctlVars, readVars
<1>2. \A k \in Loop : k # l => lpc[k] = "dead"
  BY <1>1 DEF OneProcessLoop, DecTypes
<1>3. CASE wire = <<>>
  <2>1. /\ closed /\ lerr' = [lerr EXCEPT ![l] = "EOF"] /\ lpc' = [lpc EXCEPT ![l] = "report"]
        /\ UNCHANGED <<lmsg, wire>>
    BY <1>3 DEF ReadWireType
  <2>2. DecTypes'
    BY <1>1, <2>1 DEF DecTypes
  <2>3. OneProcessLoop'
    BY <1>1, <2>1 DEF OneProcessLoop, DecTypes
  <2>4. EofLast'
    BY <1>1, <1>2, <1>3, <2>1 DEF EofLast, Ended, DecTypes
  <2>5. Stream'
    BY <1>1, <2>1, StreamQuiet DEF EncTypes, DecTypes, encVars
  <2> QED
    BY <2>2, <2>3, <2>4, <2>5, EncoderQuiet
<1>4. CASE wire # <<>>
  <2> USE <1>4
  <2>1. /\ lmsg' = [lmsg EXCEPT ![l] = Head(wire)] /\ wire' = Tail(wire)
        /\ lpc' = [lpc EXCEPT ![l] = "add"] /\ lerr' = lerr
    BY DEF ReadWireType
  <2>2. UNCHANGED <<typeToId, frames, pending>>
    BY DEF encVars
  <2>3. /\ wire \in Seq(TypeMsg) /\ wire' \in Seq(TypeMsg) /\ Len(wire') = Len(wire) - 1 /\ Head(wire) = wire[1]
        /\ \A k \in 1 .. Len(wire) - 1 : wire'[k] = wire[k + 1]
        /\ 1 \in DOMAIN wire /\ wire[1] \in TypeMsg
    BY <2>1 DEF DecTypes
  <2>4. lpc'[l] = "add" /\ lmsg'[l] = wire[1] /\ \A k \in Loop : k # l => lpc'[k] = "dead"
    BY <1>2, <2>1, <2>3 DEF DecTypes
  <2>5. DecTypes'
    BY <1>1, <2>1, <2>3 DEF DecTypes
  <2>6. OneProcessLoop'
    BY <1>1, <2>1 DEF OneProcessLoop, DecTypes
  <2>7. EofLast'
    BY <1>1, <2>1 DEF EofLast, Ended
  <2>8. HandIds = {} /\ HandIds' = {wire[1].id} /\ Received' = Received
    <3>1. {k \in Loop : lpc[k] = "add"} = {} /\ {k \in Loop : lpc'[k] = "add"} = {l}
      BY <1>1, <1>2, <2>4
    <3> QED
      BY <1>1, <2>4, <3>1 DEF HandIds, Received
  <2>9. \A k \in DOMAIN wire' : k \in Nat /\ k + 1 \in DOMAIN wire /\ k + 1 # 1 /\ wire'[k] = wire[k + 1]
    BY <2>3
  <2>10. \A k \in DOMAIN wire : k = 1 \/ (k - 1 \in DOMAIN wire' /\ wire'[k - 1] = wire[k])
    BY <2>3
  <2>11. \A n \in 0 .. Len(wire) - 1 : WireIds(n + 1) = WireIds(n)' \cup {wire[1].id}
    <3> SUFFICES ASSUME NEW n \in 0 .. Len(wire) - 1 PROVE WireIds(n + 1) = WireIds(n)' \cup {wire[1].id}
      OBVIOUS
    <3>1. \A k \in 1 .. n : k + 1 \in 1 .. n + 1 /\ wire'[k] = wire[k + 1]
      BY <2>3
    <3>2. \A k \in 1 .. n + 1 : k = 1 \/ (k - 1 \in 1 .. n /\ wire'[k - 1] = wire[k])
      BY <2>3
    <3>3. 1 \in 1 .. n + 1
      BY <2>3
    <3>4. \A k \in 1 .. n + 1 : wire[k].id \in {wire'[j].id : j \in 1 .. n} \cup {wire[1].id}
      BY <3>2
    <3>5. \A k \in 1 .. n : wire'[k].id \in {wire[j].id : j \in 1 .. n + 1}
      BY <3>1
    <3> QED
      BY <3>3, <3>4, <3>5 DEF WireIds
  <2>12. Written' = Written
    <3>1. WireIds(Len(wire)) = WireIds(Len(wire))' \cup {wire[1].id}
      <4>1. PICK n \in 0 .. Len(wire) - 1 : n = Len(wire) - 1
        BY <2>3
      <4>2. WireIds(n + 1) = WireIds(n)' \cup {wire[1].id}
        BY <2>11
      <4>3. n + 1 = Len(wire) /\ n = Len(wire')
        BY <2>3, <4>1
      <4> QED
        BY <4>2, <4>3 DEF WireIds
    <3> QED
      BY <2>8, <3>1 DEF Written
  <2>13. \A id, refs : Defines(id, refs)' <=> Defines(id, refs)
    BY <2>2 DEF Defines, Says
  <2>14. Contents'
    <3>1. \A k \in DOMAIN wire' : Defines(wire'[k].id, wire'[k].refs)
      BY <2>9 DEF Stream, Contents
    <3>2. \A k \in Loop : lpc'[k] \in {"add", "build"} => Defines(lmsg'[k].id, lmsg'[k].refs)
      BY <2>3, <2>4 DEF Stream, Contents
    <3> QED
      BY <1>1, <2>13, <3>1, <3>2 DEF Stream, Contents
  <2>15. OneMessage'
    <3>1. \A j, k \in DOMAIN wire' : wire'[j].id = wire'[k].id => j = k
      <4>1. \A j, k \in DOMAIN wire' : wire'[j].id = wire'[k].id => j + 1 = k + 1
        BY <2>9 DEF Stream, OneMessage
      <4> QED
        BY <2>9, <4>1
    <3>2. \A k \in DOMAIN wire' : wire'[k].id \notin {wire[1].id} \cup Received
      BY <2>3, <2>9 DEF Stream, OneMessage
    <3>3. {wire[1].id} \cap Received = {}
      BY <2>3 DEF Stream, OneMessage
    <3> QED
      BY <1>1, <2>2, <2>8, <2>12, <3>1, <3>2, <3>3 DEF Stream, OneMessage
  <2>16. Accounted'
    BY <1>1, <2>2, <2>12 DEF Stream, Accounted, Assigned
  <2>17. CompleteReady'
    <3>1. ASSUME NEW k \in DOMAIN wire', ~wire'[k].incomplete
          PROVE  Ready(wire[k], Received \cup HandIds \cup WireIds(k))'
      <4>1. k \in 0 .. Len(wire) - 1
        BY <2>3, <3>1
      <4>2. Ready(wire[k + 1], Received \cup HandIds \cup WireIds(k + 1))
        BY <2>9, <3>1 DEF Stream, CompleteReady
      <4>3. Received \cup HandIds \cup WireIds(k + 1) = Received' \cup HandIds' \cup WireIds(k)'
        BY <2>8, <2>11, <4>1
      <4>4. Ready(wire[k + 1], Received' \cup HandIds' \cup WireIds(k)')
        BY <4>2, <4>3
      <4> QED
        BY <2>2, <2>9, <4>4 DEF Ready
    <3>2. ~wire[1].incomplete => Ready(lmsg[l], Received \cup {lmsg[l].id})'
      <4> SUFFICES ASSUME ~wire[1].incomplete PROVE Ready(lmsg[l], Received \cup {lmsg[l].id})'
        OBVIOUS
      <4>1. Ready(wire[1], Received \cup HandIds \cup WireIds(1))
        BY <2>3 DEF Stream, CompleteReady
      <4>2. WireIds(1) = {wire[1].id}
        BY DEF WireIds
      <4>3. Ready(wire[1], Received \cup {wire[1].id})
        BY <2>8, <4>1, <4>2
      <4> QED
        BY <2>2, <2>4, <2>8, <4>3 DEF Ready
    <3> QED
      BY <2>4, <3>1, <3>2 DEF CompleteReady
  <2>18. BuiltClosed'
    BY <1>1 DEF Stream, BuiltClosed
  <2>19. Covered'
    <3> SUFFICES ASSUME ~closed, NEW t \in Type, typeToId[t] \in Written \ DOMAIN idToType
                 PROVE  \/ \E k \in DOMAIN wire' : Covers(wire'[k], t)
                        \/ \E k \in Loop : lpc'[k] \in {"add", "build"} /\ Covers(lmsg'[k], t)
                        \/ frames # <<>> /\ t \in Walk(frames[Len(frames)].type)
      BY <1>1, <2>2, <2>12 DEF Covered, Covers
    <3>1. \/ \E k \in DOMAIN wire : Covers(wire[k], t)
          \/ \E k \in Loop : lpc[k] \in {"add", "build"} /\ Covers(lmsg[k], t)
          \/ frames # <<>> /\ t \in Walk(frames[Len(frames)].type)
      BY DEF Stream, Covered
    <3>2. \A k \in Loop : lpc[k] \notin {"add", "build"}
      BY <1>1, <1>2
    <3> QED
      BY <2>4, <2>10, <3>1, <3>2
  <2> QED
    BY <2>5, <2>6, <2>7, <2>14, <2>15, <2>16, <2>17, <2>18, <2>19, EncoderQuiet DEF Stream
<1> QED
  BY <1>3, <1>4

LEMMA AddWireTypeInv ==
    ASSUME TypeStreamInv, NEW l \in Loop, AddWireType(l), UNCHANGED encVars
    PROVE  TypeStreamInv'
<1> USE DEF TypeStreamInv
<1>1. lpc[l] = "add" /\ UNCHANGED <<idToType, derr, goroutineRunning, rres, rid, lmsg, wire, closed>>
  BY DEF AddWireType, ctlVars, readVars, wireVars
<1>2. \A k \in Loop : k # l => lpc[k] = "dead"
  BY <1>1 DEF OneProcessLoop, DecTypes
<1>3. PICK m \in TypeMsg : m = lmsg[l]
  BY <1>1 DEF DecTypes
<1>4. HandIds = {m.id}
  <2>1. {k \in Loop : lpc[k] = "add"} = {l}
    BY <1>1, <1>2
  <2> QED
    BY <1>3, <2>1 DEF HandIds
<1>5. m.id \notin Received /\ m.id \in TypeId
  BY <1>4 DEF Stream, OneMessage, TypeMsg
<1>6. ~(m.id < WireIdFirstUserType)
  BY <1>5, WireAssumption, FS_CardinalityType DEF TypeId, WireIdFirstUserType
<1>7. /\ idToWire' = [i \in DOMAIN idToWire \cup {m.id} |-> IF i = m.id THEN m.refs ELSE idToWire[i]]
      /\ lpc' = [lpc EXCEPT ![l] = IF m.incomplete THEN "report" ELSE "build"]
      /\ lerr' = lerr
  BY <1>3, <1>5, <1>6 DEF AddWireType, Received
<1>8. UNCHANGED <<typeToId, frames, pending>>
  BY DEF encVars
<1>9. /\ lpc'[l] = (IF m.incomplete THEN "report" ELSE "build") /\ lmsg'[l] = m
      /\ \A k \in Loop : k # l => lpc'[k] = "dead"
  BY <1>1, <1>2, <1>3, <1>7 DEF DecTypes
<1>10. DecTypes'
  BY <1>1, <1>5, <1>7 DEF DecTypes
<1>11. OneProcessLoop'
  BY <1>1, <1>7 DEF OneProcessLoop, DecTypes
<1>12. EofLast'
  BY <1>1, <1>7 DEF EofLast, Ended
<1>13. HandIds' = {} /\ Received' = Received \cup {m.id}
  <2>1. {k \in Loop : lpc'[k] = "add"} = {}
    BY <1>9
  <2> QED
    BY <1>1, <1>7, <2>1 DEF HandIds, Received
<1>14. \A n : WireIds(n)' = {wire[k].id : k \in 1 .. n}
  BY <1>1 DEF WireIds
<1>15. Written' = Written
  BY <1>1, <1>4, <1>13 DEF Written, WireIds
<1>16. \A id, refs : Defines(id, refs)' <=> Defines(id, refs)
  BY <1>8 DEF Defines, Says
<1>17. Contents'
  <2>1. \A k \in DOMAIN wire' : Defines(wire'[k].id, wire'[k].refs)
    BY <1>1 DEF Stream, Contents
  <2>2. Defines(m.id, m.refs)
    BY <1>1, <1>3 DEF Stream, Contents
  <2>3. \A k \in Loop : lpc'[k] \in {"add", "build"} => Defines(lmsg'[k].id, lmsg'[k].refs)
    BY <1>9, <2>2
  <2>4. \A id \in DOMAIN idToWire' : Defines(id, idToWire'[id])
    BY <1>7, <2>2 DEF Stream, Contents
  <2> QED
    BY <1>1, <1>16, <2>1, <2>3, <2>4 DEF Stream, Contents
<1>18. OneMessage'
  <2>1. \A k \in DOMAIN wire : wire[k].id \notin HandIds \cup Received
    BY DEF Stream, OneMessage
  <2>2. DOMAIN idToWire' \cap DOMAIN idToType = {}
    BY <1>5, <1>7 DEF Stream, OneMessage, Received
  <2> QED
    BY <1>1, <1>4, <1>8, <1>13, <1>15, <2>1, <2>2 DEF Stream, OneMessage
<1>19. Accounted'
  BY <1>1, <1>8, <1>15 DEF Stream, Accounted, Assigned
<1>20. CompleteReady'
  <2>1. ASSUME NEW k \in DOMAIN wire', ~wire'[k].incomplete
        PROVE  Ready(wire[k], Received \cup HandIds \cup WireIds(k))'
    <3>1. Ready(wire[k], Received \cup HandIds \cup WireIds(k))
      BY <1>1, <2>1 DEF Stream, CompleteReady
    <3>2. Received' \cup HandIds' \cup WireIds(k)' = Received \cup HandIds \cup WireIds(k)
      BY <1>4, <1>13, <1>14 DEF WireIds
    <3> QED
      BY <1>1, <1>8, <3>1, <3>2 DEF Ready
  <2>2. ~m.incomplete => m.id \in DOMAIN idToWire' /\ Ready(lmsg[l], Received)'
    <3>1. ~m.incomplete => Ready(m, Received \cup {m.id})
      BY <1>1, <1>3 DEF Stream, CompleteReady
    <3> QED
      BY <1>7, <1>8, <1>9, <1>13, <3>1 DEF Ready
  <2> QED
    BY <1>9, <2>1, <2>2 DEF CompleteReady
<1>21. BuiltClosed'
  BY <1>1 DEF Stream, BuiltClosed
<1>22. Covered'
  <2> SUFFICES ASSUME ~closed, NEW t \in Type, typeToId[t] \in Written \ DOMAIN idToType
               PROVE  \/ \E k \in DOMAIN wire : Covers(wire[k], t)
                      \/ \E k \in Loop : lpc'[k] \in {"add", "build"} /\ Covers(lmsg'[k], t)
                      \/ frames # <<>> /\ t \in Walk(frames[Len(frames)].type)
    BY <1>1, <1>8, <1>15 DEF Covered, Covers
  <2>1. \/ \E k \in DOMAIN wire : Covers(wire[k], t)
        \/ \E k \in Loop : lpc[k] \in {"add", "build"} /\ Covers(lmsg[k], t)
        \/ frames # <<>> /\ t \in Walk(frames[Len(frames)].type)
    BY DEF Stream, Covered
  <2>2. \A k \in Loop : lpc[k] \in {"add", "build"} /\ Covers(lmsg[k], t) => lpc'[l] = "build" /\ Covers(lmsg'[l], t)
    BY <1>2, <1>3, <1>9 DEF Covers
  <2> QED
    BY <2>1, <2>2
<1> QED
  BY <1>10, <1>11, <1>12, <1>17, <1>18, <1>19, <1>20, <1>21, <1>22, EncoderQuiet DEF Stream
-----------------------------------------------------------------------------
(* makeType visits the least set of ids that holds id and what its members  *)
(* refer to and is not built yet.                                           *)
LEMMA MakeTypeLeast ==
    ASSUME NEW id \in TypeId, NEW S \in SUBSET TypeId, id \in S,
           \A j \in S \cap DOMAIN idToWire : \A k \in DOMAIN idToWire[j] :
              idToWire[j][k] \in DOMAIN idToType \cup S
    PROVE  MakeType(id) \subseteq S
BY DEF MakeType

LEMMA MakeTypeClosed ==
    ASSUME NEW id \in TypeId, NEW j \in MakeType(id) \cap DOMAIN idToWire, NEW k \in DOMAIN idToWire[j],
           idToWire[j][k] \in TypeId
    PROVE  idToWire[j][k] \in DOMAIN idToType \cup MakeType(id)
BY DEF MakeType

(* The loop is at buildType for a complete message: makeType finds all it   *)
(* needs, and nothing below the type stays behind.                          *)
LEMMA MakeTypeFinds ==
    ASSUME TypeStreamInv, NEW l \in Loop, lpc[l] = "build"
    PROVE  /\ MakeType(lmsg[l].id) \subseteq DOMAIN idToWire
           /\ \A t, u \in Type : typeToId[t] = lmsg[l].id /\ u \in Walk(t) =>
                 typeToId[u] \in DOMAIN idToType \cup MakeType(lmsg[l].id)
<1> USE DEF TypeStreamInv
<1>1. PICK id \in TypeId : id = lmsg[l].id
  BY DEF DecTypes, TypeMsg
<1>2. id \in DOMAIN idToWire /\ \A t \in Type : typeToId[t] = id => \A u \in Walk(t) : typeToId[u] \in Received
  BY <1>1 DEF Stream, CompleteReady, Ready
<1>3. PICK t \in Type : typeToId[t] = id
  BY <1>2 DEF Stream, Contents, Defines
<1>4. \A u \in Type : typeToId[u] = id => u = t
  BY <1>3, TypeIdPositive DEF Ids
<1>5. \A u \in Walk(t) : u \in Type /\ typeToId[u] \in Received
  BY <1>2, <1>3, WalkTypes
<1>6. ASSUME NEW u \in Type, typeToId[u] \in DOMAIN idToWire
      PROVE  /\ DOMAIN idToWire[typeToId[u]] = DOMAIN Refs[u]
             /\ \A i \in DOMAIN Refs[u] : /\ idToWire[typeToId[u]][i] = typeToId[Refs[u][i]]
                                         /\ typeToId[Refs[u][i]] \in TypeId
  <2>1. PICK v \in Type : typeToId[v] = typeToId[u] /\ Says(idToWire[typeToId[u]], v)
    BY <1>6 DEF Stream, Contents, Defines
  <2>2. v = u
    BY <1>6, <2>1, TypeIdPositive DEF Ids, DecTypes
  <2>3. idToWire[typeToId[u]] \in Seq(TypeId)
    BY <2>1 DEF Says
  <2> QED
    BY <2>1, <2>2, <2>3 DEF Says
<1>7. ASSUME NEW u \in Type, typeToId[u] \in DOMAIN idToType, NEW i \in DOMAIN Refs[u]
      PROVE  typeToId[Refs[u][i]] \in DOMAIN idToType
  <2>1. PICK v \in Type : typeToId[v] = typeToId[u] /\ Says(idToType[typeToId[u]], v)
    BY <1>7 DEF Stream, Contents, Defines
  <2>2. v = u
    BY <1>7, <2>1, TypeIdPositive DEF Ids, DecTypes
  <2> QED
    BY <1>7, <2>1, <2>2 DEF Says, Stream, BuiltClosed
<1>8. MakeType(id) \subseteq DOMAIN idToWire
  <2> DEFINE S == {typeToId[u] : u \in Walk(t)} \cap DOMAIN idToWire
  <2>1. S \in SUBSET TypeId /\ id \in S
    BY <1>2, <1>3, WalkSelf DEF DecTypes
  <2>2. ASSUME NEW j \in S, NEW k \in DOMAIN idToWire[j] PROVE idToWire[j][k] \in DOMAIN idToType \cup S
    <3>1. PICK u \in Walk(t) : typeToId[u] = j
      OBVIOUS
    <3>2. u \in Type /\ k \in DOMAIN Refs[u] /\ idToWire[j][k] = typeToId[Refs[u][k]]
      BY <1>5, <1>6, <3>1
    <3>3. Refs[u][k] \in Walk(t)
      BY <3>2, WalkClosed
    <3> QED
      BY <1>5, <3>2, <3>3 DEF Received
  <2>3. \A j \in S \cap DOMAIN idToWire : \A k \in DOMAIN idToWire[j] : idToWire[j][k] \in DOMAIN idToType \cup S
    BY <2>2
  <2>4. MakeType(id) \subseteq S
    <3> HIDE DEF S
    <3> QED
      BY <2>1, <2>3, MakeTypeLeast
  <2> QED
    BY <2>4
<1>9. \A u \in Walk(t) : typeToId[u] \in DOMAIN idToType \cup MakeType(id)
  <2> DEFINE S == {u \in Walk(t) : typeToId[u] \in DOMAIN idToType \cup MakeType(id)}
  <2>1. S \in SUBSET Type /\ t \in S
    <3>1. id \in MakeType(id)
      BY DEF MakeType
    <3> QED
      BY <1>3, <1>5, <3>1, WalkSelf
  <2>2. ASSUME NEW u \in S, NEW i \in DOMAIN Refs[u] PROVE Refs[u][i] \in S
    <3>1. Refs[u][i] \in Walk(t) /\ u \in Type
      BY <2>1, WalkClosed
    <3>2. CASE typeToId[u] \in DOMAIN idToType
      BY <1>7, <3>1, <3>2
    <3>3. CASE typeToId[u] \in MakeType(id)
      <4>1. PICK j \in MakeType(id) \cap DOMAIN idToWire : j = typeToId[u]
        BY <1>8, <3>3
      <4>2. i \in DOMAIN idToWire[j] /\ idToWire[j][i] = typeToId[Refs[u][i]] /\ idToWire[j][i] \in TypeId
        BY <1>6, <3>1, <4>1
      <4>3. idToWire[j][i] \in DOMAIN idToType \cup MakeType(id)
        BY <4>2, MakeTypeClosed
      <4> QED
        BY <3>1, <4>2, <4>3
    <3> QED
      BY <3>2, <3>3
  <2>3. Walk(t) \subseteq S
    <3> HIDE DEF S
    <3> QED
      BY <2>1, <2>2, WalkLeast
  <2> QED
    BY <2>3
<1> QED
  BY <1>1, <1>4, <1>8, <1>9

LEMMA BuildTypeInv ==
    ASSUME TypeStreamInv, NEW l \in Loop, BuildType(l), UNCHANGED encVars
    PROVE  TypeStreamInv'
<1> USE DEF TypeStreamInv
<1>1. lpc[l] = "build" /\ UNCHANGED <<derr, goroutineRunning, rres, rid, lmsg, wire, closed>>
  BY DEF BuildType, ctlVars, readVars, wireVars
<1>2. \A k \in Loop : k # l => lpc[k] = "dead"
  BY <1>1 DEF OneProcessLoop, DecTypes
<1>3. PICK id \in TypeId : id = lmsg[l].id
  BY <1>1 DEF DecTypes, TypeMsg
<1>4. PICK new : new = MakeType(id)
  OBVIOUS
<1>5. /\ new \subseteq DOMAIN idToWire
      /\ \A t, u \in Type : typeToId[t] = id /\ u \in Walk(t) => typeToId[u] \in DOMAIN idToType \cup new
  BY <1>1, <1>3, <1>4, MakeTypeFinds
<1>6. /\ idToType' = [i \in DOMAIN idToType \cup new |-> IF i \in new THEN idToWire[i] ELSE idToType[i]]
      /\ idToWire' = [i \in DOMAIN idToWire \ new |-> idToWire[i]]
      /\ lerr' = lerr /\ lpc' = [lpc EXCEPT ![l] = "report"]
  BY <1>3, <1>4, <1>5 DEF BuildType
<1>7. UNCHANGED <<typeToId, frames, pending>>
  BY DEF encVars
<1>8. DOMAIN idToWire \cap DOMAIN idToType = {}
  BY DEF Stream, OneMessage
<1>9. \A k \in Loop : lpc'[k] \in {"dead", "report"}
  BY <1>2, <1>6 DEF DecTypes
<1>10. DecTypes'
  BY <1>1, <1>5, <1>6 DEF DecTypes
<1>11. OneProcessLoop'
  BY <1>1, <1>6 DEF OneProcessLoop, DecTypes
<1>12. EofLast'
  BY <1>1, <1>6 DEF EofLast, Ended
<1>13. HandIds = {} /\ HandIds' = {} /\ Received' = Received
  <2>1. {k \in Loop : lpc[k] = "add"} = {} /\ {k \in Loop : lpc'[k] = "add"} = {}
    BY <1>1, <1>2, <1>9
  <2>2. DOMAIN idToType' = DOMAIN idToType \cup new /\ DOMAIN idToWire' = DOMAIN idToWire \ new
    BY <1>6
  <2> QED
    BY <1>5, <2>1, <2>2 DEF HandIds, Received
<1>14. Written' = Written
  BY <1>1, <1>13 DEF Written, WireIds
<1>15. \A i, refs : Defines(i, refs)' <=> Defines(i, refs)
  BY <1>7 DEF Defines, Says
<1>16. Contents'
  <2>1. \A k \in DOMAIN wire' : Defines(wire'[k].id, wire'[k].refs)
    BY <1>1 DEF Stream, Contents
  <2>2. \A i \in DOMAIN idToWire' : Defines(i, idToWire'[i])
    BY <1>6 DEF Stream, Contents
  <2>3. \A i \in DOMAIN idToType' : Defines(i, idToType'[i])
    BY <1>5, <1>6 DEF Stream, Contents
  <2> QED
    BY <1>9, <1>15, <2>1, <2>2, <2>3 DEF Contents
<1>17. OneMessage'
  <2>1. DOMAIN idToWire' \cap DOMAIN idToType' = {}
    BY <1>6, <1>8
  <2> QED
    BY <1>1, <1>7, <1>13, <1>14, <2>1 DEF Stream, OneMessage
<1>18. Accounted'
  BY <1>1, <1>7, <1>14 DEF Stream, Accounted, Assigned
<1>19. CompleteReady'
  <2>1. ASSUME NEW k \in DOMAIN wire', ~wire'[k].incomplete
        PROVE  Ready(wire[k], Received \cup HandIds \cup WireIds(k))'
    <3>1. Ready(wire[k], Received \cup HandIds \cup WireIds(k))
      BY <1>1, <2>1 DEF Stream, CompleteReady
    <3>2. WireIds(k)' = WireIds(k)
      BY <1>1 DEF WireIds
    <3> QED
      BY <1>1, <1>7, <1>13, <3>1, <3>2 DEF Ready
  <2> QED
    BY <1>9, <2>1 DEF CompleteReady
<1>20. BuiltClosed'
  <2> SUFFICES ASSUME NEW j \in DOMAIN idToType', NEW i \in DOMAIN idToType'[j]
               PROVE  idToType'[j][i] \in DOMAIN idToType \cup new
    BY <1>6 DEF BuiltClosed
  <2>1. CASE j \in new
    <3>1. j \in DOMAIN idToWire /\ idToType'[j] = idToWire[j]
      BY <1>5, <1>6, <2>1
    <3>2. idToWire[j] \in Seq(TypeId)
      BY <3>1 DEF Stream, Contents, Defines, Says
    <3>3. i \in DOMAIN idToWire[j] /\ idToWire[j][i] \in TypeId
      BY <3>1, <3>2
    <3>4. idToWire[j][i] \in DOMAIN idToType \cup new
      BY <1>4, <2>1, <3>1, <3>3, MakeTypeClosed
    <3> QED
      BY <3>1, <3>4
  <2>2. CASE j \notin new
    BY <1>6, <2>2 DEF Stream, BuiltClosed
  <2> QED
    BY <2>1, <2>2
<1>21. Covered'
  <2> SUFFICES ASSUME ~closed, NEW t \in Type, typeToId[t] \in Written \ (DOMAIN idToType \cup new)
               PROVE  \/ \E k \in DOMAIN wire : Covers(wire[k], t)
                      \/ frames # <<>> /\ t \in Walk(frames[Len(frames)].type)
    BY <1>1, <1>6, <1>7, <1>14 DEF Covered, Covers
  <2>1. \/ \E k \in DOMAIN wire : Covers(wire[k], t)
        \/ \E k \in Loop : lpc[k] \in {"add", "build"} /\ Covers(lmsg[k], t)
        \/ frames # <<>> /\ t \in Walk(frames[Len(frames)].type)
    BY DEF Stream, Covered
  <2>2. \A k \in Loop : lpc[k] \in {"add", "build"} => ~Covers(lmsg[k], t)
    BY <1>2, <1>3, <1>5 DEF Covers
  <2> QED
    BY <2>1, <2>2
<1> QED
  BY <1>10, <1>11, <1>12, <1>16, <1>17, <1>18, <1>19, <1>20, <1>21, EncoderQuiet DEF Stream
-----------------------------------------------------------------------------
LEMMA TypeStreamNext == TypeStreamInv /\ [Next]_vars => TypeStreamInv'
<1> SUFFICES ASSUME TypeStreamInv, [Next]_vars PROVE TypeStreamInv'
  OBVIOUS
<1>1. ASSUME NEW f \in Flow, NEW t \in Type, Encode(f, t) /\ UNCHANGED decVars PROVE TypeStreamInv'
  BY <1>1, EncodeInv
<1>2. ASSUME NEW f \in Flow, EncStep(f) /\ UNCHANGED decVars PROVE TypeStreamInv'
  BY <1>2, LockEncInv, EncodeKnownInv, EncodeNewInv, WriteWireTypeInv, WriteFailsInv, SendValueInv DEF EncStep
<1>3. CASE CloseWire /\ UNCHANGED <<encVars, decVars>>
  BY <1>3, CloseWireInv
<1>4. ASSUME NEW l \in Loop, (Start(l) \/ LoopStep(l)) /\ UNCHANGED encVars PROVE TypeStreamInv'
  BY <1>4, StartInv, CheckStopInv, ReadWireTypeInv, AddWireTypeInv, BuildTypeInv, ReportInv DEF LoopStep
<1>5. CASE Stop /\ UNCHANGED encVars
  BY <1>5, StopInv
<1>6. ASSUME NEW f \in Flow, (Lookup(f) \/ ReaderStep(f)) /\ UNCHANGED encVars PROVE TypeStreamInv'
  BY <1>6, LookupInv, LockBuildInv, FindInv, WaitOrGiveUpInv DEF ReaderStep
<1>7. CASE UNCHANGED vars
  <2>1. UNCHANGED encVars /\ UNCHANGED decVars /\ UNCHANGED wireVars
    BY <1>7 DEF vars
  <2>2. EofLast'
    BY <2>1 DEF TypeStreamInv, EofLast, Ended, decVars, wireVars
  <2>3. UNCHANGED <<idToType, idToWire, derr, ctlVars, lpc, lerr, lmsg, wire, closed>>
    BY <2>1 DEF decVars, wireVars, ctlVars
  <2> QED
    BY <2>1, <2>2, <2>3, ReaderQuiet DEF TypeStreamInv
<1> QED
  BY <1>1, <1>2, <1>3, <1>4, <1>5, <1>6, <1>7 DEF Next

LEMMA TypeStreamInvariant == Spec => []TypeStreamInv
BY TypeStreamInit, TypeStreamNext, PTL DEF Spec

(* Whatever the sequence of Start and Stop, there is never a second         *)
(* processLoop, on which the accesses of idToWire without buildMu rely.     *)
THEOREM OneLoop == Spec => []OneProcessLoop
<1>1. TypeStreamInv => OneProcessLoop
  BY DEF TypeStreamInv
<1> QED
  BY <1>1, TypeStreamInvariant, PTL

(* For any types, also cyclic ones, and any interleaving of flows:          *)
(* readSingleType never fails with a duplicate or an unknown type, and EOF  *)
(* is returned only for a type that did not arrive.  So the race of the     *)
(* TODO at type_encoder.go:80-82, flows that enter a cycle of types in      *)
(* different orders, is gone, for any cycle and any number of flows.        *)
THEOREM TypeStreamNoTypeError == Spec => []NoTypeError
<1>1. TypeStreamInv => NoTypeError
  BY DEF TypeStreamInv, NoTypeError, EofLast, Ended, DecTypes
<1> QED
  BY <1>1, TypeStreamInvariant, PTL

(* What buildType publishes is the type that was sent, with everything      *)
(* below it; and when all that was written has been processed nothing is    *)
(* left waiting in idToWire and every id can be looked up; this includes    *)
(* the flows and cycles of the TODO at type_encoder.go:80-82.               *)
THEOREM TypesBuiltWhole == Spec => []BuiltAreWhole
<1>1. ASSUME TypeStreamInv, NEW id \in DOMAIN idToType PROVE Whole(id)
  <2>1. PICK t \in Type : typeToId[t] = id /\ Says(idToType[id], t)
    BY <1>1 DEF TypeStreamInv, Stream, Contents, Defines
  <2>2. idToType[id] \in Seq(TypeId) /\ DOMAIN idToType[id] = DOMAIN Refs[t]
        /\ \A i \in DOMAIN Refs[t] : idToType[id][i] = typeToId[Refs[t][i]]
    BY <2>1 DEF Says
  <2>3. idToType[id] = [i \in DOMAIN Refs[t] |-> typeToId[Refs[t][i]]]
    BY <2>2
  <2> QED
    BY <1>1, <2>1, <2>3 DEF Whole, TypeStreamInv, Stream, BuiltClosed
<1>2. ASSUME TypeStreamInv, AllProcessed
      PROVE  /\ DOMAIN idToWire = {}
             /\ \A t \in Type : typeToId[t] # 0 => typeToId[t] \in DOMAIN idToType
  <2>1. wire = <<>> /\ ~closed /\ frames = <<>> /\ \A l \in Loop : lpc[l] \notin {"add", "build"}
    BY <1>2 DEF AllProcessed, TypeStreamInv, EncTypes
  <2>2. \A t \in Type : typeToId[t] \in Written => typeToId[t] \in DOMAIN idToType
    BY <1>2, <2>1 DEF TypeStreamInv, Stream, Covered
  <2>3. pending = {}
    BY <1>2, <2>1 DEF TypeStreamInv, Stack
  <2>4. \A t \in Type : typeToId[t] # 0 => typeToId[t] \in DOMAIN idToType
    BY <1>2, <2>1, <2>2, <2>3 DEF TypeStreamInv, Stream, Accounted, Assigned
  <2>5. ASSUME NEW id \in DOMAIN idToWire PROVE FALSE
    <3>1. id \in Written
      BY DEF Written, Received
    <3>2. PICK t \in Type : typeToId[t] = id
      BY <1>2, <3>1, WrittenIds
    <3> QED
      BY <1>2, <2>2, <3>1, <3>2 DEF TypeStreamInv, Stream, OneMessage
  <2> QED
    BY <2>4, <2>5
<1>3. TypeStreamInv => BuiltAreWhole
  BY <1>1, <1>2 DEF BuiltAreWhole
<1> QED
  BY <1>3, TypeStreamInvariant, PTL
=============================================================================
