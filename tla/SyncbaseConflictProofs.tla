----------------------- MODULE SyncbaseConflictProofs -----------------------
(***************************************************************************)
(* Proofs about conflict resolution: for any conflicts, any number of       *)
(* EnforceSchema calls and so of goroutines with a stream of their own, and *)
(* streams that break at any point.                                         *)
(***************************************************************************)
EXTENDS SyncbaseConflict, FiniteSetTheorems, TLAPS

(* The i-th row of conflict k on the stream; what c holds after n of them;  *)
(* the keys a resolution is about.                                          *)
Row(k, i) == [conflict |-> k, kind |-> Rows[k][i].kind, key |-> Rows[k][i].key, Continued |-> i < Len(Rows[k])]
Seen(k, n) == {<<k, Rows[k][i].kind, Rows[k][i].key>> : i \in 1 .. n}
WriteKeys(k) == {w.key : w \in {x \in Range(Rows[k]) : x.kind = "write"}}

ConflictRow == UNION {{Row(k, i) : i \in DOMAIN Rows[k]} : k \in Conflict}
AllKeys == UNION {WriteKeys(k) : k \in Conflict}
ResolutionRow == [key : AllKeys, Continued : BOOLEAN]

Keys(s) == {s[i].key : i \in DOMAIN s}

(* s is what is left of conflict k after n rows. *)
Rest(s, k, n) ==
    /\ s \in Seq(ConflictRow)
    /\ Len(s) = Len(Rows[k]) - n
    /\ \A i \in 1 .. Len(s) : s[i] = Row(k, n + i)

(* The places of a conversation about conflict k on a stream. *)
Arriving(g, k) ==
    /\ gpc[g] = "listen" /\ outbox[g] = <<>> /\ sacc[g] = {}
    /\ \E n \in 0 .. Len(Rows[k]) - 1 : Rest(inbox[g], k, n) /\ acc[g] = Seen(k, n)

Resolving(g, k) ==
    /\ gpc[g] = "resolve" /\ inbox[g] = <<>> /\ outbox[g] = <<>> /\ sacc[g] = {}
    /\ acc[g] = Seen(k, Len(Rows[k]))

Sending(g, k) ==
    /\ gpc[g] = "send" /\ inbox[g] = <<>> /\ toSend[g] # <<>>
    /\ sacc[g] \cup Keys(outbox[g]) \cup Range(toSend[g]) = WriteKeys(k)
    /\ \A i \in DOMAIN outbox[g] : outbox[g][i].Continued

Sent(g, k) ==
    /\ gpc[g] = "listen" /\ inbox[g] = <<>> /\ acc[g] = {} /\ outbox[g] # <<>>
    /\ sacc[g] \cup Keys(outbox[g]) = WriteKeys(k)
    /\ \A i \in DOMAIN outbox[g] : outbox[g][i].Continued <=> i < Len(outbox[g])

Quiet(g) ==
    /\ gpc[g] = "listen" /\ inbox[g] = <<>> /\ acc[g] = {} /\ outbox[g] = <<>>
    /\ sacc[g] = {} /\ waitingFor[g] = 0

Talking(g) ==
    /\ waitingFor[g] \in Conflict
    /\ \/ Arriving(g, waitingFor[g]) \/ Resolving(g, waitingFor[g])
       \/ Sending(g, waitingFor[g]) \/ Sent(g, waitingFor[g])

(* Without a stream nothing is under way in either direction. *)
Disconnected(g) ==
    /\ gpc[g] \notin {"listen", "resolve", "send"}
    /\ inbox[g] = <<>> /\ outbox[g] = <<>> /\ sacc[g] = {} /\ waitingFor[g] = 0

Conversation(g) == IF conn[g] = "none" THEN Disconnected(g) ELSE Quiet(g) \/ Talking(g)

GPlace == {"none", "connect", "listen", "resolve", "send", "check", "sleep", "ended"}

ConflictTypes ==
    /\ epc \in {"idle", "set", "start"} /\ enforced \in 0 .. MaxEnforce
    /\ gpc \in [Conn -> GPlace]
    /\ conn \in [Conn -> {"none", "open", "broken"}]
    /\ toSend \in [Conn -> Seq(AllKeys)] /\ outbox \in [Conn -> Seq(ResolutionRow)]
    /\ DOMAIN inbox = Conn /\ DOMAIN acc = Conn /\ DOMAIN sacc = Conn /\ DOMAIN waitingFor = Conn

(* The EnforceSchema that is about to start a goroutine is the first to use *)
(* its number.                                                              *)
FreshGoroutine ==
    /\ \A g \in Conn : g > enforced => gpc[g] = "none"
    /\ epc # "idle" => enforced \in Conn /\ gpc[enforced] = "none"

ConflictInv ==
    /\ ConflictTypes /\ FreshGoroutine /\ WholeResolutions
    /\ \A g \in Conn : Conversation(g)
-----------------------------------------------------------------------------
LEMMA RowsShape ==
    ASSUME NEW k \in Conflict
    PROVE  /\ Rows[k] \in Seq(Range(Rows[k]))
           /\ Len(Rows[k]) \in Nat \ {0} /\ DOMAIN Rows[k] = 1 .. Len(Rows[k])
<1>1. Rows[k] \in Seq(Range(Rows[k]))
  BY ConflictAssumption
<1>2. Len(Rows[k]) \in Nat /\ DOMAIN Rows[k] = 1 .. Len(Rows[k])
  BY <1>1
<1>3. \E i \in DOMAIN Rows[k] : Rows[k][i].kind = "write"
  BY ConflictAssumption
<1> QED
  BY <1>1, <1>2, <1>3

LEMMA OneOrMore ==
    ASSUME NEW n \in Nat \ {0}
    PROVE  /\ n > 1 <=> n # 1
           /\ 1 < n <=> n # 1
OBVIOUS

(* Every row but the last is marked. *)
LEMMA ContinuedMark ==
    ASSUME NEW k, NEW i
    PROVE  Row(k, i).Continued <=> i < Len(Rows[k])
<1> DEFINE b == i < Len(Rows[k])
<1>1. Row(k, i) = [conflict |-> k, kind |-> Rows[k][i].kind, key |-> Rows[k][i].key, Continued |-> b]
  BY DEF Row
<1> HIDE DEF b
<1>2. Row(k, i).Continued = b
  BY <1>1
<1> QED
  BY <1>2 DEF b

(* A conflict that is sent has all of its rows left. *)
LEMMA RestAll ==
    ASSUME NEW k \in Conflict, NEW s, s = [i \in DOMAIN Rows[k] |-> Row(k, i)]
    PROVE  Rest(s, k, 0)
<1> DEFINE n == Len(Rows[k])
<1>1. n \in Nat /\ DOMAIN Rows[k] = 1 .. n
  BY RowsShape
<1>2. \A i \in 1 .. n : Row(k, i) \in ConflictRow
  BY <1>1 DEF ConflictRow
<1> HIDE DEF n
<1>3. s \in [1 .. n -> ConflictRow]
  BY <1>1, <1>2
<1>4. s \in Seq(ConflictRow) /\ Len(s) = n
  BY <1>1, <1>3
<1>5. \A i \in 1 .. n : s[i] = Row(k, i)
  BY <1>1
<1>6. \A i \in 1 .. n : 0 + i = i
  BY <1>1
<1> QED
  BY <1>1, <1>4, <1>5, <1>6 DEF Rest, n

(* Advance takes the next row. *)
LEMMA RestTail ==
    ASSUME NEW k \in Conflict, NEW n \in 0 .. Len(Rows[k]) - 1, NEW s, Rest(s, k, n)
    PROVE  /\ s # <<>> /\ Head(s) = Row(k, n + 1)
           /\ Rest(Tail(s), k, n + 1)
<1>1. Len(Rows[k]) \in Nat /\ n \in Nat
  BY RowsShape
<1>2. s \in Seq(ConflictRow) /\ Len(s) = Len(Rows[k]) - n /\ \A i \in 1 .. Len(s) : s[i] = Row(k, n + i)
  BY DEF Rest
<1>3. s # <<>> /\ Len(s) > 0
  BY <1>1, <1>2
<1>4. Head(s) = Row(k, n + 1)
  BY <1>1, <1>2, <1>3
<1>5. Tail(s) \in Seq(ConflictRow) /\ Len(Tail(s)) = Len(s) - 1
  BY <1>2, <1>3
<1>6. ASSUME NEW i \in 1 .. Len(Tail(s)) PROVE Tail(s)[i] = Row(k, (n + 1) + i)
  <2>1. Tail(s)[i] = s[i + 1] /\ i + 1 \in 1 .. Len(s) /\ n + (i + 1) = (n + 1) + i
    BY <1>1, <1>2, <1>3, <1>5
  <2> QED
    BY <2>1, <1>2
<1>7. Len(Tail(s)) = Len(Rows[k]) - (n + 1)
  BY <1>1, <1>2, <1>5
<1> QED
  BY <1>3, <1>4, <1>5, <1>6, <1>7 DEF Rest

LEMMA RestNone ==
    ASSUME NEW k \in Conflict, NEW s, Rest(s, k, Len(Rows[k]))
    PROVE  s = <<>>
<1>1. s \in Seq(ConflictRow) /\ Len(s) = 0
  BY RowsShape DEF Rest
<1> QED
  BY <1>1

(* addRowToConflict adds the next row to those seen. *)
LEMMA SeenNext ==
    ASSUME NEW k \in Conflict, NEW n \in Nat
    PROVE  /\ Seen(k, 0) = {}
           /\ AddRow(Seen(k, n), Row(k, n + 1)) = Seen(k, n + 1)
<1>1. 1 .. (n + 1) = (1 .. n) \cup {n + 1}
  OBVIOUS
<1>2. AddRow(Seen(k, n), Row(k, n + 1)) = Seen(k, n) \cup {<<k, Rows[k][n + 1].kind, Rows[k][n + 1].key>>}
  BY DEF AddRow, Row
<1> QED
  BY <1>1, <1>2 DEF Seen

(* What OnConflict finds in the WriteSet of a whole conflict. *)
LEMMA SeenWrites ==
    ASSUME NEW k \in Conflict
    PROVE  {x[3] : x \in {y \in Seen(k, Len(Rows[k])) : y[2] = "write"}} = WriteKeys(k)
<1> DEFINE found == {y \in Seen(k, Len(Rows[k])) : y[2] = "write"}
<1>1. DOMAIN Rows[k] = 1 .. Len(Rows[k])
  BY RowsShape
<1>2. ASSUME NEW x \in found PROVE x[3] \in WriteKeys(k)
  <2>1. PICK i \in DOMAIN Rows[k] : x = <<k, Rows[k][i].kind, Rows[k][i].key>>
    BY <1>1 DEF Seen
  <2>2. x[2] = Rows[k][i].kind /\ x[3] = Rows[k][i].key
    BY <2>1
  <2>3. Rows[k][i] \in Range(Rows[k]) /\ Rows[k][i].kind = "write"
    BY <2>2 DEF Range
  <2> QED
    BY <2>2, <2>3 DEF WriteKeys
<1>3. ASSUME NEW w \in WriteKeys(k) PROVE \E x \in found : w = x[3]
  <2>1. PICK i \in DOMAIN Rows[k] : Rows[k][i].kind = "write" /\ w = Rows[k][i].key
    BY DEF WriteKeys, Range
  <2> DEFINE x == <<k, Rows[k][i].kind, Rows[k][i].key>>
  <2>2. x[2] = "write" /\ x[3] = w
    BY <2>1
  <2>3. x \in Seen(k, Len(Rows[k]))
    BY <1>1 DEF Seen
  <2> HIDE DEF x
  <2> QED
    BY <2>2, <2>3
<1> HIDE DEF found
<1>4. {x[3] : x \in found} = WriteKeys(k)
  BY <1>2, <1>3
<1> QED
  BY <1>4 DEF found

LEMMA WritesFinite ==
    ASSUME NEW k \in Conflict
    PROVE  IsFiniteSet(WriteKeys(k)) /\ WriteKeys(k) # {} /\ WriteKeys(k) \subseteq AllKeys
<1> DEFINE at == {i \in DOMAIN Rows[k] : Rows[k][i].kind = "write"}
           f == [i \in at |-> Rows[k][i].key]
<1>1. Len(Rows[k]) \in Nat /\ DOMAIN Rows[k] = 1 .. Len(Rows[k])
  BY RowsShape
<1>2. IsFiniteSet(1 .. Len(Rows[k]))
  <2>1. 1 \in Int /\ Len(Rows[k]) \in Int
    BY <1>1
  <2> QED
    BY <2>1, FS_Interval
<1>3. at \in SUBSET (1 .. Len(Rows[k]))
  BY <1>1
<1>4. IsFiniteSet(at)
  BY <1>2, <1>3, FS_Subset
<1>5. f \in [at -> WriteKeys(k)] /\ \A w \in WriteKeys(k) : \E i \in at : f[i] = w
  BY DEF WriteKeys, Range
<1>6. f \in Surjection(at, WriteKeys(k))
  BY <1>5 DEF Surjection
<1> HIDE DEF at, f
<1>7. IsFiniteSet(WriteKeys(k))
  BY <1>4, <1>6, FS_Surjection
<1>8. WriteKeys(k) # {}
  <2>1. PICK i \in DOMAIN Rows[k] : Rows[k][i].kind = "write"
    BY ConflictAssumption
  <2> QED
    BY <2>1 DEF WriteKeys, Range
<1>9. WriteKeys(k) \subseteq AllKeys
  BY DEF AllKeys
<1> QED
  BY <1>7, <1>8, <1>9

(* The order in which a Go map is gone through: every element, once. *)
LEMMA AnyOrder ==
    ASSUME NEW S, IsFiniteSet(S), NEW s \in SetToSeqs(S)
    PROVE  s \in Seq(S) /\ Range(s) = S
<1> DEFINE n == Cardinality(S)
<1>1. n \in Nat
  BY FS_CardinalityType
<1>2. s \in [1 .. n -> S] /\ \A i, j \in 1 .. n : i # j => s[i] # s[j]
  BY DEF SetToSeqs
<1>3. IsFiniteSet(1 .. n) /\ Cardinality(1 .. n) = n
  <2>1. n \in Int /\ 1 \in Int /\ (IF 1 > n THEN 0 ELSE n - 1 + 1) = n
    BY <1>1
  <2> HIDE DEF n
  <2> QED
    BY <2>1, FS_Interval
<1> HIDE DEF n
<1>4. s \in Injection(1 .. n, S)
  BY <1>2 DEF Injection, IsInjective
<1>5. s \in Surjection(1 .. n, S)
  BY <1>3, <1>4, FS_Injection DEF n
<1>6. s \in Seq(S)
  BY <1>1, <1>2
<1>7. Range(s) = S
  BY <1>2, <1>5 DEF Surjection, Range
<1> QED
  BY <1>6, <1>7

LEMMA RangeTail ==
    ASSUME NEW S, NEW s \in Seq(S), s # <<>>
    PROVE  /\ Head(s) \in S /\ Tail(s) \in Seq(S)
           /\ Range(s) = {Head(s)} \cup Range(Tail(s))
           /\ Len(s) = 1 <=> Tail(s) = <<>>
           /\ Len(s) = 1 => Range(s) = {Head(s)}
<1>1. Len(s) \in Nat \ {0} /\ DOMAIN s = 1 .. Len(s)
  OBVIOUS
<1>2. /\ Head(s) = s[1] /\ Head(s) \in S /\ Tail(s) \in Seq(S)
      /\ Len(Tail(s)) = Len(s) - 1 /\ DOMAIN Tail(s) = 1 .. Len(s) - 1
      /\ \A i \in 1 .. Len(s) - 1 : Tail(s)[i] = s[i + 1]
  BY <1>1
<1>3. ASSUME NEW x \in Range(s) PROVE x \in {Head(s)} \cup Range(Tail(s))
  <2>1. PICK i \in 1 .. Len(s) : x = s[i]
    BY <1>1 DEF Range
  <2>2. CASE i = 1
    BY <2>1, <2>2, <1>2
  <2>3. CASE i # 1
    <3>1. i - 1 \in 1 .. Len(s) - 1 /\ (i - 1) + 1 = i
      BY <2>3, <1>1
    <3>2. Tail(s)[i - 1] = x
      BY <3>1, <2>1, <1>2
    <3> QED
      BY <3>1, <3>2, <1>2 DEF Range
  <2> QED
    BY <2>2, <2>3
<1>4. ASSUME NEW x \in Range(Tail(s)) PROVE x \in Range(s)
  <2>1. PICK i \in 1 .. Len(s) - 1 : x = Tail(s)[i]
    BY <1>2 DEF Range
  <2>2. i + 1 \in 1 .. Len(s) /\ x = s[i + 1]
    BY <2>1, <1>1, <1>2
  <2> QED
    BY <2>2, <1>1 DEF Range
<1>5. Head(s) \in Range(s)
  BY <1>1, <1>2 DEF Range
<1>6. Len(s) = 1 <=> Tail(s) = <<>>
  <2>0. Len(Tail(s)) = Len(s) - 1 /\ Len(s) \in Nat
    BY <1>1, <1>2
  <2>1. Len(s) = 1 => Len(Tail(s)) = 0
    BY <2>0
  <2>2. \A t \in Seq(S) : Len(t) = 0 <=> t = <<>>
    OBVIOUS
  <2>3. Len(Tail(s)) = 0 => Len(s) = 1
    <3> DEFINE n == Len(s)
               t == Len(Tail(s))
    <3>1. t = n - 1 /\ n \in Nat
      BY <2>0
    <3> HIDE DEF n, t
    <3>2. t = 0 => n = 1
      BY <3>1
    <3> QED
      BY <3>2 DEF n, t
  <2> QED
    BY <1>2, <2>1, <2>2, <2>3
<1>7. Len(s) = 1 => Range(Tail(s)) = {}
  BY <1>6 DEF Range
<1> QED
  BY <1>2, <1>3, <1>4, <1>5, <1>6, <1>7

LEMMA KeysTail ==
    ASSUME NEW s \in Seq(ResolutionRow), s # <<>>
    PROVE  /\ Keys(s) = {Head(s).key} \cup Keys(Tail(s))
           /\ Len(s) = 1 => Keys(s) = {Head(s).key}
<1>1. Range(s) = {Head(s)} \cup Range(Tail(s)) /\ (Len(s) = 1 => Range(s) = {Head(s)})
  BY RangeTail
<1>2. Keys(s) = {r.key : r \in Range(s)} /\ Keys(Tail(s)) = {r.key : r \in Range(Tail(s))}
  BY DEF Keys, Range
<1>3. Keys(s) = {Head(s).key} \cup Keys(Tail(s))
  BY <1>1, <1>2
<1>4. Len(s) = 1 => Keys(s) = {Head(s).key}
  BY <1>1, <1>2
<1> QED
  BY <1>3, <1>4

LEMMA KeysAppend ==
    ASSUME NEW s \in Seq(ResolutionRow), NEW r \in ResolutionRow
    PROVE  /\ Keys(Append(s, r)) = Keys(s) \cup {r.key}
           /\ Append(s, r) \in Seq(ResolutionRow) /\ Append(s, r) # <<>>
           /\ Len(Append(s, r)) = Len(s) + 1 /\ DOMAIN Append(s, r) = 1 .. Len(s) + 1
           /\ \A i \in 1 .. Len(s) : Append(s, r)[i] = s[i]
           /\ Append(s, r)[Len(s) + 1] = r
<1> DEFINE t == Append(s, r)
<1>1. Len(s) \in Nat /\ DOMAIN s = 1 .. Len(s)
  OBVIOUS
<1>2. /\ t \in Seq(ResolutionRow) /\ Len(t) = Len(s) + 1 /\ DOMAIN t = 1 .. Len(s) + 1
      /\ \A i \in 1 .. Len(s) : t[i] = s[i]
      /\ t[Len(s) + 1] = r
  BY <1>1
<1> HIDE DEF t
<1>3. \A i \in 1 .. Len(s) + 1 : i \in 1 .. Len(s) \/ i = Len(s) + 1
  BY <1>1
<1>4. 1 .. Len(s) \subseteq 1 .. Len(s) + 1 /\ Len(s) + 1 \in 1 .. Len(s) + 1
  BY <1>1
<1>5. Keys(t) = Keys(s) \cup {r.key}
  BY <1>1, <1>2, <1>3, <1>4 DEF Keys
<1>6. t # <<>>
  BY <1>1, <1>2
<1> QED
  BY <1>2, <1>5, <1>6 DEF t
-----------------------------------------------------------------------------
LEMMA ConflictInit == Init => ConflictInv
<1> SUFFICES ASSUME Init PROVE ConflictInv
  OBVIOUS
<1> USE ConflictAssumption DEF Init
<1>1. ConflictTypes
  <2>1. <<>> \in Seq(AllKeys) /\ <<>> \in Seq(ResolutionRow)
    OBVIOUS
  <2>2. 0 \in 0 .. MaxEnforce
    OBVIOUS
  <2> QED
    BY <2>1, <2>2 DEF ConflictTypes, GPlace
<1>2. FreshGoroutine /\ WholeResolutions
  BY DEF FreshGoroutine, WholeResolutions
<1>3. \A g \in Conn : Conversation(g)
  BY DEF Conversation, Disconnected
<1> QED
  BY <1>1, <1>2, <1>3 DEF ConflictInv

(* A step that does not concern the goroutine h or its stream. *)
SameFor(h) ==
    /\ gpc'[h] = gpc[h] /\ conn'[h] = conn[h] /\ inbox'[h] = inbox[h] /\ acc'[h] = acc[h]
    /\ toSend'[h] = toSend[h] /\ outbox'[h] = outbox[h] /\ sacc'[h] = sacc[h]
    /\ waitingFor'[h] = waitingFor[h]

LEMMA SameConversation ==
    ASSUME NEW h \in Conn, Conversation(h), SameFor(h)
    PROVE  Conversation(h)'
<1>1. CASE conn[h] = "none"
  BY <1>1 DEF SameFor, Conversation, Disconnected
<1>2. CASE conn[h] # "none" /\ Quiet(h)
  BY <1>2 DEF SameFor, Conversation, Quiet
<1>3. CASE conn[h] # "none" /\ Talking(h)
  <2> DEFINE k == waitingFor[h]
  <2>1. waitingFor'[h] = k /\ conn'[h] # "none" /\ k \in Conflict
    BY <1>3 DEF SameFor, Talking
  <2>2. CASE Arriving(h, k)
    BY <2>1, <2>2 DEF SameFor, Conversation, Talking, Arriving
  <2>3. CASE Resolving(h, k)
    BY <2>1, <2>3 DEF SameFor, Conversation, Talking, Resolving
  <2>4. CASE Sending(h, k)
    BY <2>1, <2>4 DEF SameFor, Conversation, Talking, Sending
  <2>5. CASE Sent(h, k)
    BY <2>1, <2>5 DEF SameFor, Conversation, Talking, Sent
  <2> QED
    BY <1>3, <2>2, <2>3, <2>4, <2>5 DEF Talking
<1> QED
  BY <1>1, <1>2, <1>3 DEF Conversation

LEMMA OthersTalkOn ==
    ASSUME ConflictInv, NEW g \in Conn, \A h \in Conn \ {g} : SameFor(h), Conversation(g)'
    PROVE  \A h \in Conn : Conversation(h)'
BY SameConversation DEF ConflictInv

(* EnforceSchema before it starts the goroutine, the other handle, Close    *)
(* and the application's cancel do not touch a conversation.                *)
LEMMA ApplicationInv ==
    ASSUME ConflictInv,
           GetSchemaMetadata \/ SetSchemaMetadata \/ OtherSetsMetadata \/ Close
             \/ \E g \in Conn : CancelContext(g)
    PROVE  ConflictInv'
<1> USE ConflictAssumption
<1>1. /\ gpc' = gpc /\ acc' = acc /\ toSend' = toSend /\ conn' = conn /\ inbox' = inbox
      /\ outbox' = outbox /\ sacc' = sacc /\ waitingFor' = waitingFor /\ resolved' = resolved
  BY DEF GetSchemaMetadata, SetSchemaMetadata, OtherSetsMetadata, Close, CancelContext, clientVars, serverVars
<1>2. \/ epc' \in {"idle", "set", "start"} /\ epc = "idle" /\ enforced < MaxEnforce /\ enforced' = enforced + 1
      \/ epc' \in {"idle", "start"} /\ epc = "set" /\ enforced' = enforced
      \/ epc' = epc /\ enforced' = enforced
  BY DEF GetSchemaMetadata, SetSchemaMetadata, OtherSetsMetadata, Close, CancelContext, schemaVars
<1>3. ConflictTypes'
  BY <1>1, <1>2 DEF ConflictInv, ConflictTypes
<1>4. FreshGoroutine'
  BY <1>1, <1>2 DEF ConflictInv, ConflictTypes, FreshGoroutine, Conn
<1>5. WholeResolutions'
  BY <1>1 DEF ConflictInv, WholeResolutions
<1>6. ASSUME NEW g \in Conn PROVE Conversation(g)'
  BY <1>1, SameConversation DEF ConflictInv, SameFor
<1> QED
  BY <1>3, <1>4, <1>5, <1>6 DEF ConflictInv

(* EnforceSchema starts a goroutine that has not run before. *)
LEMMA StartResolutionInv ==
    ASSUME ConflictInv, StartResolution
    PROVE  ConflictInv'
<1> USE ConflictAssumption
<1>1. /\ acc' = acc /\ toSend' = toSend /\ conn' = conn /\ inbox' = inbox
      /\ outbox' = outbox /\ sacc' = sacc /\ waitingFor' = waitingFor /\ resolved' = resolved
      /\ epc' = "idle" /\ enforced' = enforced
      /\ gpc' = gpc \/ gpc' = [gpc EXCEPT ![enforced] = "connect"]
  BY DEF StartResolution, serverVars
<1>2. PICK g \in Conn : g = enforced /\ gpc[g] = "none" /\ enforced \in Nat
  BY DEF ConflictInv, ConflictTypes, FreshGoroutine, StartResolution
<1>3. ConflictTypes'
  BY <1>1 DEF ConflictInv, ConflictTypes, GPlace
<1>4. FreshGoroutine'
  BY <1>1, <1>2 DEF ConflictInv, ConflictTypes, FreshGoroutine, Conn
<1>5. WholeResolutions'
  BY <1>1 DEF ConflictInv, WholeResolutions
<1>6. \A h \in Conn \ {g} : SameFor(h)
  BY <1>1, <1>2 DEF ConflictInv, ConflictTypes, SameFor
<1>7. conn[g] = "none"
  BY <1>2 DEF ConflictInv, Conversation, Quiet, Talking, Arriving, Resolving, Sending, Sent
<1>8. gpc'[g] \in {"none", "connect"}
  BY <1>1, <1>2 DEF ConflictInv, ConflictTypes
<1>9. Conversation(g)'
  BY <1>1, <1>2, <1>7, <1>8 DEF ConflictInv, Conversation, Disconnected
<1>10. \A h \in Conn : Conversation(h)'
  BY <1>6, <1>9, OthersTalkOn
<1> QED
  BY <1>3, <1>4, <1>5, <1>10 DEF ConflictInv

(* What the steps of a goroutine have in common. *)
LEMMA GoroutineStep ==
    ASSUME ConflictInv, NEW g \in Conn, gpc[g] # "none", gpc'[g] # "none",
           epc' = epc, enforced' = enforced,
           \A h \in Conn \ {g} : SameFor(h), Conversation(g)', ConflictTypes', WholeResolutions'
    PROVE  ConflictInv'
<1>1. \A h \in Conn : Conversation(h)'
  BY OthersTalkOn
<1>2. FreshGoroutine'
  BY DEF ConflictInv, FreshGoroutine, SameFor
<1> QED
  BY <1>1, <1>2 DEF ConflictInv

(* The goroutine has no stream: it connects, fails to, sleeps or ends. *)
LEMMA ConnectInv ==
    ASSUME ConflictInv, NEW g \in Conn, Connect(g) \/ CheckDisconnected(g) \/ Wake(g)
    PROVE  ConflictInv'
<1>1. /\ toSend' = toSend /\ inbox' = inbox /\ epc' = epc /\ enforced' = enforced
      /\ outbox' = outbox /\ sacc' = sacc /\ waitingFor' = waitingFor /\ resolved' = resolved
  BY DEF Connect, CheckDisconnected, Wake, serverVars, schemaVars
<1>2. gpc[g] \in {"connect", "check", "sleep"}
  BY DEF Connect, CheckDisconnected, Wake
<1>3. \/ /\ conn' = [conn EXCEPT ![g] = "open"] /\ acc' = [acc EXCEPT ![g] = {}]
         /\ gpc' = [gpc EXCEPT ![g] = "listen"]
      \/ /\ conn' = conn /\ acc' = acc
         /\ \E l \in {"check", "ended", "sleep", "connect"} : gpc' = [gpc EXCEPT ![g] = l]
  BY DEF Connect, CheckDisconnected, Wake
<1>4. conn[g] = "none" /\ Disconnected(g)
  BY <1>2 DEF ConflictInv, Conversation, Quiet, Talking, Arriving, Resolving, Sending, Sent
<1>5. ConflictTypes'
  BY <1>1, <1>3 DEF ConflictInv, ConflictTypes, GPlace
<1>6. \A h \in Conn \ {g} : SameFor(h)
  BY <1>1, <1>3 DEF ConflictInv, ConflictTypes, SameFor
<1>7. Conversation(g)' /\ gpc'[g] # "none"
  <2>1. CASE conn' = [conn EXCEPT ![g] = "open"] /\ acc' = [acc EXCEPT ![g] = {}] /\ gpc' = [gpc EXCEPT ![g] = "listen"]
    BY <2>1, <1>1, <1>4 DEF ConflictInv, ConflictTypes, Conversation, Disconnected, Quiet
  <2>2. CASE conn' = conn /\ \E l \in {"check", "ended", "sleep", "connect"} : gpc' = [gpc EXCEPT ![g] = l]
    BY <2>2, <1>1, <1>4 DEF ConflictInv, ConflictTypes, Conversation, Disconnected
  <2> QED
    BY <2>1, <2>2, <1>3
<1>8. WholeResolutions'
  BY <1>1 DEF ConflictInv, WholeResolutions
<1> QED
  BY <1>1, <1>2, <1>5, <1>6, <1>7, <1>8, GoroutineStep

(* The stream is over: both ends forget what they had of it. *)
LEMMA StreamEndedInv ==
    ASSUME ConflictInv, NEW g \in Conn, StreamEnded(g)
    PROVE  ConflictInv'
<1>1. /\ epc' = epc /\ enforced' = enforced /\ resolved' = resolved /\ acc' = acc
      /\ gpc[g] # "none" /\ gpc' = [gpc EXCEPT ![g] = "check"]
      /\ conn' = [conn EXCEPT ![g] = "none"]
      /\ inbox' = [inbox EXCEPT ![g] = <<>>] /\ outbox' = [outbox EXCEPT ![g] = <<>>]
      /\ toSend' = [toSend EXCEPT ![g] = <<>>]
      /\ sacc' = [sacc EXCEPT ![g] = {}] /\ waitingFor' = [waitingFor EXCEPT ![g] = 0]
  BY DEF StreamEnded, schemaVars
<1>2. ConflictTypes'
  <2>1. <<>> \in Seq(AllKeys) /\ <<>> \in Seq(ResolutionRow)
    OBVIOUS
  <2> QED
    BY <1>1, <2>1 DEF ConflictInv, ConflictTypes, GPlace
<1>3. \A h \in Conn \ {g} : SameFor(h)
  BY <1>1 DEF ConflictInv, ConflictTypes, SameFor
<1>4. Conversation(g)' /\ gpc'[g] = "check"
  BY <1>1 DEF ConflictInv, ConflictTypes, Conversation, Disconnected
<1>5. WholeResolutions'
  BY <1>1 DEF ConflictInv, WholeResolutions
<1> QED
  BY <1>1, <1>2, <1>3, <1>4, <1>5, GoroutineStep

(* A row of a conflict arrives: there are more, or it is whole. *)
LEMMA RecvRowInv ==
    ASSUME ConflictInv, NEW g \in Conn, RecvRow(g)
    PROVE  ConflictInv'
<1> DEFINE k == waitingFor[g]
           row == Head(inbox[g])
<1>1. /\ epc' = epc /\ enforced' = enforced /\ resolved' = resolved
      /\ toSend' = toSend /\ conn' = conn /\ outbox' = outbox /\ sacc' = sacc /\ waitingFor' = waitingFor
      /\ gpc[g] = "listen" /\ conn[g] = "open" /\ inbox[g] # <<>>
      /\ acc' = [acc EXCEPT ![g] = AddRow(@, row)]
      /\ gpc' = [gpc EXCEPT ![g] = IF row.Continued THEN "listen" ELSE "resolve"]
      /\ inbox' = [inbox EXCEPT ![g] = Tail(@)]
  BY DEF RecvRow, schemaVars, serverVars
<1>2. k \in Conflict /\ Arriving(g, k)
  BY <1>1 DEF ConflictInv, Conversation, Quiet, Talking, Resolving, Sending, Sent
<1>3. PICK n \in 0 .. Len(Rows[k]) - 1 : Rest(inbox[g], k, n) /\ acc[g] = Seen(k, n)
  BY <1>2 DEF Arriving
<1>4. Len(Rows[k]) \in Nat /\ n \in Nat /\ n + 1 <= Len(Rows[k])
  BY <1>2, RowsShape
<1>5. row = Row(k, n + 1) /\ Rest(Tail(inbox[g]), k, n + 1)
  BY <1>2, <1>3, RestTail
<1>6. AddRow(acc[g], row) = Seen(k, n + 1)
  BY <1>2, <1>3, <1>4, <1>5, SeenNext
<1>7. row.Continued <=> n + 1 < Len(Rows[k])
  <2>1. Row(k, n + 1).Continued <=> n + 1 < Len(Rows[k])
    BY ContinuedMark
  <2> HIDE DEF row, k
  <2> QED
    BY <2>1, <1>5
<1>a. /\ acc'[g] = Seen(k, n + 1) /\ inbox'[g] = Tail(inbox[g])
      /\ gpc'[g] = IF n + 1 < Len(Rows[k]) THEN "listen" ELSE "resolve"
      /\ outbox'[g] = <<>> /\ sacc'[g] = {} /\ waitingFor'[g] = k /\ conn'[g] = "open"
  BY <1>1, <1>2, <1>6, <1>7 DEF ConflictInv, ConflictTypes, Arriving
<1>8. ConflictTypes'
  BY <1>1 DEF ConflictInv, ConflictTypes, GPlace
<1>9. \A h \in Conn \ {g} : SameFor(h)
  BY <1>1 DEF ConflictInv, ConflictTypes, SameFor
<1>10. Conversation(g)'
  <2>1. CASE n + 1 < Len(Rows[k])
    <3>1. n + 1 \in 0 .. Len(Rows[k]) - 1
      BY <2>1, <1>4
    <3>2. Arriving(g, k)'
      BY <3>1, <2>1, <1>5, <1>a DEF Arriving
    <3> QED
      BY <3>2, <1>2, <1>a DEF Conversation, Talking
  <2>2. CASE ~(n + 1 < Len(Rows[k]))
    <3>1. n + 1 = Len(Rows[k])
      BY <2>2, <1>4
    <3>2. inbox'[g] = <<>>
      BY <3>1, <1>2, <1>5, <1>a, RestNone
    <3>3. Resolving(g, k)'
      BY <3>1, <3>2, <2>2, <1>a DEF Resolving
    <3> QED
      BY <3>3, <1>2, <1>a DEF Conversation, Talking
  <2> QED
    BY <2>1, <2>2
<1>11. WholeResolutions'
  BY <1>1 DEF ConflictInv, WholeResolutions
<1>12. gpc'[g] # "none"
  BY <1>a
<1> QED
  BY <1>1, <1>8, <1>9, <1>10, <1>11, <1>12, GoroutineStep

(* The application resolves the conflict it was given. *)
LEMMA OnConflictInv ==
    ASSUME ConflictInv, NEW g \in Conn, OnConflict(g)
    PROVE  ConflictInv'
<1> DEFINE k == waitingFor[g]
           keys == {x[3] : x \in {y \in acc[g] : y[2] = "write"}}
<1>1. /\ epc' = epc /\ enforced' = enforced /\ resolved' = resolved /\ acc' = acc /\ inbox' = inbox
      /\ conn' = conn /\ outbox' = outbox /\ sacc' = sacc /\ waitingFor' = waitingFor
      /\ gpc[g] = "resolve" /\ gpc' = [gpc EXCEPT ![g] = "send"]
      /\ \E s \in SetToSeqs(keys) : toSend' = [toSend EXCEPT ![g] = s]
  BY DEF OnConflict, schemaVars, serverVars
<1>2. k \in Conflict /\ Resolving(g, k) /\ conn[g] # "none"
  BY <1>1 DEF ConflictInv, Conversation, Disconnected, Quiet, Talking, Arriving, Sending, Sent
<1>3. keys = WriteKeys(k)
  <2>1. acc[g] = Seen(k, Len(Rows[k]))
    BY <1>2 DEF Resolving
  <2> QED
    BY <2>1, <1>2, SeenWrites
<1> HIDE DEF keys
<1>4. PICK s \in SetToSeqs(keys) : toSend' = [toSend EXCEPT ![g] = s]
  BY <1>1
<1>5. /\ IsFiniteSet(WriteKeys(k)) /\ WriteKeys(k) # {} /\ WriteKeys(k) \subseteq AllKeys
  BY <1>2, WritesFinite
<1>6. s \in Seq(WriteKeys(k)) /\ Range(s) = WriteKeys(k)
  BY <1>3, <1>4, <1>5, AnyOrder
<1>7. s \in Seq(AllKeys) /\ s # <<>>
  BY <1>5, <1>6 DEF Range
<1>a. toSend'[g] = s /\ gpc'[g] = "send"
  BY <1>1, <1>4 DEF ConflictInv, ConflictTypes
<1>8. ConflictTypes'
  BY <1>1, <1>4, <1>7 DEF ConflictInv, ConflictTypes, GPlace
<1>9. \A h \in Conn \ {g} : SameFor(h)
  BY <1>1, <1>4 DEF ConflictInv, ConflictTypes, SameFor
<1>10. Keys(<<>>) = {}
  BY DEF Keys
<1>11. Sending(g, k)'
  BY <1>a, <1>1, <1>2, <1>6, <1>7, <1>10 DEF Sending, Resolving
<1>12. Conversation(g)'
  BY <1>11, <1>1, <1>2 DEF Conversation, Talking
<1>13. WholeResolutions'
  BY <1>1 DEF ConflictInv, WholeResolutions
<1> QED
  BY <1>1, <1>a, <1>8, <1>9, <1>12, <1>13, GoroutineStep

(* A row of the resolution is sent; the last one is not marked Continued. *)
LEMMA SendRowInv ==
    ASSUME ConflictInv, NEW g \in Conn, SendRow(g)
    PROVE  ConflictInv'
<1> DEFINE k == waitingFor[g]
           s == toSend[g]
           o == outbox[g]
           r == [key |-> Head(s), Continued |-> Continued(s)]
<1>1. /\ epc' = epc /\ enforced' = enforced /\ resolved' = resolved /\ inbox' = inbox
      /\ conn' = conn /\ sacc' = sacc /\ waitingFor' = waitingFor
      /\ gpc[g] = "send" /\ conn[g] = "open"
      /\ outbox' = [outbox EXCEPT ![g] = Append(o, r)]
      /\ toSend' = [toSend EXCEPT ![g] = Tail(s)]
      /\ IF Len(s) = 1
         THEN gpc' = [gpc EXCEPT ![g] = "listen"] /\ acc' = [acc EXCEPT ![g] = {}]
         ELSE gpc' = gpc /\ acc' = acc
  BY DEF SendRow, schemaVars, ConflictInv, ConflictTypes
<1>2. k \in Conflict /\ Sending(g, k)
  BY <1>1 DEF ConflictInv, Conversation, Disconnected, Quiet, Talking, Arriving, Resolving, Sent
<1>3. s \in Seq(AllKeys) /\ o \in Seq(ResolutionRow) /\ s # <<>> /\ Len(s) \in Nat \ {0} /\ Len(o) \in Nat
  BY <1>2 DEF ConflictInv, ConflictTypes, Sending
<1>4. /\ Head(s) \in AllKeys /\ Tail(s) \in Seq(AllKeys)
      /\ Range(s) = {Head(s)} \cup Range(Tail(s))
      /\ Len(s) = 1 <=> Tail(s) = <<>>
      /\ Len(s) = 1 => Range(s) = {Head(s)}
  BY <1>3, RangeTail
<1>5. r \in ResolutionRow /\ r.key = Head(s) /\ (r.Continued <=> Len(s) # 1)
  <2>1. Continued(s) <=> Len(s) # 1
    BY <1>3, OneOrMore DEF Continued
  <2>2. PICK b \in BOOLEAN : b = Continued(s)
    <3>1. CASE Len(s) # 1
      <4>1. TRUE = Continued(s)
        BY <3>1, <2>1 DEF Continued
      <4> QED
        BY <4>1
    <3>2. CASE Len(s) = 1
      <4>1. FALSE = Continued(s)
        BY <3>2, <2>1 DEF Continued
      <4> QED
        BY <4>1
    <3> QED
      BY <3>1, <3>2
  <2>3. r = [key |-> Head(s), Continued |-> b]
    BY <2>2
  <2>4. r \in ResolutionRow /\ r.key = Head(s) /\ r.Continued = b
    BY <2>3, <1>4 DEF ResolutionRow
  <2> HIDE DEF r
  <2> QED
    BY <2>1, <2>2, <2>4
<1>6. /\ Keys(Append(o, r)) = Keys(o) \cup {Head(s)}
      /\ Append(o, r) \in Seq(ResolutionRow) /\ Append(o, r) # <<>>
      /\ Len(Append(o, r)) = Len(o) + 1 /\ DOMAIN Append(o, r) = 1 .. Len(o) + 1
      /\ \A i \in 1 .. Len(o) : Append(o, r)[i] = o[i]
      /\ Append(o, r)[Len(o) + 1] = r
  <2> HIDE DEF r
  <2> QED
    BY <1>3, <1>5, KeysAppend
<1> HIDE DEF r
<1>a. outbox'[g] = Append(o, r) /\ toSend'[g] = Tail(s)
  BY <1>1 DEF ConflictInv, ConflictTypes
<1>7. ConflictTypes'
  BY <1>1, <1>4, <1>6 DEF ConflictInv, ConflictTypes, GPlace
<1>8. \A h \in Conn \ {g} : SameFor(h)
  BY <1>1 DEF ConflictInv, ConflictTypes, SameFor
<1>9. /\ inbox[g] = <<>> /\ sacc[g] \cup Keys(o) \cup Range(s) = WriteKeys(k)
      /\ \A i \in 1 .. Len(o) : o[i].Continued
  BY <1>2, <1>3 DEF Sending
<1>10. Conversation(g)' /\ gpc'[g] # "none"
  <2>1. CASE Len(s) = 1
    <3>1. gpc'[g] = "listen" /\ acc'[g] = {}
      BY <2>1, <1>1 DEF ConflictInv, ConflictTypes
    <3>2. sacc'[g] \cup Keys(outbox'[g]) = WriteKeys(k)
      BY <2>1, <1>1, <1>a, <1>4, <1>6, <1>9
    <3>3. \A i \in DOMAIN outbox'[g] : outbox'[g][i].Continued <=> i < Len(outbox'[g])
      <4>1. \A i \in 1 .. Len(o) + 1 : (i \in 1 .. Len(o) /\ i < Len(o) + 1) \/ (i = Len(o) + 1 /\ ~(i < Len(o) + 1))
        BY <1>3
      <4> QED
        BY <4>1, <2>1, <1>a, <1>5, <1>6, <1>9
    <3>4. Sent(g, k)'
      BY <3>1, <3>2, <3>3, <1>1, <1>a, <1>6, <1>9 DEF Sent
    <3> QED
      BY <3>1, <3>4, <1>1, <1>2 DEF Conversation, Talking
  <2>2. CASE Len(s) # 1
    <3>1. gpc'[g] = "send" /\ toSend'[g] # <<>>
      BY <2>2, <1>1, <1>a, <1>4
    <3>2. sacc'[g] \cup Keys(outbox'[g]) \cup Range(toSend'[g]) = WriteKeys(k)
      BY <1>1, <1>a, <1>4, <1>6, <1>9
    <3>3. \A i \in DOMAIN outbox'[g] : outbox'[g][i].Continued
      <4>1. \A i \in 1 .. Len(o) + 1 : i \in 1 .. Len(o) \/ i = Len(o) + 1
        BY <1>3
      <4> QED
        BY <4>1, <2>2, <1>a, <1>5, <1>6, <1>9
    <3>4. Sending(g, k)'
      BY <3>1, <3>2, <3>3, <1>1, <1>9 DEF Sending
    <3> QED
      BY <3>1, <3>4, <1>1, <1>2 DEF Conversation, Talking
  <2> QED
    BY <2>1, <2>2
<1>11. WholeResolutions'
  BY <1>1 DEF ConflictInv, WholeResolutions
<1> QED
  BY <1>1, <1>7, <1>8, <1>10, <1>11, GoroutineStep

(* Syncbase sends a conflict on a stream on which nothing is under way. *)
LEMMA ServerSendsInv ==
    ASSUME ConflictInv, NEW g \in Conn, NEW k \in Conflict, ServerSends(g, k)
    PROVE  ConflictInv'
<1> DEFINE s == [i \in DOMAIN Rows[k] |-> Row(k, i)]
<1>1. /\ epc' = epc /\ enforced' = enforced /\ resolved' = resolved /\ conn' = conn
      /\ gpc' = gpc /\ acc' = acc /\ toSend' = toSend /\ outbox' = outbox /\ sacc' = sacc
      /\ conn[g] = "open" /\ waitingFor[g] = 0
      /\ waitingFor' = [waitingFor EXCEPT ![g] = k]
      /\ inbox' = [inbox EXCEPT ![g] = s]
  BY DEF ServerSends, schemaVars, clientVars, Row
<1>2. Rest(s, k, 0)
  BY RestAll
<1> HIDE DEF s
<1>3. Quiet(g)
  BY <1>1, ConflictAssumption DEF ConflictInv, Conversation, Talking
<1>4. inbox'[g] = s /\ waitingFor'[g] = k
  BY <1>1 DEF ConflictInv, ConflictTypes
<1>5. 0 \in 0 .. Len(Rows[k]) - 1 /\ Seen(k, 0) = {}
  BY RowsShape, SeenNext
<1>6. Arriving(g, k)'
  BY <1>1, <1>2, <1>3, <1>4, <1>5 DEF Arriving, Quiet
<1>7. Conversation(g)'
  BY <1>1, <1>4, <1>6 DEF Conversation, Talking
<1>8. ConflictTypes'
  BY <1>1 DEF ConflictInv, ConflictTypes
<1>9. \A h \in Conn \ {g} : SameFor(h)
  BY <1>1 DEF ConflictInv, ConflictTypes, SameFor
<1>10. WholeResolutions'
  BY <1>1 DEF ConflictInv, WholeResolutions
<1>11. gpc[g] # "none" /\ gpc'[g] # "none"
  BY <1>1, <1>3 DEF Quiet
<1> QED
  BY <1>1, <1>7, <1>8, <1>9, <1>10, <1>11, GoroutineStep

(* What is on the way to Syncbase: rows marked Continued, and the last one  *)
(* only when it is the end of the resolution.                               *)
LEMMA OutboxHead ==
    ASSUME NEW g \in Conn, NEW k, outbox[g] \in Seq(ResolutionRow), outbox[g] # <<>>,
           Sending(g, k) \/ Sent(g, k)
    PROVE  \/ /\ Sending(g, k) /\ Head(outbox[g]).Continued
              /\ \A i \in DOMAIN Tail(outbox[g]) : Tail(outbox[g])[i].Continued
           \/ /\ Sent(g, k) /\ Head(outbox[g]).Continued /\ Tail(outbox[g]) # <<>>
              /\ \A i \in DOMAIN Tail(outbox[g]) :
                     Tail(outbox[g])[i].Continued <=> i < Len(Tail(outbox[g]))
           \/ Sent(g, k) /\ ~Head(outbox[g]).Continued /\ Len(outbox[g]) = 1
<1> DEFINE o == outbox[g]
           t == Tail(o)
<1>1. Len(o) \in Nat \ {0} /\ DOMAIN o = 1 .. Len(o) /\ Head(o) = o[1] /\ 1 \in DOMAIN o
  OBVIOUS
<1>2. /\ t \in Seq(ResolutionRow) /\ Len(t) = Len(o) - 1 /\ DOMAIN t = 1 .. Len(o) - 1
      /\ \A i \in 1 .. Len(o) - 1 : t[i] = o[i + 1]
  BY <1>1
<1>3. \A i \in 1 .. Len(o) - 1 : i + 1 \in DOMAIN o /\ (i + 1 < Len(o) <=> i < Len(o) - 1)
  BY <1>1
<1>4. Len(o) = 1 <=> t = <<>>
  BY RangeTail
<1> HIDE DEF t
<1>5. CASE Sending(g, k)
  <2>1. \A i \in DOMAIN o : o[i].Continued
    BY <1>5 DEF Sending
  <2>2. Head(o).Continued /\ \A i \in DOMAIN t : t[i].Continued
    BY <2>1, <1>1, <1>2, <1>3
  <2> QED
    BY <2>2, <1>5 DEF t
<1>6. CASE Sent(g, k)
  <2>1. \A i \in DOMAIN o : o[i].Continued <=> i < Len(o)
    BY <1>6 DEF Sent
  <2>2. Head(o).Continued <=> 1 < Len(o)
    BY <2>1, <1>1
  <2>3. \A i \in DOMAIN t : t[i].Continued <=> i < Len(t)
    BY <2>1, <1>2, <1>3
  <2>4. 1 < Len(o) <=> Len(o) # 1
    BY <1>1, OneOrMore
  <2>5. 1 < Len(o) => t # <<>>
    BY <2>4, <1>4
  <2> QED
    BY <2>2, <2>3, <2>4, <2>5, <1>1, <1>6 DEF t
<1> QED
  BY <1>5, <1>6

(* A row of a resolution reaches Syncbase; with the last one it has every   *)
(* row of the WriteSet of the conflict it asked about.                      *)
LEMMA ServerRecvInv ==
    ASSUME ConflictInv, NEW g \in Conn, ServerRecv(g)
    PROVE  ConflictInv'
<1> DEFINE k == waitingFor[g]
           o == outbox[g]
           rows == sacc[g] \cup {Head(o).key}
<1>1. /\ epc' = epc /\ enforced' = enforced /\ conn' = conn /\ inbox' = inbox
      /\ gpc' = gpc /\ acc' = acc /\ toSend' = toSend
      /\ conn[g] = "open" /\ o # <<>>
      /\ outbox' = [outbox EXCEPT ![g] = Tail(o)]
      /\ \/ Head(o).Continued /\ sacc' = [sacc EXCEPT ![g] = rows] /\ resolved' = resolved /\ waitingFor' = waitingFor
         \/ /\ ~Head(o).Continued
            /\ resolved' = resolved \cup {[conflict |-> k, rows |-> rows]}
            /\ sacc' = [sacc EXCEPT ![g] = {}] /\ waitingFor' = [waitingFor EXCEPT ![g] = 0]
  BY DEF ServerRecv, schemaVars, clientVars, ConflictInv, ConflictTypes
<1>2. k \in Conflict /\ (Sending(g, k) \/ Sent(g, k)) /\ gpc[g] # "none"
  BY <1>1 DEF ConflictInv, Conversation, Quiet, Talking, Arriving, Resolving, Sending, Sent
<1>3. o \in Seq(ResolutionRow)
  BY DEF ConflictInv, ConflictTypes
<1>4. /\ Keys(o) = {Head(o).key} \cup Keys(Tail(o))
      /\ Len(o) = 1 => Keys(o) = {Head(o).key}
  BY <1>1, <1>3, KeysTail
<1>5. Tail(o) \in Seq(ResolutionRow) /\ (Len(o) = 1 <=> Tail(o) = <<>>)
  BY <1>1, <1>3, RangeTail
<1>6. outbox'[g] = Tail(o)
  BY <1>1 DEF ConflictInv, ConflictTypes
<1>7. ConflictTypes'
  BY <1>1, <1>5 DEF ConflictInv, ConflictTypes
<1>8. \A h \in Conn \ {g} : SameFor(h)
  BY <1>1 DEF ConflictInv, ConflictTypes, SameFor
<1>9. CASE Head(o).Continued
  <2>1. sacc'[g] = rows /\ resolved' = resolved /\ waitingFor'[g] = k
    BY <1>1, <1>9 DEF ConflictInv, ConflictTypes
  <2>2. sacc'[g] \cup Keys(outbox'[g]) = sacc[g] \cup Keys(o)
    BY <2>1, <1>4, <1>6
  <2>3. Sending(g, k)' \/ Sent(g, k)'
    <3>1. CASE Sending(g, k) /\ \A i \in DOMAIN Tail(o) : Tail(o)[i].Continued
      <4>1. /\ gpc'[g] = "send" /\ inbox'[g] = <<>> /\ toSend'[g] # <<>>
            /\ sacc[g] \cup Keys(o) \cup Range(toSend[g]) = WriteKeys(k) /\ toSend'[g] = toSend[g]
        BY <3>1, <1>1 DEF Sending
      <4>2. sacc'[g] \cup Keys(outbox'[g]) \cup Range(toSend'[g]) = WriteKeys(k)
        BY <4>1, <2>2
      <4> QED
        BY <4>1, <4>2, <3>1, <2>1, <1>6 DEF Sending
    <3>2. CASE /\ Sent(g, k) /\ Tail(o) # <<>>
               /\ \A i \in DOMAIN Tail(o) : Tail(o)[i].Continued <=> i < Len(Tail(o))
      <4>1. /\ gpc'[g] = "listen" /\ inbox'[g] = <<>> /\ acc'[g] = {} /\ outbox'[g] # <<>>
            /\ sacc[g] \cup Keys(o) = WriteKeys(k)
        BY <3>2, <1>1, <1>6 DEF Sent
      <4> QED
        BY <4>1, <3>2, <2>1, <2>2, <1>6 DEF Sent
    <3> QED
      BY <3>1, <3>2, <1>1, <1>2, <1>3, <1>9, OutboxHead
  <2>4. Conversation(g)'
    BY <2>1, <2>3, <1>1, <1>2 DEF Conversation, Talking
  <2>5. WholeResolutions'
    BY <2>1 DEF ConflictInv, WholeResolutions
  <2> QED
    BY <2>4, <2>5, <1>1, <1>2, <1>7, <1>8, GoroutineStep
<1>10. CASE ~Head(o).Continued
  <2>1. Sent(g, k) /\ Len(o) = 1
    BY <1>1, <1>2, <1>3, <1>10, OutboxHead
  <2>2. rows = WriteKeys(k)
    BY <2>1, <1>4 DEF Sent
  <2>3. sacc'[g] = {} /\ waitingFor'[g] = 0 /\ outbox'[g] = <<>>
    BY <2>1, <1>1, <1>5, <1>6, <1>10 DEF ConflictInv, ConflictTypes
  <2>4. Quiet(g)'
    BY <2>1, <2>3, <1>1 DEF Sent, Quiet
  <2>5. Conversation(g)'
    BY <2>4, <1>1 DEF Conversation
  <2>6. WholeResolutions'
    <3> DEFINE new == [conflict |-> k, rows |-> rows]
    <3>1. resolved' = resolved \cup {new}
      BY <1>1, <1>10
    <3>2. new.rows = WriteKeys(new.conflict)
      BY <2>2
    <3> HIDE DEF new
    <3>3. \A r \in resolved' : r.rows = WriteKeys(r.conflict)
      BY <3>1, <3>2 DEF ConflictInv, WholeResolutions, WriteKeys
    <3> QED
      BY <3>3 DEF WholeResolutions, WriteKeys
  <2> QED
    BY <2>5, <2>6, <1>1, <1>2, <1>7, <1>8, GoroutineStep
<1> QED
  BY <1>9, <1>10

(* A stream that breaks keeps what it had until both ends notice. *)
LEMMA BreakInv ==
    ASSUME ConflictInv, NEW g \in Conn, Break(g)
    PROVE  ConflictInv'
<1>1. /\ epc' = epc /\ enforced' = enforced /\ resolved' = resolved /\ inbox' = inbox
      /\ gpc' = gpc /\ acc' = acc /\ toSend' = toSend /\ outbox' = outbox /\ sacc' = sacc
      /\ waitingFor' = waitingFor /\ conn[g] = "open"
      /\ conn' = [conn EXCEPT ![g] = "broken"]
  BY DEF Break, schemaVars, clientVars, serverVars
<1>2. ConflictTypes' /\ conn'[g] = "broken"
  BY <1>1 DEF ConflictInv, ConflictTypes
<1>3. \A h \in Conn \ {g} : SameFor(h)
  BY <1>1 DEF ConflictInv, ConflictTypes, SameFor
<1>4. Quiet(g) \/ Talking(g)
  BY <1>1 DEF ConflictInv, Conversation
<1>5. Quiet(g)' \/ Talking(g)'
  <2>1. CASE Quiet(g)
    BY <2>1, <1>1 DEF Quiet
  <2>2. CASE Talking(g)
    BY <2>2, <1>1 DEF Talking, Arriving, Resolving, Sending, Sent
  <2> QED
    BY <2>1, <2>2, <1>4
<1>6. gpc[g] # "none"
  BY <1>4 DEF Quiet, Talking, Arriving, Resolving, Sending, Sent
<1>7. Conversation(g)'
  BY <1>2, <1>5 DEF Conversation
<1>8. WholeResolutions'
  BY <1>1 DEF ConflictInv, WholeResolutions
<1> QED
  BY <1>1, <1>2, <1>3, <1>6, <1>7, <1>8, GoroutineStep
-----------------------------------------------------------------------------
LEMMA ConflictNext == ConflictInv /\ [Next]_vars => ConflictInv'
<1> SUFFICES ASSUME ConflictInv, [Next]_vars PROVE ConflictInv'
  OBVIOUS
<1>1. CASE GetSchemaMetadata \/ SetSchemaMetadata \/ OtherSetsMetadata \/ Close
  BY <1>1, ApplicationInv
<1>2. CASE StartResolution
  BY <1>2, StartResolutionInv
<1>3. CASE \E g \in Conn : CancelContext(g)
  BY <1>3, ApplicationInv
<1>4. ASSUME NEW g \in Conn, Goroutine(g) PROVE ConflictInv'
  BY <1>4, ConnectInv, RecvRowInv, OnConflictInv, SendRowInv, StreamEndedInv DEF Goroutine
<1>5. ASSUME NEW g \in Conn, Server(g) PROVE ConflictInv'
  BY <1>5, ServerSendsInv, ServerRecvInv DEF Server
<1>6. ASSUME NEW g \in Conn, Break(g) PROVE ConflictInv'
  BY <1>6, BreakInv
<1>7. CASE UNCHANGED vars
  <2>1. /\ epc' = epc /\ enforced' = enforced /\ resolved' = resolved /\ inbox' = inbox /\ conn' = conn
        /\ gpc' = gpc /\ acc' = acc /\ toSend' = toSend /\ outbox' = outbox /\ sacc' = sacc
        /\ waitingFor' = waitingFor
    BY <1>7 DEF vars, schemaVars, clientVars, serverVars
  <2>2. ASSUME NEW g \in Conn PROVE Conversation(g)'
    BY <2>1, SameConversation DEF ConflictInv, SameFor
  <2>3. ConflictTypes' /\ FreshGoroutine' /\ WholeResolutions'
    BY <2>1 DEF ConflictInv, ConflictTypes, FreshGoroutine, WholeResolutions
  <2> QED
    BY <2>2, <2>3 DEF ConflictInv
<1> QED
  BY <1>1, <1>2, <1>3, <1>4, <1>5, <1>6, <1>7 DEF Next, Enforce

LEMMA ConflictInvariant == Spec => []ConflictInv
<1>1. Init => ConflictInv
  BY ConflictInit
<1>2. ConflictInv /\ [Next]_vars => ConflictInv'
  BY ConflictNext
<1> QED
  BY <1>1, <1>2, PTL DEF Spec

(* The goroutine has a stream exactly where listenForConflicts runs, and    *)
(* sendResolution is never left with nothing to send.                       *)
THEOREM ConflictTypeOK == Spec => []TypeOK
<1>1. ConflictInv => TypeOK
  <2> SUFFICES ASSUME ConflictInv PROVE TypeOK
    OBVIOUS
  <2>1. ASSUME NEW g \in Conn
        PROVE  /\ conn[g] # "none" <=> gpc[g] \in {"listen", "resolve", "send"}
               /\ gpc[g] = "send" => toSend[g] # <<>>
    BY DEF ConflictInv, Conversation, Disconnected, Quiet, Talking, Arriving, Resolving, Sending, Sent
  <2> QED
    BY <2>1 DEF ConflictInv, ConflictTypes, GPlace, TypeOK
<1> QED
  BY <1>1, ConflictInvariant, PTL

(* listenForConflicts calls OnConflict with the rows of exactly one         *)
(* conflict, all of them: what was received of a conflict before a stream   *)
(* broke never mixes with what the next stream brings.                      *)
THEOREM OnConflictWholeConflicts == Spec => []WholeConflicts
<1>1. ConflictInv => WholeConflicts
  <2> SUFFICES ASSUME ConflictInv, NEW g \in Conn, gpc[g] = "resolve"
               PROVE  \E k \in Conflict : acc[g] = {<<k, Rows[k][i].kind, Rows[k][i].key>> : i \in DOMAIN Rows[k]}
    BY DEF WholeConflicts
  <2>1. PICK k \in Conflict : acc[g] = Seen(k, Len(Rows[k]))
    BY DEF ConflictInv, Conversation, Disconnected, Quiet, Talking, Arriving, Resolving, Sending, Sent
  <2>2. DOMAIN Rows[k] = 1 .. Len(Rows[k])
    BY RowsShape
  <2> QED
    BY <2>1, <2>2 DEF Seen
<1> QED
  BY <1>1, ConflictInvariant, PTL

(* Syncbase ends up with the resolution the application decided: every row  *)
(* of the WriteSet and none of another conflict, for any order of the Go    *)
(* map, any number of streams and any break of them.                        *)
THEOREM SyncbaseGetsWholeResolutions == Spec => []WholeResolutions
<1>1. ConflictInv => WholeResolutions
  BY DEF ConflictInv
<1> QED
  BY <1>1, ConflictInvariant, PTL
=============================================================================
