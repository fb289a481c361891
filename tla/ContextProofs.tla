--------------------------- MODULE ContextProofs ---------------------------
(***************************************************************************)
(* Proofs about Context for any number of cancelStates and goroutines.     *)
(***************************************************************************)
EXTENDS Context, TLAPS, WellFoundedInduction, SequenceTheorems

(* Pushing the children taken over from a cancelState adds exactly them to  *)
(* the pending ones (cancel's loop over its local children map).            *)
LEMMA PushFrames ==
    ASSUME NEW S, NEW stk \in Seq(SUBSET CS), S \in SUBSET CS
    PROVE  /\ Push(S, stk) \in Seq(SUBSET CS)
           /\ Frames(Push(S, stk)) = S \cup Frames(stk)
<1>1. CASE S = {}
  BY <1>1 DEF Push
<1>2. CASE S # {}
  <2> DEFINE new == <<S>> \o stk
  <2>1. Push(S, stk) = new
    BY <1>2 DEF Push
  <2>2. /\ new \in Seq(SUBSET CS)
        /\ Len(new) = Len(stk) + 1
        /\ new[1] = S
        /\ \A i \in 1..Len(stk) : new[i + 1] = stk[i]
    OBVIOUS
  <2>3. ASSUME NEW x \in S PROVE x \in Frames(new)
    <3>1. 1 \in DOMAIN new
      BY <2>2
    <3> QED
      BY <3>1, <2>2 DEF Frames
  <2>4. ASSUME NEW x \in Frames(stk) PROVE x \in Frames(new)
    <3>1. PICK i \in DOMAIN stk : x \in stk[i]
      BY DEF Frames
    <3>2. i + 1 \in DOMAIN new /\ new[i + 1] = stk[i]
      BY <2>2
    <3> QED
      BY <3>1, <3>2 DEF Frames
  <2>5. ASSUME NEW x \in Frames(new) PROVE x \in S \cup Frames(stk)
    <3>1. PICK i \in DOMAIN new : x \in new[i]
      BY DEF Frames
    <3>2. CASE i = 1
      BY <3>1, <3>2, <2>2
    <3>3. CASE i # 1
      <4>1. i - 1 \in DOMAIN stk /\ new[i] = stk[i - 1]
        BY <2>2, <3>3
      <4> QED
        BY <3>1, <4>1 DEF Frames
    <3> QED
      BY <3>2, <3>3
  <2> QED
    BY <2>1, <2>2, <2>3, <2>4, <2>5
<1> QED
  BY <1>1, <1>2

(* The top frame and the frames below it make up a nonempty stack. *)
LEMMA SplitFrames ==
    ASSUME NEW stk \in Seq(SUBSET CS), stk # <<>>
    PROVE  /\ Head(stk) \in SUBSET CS
           /\ Tail(stk) \in Seq(SUBSET CS)
           /\ Frames(stk) = Head(stk) \cup Frames(Tail(stk))
<1>1. /\ Len(stk) > 0
      /\ Head(stk) = stk[1]
      /\ Tail(stk) \in Seq(SUBSET CS)
      /\ Len(Tail(stk)) = Len(stk) - 1
      /\ \A i \in 1..Len(Tail(stk)) : Tail(stk)[i] = stk[i + 1]
  OBVIOUS
<1>2. ASSUME NEW x \in Head(stk) PROVE x \in Frames(stk)
  BY <1>1 DEF Frames
<1>3. ASSUME NEW x \in Frames(Tail(stk)) PROVE x \in Frames(stk)
  <2>1. PICK i \in DOMAIN Tail(stk) : x \in Tail(stk)[i]
    BY DEF Frames
  <2>2. i + 1 \in DOMAIN stk /\ Tail(stk)[i] = stk[i + 1]
    BY <1>1
  <2> QED
    BY <2>1, <2>2 DEF Frames
<1>4. ASSUME NEW x \in Frames(stk) PROVE x \in Head(stk) \cup Frames(Tail(stk))
  <2>1. PICK i \in DOMAIN stk : x \in stk[i]
    BY DEF Frames
  <2>2. CASE i = 1
    BY <2>1, <2>2, <1>1
  <2>3. CASE i # 1
    <3>1. i - 1 \in DOMAIN Tail(stk) /\ Tail(stk)[i - 1] = stk[i]
      BY <1>1, <2>3
    <3> QED
      BY <2>1, <3>1 DEF Frames
  <2> QED
    BY <2>2, <2>3
<1> QED
  BY <1>1, <1>2, <1>3, <1>4

(* No frame is left of an empty stack. *)
LEMMA NoFrames == Frames(<<>>) = {}
BY DEF Frames
-----------------------------------------------------------------------------
(* Lookups in a context.T. *)

(* A nonempty set of numbers has a least element. *)
LEMMA LeastElement ==
    ASSUME NEW T \in SUBSET Nat, T # {}
    PROVE  \E x \in T : \A y \in T : x <= y
<1>1. PICK x \in T : \A y \in T : ~ (<<y, x>> \in OpToRel(<, Nat))
  BY NatLessThanWellFounded, WFMin, Zenon
<1>2. ASSUME NEW y \in T PROVE x <= y
  <2>1. ~ (<<y, x>> \in {ss \in Nat \X Nat : ss[1] < ss[2]})
    BY <1>1 DEF OpToRel
  <2> QED
    BY <2>1
<1> QED
  BY <1>2

(* T.Value returns nothing or what one of the list's entries holds. *)
LEMMA ValueInList ==
    ASSUME NEW t \in Seq(Entry), NEW k
    PROVE  Value(t, k) = NoCS \/ \E i \in DOMAIN t : Value(t, k) = t[i].cs
<1>1. SUFFICES ASSUME \E i \in DOMAIN t : t[i].key = k
               PROVE  \E i \in DOMAIN t : Value(t, k) = t[i].cs
  BY DEF Value
<1> DEFINE hits == {i \in DOMAIN t : t[i].key = k}
<1>2. \E i \in hits : \A j \in hits : i <= j
  <2>1. hits \in SUBSET Nat /\ hits # {}
    BY <1>1
  <2> QED
    BY <2>1, LeastElement
<1>3. PICK i \in DOMAIN t : /\ t[i].key = k
                           /\ \A j \in DOMAIN t : t[j].key = k => i <= j
  BY <1>2
<1> QED
  BY <1>1, <1>3 DEF Value

(* So does the search of WithRootCancel. *)
LEMMA RootStateInList ==
    ASSUME NEW t \in Seq(Entry)
    PROVE  RootState(t) = NoCS \/ \E i \in DOMAIN t : RootState(t) = t[i].cs
<1>1. SUFFICES ASSUME \E i \in DOMAIN t : t[i].key = "cancel"
               PROVE  \E i \in DOMAIN t : RootState(t) = t[i].cs
  BY DEF RootState
<1> DEFINE behind == {n \in 0..Len(t) : Len(t) - n \in DOMAIN t /\ t[Len(t) - n].key = "cancel"}
<1>2. PICK n \in behind : \A m \in behind : n <= m
  <2>1. PICK i \in DOMAIN t : t[i].key = "cancel"
    BY <1>1
  <2>2. Len(t) - i \in 0..Len(t) /\ Len(t) - (Len(t) - i) = i
    OBVIOUS
  <2>3. behind \in SUBSET Nat /\ Len(t) - i \in behind
    BY <2>1, <2>2
  <2> QED
    BY <2>3, LeastElement
<1>3. ASSUME NEW j \in DOMAIN t, t[j].key = "cancel" PROVE j <= Len(t) - n
  <2>1. Len(t) - j \in 0..Len(t) /\ Len(t) - (Len(t) - j) = j
    OBVIOUS
  <2>2. Len(t) - j \in behind
    BY <1>3, <2>1
  <2> QED
    BY <1>2, <2>2
<1> QED
  BY <1>1, <1>2, <1>3 DEF RootState
-----------------------------------------------------------------------------
(* Every step keeps the inductive invariant, one lemma per action. *)

(* Every entry of a list names a cancelState. *)
LEMMA EntriesNameStates ==
    ASSUME NEW t \in Seq(Entry)
    PROVE  \A i \in DOMAIN t : t[i].cs \in CS
<1>1. \A i \in DOMAIN t : t[i] \in Entry
  OBVIOUS
<1>2. \A e \in Entry : e.cs \in CS
  BY DEF Entry
<1> QED
  BY <1>1, <1>2

(* addChild by the constructor of a new cancelState: it ends up registered  *)
(* with an open parent, or on its way to be cancelled with a closed one.    *)
LEMMA NewStateInv ==
    ASSUME ContextInv,
           NEW g \in G, NEW src \in CS, NEW c \in CS, NEW cp \in CS \cup {NoCS},
           NEW o \in {"WithCancel", "WithDeadline"}, NEW t \in Seq(Entry),
           NewState(g, src, c, cp, o, t),
           \A i \in DOMAIN t : t[i].cs = c \/ status[t[i].cs] # "free",
           o = "WithDeadline" => t # <<>> /\ Head(t).key = "deadline"
    PROVE  ContextInv'
<1> USE ContextAssumption DEF ContextInv
<1>a. /\ status[c] = "free" /\ pc[g] = "idle" /\ stack[g] = <<>> /\ Pending(g) = {}
      /\ g \in Proc /\ parent[c] = NoCS /\ err[c] = "nil" /\ timer[c] = "none" /\ c \notin called
  BY NoFrames DEF NewState, FreeIsBlank, Deregistered, TypeOK, Pending, Proc
<1>b. /\ status'[c] = "new" /\ ctx'[c] = t /\ parent'[c] = cp
      /\ \A x \in CS : x # c => status'[x] = status[x] /\ ctx'[x] = ctx[x] /\ parent'[x] = parent[x]
      /\ UNCHANGED <<err, timer, called, stack>>
  BY DEF NewState, TypeOK
<1>c. /\ children' \in [CS -> SUBSET CS]
      /\ \A x, y \in CS : x \in children'[y] <=>
            x \in children[y] \/ (x = c /\ y = cp /\ err[cp] = "nil")
  BY DEF NewState, AddChild, TypeOK
<1>d. /\ op'[g] = o /\ arg'[g] = c /\ pc'[g] \in {"cancel", "return"}
      /\ pc'[g] = "cancel" <=> cp # NoCS /\ err[cp] # "nil"
      /\ pc'[g] = "cancel" => perr'[g] = err[cp]
      /\ \A q \in Proc : q # g => /\ pc'[q] = pc[q] /\ op'[q] = op[q]
                                 /\ arg'[q] = arg[q] /\ perr'[q] = perr[q]
  BY <1>a DEF NewState, TypeOK
<1>e. \A q \in Proc : Pending(q)' = Pending(q) /\ Pending(q) \subseteq CS
  BY <1>b DEF Pending, Frames, TypeOK
<1>f. /\ \A x \in CS : c \notin children[x]
      /\ \A q \in Proc : arg[q] # c \/ pc[q] = "idle"
      /\ \A q \in Proc : c \notin Pending(q)
  <2>1. \A x \in CS : c \notin children[x]
    BY <1>a DEF RegisteredAreOpen, TypeOK
  <2>2. \A q \in Proc : arg[q] # c \/ pc[q] = "idle"
    BY <1>a DEF TypeOK
  <2>3. \A q \in Proc : c \notin Pending(q)
    BY <1>a DEF CarriedExplained
  <2> QED
    BY <2>1, <2>2, <2>3
<1>g. \A q \in Proc : Constructing(q) => arg[q] \in CS /\ arg[q] # c
  BY <1>f DEF ConstructorsApart, TypeOK
<1>1. TypeOK'
  <2>1. /\ status' \in [CS -> {"free", "new", "published"}]
        /\ ctx' \in [CS -> Seq(Entry)]
        /\ parent' \in [CS -> CS \cup {NoCS}]
        /\ op' \in [Proc -> {"none", "WithCancel", "WithDeadline", "CancelFunc"}]
        /\ arg' \in [Proc -> CS \cup {NoCS}]
    BY DEF NewState, TypeOK, Proc
  <2>2. /\ pc' \in [Proc -> {"idle", "return", "remove", "stop", "cancel", "propagate"}]
        /\ perr' \in [Proc -> Errors \cup {"nil"}]
    <3>1. cp # NoCS => err[cp] \in Errors \cup {"nil"}
      BY DEF TypeOK
    <3>2. /\ pc \in [Proc -> {"idle", "return", "remove", "stop", "cancel", "propagate"}]
          /\ perr \in [Proc -> Errors \cup {"nil"}]
      BY DEF TypeOK
    <3> QED
      BY <3>1, <3>2 DEF NewState
  <2>3. \A q \in Proc : pc'[q] # "idle" => arg'[q] \in CS /\ status'[arg'[q]] # "free"
    <3>1. \A q \in Proc : pc[q] # "idle" => arg[q] \in CS /\ status[arg[q]] # "free"
      BY DEF TypeOK
    <3>2. \A x \in CS : status[x] # "free" => status'[x] # "free"
      BY <1>a, <1>b
    <3> QED
      BY <1>b, <1>d, <3>1, <3>2
  <2>4. \A x \in CS : timer[x] # "none" => ctx'[x] # <<>> /\ Head(ctx'[x]).key = "deadline"
    <3>1. \A x \in CS : timer[x] # "none" =>
              ctx[x] # <<>> /\ Head(ctx[x]).key = "deadline" /\ ctx'[x] = ctx[x]
      BY <1>a, <1>b DEF TypeOK
    <3> QED
      BY <3>1, Zenon
  <2> QED
    BY <1>b, <1>c, <2>1, <2>2, <2>3, <2>4 DEF TypeOK
<1>2. FreeIsBlank'
  BY <1>b DEF FreeIsBlank
<1>3. ListsAllocated'
  <2>1. \A x \in CS : status[x] # "free" => status'[x] # "free"
    BY <1>a, <1>b
  <2>2. \A i \in DOMAIN t : t[i].cs \in CS
    BY EntriesNameStates
  <2>3. \A x \in CS : \A i \in DOMAIN ctx[x] : ctx[x][i].cs \in CS
    BY EntriesNameStates DEF TypeOK
  <2> QED
    BY <1>b, <2>1, <2>2, <2>3 DEF ListsAllocated
<1>4. ConstructorsApart'
  <2>1. \A q \in Proc : q # g => (Constructing(q)' <=> Constructing(q))
    BY <1>d DEF Constructing
  <2>2. \A q \in Proc : op[q] = "WithDeadline" => Constructing(q)
    BY DEF Constructing
  <2>3. \A q \in Proc : Constructing(q)' => pc'[q] # "idle" /\ status'[arg'[q]] = "new"
    BY <1>b, <1>d, <1>g, <2>1 DEF ConstructorsApart
  <2>4. \A q, r \in Proc : Constructing(q)' /\ Constructing(r)' /\ arg'[q] = arg'[r] => q = r
    BY <1>d, <1>g, <2>1 DEF ConstructorsApart
  <2>5. \A q \in Proc : op'[q] = "WithDeadline" =>
          timer[arg'[q]] = "none" /\ ctx'[arg'[q]] # <<>> /\ Head(ctx'[arg'[q]]).key = "deadline"
    BY <1>a, <1>b, <1>d, <1>g, <2>2 DEF ConstructorsApart
  <2> QED
    BY <1>b, <2>3, <2>4, <2>5 DEF ConstructorsApart
<1>5. TimerGoroutines'
  BY <1>b, <1>d DEF TimerGoroutines, Proc
<1>6. CarriedExplained'
  <2>1. \A q \in Proc : pc'[q] \in {"remove", "stop", "cancel", "propagate"} => perr'[q] \in Errors
    <3>1. cp # NoCS /\ err[cp] # "nil" => err[cp] \in Errors
      BY DEF TypeOK
    <3> QED
      BY <1>d, <3>1 DEF CarriedExplained
  <2>2. \A q \in Proc : pc'[q] \in {"remove", "stop", "cancel"} /\ op'[q] = "CancelFunc" =>
          \/ perr'[q] = "Canceled" /\ arg'[q] \in called
          \/ perr'[q] = "DeadlineExceeded" /\ timer[arg'[q]] = "fired"
    BY <1>d DEF CarriedExplained
  <2>3. \A q \in Proc : pc'[q] = "cancel" /\ op'[q] # "CancelFunc" =>
          parent'[arg'[q]] # NoCS /\ err[parent'[arg'[q]]] = perr'[q]
    <3>1. \A q \in Proc : q # g /\ pc[q] = "cancel" => arg[q] \in CS /\ parent'[arg[q]] = parent[arg[q]]
      BY <1>b, <1>f DEF TypeOK
    <3> QED
      BY <1>b, <1>d, <3>1 DEF CarriedExplained
  <2>4. \A q \in Proc : \A x \in Pending(q) : parent'[x] # NoCS /\ err[parent'[x]] = perr'[q]
    BY <1>a, <1>b, <1>d, <1>e, <1>f DEF CarriedExplained
  <2> QED
    BY <1>b, <1>e, <2>1, <2>2, <2>3, <2>4 DEF CarriedExplained
<1>7. Deregistered'
  <2>1. \A q \in Proc : q # g /\ pc[q] \in {"stop", "cancel"} => arg[q] \in CS /\ arg[q] # c
    BY <1>f DEF TypeOK
  <2>2. \A q \in Proc : pc'[q] \in {"stop", "cancel"} => \A x \in CS : arg'[q] \notin children'[x]
    BY <1>c, <1>d, <1>f, <2>1 DEF Deregistered
  <2>3. \A q \in Proc : stack[q] # <<>> => pc'[q] = "propagate"
    BY <1>a, <1>d DEF Deregistered
  <2> QED
    BY <1>b, <2>2, <2>3 DEF Deregistered
<1>8. NoContextLost'
  <2>1. \A x \in CS : BeingCancelled(x) => BeingCancelled(x)'
    BY <1>a, <1>d, <1>e DEF BeingCancelled
  <2>2. cp # NoCS => c \in children'[cp] \/ BeingCancelled(c)'
    BY <1>a, <1>c, <1>d DEF BeingCancelled
  <2>3. \A x \in CS : x # c /\ parent[x] # NoCS =>
          (x \in children[parent[x]] => x \in children'[parent[x]])
    BY <1>c DEF TypeOK
  <2> QED
    BY <1>b, <2>1, <2>2, <2>3 DEF NoContextLost
<1>9. RegisteredAreOpen'
  <2>1. SUFFICES ASSUME NEW y \in CS, NEW x \in children'[y]
                 PROVE  parent'[x] = y /\ err[x] = "nil" /\ err[y] = "nil"
    BY <1>b DEF RegisteredAreOpen
  <2>2. x \in CS
    BY <1>c
  <2>3. CASE x \in children[y]
    BY <1>b, <1>f, <2>2, <2>3 DEF RegisteredAreOpen
  <2>4. CASE x = c /\ y = cp /\ err[cp] = "nil"
    BY <1>a, <1>b, <2>4
  <2> QED
    BY <1>c, <2>2, <2>3, <2>4
<1>10. ErrExplained'
  BY <1>a, <1>b DEF ErrExplained
<1> QED
  BY <1>1, <1>2, <1>3, <1>4, <1>5, <1>6, <1>7, <1>8, <1>9, <1>10 DEF ContextInv

(* The cancelState a constructor hangs its own below exists. *)
LEMMA ParentExists ==
    ASSUME ContextInv, NEW src \in CS, NEW k
    PROVE  /\ Value(ctx[src], k) \in {x \in CS : status[x] # "free"} \cup {NoCS}
           /\ RootState(ctx[src]) \in {x \in CS : status[x] # "free"} \cup {NoCS}
<1>1. ctx[src] \in Seq(Entry)
  BY DEF ContextInv, TypeOK
<1>2. \A i \in DOMAIN ctx[src] : ctx[src][i].cs \in {x \in CS : status[x] # "free"}
  BY <1>1, EntriesNameStates DEF ContextInv, ListsAllocated
<1> QED
  BY <1>1, <1>2, ValueInList, RootStateInList

(* The list of the new T: its own entries on top of its parent's. *)
LEMMA NewList ==
    ASSUME ContextInv, NEW src \in CS, NEW c \in CS,
           NEW own \in Seq([key : {"cancel", "deadline"}, cs : {c}])
    PROVE  /\ own \o ctx[src] \in Seq(Entry)
           /\ \A i \in DOMAIN (own \o ctx[src]) :
                 (own \o ctx[src])[i].cs = c \/ status[(own \o ctx[src])[i].cs] # "free"
<1>1. /\ ctx[src] \in Seq(Entry)
      /\ \A i \in 1..Len(ctx[src]) : status[ctx[src][i].cs] # "free"
  BY DEF ContextInv, TypeOK, ListsAllocated
<1>2. /\ own \in Seq(Entry)
      /\ \A i \in 1..Len(own) : own[i].cs = c
  <2> DEFINE Own == [key : {"cancel", "deadline"}, cs : {c}]
  <2>1. \A e \in Own : e \in Entry /\ e.cs = c
    BY DEF Entry
  <2> HIDE DEF Own
  <2>2. own \in Seq(Own)
    BY DEF Own
  <2>3. \A i \in 1..Len(own) : own[i] \in Own
    BY <2>2
  <2>4. own \in Seq(Entry)
    BY <2>1, <2>2, SeqMonotonic
  <2> QED
    BY <2>1, <2>3, <2>4
<1>3. /\ own \o ctx[src] \in Seq(Entry)
      /\ DOMAIN (own \o ctx[src]) = 1..(Len(own) + Len(ctx[src]))
      /\ \A i \in 1..(Len(own) + Len(ctx[src])) :
            (own \o ctx[src])[i] = IF i <= Len(own) THEN own[i] ELSE ctx[src][i - Len(own)]
  BY <1>1, <1>2
<1> QED
  BY SMTT(20), <1>1, <1>2, <1>3

(* WithCancel, WithRootCancel, WithDeadline and WithTimeout keep the invariant. *)
LEMMA ConstructorInv ==
    ASSUME ContextInv, NEW g \in G, NEW src \in CS, NEW c \in CS,
           WithCancel(g, src, c) \/ WithRootCancel(g, src, c) \/ WithDeadline(g, src, c)
    PROVE  ContextInv'
<1> DEFINE own1 == <<[key |-> "cancel", cs |-> c]>>
           own2 == <<[key |-> "deadline", cs |-> c], [key |-> "cancel", cs |-> c]>>
<1>1. /\ own1 \in Seq([key : {"cancel", "deadline"}, cs : {c}])
      /\ own2 \in Seq([key : {"cancel", "deadline"}, cs : {c}])
  OBVIOUS
<1>2. own2 \o ctx[src] # <<>> /\ Head(own2 \o ctx[src]).key = "deadline"
  BY DEF ContextInv, TypeOK
<1>3. CASE WithCancel(g, src, c)
  BY ZenonT(30), <1>1, <1>3, NewStateInv, ParentExists, NewList DEF WithCancel
<1>4. CASE WithRootCancel(g, src, c)
  BY ZenonT(30), <1>1, <1>4, NewStateInv, ParentExists, NewList DEF WithRootCancel
<1>5. CASE WithDeadline(g, src, c)
  BY ZenonT(30), <1>1, <1>2, <1>5, NewStateInv, ParentExists, NewList DEF WithDeadline
<1> QED
  BY <1>3, <1>4, <1>5

(* RootContext adds an unrelated cancelState. *)
LEMMA RootContextInv ==
    ASSUME ContextInv, NEW g \in G, NEW c \in CS, RootContext(g, c)
    PROVE  ContextInv'
<1> USE ContextAssumption DEF ContextInv
<1>1. TypeOK'
  BY DEF RootContext, TypeOK, Proc, Errors, Entry, FreeIsBlank
<1>2. ListsAllocated'
  BY DEF RootContext, ListsAllocated, TypeOK, Proc, Errors, Entry
<1>3. NoContextLost'
  <2>1. \A x \in CS : BeingCancelled(x) => BeingCancelled(x)'
    BY DEF RootContext, BeingCancelled, Pending
  <2>2. parent[c] = NoCS
    BY DEF RootContext, FreeIsBlank
  <2> QED
    BY <2>1, <2>2 DEF RootContext, NoContextLost
<1>4. FreeIsBlank'
  BY DEF RootContext, FreeIsBlank
<1>5. ConstructorsApart'
  BY DEF RootContext, ConstructorsApart, Constructing, Proc
<1>6. TimerGoroutines'
  BY DEF RootContext, TimerGoroutines, Proc
<1>7. CarriedExplained'
  BY DEF RootContext, CarriedExplained, Pending, Errors, Proc
<1>8. Deregistered'
  BY DEF RootContext, Deregistered, Proc
<1>9. RegisteredAreOpen'
  BY DEF RootContext, RegisteredAreOpen
<1>10. ErrExplained'
  BY DEF RootContext, ErrExplained
<1> QED
  BY <1>1, <1>2, <1>3, <1>4, <1>5, <1>6, <1>7, <1>8, <1>9, <1>10 DEF ContextInv

(* withDeadlineState: the timer exists before the T is handed out. *)
LEMMA StartTimerInv ==
    ASSUME ContextInv, NEW g \in G, StartTimer(g)
    PROVE  ContextInv'
<1> USE ContextAssumption DEF ContextInv
<1>1. TypeOK'
  BY DEF StartTimer, TypeOK, Proc, Errors, Entry, ConstructorsApart, Constructing
<1>2. FreeIsBlank'
  BY DEF StartTimer, FreeIsBlank, TypeOK, Proc, Errors, Entry, ConstructorsApart,
         Constructing
<1>3. ConstructorsApart'
  BY DEF StartTimer, ConstructorsApart, Constructing, Proc, TypeOK, Errors, Entry
<1>4. TimerGoroutines'
  BY DEF StartTimer, TimerGoroutines, Proc, TypeOK, Errors, Entry, ConstructorsApart,
         Constructing
<1>5. CarriedExplained'
  BY DEF StartTimer, CarriedExplained, Pending, Errors, Proc, TypeOK, Entry,
         ConstructorsApart, Constructing
<1>6. ErrExplained'
  BY DEF StartTimer, ErrExplained, TypeOK, Proc, Errors, Entry, ConstructorsApart,
         Constructing
<1>7. ListsAllocated'
  BY DEF StartTimer, ListsAllocated
<1>8. Deregistered'
  BY DEF StartTimer, Deregistered, Proc
<1>9. NoContextLost'
  BY DEF StartTimer, NoContextLost, BeingCancelled, Pending, Proc
<1>10. RegisteredAreOpen'
  BY DEF StartTimer, RegisteredAreOpen
<1> QED
  BY <1>1, <1>2, <1>3, <1>4, <1>5, <1>6, <1>7, <1>8, <1>9, <1>10 DEF ContextInv

(* Returning the T and its CancelFunc changes nothing about cancellation. *)
LEMMA PublishInv ==
    ASSUME ContextInv, NEW g \in G, Publish(g)
    PROVE  ContextInv'
<1> USE ContextAssumption DEF ContextInv
<1>1. ConstructorsApart'
  BY DEF Publish, EndCall, ConstructorsApart, Constructing, Proc, TypeOK, Errors, Entry
<1>2. TimerGoroutines'
  BY DEF Publish, EndCall, TimerGoroutines, Proc, TypeOK, Errors, Entry
<1>3. CarriedExplained'
  <2>1. \A q \in Proc : q # g => /\ pc'[q] = pc[q]
                                 /\ op'[q] = op[q]
                                 /\ arg'[q] = arg[q]
                                 /\ perr'[q] = perr[q]
    BY DEF Publish, EndCall, TypeOK, Proc
  <2>2. pc'[g] = "idle" /\ Pending(g) = {}
    BY NoFrames DEF Publish, EndCall, TypeOK, Deregistered, Pending, Proc
  <2>3. \A q \in Proc : Pending(q)' = Pending(q)
    BY DEF Publish, Pending
  <2>4. UNCHANGED <<parent, err, timer, called>>
    BY DEF Publish
  <2> QED
    BY <2>1, <2>2, <2>3, <2>4 DEF CarriedExplained
<1>4. NoContextLost'
  <2>1. \A x \in CS : BeingCancelled(x) => BeingCancelled(x)'
    BY DEF Publish, EndCall, BeingCancelled, Pending, TypeOK, Proc
  <2>2. \A x \in CS : status'[x] # "free" => status[x] # "free"
    BY DEF Publish, TypeOK, Proc
  <2> QED
    BY <2>1, <2>2 DEF Publish, NoContextLost
<1>5. TypeOK'
  BY DEF Publish, EndCall, TypeOK, Proc, Errors, Entry
<1>6. FreeIsBlank'
  BY DEF Publish, EndCall, FreeIsBlank
<1>7. ListsAllocated'
  BY DEF Publish, EndCall, ListsAllocated
<1>8. Deregistered'
  BY DEF Publish, EndCall, Deregistered, Proc
<1>9. RegisteredAreOpen'
  BY DEF Publish, EndCall, RegisteredAreOpen
<1>10. ErrExplained'
  BY DEF Publish, EndCall, ErrExplained
<1> QED
  BY <1>1, <1>2, <1>3, <1>4, <1>5, <1>6, <1>7, <1>8, <1>9, <1>10 DEF ContextInv

(* CancelFunc takes its cancelState out of the registry before it cancels it. *)
LEMMA CancelFuncInv ==
    ASSUME ContextInv, NEW g \in G, NEW c \in CS, CancelFunc(g, c)
    PROVE  ContextInv'
<1> USE ContextAssumption DEF ContextInv
<1>1. TypeOK'
  <2>1. children' \in [CS -> SUBSET CS]
    BY DEF CancelFunc, RemoveChild, TypeOK
  <2>2. \A q \in Proc : pc'[q] # "idle" => arg'[q] \in CS /\ status[arg'[q]] # "free"
    BY DEF CancelFunc, TypeOK, Proc
  <2> QED
    BY <2>1, <2>2 DEF CancelFunc, TypeOK, Proc, Errors
<1>2. TimerGoroutines'
  BY DEF CancelFunc, RemoveChild, TimerGoroutines, Proc, TypeOK, Errors, Entry
<1>3. CarriedExplained'
  <2>1. \A q \in Proc : q # g => /\ pc'[q] = pc[q]
                                 /\ op'[q] = op[q]
                                 /\ arg'[q] = arg[q]
                                 /\ perr'[q] = perr[q]
    BY DEF CancelFunc, TypeOK, Proc
  <2>2. /\ pc'[g] = "stop" /\ op'[g] = "CancelFunc"
        /\ arg'[g] = c /\ perr'[g] = "Canceled" /\ Pending(g) = {}
    BY NoFrames DEF CancelFunc, TypeOK, Deregistered, Pending, Proc
  <2>3. \A q \in Proc : Pending(q)' = Pending(q)
    BY DEF CancelFunc, Pending
  <2>4. called' = called \cup {c} /\ UNCHANGED <<parent, err, timer>>
    BY DEF CancelFunc
  <2> QED
    BY <2>1, <2>2, <2>3, <2>4 DEF CarriedExplained, Errors
<1>4. Deregistered'
  BY DEF CancelFunc, RemoveChild, Deregistered, Proc, TypeOK, Errors, Entry,
         RegisteredAreOpen
<1>5. NoContextLost'
  <2>1. \A x \in CS : BeingCancelled(x) => BeingCancelled(x)'
    BY DEF CancelFunc, BeingCancelled, Pending, TypeOK, Proc
  <2>2. BeingCancelled(c)'
    BY DEF CancelFunc, BeingCancelled, TypeOK, Proc
  <2>3. \A x, y \in CS : x # c /\ x \in children[y] => x \in children'[y]
    BY DEF CancelFunc, RemoveChild, TypeOK
  <2> QED
    BY <2>1, <2>2, <2>3 DEF CancelFunc, NoContextLost, TypeOK
<1>6. FreeIsBlank'
  BY DEF CancelFunc, RemoveChild, FreeIsBlank
<1>7. ListsAllocated'
  BY DEF CancelFunc, RemoveChild, ListsAllocated
<1>8. ConstructorsApart'
  BY DEF CancelFunc, RemoveChild, ConstructorsApart, Constructing, Proc
<1>9. RegisteredAreOpen'
  BY DEF CancelFunc, RemoveChild, RegisteredAreOpen
<1>10. ErrExplained'
  BY DEF CancelFunc, RemoveChild, ErrExplained
<1> QED
  BY <1>1, <1>2, <1>3, <1>4, <1>5, <1>6, <1>7, <1>8, <1>9, <1>10 DEF ContextInv

(* timer.Stop on the way to cancel. *)
LEMMA StopTimerInv ==
    ASSUME ContextInv, NEW g \in G, StopTimer(g)
    PROVE  ContextInv'
<1> USE ContextAssumption DEF ContextInv
<1>1. TypeOK'
  <2>1. \A x \in CS : timer'[x] # "none" => timer[x] # "none"
    BY DEF StopTimer, TypeOK, Proc
  <2>2. \A q \in Proc : pc'[q] # "idle" => pc[q] # "idle"
    BY DEF StopTimer, TypeOK, Proc
  <2>3. timer' \in [CS -> {"none", "armed", "stopped", "fired"}]
    BY DEF StopTimer, TypeOK, Proc
  <2> QED
    BY <2>1, <2>2, <2>3 DEF StopTimer, TypeOK, Proc
<1>2. CarriedExplained'
  BY DEF StopTimer, CarriedExplained, Pending, Errors, Proc, TypeOK, Entry,
         TimerGoroutines
<1>3. FreeIsBlank'
  BY DEF StopTimer, FreeIsBlank
<1>4. ListsAllocated'
  BY DEF StopTimer, ListsAllocated
<1>5. ConstructorsApart'
  BY DEF StopTimer, ConstructorsApart, Constructing, Proc
<1>6. TimerGoroutines'
  BY DEF StopTimer, TimerGoroutines, Proc
<1>7. Deregistered'
  BY DEF StopTimer, Deregistered, Proc
<1>8. NoContextLost'
  BY DEF StopTimer, NoContextLost, BeingCancelled, Pending, Proc
<1>9. RegisteredAreOpen'
  BY DEF StopTimer, RegisteredAreOpen
<1>10. ErrExplained'
  BY DEF StopTimer, ErrExplained
<1> QED
  BY <1>1, <1>2, <1>3, <1>4, <1>5, <1>6, <1>7, <1>8, <1>9, <1>10 DEF ContextInv

(* A firing timer finds its goroutine idle. *)
LEMMA FireTimerInv ==
    ASSUME ContextInv, NEW c \in CS, FireTimer(c)
    PROVE  ContextInv'
<1> USE ContextAssumption DEF ContextInv
<1>1. TypeOK'
  BY DEF FireTimer, TypeOK, Proc, Errors, Entry, FreeIsBlank
<1>2. ConstructorsApart'
  BY DEF FireTimer, ConstructorsApart, Constructing, Proc, TypeOK, Errors, Entry
<1>3. TimerGoroutines'
  BY DEF FireTimer, TimerGoroutines, Proc, TypeOK, Errors, Entry
<1>4. CarriedExplained'
  <2>1. \A q \in Proc : q # c => /\ pc'[q] = pc[q]
                                 /\ op'[q] = op[q]
                                 /\ arg'[q] = arg[q]
                                 /\ perr'[q] = perr[q]
    BY DEF FireTimer, TypeOK, Proc
  <2>2. /\ pc'[c] = "remove" /\ op'[c] = "CancelFunc"
        /\ arg'[c] = c /\ perr'[c] = "DeadlineExceeded" /\ Pending(c) = {}
    BY NoFrames DEF FireTimer, TypeOK, TimerGoroutines, Deregistered, Pending, Proc
  <2>3. \A q \in Proc : Pending(q)' = Pending(q)
    BY DEF FireTimer, Pending
  <2>4. /\ timer'[c] = "fired"
        /\ \A x \in CS : timer[x] = "fired" => timer'[x] = "fired"
        /\ UNCHANGED <<parent, err, called>>
    BY DEF FireTimer, TypeOK
  <2>5. \A q \in Proc : pc[q] # "idle" => arg[q] \in CS
    BY DEF TypeOK
  <2> QED
    BY <2>1, <2>2, <2>3, <2>4, <2>5 DEF CarriedExplained, Errors
<1>5. Deregistered'
  <2>1. pc[c] = "idle" /\ stack[c] = <<>>
    BY DEF FireTimer, TypeOK, TimerGoroutines, Deregistered, Proc
  <2> QED
    BY <2>1 DEF FireTimer, Deregistered, TypeOK, Proc
<1>6. NoContextLost'
  <2>1. pc[c] = "idle"
    BY DEF FireTimer, TypeOK, TimerGoroutines
  <2>2. \A x \in CS : BeingCancelled(x) => BeingCancelled(x)'
    BY <2>1 DEF FireTimer, BeingCancelled, Pending, TypeOK, Proc
  <2> QED
    BY <2>2 DEF FireTimer, NoContextLost
<1>7. FreeIsBlank'
  BY DEF FireTimer, FreeIsBlank
<1>8. ListsAllocated'
  BY DEF FireTimer, ListsAllocated
<1>9. RegisteredAreOpen'
  BY DEF FireTimer, RegisteredAreOpen
<1>10. ErrExplained'
  BY DEF FireTimer, ErrExplained
<1> QED
  BY <1>1, <1>2, <1>3, <1>4, <1>5, <1>6, <1>7, <1>8, <1>9, <1>10 DEF ContextInv

(* The timer's CancelFunc deregisters as the application's does. *)
LEMMA TimerRemovesInv ==
    ASSUME ContextInv, NEW c \in CS, TimerRemoves(c)
    PROVE  ContextInv'
<1> USE ContextAssumption DEF ContextInv
<1>1. TypeOK'
  <2>1. children' \in [CS -> SUBSET CS]
    BY DEF TimerRemoves, RemoveChild, TypeOK
  <2>2. \A q \in Proc : pc'[q] # "idle" => pc[q] # "idle"
    BY DEF TimerRemoves, TypeOK, Proc
  <2> QED
    BY <2>1, <2>2 DEF TimerRemoves, TypeOK, Proc
<1>2. CarriedExplained'
  BY DEF TimerRemoves, RemoveChild, CarriedExplained, Pending, Errors, Proc, TypeOK,
         Entry, TimerGoroutines
<1>3. Deregistered'
  <2>1. arg[c] = c
    BY DEF TimerRemoves, TimerGoroutines, Proc
  <2>2. \A x, y \in CS : x \in children'[y] => x \in children[y]
    BY DEF TimerRemoves, RemoveChild, TypeOK
  <2>3. \A y \in CS : c \notin children'[y]
    BY DEF TimerRemoves, RemoveChild, TypeOK, RegisteredAreOpen
  <2>4. \A q \in Proc : q # c => pc'[q] = pc[q]
    BY DEF TimerRemoves, TypeOK, Proc
  <2>5. \A q \in Proc : stack[q] # <<>> => pc'[q] = "propagate"
    BY <2>4 DEF TimerRemoves, Deregistered
  <2>6. \A q \in Proc : pc[q] # "idle" => arg[q] \in CS
    BY DEF TypeOK
  <2> QED
    BY <2>1, <2>2, <2>3, <2>4, <2>5, <2>6 DEF TimerRemoves, Deregistered
<1>4. NoContextLost'
  <2>1. \A x \in CS : BeingCancelled(x) => BeingCancelled(x)'
    BY DEF TimerRemoves, BeingCancelled, Pending, TypeOK, Proc
  <2>2. BeingCancelled(c)'
    BY DEF TimerRemoves, TimerGoroutines, BeingCancelled, TypeOK, Proc
  <2>3. \A x, y \in CS : x # c /\ x \in children[y] => x \in children'[y]
    BY DEF TimerRemoves, RemoveChild, TypeOK
  <2> QED
    BY <2>1, <2>2, <2>3 DEF TimerRemoves, NoContextLost, TypeOK
<1>5. FreeIsBlank'
  BY DEF TimerRemoves, RemoveChild, FreeIsBlank
<1>6. ListsAllocated'
  BY DEF TimerRemoves, RemoveChild, ListsAllocated
<1>7. ConstructorsApart'
  BY DEF TimerRemoves, RemoveChild, ConstructorsApart, Constructing, Proc
<1>8. TimerGoroutines'
  BY DEF TimerRemoves, RemoveChild, TimerGoroutines, Proc
<1>9. RegisteredAreOpen'
  BY DEF TimerRemoves, RemoveChild, RegisteredAreOpen
<1>10. ErrExplained'
  BY DEF TimerRemoves, RemoveChild, ErrExplained
<1> QED
  BY <1>1, <1>2, <1>3, <1>4, <1>5, <1>6, <1>7, <1>8, <1>9, <1>10 DEF ContextInv

(* The end of the recursive cancel leaves nothing pending. *)
LEMMA PropagatedInv ==
    ASSUME ContextInv, NEW p \in Proc, Propagated(p)
    PROVE  ContextInv'
<1> USE ContextAssumption DEF ContextInv
<1>a. \A q \in Proc : q # p => /\ pc'[q] = pc[q]
                               /\ op'[q] = op[q]
                               /\ arg'[q] = arg[q]
                               /\ perr'[q] = perr[q]
  BY DEF Propagated, EndCall, TypeOK
<1>b. \/ pc'[p] = "idle" /\ op'[p] = "none" /\ arg'[p] = NoCS /\ perr'[p] = "nil"
      \/ /\ pc'[p] = "return" /\ op[p] \in {"WithCancel", "WithDeadline"}
         /\ op'[p] = op[p] /\ arg'[p] = arg[p] /\ perr'[p] = perr[p]
  BY DEF Propagated, EndCall, TypeOK, TimerGoroutines
<1>c. pc[p] = "propagate" /\ stack[p] = <<>> /\ Pending(p) = {}
  BY NoFrames DEF Propagated, Pending
<1>d. UNCHANGED <<status, ctx, parent, err, children, timer, called, stack>>
  BY DEF Propagated
<1>e. \A q \in Proc : Pending(q)' = Pending(q)
  BY <1>d DEF Pending
<1>1. TypeOK'
  <2>1. \A q \in Proc : pc'[q] # "idle" =>
            pc[q] # "idle" /\ arg'[q] = arg[q]
    BY <1>a, <1>b, <1>c
  <2>2. /\ pc' \in [Proc -> {"idle", "return", "remove", "stop", "cancel", "propagate"}]
        /\ op' \in [Proc -> {"none", "WithCancel", "WithDeadline", "CancelFunc"}]
        /\ arg' \in [Proc -> CS \cup {NoCS}]
        /\ perr' \in [Proc -> Errors \cup {"nil"}]
    BY ZenonT(30) DEF Propagated, EndCall, TypeOK
  <2> QED
    BY <1>d, <2>1, <2>2 DEF TypeOK
<1>2. ConstructorsApart'
  <2>1. \A q \in Proc : Constructing(q)' => /\ Constructing(q)
                                            /\ arg'[q] = arg[q]
                                            /\ pc'[q] # "idle"
                                            /\ op'[q] = op[q]
    BY <1>a, <1>b DEF ConstructorsApart, Constructing
  <2>2. \A q \in Proc : op'[q] = "WithDeadline" => Constructing(q)'
    BY DEF Constructing
  <2> QED
    BY <1>d, <2>1, <2>2 DEF ConstructorsApart
<1>3. TimerGoroutines'
  <2>1. \A q \in Proc : pc'[q] # "idle" => pc[q] # "idle" /\ op'[q] # "none"
    BY <1>a, <1>b, <1>c DEF TimerGoroutines
  <2> QED
    BY <1>a, <1>b, <1>c, <1>d, <2>1 DEF TimerGoroutines, Proc
<1>4. CarriedExplained'
  BY <1>a, <1>b, <1>c, <1>d, <1>e DEF CarriedExplained
<1>5. Deregistered'
  BY <1>a, <1>b, <1>c, <1>d DEF Deregistered
<1>6. NoContextLost'
  <2>1. \A x \in CS : BeingCancelled(x) => BeingCancelled(x)'
    BY <1>a, <1>b, <1>c, <1>e DEF BeingCancelled
  <2> QED
    BY <1>d, <2>1 DEF NoContextLost
<1>7. FreeIsBlank'
  BY DEF Propagated, EndCall, FreeIsBlank
<1>8. ListsAllocated'
  BY DEF Propagated, EndCall, ListsAllocated
<1>9. RegisteredAreOpen'
  BY DEF Propagated, EndCall, RegisteredAreOpen
<1>10. ErrExplained'
  BY DEF Propagated, EndCall, ErrExplained
<1> QED
  BY <1>1, <1>2, <1>3, <1>4, <1>5, <1>6, <1>7, <1>8, <1>9, <1>10 DEF ContextInv

(* Steps of other packages. *)
LEMMA StutterInv ==
    ASSUME ContextInv, UNCHANGED vars
    PROVE  ContextInv'
<1> USE ContextAssumption DEF ContextInv
<1>1. TypeOK'
  BY DEF vars, TypeOK
<1>2. FreeIsBlank'
  BY DEF vars, FreeIsBlank
<1>3. ListsAllocated'
  BY DEF vars, ListsAllocated
<1>4. ConstructorsApart'
  BY DEF vars, ConstructorsApart, Constructing, Proc
<1>5. TimerGoroutines'
  BY DEF vars, TimerGoroutines, Proc
<1>6. CarriedExplained'
  BY DEF vars, CarriedExplained, Pending, Errors, Proc
<1>7. Deregistered'
  BY DEF vars, Deregistered, Proc
<1>8. NoContextLost'
  BY DEF vars, NoContextLost, BeingCancelled, Pending, Proc
<1>9. RegisteredAreOpen'
  BY DEF vars, RegisteredAreOpen
<1>10. ErrExplained'
  BY DEF vars, ErrExplained
<1> QED
  BY <1>1, <1>2, <1>3, <1>4, <1>5, <1>6, <1>7, <1>8, <1>9, <1>10 DEF ContextInv

(* cancel(err) on a cancelState that is out of the registry and has a       *)
(* reason to close: the one critical section that closes cancelStates.      *)
LEMMA MarkInv ==
    ASSUME ContextInv,
           NEW p \in Proc, NEW c \in CS, NEW stk \in Seq(SUBSET CS),
           Mark(p, c, stk),
           pc[p] = "propagate" \/ (pc[p] = "cancel" /\ arg[p] = c),
           pc' = [pc EXCEPT ![p] = "propagate"],
           UNCHANGED <<status, ctx, parent, timer, called, op, arg, perr>>,
           status[c] # "free",
           \A x \in CS : c \notin children[x],
           Frames(stk) \subseteq Pending(p),
           Pending(p) \subseteq Frames(stk) \cup {c},
           \/ perr[p] = "Canceled" /\ c \in called
           \/ perr[p] = "DeadlineExceeded" /\ timer[c] = "fired"
           \/ parent[c] # NoCS /\ err[parent[c]] = perr[p]
    PROVE  ContextInv'
<1> USE ContextAssumption DEF ContextInv
<1>a. perr[p] \in Errors
  BY DEF CarriedExplained
<1>b. /\ err' \in [CS -> Errors \cup {"nil"}]
      /\ err'[c] # "nil"
      /\ err[c] = "nil" => err'[c] = perr[p]
      /\ \A x \in CS : x # c \/ err[x] # "nil" => err'[x] = err[x]
  <2>1. err \in [CS -> Errors \cup {"nil"}]
    BY DEF TypeOK
  <2>2. err' = IF err[c] = "nil" THEN [err EXCEPT ![c] = perr[p]] ELSE err
    BY DEF Mark
  <2>3. perr[p] # "nil"
    BY <1>a DEF Errors
  <2>4. CASE err[c] = "nil"
    <3>1. err' = [err EXCEPT ![c] = perr[p]]
      BY <2>2, <2>4
    <3> HIDE DEF ContextInv
    <3> QED
      BY <1>a, <2>1, <2>3, <2>4, <3>1
  <2>5. CASE err[c] # "nil"
    <3>1. err' = err
      BY <2>2, <2>5
    <3> QED
      BY <2>1, <2>5, <3>1
  <2> QED
    BY <2>4, <2>5
<1>c. /\ children' \in [CS -> SUBSET CS]
      /\ children'[c] = {}
      /\ \A x \in CS : x # c => children'[x] = children[x]
  <2>1. err[c] # "nil" => children[c] = {}
    BY DEF TypeOK, RegisteredAreOpen
  <2>2. children \in [CS -> SUBSET CS]
    BY DEF TypeOK
  <2>3. CASE err[c] = "nil"
    BY <2>2, <2>3 DEF Mark
  <2>4. CASE err[c] # "nil"
    BY <2>1, <2>2, <2>4 DEF Mark
  <2> QED
    BY <2>3, <2>4
<1>d. /\ stack' \in [Proc -> Seq(SUBSET CS)]
      /\ \A q \in Proc : q # p => Pending(q)' = Pending(q)
      /\ Pending(p)' = children[c] \cup Frames(stk)
  <2>1. children[c] \in SUBSET CS /\ (err[c] # "nil" => children[c] = {})
    BY DEF TypeOK, RegisteredAreOpen
  <2>2. PICK new \in Seq(SUBSET CS) : /\ stack' = [stack EXCEPT ![p] = new]
                                     /\ Frames(new) = children[c] \cup Frames(stk)
    BY <2>1, PushFrames DEF Mark
  <2>3. stack'[p] = new /\ \A q \in Proc : q # p => stack'[q] = stack[q]
    BY <2>2 DEF TypeOK
  <2> QED
    BY <2>2, <2>3 DEF TypeOK, Pending
<1>e. pc'[p] = "propagate" /\ \A q \in Proc : q # p => pc'[q] = pc[q]
  BY DEF TypeOK
<1>f. \A q \in Proc : \A x \in Pending(q) : x \in CS /\ perr[q] \in Errors
  <2>1. \A q \in Proc : stack[q] = <<>> \/ perr[q] \in Errors
    BY DEF Deregistered, CarriedExplained
  <2>2. \A q \in Proc : \A x \in Pending(q) : stack[q] # <<>>
    BY NoFrames DEF Pending
  <2>3. \A q \in Proc : Pending(q) \subseteq CS
    BY DEF TypeOK, Pending, Frames
  <2> QED
    BY <2>1, <2>2, <2>3
<1>1. TypeOK'
  <2>1. \A q \in Proc : pc'[q] # "idle" => pc[q] # "idle"
    BY <1>e
  <2> QED
    BY ZenonT(30), <1>b, <1>c, <1>d, <2>1 DEF TypeOK
<1>2. FreeIsBlank'
  BY <1>b DEF FreeIsBlank
<1>3. ListsAllocated'
  BY DEF ListsAllocated
<1>4. ConstructorsApart'
  BY <1>e DEF ConstructorsApart, Constructing
<1>5. TimerGoroutines'
  BY <1>e DEF TimerGoroutines, Proc
<1>6. CarriedExplained'
  <2>1. \A q \in Proc : pc[q] = "cancel" /\ op[q] # "CancelFunc" =>
            parent[arg[q]] \in CS /\ err[parent[arg[q]]] # "nil"
    <3>1. SUFFICES ASSUME NEW q \in Proc, pc[q] = "cancel", op[q] # "CancelFunc"
                   PROVE  parent[arg[q]] \in CS /\ err[parent[arg[q]]] # "nil"
      OBVIOUS
    <3>2. arg[q] \in CS /\ parent[arg[q]] \in CS \cup {NoCS}
      BY <3>1 DEF TypeOK
    <3>3. perr[q] \in Errors /\ parent[arg[q]] # NoCS /\ err[parent[arg[q]]] = perr[q]
      BY <3>1 DEF CarriedExplained
    <3> QED
      BY <3>2, <3>3 DEF Errors
  <2>2. \A q \in Proc : pc'[q] = "cancel" /\ op[q] # "CancelFunc" =>
            parent[arg[q]] # NoCS /\ err'[parent[arg[q]]] = perr[q]
    BY <1>b, <1>e, <2>1 DEF CarriedExplained
  <2>3. \A q \in Proc : \A x \in Pending(q) : parent[x] # NoCS /\ err'[parent[x]] = perr[q]
    <3>1. \A q \in Proc : \A x \in Pending(q) : parent[x] \in CS /\ err[parent[x]] # "nil"
      <4>1. SUFFICES ASSUME NEW q \in Proc, NEW x \in Pending(q)
                     PROVE  parent[x] \in CS /\ err[parent[x]] # "nil"
        OBVIOUS
      <4>2. x \in CS /\ perr[q] \in Errors
        BY <1>f
      <4>3. parent[x] # NoCS /\ err[parent[x]] = perr[q]
        BY DEF CarriedExplained
      <4> QED
        BY <4>2, <4>3 DEF TypeOK, Errors
    <3> QED
      BY <1>b, <3>1 DEF CarriedExplained
  <2>4. \A x \in children[c] : parent[x] # NoCS /\ err'[parent[x]] = perr[p]
    BY <1>b DEF RegisteredAreOpen
  <2>5. \A q \in Proc : \A x \in Pending(q)' : parent[x] # NoCS /\ err'[parent[x]] = perr[q]
    BY <1>d, <2>3, <2>4
  <2> QED
    BY <1>a, <1>e, <2>2, <2>5 DEF CarriedExplained
<1>7. Deregistered'
  <2>1. \A q \in Proc : q # p => stack'[q] = stack[q]
    BY DEF Mark, TypeOK
  <2>2. \A q \in Proc : stack'[q] # <<>> => pc'[q] = "propagate"
    BY <1>e, <2>1 DEF Deregistered
  <2>3. \A q \in Proc : pc'[q] \in {"stop", "cancel"} => \A x \in CS : arg[q] \notin children'[x]
    BY <1>c, <1>e DEF Deregistered
  <2> QED
    BY <2>2, <2>3 DEF Deregistered
<1>8. NoContextLost'
  <2>1. SUFFICES ASSUME NEW x \in CS,
                        status[x] # "free", parent[x] # NoCS, err'[x] = "nil"
                 PROVE  x \in children'[parent[x]] \/ BeingCancelled(x)'
    BY DEF NoContextLost
  <2>2. x # c /\ err[x] = "nil" /\ parent[x] \in CS
    BY <1>b, <2>1 DEF TypeOK
  <2>3. CASE x \in children[parent[x]]
    <3>1. CASE parent[x] = c
      BY <1>d, <2>3, <3>1 DEF BeingCancelled
    <3>2. CASE parent[x] # c
      BY <1>c, <2>2, <2>3, <3>2
    <3> QED
      BY <3>1, <3>2
  <2>4. CASE BeingCancelled(x)
    BY <1>d, <1>e, <2>2, <2>4 DEF BeingCancelled
  <2> QED
    BY <2>1, <2>2, <2>3, <2>4 DEF NoContextLost
<1>9. RegisteredAreOpen'
  <2>1. SUFFICES ASSUME NEW y \in CS, NEW x \in children'[y]
                 PROVE  parent[x] = y /\ err'[x] = "nil" /\ err'[y] = "nil"
    BY DEF RegisteredAreOpen
  <2>2. y # c /\ x \in children[y] /\ x \in CS /\ x # c
    BY <1>c, <2>1 DEF TypeOK
  <2> QED
    BY <1>b, <2>2 DEF RegisteredAreOpen
<1>10. ErrExplained'
  <2>1. ASSUME NEW x \in CS, err[x] # "nil"
        PROVE  \/ err'[x] = "Canceled" /\ x \in called
               \/ err'[x] = "DeadlineExceeded" /\ timer[x] = "fired"
               \/ parent[x] # NoCS /\ err'[x] = err'[parent[x]]
    BY <1>b, <2>1 DEF ErrExplained, TypeOK
  <2>2. CASE err[c] = "nil"
    <3>1. \/ err'[c] = "Canceled" /\ c \in called
          \/ err'[c] = "DeadlineExceeded" /\ timer[c] = "fired"
          \/ parent[c] # NoCS /\ err'[c] = err'[parent[c]]
      BY <1>a, <1>b, <2>2 DEF TypeOK, Errors
    <3> QED
      BY <1>b, <2>1, <3>1 DEF ErrExplained
  <2>3. CASE err[c] # "nil"
    BY <1>b, <2>1, <2>3 DEF ErrExplained
  <2> QED
    BY <2>2, <2>3
<1> QED
  BY <1>1, <1>2, <1>3, <1>4, <1>5, <1>6, <1>7, <1>8, <1>9, <1>10 DEF ContextInv

(* cancel(err) on the CancelFunc's, or the new, cancelState itself *)
LEMMA CancelSelfInv ==
    ASSUME ContextInv, NEW p \in Proc, CancelSelf(p)
    PROVE  ContextInv'
<1> USE ContextAssumption DEF ContextInv
<1>1. /\ arg[p] \in CS /\ status[arg[p]] # "free"
      /\ \A x \in CS : arg[p] \notin children[x]
      /\ pc[p] = "cancel"
  BY DEF CancelSelf, TypeOK, Deregistered
<1>2. Pending(p) = {} /\ Frames(<<>>) = {} /\ <<>> \in Seq(SUBSET CS)
  BY <1>1, NoFrames DEF Deregistered, Pending
<1>3. \/ perr[p] = "Canceled" /\ arg[p] \in called
      \/ perr[p] = "DeadlineExceeded" /\ timer[arg[p]] = "fired"
      \/ parent[arg[p]] # NoCS /\ err[parent[arg[p]]] = perr[p]
  BY <1>1 DEF CarriedExplained
<1> QED
  BY <1>1, <1>2, <1>3, MarkInv DEF CancelSelf

(* cancel(err) on a child taken over from a closed cancelState: it is in no *)
(* registry, because whoever it is registered with would be open.           *)
LEMMA CancelChildInv ==
    ASSUME ContextInv, NEW p \in Proc, CancelChild(p)
    PROVE  ContextInv'
<1> USE ContextAssumption DEF ContextInv
<1> DEFINE top == Head(stack[p])
           rest == Tail(stack[p])
<1>1. /\ stack[p] \in Seq(SUBSET CS) /\ stack[p] # <<>>
      /\ pc[p] = "propagate" /\ perr[p] \in Errors
  BY DEF CancelChild, TypeOK, CarriedExplained
<1>2. top \in SUBSET CS /\ rest \in Seq(SUBSET CS) /\ Pending(p) = top \cup Frames(rest)
  BY <1>1, SplitFrames DEF Pending
<1>3. PICK c \in top : Mark(p, c, Push(top \ {c}, rest))
  BY DEF CancelChild
<1>4. /\ Push(top \ {c}, rest) \in Seq(SUBSET CS)
      /\ Frames(Push(top \ {c}, rest)) = (top \ {c}) \cup Frames(rest)
  BY <1>2, PushFrames
<1>5. c \in CS /\ parent[c] \in CS /\ err[parent[c]] = perr[p]
  BY <1>2, <1>3 DEF CarriedExplained, TypeOK
<1>6. status[c] # "free"
  BY <1>5 DEF FreeIsBlank
<1>7. \A x \in CS : c \notin children[x]
  BY <1>1, <1>5 DEF RegisteredAreOpen, Errors
<1>8. /\ pc' = [pc EXCEPT ![p] = "propagate"]
      /\ UNCHANGED <<status, ctx, parent, timer, called, op, arg, perr>>
  BY <1>1 DEF CancelChild, TypeOK
<1> QED
  BY <1>1, <1>2, <1>3, <1>4, <1>5, <1>6, <1>7, <1>8, MarkInv

-----------------------------------------------------------------------------
(* Every behaviour of package context satisfies the inductive invariant:    *)
(* whatever the number of contexts and goroutines, the parent's registry,   *)
(* the goroutines on their way to a cancel and the errors recorded so far   *)
(* fit together after every critical section.                               *)
THEOREM ContextInvariant == Spec => []ContextInv
<1>1. Init => ContextInv
  <2> SUFFICES ASSUME Init PROVE ContextInv
    OBVIOUS
  <2> USE ContextAssumption
  <2>1. TypeOK
    BY DEF Init, TypeOK, Proc, Errors
  <2>2. \A p \in Proc : Pending(p) = {}
    BY NoFrames DEF Init, Pending
  <2>3. FreeIsBlank /\ ListsAllocated /\ ConstructorsApart /\ TimerGoroutines
    BY DEF Init, FreeIsBlank, ListsAllocated, ConstructorsApart, Constructing,
           TimerGoroutines, Proc
  <2>4. CarriedExplained /\ Deregistered
    BY <2>2 DEF Init, CarriedExplained, Deregistered
  <2>5. NoContextLost /\ RegisteredAreOpen /\ ErrExplained
    BY DEF Init, NoContextLost, RegisteredAreOpen, ErrExplained
  <2> QED
    BY <2>1, <2>3, <2>4, <2>5 DEF ContextInv
<1>2. ContextInv /\ [Next]_vars => ContextInv'
  <2> SUFFICES ASSUME ContextInv, [Next]_vars PROVE ContextInv'
    OBVIOUS
  <2>1. CASE \E g \in G, c \in CS : RootContext(g, c) \/ CancelFunc(g, c)
    BY <2>1, RootContextInv, CancelFuncInv
  <2>2. CASE \E g \in G, src, c \in CS :
          WithCancel(g, src, c) \/ WithRootCancel(g, src, c) \/ WithDeadline(g, src, c)
    BY <2>2, ConstructorInv
  <2>3. CASE \E g \in G : StartTimer(g) \/ Publish(g) \/ StopTimer(g)
    BY <2>3, StartTimerInv, PublishInv, StopTimerInv
  <2>4. CASE \E c \in CS : FireTimer(c) \/ TimerRemoves(c)
    BY <2>4, FireTimerInv, TimerRemovesInv
  <2>5. CASE \E p \in Proc : Continue(p)
    BY <2>5, CancelSelfInv, CancelChildInv, PropagatedInv DEF Continue
  <2>6. CASE UNCHANGED vars
    BY <2>6, StutterInv
  <2> QED
    BY <2>1, <2>2, <2>3, <2>4, <2>5, <2>6 DEF Next
<1> QED
  BY <1>1, <1>2, PTL DEF Spec

(* Type correctness of cancelStates, timers and goroutines. *)
THEOREM ContextTypes == Spec => []TypeOK
<1>1. ContextInv => TypeOK
  BY DEF ContextInv
<1> QED
  BY <1>1, ContextInvariant, PTL

(* addChild, removeChild and cancel may race in any order: no open context  *)
(* ever drops out of both its parent's registry and every pending cancel.   *)
THEOREM NothingLost == Spec => []NoContextLost
<1>1. ContextInv => NoContextLost
  BY DEF ContextInv
<1> QED
  BY <1>1, ContextInvariant, PTL

(* A closed cancelState is in no registry and has none of its own. *)
THEOREM RegistryOpen == Spec => []RegisteredAreOpen
<1>1. ContextInv => RegisteredAreOpen
  BY DEF ContextInv
<1> QED
  BY <1>1, ContextInvariant, PTL

(* Err() is the context's own cause or exactly its cancellation parent's. *)
THEOREM ErrorsExplained == Spec => []ErrExplained
<1>1. ContextInv => ErrExplained
  BY DEF ContextInv
<1> QED
  BY <1>1, ContextInvariant, PTL

(* Once every call has returned, nothing open is left below a closed        *)
(* cancelState.                                                             *)
THEOREM QuietClosed == Spec => []QuietMeansClosed
<1>1. ContextInv => QuietMeansClosed
  <2>1. SUFFICES ASSUME ContextInv, \A p \in Proc : pc[p] = "idle",
                        NEW c \in CS, status[c] = "published", parent[c] # NoCS,
                        err[parent[c]] # "nil", err[c] = "nil"
                 PROVE  FALSE
    BY DEF QuietMeansClosed
  <2>2. \A p \in Proc : Pending(p) = {}
    BY <2>1, NoFrames DEF ContextInv, Deregistered, Pending
  <2>3. ~BeingCancelled(c)
    BY <2>1, <2>2 DEF BeingCancelled
  <2>4. parent[c] \in CS /\ c \notin children[parent[c]]
    BY <2>1 DEF ContextInv, TypeOK, RegisteredAreOpen
  <2> QED
    BY <2>1, <2>3, <2>4 DEF ContextInv, NoContextLost
<1> QED
  BY <1>1, ContextInvariant, PTL

(* The error of a closed context never changes (cancel's test of c.err). *)
THEOREM ErrNeverChanges == Spec => ErrWriteOnce
<1> DEFINE Keeps == \A c \in CS : err[c] # "nil" => err'[c] = err[c]
<1>1. ASSUME ContextInv, [Next]_vars PROVE Keeps
  <2>1. ASSUME NEW p \in Proc, NEW c \in CS, NEW stk, Mark(p, c, stk) PROVE Keeps
    BY <1>1, <2>1 DEF Mark, ContextInv, TypeOK
  <2>2. CASE \E p \in Proc : CancelSelf(p)
    <3>1. PICK p \in Proc : CancelSelf(p)
      BY <2>2
    <3>2. arg[p] \in CS
      BY <1>1, <3>1 DEF ContextInv, TypeOK, CancelSelf
    <3> QED
      BY <2>1, <3>1, <3>2 DEF CancelSelf
  <2>3. CASE \E p \in Proc : CancelChild(p)
    <3>1. PICK p \in Proc : CancelChild(p)
      BY <2>3
    <3>2. Head(stack[p]) \subseteq CS
      BY <1>1, <3>1, SplitFrames DEF ContextInv, TypeOK, CancelChild
    <3> QED
      BY <2>1, <3>1, <3>2 DEF CancelChild
  <2>4. ASSUME NEW g \in G, NEW c \in CS, RootContext(g, c) \/ CancelFunc(g, c)
        PROVE  UNCHANGED err
    BY <2>4 DEF RootContext, CancelFunc
  <2>5. ASSUME NEW g \in G, NEW src \in CS, NEW c \in CS,
               WithCancel(g, src, c) \/ WithRootCancel(g, src, c) \/ WithDeadline(g, src, c)
        PROVE  UNCHANGED err
    BY <2>5 DEF WithCancel, WithRootCancel, WithDeadline, NewState
  <2>6. ASSUME NEW g \in G, StartTimer(g) \/ Publish(g) \/ StopTimer(g)
        PROVE  UNCHANGED err
    BY <2>6 DEF StartTimer, Publish, StopTimer
  <2>7. ASSUME NEW c \in CS, FireTimer(c) \/ TimerRemoves(c)
        PROVE  UNCHANGED err
    BY <2>7 DEF FireTimer, TimerRemoves
  <2>8. ASSUME NEW p \in Proc, Propagated(p)
        PROVE  UNCHANGED err
    BY <2>8 DEF Propagated
  <2>9. CASE UNCHANGED err
    BY <2>9
  <2>10. UNCHANGED vars => UNCHANGED err
    BY DEF vars
  <2> QED
    BY <1>1, <2>2, <2>3, <2>4, <2>5, <2>6, <2>7, <2>8, <2>9, <2>10 DEF Next, Continue
<1> QED
  BY <1>1, ContextInvariant, PTL DEF Spec, ErrWriteOnce
-----------------------------------------------------------------------------
(* Package context implements CancelScope: every critical section creates a *)
(* scope, asks it to close, closes it for its own reason or with its        *)
(* parent's, or is invisible.                                               *)
THEOREM ImplementsScopes == Spec => ScopeSafety
<1>1. Init => Scopes!Init
  BY ContextAssumption DEF Init, Scopes!Init, Asked
<1>2. ASSUME ContextInv, [Next]_vars PROVE [Scopes!Next]_(Scopes!vars)
  <2> USE <1>2, ContextAssumption DEF ContextInv
  <2>1. ASSUME NEW p \in Proc, NEW c \in CS, NEW stk, Mark(p, c, stk),
               UNCHANGED <<status, parent, timer, called>>,
               status[c] # "free", perr[p] \in Errors,
               \/ perr[p] = "Canceled" /\ c \in called
               \/ perr[p] = "DeadlineExceeded" /\ timer[c] = "fired"
               \/ parent[c] # NoCS /\ err[parent[c]] = perr[p]
        PROVE  Scopes!CloseOwn(c) \/ Scopes!CloseWithParent(c) \/ UNCHANGED Scopes!vars
    <3>1. UNCHANGED <<{x \in CS : status[x] # "free"}, parent, Asked>>
      BY <2>1 DEF Asked
    <3>2. CASE err[c] # "nil"
      BY <2>1, <3>1, <3>2 DEF Mark, Scopes!vars
    <3>3. CASE err[c] = "nil" /\ perr[p] \in Asked[c]
      BY <2>1, <3>1, <3>3 DEF Mark, Scopes!CloseOwn
    <3>4. CASE err[c] = "nil" /\ parent[c] # NoCS /\ err[parent[c]] = perr[p]
      BY <2>1, <3>1, <3>4 DEF Mark, Scopes!CloseWithParent, TypeOK, Errors
    <3> QED
      BY <2>1, <3>2, <3>3, <3>4 DEF Asked
  <2>2. CASE \E p \in Proc : CancelSelf(p)
    <3>1. PICK p \in Proc : CancelSelf(p)
      BY <2>2
    <3>2. arg[p] \in CS /\ status[arg[p]] # "free"
      BY <3>1 DEF TypeOK, CancelSelf
    <3>3. /\ perr[p] \in Errors
          /\ \/ perr[p] = "Canceled" /\ arg[p] \in called
             \/ perr[p] = "DeadlineExceeded" /\ timer[arg[p]] = "fired"
             \/ parent[arg[p]] # NoCS /\ err[parent[arg[p]]] = perr[p]
      BY <3>1 DEF CancelSelf, CarriedExplained
    <3>4. \/ Scopes!CloseOwn(arg[p]) \/ Scopes!CloseWithParent(arg[p])
          \/ UNCHANGED Scopes!vars
      BY <2>1, <3>1, <3>2, <3>3 DEF CancelSelf
    <3> QED
      BY <3>2, <3>4 DEF Scopes!Next
  <2>3. CASE \E p \in Proc : CancelChild(p)
    <3>1. PICK p \in Proc : CancelChild(p)
      BY <2>3
    <3>2. PICK c \in Head(stack[p]) : Mark(p, c, Push(Head(stack[p]) \ {c}, Tail(stack[p])))
      BY <3>1 DEF CancelChild
    <3>3. c \in CS /\ c \in Pending(p)
      BY ZenonT(30), <3>1, <3>2, SplitFrames DEF TypeOK, CancelChild, Pending
    <3>4. perr[p] \in Errors /\ parent[c] # NoCS /\ err[parent[c]] = perr[p]
      BY <3>1, <3>3 DEF CancelChild, CarriedExplained
    <3>5. status[c] # "free"
      BY <3>3, <3>4 DEF FreeIsBlank
    <3>6. Scopes!CloseOwn(c) \/ Scopes!CloseWithParent(c) \/ UNCHANGED Scopes!vars
      BY <2>1, <3>1, <3>2, <3>3, <3>4, <3>5 DEF CancelChild
    <3> QED
      BY <3>3, <3>6 DEF Scopes!Next
  <2>4. ASSUME NEW g \in G, NEW c \in CS, RootContext(g, c) PROVE Scopes!Create(c, NoCS)
    <3>1. parent[c] = NoCS /\ parent \in [CS -> CS \cup {NoCS}]
      BY <2>4 DEF RootContext, FreeIsBlank, TypeOK
    <3> QED
      BY <2>4, <3>1 DEF RootContext, Scopes!Create, Asked, TypeOK
  <2>5. ASSUME NEW g \in G, NEW src \in CS, NEW c \in CS, NEW o, NEW t,
               NEW cp \in {x \in CS : status[x] # "free"} \cup {NoCS},
               NewState(g, src, c, cp, o, t)
        PROVE  Scopes!Create(c, cp)
    BY <2>5 DEF NewState, Scopes!Create, Asked, TypeOK
  <2>6. ASSUME NEW g \in G, NEW src \in CS, NEW c \in CS,
               WithCancel(g, src, c) \/ WithRootCancel(g, src, c) \/ WithDeadline(g, src, c)
        PROVE  \E cp \in CS \cup {NoCS} : Scopes!Create(c, cp)
    BY <2>5, <2>6, ParentExists DEF WithCancel, WithRootCancel, WithDeadline
  <2>7. ASSUME NEW g \in G, NEW c \in CS, CancelFunc(g, c) PROVE Scopes!Ask(c, "Canceled")
    <3>1. Asked' = [Asked EXCEPT ![c] = @ \cup {"Canceled"}]
      BY <2>7 DEF CancelFunc, Asked
    <3> QED
      BY <2>7, <3>1 DEF CancelFunc, Scopes!Ask, Errors
  <2>8. ASSUME NEW c \in CS, FireTimer(c) PROVE Scopes!Ask(c, "DeadlineExceeded")
    <3>1. status[c] # "free"
      BY <2>8 DEF FireTimer, FreeIsBlank
    <3>2. Asked' = [Asked EXCEPT ![c] = @ \cup {"DeadlineExceeded"}]
      BY ZenonT(30), <2>8 DEF FireTimer, Asked, TypeOK
    <3> QED
      BY <2>8, <3>1, <3>2 DEF FireTimer, Scopes!Ask, Errors
  <2>9. ASSUME UNCHANGED <<parent, err, called>>,
               \A x \in CS : /\ status'[x] = "free" <=> status[x] = "free"
                             /\ timer'[x] = "fired" <=> timer[x] = "fired"
        PROVE  UNCHANGED Scopes!vars
    BY <2>9 DEF Scopes!vars, Asked
  <2>10. CASE \E g \in G : StartTimer(g) \/ Publish(g) \/ StopTimer(g)
    <3>1. PICK g \in G : StartTimer(g) \/ Publish(g) \/ StopTimer(g)
      BY <2>10
    <3>2. arg[g] \in CS /\ status[arg[g]] # "free"
      BY <3>1 DEF StartTimer, Publish, StopTimer, TypeOK, Proc
    <3>3. StartTimer(g) => timer[arg[g]] = "none"
      BY <3>1 DEF StartTimer, ConstructorsApart, Proc
    <3>4. \A x \in CS : /\ status'[x] = "free" <=> status[x] = "free"
                        /\ timer'[x] = "fired" <=> timer[x] = "fired"
      BY <3>1, <3>2, <3>3 DEF StartTimer, Publish, StopTimer, TypeOK
    <3>5. UNCHANGED <<parent, err, called>>
      BY <3>1 DEF StartTimer, Publish, StopTimer
    <3> QED
      BY <2>9, <3>4, <3>5
  <2>11. CASE UNCHANGED <<parent, err, called, status, timer>>
    BY <2>9, <2>11
  <2> QED
    <3>1. Scopes!Next \/ UNCHANGED Scopes!vars
          \/ ~(\E g \in G, c \in CS : RootContext(g, c) \/ CancelFunc(g, c))
      BY <2>4, <2>7 DEF Scopes!Next, Errors
    <3>2. Scopes!Next
          \/ ~(\E g \in G, src, c \in CS :
                WithCancel(g, src, c) \/ WithRootCancel(g, src, c) \/ WithDeadline(g, src, c))
      BY <2>6 DEF Scopes!Next
    <3>3. Scopes!Next \/ ~(\E c \in CS : FireTimer(c))
      BY <2>8 DEF Scopes!Next, Errors
    <3>4. (\E c \in CS : TimerRemoves(c)) => UNCHANGED <<parent, err, called, status, timer>>
      BY DEF TimerRemoves
    <3>5. (\E p \in Proc : Propagated(p)) => UNCHANGED <<parent, err, called, status, timer>>
      BY DEF Propagated
    <3>6. UNCHANGED vars => UNCHANGED <<parent, err, called, status, timer>>
      BY DEF vars
    <3> QED
      BY <1>2, <2>2, <2>3, <2>10, <2>11, <3>1, <3>2, <3>3, <3>4, <3>5, <3>6
         DEF Next, Continue
<1> QED
  BY <1>1, <1>2, ContextInvariant, PTL DEF Spec, ScopeSafety, Scopes!SafetySpec
=============================================================================
