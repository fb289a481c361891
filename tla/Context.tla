------------------------------ MODULE Context ------------------------------
(***************************************************************************)
(* context/context.go: the tree of cancelStates behind context.T.          *)
(*                                                                         *)
(* Every critical section of a cancelState's mutex is one action; between  *)
(* two critical sections any other goroutine may run.  Goroutines are the  *)
(* application's (G) and the one the Go runtime starts when the deadline   *)
(* timer of a cancelState fires (named by that cancelState).               *)
(*                                                                         *)
(* A context.T is the sequence of the entries of its linked list that      *)
(* matter for cancellation, innermost first: [key, cs], where key is       *)
(* cancelKey ("cancel") or deadlineKey ("deadline") and cs identifies the  *)
(* cancelState or the deadlineState created with it.                       *)
(***************************************************************************)
EXTENDS Naturals, Sequences, FiniteSets

CONSTANTS CS,     \* the cancelState objects the run may allocate
          G,      \* application goroutines
          NoCS    \* a nil *cancelState

ASSUME ContextAssumption == /\ NoCS \notin CS \cup G
                            /\ G \cap CS = {}

VARIABLES
    status,     \* status[c]: "free", "new" (constructor running) or "published"
    ctx,        \* ctx[c]: the context.T returned together with c's CancelFunc
    parent,     \* parent[c]: the cancelParent captured by c's CancelFunc
    err,        \* cancelState.err; cancelState.done is closed iff it is not "nil"
    children,   \* cancelState.children (a nil map is the empty set)
    timer,      \* the time.Timer of c's deadlineState
    called,     \* history: the cancelStates whose CancelFunc has been called
    pc,         \* what each goroutine does next
    op,         \* the constructor or CancelFunc it is executing
    arg,        \* the cancelState that call is about
    perr,       \* the error its cancel(err) carries
    stack       \* pending siblings of its recursive cancel calls, innermost first

vars == <<status, ctx, parent, err, children, timer, called, pc, op, arg, perr, stack>>

Proc == G \cup CS
Errors == {"Canceled", "DeadlineExceeded"}
Entry == [key : {"cancel", "deadline"}, cs : CS]

Init ==
    /\ status = [c \in CS |-> "free"]
    /\ ctx = [c \in CS |-> <<>>]
    /\ parent = [c \in CS |-> NoCS]
    /\ err = [c \in CS |-> "nil"]
    /\ children = [c \in CS |-> {}]
    /\ timer = [c \in CS |-> "none"]
    /\ called = {}
    /\ pc = [p \in Proc |-> "idle"]
    /\ op = [p \in Proc |-> "none"]
    /\ arg = [p \in Proc |-> NoCS]
    /\ perr = [p \in Proc |-> "nil"]
    /\ stack = [p \in Proc |-> <<>>]
-----------------------------------------------------------------------------
(* Reading a context.T. *)

(* T.Value: the innermost entry with the key. *)
Value(t, k) ==
    IF \E i \in DOMAIN t : t[i].key = k
    THEN t[CHOOSE i \in DOMAIN t :
             t[i].key = k /\ \A j \in DOMAIN t : t[j].key = k => i <= j].cs
    ELSE NoCS

(* The loop of WithRootCancel: the outermost cancelState of the list. *)
RootState(t) ==
    IF \E i \in DOMAIN t : t[i].key = "cancel"
    THEN t[CHOOSE i \in DOMAIN t :
             t[i].key = "cancel" /\ \A j \in DOMAIN t : t[j].key = "cancel" => j <= i].cs
    ELSE NoCS

(* T.Deadline: the deadlineState whose time it reports. *)
Deadline(c) == Value(ctx[c], "deadline")
-----------------------------------------------------------------------------
(* The critical sections of cancelState. *)

(* addChild, when the parent is still open. *)
AddChild(cp, c) ==
    /\ children' = IF cp = NoCS \/ err[cp] # "nil"
                   THEN children
                   ELSE [children EXCEPT ![cp] = @ \cup {c}]

(* removeChild; a nil cancelParent has no children to remove from. *)
RemoveChild(cp, c) ==
    children' = IF cp = NoCS THEN children ELSE [children EXCEPT ![cp] = @ \ {c}]

Push(S, stk) == IF S = {} THEN stk ELSE <<S>> \o stk

MarkKeepChildren(p, c, stk) ==
    IF err[c] = "nil"
    THEN /\ err' = [err EXCEPT ![c] = perr[p]]
         /\ stack' = [stack EXCEPT ![p] = stk]
         /\ children' = [children EXCEPT ![c] = {}]
    ELSE /\ stack' = [stack EXCEPT ![p] = stk]
         /\ UNCHANGED <<err, children>>

MarkAlwaysCanceled(p, c, stk) ==
    IF err[c] = "nil"
    THEN /\ err' = [err EXCEPT ![c] = "Canceled"]
         /\ children' = [children EXCEPT ![c] = {}]
         /\ stack' = [stack EXCEPT ![p] = Push(children[c], stk)]
    ELSE /\ stack' = [stack EXCEPT ![p] = stk]
         /\ UNCHANGED <<err, children>>

(* cancel(err) up to its unlock: only the first call closes done and takes *)
(* over the children, which are then cancelled one by one, depth first.    *)
Mark(p, c, stk) ==
    IF err[c] = "nil"
    THEN /\ err' = [err EXCEPT ![c] = perr[p]]
         /\ children' = [children EXCEPT ![c] = {}]
         /\ stack' = [stack EXCEPT ![p] = Push(children[c], stk)]
    ELSE /\ stack' = [stack EXCEPT ![p] = stk]
         /\ UNCHANGED <<err, children>>

(* A call returns and its locals are gone. *)
EndCall(p) ==
    /\ pc' = [pc EXCEPT ![p] = "idle"]
    /\ op' = [op EXCEPT ![p] = "none"]
    /\ arg' = [arg EXCEPT ![p] = NoCS]
    /\ perr' = [perr EXCEPT ![p] = "nil"]
-----------------------------------------------------------------------------
(* Constructors. *)

(* RootContext: a WithCancel whose parent has no cancelState.  Nothing is   *)
(* shared until it returns.                                                *)
RootContext(g, c) ==
    /\ pc[g] = "idle"
    /\ status[c] = "free"
    /\ status' = [status EXCEPT ![c] = "published"]
    /\ ctx' = [ctx EXCEPT ![c] = <<[key |-> "cancel", cs |-> c]>>]
    /\ UNCHANGED <<parent, err, children, timer, called, pc, op, arg, perr, stack>>

(* The common part of the constructors: allocate the cancelState, addChild  *)
(* it to cp, and go on to cancel it when cp is already closed.              *)
NewState(g, src, c, cp, o, t) ==
    /\ pc[g] = "idle"
    /\ status[src] = "published"
    /\ status[c] = "free"
    /\ status' = [status EXCEPT ![c] = "new"]
    /\ ctx' = [ctx EXCEPT ![c] = t]
    /\ parent' = [parent EXCEPT ![c] = cp]
    /\ AddChild(cp, c)
    /\ op' = [op EXCEPT ![g] = o]
    /\ arg' = [arg EXCEPT ![g] = c]
    /\ IF cp # NoCS /\ err[cp] # "nil"
       THEN /\ pc' = [pc EXCEPT ![g] = "cancel"]
            /\ perr' = [perr EXCEPT ![g] = err[cp]]
       ELSE /\ pc' = [pc EXCEPT ![g] = "return"]
            /\ UNCHANGED perr
    /\ UNCHANGED <<err, timer, called, stack>>

WithCancel(g, src, c) ==
    NewState(g, src, c, Value(ctx[src], "cancel"), "WithCancel",
             <<[key |-> "cancel", cs |-> c]>> \o ctx[src])

WithRootCancel(g, src, c) ==
    NewState(g, src, c, RootState(ctx[src]), "WithCancel",
             <<[key |-> "cancel", cs |-> c]>> \o ctx[src])

(* WithDeadline and WithTimeout. *)
WithDeadline(g, src, c) ==
    NewState(g, src, c, Value(ctx[src], "cancel"), "WithDeadline",
             <<[key |-> "deadline", cs |-> c], [key |-> "cancel", cs |-> c]>> \o ctx[src])

(* withDeadlineState: time.AfterFunc, then the T is built. *)
StartTimer(g) ==
    /\ pc[g] = "return"
    /\ op[g] = "WithDeadline"
    /\ timer' = [timer EXCEPT ![arg[g]] = "armed"]
    /\ op' = [op EXCEPT ![g] = "WithCancel"]
    /\ UNCHANGED <<status, ctx, parent, err, children, called, pc, arg, perr, stack>>

(* The constructor hands the T and its CancelFunc to the application. *)
Publish(g) ==
    /\ pc[g] = "return"
    /\ op[g] = "WithCancel"
    /\ status' = [status EXCEPT ![arg[g]] = "published"]
    /\ EndCall(g)
    /\ UNCHANGED <<ctx, parent, err, children, timer, called, stack>>
-----------------------------------------------------------------------------
(* CancelFuncs, as makeCancelFunc builds them. *)

(* The application calls c's CancelFunc: removeChild first. *)
CancelFunc(g, c) ==
    /\ pc[g] = "idle"
    /\ status[c] = "published"
    /\ called' = called \cup {c}
    /\ RemoveChild(parent[c], c)
    /\ pc' = [pc EXCEPT ![g] = "stop"]
    /\ op' = [op EXCEPT ![g] = "CancelFunc"]
    /\ arg' = [arg EXCEPT ![g] = c]
    /\ perr' = [perr EXCEPT ![g] = "Canceled"]
    /\ UNCHANGED <<status, ctx, parent, err, timer, stack>>

(* then timer.Stop, which does nothing once the timer has fired *)
StopTimer(g) ==
    /\ pc[g] = "stop"
    /\ timer' = IF timer[arg[g]] = "armed"
                THEN [timer EXCEPT ![arg[g]] = "stopped"]
                ELSE timer
    /\ pc' = [pc EXCEPT ![g] = "cancel"]
    /\ UNCHANGED <<status, ctx, parent, err, children, called, op, arg, perr, stack>>

(* The deadline passes: the runtime starts a goroutine for the timer's own  *)
(* CancelFunc, which carries DeadlineExceeded and stops no timer.           *)
FireTimer(c) ==
    /\ timer[c] = "armed"
    /\ timer' = [timer EXCEPT ![c] = "fired"]
    /\ pc' = [pc EXCEPT ![c] = "remove"]
    /\ op' = [op EXCEPT ![c] = "CancelFunc"]
    /\ arg' = [arg EXCEPT ![c] = c]
    /\ perr' = [perr EXCEPT ![c] = "DeadlineExceeded"]
    /\ UNCHANGED <<status, ctx, parent, err, children, called, stack>>

TimerRemoves(c) ==
    /\ pc[c] = "remove"
    /\ RemoveChild(parent[c], c)
    /\ pc' = [pc EXCEPT ![c] = "cancel"]
    /\ UNCHANGED <<status, ctx, parent, err, timer, called, op, arg, perr, stack>>

(* cancel(err) on the call's own cancelState *)
CancelSelf(p) ==
    /\ pc[p] = "cancel"
    /\ Mark(p, arg[p], <<>>)
    /\ pc' = [pc EXCEPT ![p] = "propagate"]
    /\ UNCHANGED <<status, ctx, parent, timer, called, op, arg, perr>>

(* cancel(err) on one of the children taken over, in map iteration order *)
CancelChild(p) ==
    /\ pc[p] = "propagate"
    /\ stack[p] # <<>>
    /\ \E c \in Head(stack[p]) : Mark(p, c, Push(Head(stack[p]) \ {c}, Tail(stack[p])))
    /\ UNCHANGED <<status, ctx, parent, timer, called, pc, op, arg, perr>>

(* The recursion is over: back into the constructor, or out of CancelFunc. *)
Propagated(p) ==
    /\ pc[p] = "propagate"
    /\ stack[p] = <<>>
    /\ \/ /\ op[p] = "CancelFunc"
          /\ EndCall(p)
       \/ /\ op[p] # "CancelFunc"
          /\ pc' = [pc EXCEPT ![p] = "return"]
          /\ UNCHANGED <<op, arg, perr>>
    /\ UNCHANGED <<status, ctx, parent, err, children, timer, called, stack>>
-----------------------------------------------------------------------------
Continue(p) == CancelSelf(p) \/ CancelChild(p) \/ Propagated(p)

Next ==
    \/ \E g \in G, c \in CS : RootContext(g, c) \/ CancelFunc(g, c)
    \/ \E g \in G, src, c \in CS :
          WithCancel(g, src, c) \/ WithRootCancel(g, src, c) \/ WithDeadline(g, src, c)
    \/ \E g \in G : StartTimer(g) \/ Publish(g) \/ StopTimer(g)
    \/ \E c \in CS : FireTimer(c) \/ TimerRemoves(c)
    \/ \E p \in Proc : Continue(p)

Spec == Init /\ [][Next]_vars

(* A goroutine that is inside the package is scheduled again, and the       *)
(* runtime fires every timer that is not stopped.  Nobody has to call.      *)
Fairness ==
    /\ \A g \in G : WF_vars(StartTimer(g) \/ Publish(g) \/ StopTimer(g))
    /\ \A p \in Proc : WF_vars(Continue(p))
    /\ \A c \in CS : WF_vars(FireTimer(c) \/ TimerRemoves(c))

FairSpec == Spec /\ Fairness
-----------------------------------------------------------------------------
(* Properties. *)

(* Shape of the state.  A timer exists only for the contexts built by       *)
(* withDeadlineState.                                                       *)
TypeOK ==
    /\ status \in [CS -> {"free", "new", "published"}]
    /\ ctx \in [CS -> Seq(Entry)]
    /\ parent \in [CS -> CS \cup {NoCS}]
    /\ err \in [CS -> Errors \cup {"nil"}]
    /\ children \in [CS -> SUBSET CS]
    /\ timer \in [CS -> {"none", "armed", "stopped", "fired"}]
    /\ called \in SUBSET CS
    /\ pc \in [Proc -> {"idle", "return", "remove", "stop", "cancel", "propagate"}]
    /\ op \in [Proc -> {"none", "WithCancel", "WithDeadline", "CancelFunc"}]
    /\ arg \in [Proc -> CS \cup {NoCS}]
    /\ perr \in [Proc -> Errors \cup {"nil"}]
    /\ stack \in [Proc -> Seq(SUBSET CS)]
    /\ \A p \in Proc : pc[p] # "idle" => arg[p] \in CS /\ status[arg[p]] # "free"
    /\ \A c \in CS : timer[c] # "none" => ctx[c] # <<>> /\ Head(ctx[c]).key = "deadline"

(* The children some goroutine has taken over and still has to cancel. *)
Frames(stk) == UNION {stk[i] : i \in DOMAIN stk}
Pending(p) == Frames(stack[p])

(* A goroutine will still cancel c. *)
BeingCancelled(c) ==
    \E p \in Proc : \/ pc[p] \in {"stop", "cancel"} /\ arg[p] = c
                    \/ c \in Pending(p)

(* No cancellation is lost (addChild, removeChild and cancel race): an open *)
(* context below a cancelState is either registered with it, so that its    *)
(* cancel will find the child, or some goroutine is on its way to cancel it.*)
NoContextLost ==
    \A c \in CS :
        status[c] # "free" /\ parent[c] # NoCS /\ err[c] = "nil"
            => c \in children[parent[c]] \/ BeingCancelled(c)

(* The registry leaks nothing: whoever is registered is open, and so is the *)
(* cancelState it is registered with (CancelFunc's removeChild, cancel's    *)
(* children = nil).                                                         *)
RegisteredAreOpen ==
    \A p \in CS : \A c \in children[p] : parent[c] = p /\ err[c] = "nil" /\ err[p] = "nil"

(* Err() is never invented: a context is closed by its own CancelFunc, by   *)
(* its own timer, or with exactly the error of the cancelState above it;    *)
(* so a deadline below a cancelled parent reports Canceled and a context    *)
(* from WithRootCancel never takes an intermediate deadline's error.        *)
ErrExplained ==
    \A c \in CS :
        err[c] # "nil" =>
            \/ err[c] = "Canceled" /\ c \in called
            \/ err[c] = "DeadlineExceeded" /\ timer[c] = "fired"
            \/ parent[c] # NoCS /\ err[c] = err[parent[c]]

(* When no call is in progress, a closed cancelState has no open context    *)
(* below it: what WithCancel promises of all contexts derived from it.      *)
QuietMeansClosed ==
    (\A p \in Proc : pc[p] = "idle") =>
        \A c \in CS : status[c] = "published" /\ parent[c] # NoCS /\ err[parent[c]] # "nil"
                         => err[c] # "nil"

(* Err() never changes once Done() is closed, whoever cancels again and     *)
(* with whatever error.                                                     *)
ErrWriteOnce == [][\A c \in CS : err[c] # "nil" => err'[c] = err[c]]_vars

(* The comment of T.Deadline: it "returns the time at which this context    *)
(* will be automatically canceled".                                         *)
ReportedDeadlineCancels ==
    \A c \in CS :
        (Deadline(c) # NoCS /\ timer[Deadline(c)] = "fired") ~> (err[c] # "nil")
-----------------------------------------------------------------------------
(* The inductive invariant behind the properties above. *)

(* What a cancelState looks like before it is allocated. *)
FreeIsBlank ==
    \A c \in CS : status[c] = "free" =>
        parent[c] = NoCS /\ err[c] = "nil" /\ timer[c] = "none" /\ c \notin called

(* The linked list of a T only names cancelStates that exist. *)
ListsAllocated ==
    \A c \in CS : \A i \in DOMAIN ctx[c] : status[ctx[c][i].cs] # "free"

(* A constructor is the only one working on its cancelState, whose timer it *)
(* has not started while op is WithDeadline.                                *)
Constructing(p) == op[p] \in {"WithCancel", "WithDeadline"}
ConstructorsApart ==
    /\ \A p \in Proc : Constructing(p) => pc[p] # "idle" /\ status[arg[p]] = "new"
    /\ \A p, q \in Proc : Constructing(p) /\ Constructing(q) /\ arg[p] = arg[q] => p = q
    /\ \A p \in Proc : op[p] = "WithDeadline" =>
          timer[arg[p]] = "none" /\ ctx[arg[p]] # <<>> /\ Head(ctx[arg[p]]).key = "deadline"

(* A timer's goroutine runs only after the timer fired. *)
TimerGoroutines ==
    /\ \A c \in CS : pc[c] # "idle" => timer[c] = "fired"
    /\ \A p \in Proc : pc[p] = "remove" => p \in CS /\ arg[p] = p /\ op[p] = "CancelFunc"
    /\ \A p \in Proc : pc[p] # "idle" => op[p] # "none"
    /\ \A p \in Proc : pc[p] = "stop" => op[p] = "CancelFunc"

(* The error a cancel(err) carries is the one its call was made with. *)
CarriedExplained ==
    /\ \A p \in Proc : pc[p] \in {"remove", "stop", "cancel", "propagate"} => perr[p] \in Errors
    /\ \A p \in Proc : pc[p] \in {"remove", "stop", "cancel"} /\ op[p] = "CancelFunc" =>
          \/ perr[p] = "Canceled" /\ arg[p] \in called
          \/ perr[p] = "DeadlineExceeded" /\ timer[arg[p]] = "fired"
    /\ \A p \in Proc : pc[p] = "cancel" /\ op[p] # "CancelFunc" =>
          parent[arg[p]] # NoCS /\ err[parent[arg[p]]] = perr[p]
    /\ \A p \in Proc : \A c \in Pending(p) :
          parent[c] # NoCS /\ err[parent[c]] = perr[p]

(* Whoever is about to be cancelled directly is no longer registered, and   *)
(* only a propagating goroutine has pending children.                       *)
Deregistered ==
    /\ \A p \in Proc : pc[p] \in {"stop", "cancel"} => \A x \in CS : arg[p] \notin children[x]
    /\ \A p \in Proc : stack[p] # <<>> => pc[p] = "propagate"

ContextInv ==
    /\ TypeOK /\ FreeIsBlank /\ ListsAllocated /\ ConstructorsApart /\ TimerGoroutines
    /\ CarriedExplained /\ Deregistered
    /\ NoContextLost /\ RegisteredAreOpen /\ ErrExplained
-----------------------------------------------------------------------------
(* The abstract specification this one implements. *)
Asked == [c \in CS |-> (IF c \in called THEN {"Canceled"} ELSE {})
                         \cup (IF timer[c] = "fired" THEN {"DeadlineExceeded"} ELSE {})]

Scopes == INSTANCE CancelScope
            WITH Scope <- CS, NoScope <- NoCS, Cause <- Errors, Open <- "nil",
                 created <- {c \in CS : status[c] # "free"},
                 parent <- parent, asked <- Asked, err <- err

(* Every step of the package is a step of CancelScope or invisible in it. *)
ScopeSafety == Scopes!SafetySpec

(* and, with the scheduler's fairness, nothing with a reason to close stays open *)
ScopeLiveness == Scopes!Spec
=============================================================================
