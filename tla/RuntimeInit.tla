---------------------------- MODULE RuntimeInit ----------------------------
(***************************************************************************)
(* model.go and init.go: the registration of the one RuntimeFactory, Init   *)
(* (TryInit) and the Shutdown functions it returns, called by any           *)
(* goroutines.  initState is guarded by mu, but internalInit and vshutdown  *)
(* release it between their steps: every critical section and every call   *)
(* out (the factory, Runtime.Init, the runtime's shutdown) is a step.       *)
(***************************************************************************)
EXTENDS Naturals

CONSTANTS G,             \* the goroutines
          Call,          \* the calls of Init
          None,          \* the empty runtimeStack, the nil Runtime
          MaxShutdowns   \* bound: how often each Shutdown function is called

ASSUME RuntimeAssumption == None \notin Call /\ MaxShutdowns \in Nat

VARIABLES runtimeFactory,  \* has a RuntimeFactory been registered?
          runtimeStack,    \* the call whose stack initState.runtimeStack holds
          runtime,         \* the call whose Runtime initState.runtime holds
          pc, call,        \* per goroutine: where it is, in which call's Init or Shutdown
          result,          \* per call: what Init returned
          rootctx, ctx,    \* per call: the two contexts internalInit makes
          shutdowns        \* per call: how often its vshutdown was called

initState == <<runtimeFactory, runtimeStack, runtime>>
vars == <<initState, pc, call, result, rootctx, ctx, shutdowns>>

Goto(g, l) == pc' = [pc EXCEPT ![g] = l]

Init ==
    /\ runtimeFactory = FALSE /\ runtimeStack = None /\ runtime = None
    /\ pc = [g \in G |-> "idle"]
    /\ call = [g \in G |-> None]
    /\ result = [i \in Call |-> "none"]
    /\ rootctx = [i \in Call |-> "none"] /\ ctx = [i \in Call |-> "none"]
    /\ shutdowns = [i \in Call |-> 0]
-----------------------------------------------------------------------------
(* A second registration panics, and its deferred Unlock leaves no trace. *)
RegisterRuntimeFactory ==
    /\ ~runtimeFactory
    /\ runtimeFactory' = TRUE
    /\ UNCHANGED <<runtimeStack, runtime, pc, call, result, rootctx, ctx, shutdowns>>

(* An internalInit that goes by the runtime, which is only there after the  *)
(* factory has returned.                                                    *)
TryInitLateStack(g, i) ==
    /\ pc[g] = "idle" /\ result[i] = "none"
    /\ IF runtimeFactory /\ runtime = None
       THEN /\ Goto(g, "factory") /\ call' = [call EXCEPT ![g] = i]
            /\ result' = [result EXCEPT ![i] = "running"]
            /\ rootctx' = [rootctx EXCEPT ![i] = "live"]
            /\ ctx' = [ctx EXCEPT ![i] = "live"]
            /\ runtimeStack' = i
       ELSE /\ result' = [result EXCEPT ![i] = "refused"]
            /\ UNCHANGED <<runtimeStack, pc, call, rootctx, ctx>>
    /\ UNCHANGED <<runtimeFactory, runtime, shutdowns>>

(* internalInit up to the call of the factory, refused when there is no     *)
(* factory or when another call's stack is in initState.                    *)
TryInit(g, i) ==
    /\ pc[g] = "idle" /\ result[i] = "none"
    /\ IF runtimeFactory /\ runtimeStack = None
       THEN /\ runtimeStack' = i
            /\ Goto(g, "factory") /\ call' = [call EXCEPT ![g] = i]
            /\ result' = [result EXCEPT ![i] = "running"]
            /\ rootctx' = [rootctx EXCEPT ![i] = "live"]
            /\ ctx' = [ctx EXCEPT ![i] = "live"]
       ELSE /\ result' = [result EXCEPT ![i] = "refused"]
            /\ UNCHANGED <<runtimeStack, pc, call, rootctx, ctx>>
    /\ UNCHANGED <<runtimeFactory, runtime, shutdowns>>

(* The factory returns a Runtime. *)
FactoryReturns(g) ==
    /\ pc[g] = "factory"
    /\ Goto(g, "store")
    /\ UNCHANGED <<initState, call, result, rootctx, ctx, shutdowns>>

(* An error path that forgets rootcancel. *)
FactoryFailsKeepingRoot(g) ==
    /\ pc[g] = "factory"
    /\ Goto(g, "idle")
    /\ ctx' = [ctx EXCEPT ![call[g]] = "cancelled"]
    /\ result' = [result EXCEPT ![call[g]] = "factoryError"]
    /\ UNCHANGED <<initState, call, rootctx, shutdowns>>

(* The factory fails: both contexts are cancelled, runtimeStack is not      *)
(* cleared.                                                                 *)
FactoryFails(g) ==
    /\ pc[g] = "factory"
    /\ Goto(g, "idle")
    /\ ctx' = [ctx EXCEPT ![call[g]] = "cancelled"]
    /\ rootctx' = [rootctx EXCEPT ![call[g]] = "cancelled"]
    /\ result' = [result EXCEPT ![call[g]] = "factoryError"]
    /\ UNCHANGED <<initState, call, shutdowns>>

StoreRuntime(g) ==
    /\ pc[g] = "store"
    /\ runtime' = call[g]
    /\ Goto(g, "rtInit")
    /\ UNCHANGED <<runtimeFactory, runtimeStack, call, result, rootctx, ctx, shutdowns>>

(* rt.Init succeeds, and internalInit returns ctx and vshutdown. *)
RtInitReturns(g) ==
    /\ pc[g] = "rtInit"
    /\ Goto(g, "idle")
    /\ result' = [result EXCEPT ![call[g]] = "ok"]
    /\ UNCHANGED <<initState, call, rootctx, ctx, shutdowns>>

(* rt.Init fails: internalInit calls vshutdown itself. *)
RtInitFails(g) ==
    /\ pc[g] = "rtInit"
    /\ Goto(g, "cancel")
    /\ shutdowns' = [shutdowns EXCEPT ![call[g]] = @ + 1]
    /\ UNCHANGED <<initState, call, result, rootctx, ctx>>
-----------------------------------------------------------------------------
(* vshutdown, called by internalInit or by whoever was given it. *)

Shutdown(g, i) ==
    /\ pc[g] = "idle" /\ result[i] = "ok" /\ shutdowns[i] < MaxShutdowns
    /\ Goto(g, "cancel") /\ call' = [call EXCEPT ![g] = i]
    /\ shutdowns' = [shutdowns EXCEPT ![i] = @ + 1]
    /\ UNCHANGED <<initState, result, rootctx, ctx>>

Cancel(g) ==
    /\ pc[g] = "cancel"
    /\ Goto(g, "shutdown")
    /\ ctx' = [ctx EXCEPT ![call[g]] = "cancelled"]
    /\ UNCHANGED <<initState, call, result, rootctx, shutdowns>>

(* The runtime's own shutdown function, which may still use the v23         *)
(* functions and contexts below rootctx.                                    *)
RtShutdown(g) ==
    /\ pc[g] = "shutdown"
    /\ Goto(g, "rootcancel")
    /\ UNCHANGED <<initState, call, result, rootctx, ctx, shutdowns>>

RootCancel(g) ==
    /\ pc[g] = "rootcancel"
    /\ Goto(g, "clear")
    /\ rootctx' = [rootctx EXCEPT ![call[g]] = "cancelled"]
    /\ UNCHANGED <<initState, call, result, ctx, shutdowns>>

Clear(g) ==
    /\ pc[g] = "clear"
    /\ Goto(g, "idle")
    /\ runtime' = None /\ runtimeStack' = None
    /\ result' = [result EXCEPT ![call[g]] = IF @ = "running" THEN "initError" ELSE @]
    /\ UNCHANGED <<runtimeFactory, call, rootctx, ctx, shutdowns>>

Next ==
    \/ RegisterRuntimeFactory
    \/ \E g \in G, i \in Call : TryInit(g, i) \/ Shutdown(g, i)
    \/ \E g \in G : \/ FactoryReturns(g) \/ FactoryFails(g) \/ StoreRuntime(g)
                    \/ RtInitReturns(g) \/ RtInitFails(g)
                    \/ Cancel(g) \/ RtShutdown(g) \/ RootCancel(g) \/ Clear(g)

Spec == Init /\ [][Next]_vars
-----------------------------------------------------------------------------
VShutdown == {"cancel", "shutdown", "rootcancel", "clear"}

TypeOK ==
    /\ runtimeFactory \in BOOLEAN
    /\ runtimeStack \in Call \cup {None} /\ runtime \in Call \cup {None}
    /\ pc \in [G -> {"idle", "factory", "store", "rtInit"} \cup VShutdown]
    /\ call \in [G -> Call \cup {None}]
    /\ result \in [Call -> {"none", "refused", "running", "factoryError", "initError", "ok"}]
    /\ rootctx \in [Call -> {"none", "live", "cancelled"}]
    /\ ctx \in [Call -> {"none", "live", "cancelled"}]
    /\ shutdowns \in [Call -> Nat]
    /\ \A g \in G : pc[g] # "idle" => call[g] \in Call

(* The call's runtime is there for the program: rt.Init, the time until its *)
(* Shutdown is called, and all of the shutdown.                             *)
Serving(i) ==
    \/ result[i] = "ok" /\ shutdowns[i] = 0
    \/ \E g \in G : call[g] = i /\ pc[g] \in {"rtInit"} \cup VShutdown

(* The discipline init.go asks for: no Shutdown function is called twice.   *)
CalledOnce == \A i \in Call : shutdowns[i] <= 1

(* As long as no Shutdown function is called twice, a runtime that serves   *)
(* is the one currentRuntime returns, whatever other goroutines initialise  *)
(* or shut down meanwhile: rt.Init, the program and the cleanup may call    *)
(* the v23 functions, and the cleanup finds ctx cancelled and rootctx not.  *)
RuntimeUsable ==
    CalledOnce =>
      /\ \A i \in Call : Serving(i) => runtime = i /\ runtimeStack = i
      /\ \A g \in G : pc[g] = "shutdown" =>
            ctx[call[g]] = "cancelled" /\ rootctx[call[g]] = "live"

(* When no Init or Shutdown is in progress and every Shutdown was called    *)
(* (however often), nothing is left: no Runtime in initState, no live       *)
(* context, and another Init is refused only after a factory has failed.    *)
QuietMeansClean ==
    (/\ \A g \in G : pc[g] = "idle"
     /\ \A i \in Call : result[i] = "ok" => shutdowns[i] > 0)
    => /\ runtime = None
       /\ \A i \in Call : rootctx[i] # "live" /\ ctx[i] # "live"
       /\ runtimeStack # None => result[runtimeStack] = "factoryError"
=============================================================================
