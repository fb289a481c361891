------------------------- MODULE RuntimeInitProofs -------------------------
(***************************************************************************)
(* Proofs about RuntimeInit, for any sets of goroutines and of calls and    *)
(* any number of calls of the Shutdown functions.                           *)
(***************************************************************************)
EXTENDS RuntimeInit, TLAPS

Busy(g) == pc[g] # "idle"

(* What a goroutine's place says of its call: before rt.Init has returned   *)
(* vshutdown has not been called; inside vshutdown it has.                  *)
Places ==
    /\ \A g \in G :
         /\ pc[g] \in {"factory", "store", "rtInit"} =>
               result[call[g]] = "running" /\ shutdowns[call[g]] = 0
         /\ pc[g] \in VShutdown =>
               result[call[g]] \in {"running", "ok"} /\ shutdowns[call[g]] > 0
    /\ \A i \in Call : result[i] = "none" => shutdowns[i] = 0

(* Init is run by one goroutine, and so is a Shutdown called only once.     *)
OneEach ==
    \A g, h \in G :
      (/\ Busy(g) /\ Busy(h) /\ call[g] = call[h]
       /\ result[call[g]] = "running" \/ CalledOnce)
      => g = h

(* The order of vshutdown's steps, as seen in the contexts. *)
ContextsFollow ==
    /\ \A g \in G :
         /\ pc[g] \in {"shutdown", "rootcancel", "clear"} => ctx[call[g]] = "cancelled"
         /\ pc[g] = "clear" => rootctx[call[g]] = "cancelled"
         /\ pc[g] \in {"factory", "store", "rtInit"} => rootctx[call[g]] = "live"
         /\ CalledOnce /\ pc[g] \in {"cancel", "shutdown", "rootcancel"} =>
               rootctx[call[g]] = "live"
    /\ \A i \in Call : result[i] = "ok" /\ shutdowns[i] = 0 => rootctx[i] = "live"

(* The call holds something: a live context, or a place in initState.       *)
Active(i) ==
    \/ result[i] = "ok" /\ shutdowns[i] = 0
    \/ \E g \in G : call[g] = i /\ Busy(g)

Owned ==
    /\ \A i \in Call : rootctx[i] = "live" \/ ctx[i] = "live" => Active(i)
    /\ runtime # None => Serving(runtime)
    /\ runtimeStack # None => Active(runtimeStack) \/ result[runtimeStack] = "factoryError"

(* Without a second call of a Shutdown, only one call is active at a time.  *)
Exclusive ==
    CalledOnce =>
      /\ \A i \in Call : Active(i) => runtimeStack = i
      /\ \A i \in Call : Serving(i) => runtime = i

RuntimeInv == TypeOK /\ Places /\ OneEach /\ ContextsFollow /\ Owned /\ Exclusive

LEMMA InitInv == Init => RuntimeInv
<1> SUFFICES ASSUME Init PROVE RuntimeInv
  OBVIOUS
<1> USE RuntimeAssumption DEF Init, VShutdown, Busy
<1>1. TypeOK
  BY DEF TypeOK
<1>2. Places /\ OneEach /\ ContextsFollow
  BY DEF Places, OneEach, ContextsFollow
<1>3. Owned /\ Exclusive
  BY DEF Owned, Exclusive, Active, Serving
<1> QED
  BY <1>1, <1>2, <1>3 DEF RuntimeInv

(* A goroutine that is busy with a call keeps that call from being started. *)
LEMMA BusyCall ==
    ASSUME RuntimeInv, NEW g \in G, Busy(g)
    PROVE  call[g] \in Call /\ result[call[g]] \in {"running", "ok"}
BY DEF RuntimeInv, TypeOK, Places, VShutdown, Busy

(* The factory returns: nothing but the goroutine's place changes. *)
LEMMA FactoryReturnsInv ==
    ASSUME RuntimeInv, NEW g \in G, FactoryReturns(g)
    PROVE  RuntimeInv'
<1> USE RuntimeAssumption DEF RuntimeInv
<1>a. /\ \A h \in G : h # g => pc'[h] = pc[h]
      /\ pc[g] = "factory" /\ pc'[g] = "store" /\ call' = call
      /\ result' = result
      /\ rootctx' = rootctx
      /\ ctx' = ctx
      /\ shutdowns' = shutdowns
      /\ runtime' = runtime
      /\ runtimeStack' = runtimeStack
  BY DEF TypeOK, FactoryReturns, Goto, initState
<1>b. Busy(g) /\ call[g] \in Call /\ result[call[g]] \in {"running", "ok"}
  BY <1>a, BusyCall DEF Busy
<1>c. CalledOnce' => CalledOnce
  BY <1>a, <1>b DEF CalledOnce, TypeOK
<1>1. TypeOK'
  BY <1>b DEF TypeOK, FactoryReturns, Goto, initState, VShutdown
<1>d. \A h \in G : Busy(h) => call[h] \in Call
  BY DEF TypeOK, Busy
<1> HIDE DEF RuntimeInv
<1>e. TypeOK /\ Places /\ OneEach /\ ContextsFollow /\ Owned /\ Exclusive
  BY DEF RuntimeInv
<1>2. Places'
  BY <1>a, <1>b, <1>d, <1>e DEF TypeOK, Places, OneEach, VShutdown, Busy
<1>3. OneEach'
  BY <1>a, <1>b, <1>c, <1>d, <1>e DEF OneEach, Busy
<1>4. ContextsFollow'
  BY <1>a, <1>b, <1>c, <1>d, <1>e DEF ContextsFollow, OneEach, Places, Busy, VShutdown, TypeOK
<1>5. Owned'
  BY <1>a, <1>b, <1>d, <1>e DEF Owned, Active, Serving, Busy, ContextsFollow, Places, TypeOK, VShutdown, OneEach
<1>6. Exclusive'
  BY <1>a, <1>b, <1>c, <1>d, <1>e DEF Exclusive, Active, Serving, Busy, Places, OneEach, TypeOK, VShutdown
<1> QED
  BY <1>1, <1>2, <1>3, <1>4, <1>5, <1>6 DEF RuntimeInv

(* The factory fails: no other goroutine is in this call, so nothing else relies on its contexts. *)
LEMMA FactoryFailsInv ==
    ASSUME RuntimeInv, NEW g \in G, FactoryFails(g)
    PROVE  RuntimeInv'
<1> USE RuntimeAssumption DEF RuntimeInv
<1>a. /\ \A h \in G : h # g => pc'[h] = pc[h]
      /\ pc[g] = "factory" /\ pc'[g] = "idle" /\ call' = call
      /\ \A j \in Call : j # call[g] => result'[j] = result[j]
      /\ result'[call[g]] = "factoryError"
      /\ \A j \in Call : j # call[g] => rootctx'[j] = rootctx[j]
      /\ rootctx'[call[g]] = "cancelled"
      /\ \A j \in Call : j # call[g] => ctx'[j] = ctx[j]
      /\ ctx'[call[g]] = "cancelled"
      /\ shutdowns' = shutdowns
      /\ runtime' = runtime
      /\ runtimeStack' = runtimeStack
  BY DEF TypeOK, FactoryFails, Goto, initState
<1>b. Busy(g) /\ call[g] \in Call /\ result[call[g]] \in {"running", "ok"}
  BY <1>a, BusyCall DEF Busy
<1>c. CalledOnce' => CalledOnce
  BY <1>a, <1>b DEF CalledOnce, TypeOK
<1>1. TypeOK'
  BY <1>b DEF TypeOK, FactoryFails, Goto, initState, VShutdown
<1>d. \A h \in G : Busy(h) => call[h] \in Call
  BY DEF TypeOK, Busy
<1> HIDE DEF RuntimeInv
<1>e. TypeOK /\ Places /\ OneEach /\ ContextsFollow /\ Owned /\ Exclusive
  BY DEF RuntimeInv
<1>2. Places'
  BY <1>a, <1>b, <1>d, <1>e DEF TypeOK, Places, OneEach, VShutdown, Busy
<1>3. OneEach'
  BY <1>a, <1>b, <1>c, <1>d, <1>e DEF OneEach, Busy
<1>4. ContextsFollow'
  BY <1>a, <1>b, <1>c, <1>d, <1>e DEF ContextsFollow, OneEach, Places, Busy, VShutdown, TypeOK
<1>5. Owned'
  BY <1>a, <1>b, <1>d, <1>e DEF Owned, Active, Serving, Busy, ContextsFollow, Places, TypeOK, VShutdown, OneEach
<1>6. Exclusive'
  BY <1>a, <1>b, <1>c, <1>d, <1>e DEF Exclusive, Active, Serving, Busy, Places, OneEach, TypeOK, VShutdown
<1> QED
  BY <1>1, <1>2, <1>3, <1>4, <1>5, <1>6 DEF RuntimeInv

(* The runtime is stored: under CalledOnce runtimeStack says that no other call serves. *)
LEMMA StoreRuntimeInv ==
    ASSUME RuntimeInv, NEW g \in G, StoreRuntime(g)
    PROVE  RuntimeInv'
<1> USE RuntimeAssumption DEF RuntimeInv
<1>a. /\ \A h \in G : h # g => pc'[h] = pc[h]
      /\ pc[g] = "store" /\ pc'[g] = "rtInit" /\ call' = call
      /\ result' = result
      /\ rootctx' = rootctx
      /\ ctx' = ctx
      /\ shutdowns' = shutdowns
      /\ runtime' = call[g]
      /\ runtimeStack' = runtimeStack
  BY DEF TypeOK, StoreRuntime, Goto, initState
<1>b. Busy(g) /\ call[g] \in Call /\ result[call[g]] \in {"running", "ok"}
  BY <1>a, BusyCall DEF Busy
<1>c. CalledOnce' => CalledOnce
  BY <1>a, <1>b DEF CalledOnce, TypeOK
<1>1. TypeOK'
  BY <1>b DEF TypeOK, StoreRuntime, Goto, initState, VShutdown
<1>d. \A h \in G : Busy(h) => call[h] \in Call
  BY DEF TypeOK, Busy
<1> HIDE DEF RuntimeInv
<1>e. TypeOK /\ Places /\ OneEach /\ ContextsFollow /\ Owned /\ Exclusive
  BY DEF RuntimeInv
<1>2. Places'
  BY <1>a, <1>b, <1>d, <1>e DEF TypeOK, Places, OneEach, VShutdown, Busy
<1>3. OneEach'
  BY <1>a, <1>b, <1>c, <1>d, <1>e DEF OneEach, Busy
<1>4. ContextsFollow'
  BY <1>a, <1>b, <1>c, <1>d, <1>e DEF ContextsFollow, OneEach, Places, Busy, VShutdown, TypeOK
<1>5. Owned'
  BY <1>a, <1>b, <1>d, <1>e DEF Owned, Active, Serving, Busy, ContextsFollow, Places, TypeOK, VShutdown, OneEach
<1>6. Exclusive'
  BY <1>a, <1>b, <1>c, <1>d, <1>e DEF Exclusive, Active, Serving, Busy, Places, OneEach, TypeOK, VShutdown
<1> QED
  BY <1>1, <1>2, <1>3, <1>4, <1>5, <1>6 DEF RuntimeInv

(* rt.Init returns: the call serves until its Shutdown is called. *)
LEMMA RtInitReturnsInv ==
    ASSUME RuntimeInv, NEW g \in G, RtInitReturns(g)
    PROVE  RuntimeInv'
<1> USE RuntimeAssumption DEF RuntimeInv
<1>a. /\ \A h \in G : h # g => pc'[h] = pc[h]
      /\ pc[g] = "rtInit" /\ pc'[g] = "idle" /\ call' = call
      /\ \A j \in Call : j # call[g] => result'[j] = result[j]
      /\ result'[call[g]] = "ok"
      /\ rootctx' = rootctx
      /\ ctx' = ctx
      /\ shutdowns' = shutdowns
      /\ runtime' = runtime
      /\ runtimeStack' = runtimeStack
  BY DEF TypeOK, RtInitReturns, Goto, initState
<1>b. Busy(g) /\ call[g] \in Call /\ result[call[g]] \in {"running", "ok"}
  BY <1>a, BusyCall DEF Busy
<1>c. CalledOnce' => CalledOnce
  BY <1>a, <1>b DEF CalledOnce, TypeOK
<1>1. TypeOK'
  BY <1>b DEF TypeOK, RtInitReturns, Goto, initState, VShutdown
<1>d. \A h \in G : Busy(h) => call[h] \in Call
  BY DEF TypeOK, Busy
<1> HIDE DEF RuntimeInv
<1>e. TypeOK /\ Places /\ OneEach /\ ContextsFollow /\ Owned /\ Exclusive
  BY DEF RuntimeInv
<1>2. Places'
  BY <1>a, <1>b, <1>d, <1>e DEF TypeOK, Places, OneEach, VShutdown, Busy
<1>3. OneEach'
  BY <1>a, <1>b, <1>c, <1>d, <1>e DEF OneEach, Busy
<1>4. ContextsFollow'
  BY <1>a, <1>b, <1>c, <1>d, <1>e DEF ContextsFollow, OneEach, Places, Busy, VShutdown, TypeOK
<1>5. Owned'
  BY <1>a, <1>b, <1>d, <1>e DEF Owned, Active, Serving, Busy, ContextsFollow, Places, TypeOK, VShutdown, OneEach
<1>6. Exclusive'
  BY <1>a, <1>b, <1>c, <1>d, <1>e DEF Exclusive, Active, Serving, Busy, Places, OneEach, TypeOK, VShutdown
<1> QED
  BY <1>1, <1>2, <1>3, <1>4, <1>5, <1>6 DEF RuntimeInv

(* rt.Init fails. *)
LEMMA RtInitFailsInv ==
    ASSUME RuntimeInv, NEW g \in G, RtInitFails(g)
    PROVE  RuntimeInv'
<1> USE RuntimeAssumption DEF RuntimeInv
<1>a. /\ \A h \in G : h # g => pc'[h] = pc[h]
      /\ pc[g] = "rtInit" /\ pc'[g] = "cancel" /\ call' = call
      /\ result' = result
      /\ rootctx' = rootctx
      /\ ctx' = ctx
      /\ \A j \in Call : j # call[g] => shutdowns'[j] = shutdowns[j]
      /\ shutdowns'[call[g]] = shutdowns[call[g]] + 1
      /\ runtime' = runtime
      /\ runtimeStack' = runtimeStack
  BY DEF TypeOK, RtInitFails, Goto, initState
<1>b. Busy(g) /\ call[g] \in Call /\ result[call[g]] \in {"running", "ok"}
  BY <1>a, BusyCall DEF Busy
<1>c. CalledOnce' => CalledOnce
  BY <1>a, <1>b DEF CalledOnce, TypeOK
<1>1. TypeOK'
  BY <1>b DEF TypeOK, RtInitFails, Goto, initState, VShutdown
<1>d. \A h \in G : Busy(h) => call[h] \in Call
  BY DEF TypeOK, Busy
<1> HIDE DEF RuntimeInv
<1>e. TypeOK /\ Places /\ OneEach /\ ContextsFollow /\ Owned /\ Exclusive
  BY DEF RuntimeInv
<1>2. Places'
  BY <1>a, <1>b, <1>d, <1>e DEF TypeOK, Places, OneEach, VShutdown, Busy
<1>3. OneEach'
  BY <1>a, <1>b, <1>c, <1>d, <1>e DEF OneEach, Busy
<1>4. ContextsFollow'
  BY <1>a, <1>b, <1>c, <1>d, <1>e DEF ContextsFollow, OneEach, Places, Busy, VShutdown, TypeOK
<1>5. Owned'
  BY <1>a, <1>b, <1>d, <1>e DEF Owned, Active, Serving, Busy, ContextsFollow, Places, TypeOK, VShutdown, OneEach
<1>6. Exclusive'
  BY <1>a, <1>b, <1>c, <1>d, <1>e DEF Exclusive, Active, Serving, Busy, Places, OneEach, TypeOK, VShutdown
<1> QED
  BY <1>1, <1>2, <1>3, <1>4, <1>5, <1>6 DEF RuntimeInv

(* The steps of vshutdown. *)
LEMMA CancelInv ==
    ASSUME RuntimeInv, NEW g \in G, Cancel(g)
    PROVE  RuntimeInv'
<1> USE RuntimeAssumption DEF RuntimeInv
<1>a. /\ \A h \in G : h # g => pc'[h] = pc[h]
      /\ pc[g] = "cancel" /\ pc'[g] = "shutdown" /\ call' = call
      /\ result' = result
      /\ rootctx' = rootctx
      /\ \A j \in Call : j # call[g] => ctx'[j] = ctx[j]
      /\ ctx'[call[g]] = "cancelled"
      /\ shutdowns' = shutdowns
      /\ runtime' = runtime
      /\ runtimeStack' = runtimeStack
  BY DEF TypeOK, Cancel, Goto, initState
<1>b. Busy(g) /\ call[g] \in Call /\ result[call[g]] \in {"running", "ok"}
  BY <1>a, BusyCall DEF Busy
<1>c. CalledOnce' => CalledOnce
  BY <1>a, <1>b DEF CalledOnce, TypeOK
<1>1. TypeOK'
  BY <1>b DEF TypeOK, Cancel, Goto, initState, VShutdown
<1>d. \A h \in G : Busy(h) => call[h] \in Call
  BY DEF TypeOK, Busy
<1> HIDE DEF RuntimeInv
<1>e. TypeOK /\ Places /\ OneEach /\ ContextsFollow /\ Owned /\ Exclusive
  BY DEF RuntimeInv
<1>2. Places'
  BY <1>a, <1>b, <1>d, <1>e DEF TypeOK, Places, OneEach, VShutdown, Busy
<1>3. OneEach'
  BY <1>a, <1>b, <1>c, <1>d, <1>e DEF OneEach, Busy
<1>4. ContextsFollow'
  BY <1>a, <1>b, <1>c, <1>d, <1>e DEF ContextsFollow, OneEach, Places, Busy, VShutdown, TypeOK
<1>5. Owned'
  BY <1>a, <1>b, <1>d, <1>e DEF Owned, Active, Serving, Busy, ContextsFollow, Places, TypeOK, VShutdown, OneEach
<1>6. Exclusive'
  BY <1>a, <1>b, <1>c, <1>d, <1>e DEF Exclusive, Active, Serving, Busy, Places, OneEach, TypeOK, VShutdown
<1> QED
  BY <1>1, <1>2, <1>3, <1>4, <1>5, <1>6 DEF RuntimeInv

(* See Cancel. *)
LEMMA RtShutdownInv ==
    ASSUME RuntimeInv, NEW g \in G, RtShutdown(g)
    PROVE  RuntimeInv'
<1> USE RuntimeAssumption DEF RuntimeInv
<1>a. /\ \A h \in G : h # g => pc'[h] = pc[h]
      /\ pc[g] = "shutdown" /\ pc'[g] = "rootcancel" /\ call' = call
      /\ result' = result
      /\ rootctx' = rootctx
      /\ ctx' = ctx
      /\ shutdowns' = shutdowns
      /\ runtime' = runtime
      /\ runtimeStack' = runtimeStack
  BY DEF TypeOK, RtShutdown, Goto, initState
<1>b. Busy(g) /\ call[g] \in Call /\ result[call[g]] \in {"running", "ok"}
  BY <1>a, BusyCall DEF Busy
<1>c. CalledOnce' => CalledOnce
  BY <1>a, <1>b DEF CalledOnce, TypeOK
<1>1. TypeOK'
  BY <1>b DEF TypeOK, RtShutdown, Goto, initState, VShutdown
<1>d. \A h \in G : Busy(h) => call[h] \in Call
  BY DEF TypeOK, Busy
<1> HIDE DEF RuntimeInv
<1>e. TypeOK /\ Places /\ OneEach /\ ContextsFollow /\ Owned /\ Exclusive
  BY DEF RuntimeInv
<1>2. Places'
  BY <1>a, <1>b, <1>d, <1>e DEF TypeOK, Places, OneEach, VShutdown, Busy
<1>3. OneEach'
  BY <1>a, <1>b, <1>c, <1>d, <1>e DEF OneEach, Busy
<1>4. ContextsFollow'
  BY <1>a, <1>b, <1>c, <1>d, <1>e DEF ContextsFollow, OneEach, Places, Busy, VShutdown, TypeOK
<1>5. Owned'
  BY <1>a, <1>b, <1>d, <1>e DEF Owned, Active, Serving, Busy, ContextsFollow, Places, TypeOK, VShutdown, OneEach
<1>6. Exclusive'
  BY <1>a, <1>b, <1>c, <1>d, <1>e DEF Exclusive, Active, Serving, Busy, Places, OneEach, TypeOK, VShutdown
<1> QED
  BY <1>1, <1>2, <1>3, <1>4, <1>5, <1>6 DEF RuntimeInv

(* See Cancel. *)
LEMMA RootCancelInv ==
    ASSUME RuntimeInv, NEW g \in G, RootCancel(g)
    PROVE  RuntimeInv'
<1> USE RuntimeAssumption DEF RuntimeInv
<1>a. /\ \A h \in G : h # g => pc'[h] = pc[h]
      /\ pc[g] = "rootcancel" /\ pc'[g] = "clear" /\ call' = call
      /\ result' = result
      /\ \A j \in Call : j # call[g] => rootctx'[j] = rootctx[j]
      /\ rootctx'[call[g]] = "cancelled"
      /\ ctx' = ctx
      /\ shutdowns' = shutdowns
      /\ runtime' = runtime
      /\ runtimeStack' = runtimeStack
  BY DEF TypeOK, RootCancel, Goto, initState
<1>b. Busy(g) /\ call[g] \in Call /\ result[call[g]] \in {"running", "ok"}
  BY <1>a, BusyCall DEF Busy
<1>c. CalledOnce' => CalledOnce
  BY <1>a, <1>b DEF CalledOnce, TypeOK
<1>1. TypeOK'
  BY <1>b DEF TypeOK, RootCancel, Goto, initState, VShutdown
<1>d. \A h \in G : Busy(h) => call[h] \in Call
  BY DEF TypeOK, Busy
<1> HIDE DEF RuntimeInv
<1>e. TypeOK /\ Places /\ OneEach /\ ContextsFollow /\ Owned /\ Exclusive
  BY DEF RuntimeInv
<1>2. Places'
  BY <1>a, <1>b, <1>d, <1>e DEF TypeOK, Places, OneEach, VShutdown, Busy
<1>3. OneEach'
  BY <1>a, <1>b, <1>c, <1>d, <1>e DEF OneEach, Busy
<1>4. ContextsFollow'
  BY <1>a, <1>b, <1>c, <1>d, <1>e DEF ContextsFollow, OneEach, Places, Busy, VShutdown, TypeOK
<1>5. Owned'
  BY <1>a, <1>b, <1>d, <1>e DEF Owned, Active, Serving, Busy, ContextsFollow, Places, TypeOK, VShutdown, OneEach
<1>6. Exclusive'
  BY <1>a, <1>b, <1>c, <1>d, <1>e DEF Exclusive, Active, Serving, Busy, Places, OneEach, TypeOK, VShutdown
<1> QED
  BY <1>1, <1>2, <1>3, <1>4, <1>5, <1>6 DEF RuntimeInv

(* initState is cleared: under CalledOnce the call was the only active one. *)
LEMMA ClearInv ==
    ASSUME RuntimeInv, NEW g \in G, Clear(g)
    PROVE  RuntimeInv'
<1> USE RuntimeAssumption DEF RuntimeInv
<1>a. /\ \A h \in G : h # g => pc'[h] = pc[h]
      /\ pc[g] = "clear" /\ pc'[g] = "idle" /\ call' = call
      /\ \A j \in Call : j # call[g] => result'[j] = result[j]
      /\ result'[call[g]] = (IF result[call[g]] = "running" THEN "initError" ELSE result[call[g]])
      /\ rootctx' = rootctx
      /\ ctx' = ctx
      /\ shutdowns' = shutdowns
      /\ runtime' = None
      /\ runtimeStack' = None
  BY DEF TypeOK, Clear, Goto, initState
<1>b. Busy(g) /\ call[g] \in Call /\ result[call[g]] \in {"running", "ok"}
  BY <1>a, BusyCall DEF Busy
<1>c. CalledOnce' => CalledOnce
  BY <1>a, <1>b DEF CalledOnce, TypeOK
<1>1. TypeOK'
  BY <1>b DEF TypeOK, Clear, Goto, initState, VShutdown
<1>d. \A h \in G : Busy(h) => call[h] \in Call
  BY DEF TypeOK, Busy
<1> HIDE DEF RuntimeInv
<1>e. TypeOK /\ Places /\ OneEach /\ ContextsFollow /\ Owned /\ Exclusive
  BY DEF RuntimeInv
<1>2. Places'
  BY <1>a, <1>b, <1>d, <1>e DEF TypeOK, Places, OneEach, VShutdown, Busy
<1>3. OneEach'
  BY <1>a, <1>b, <1>c, <1>d, <1>e DEF OneEach, Busy
<1>4. ContextsFollow'
  BY <1>a, <1>b, <1>c, <1>d, <1>e DEF ContextsFollow, OneEach, Places, Busy, VShutdown, TypeOK
<1>5. Owned'
  BY <1>a, <1>b, <1>d, <1>e DEF Owned, Active, Serving, Busy, ContextsFollow, Places, TypeOK, VShutdown, OneEach
<1>6. Exclusive'
  BY <1>a, <1>b, <1>c, <1>d, <1>e DEF Exclusive, Active, Serving, Busy, Places, OneEach, TypeOK, VShutdown
<1> QED
  BY <1>1, <1>2, <1>3, <1>4, <1>5, <1>6 DEF RuntimeInv

(* A call of Init: refused, it changes nothing but its own result; accepted, *)
(* it found runtimeStack empty, and under CalledOnce no call was active.     *)
LEMMA TryInitInv ==
    ASSUME RuntimeInv, NEW g \in G, NEW i \in Call, TryInit(g, i)
    PROVE  RuntimeInv'
<1> USE RuntimeAssumption
<1>a. \A h \in G : Busy(h) => call[h] \in Call /\ call[h] # i
  BY BusyCall DEF TryInit
<1>e. TypeOK /\ Places /\ OneEach /\ ContextsFollow /\ Owned /\ Exclusive
  BY DEF RuntimeInv
<1>1. TypeOK'
  BY <1>e DEF TypeOK, TryInit, Goto, VShutdown
<1>2. CASE runtimeFactory /\ runtimeStack = None
  <2>a. /\ \A h \in G : h # g => pc'[h] = pc[h] /\ call'[h] = call[h]
        /\ pc[g] = "idle" /\ pc'[g] = "factory" /\ call'[g] = i
        /\ \A j \in Call : j # i => /\ result'[j] = result[j]
                                    /\ rootctx'[j] = rootctx[j] /\ ctx'[j] = ctx[j]
        /\ result[i] = "none" /\ result'[i] = "running"
        /\ rootctx'[i] = "live" /\ ctx'[i] = "live"
        /\ shutdowns' = shutdowns /\ runtime' = runtime /\ runtimeStack' = i
    BY <1>2, <1>e DEF TryInit, Goto, TypeOK
  <2>b. CalledOnce' <=> CalledOnce
    BY <2>a DEF CalledOnce
  <2>1. Places'
    BY <1>a, <1>e, <2>a DEF Places, VShutdown, Busy
  <2>2. OneEach'
    BY <1>a, <1>e, <2>a, <2>b DEF OneEach, Busy
  <2>3. ContextsFollow'
    BY <1>a, <1>e, <2>a, <2>b DEF ContextsFollow, Busy
  <2>4. runtime # None => runtime # i
    BY <1>a, <1>e, <2>a DEF Owned, Serving, VShutdown, Busy
  <2>5. Owned'
    BY <1>a, <1>e, <2>a, <2>4 DEF Owned, Active, Serving, Busy, VShutdown, TypeOK
  <2>6. Exclusive'
    BY <1>a, <1>e, <1>2, <2>a, <2>b DEF Exclusive, Active, Serving, Busy, VShutdown, TypeOK
  <2> QED
    BY <1>1, <2>1, <2>2, <2>3, <2>5, <2>6 DEF RuntimeInv
<1>3. CASE ~(runtimeFactory /\ runtimeStack = None)
  <2>a. /\ \A j \in Call : j # i => result'[j] = result[j]
        /\ result[i] = "none" /\ result'[i] = "refused"
        /\ UNCHANGED <<runtimeStack, runtime, pc, call, rootctx, ctx, shutdowns>>
    BY <1>3, <1>e DEF TryInit, TypeOK
  <2>b. CalledOnce' <=> CalledOnce
    BY <2>a DEF CalledOnce
  <2>1. Places' /\ OneEach' /\ ContextsFollow'
    BY <1>a, <1>e, <2>a, <2>b DEF Places, OneEach, ContextsFollow, VShutdown, Busy
  <2>2. \A j \in Call : (Active(j)' <=> Active(j)) /\ (Serving(j)' <=> Serving(j))
    BY <2>a DEF Active, Serving, Busy, VShutdown
  <2>3. runtimeStack # i
    BY <1>a, <1>e, <2>a DEF Owned, Active, TypeOK
  <2>4. Owned' /\ Exclusive'
    BY <1>e, <2>a, <2>b, <2>2, <2>3 DEF Owned, Exclusive, TypeOK
  <2> QED
    BY <1>1, <2>1, <2>4 DEF RuntimeInv
<1> QED
  BY <1>2, <1>3

(* A call of a Shutdown function. *)
LEMMA ShutdownInv ==
    ASSUME RuntimeInv, NEW g \in G, NEW i \in Call, Shutdown(g, i)
    PROVE  RuntimeInv'
<1> USE RuntimeAssumption
<1>e. TypeOK /\ Places /\ OneEach /\ ContextsFollow /\ Owned /\ Exclusive
  BY DEF RuntimeInv
<1>a. /\ \A h \in G : h # g => pc'[h] = pc[h] /\ call'[h] = call[h]
      /\ pc[g] = "idle" /\ pc'[g] = "cancel" /\ call'[g] = i
      /\ result[i] = "ok" /\ shutdowns'[i] = shutdowns[i] + 1
      /\ \A j \in Call : j # i => shutdowns'[j] = shutdowns[j]
      /\ UNCHANGED <<runtimeStack, runtime, result, rootctx, ctx>>
  BY <1>e DEF Shutdown, Goto, TypeOK, initState
<1>b. \A h \in G : Busy(h) => call[h] \in Call
  BY <1>e DEF TypeOK, Busy
<1>c. CalledOnce' => CalledOnce /\ shutdowns[i] = 0
  BY <1>a, <1>e DEF CalledOnce, TypeOK
<1>d. \A h \in G : Busy(h) /\ call[h] = i => shutdowns[i] > 0
  BY <1>a, <1>e DEF Places, Busy, VShutdown, TypeOK
<1>1. TypeOK'
  BY <1>e DEF Shutdown, Goto, TypeOK, initState, VShutdown
<1>2. Places'
  BY <1>a, <1>b, <1>e DEF Places, VShutdown, Busy, TypeOK
<1>3. OneEach'
  BY <1>a, <1>b, <1>c, <1>d, <1>e DEF OneEach, Busy, TypeOK
<1>4. ContextsFollow'
  BY <1>a, <1>b, <1>c, <1>e DEF ContextsFollow, Busy, TypeOK
<1>5. /\ \A j \in Call : Active(j)' <=> Active(j) \/ j = i
      /\ \A j \in Call : Serving(j)' <=> Serving(j) \/ j = i
  BY <1>a, <1>e DEF Active, Serving, Busy, VShutdown, TypeOK
<1>6. Owned'
  BY <1>a, <1>e, <1>5 DEF Owned, TypeOK
<1>7. Exclusive'
  BY <1>a, <1>c, <1>e, <1>5 DEF Exclusive, Active, Serving
<1> QED
  BY <1>1, <1>2, <1>3, <1>4, <1>6, <1>7 DEF RuntimeInv

(* RuntimeInv does not mention runtimeFactory, except for its type. *)
LEMMA RegisterInv ==
    ASSUME RuntimeInv,
           runtimeFactory' \in BOOLEAN,
           UNCHANGED <<runtimeStack, runtime, pc, call, result, rootctx, ctx, shutdowns>>
    PROVE  RuntimeInv'
BY DEF RuntimeInv, TypeOK, Places, OneEach, ContextsFollow, Owned, Exclusive, Active, Serving,
       CalledOnce, Busy

LEMMA NextInv == RuntimeInv /\ [Next]_vars => RuntimeInv'
<1> SUFFICES ASSUME RuntimeInv, [Next]_vars PROVE RuntimeInv'
  OBVIOUS
<1>1. CASE RegisterRuntimeFactory
  BY <1>1, RegisterInv DEF RegisterRuntimeFactory
<1>2. CASE UNCHANGED vars
  BY <1>2, RegisterInv DEF vars, initState, RuntimeInv, TypeOK
<1>3. ASSUME NEW g \in G, NEW i \in Call, TryInit(g, i) \/ Shutdown(g, i)
      PROVE  RuntimeInv'
  BY <1>3, TryInitInv, ShutdownInv
<1>4. ASSUME NEW g \in G,
             \/ FactoryReturns(g) \/ FactoryFails(g) \/ StoreRuntime(g)
             \/ RtInitReturns(g) \/ RtInitFails(g)
             \/ Cancel(g) \/ RtShutdown(g) \/ RootCancel(g) \/ Clear(g)
      PROVE  RuntimeInv'
  BY <1>4, FactoryReturnsInv, FactoryFailsInv, StoreRuntimeInv, RtInitReturnsInv,
     RtInitFailsInv, CancelInv, RtShutdownInv, RootCancelInv, ClearInv
<1> QED
  BY <1>1, <1>2, <1>3, <1>4 DEF Next

LEMMA RuntimeInvariant == Spec => []RuntimeInv
BY InitInv, NextInv, PTL DEF Spec

(* currentRuntime returns the runtime of whichever call of Init serves, and *)
(* the cleanup runs below a live rootctx, however goroutines interleave     *)
(* Init and Shutdown (model.go, internalInit and vshutdown), as long as no  *)
(* Shutdown function is called twice.                                       *)
THEOREM RuntimeStaysUsable == Spec => []RuntimeUsable
<1>1. RuntimeInv => RuntimeUsable
  <2> SUFFICES ASSUME RuntimeInv, CalledOnce
               PROVE  /\ \A i \in Call : Serving(i) => runtime = i /\ runtimeStack = i
                      /\ \A g \in G : pc[g] = "shutdown" =>
                            ctx[call[g]] = "cancelled" /\ rootctx[call[g]] = "live"
    BY DEF RuntimeUsable
  <2>1. \A i \in Call : Serving(i) => Active(i)
    BY DEF Serving, Active, Busy, VShutdown
  <2>2. \A i \in Call : Serving(i) => runtime = i /\ runtimeStack = i
    BY <2>1 DEF RuntimeInv, Exclusive
  <2>3. \A g \in G : pc[g] = "shutdown" =>
            ctx[call[g]] = "cancelled" /\ rootctx[call[g]] = "live"
    BY DEF RuntimeInv, ContextsFollow
  <2> QED
    BY <2>2, <2>3
<1> QED
  BY <1>1, RuntimeInvariant, PTL

(* Once every Init has failed or been shut down, initState names no runtime *)
(* and no context is live, even when Shutdown functions were called twice;  *)
(* only a failed factory leaves runtimeStack set (model.go:434).            *)
THEOREM QuietRuntimeIsClean == Spec => []QuietMeansClean
<1>1. RuntimeInv => QuietMeansClean
  <2> SUFFICES ASSUME RuntimeInv,
                      \A g \in G : pc[g] = "idle",
                      \A i \in Call : result[i] = "ok" => shutdowns[i] > 0
               PROVE  /\ runtime = None
                      /\ \A i \in Call : rootctx[i] # "live" /\ ctx[i] # "live"
                      /\ runtimeStack # None => result[runtimeStack] = "factoryError"
    BY DEF QuietMeansClean
  <2>1. \A i \in Call : ~Active(i) /\ ~Serving(i)
    BY DEF Active, Serving, Busy, VShutdown, RuntimeInv, TypeOK
  <2> QED
    BY <2>1 DEF RuntimeInv, Owned, TypeOK
<1> QED
  BY <1>1, RuntimeInvariant, PTL
=============================================================================
