---------------------------- MODULE CancelScope ----------------------------
(***************************************************************************)
(* What package context promises about cancellation, without goroutines,   *)
(* locks or child registries: a forest of scopes, each of which closes at  *)
(* most once, either because it was asked to (CancelFunc or its deadline)  *)
(* or because its parent closed, in which case it takes its parent's error.*)
(* Context.tla is the code that keeps this promise.                        *)
(***************************************************************************)
CONSTANTS Scope,      \* the scopes (cancelStates) that may be created
          NoScope,    \* the parent of a root scope
          Cause,      \* the errors a scope can close with
          Open        \* the error of a scope that has not closed

VARIABLES created,    \* the scopes that exist
          parent,     \* parent[s]: the scope whose closing closes s
          asked,      \* asked[s]: the causes for which s itself was told to close
          err         \* err[s]: Open, or why s closed

vars == <<created, parent, asked, err>>

Init ==
    /\ created = {}
    /\ parent = [s \in Scope |-> NoScope]
    /\ asked = [s \in Scope |-> {}]
    /\ err = [s \in Scope |-> Open]

(* A new scope hangs below an existing one, or is a root. *)
Create(s, p) ==
    /\ s \in Scope \ created
    /\ p \in created \cup {NoScope}
    /\ created' = created \cup {s}
    /\ parent' = [parent EXCEPT ![s] = p]
    /\ UNCHANGED <<asked, err>>

(* CancelFunc is called, or the deadline passes. *)
Ask(s, e) ==
    /\ s \in created
    /\ e \in Cause
    /\ asked' = [asked EXCEPT ![s] = @ \cup {e}]
    /\ UNCHANGED <<created, parent, err>>

(* The scope closes for a reason of its own. *)
CloseOwn(s) ==
    /\ s \in created
    /\ err[s] = Open
    /\ \E e \in asked[s] : err' = [err EXCEPT ![s] = e]
    /\ UNCHANGED <<created, parent, asked>>

(* The scope closes because its parent did, and for the same reason. *)
CloseWithParent(s) ==
    /\ s \in created
    /\ err[s] = Open
    /\ parent[s] \in Scope
    /\ err[parent[s]] # Open
    /\ err' = [err EXCEPT ![s] = err[parent[s]]]
    /\ UNCHANGED <<created, parent, asked>>

Next ==
    \E s \in Scope :
        \/ \E p \in Scope \cup {NoScope} : Create(s, p)
        \/ \E e \in Cause : Ask(s, e)
        \/ CloseOwn(s)
        \/ CloseWithParent(s)

SafetySpec == Init /\ [][Next]_vars

(* Nothing that has a reason to close stays open. *)
Fairness == \A s \in Scope : WF_vars(CloseOwn(s) \/ CloseWithParent(s))

Spec == SafetySpec /\ Fairness
=============================================================================
