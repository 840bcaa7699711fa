---------------------------- MODULE AbstractList ----------------------------
(***************************************************************************)
(* What Client.List promises (internal/client/client.go), without          *)
(* goroutines, pages, locks or error groups: one listing after the other,  *)
(* each at once.  A scope that is forbidden is passed over or tried again  *)
(* in the namespaces, any other failure makes List fail, but that of a     *)
(* listing in a namespace may be lost.  ClientList implements this         *)
(* specification, and Command is built on its steps.                       *)
(***************************************************************************)
CONSTANTS
    Namespaced,     \* the resources whose objects live in a namespace
    AllNamespaces   \* the empty string, that asks for the cluster scope

VARIABLES
    apis,                   \* input: the resources to list
    isClusterScopeRequest,  \* input: whether the cluster scope is asked for
    nsSet,                  \* input: the namespaces that are named
    pending,                \* the listings still to make: resource and namespace
    listed,                 \* those whose answers are in the list
    dropped,                \* whether the failure of a listing was lost
    result                  \* "running", "ok" or "error"

inputs == <<apis, isClusterScopeRequest, nsSet>>
vars == <<inputs, pending, listed, dropped, result>>

InitialScopes == apis \X (IF isClusterScopeRequest THEN {AllNamespaces} ELSE nsSet)

Init ==
    /\ pending = InitialScopes
    /\ listed = {}
    /\ dropped = FALSE
    /\ result = "running"

Take(s) == result = "running" /\ s \in pending /\ UNCHANGED <<inputs, result>>

(* The answer is appended to the list.                                     *)
ListScope(s) ==
    /\ Take(s)
    /\ pending' = pending \ {s}
    /\ listed' = listed \union {s}
    /\ UNCHANGED dropped

(* Mutant of FallBack: a resource forbidden at the cluster scope is given  *)
(* up.                                                                     *)
FallBackNowhere(a) == {}

(* Mutant of FallBack: the scope that was forbidden is tried again, too.   *)
FallBackEverywhere(a) == {a} \X (nsSet \union {AllNamespaces})

FallBack(a) == IF a \in Namespaced THEN {a} \X nsSet ELSE {}

SkipForbidden(s) ==
    /\ Take(s)
    /\ pending' = (pending \ {s}) \union (IF s[2] = AllNamespaces THEN FallBack(s[1]) ELSE {})
    /\ UNCHANGED <<listed, dropped>>

(* A failure is lost because the goroutines of all namespaces share err.   *)
LoseFailure(s) ==
    /\ Take(s)
    /\ s[2] # AllNamespaces
    /\ pending' = pending \ {s}
    /\ dropped' = TRUE
    /\ UNCHANGED listed

Succeed ==
    /\ result = "running" /\ pending = {}
    /\ result' = "ok"
    /\ UNCHANGED <<inputs, pending, listed, dropped>>

(* Without namespaces only a listing that failed, and so is still to be    *)
(* made, makes List fail.                                                  *)
Fail ==
    /\ result = "running" /\ (pending # {} \/ nsSet # {})
    /\ result' = "error"
    /\ UNCHANGED <<inputs, pending, listed, dropped>>

Next ==
    \/ \E s \in pending : ListScope(s) \/ SkipForbidden(s) \/ LoseFailure(s)
    \/ Succeed
    \/ Fail

Spec == Init /\ [][Next]_vars
=============================================================================
