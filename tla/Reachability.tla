---------------------------- MODULE Reachability ----------------------------
(***************************************************************************)
(* What resolveDeps promises ("resolves all dependencies or dependents of  *)
(* the provided objects", internal/graph/graph.go), without queue, levels  *)
(* or order: starting from the provided objects that are known, it follows *)
(* relationships in any order, and returns when nothing is left to follow. *)
(* Traversal implements this specification.                                *)
(***************************************************************************)


VARIABLES
    adj,       \* input: the UIDs each known object leads to
    roots,     \* input: the set of UIDs provided
    found,     \* the UIDs of the objects resolved so far
    returned   \* whether the result has been returned

vars == <<adj, roots, found, returned>>

Known == DOMAIN adj

(* With nothing provided there is nothing to do.                           *)
Init ==
    /\ found = {}
    /\ returned = (roots = {})

Begin(r) ==
    /\ ~returned
    /\ r \in roots \intersect Known
    /\ found' = found \union {r}
    /\ UNCHANGED <<adj, roots, returned>>

Expand(u) ==
    /\ ~returned
    /\ u \in found
    /\ found' = found \union adj[u]
    /\ UNCHANGED <<adj, roots, returned>>

Return ==
    /\ ~returned
    /\ roots \intersect Known \subseteq found
    /\ \A u \in found : adj[u] \subseteq found
    /\ returned' = TRUE
    /\ UNCHANGED <<adj, roots, found>>

Next ==
    \/ \E r \in roots : Begin(r)
    \/ \E u \in found : Expand(u)
    \/ Return

Spec == Init /\ [][Next]_vars

FairSpec == Spec /\ WF_vars(Next)
=============================================================================
