------------------------------ MODULE Lineage ------------------------------
(***************************************************************************)
(* The lineage command (pkg/cmd/lineage/lineage.go): the relationships of  *)
(* one object.                                                             *)
(***************************************************************************)
EXTENDS Command

(* The server is reachable and has the type that is asked for.             *)
ResolveRequestType ==
    /\ AtStep("start", "get")
    /\ input.cmd = "lineage"
    /\ input.type \in KnownTypes
    /\ UNCHANGED <<request, listing, tree, graph, walk>>

UnknownRequestType ==
    /\ AtStep("start", "failed")
    /\ input.cmd = "lineage"
    /\ input.type \notin KnownTypes
    /\ UNCHANGED <<request, listing, tree, graph, walk>>

(* Fetch the root, to ensure that it exists.                               *)
GetRoot ==
    /\ AtStep("get", "types")
    /\ input.cmd = "lineage"
    /\ \E root \in Get(input.type, input.ns, input.name) : fetched' = <<root>>
    /\ UNCHANGED <<include, exclude, stored, namespaces, listing, tree, graph, walk>>

RootNotFound ==
    /\ AtStep("get", "failed")
    /\ input.cmd = "lineage"
    /\ Get(input.type, input.ns, input.name) = {}
    /\ UNCHANGED <<request, listing, tree, graph, walk>>

LineageNamespaces ==
    {input.ns} \union input.scopes
        \union (IF input.allNamespaces THEN {AllNamespaces} ELSE {})

SelectLineage ==
    /\ AtStep("select", "call")
    /\ input.cmd = "lineage"
    /\ namespaces' = LineageNamespaces
    /\ UNCHANGED <<include, exclude, fetched, stored, listing, tree, graph, walk>>

(* The call of Print: the root must be in the result.                      *)
PrintLineage ==
    /\ input.cmd = "lineage"
    /\ AtStep("resolved", IF fetched[1].uid \in nodeMap THEN "printed" ELSE "failed")
    /\ tree' = [root |-> fetched[1].uid,
                deps |-> [u \in nodeMap |-> Leads[u]],
                depth |-> [u \in nodeMap |-> nodeDepth[u]]]
    /\ UNCHANGED <<request, listing, graph, walk>>

LineageStep ==
    \/ ResolveRequestType \/ UnknownRequestType
    \/ GetRoot \/ RootNotFound
    \/ SelectLineage \/ PrintLineage
=============================================================================
