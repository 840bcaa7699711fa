------------------------------ MODULE Command ------------------------------
(***************************************************************************)
(* What the two commands have in common (Run in pkg/cmd/lineage/lineage.go *)
(* and pkg/cmd/helm/helm.go): resolve the types named by flags, list the   *)
(* cluster, append to the list the objects that were fetched by name, let  *)
(* resolveDeps build the graph and walk it, and hand the result to the     *)
(* printer.  The modules of the parts are composed here: ObjectGraph and   *)
(* Traversal take their steps on the variables below, and List those of    *)
(* AbstractList, which ClientList implements.                              *)
(*                                                                         *)
(* Every request is answered from the cluster as it then is: between two   *)
(* requests it may change.                                                 *)
(***************************************************************************)
EXTENDS Discovery, Naturals, Sequences, FiniteSets, Functions, SequencesExt

CONSTANTS
    Uid, Class, Name, Namespace, Label, Relationship,
    NodeClass, ControllerRef, OwnerRef,   \* as in ObjectGraph
    NamespacedClass,   \* the classes whose objects live in a namespace
    Served(_, _),      \* an object's manifest as it is presented in a class
    Inputs             \* what a command may be given, and by which cluster

AllNamespaces == ""    \* the namespace that asks for the cluster scope
ReleaseUID == ""       \* the UID of the node that stands for a Helm release

(* What both commands take: the flags, and of the servers the resources    *)
(* they offer, the groups whose discovery fails, the listings they forbid, *)
(* and the cluster before and after the change it may undergo.             *)
ASSUME InputsAssumption ==
    /\ IsFiniteSet(Uid) /\ Name \subseteq Uid
    /\ NodeClass \in Class /\ NamespacedClass \subseteq Class
    /\ {ControllerRef, OwnerRef} \subseteq Relationship
    /\ ReleaseUID \notin Uid /\ AllNamespaces \in Namespace
    /\ \A i \in Inputs :
          /\ i.cmd \in {"lineage", "helm"}
          /\ i.ns \in Namespace \ {AllNamespaces}
          /\ i.dependencies \in BOOLEAN /\ i.allNamespaces \in BOOLEAN
          /\ i.scopes \subseteq Namespace
          /\ \A r \in i.offers : r.class \in Class
          /\ i.forbidden \subseteq Class \X Namespace

VARIABLES
    input,         \* the command and its flags, never changed
    cluster,       \* the objects in the cluster
    pc,            \* what the command does next
    include,       \* includeAPIs and
    exclude,       \* excludeAPIs, as classes
    fetched,       \* the objects fetched by name, the root or rlsObjs
    stored,        \* stgObj: at most one object
    namespaces,    \* the namespaces given to List
    pending,       \* the listings List has still to make: class and namespace
    listed,        \* those that were answered
    dropped,       \* whether List lost the failure of a listing
    tree,          \* what the printer is given
    objects, gpc, gix, byUID, byKey, todo, rmap, dependencies, dependents,
    uids, wpc, wix, nodeMap, queue, seen, depth, nodeDepth

request == <<include, exclude, fetched, stored, namespaces>>
listing == <<pending, listed, dropped>>
graph == <<objects, gpc, gix, byUID, byKey, todo, rmap, dependencies, dependents>>
walk == <<uids, wpc, wix, nodeMap, queue, seen, depth, nodeDepth>>
vars == <<input, cluster, pc, request, listing, tree, graph, walk>>

(* Only the lineage command can be asked for dependencies.                 *)
depsIsDependencies == input.cmd = "lineage" /\ input.dependencies

(* Mutant of Leads: the flag is ignored.                                   *)
LeadsToDependents == [u \in DOMAIN byUID |-> {e[1] : e \in dependents[byUID[u]]}]

(* The relationships the walk follows, found through globalMapByUID.       *)
Leads == [u \in DOMAIN byUID |->
            {e[1] : e \in (IF depsIsDependencies THEN dependencies ELSE dependents)[byUID[u]]}]

Graph == INSTANCE ObjectGraph WITH pc <- gpc, ix <- gix, Inputs <- {}
Walk == INSTANCE Traversal WITH
            adj <- Leads, roots <- uids, pc <- wpc, ix <- wix,
            Delimiter <- ReleaseUID, Inputs <- {}

(* What the servers hold: finitely many objects, each a manifest in every  *)
(* class it is presented in, with a namespace if the class has one.        *)
ASSUME ClusterAssumption ==
    \A i \in Inputs :
        /\ IsFiniteSet(i.before) /\ IsFiniteSet(i.after)
        /\ \A o \in i.before \union i.after : \A c \in Copies(o.class) :
              /\ Served(o, c) \in Graph!Manifest
              /\ Served(o, c).class = c /\ Served(o, c).ns = o.ns
              /\ c \in NamespacedClass <=> o.ns # AllNamespaces

Init ==
    /\ input \in Inputs
    /\ cluster = input.before
    /\ pc = "start"
    /\ include = {} /\ exclude = {}
    /\ fetched = <<>> /\ stored = <<>>
    /\ namespaces = {} /\ pending = {} /\ listed = {} /\ dropped = FALSE
    /\ tree = <<>>
    /\ objects = <<>> /\ gpc = "index" /\ gix = 1 /\ byUID = <<>> /\ byKey = <<>>
    /\ todo = {} /\ rmap = {} /\ dependencies = <<>> /\ dependents = <<>>
    /\ uids = <<>> /\ wpc = "roots" /\ wix = 1 /\ nodeMap = {} /\ queue = <<>>
    /\ seen = {} /\ depth = 0 /\ nodeDepth = <<>>

Ended == pc \in {"printed", "failed"}

(* The environment: another client changes the cluster, once.              *)
ClusterChanges ==
    /\ ~Ended
    /\ cluster # input.after
    /\ cluster' = input.after
    /\ UNCHANGED <<input, pc, request, listing, tree, graph, walk>>

Goto(next) == pc' = next

(* A step of the command: it changes neither its input nor the cluster.    *)
AtStep(step, next) == pc = step /\ Goto(next) /\ UNCHANGED <<input, cluster>>

(* Any request to the servers may fail, and ends the command.              *)
RequestFails ==
    /\ pc \in {"start", "get", "storage", "call", "list"}
    /\ Goto("failed")
    /\ UNCHANGED <<input, cluster, request, listing, tree, graph, walk>>

-----------------------------------------------------------------------------
KnownTypes == Resolvable(input.offers, input.failedGroups)

ServedAs(class) == {Served(o, class) : o \in {x \in cluster : x.class \in Copies(class)}}

(* Client.Get: the object of a name, in a namespace if its class has one.  *)
Get(class, ns, name) ==
    {o \in ServedAs(class) : o.name = name /\ (class \in NamespacedClass => o.ns = ns)}

(* Mutant of ResolveTypes: a type the servers do not have is passed over.  *)
ResolveTypesUnchecked ==
    /\ AtStep("types", "select")
    /\ exclude' = input.excludeTypes
    /\ include' = input.includeTypes
    /\ UNCHANGED <<fetched, stored, namespaces, listing, tree, graph, walk>>

(* The types to exclude and to include.  One that the servers do not have  *)
(* ends the command.                                                       *)
ResolveTypes ==
    /\ AtStep("types", "select")
    /\ input.excludeTypes \union input.includeTypes \subseteq KnownTypes
    /\ exclude' = input.excludeTypes
    /\ include' = input.includeTypes
    /\ UNCHANGED <<fetched, stored, namespaces, listing, tree, graph, walk>>

UnknownType ==
    /\ AtStep("types", "failed")
    /\ ~(input.excludeTypes \union input.includeTypes \subseteq KnownTypes)
    /\ UNCHANGED <<request, listing, tree, graph, walk>>

-----------------------------------------------------------------------------
(* Client.List, in the steps of AbstractList.                              *)
apis == FilterAPIs(GetAPIResources(input.offers, input.failedGroups), include, exclude)
isClusterScopeRequest == namespaces = {} \/ AllNamespaces \in namespaces
nsSet == namespaces \ {AllNamespaces}

List == INSTANCE AbstractList WITH
            Namespaced <- NamespacedClass, result <- IF pc = "list" THEN "running" ELSE "ok"

StartListing ==
    /\ AtStep("call", "list")
    /\ pending' = List!InitialScopes
    /\ UNCHANGED <<request, listed, dropped, tree, graph, walk>>

(* The scope listByAPI asks for: that of a cluster-scoped class is always  *)
(* the cluster.                                                            *)
ScopeOf(class, ns) == IF class \in NamespacedClass THEN ns ELSE AllNamespaces

InScope(o, scope) == scope = AllNamespaces \/ o.ns = scope

(* The order of the objects in one answer is the server's.                 *)
ListByAPI(class, scope) == SetToSeq({o \in ServedAs(class) : InScope(o, scope)})

IsForbidden(class, ns) == <<class, ScopeOf(class, ns)>> \in input.forbidden

(* One listing: its answer is appended to the list.                        *)
ListScope(class, ns) ==
    /\ AtStep("list", "list") /\ UNCHANGED request
    /\ ~IsForbidden(class, ns)
    /\ List!ListScope(<<class, ns>>)
    /\ objects' = objects \o ListByAPI(class, ScopeOf(class, ns))
    /\ UNCHANGED <<tree, gpc, gix, byUID, byKey, todo, rmap, dependencies, dependents, walk>>

(* A forbidden listing is passed over; that of a namespaced class at the   *)
(* cluster scope is tried again in each namespace.                         *)
SkipForbidden(class, ns) ==
    /\ AtStep("list", "list") /\ UNCHANGED request
    /\ IsForbidden(class, ns)
    /\ List!SkipForbidden(<<class, ns>>)
    /\ UNCHANGED <<tree, graph, walk>>

(* The listing of a namespace fails, but its error may be lost to another  *)
(* goroutine's (ClientList, OutcomeMatchesAnswers).                        *)
LoseFailure(class, ns) ==
    /\ AtStep("list", "list") /\ UNCHANGED request
    /\ List!LoseFailure(<<class, ns>>)
    /\ UNCHANGED <<tree, graph, walk>>

ListStep ==
    \E class \in Class, ns \in Namespace :
        ListScope(class, ns) \/ SkipForbidden(class, ns) \/ LoseFailure(class, ns)

-----------------------------------------------------------------------------
UIDsOf(list) == [i \in DOMAIN list |-> list[i].uid]

(* Mutant of Appended: what was fetched by name is not added to the list.  *)
AppendedNone(list) == list

Appended(list) == list \o fetched \o stored

(* The list is complete: call resolveDeps, which does nothing for no UIDs. *)
StartGraph ==
    /\ AtStep("list", IF fetched \o stored = <<>> THEN "resolved" ELSE "graph") /\ UNCHANGED request
    /\ List!Succeed
    /\ uids' = UIDsOf(fetched \o stored)
    /\ objects' = Appended(objects)
    /\ dependencies' = [n \in DOMAIN objects' |-> {}]
    /\ dependents' = [n \in DOMAIN objects' |-> {}]
    /\ UNCHANGED <<tree, gpc, gix, byUID, byKey, todo, rmap,
                   wpc, wix, nodeMap, queue, seen, depth, nodeDepth>>

GraphStep ==
    /\ pc = "graph"
    /\ Graph!Next
    /\ AtStep("graph", IF gpc' = "failed" THEN "failed" ELSE "graph")
    /\ UNCHANGED <<request, listing, tree, walk>>

StartWalk ==
    /\ AtStep("graph", "walk")
    /\ gpc = "built"
    /\ nodeDepth' = [u \in DOMAIN byUID |-> 0]
    /\ UNCHANGED <<request, listing, tree, graph, uids, wpc, wix, nodeMap, queue, seen, depth>>

WalkStep ==
    /\ pc = "walk"
    /\ UNCHANGED <<input, graph>>
    /\ Walk!Next
    /\ AtStep("walk", IF wpc' = "done" THEN "resolved" ELSE "walk")
    /\ UNCHANGED <<request, listing, tree>>

CommonStep ==
    \/ RequestFails \/ ResolveTypes \/ UnknownType
    \/ StartListing \/ ListStep
    \/ StartGraph \/ GraphStep \/ StartWalk \/ WalkStep
=============================================================================
