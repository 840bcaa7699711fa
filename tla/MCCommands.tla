----------------------------- MODULE MCCommands -----------------------------
(***************************************************************************)
(* Instances of Commands for TLC.  The objects: a Deployment w that owns a *)
(* Pod p, an Event e about p, the cluster node k that p runs on, a Pod q   *)
(* of another namespace on the same node, and the Secret s that stores the *)
(* Helm release.                                                           *)
(***************************************************************************)
EXTENDS Commands

CONSTANTS w, p, p2, q, e, k, s, x, y, app, nameW, nameP, nameQ, nameE, nameK, nameS

Deployment == GroupKind("apps", "Deployment")
Pod == GroupKind("", "Pod")
Event == GroupKind("events.k8s.io", "Event")
Node == GroupKind("", "Node")
Secret == GroupKind("", "Secret")
ConfigMap == GroupKind("", "ConfigMap")

MCClass == {Deployment, Pod, Event, CoreEvent, Node, Secret, ConfigMap}
MCNamespaced == MCClass \ {Node}

(* The relationships of a core Event are read from a field it does not     *)
(* have (KubernetesRelationships).                                         *)
MCServed(o, class) ==
    IF class = CoreEvent THEN [o EXCEPT !.class = class, !.declares = {}] ELSE o

Base == [ns |-> x, labels |-> {}, hostname |-> {}, owners |-> {}, mapped |-> TRUE,
         outcome |-> "none", declares |-> {}]

OnNode == {[dir |-> "dependency", by |-> "ref", rel |-> "PodNode",
            target |-> [class |-> Node, ns |-> "", name |-> nameK]]}

W == [uid |-> w, class |-> Deployment, name |-> nameW] @@ Base
P == [uid |-> p, class |-> Pod, name |-> nameP, outcome |-> "ok", declares |-> OnNode,
      owners |-> {[uid |-> w, controller |-> TRUE]}] @@ Base
Q == [uid |-> q, class |-> Pod, name |-> nameQ, ns |-> y,
      outcome |-> "ok", declares |-> OnNode] @@ Base
E == [uid |-> e, class |-> Event, name |-> nameE, outcome |-> "ok",
      declares |-> {[dir |-> "dependency", by |-> "uid", rel |-> "EventRegarding",
                     target |-> p]}] @@ Base
K == [uid |-> k, class |-> Node, name |-> nameK, ns |-> ""] @@ Base
S == [uid |-> s, class |-> Secret, name |-> nameS] @@ Base

Verbs == {"get", "list", "watch", "delete"}
Offers(classes) == [class : classes, verbs : {Verbs}]

Default ==
    [ns |-> x, dependencies |-> FALSE, allNamespaces |-> FALSE, scopes |-> {},
     includeTypes |-> {}, excludeTypes |-> {}, failedGroups |-> {}, forbidden |-> {},
     offers |-> Offers({Pod, Node})]

With(r, unchanged) == r @@ [before |-> unchanged, after |-> unchanged] @@ Default

LineageOf(o) == [cmd |-> "lineage", type |-> o.class, name |-> o.name]

(* Every root and filter, with an Event that is asked for, included or     *)
(* excluded by either of its groups, and a group that cannot be discovered.*)
Filters == SUBSET {Pod} \union {{Event}, {CoreEvent}}

FilterInputs ==
    {With([dependencies |-> d, includeTypes |-> i, excludeTypes |-> x1,
           failedGroups |-> f, offers |-> Offers({Deployment, Pod, Event, CoreEvent})]
             @@ LineageOf(root), {W, P, E}) :
        d \in BOOLEAN, i \in Filters, x1 \in Filters, f \in SUBSET {"apps"},
        root \in {W, P, E, MCServed(E, CoreEvent)}}

(* Scopes and permissions: pods of two namespaces on one cluster node.     *)
ScopeInputs ==
    {With([dependencies |-> root = P, allNamespaces |-> a, scopes |-> ss, forbidden |-> fb]
             @@ LineageOf(root), {P, Q, K}) :
        a \in BOOLEAN, ss \in SUBSET {y}, root \in {K, P},
        fb \in SUBSET {<<Pod, "">>, <<Pod, x>>, <<Pod, y>>, <<Node, "">>}}

(* Changes while the command runs: an object is deleted, recreated with    *)
(* another UID, or updated; also the root.  And a listing resource whose   *)
(* verbs do not suffice.                                                   *)
ChangeInputs ==
    {[before |-> {W, P, K}, after |-> c, dependencies |-> d,
      offers |-> Offers({Deployment, Pod, Node})
                   \union {[class |-> Secret, verbs |-> {"create"}]}]
        @@ LineageOf(root) @@ Default :
        d \in BOOLEAN, root \in {W, P, K},
        c \in {{W, K}, {W, [P EXCEPT !.uid = p2], K}, {W, [P EXCEPT !.owners = {}], K},
               {[W EXCEPT !.uid = p2], P, K}, {[K EXCEPT !.uid = p2], W, P}}}

(* Releases: what the manifest names, how the release is stored, and what  *)
(* the filters leave of it.                                                *)
Ref(o, ns) == [class |-> o.class, ns |-> ns, name |-> o.name]

HelmOf(manifest0, driver) ==
    [cmd |-> "helm", driver |-> driver, release |-> [manifest |-> manifest0, key |-> nameS]]

HelmInputs ==
    {With([includeTypes |-> i, excludeTypes |-> x1, offers |-> Offers({Deployment, Pod, Secret})]
             @@ HelmOf(m, d), {W, P, S}) :
        i \in {{}, {Pod}, {Deployment}, {Event}}, x1 \in {{}, {Pod}, {Deployment}, {Secret}},
        d \in {"", "configmap", "sql", "unknown"},
        m \in {<<>>, <<Ref(W, "")>>, <<Ref(W, x), Ref(P, "")>>}}
    \union
    {With([scopes |-> ss, excludeTypes |-> x1, offers |-> Offers({Pod, Node, Event, CoreEvent})]
             @@ HelmOf(m, "memory"), {P, K, Q, E}) :
        ss \in {{}, {""}}, x1 \in {{}, {CoreEvent}, {Node}},
        m \in {<<Ref(K, "")>>, <<Ref(Q, y)>>, <<Ref(E, "")>>}}
    \union
    {[before |-> {W, P, S}, after |-> c, offers |-> Offers({Deployment, Pod, Secret})]
        @@ HelmOf(<<Ref(W, ""), Ref(P, "")>>, "secret") @@ Default :
        c \in {{W, S}, {W, P}, {W, [P EXCEPT !.uid = p2], S}}}

MCInputs == FilterInputs \union ScopeInputs \union ChangeInputs \union HelmInputs
=============================================================================
