--------------------------- MODULE MCObjectGraph ---------------------------
(***************************************************************************)
(* Instances of ObjectGraph for TLC: a workload that may own and may       *)
(* select, a pod that declares up to two relationships, and the cluster    *)
(* node the pod refers to by key, UID, name or hostname.                   *)
(***************************************************************************)
EXTENDS ObjectGraph, FiniteSets, SequencesExt

CONSTANTS w, p, k, k2, name, host, gone, Workload, Pod, NodeK, x, y, none, app,
          rel1, rel2, controllerRef, ownerRef

Base == [labels |-> {}, hostname |-> {}, owners |-> {}, mapped |-> TRUE,
         outcome |-> "none", declares |-> {}, ns |-> x, name |-> name]

(* An object built on Base with the fields of "fields".                    *)
Object(fields) == fields @@ Base

Ref(class, ns) == [dir : Direction, by : {"ref"}, rel : {rel1},
                   target : {[class |-> class, ns |-> ns, name |-> name]}]
UidRef(u) == [dir : Direction, by : {"uid"}, rel : {rel1}, target : {u}]
Labels(ns) == [dir : Direction, by : {"label"}, rel : {rel2},
               target : {[class |-> Workload, ns |-> ns, requires |-> {app}]}]
InNamespaces(S) == [dir : Direction, by : {"selector"}, rel : {rel1},
                    target : {[class |-> Workload, namespaces |-> S]}]

Entries ==
    Ref(NodeK, none) \union Ref(Workload, x) \union Ref(Workload, y)
        \union UidRef(host) \union UidRef(w) \union UidRef(gone)
        \union Labels(x) \union InNamespaces({}) \union InNamespaces({y})

NodeObject == Object([uid |-> k, class |-> NodeK, ns |-> none, hostname |-> {host}])

Owner(u, b) == [uid |-> u, controller |-> b]

Pods(owners, outcomes, most) ==
    {Object([uid |-> p, class |-> Pod, owners |-> os, outcome |-> out, declares |-> ds]) :
        os \in owners, out \in outcomes,
        ds \in {D \in SUBSET Entries : Cardinality(D) <= most}}

Workloads(outcomes) ==
    {Object([uid |-> w, class |-> Workload, ns |-> x, labels |-> ls, outcome |-> out,
             declares |-> {[dir |-> "dependent", by |-> "uid", target |-> p, rel |-> rel2]}]) :
        ls \in {{}, {app}}, out \in outcomes}

(* The three objects in every order.                                       *)
Lists(as, bs) ==
    UNION {SetToSeqs({a, b, NodeObject}) : a \in as, b \in bs}

OwnerSets == {{}, {Owner(w, TRUE)}, {Owner(w, FALSE), Owner(gone, TRUE)}, {Owner(name, TRUE)}}

(* All combinations of one entry and an owner; two entries at once; a root *)
(* appended behind an older copy of itself; an object replaced by another  *)
(* of the same name; an object fetched under two groups, with one UID and  *)
(* two keys; a kind the mapper does not know.                              *)
MCInputs ==
    Lists(Workloads({"none", "ok", "error"}), Pods(OwnerSets, {"ok", "error"}, 1))
    \union Lists(Workloads({"none"}), Pods({{}}, {"ok"}, 2))
    \union {<<a, b, NodeObject, c>> :
               a \in Workloads({"ok"}), b \in Pods({{Owner(w, TRUE)}}, {"ok"}, 1),
               c \in Workloads({"ok"}) \union Pods({{}}, {"ok"}, 1)}
    \union {<<NodeObject, b, [NodeObject EXCEPT !.uid = k2]>> :
               b \in Pods({{}}, {"ok"}, 1)}
    \union {<<a, b, [a EXCEPT !.class = Pod]>> :
               a \in Workloads({"ok"}), b \in Pods({{}}, {"ok"}, 1)}
    \union {<<NodeObject, [a EXCEPT !.mapped = FALSE]>> : a \in Workloads({"ok"})}
=============================================================================
