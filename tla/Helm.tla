-------------------------------- MODULE Helm --------------------------------
(***************************************************************************)
(* The helm command (pkg/cmd/helm/helm.go): the dependents of the objects  *)
(* in the manifest of a Helm release and of the object that stores the     *)
(* release, under one node that stands for the release and has no UID.     *)
(***************************************************************************)
EXTENDS Command

(* A release: the objects its manifest names, in order, and the name of    *)
(* the object that stores it (makeKey).                                    *)
ReleaseFound ==
    /\ AtStep("start", "get")
    /\ input.cmd = "helm"
    /\ UNCHANGED <<request, listing, tree, graph, walk>>

manifest == input.release.manifest

(* getManifestObjects: fetch the next object of the manifest.  One without *)
(* a namespace is in that of the release if its class has one.             *)
GetManifestObject ==
    /\ pc = "get" /\ input.cmd = "helm"
    /\ Len(fetched) < Len(manifest)
    /\ LET ref == manifest[Len(fetched) + 1] IN
       \E o \in Get(ref.class, IF ref.ns = "" THEN input.ns ELSE ref.ns, ref.name) :
           fetched' = Append(fetched, o)
    /\ UNCHANGED <<input, cluster, pc, include, exclude, stored, namespaces,
                   listing, tree, graph, walk>>

(* One that is missing is an error, which ends the command in the end.     *)
ManifestObjectMissing ==
    /\ AtStep("get", "failed")
    /\ input.cmd = "helm"
    /\ Len(fetched) < Len(manifest)
    /\ LET ref == manifest[Len(fetched) + 1] IN
       Get(ref.class, IF ref.ns = "" THEN input.ns ELSE ref.ns, ref.name) = {}
    /\ UNCHANGED <<request, listing, tree, graph, walk>>

ManifestComplete ==
    /\ AtStep("get", "storage")
    /\ input.cmd = "helm"
    /\ Len(fetched) = Len(manifest)
    /\ UNCHANGED <<request, listing, tree, graph, walk>>

(* The class of the storage object for each value of HELM_DRIVER that has  *)
(* one.                                                                    *)
StorageClass == [d \in {"", "secret", "configmap"} |->
                    GroupKind("", IF d = "configmap" THEN "ConfigMap" ELSE "Secret")]

StorageObjects == Get(StorageClass[input.driver], input.ns, input.release.key)

(* getStorageObject.                                                       *)
GetStorageObject ==
    /\ AtStep("storage", "types")
    /\ \/ /\ input.driver \in DOMAIN StorageClass
          /\ \E o \in StorageObjects : stored' = <<o>>
       \/ input.driver \in {"memory", "sql"} /\ UNCHANGED stored
    /\ UNCHANGED <<include, exclude, fetched, namespaces, listing, tree, graph, walk>>

NoStorageObject ==
    /\ AtStep("storage", "failed")
    /\ IF input.driver \in DOMAIN StorageClass THEN StorageObjects = {}
       ELSE input.driver \notin {"memory", "sql"}
    /\ UNCHANGED <<request, listing, tree, graph, walk>>

(* The types that are included and not excluded select among the objects   *)
(* of the release, too.                                                    *)
Selects(o) ==
    /\ include # {} => o.class \in ResourcesToGroupKindSet(include)
    /\ o.class \notin ResourcesToGroupKindSet(exclude)

(* The objects of a list that are selected, in the order of the list.      *)
Selection(list) ==
    LET upTo[i \in 0 .. Len(list)] ==
            IF i = 0 THEN <<>>
            ELSE IF Selects(list[i]) THEN Append(upTo[i - 1], list[i])
            ELSE upTo[i - 1]
    IN  upTo[Len(list)]

HelmNamespaces(objs) ==
    {input.ns} \union {o.ns : o \in Range(objs)} \union input.scopes
        \union (IF input.allNamespaces THEN {AllNamespaces} ELSE {})

(* Select the objects and determine the namespaces to list: those of the   *)
(* objects, too.  A cluster-scoped object has the empty namespace.         *)
SelectHelm ==
    /\ AtStep("select", "call")
    /\ input.cmd = "helm"
    /\ fetched' = Selection(fetched)
    /\ stored' = Selection(stored)
    /\ namespaces' = HelmNamespaces(fetched')
    /\ UNCHANGED <<include, exclude, listing, tree, graph, walk>>

(* Mutant of Deepen: the nodes keep their depth.                           *)
DeepenNone(depths) == depths

(* node.Depth++ on every node of the result.                               *)
Deepen(depths) == [u \in DOMAIN depths |-> depths[u] + 1]

(* The UIDs of the objects selected.                                       *)
ReleaseDependents == Range(UIDsOf(fetched \o stored))

(* What is known of the nodes, with the node of the release added.         *)
WithRelease(value, map) ==
    [u \in {ReleaseUID} \union DOMAIN map |-> IF u = ReleaseUID THEN value ELSE map[u]]

(* The node of the release is put on top of the result, which is printed.  *)
PrintHelm ==
    /\ AtStep("resolved", "printed")
    /\ input.cmd = "helm"
    /\ tree' = [root |-> ReleaseUID,
                deps |-> WithRelease(ReleaseDependents, [u \in nodeMap |-> Leads[u]]),
                depth |-> WithRelease(0, Deepen([u \in nodeMap |-> nodeDepth[u]]))]
    /\ UNCHANGED <<request, listing, graph, walk>>

HelmStep ==
    \/ ReleaseFound
    \/ GetManifestObject \/ ManifestObjectMissing \/ ManifestComplete
    \/ GetStorageObject \/ NoStorageObject
    \/ SelectHelm \/ PrintHelm
=============================================================================
