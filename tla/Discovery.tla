----------------------------- MODULE Discovery -----------------------------
(***************************************************************************)
(* Which API resources a command lists (internal/client: GetAPIResources,  *)
(* ResolveAPIResource, ResourcesToGroupKindSet and the filter of List).    *)
(* A class is a group and a kind.  The API servers present some objects in *)
(* two groups, the one their kind migrated from and its new one; such an   *)
(* object must be listed once, and a filter that names either group means  *)
(* both.                                                                   *)
(***************************************************************************)


GroupKind(group, kind) == [group |-> group, kind |-> kind]

CoreEvent == GroupKind("", "Event")
ExtensionsIngress == GroupKind("extensions", "Ingress")

Migrations ==
    {{CoreEvent, GroupKind("events.k8s.io", "Event")},
     {ExtensionsIngress, GroupKind("networking.k8s.io", "Ingress")}}

(* The classes an object of a class is presented as.                       *)
Copies(class) == {class} \union UNION {m \in Migrations : class \in m}

(* Mutant of ResourcesToGroupKindSet: a filter means only what it names.   *)
ResourcesToGroupKindSetAsNamed(classes) == classes

ResourcesToGroupKindSet(classes) == UNION {Copies(c) : c \in classes}

IsDuplicate(class) == class \in {CoreEvent, ExtensionsIngress}

(* The resources the servers offer, each a class and verbs, less those of  *)
(* groups whose discovery failed, which is not an error.                   *)
GetAPIResources(offers, failedGroups) ==
    {r.class : r \in {x \in offers : /\ x.class.group \notin failedGroups
                                     /\ {"watch", "list", "get"} \subseteq x.verbs
                                     /\ ~IsDuplicate(x.class)}}

(* The resources List asks for.                                            *)
FilterAPIs(classes, include, exclude) ==
    (IF include = {} THEN classes
     ELSE classes \intersect ResourcesToGroupKindSet(include))
        \ (IF exclude = {} THEN {} ELSE ResourcesToGroupKindSet(exclude))

(* The REST mapper knows every class offered: a type resolves to a class,  *)
(* or ends the command.                                                    *)
Resolvable(offers, failedGroups) ==
    {r.class : r \in {x \in offers : x.class.group \notin failedGroups}}
=============================================================================
