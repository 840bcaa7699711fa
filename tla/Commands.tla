------------------------------ MODULE Commands ------------------------------
(***************************************************************************)
(* The two commands, from their arguments to the call of the printer, in a *)
(* cluster that may change meanwhile.                                      *)
(***************************************************************************)
EXTENDS Lineage, Helm

(* UIDs are generated by the servers: none is the name or the hostname of  *)
(* a cluster node.                                                         *)
ASSUME UidsAssumption ==
    \A i \in Inputs : \A o, q \in i.before \union i.after :
        \A c \in Copies(o.class), d \in Copies(q.class) :
            Served(o, c).uid \notin Graph!Aliases(Served(q, d))

CommandStep == CommonStep \/ LineageStep \/ HelmStep

Next == CommandStep \/ ClusterChanges

Spec == Init /\ [][Next]_vars

(* A command is one thread that runs until it returns; nothing is assumed  *)
(* of the cluster.                                                         *)
FairSpec == Spec /\ WF_vars(CommandStep)

-----------------------------------------------------------------------------
TypeOK ==
    /\ cluster \in {input.before, input.after}
    /\ pc \in {"start", "get", "storage", "types", "select", "call", "list",
               "graph", "walk", "resolved", "printed", "failed"}
    /\ include \union exclude \subseteq KnownTypes
    /\ Len(stored) <= 1
    /\ namespaces \subseteq Namespace
    /\ pending \union listed \subseteq Class \X Namespace
    /\ dropped \in BOOLEAN
    /\ pc = "graph" /\ gix = 1 => objects \in Seq(Graph!Manifest)
    /\ pc = "walk" => /\ uids \in Seq(Uid)
                      /\ Leads \in [DOMAIN byUID -> SUBSET DOMAIN byUID]

Printed == pc = "printed"

(* What the command was asked about.                                       *)
Subjects == {o.uid : o \in Range(fetched \o stored)}

Shown == DOMAIN tree.deps \ {ReleaseUID}

(* The manifest of the node with a UID.                                    *)
ManifestOf(u) == objects[byUID[u]]

(* The relationships that the manifests in the list declare, the last of   *)
(* the copies of an object counting (ObjectGraph).                         *)
DeclaredLeads(u) ==
    {objects[m].uid : m \in {m \in Graph!Latest : \E n \in Graph!Latest, r \in Relationship :
        /\ objects[n].uid = u
        /\ IF depsIsDependencies THEN Graph!DependsOn(n, m, r) ELSE Graph!DependsOn(m, n, r)}}

(* What the commands promise: shown are the objects asked about and those  *)
(* that they reach through the relationships declared by the manifests     *)
(* that were received, and nothing else.  Of the root it is the manifest   *)
(* that was fetched that counts, even if a newer one has been listed.      *)
ResultIsLineage ==
    LET Closed(S) == \A u \in S : DeclaredLeads(u) \subseteq S
    IN  Printed /\ Graph!Consistent =>
            /\ Subjects \subseteq Shown
            /\ Closed(Shown)
            /\ \A S \in SUBSET Shown : Subjects \subseteq S /\ Closed(S) => S = Shown

(* A user may see an object if its kind is offered, in some group, with    *)
(* the verbs a client needs, and the user may list it at the cluster scope *)
(* or in its namespace, whichever is asked for.                            *)
Offered(c) ==
    \E r \in input.offers :
        /\ r.class = c /\ {"get", "list", "watch"} \subseteq r.verbs
        /\ c.group \notin input.failedGroups
        /\ c \notin {GroupKind("", "Event"), GroupKind("extensions", "Ingress")}

MayList(c, ns) ==
    IF c \in NamespacedClass
    THEN \/ AllNamespaces \in namespaces /\ <<c, AllNamespaces>> \notin input.forbidden
         \/ ns \in namespaces \ {AllNamespaces} /\ <<c, ns>> \notin input.forbidden
    ELSE <<c, AllNamespaces>> \notin input.forbidden

Excludes(c) == Copies(c) \intersect exclude # {}
Includes(c) == include = {} \/ Copies(c) \intersect include # {}

Visible ==
    UNION {{Served(o, c) : c \in {x \in Copies(o.class) : /\ Offered(x) /\ MayList(x, o.ns)
                                                          /\ Includes(x) /\ ~Excludes(x)}}
           : o \in cluster}

(* In a cluster that does not change, nothing is missing in the list and   *)
(* nothing is there that was not asked for: it holds all the user may see  *)
(* and what was fetched by name, unless List lost a failure.  Forbidden    *)
(* scopes, failed groups and types named by either of their groups do not  *)
(* disturb that.                                                           *)
ListedIsVisible ==
    Printed /\ objects # <<>> /\ input.before = input.after =>
        /\ Range(objects) \subseteq Visible \union Range(fetched \o stored)
        /\ ~dropped => Visible \subseteq Range(objects)

(* An object that is shown and was not asked about is in a namespace that  *)
(* was, unless the cluster scope was: by a flag or, with the helm command, *)
(* by an object of the release that has no namespace.  Its type is not one *)
(* that a filter keeps out; and a release is shown without the objects     *)
(* whose types a filter keeps out.                                         *)
OnlyRequestedShown ==
    LET wide == \/ input.allNamespaces
                \/ AllNamespaces \in input.scopes
                \/ input.cmd = "helm" /\ \E o \in Range(fetched) : o.class \notin NamespacedClass
        Home == {input.ns} \union {o.ns : o \in Range(fetched)} \union input.scopes
    IN  Printed =>
            \A u \in Shown :
                LET o == ManifestOf(u) IN
                /\ u \in Subjects \/ wide \/ o.class \notin NamespacedClass \/ o.ns \in Home
                /\ \/ Includes(o.class) /\ ~Excludes(o.class)
                   \/ input.cmd = "lineage" /\ u \in Subjects

(* The printer follows every relationship of a node it is given to a node  *)
(* of the same map, from the root on: a UID that is missing there would be *)
(* a nil pointer.  The release node, which resolveDeps does not know, is   *)
(* no exception.                                                           *)
TreeIsPrintable ==
    Printed =>
        /\ tree.root \in DOMAIN tree.deps
        /\ \A u \in DOMAIN tree.deps : tree.deps[u] \subseteq DOMAIN tree.deps

(* --depth counts from what is printed as the root: the Depth of every     *)
(* node is its distance from there, the release above the objects of the   *)
(* release included.                                                       *)
DepthsAreDistances ==
    Printed =>
        /\ \A u \in DOMAIN tree.deps : tree.depth[u] = 0 <=> u = tree.root
        /\ \A u \in DOMAIN tree.deps : \A v \in tree.deps[u] :
              tree.depth[v] <= tree.depth[u] + 1
        /\ \A v \in DOMAIN tree.deps \ {tree.root} :
              \E u \in DOMAIN tree.deps :
                  v \in tree.deps[u] /\ tree.depth[v] = tree.depth[u] + 1

(* The command ends, with a tree or with an error.                         *)
CommandReturns == <>Ended
=============================================================================
