---------------------------- MODULE ObjectGraph ----------------------------
(***************************************************************************)
(* The first part of resolveDeps (internal/graph/graph.go): from the list  *)
(* of objects the API servers returned, it builds the graph that Traversal *)
(* walks.  Every object becomes a node of two global maps, one by UID and  *)
(* one by key (group, kind, namespace, name); owner references and the     *)
(* relationships a manifest declares then become edges.  An edge is stored *)
(* twice, in the Dependencies of one node and the Dependents of the other, *)
(* because the command walks either direction.                             *)
(*                                                                         *)
(* The maps hold pointers.  When the list names an object twice the last   *)
(* one replaces the earlier one, and a pointer that only one of the maps   *)
(* replaced is a node of its own.  A node is therefore its position in the *)
(* list here.                                                              *)
(***************************************************************************)
EXTENDS Naturals, Sequences, Functions

CONSTANTS
    Uid,          \* UIDs, and the names and hostnames used as such
    Class,        \* group and kind of an object
    NodeClass,    \* the class of a cluster's nodes, group "" and kind Node
    Name,
    Namespace,    \* with the empty namespace of cluster-scoped objects
    Label,
    Relationship,
    ControllerRef,   \* RelationshipControllerRef
    OwnerRef,        \* RelationshipOwnerRef
    Inputs        \* the lists of objects resolveDeps may be given

Key == [class : Class, ns : Namespace, name : Name]

(* One entry of a RelationshipMap: objects this one depends on, or that    *)
(* depend on it, by key, by UID, by a label selector in one namespace, or  *)
(* by a selector over namespaces (none listed: all of them).               *)
Direction == {"dependency", "dependent"}
ByLabel == [class : Class, ns : Namespace, requires : SUBSET Label]
BySelector == [class : Class, namespaces : SUBSET Namespace]

RelationshipMapEntry ==
         [dir : Direction, by : {"ref"}, target : Key, rel : Relationship]
  \union [dir : Direction, by : {"uid"}, target : Uid, rel : Relationship]
  \union [dir : Direction, by : {"label"}, target : ByLabel, rel : Relationship]
  \union [dir : Direction, by : {"selector"}, target : BySelector, rel : Relationship]

(* What of a manifest matters here.  "mapped": the REST mapper knows the   *)
(* kind.  "outcome": its kind has no get...Relationships function, the     *)
(* function fails, or it returns "declares".                               *)
Manifest ==
    [uid : Uid, class : Class, ns : Namespace, name : Name,
     labels : SUBSET Label, hostname : SUBSET Uid,
     owners : SUBSET [uid : Uid, controller : BOOLEAN],
     mapped : BOOLEAN, outcome : {"none", "error", "ok"},
     declares : SUBSET RelationshipMapEntry]

ASSUME InputsAssumption ==
    /\ Inputs \subseteq Seq(Manifest)
    /\ Name \subseteq Uid
    /\ NodeClass \in Class
    /\ {ControllerRef, OwnerRef} \subseteq Relationship

VARIABLES
    objects,        \* input: the list; a node is an index of it
    pc,             \* "index", "owners", "declared", then "built" or "failed"
    ix,             \* the position of the first loop
    byUID,          \* globalMapByUID
    byKey,          \* globalMapByKey
    todo,           \* the keys of byUID that the current loop has still to visit
    rmap,           \* the variable rmap, shared by the turns of the last loop
    dependencies,   \* Dependencies of every node: pairs of UID and relationship
    dependents      \* Dependents of every node

vars == <<objects, pc, ix, byUID, byKey, todo, rmap, dependencies, dependents>>

Nodes == DOMAIN objects

Init ==
    /\ objects \in Inputs
    /\ pc = "index"
    /\ ix = 1
    /\ byUID = <<>>
    /\ byKey = <<>>
    /\ todo = {}
    /\ rmap = {}
    /\ dependencies = [n \in Nodes |-> {}]
    /\ dependents = [n \in Nodes |-> {}]

-----------------------------------------------------------------------------
(* Mutant of KeyOf: the namespace and the name are exchanged.              *)
KeyOfSwapped(o) == [class |-> o.class, ns |-> o.name, name |-> o.ns]

KeyOf(o) == [class |-> o.class, ns |-> o.ns, name |-> o.name]

(* Node events refer to a cluster node by its name or its hostname.        *)
Aliases(o) == IF o.class = NodeClass THEN {o.name} \union o.hostname ELSE {}

(* Mutant of UIDsOf: a cluster node enters by its other names only.        *)
UIDsOfAliased(o) == IF o.class = NodeClass THEN Aliases(o) ELSE {o.uid}

(* The keys under which an object enters globalMapByUID.                   *)
UIDsOf(o) == {o.uid} \union Aliases(o)

Put(map, keys, n) ==
    [k \in DOMAIN map \union keys |-> IF k \in keys THEN n ELSE map[k]]

(* Mutant of Index: the first object of a key keeps its place.             *)
IndexKeepsFirst ==
    /\ pc = "index"
    /\ ix <= Len(objects)
    /\ objects[ix].mapped
    /\ LET o == objects[ix] IN
          /\ byUID' = Put(byUID, UIDsOf(o), ix)
          /\ byKey' = Put(byKey, {KeyOf(o)} \ DOMAIN byKey, ix)
    /\ ix' = ix + 1
    /\ UNCHANGED <<objects, pc, todo, rmap, dependencies, dependents>>

(* One turn of the loop that fills the global maps.                        *)
Index ==
    /\ pc = "index"
    /\ ix <= Len(objects)
    /\ objects[ix].mapped
    /\ LET o == objects[ix] IN
          /\ byUID' = Put(byUID, UIDsOf(o), ix)
          /\ byKey' = Put(byKey, {KeyOf(o)}, ix)
    /\ ix' = ix + 1
    /\ UNCHANGED <<objects, pc, todo, rmap, dependencies, dependents>>

(* An object whose kind the REST mapper does not know ends it all.         *)
IndexFails ==
    /\ pc = "index"
    /\ ix <= Len(objects)
    /\ ~objects[ix].mapped
    /\ pc' = "failed"
    /\ UNCHANGED <<objects, ix, byUID, byKey, todo, rmap, dependencies, dependents>>

StartOwners ==
    /\ pc = "index"
    /\ ix > Len(objects)
    /\ pc' = "owners"
    /\ todo' = DOMAIN byUID
    /\ UNCHANGED <<objects, ix, byUID, byKey, rmap, dependencies, dependents>>

(* Mutant of Link: the new dependents of a node replace those it had.      *)
LinkReplacing(edges) ==
    LET Of(n) == {<<objects[e.from].uid, e.rel>> : e \in {x \in edges : x.to = n}} IN
    /\ dependencies' = [n \in Nodes |-> dependencies[n] \union
          {<<objects[e.to].uid, e.rel>> : e \in {x \in edges : x.from = n}}]
    /\ dependents' = [n \in Nodes |-> IF Of(n) = {} THEN dependents[n] ELSE Of(n)]

(* AddDependency on one node and AddDependent on the other, for every edge *)
(* of a set.  The UIDs are those of the nodes themselves.                  *)
Link(edges) ==
    /\ dependencies' = [n \in Nodes |-> dependencies[n] \union
          {<<objects[e.to].uid, e.rel>> : e \in {x \in edges : x.from = n}}]
    /\ dependents' = [n \in Nodes |-> dependents[n] \union
          {<<objects[e.from].uid, e.rel>> : e \in {x \in edges : x.to = n}}]

OwnerEdges(n) ==
    UNION {[from : {n}, to : {byUID[ref.uid]},
            rel : IF ref.controller THEN {ControllerRef, OwnerRef} ELSE {OwnerRef}] :
           ref \in {r \in objects[n].owners : r.uid \in DOMAIN byUID}}

(* The owner references of one entry of globalMapByUID; the entries come   *)
(* in any order.                                                           *)
ResolveOwners(u) ==
    /\ pc = "owners"
    /\ u \in todo
    /\ todo' = todo \ {u}
    /\ Link(OwnerEdges(byUID[u]))
    /\ UNCHANGED <<objects, pc, ix, byUID, byKey, rmap>>

StartDeclared ==
    /\ pc = "owners"
    /\ todo = {}
    /\ pc' = "declared"
    /\ todo' = DOMAIN byUID
    /\ UNCHANGED <<objects, ix, byUID, byKey, rmap, dependencies, dependents>>

(* The nodes an entry of a RelationshipMap refers to: by key and by UID    *)
(* the maps answer; selectors search the nodes of globalMapByUID.          *)
Lookup(map, k) == {map[x] : x \in {k} \intersect DOMAIN map}

LabelSelected(s) ==
    {n \in Range(byUID) : /\ objects[n].class = s.class
                          /\ objects[n].ns = s.ns
                          /\ s.requires \subseteq objects[n].labels}

Selected(s) ==
    {n \in Range(byUID) : /\ objects[n].class = s.class
                          /\ s.namespaces = {} \/ objects[n].ns \in s.namespaces}

Targets(entry) ==
    CASE entry.by = "ref"      -> Lookup(byKey, entry.target)
      [] entry.by = "uid"      -> Lookup(byUID, entry.target)
      [] entry.by = "label"    -> LabelSelected(entry.target)
      [] entry.by = "selector" -> Selected(entry.target)

(* updateRelationships: the edges of node n for the entries of a map.      *)
EntryEdges(n, entry) ==
    IF entry.dir = "dependency"
    THEN [from : {n}, to : Targets(entry), rel : {entry.rel}]
    ELSE [from : Targets(entry), to : {n}, rel : {entry.rel}]

DeclaredEdges(n, entries) == UNION {EntryEdges(n, e) : e \in entries}

(* Mutant of HasRelationships: an unsupported kind is not passed over, and *)
(* so gets the relationships of the object visited before it.              *)
HasRelationshipsOrStale(o) == o.outcome # "error"

HasRelationships(o) == o.outcome = "ok"

(* One turn of the loop over the kinds: an unsupported kind is passed      *)
(* over, and so is an object whose relationships cannot be read.           *)
ResolveDeclared(u) ==
    /\ pc = "declared"
    /\ u \in todo
    /\ todo' = todo \ {u}
    /\ LET o == objects[byUID[u]] IN
          /\ rmap' = CASE o.outcome = "none"  -> rmap
                       [] o.outcome = "error" -> {}
                       [] o.outcome = "ok"    -> o.declares
          /\ IF HasRelationships(o)
             THEN Link(DeclaredEdges(byUID[u], rmap'))
             ELSE UNCHANGED <<dependencies, dependents>>
    /\ UNCHANGED <<objects, pc, ix, byUID, byKey>>

Finish ==
    /\ pc = "declared"
    /\ todo = {}
    /\ pc' = "built"
    /\ UNCHANGED <<objects, ix, byUID, byKey, todo, rmap, dependencies, dependents>>

Next ==
    \/ Index \/ IndexFails
    \/ StartOwners \/ (\E u \in todo : ResolveOwners(u))
    \/ StartDeclared \/ (\E u \in todo : ResolveDeclared(u))
    \/ Finish

Spec == Init /\ [][Next]_vars

(* A single thread that runs until it returns.                             *)
FairSpec == Spec /\ WF_vars(Next)

-----------------------------------------------------------------------------
TypeOK ==
    /\ objects \in Seq(Manifest)
    /\ pc \in {"index", "owners", "declared", "built", "failed"}
    /\ ix \in 1 .. Len(objects) + 1
    /\ DOMAIN byUID \subseteq Uid /\ byUID \in [DOMAIN byUID -> 1 .. ix - 1]
    /\ DOMAIN byKey \subseteq Key /\ byKey \in [DOMAIN byKey -> 1 .. ix - 1]
    /\ todo \subseteq DOMAIN byUID
    /\ rmap \subseteq RelationshipMapEntry
    /\ dependencies \in [Nodes -> SUBSET (Uid \X Relationship)]
    /\ dependents \in [Nodes -> SUBSET (Uid \X Relationship)]

(* Every UID an edge names has a node in globalMapByUID: the walk, which   *)
(* looks its nodes up there, never puts a nil node into the result, where  *)
(* the printer would follow it.  It holds even when two objects share a    *)
(* UID or a key.                                                           *)
EdgeTargetsKnown ==
    \A n \in Nodes : \A edge \in dependencies[n] \union dependents[n] :
        edge[1] \in DOMAIN byUID

(* The list identifies its objects consistently: objects with one UID      *)
(* are copies of one object, and no name of a cluster node is a UID.       *)
Consistent ==
    \A n, m \in Nodes :
        /\ objects[n].uid = objects[m].uid =>
              /\ KeyOf(objects[n]) = KeyOf(objects[m])
              /\ Aliases(objects[n]) = Aliases(objects[m])
        /\ objects[n].uid \notin Aliases(objects[m])

(* Both directions of the command see the same relationships: a node names *)
(* another as its dependency exactly if that one names it as a dependent.  *)
EdgesMutual ==
    Consistent =>
        \A u, v \in {objects[n].uid : n \in Range(byUID)}, r \in Relationship :
            <<v, r>> \in dependencies[byUID[u]] <=> <<u, r>> \in dependents[byUID[v]]

(* The pointers the two global maps hold.                                  *)
Placed == Range(byUID) \union Range(byKey)

(* The maps agree: a node that either map leads to is known by its UID,    *)
(* and is the very node known by it unless the list is inconsistent; it    *)
(* has the UID or the key it is found by; and edges are added only when    *)
(* both maps are complete.  An edge stored on a node that globalMapByUID   *)
(* has replaced would be lost.                                             *)
MapsAgree ==
    /\ \A n \in Placed :
          /\ objects[n].uid \in DOMAIN byUID
          /\ Consistent => byUID[objects[n].uid] = n
    /\ \A u \in DOMAIN byUID : u \in UIDsOf(objects[byUID[u]])
    /\ \A k \in DOMAIN byKey : k = KeyOf(objects[byKey[k]])
    /\ pc = "index" => \A n \in Nodes : dependencies[n] = {} /\ dependents[n] = {}

-----------------------------------------------------------------------------
(* The graph a list of manifests stands for, whatever the order of the     *)
(* list and of the map iterations.  Of the copies of an object the last    *)
(* one counts.                                                             *)
Latest == {n \in Nodes : \A m \in Nodes : m > n => objects[m].uid # objects[n].uid}

(* n is the last object of the list for which P holds.                     *)
IsLast(n, P(_)) == P(objects[n]) /\ \A m \in Nodes : m > n => ~P(objects[m])

RefersTo(entry, n) ==
    LET o == objects[n]
        target == entry.target
        HasKey(x) == KeyOf(x) = target
        HasUID(x) == target \in UIDsOf(x)
    IN  CASE entry.by = "ref"      -> IsLast(n, HasKey)
          [] entry.by = "uid"      -> IsLast(n, HasUID)
          [] entry.by = "label"    -> /\ o.class = target.class /\ o.ns = target.ns
                                      /\ target.requires \subseteq o.labels
          [] entry.by = "selector" -> /\ o.class = target.class
                                      /\ target.namespaces = {} \/ o.ns \in target.namespaces

Owns(n, m, r) ==
    \E ref \in objects[m].owners :
        /\ RefersTo([by |-> "uid", target |-> ref.uid], n)
        /\ r = OwnerRef \/ (r = ControllerRef /\ ref.controller)

Declares(n, dir, m, r) ==
    /\ objects[n].outcome = "ok"
    /\ \E e \in objects[n].declares : e.dir = dir /\ e.rel = r /\ RefersTo(e, m)

DependsOn(n, m, r) ==
    \/ Owns(m, n, r)
    \/ Declares(n, "dependency", m, r)
    \/ Declares(m, "dependent", n, r)

(* The graph is exactly the one the manifests declare: no relationship is  *)
(* lost or invented by the order in which objects were listed or visited,  *)
(* by a duplicate, or by an object whose relationships could not be read.  *)
GraphIsDeclared ==
    LET Links == Latest \X Relationship
        Named(links) == {<<objects[x[1]].uid, x[2]>> : x \in links}
    IN  pc = "built" /\ Consistent =>
            \A n \in Latest :
                /\ dependencies[n] = Named({x \in Links : DependsOn(n, x[1], x[2])})
                /\ dependents[n] = Named({x \in Links : DependsOn(x[1], n, x[2])})
=============================================================================
