----------------------- MODULE KubernetesGraphProofs -----------------------
(***************************************************************************)
(* Theorems about the graph of a cluster, for every list of manifests that *)
(* API servers let pass: what Kubernetes means by the manifests is what    *)
(* the graph shows.  GraphAsDeclared says that the graph holds what the    *)
(* manifests declare; the lemmas here say, function by function, what they *)
(* declare.                                                                *)
(***************************************************************************)
EXTENDS KubernetesGraph, ObjectGraphProofs

(***************************************************************************)
(* What sets of entries refer to.                                          *)
(***************************************************************************)
(* The entry e refers to the object o, if nothing else has o's key or UID. *)
Refers(e, o) ==
    \/ e.by = "ref" /\ KeyOf(o) = e.target
    \/ e.by = "uid" /\ e.target \in UIDsOf(o)
    \/ /\ e.by = "label" /\ o.class = e.target.class /\ o.ns = e.target.ns
       /\ e.target.requires \subseteq o.labels
    \/ /\ e.by = "selector" /\ o.class = e.target.class
       /\ (e.target.namespaces = {} \/ o.ns \in e.target.namespaces)

(* An entry of one direction, or any, refers to o.                         *)
Reaches(entries, dir, o) == \E e \in entries : e.dir = dir /\ Refers(e, o)
Touches(entries, o) == \E e \in entries : Refers(e, o)

(* What the sets of entries that the Add... functions add refer to.        *)
Selects(selectors, o) ==
    \E s \in selectors : o.class = s.class /\ (s.namespaces = {} \/ o.ns \in s.namespaces)

LEMMA EntriesBySelector ==
    ASSUME NEW d, NEW selectors, NEW r, NEW o,
           NEW entries, entries = [dir : {d}, by : {"selector"}, target : selectors, rel : {r}]
    PROVE  /\ Touches(entries, o) <=> Selects(selectors, o)
           /\ \A dir : Reaches(entries, dir, o) <=> dir = d /\ Selects(selectors, o)
<1>1. \A e \in entries : e.dir = d /\ e.by = "selector" /\ e.target \in selectors
  OBVIOUS
<1>2. \A e \in entries : Refers(e, o) <=> Selects({e.target}, o)
  BY <1>1 DEF Refers, Selects
<1>3. ASSUME NEW s \in selectors
      PROVE  \E e \in entries : e.target = s /\ e.dir = d
  <2>1. [dir |-> d, by |-> "selector", target |-> s, rel |-> r] \in entries
    OBVIOUS
  <2> QED  BY <2>1
<1> QED  BY <1>1, <1>2, <1>3 DEF Touches, Reaches, Selects

LEMMA KeyEntries ==
    /\ \A keys, r, o : Touches(DependencyByKey(keys, r), o) <=> KeyOf(o) \in keys
    /\ \A keys, r, o : Touches(DependentByKey(keys, r), o) <=> KeyOf(o) \in keys
    /\ \A keys, r, dir, o : Reaches(DependencyByKey(keys, r), dir, o) <=>
                                dir = "dependency" /\ KeyOf(o) \in keys
    /\ \A keys, r, dir, o : Reaches(DependentByKey(keys, r), dir, o) <=>
                                dir = "dependent" /\ KeyOf(o) \in keys
<1> SUFFICES ASSUME NEW keys, NEW r, NEW o
             PROVE  /\ Touches(DependencyByKey(keys, r), o) <=> KeyOf(o) \in keys
                    /\ Touches(DependentByKey(keys, r), o) <=> KeyOf(o) \in keys
                    /\ \A dir : Reaches(DependencyByKey(keys, r), dir, o) <=>
                                   dir = "dependency" /\ KeyOf(o) \in keys
                    /\ \A dir : Reaches(DependentByKey(keys, r), dir, o) <=>
                                   dir = "dependent" /\ KeyOf(o) \in keys
  OBVIOUS
<1>1. ASSUME NEW d, NEW entries, entries = [dir : {d}, by : {"ref"}, target : keys, rel : {r}]
      PROVE  /\ Touches(entries, o) <=> KeyOf(o) \in keys
             /\ \A dir : Reaches(entries, dir, o) <=> dir = d /\ KeyOf(o) \in keys
  <2>1. \A e \in entries : e.dir = d /\ e.by = "ref" /\ e.target \in keys
    BY <1>1
  <2>2. \A e \in entries : Refers(e, o) <=> KeyOf(o) = e.target
    BY <2>1 DEF Refers
  <2>3. ASSUME KeyOf(o) \in keys
        PROVE  \E e \in entries : e.target = KeyOf(o) /\ e.dir = d
    <3>1. [dir |-> d, by |-> "ref", target |-> KeyOf(o), rel |-> r] \in entries
      BY <1>1, <2>3
    <3> QED  BY <3>1
  <2> QED  BY <2>1, <2>2, <2>3 DEF Touches, Reaches
<1>2. DependencyByKey(keys, r) = [dir : {"dependency"}, by : {"ref"}, target : keys, rel : {r}]
  BY DEF DependencyByKey
<1>3. DependentByKey(keys, r) = [dir : {"dependent"}, by : {"ref"}, target : keys, rel : {r}]
  BY DEF DependentByKey
<1> QED  BY <1>1, <1>2, <1>3

LEMMA SelectorEntries ==
    /\ \A selectors, r, o : Touches(DependencyBySelector(selectors, r), o) <=>
                              Selects(selectors, o)
    /\ \A selectors, r, o : Touches(DependentBySelector(selectors, r), o) <=>
                              Selects(selectors, o)
    /\ \A selectors, r, dir, o : Reaches(DependencyBySelector(selectors, r), dir, o) <=>
                                   dir = "dependency" /\ Selects(selectors, o)
    /\ \A selectors, r, dir, o : Reaches(DependentBySelector(selectors, r), dir, o) <=>
                                   dir = "dependent" /\ Selects(selectors, o)
<1> SUFFICES ASSUME NEW selectors, NEW r, NEW o
             PROVE  /\ Touches(DependencyBySelector(selectors, r), o) <=> Selects(selectors, o)
                    /\ Touches(DependentBySelector(selectors, r), o) <=> Selects(selectors, o)
                    /\ \A dir : Reaches(DependencyBySelector(selectors, r), dir, o) <=>
                                   dir = "dependency" /\ Selects(selectors, o)
                    /\ \A dir : Reaches(DependentBySelector(selectors, r), dir, o) <=>
                                   dir = "dependent" /\ Selects(selectors, o)
  OBVIOUS
<1>1. DependencyBySelector(selectors, r) =
          [dir : {"dependency"}, by : {"selector"}, target : selectors, rel : {r}]
  BY DEF DependencyBySelector
<1>2. DependentBySelector(selectors, r) =
          [dir : {"dependent"}, by : {"selector"}, target : selectors, rel : {r}]
  BY DEF DependentBySelector
<1> QED  BY <1>1, <1>2, EntriesBySelector

(* A label selector finds objects of its class.                            *)
LEMMA LabelEntries ==
    /\ \A class, ns, selectors, r, o : o.class # class =>
          ~Touches(DependencyByLabelSelector(Matching(class, ns, selectors), r), o)
    /\ \A class, ns, selectors, r, dir, o : o.class # class =>
          ~Reaches(DependencyByLabelSelector(Matching(class, ns, selectors), r), dir, o)
<1> SUFFICES ASSUME NEW class, NEW ns, NEW selectors, NEW r, NEW o, o.class # class,
                    NEW e \in DependencyByLabelSelector(Matching(class, ns, selectors), r)
             PROVE  ~Refers(e, o)
  BY DEF Touches, Reaches
<1>1. e.by = "label" /\ e.target \in Matching(class, ns, selectors)
  BY DEF DependencyByLabelSelector
<1>2. e.target.class = class
  BY <1>1 DEF Matching
<1> QED  BY <1>1, <1>2 DEF Refers

(* The keys of the references of a manifest.                               *)
LEMMA KeyNamed ==
    \A o, class, ns, names : KeyOf(o) \in Named(class, ns, names) <=>
        o.class = class /\ o.ns = ns /\ o.name \in names
<1> SUFFICES ASSUME NEW o, NEW class, NEW ns, NEW names
             PROVE  [class |-> o.class, ns |-> o.ns, name |-> o.name] \in Named(class, ns, names)
                        <=> o.class = class /\ o.ns = ns /\ o.name \in names
  BY DEF KeyOf
<1> QED  BY DEF Named

LEMMA KeyUnscoped ==
    \A o, class, names : KeyOf(o) \in Unscoped(class, names) <=>
        o.class = class /\ o.ns = "" /\ o.name \in names
BY KeyNamed DEF Unscoped

LEMMA KeyLocated ==
    \A o, class, refs : KeyOf(o) \in Located(class, refs) <=>
        o.class = class /\ \E x \in refs : o.ns = x.ns /\ o.name = x.name
<1> SUFFICES ASSUME NEW o, NEW class, NEW refs
             PROVE  [class |-> o.class, ns |-> o.ns, name |-> o.name] \in Located(class, refs)
                        <=> o.class = class /\ \E x \in refs : o.ns = x.ns /\ o.name = x.name
  BY DEF KeyOf
<1> QED  BY DEF Located

LEMMA KeyTyped ==
    \A o, ns, refs : KeyOf(o) \in Typed(ns, refs) <=>
        o.ns = ns /\ \E x \in refs : o.class = x.class /\ o.name = x.name
<1> SUFFICES ASSUME NEW o, NEW ns, NEW refs
             PROVE  [class |-> o.class, ns |-> o.ns, name |-> o.name] \in Typed(ns, refs)
                        <=> o.ns = ns /\ \E x \in refs : o.class = x.class /\ o.name = x.name
  BY DEF KeyOf
<1> QED  BY DEF Typed

(* What entries for such keys refer to.                                    *)
LEMMA UnscopedEntries ==
    \A class, names, r, o :
        /\ Touches(DependencyByKey(Unscoped(class, names), r), o) <=>
              o.class = class /\ o.ns = "" /\ o.name \in names
        /\ Touches(DependentByKey(Unscoped(class, names), r), o) <=>
              o.class = class /\ o.ns = "" /\ o.name \in names
<1> SUFFICES ASSUME NEW class, NEW names, NEW r, NEW o
             PROVE  /\ Touches(DependencyByKey(Unscoped(class, names), r), o) <=>
                          o.class = class /\ o.ns = "" /\ o.name \in names
                    /\ Touches(DependentByKey(Unscoped(class, names), r), o) <=>
                          o.class = class /\ o.ns = "" /\ o.name \in names
  OBVIOUS
<1>1. KeyOf(o) \in Unscoped(class, names) <=>
          o.class = class /\ o.ns = "" /\ o.name \in names
  BY KeyUnscoped
<1>2. /\ Touches(DependencyByKey(Unscoped(class, names), r), o) <=>
            KeyOf(o) \in Unscoped(class, names)
      /\ Touches(DependentByKey(Unscoped(class, names), r), o) <=>
            KeyOf(o) \in Unscoped(class, names)
  BY KeyEntries
<1> QED  BY <1>1, <1>2

LEMMA LocatedEntries ==
    \A class, refs, r, o :
        /\ Touches(DependencyByKey(Located(class, refs), r), o) <=>
              o.class = class /\ \E x \in refs : o.ns = x.ns /\ o.name = x.name
        /\ Touches(DependentByKey(Located(class, refs), r), o) <=>
              o.class = class /\ \E x \in refs : o.ns = x.ns /\ o.name = x.name
<1> SUFFICES ASSUME NEW class, NEW refs, NEW r, NEW o
             PROVE  /\ Touches(DependencyByKey(Located(class, refs), r), o) <=>
                          o.class = class /\ \E x \in refs : o.ns = x.ns /\ o.name = x.name
                    /\ Touches(DependentByKey(Located(class, refs), r), o) <=>
                          o.class = class /\ \E x \in refs : o.ns = x.ns /\ o.name = x.name
  OBVIOUS
<1>1. KeyOf(o) \in Located(class, refs) <=>
          o.class = class /\ \E x \in refs : o.ns = x.ns /\ o.name = x.name
  BY KeyLocated
<1>2. /\ Touches(DependencyByKey(Located(class, refs), r), o) <=> KeyOf(o) \in Located(class, refs)
      /\ Touches(DependentByKey(Located(class, refs), r), o) <=> KeyOf(o) \in Located(class, refs)
  BY KeyEntries
<1> QED  BY <1>1, <1>2

LEMMA PairParts == \A a, b : <<a, b>>[1] = a /\ <<a, b>>[2] = b
OBVIOUS

(* The class of a supported object tells which function reads it.          *)
LEMMA Dispatch ==
    ASSUME NEW m
    PROVE  /\ m.class = PersistentVolume => Relationships(m) = getPersistentVolumeRelationships(m)
           /\ m.class = PersistentVolumeClaim =>
                 Relationships(m) = getPersistentVolumeClaimRelationships(m)
           /\ m.class = Pod => Relationships(m) = getPodRelationships(m)
           /\ m.class = Service => Relationships(m) = getServiceRelationships(m)
           /\ m.class = ServiceAccount => Relationships(m) = getServiceAccountRelationships(m)
           /\ m.class = PodSecurityPolicy =>
                 Relationships(m) = getPodSecurityPolicyRelationships(m)
           /\ m.class = <<"policy", "PodDisruptionBudget">> =>
                 Relationships(m) = getPodDisruptionBudgetRelationships(m)
           /\ m.class = <<"admission", "MutatingWebhookConfiguration">> =>
                 Relationships(m) = getMutatingWebhookConfigurationRelationships(m)
           /\ m.class = <<"admission", "ValidatingWebhookConfiguration">> =>
                 Relationships(m) = getValidatingWebhookConfigurationRelationships(m)
           /\ m.class = <<"apiregistration", "APIService">> =>
                 Relationships(m) = getAPIServiceRelationships(m)
           /\ m.class \in Ingresses => Relationships(m) = getIngressRelationships(m)
           /\ m.class = IngressClass => Relationships(m) = getIngressClassRelationships(m)
           /\ m.class = <<"networking", "NetworkPolicy">> =>
                 Relationships(m) = getNetworkPolicyRelationships(m)
           /\ m.class = RuntimeClass => Relationships(m) = getRuntimeClassRelationships(m)
           /\ m.class = ClusterRole => Relationships(m) = getClusterRoleRelationships(m)
           /\ m.class = ClusterRoleBinding =>
                 Relationships(m) = getClusterRoleBindingRelationships(m)
           /\ m.class = Role => Relationships(m) = getRoleRelationships(m)
           /\ m.class = RoleBinding => Relationships(m) = getRoleBindingRelationships(m)
           /\ m.class = <<"storage", "CSIStorageCapacity">> =>
                 Relationships(m) = getCSIStorageCapacityRelationships(m)
           /\ m.class = <<"storage", "CSINode">> => Relationships(m) = getCSINodeRelationships(m)
           /\ m.class = StorageClass => Relationships(m) = getStorageClassRelationships(m)
           /\ m.class = <<"storage", "VolumeAttachment">> =>
                 Relationships(m) = getVolumeAttachmentRelationships(m)
<1> DEFINE kind == m.class[2]
<1>1. PICK class : class = m.class
  OBVIOUS
<1> HIDE DEF kind
<1>2. kind = class[2]
  BY <1>1 DEF kind
<1>a. /\ class = PersistentVolume => kind = "PersistentVolume"
      /\ class = PersistentVolumeClaim => kind = "PersistentVolumeClaim"
      /\ class = Pod => kind = "Pod"
      /\ class = Service => kind = "Service"
      /\ class = ServiceAccount => kind = "ServiceAccount"
      /\ class = PodSecurityPolicy => kind = "PodSecurityPolicy"
  <2>1. /\ PersistentVolume[2] = "PersistentVolume" /\ Pod[2] = "Pod"
        /\ PersistentVolumeClaim[2] = "PersistentVolumeClaim" /\ Service[2] = "Service"
        /\ ServiceAccount[2] = "ServiceAccount" /\ PodSecurityPolicy[2] = "PodSecurityPolicy"
    BY PairParts, Zenon DEF PersistentVolume, PersistentVolumeClaim, Pod, Service,
                            ServiceAccount, PodSecurityPolicy
  <2> QED  BY <1>2, <2>1
<1>b. /\ class = <<"policy", "PodDisruptionBudget">> => kind = "PodDisruptionBudget"
      /\ class = <<"admission", "MutatingWebhookConfiguration">> =>
            kind = "MutatingWebhookConfiguration"
      /\ class = <<"admission", "ValidatingWebhookConfiguration">> =>
            kind = "ValidatingWebhookConfiguration"
      /\ class = <<"apiregistration", "APIService">> => kind = "APIService"
      /\ class \in Ingresses => kind = "Ingress"
      /\ class = IngressClass => kind = "IngressClass"
  BY <1>2 DEF Ingresses, IngressClass
<1>c. /\ class = <<"networking", "NetworkPolicy">> => kind = "NetworkPolicy"
      /\ class = RuntimeClass => kind = "RuntimeClass"
      /\ class = ClusterRole => kind = "ClusterRole"
      /\ class = ClusterRoleBinding => kind = "ClusterRoleBinding"
      /\ class = Role => kind = "Role"
      /\ class = RoleBinding => kind = "RoleBinding"
  BY <1>2 DEF RuntimeClass, ClusterRole, ClusterRoleBinding, Role, RoleBinding
<1>d. /\ class = <<"storage", "CSIStorageCapacity">> => kind = "CSIStorageCapacity"
      /\ class = <<"storage", "CSINode">> => kind = "CSINode"
      /\ class = StorageClass => kind = "StorageClass"
      /\ class = <<"storage", "VolumeAttachment">> => kind = "VolumeAttachment"
  BY <1>2 DEF StorageClass
<1>3. /\ kind = "PersistentVolume" => Relationships(m) = getPersistentVolumeRelationships(m)
      /\ kind = "PersistentVolumeClaim" =>
            Relationships(m) = getPersistentVolumeClaimRelationships(m)
      /\ kind = "Pod" => Relationships(m) = getPodRelationships(m)
      /\ kind = "Service" => Relationships(m) = getServiceRelationships(m)
      /\ kind = "ServiceAccount" => Relationships(m) = getServiceAccountRelationships(m)
      /\ kind = "PodSecurityPolicy" => Relationships(m) = getPodSecurityPolicyRelationships(m)
  BY Zenon DEF Relationships, kind
<1>4. /\ kind = "PodDisruptionBudget" => Relationships(m) = getPodDisruptionBudgetRelationships(m)
      /\ kind = "MutatingWebhookConfiguration" =>
            Relationships(m) = getMutatingWebhookConfigurationRelationships(m)
      /\ kind = "ValidatingWebhookConfiguration" =>
            Relationships(m) = getValidatingWebhookConfigurationRelationships(m)
      /\ kind = "APIService" => Relationships(m) = getAPIServiceRelationships(m)
      /\ kind = "Ingress" => Relationships(m) = getIngressRelationships(m)
      /\ kind = "IngressClass" => Relationships(m) = getIngressClassRelationships(m)
  BY Zenon DEF Relationships, kind
<1>5. /\ kind = "NetworkPolicy" => Relationships(m) = getNetworkPolicyRelationships(m)
      /\ kind = "RuntimeClass" => Relationships(m) = getRuntimeClassRelationships(m)
      /\ kind = "ClusterRole" => Relationships(m) = getClusterRoleRelationships(m)
      /\ kind = "ClusterRoleBinding" => Relationships(m) = getClusterRoleBindingRelationships(m)
      /\ kind = "Role" => Relationships(m) = getRoleRelationships(m)
      /\ kind = "RoleBinding" => Relationships(m) = getRoleBindingRelationships(m)
  BY Zenon DEF Relationships, kind
<1>6. /\ kind = "CSIStorageCapacity" => Relationships(m) = getCSIStorageCapacityRelationships(m)
      /\ kind = "CSINode" => Relationships(m) = getCSINodeRelationships(m)
      /\ kind = "StorageClass" => Relationships(m) = getStorageClassRelationships(m)
      /\ kind = "VolumeAttachment" => Relationships(m) = getVolumeAttachmentRelationships(m)
  BY Zenon DEF Relationships, kind
<1> QED  BY <1>1, <1>a, <1>b, <1>c, <1>d, <1>3, <1>4, <1>5, <1>6

(***************************************************************************)
(* The list of objects mirrors the list of manifests, and an edge of the   *)
(* graph is an entry that one of two manifests declares.                   *)
(***************************************************************************)
(* The list of objects is the one of the manifests.                        *)
Mirrored == manifests \in Clusters /\ objects = ObjectsOf(manifests)

LEMMA ClusterIsMirrored == ClusterSpec => Spec /\ []Mirrored
<1>1. ClusterInit => Init /\ Mirrored
  BY DEF ClusterInit, Mirrored
<1>2. Mirrored /\ [ClusterNext]_<<vars, manifests>> => [Next]_vars /\ Mirrored'
  <2> SUFFICES ASSUME Mirrored, [ClusterNext]_<<vars, manifests>>
               PROVE  [Next]_vars /\ Mirrored'
    OBVIOUS
  <2>1. [Next]_vars /\ manifests' = manifests
    BY DEF ClusterNext
  <2>2. objects' = objects
    BY <2>1 DEF Next, Index, IndexFails, StartOwners, ResolveOwners, StartDeclared,
                ResolveDeclared, Finish, vars
  <2> QED  BY <2>1, <2>2 DEF Mirrored
<1> QED  BY <1>1, <1>2, PTL DEF ClusterSpec, Spec

(* What of a manifest the object takes over.                               *)
LEMMA ObjectFields ==
    ASSUME Mirrored, NEW n \in Nodes
    PROVE  /\ n \in DOMAIN manifests /\ objects[n] = ObjectOf(manifests[n])
           /\ WellFormed(manifests[n])
           /\ KeyOf(objects[n]) = KeyOf(manifests[n]) /\ UIDsOf(objects[n]) = UIDsOf(manifests[n])
           /\ objects[n].uid = manifests[n].uid /\ objects[n].class = manifests[n].class
           /\ Aliases(objects[n]) = Aliases(manifests[n])
           /\ \A e : Refers(e, objects[n]) <=> Refers(e, manifests[n])
<1>1. n \in DOMAIN manifests /\ objects[n] = ObjectOf(manifests[n])
  BY DEF Mirrored, ObjectsOf, Nodes
<1>2. WellFormed(manifests[n])
  BY <1>1, ClustersAssumption DEF Mirrored
<1>3. /\ objects[n].uid = manifests[n].uid /\ objects[n].class = manifests[n].class
      /\ objects[n].ns = manifests[n].ns /\ objects[n].name = manifests[n].name
      /\ objects[n].labels = manifests[n].labels /\ objects[n].hostname = manifests[n].hostname
  BY <1>1 DEF ObjectOf
<1>4. /\ KeyOf(objects[n]) = KeyOf(manifests[n]) /\ UIDsOf(objects[n]) = UIDsOf(manifests[n])
      /\ Aliases(objects[n]) = Aliases(manifests[n])
  BY <1>3 DEF KeyOf, UIDsOf, Aliases
<1> QED  BY <1>1, <1>2, <1>3, <1>4 DEF Refers

(* No two objects of the list have a UID or a key in common.               *)
LEMMA ObjectsApart ==
    ASSUME Mirrored, TypeOK
    PROVE  /\ Latest = Nodes /\ Consistent
           /\ \A n, m \in Nodes :
                 n # m => /\ objects[n].uid # objects[m].uid
                          /\ KeyOf(objects[n]) # KeyOf(objects[m])
                          /\ objects[n].uid \notin UIDsOf(objects[m])
<1>1. \A n, m \in Nodes :
          /\ n # m => objects[n].uid # objects[m].uid /\ KeyOf(objects[n]) # KeyOf(objects[m])
          /\ objects[n].uid \notin Aliases(objects[m])
  BY ObjectFields, ClustersAssumption DEF Mirrored, ListedOnce
<1>2. Nodes \subseteq Nat
  BY NodeTypes
<1>3. Latest = Nodes
  <2>1. \A n, m \in Nodes : m > n => objects[m].uid # objects[n].uid
    BY <1>1, <1>2
  <2> QED  BY <2>1 DEF Latest
<1>4. Consistent
  BY <1>1 DEF Consistent
<1> QED  BY <1>1, <1>3, <1>4 DEF UIDsOf

(* An entry refers to the one object that has what it asks for.  A cluster *)
(* node may have a hostname that is the name of another one.               *)
LEMMA RefersToNode ==
    ASSUME Mirrored, TypeOK, NEW e \in RelationshipMapEntry, NEW n \in Nodes,
           objects[n].class # NodeClass
    PROVE  RefersTo(e, n) <=> Refers(e, manifests[n])
<1>1. Refers(e, manifests[n]) <=> Refers(e, objects[n])
  BY ObjectFields
<1>2. Nodes \subseteq Nat
  BY NodeTypes
<1>3. UIDsOf(objects[n]) = {objects[n].uid}
  BY DEF UIDsOf, Aliases
<1>4. e.by \in {"ref", "uid", "label", "selector"}
  BY DEF RelationshipMapEntry
<1>5. CASE e.by = "ref"
  BY <1>1, <1>2, <1>5, ObjectsApart DEF RefersTo, Refers, IsLast
<1>6. CASE e.by = "uid"
  BY <1>1, <1>2, <1>3, <1>6, ObjectsApart DEF RefersTo, Refers, IsLast
<1>7. CASE e.by = "label"
  BY <1>1, <1>7 DEF RefersTo, Refers
<1>8. CASE e.by = "selector"
  BY <1>1, <1>8 DEF RefersTo, Refers
<1> QED  BY <1>4, <1>5, <1>6, <1>7, <1>8

(* What a manifest declares.                                               *)
Declared(m) == IF m.class \in Supported /\ m.valid THEN Relationships(m) ELSE {}

(* One object depends directly on another exactly if its manifest declares *)
(* the dependency, or the other's manifest the dependent.                  *)
LEMMA EdgesOfManifests ==
    ASSUME Mirrored, TypeOK, GraphIsDeclared, pc = "built", NEW n \in Nodes, NEW m \in Nodes,
           objects[m].class # NodeClass \/ Declared(manifests[n]) = {},
           objects[n].class # NodeClass \/ Declared(manifests[m]) = {}
    PROVE  DependsDirectly(n, m) <=>
              \/ Reaches(Declared(manifests[n]), "dependency", manifests[m])
              \/ Reaches(Declared(manifests[m]), "dependent", manifests[n])
<1> DEFINE Rel == Relationship \ {ControllerRef, OwnerRef}
<1>1. /\ \A k \in Nodes : objects[k].declares = Declared(manifests[k])
      /\ \A k \in Nodes : objects[k].outcome # "ok" => Declared(manifests[k]) = {}
      /\ \A k \in Nodes : \A e \in Declared(manifests[k]) :
             e \in RelationshipMapEntry /\ e.rel \in Rel
  <2>1. ASSUME NEW k \in Nodes
        PROVE  /\ objects[k].declares = Declared(manifests[k])
               /\ objects[k].outcome # "ok" => Declared(manifests[k]) = {}
    <3>1. objects[k] = ObjectOf(manifests[k])
      BY ObjectFields
    <3> QED  BY <3>1 DEF ObjectOf, Declared
  <2>2. ASSUME NEW k \in Nodes, NEW e \in objects[k].declares
        PROVE  e \in RelationshipMapEntry /\ e.rel \in Rel
    <3>1. e \in RelationshipMapEntry
      BY NodeTypes DEF Manifest
    <3>2. e.rel \in Relationship
      BY <3>1 DEF RelationshipMapEntry
    <3>3. e.rel \notin {ControllerRef, OwnerRef}
      BY ObjectFields, ClustersAssumption DEF Mirrored
    <3> QED  BY <3>1, <3>2, <3>3
  <2> QED  BY <2>1, <2>2
<1>2. ASSUME NEW k \in Nodes, NEW l \in Nodes, NEW dir,
             objects[l].class # NodeClass \/ Declared(manifests[k]) = {}
      PROVE  (\E r \in Rel : Declares(k, dir, l, r))
                <=> Reaches(Declared(manifests[k]), dir, manifests[l])
  BY <1>1, <1>2, RefersToNode DEF Declares, Reaches
<1>3. \A r \in Rel : ~Owns(m, n, r)
  BY DEF Owns
<1>4. (\E r \in Rel : DependsOn(n, m, r)) <=>
          \/ \E r \in Rel : Declares(n, "dependency", m, r)
          \/ \E r \in Rel : Declares(m, "dependent", n, r)
  BY <1>3 DEF DependsOn
<1>5. ASSUME NEW r \in Rel
      PROVE  <<objects[m].uid, r>> \in dependencies[n] <=> DependsOn(n, m, r)
  <2> DEFINE Links == Latest \X Relationship
             links == {x \in Links : DependsOn(n, x[1], x[2])}
  <2>1. dependencies[n] = {<<objects[x[1]].uid, x[2]>> : x \in links}
    BY ObjectsApart DEF GraphIsDeclared
  <2>2. \A x \in Links : objects[x[1]].uid = objects[m].uid /\ x[2] = r => x[1] = m
    BY ObjectsApart
  <2>3. <<m, r>> \in Links
    BY ObjectsApart
  <2>4. <<objects[m].uid, r>> \in dependencies[n] <=>
            \E x \in Links : /\ DependsOn(n, x[1], x[2])
                             /\ objects[x[1]].uid = objects[m].uid /\ x[2] = r
    <3> HIDE DEF Links
    <3> QED  BY <2>1
  <2> HIDE DEF Links
  <2> QED  BY <2>2, <2>3, <2>4
<1> QED  BY <1>2, <1>4, <1>5 DEF DependsDirectly

(***************************************************************************)
(* Service accounts, bindings, roles and pod security policies.            *)
(***************************************************************************)
(* The kinds tell the classes apart.                                       *)
LEMMA Kinds ==
    /\ Secret[2] = "Secret" /\ CSIDriver[2] = "CSIDriver" /\ Service[2] = "Service"
    /\ ServiceAccount[2] = "ServiceAccount" /\ Pod[2] = "Pod" /\ Node[2] = "Node"
    /\ PersistentVolume[2] = "PersistentVolume"
    /\ PersistentVolumeClaim[2] = "PersistentVolumeClaim"
    /\ ClusterRole[2] = "ClusterRole" /\ Role[2] = "Role"
    /\ ClusterRoleBinding[2] = "ClusterRoleBinding" /\ RoleBinding[2] = "RoleBinding"
    /\ PodSecurityPolicy[2] = "PodSecurityPolicy" /\ StorageClass[2] = "StorageClass"
    /\ IngressClass[2] = "IngressClass" /\ PriorityClass[2] = "PriorityClass"
    /\ RuntimeClass[2] = "RuntimeClass"
BY PairParts, Zenon DEF Secret, CSIDriver, Service, ServiceAccount, Pod, Node, PersistentVolume,
       PersistentVolumeClaim, ClusterRole, Role, ClusterRoleBinding, RoleBinding,
       PodSecurityPolicy, StorageClass, IngressClass, PriorityClass, RuntimeClass

(* What the manifests of bindings, roles and policies declare.             *)
LEMMA AccessDeclared ==
    ASSUME NEW m, WellFormed(m)
    PROVE  /\ m.class = ServiceAccount => Declared(m) = getServiceAccountRelationships(m)
           /\ m.class = ClusterRoleBinding => Declared(m) = getClusterRoleBindingRelationships(m)
           /\ m.class = RoleBinding => Declared(m) = getRoleBindingRelationships(m)
           /\ m.class = ClusterRole => Declared(m) = getClusterRoleRelationships(m)
           /\ m.class = Role => Declared(m) = getRoleRelationships(m)
           /\ m.class = PodSecurityPolicy => Declared(m) = getPodSecurityPolicyRelationships(m)
<1>1. {ServiceAccount, ClusterRoleBinding, RoleBinding, ClusterRole, Role, PodSecurityPolicy}
          \subseteq Supported
  BY DEF Supported
<1>2. ASSUME m.class \in {ServiceAccount, ClusterRoleBinding, RoleBinding, ClusterRole, Role,
                          PodSecurityPolicy}
      PROVE  Declared(m) = Relationships(m)
  <2>1. m.class \notin {Service, <<"policy", "PodDisruptionBudget">>,
                        <<"networking", "NetworkPolicy">>}
    BY <1>2, Kinds
  <2>2. m.valid
    BY <2>1 DEF WellFormed
  <2> QED  BY <1>1, <1>2, <2>2 DEF Declared
<1> QED  BY <1>2, Dispatch

(* What the entries that such a manifest declares refer to.                *)
LEMMA PolicyRulesReach ==
    ASSUME NEW m, NEW rel, NEW o
    PROVE  LET matched == {r \in m.rules : podSecurityPolicyMatches(r)} IN
           /\ ~Reaches(PolicyRules(m, rel), "dependent", o)
           /\ Touches(PolicyRules(m, rel), o) => o.class = PodSecurityPolicy
           /\ o.class = PodSecurityPolicy /\ o.ns = "" =>
                 (Reaches(PolicyRules(m, rel), "dependency", o) <=>
                     \E r \in matched : r.resourceNames = {} \/ o.name \in r.resourceNames)
<1> DEFINE matched == {r \in m.rules : podSecurityPolicyMatches(r)}
           all == {r \in matched : r.resourceNames = {}}
           keys == Unscoped(PodSecurityPolicy, UNION {r.resourceNames : r \in matched})
           selectors == {[class |-> PodSecurityPolicy, namespaces |-> {}] : r \in all}
           A == DependencyByKey(keys, rel)
           B == DependencyBySelector(selectors, rel)
<1>1. PolicyRules(m, rel) = A \union B
  BY DEF PolicyRules
<1>2. /\ Touches(A, o) <=> KeyOf(o) \in keys
      /\ Touches(B, o) <=> Selects(selectors, o)
      /\ \A dir : /\ Reaches(A, dir, o) <=> dir = "dependency" /\ KeyOf(o) \in keys
                  /\ Reaches(B, dir, o) <=> dir = "dependency" /\ Selects(selectors, o)
  <2> HIDE DEF keys, selectors
  <2> QED  BY KeyEntries, SelectorEntries
<1>3. KeyOf(o) \in keys <=> /\ o.class = PodSecurityPolicy /\ o.ns = ""
                            /\ \E r \in matched : o.name \in r.resourceNames
  <2> DEFINE names == UNION {r.resourceNames : r \in matched}
  <2>1. o.name \in names <=> \E r \in matched : o.name \in r.resourceNames
    OBVIOUS
  <2>2. KeyOf(o) \in Unscoped(PodSecurityPolicy, names) <=>
            o.class = PodSecurityPolicy /\ o.ns = "" /\ o.name \in names
    BY KeyUnscoped
  <2> HIDE DEF matched
  <2> QED  BY <2>1, <2>2
<1>4. Selects(selectors, o) <=> /\ o.class = PodSecurityPolicy
                                /\ \E r \in matched : r.resourceNames = {}
  <2>1. \A s : s \in selectors <=>
            /\ s = [class |-> PodSecurityPolicy, namespaces |-> {}]
            /\ \E r \in matched : r.resourceNames = {}
    OBVIOUS
  <2> HIDE DEF selectors, matched
  <2>2. \A s \in selectors : s.class = PodSecurityPolicy /\ s.namespaces = {}
    BY <2>1
  <2>3. (\E r \in matched : r.resourceNames = {}) <=> \E s \in selectors : TRUE
    BY <2>1
  <2> QED  BY <2>2, <2>3 DEF Selects
<1> HIDE DEF keys, selectors, matched, A, B
<1> QED  BY <1>1, <1>2, <1>3, <1>4 DEF Touches, Reaches, matched

(* The secrets of a service account.                                       *)
LEMMA ServiceAccountEntries ==
    ASSUME NEW m, NEW o
    PROVE  LET entries == getServiceAccountRelationships(m) IN
           /\ Touches(entries, o) <=>
                 o.class = Secret /\ o.ns = m.ns /\ o.name \in m.pullSecrets \union m.secrets
           /\ Reaches(entries, "dependency", o) => o.class = Secret
<1> DEFINE A == DependencyByKey(Named(Secret, m.ns, m.pullSecrets),
                                "ServiceAccountImagePullSecret")
           B == DependentByKey(Named(Secret, m.ns, m.secrets), "ServiceAccountSecret")
<1>1. getServiceAccountRelationships(m) = A \union B
  BY DEF getServiceAccountRelationships
<1>2. /\ Touches(A, o) <=> o.class = Secret /\ o.ns = m.ns /\ o.name \in m.pullSecrets
      /\ Touches(B, o) <=> o.class = Secret /\ o.ns = m.ns /\ o.name \in m.secrets
      /\ ~Reaches(B, "dependency", o)
  BY KeyEntries, KeyNamed
<1> HIDE DEF A, B
<1> QED  BY <1>1, <1>2 DEF Touches, Reaches

(* The drivers of a policy; it has no dependents.                          *)
LEMMA PodSecurityPolicyEntries ==
    ASSUME NEW m, NEW o
    PROVE  LET entries == getPodSecurityPolicyRelationships(m) IN
           /\ ~Reaches(entries, "dependent", o)
           /\ o.class # RuntimeClass =>
                 (Touches(entries, o) <=>
                     o.class = CSIDriver /\ o.ns = "" /\ o.name \in m.drivers)
<1> DEFINE A == DependencyByKey(Unscoped(CSIDriver, m.drivers),
                                "PodSecurityPolicyAllowedCSIDriver")
           B == DependencyByKey(Unscoped(RuntimeClass, m.runtimeClasses),
                                "PodSecurityPolicyAllowedRuntimeClass")
           C == DependencyByKey(Unscoped(RuntimeClass, m.defaultRuntimeClass),
                                "PodSecurityPolicyDefaultRuntimeClass")
<1>1. getPodSecurityPolicyRelationships(m) = A \union B \union C
  BY DEF getPodSecurityPolicyRelationships
<1>2. /\ Touches(A, o) <=> o.class = CSIDriver /\ o.ns = "" /\ o.name \in m.drivers
      /\ o.class # RuntimeClass => ~Touches(B, o) /\ ~Touches(C, o)
  BY UnscopedEntries
<1>3. ~Reaches(A, "dependent", o) /\ ~Reaches(B, "dependent", o) /\ ~Reaches(C, "dependent", o)
  BY KeyEntries
<1> HIDE DEF A, B, C
<1> QED  BY <1>1, <1>2, <1>3 DEF Touches, Reaches

(* The aggregation rule of a role is about roles only.                     *)
LEMMA ClusterRoleEntries ==
    ASSUME NEW m, NEW o, o.class # ClusterRole
    PROVE  LET entries == getClusterRoleRelationships(m)
               rules == PolicyRules(m, "ClusterRolePolicyRule")
           IN  /\ Touches(entries, o) <=> Touches(rules, o)
               /\ \A dir : Reaches(entries, dir, o) <=> Reaches(rules, dir, o)
<1> DEFINE A == DependencyByLabelSelector(Matching(ClusterRole, "", m.selectors),
                                          "ClusterRoleAggregationRule")
           B == PolicyRules(m, "ClusterRolePolicyRule")
<1>1. getClusterRoleRelationships(m) = A \union B
  BY DEF getClusterRoleRelationships
<1>2. ~Touches(A, o) /\ \A dir : ~Reaches(A, dir, o)
  BY LabelEntries
<1> HIDE DEF A, B
<1>3. LET entries == getClusterRoleRelationships(m)
      IN  /\ Touches(entries, o) <=> Touches(B, o)
          /\ \A dir : Reaches(entries, dir, o) <=> Reaches(B, dir, o)
  BY <1>1, <1>2 DEF Touches, Reaches
<1> QED  BY <1>3 DEF B

(* The subjects and the roles of a binding; "own" are the namespaces of    *)
(* its groups of all accounts.                                             *)
LEMMA BindingEntries ==
    ASSUME NEW m, NEW o
    PROVE  LET ref == m.roleRef
               Refs(kind) == ref.group = "rbac" /\ ref.kind = kind /\ o.name = ref.name
               ToClusterRole == o.class = ClusterRole /\ o.ns = "" /\ Refs("ClusterRole")
               ToRole == o.class = Role /\ o.ns = m.ns /\ Refs("Role")
               ToAccount(own) == KeyOf(o) \in SubjectKeys(m) \/ Selects(SubjectSelectors(m, own), o)
           IN  /\ Reaches(getClusterRoleBindingRelationships(m), "dependent", o) <=> ToAccount({})
               /\ Reaches(getClusterRoleBindingRelationships(m), "dependency", o) <=> ToClusterRole
               /\ Reaches(getRoleBindingRelationships(m), "dependent", o) <=> ToAccount({m.ns})
               /\ Reaches(getRoleBindingRelationships(m), "dependency", o) <=>
                      ToClusterRole \/ ToRole
               /\ Touches(getClusterRoleBindingRelationships(m), o) =>
                      ToAccount({}) \/ ToClusterRole
               /\ Touches(getRoleBindingRelationships(m), o) =>
                      ToAccount({m.ns}) \/ ToClusterRole \/ ToRole
<1> DEFINE ref == m.roleRef
           Refs(kind) == ref.group = "rbac" /\ ref.kind = kind /\ o.name = ref.name
           Names(kind) == {r.name : r \in {x \in {ref} : x.group = "rbac" /\ x.kind = kind}}
           ToClusterRole == o.class = ClusterRole /\ o.ns = "" /\ Refs("ClusterRole")
           ToRole == o.class = Role /\ o.ns = m.ns /\ Refs("Role")
           A(rel) == DependentByKey(SubjectKeys(m), rel)
           B(own, rel) == DependentBySelector(SubjectSelectors(m, own), rel)
           C == DependencyByKey(Unscoped(ClusterRole, Names("ClusterRole")), "RoleBindingRole")
           D == DependencyByKey(Named(Role, m.ns, Names("Role")), "RoleBindingRole")
<1>1. getClusterRoleBindingRelationships(m) =
          A("ClusterRoleBindingSubject") \union B({}, "ClusterRoleBindingSubject") \union C
  BY DEF getClusterRoleBindingRelationships
<1>2. getRoleBindingRelationships(m) =
          A("RoleBindingSubject") \union B({m.ns}, "RoleBindingSubject") \union C \union D
  BY DEF getRoleBindingRelationships
<1>3. \A rel : /\ Touches(A(rel), o) <=> KeyOf(o) \in SubjectKeys(m)
               /\ Reaches(A(rel), "dependent", o) <=> KeyOf(o) \in SubjectKeys(m)
               /\ ~Reaches(A(rel), "dependency", o)
  BY KeyEntries
<1>4. \A own, rel : /\ Touches(B(own, rel), o) <=> Selects(SubjectSelectors(m, own), o)
                    /\ Reaches(B(own, rel), "dependent", o) <=>
                          Selects(SubjectSelectors(m, own), o)
                    /\ ~Reaches(B(own, rel), "dependency", o)
  BY SelectorEntries
<1>5. \A kind : o.name \in Names(kind) <=> Refs(kind)
  OBVIOUS
<1>6. /\ Touches(C, o) <=> ToClusterRole
      /\ Reaches(C, "dependency", o) <=> ToClusterRole
      /\ ~Reaches(C, "dependent", o)
  <2>1. KeyOf(o) \in Unscoped(ClusterRole, Names("ClusterRole")) <=> ToClusterRole
    <3> HIDE DEF Names, Refs
    <3> QED  BY <1>5, KeyUnscoped
  <2> HIDE DEF Names, ToClusterRole
  <2> QED  BY <2>1, KeyEntries
<1>7. /\ Touches(D, o) <=> ToRole
      /\ Reaches(D, "dependency", o) <=> ToRole
      /\ ~Reaches(D, "dependent", o)
  <2> HIDE DEF Names, Refs
  <2> QED  BY <1>5, KeyEntries, KeyNamed
<1> HIDE DEF A, B, C, D
<1> QED  BY <1>1, <1>2, <1>3, <1>4, <1>6, <1>7 DEF Touches, Reaches

(* A subject that a function does not overlook.                            *)
IsShownSubject(sa, s, b) == IsSubject(sa, s, b) /\ ~OverlooksSubject(sa, s, b)

(* The accounts a binding is about.                                        *)
LEMMA SubjectsReached ==
    ASSUME NEW sa, sa.class = ServiceAccount, WellFormed(sa),
           NEW b, b.class \in {ClusterRoleBinding, RoleBinding}, WellFormed(b)
    PROVE  /\ Reaches(Declared(b), "dependent", sa) <=> \E s \in b.subjects : IsShownSubject(sa, s, b)
           /\ ~Reaches(Declared(sa), "dependency", b)
<1> DEFINE own == IF b.class = ClusterRoleBinding THEN {} ELSE {b.ns}
<1>1. ~Reaches(Declared(sa), "dependency", b)
  <2>1. Declared(sa) = getServiceAccountRelationships(sa)
    BY AccessDeclared
  <2>2. b.class # Secret
    BY Kinds
  <2> QED  BY <2>1, <2>2, ServiceAccountEntries
<1>2. Reaches(Declared(b), "dependent", sa) <=>
          KeyOf(sa) \in SubjectKeys(b) \/ Selects(SubjectSelectors(b, own), sa)
  <2>1. CASE b.class = ClusterRoleBinding
    <3>1. Declared(b) = getClusterRoleBindingRelationships(b) /\ own = {}
      BY <2>1, AccessDeclared
    <3> HIDE DEF own
    <3> QED  BY <3>1, BindingEntries
  <2>2. CASE b.class = RoleBinding
    <3>1. Declared(b) = getRoleBindingRelationships(b) /\ own = {b.ns}
      BY <2>2, AccessDeclared, Kinds
    <3> HIDE DEF own
    <3> QED  BY <3>1, BindingEntries
  <2> QED  BY <2>1, <2>2
<1>3. \A s \in b.subjects : ValidSubject(s, b)
  BY DEF WellFormed
<1>4. KeyOf(sa) \in SubjectKeys(b) <=>
          \E s \in b.subjects : /\ s.kind \in {"ServiceAccount", "User"}
                                /\ IsShownSubject(sa, s, b)
  <2>1. KeyOf(sa) \in SubjectKeys(b) <=>
           \/ \E s \in b.subjects : /\ s.kind = "ServiceAccount" /\ s.ns # ""
                                    /\ sa.ns = s.ns /\ sa.name = s.name
           \/ \E s \in b.subjects : /\ s.kind = "User" /\ s.ns = ""
                                    /\ s.is = "serviceaccount"
                                    /\ sa.ns = s.of /\ sa.name = s.name
    BY <1>3 DEF SubjectKeys, ValidSubject, KeyOf
  <2>2. \A s : s.kind = "ServiceAccount" =>
                  (IsShownSubject(sa, s, b) <=>
                      s.ns # "" /\ sa.ns = s.ns /\ sa.name = s.name)
    BY DEF IsShownSubject, IsSubject, OverlooksSubject
  <2>3. \A s : s.kind = "User" =>
                  (IsShownSubject(sa, s, b) <=> /\ s.ns = "" /\ s.is = "serviceaccount"
                                                /\ sa.ns = s.of /\ sa.name = s.name)
    BY DEF IsShownSubject, IsSubject, OverlooksSubject
  <2> QED  BY <2>1, <2>2, <2>3
<1>5. Selects(SubjectSelectors(b, own), sa) <=>
          \E s \in b.subjects : s.kind = "Group" /\ IsShownSubject(sa, s, b)
  <2>1. Selects(SubjectSelectors(b, own), sa) <=>
           \E s \in b.subjects :
               /\ s.kind = "Group" /\ s.ns = ""
               /\ \/ s.is = "serviceaccounts of" /\ sa.ns = s.of
                  \/ /\ s.is \in {"authenticated", "serviceaccounts"}
                     /\ own = {} \/ sa.ns \in own
    <3> DEFINE groups == {x \in b.subjects :
                            /\ x.kind = "Group" /\ x.group = "rbac" /\ x.ns = ""
                            /\ x.is \in {"authenticated", "serviceaccounts",
                                         "serviceaccounts of"}}
               Of(s) == IF s.is = "serviceaccounts of" THEN {s.of} ELSE own
               selectors == {[class |-> ServiceAccount, namespaces |-> Of(s)] : s \in groups}
    <3>1. SubjectSelectors(b, own) = selectors
      BY DEF SubjectSelectors
    <3>2. Selects(selectors, sa) <=> \E s \in groups : Of(s) = {} \/ sa.ns \in Of(s)
      <4> HIDE DEF groups, Of
      <4>1. \A s \in groups : [class |-> ServiceAccount, namespaces |-> Of(s)] \in selectors
        OBVIOUS
      <4>2. \A x \in selectors : /\ x.class = ServiceAccount
                                 /\ \E s \in groups : x.namespaces = Of(s)
        OBVIOUS
      <4> HIDE DEF selectors
      <4> QED  BY <4>1, <4>2 DEF Selects
    <3>3. \A s : s \in groups <=> /\ s \in b.subjects /\ s.kind = "Group" /\ s.ns = ""
                                  /\ s.is \in {"authenticated", "serviceaccounts",
                                               "serviceaccounts of"}
      BY <1>3 DEF ValidSubject
    <3>4. \A s : /\ s.is = "serviceaccounts of" =>
                        (Of(s) = {} \/ sa.ns \in Of(s) <=> sa.ns = s.of)
                 /\ s.is # "serviceaccounts of" => Of(s) = own
      OBVIOUS
    <3> HIDE DEF own, groups, Of, selectors
    <3> QED  BY <3>1, <3>2, <3>3, <3>4
  <2>2. own = {} \/ sa.ns \in own <=> b.class = ClusterRoleBinding \/ sa.ns = b.ns
    OBVIOUS
  <2> HIDE DEF own
  <2>3. \A s : s.kind = "Group" =>
                  (IsShownSubject(sa, s, b) <=>
                      /\ s.ns = ""
                      /\ \/ s.is = "serviceaccounts of" /\ sa.ns = s.of
                         \/ /\ s.is \in {"authenticated", "serviceaccounts"}
                            /\ b.class = ClusterRoleBinding \/ sa.ns = b.ns)
    <3>1. ClusterRoleBinding # RoleBinding
      BY Kinds
    <3> QED  BY <3>1 DEF IsShownSubject, IsSubject, OverlooksSubject
  <2> QED  BY <2>1, <2>2, <2>3
<1>6. \A s \in b.subjects : s.kind \in {"ServiceAccount", "User", "Group"}
  BY <1>3 DEF ValidSubject
<1> QED  BY <1>1, <1>2, <1>4, <1>5, <1>6

(* The role a binding grants.                                              *)
LEMMA RoleReached ==
    ASSUME NEW b, b.class \in {ClusterRoleBinding, RoleBinding}, WellFormed(b),
           NEW role, role.class \in {ClusterRole, Role}, WellFormed(role)
    PROVE  /\ Reaches(Declared(b), "dependency", role) <=> RefersToRole(b, role)
           /\ ~Reaches(Declared(role), "dependent", b)
<1>1. ~Reaches(Declared(role), "dependent", b)
  <2>1. b.class # ClusterRole
    BY Kinds
  <2>2. CASE role.class = ClusterRole
    <3>1. Declared(role) = getClusterRoleRelationships(role)
      BY <2>2, AccessDeclared
    <3> QED  BY <2>1, <3>1, PolicyRulesReach, ClusterRoleEntries
  <2>3. CASE role.class = Role
    <3>1. Declared(role) = PolicyRules(role, "RolePolicyRule")
      BY <2>3, AccessDeclared DEF getRoleRelationships
    <3> QED  BY <3>1, PolicyRulesReach
  <2> QED  BY <2>2, <2>3
<1> DEFINE ref == b.roleRef
           IsOf(kind) == ref.group = "rbac" /\ ref.kind = kind /\ role.name = ref.name
<1>3. /\ role.class = ClusterRole => role.ns = ""
      /\ role.class = Role => role.ns # ""
      /\ b.class = ClusterRoleBinding => b.ns = ""
  BY DEF WellFormed, Namespaced, ClusterScoped
<1>4. /\ <<ref.group, ref.kind>> = ClusterRole <=> ref.group = "rbac" /\ ref.kind = "ClusterRole"
      /\ <<ref.group, ref.kind>> = Role <=> ref.group = "rbac" /\ ref.kind = "Role"
  BY DEF ClusterRole, Role
<1>5. RefersToRole(b, role) <=>
          \/ role.class = ClusterRole /\ IsOf("ClusterRole")
          \/ role.class = Role /\ role.ns = b.ns /\ IsOf("Role")
  BY <1>4, Kinds DEF RefersToRole
<1> HIDE DEF IsOf
<1>6. CASE b.class = ClusterRoleBinding
  <2>1. Declared(b) = getClusterRoleBindingRelationships(b)
    BY <1>6, AccessDeclared
  <2>2. Reaches(Declared(b), "dependency", role) <=>
            role.class = ClusterRole /\ role.ns = "" /\ IsOf("ClusterRole")
    BY <2>1, BindingEntries DEF IsOf
  <2> QED  BY <1>1, <1>3, <1>5, <1>6, <2>2
<1>7. CASE b.class = RoleBinding
  <2>1. Declared(b) = getRoleBindingRelationships(b)
    BY <1>7, AccessDeclared
  <2>2. Reaches(Declared(b), "dependency", role) <=>
            \/ role.class = ClusterRole /\ role.ns = "" /\ IsOf("ClusterRole")
            \/ role.class = Role /\ role.ns = b.ns /\ IsOf("Role")
    BY <2>1, BindingEntries DEF IsOf
  <2> QED  BY <1>1, <1>3, <1>5, <1>7, <2>2
<1> QED  BY <1>6, <1>7

(* The policies a role allows to use.                                      *)
LEMMA PoliciesReached ==
    ASSUME NEW role, role.class \in {ClusterRole, Role}, WellFormed(role),
           NEW psp, psp.class = PodSecurityPolicy, WellFormed(psp)
    PROVE  /\ Reaches(Declared(role), "dependency", psp) <=>
                 \E rule \in role.rules : AllowsUse(rule, psp)
           /\ ~Reaches(Declared(psp), "dependent", role)
<1>1. psp.ns = "" /\ psp.class # ClusterRole
  BY Kinds DEF WellFormed, ClusterScoped
<1>2. ~Reaches(Declared(psp), "dependent", role)
  <2>1. Declared(psp) = getPodSecurityPolicyRelationships(psp)
    BY AccessDeclared
  <2> QED  BY <2>1, PodSecurityPolicyEntries
<1>3. ASSUME NEW rel
      PROVE  Reaches(PolicyRules(role, rel), "dependency", psp) <=>
                 \E rule \in role.rules : AllowsUse(rule, psp)
  <2> DEFINE matched == {r \in role.rules : podSecurityPolicyMatches(r)}
  <2>1. Reaches(PolicyRules(role, rel), "dependency", psp) <=>
            \E r \in matched : r.resourceNames = {} \/ psp.name \in r.resourceNames
    BY <1>1, PolicyRulesReach
  <2>2. \A r \in role.rules :
            AllowsUse(r, psp) <=> /\ podSecurityPolicyMatches(r)
                                  /\ r.resourceNames = {} \/ psp.name \in r.resourceNames
    BY DEF AllowsUse, podSecurityPolicyMatches
  <2> QED  BY <2>1, <2>2
<1>4. CASE role.class = ClusterRole
  <2>1. Declared(role) = getClusterRoleRelationships(role)
    BY <1>4, AccessDeclared
  <2> QED  BY <1>1, <1>2, <1>3, <2>1, ClusterRoleEntries
<1>5. CASE role.class = Role
  <2>1. Declared(role) = PolicyRules(role, "RolePolicyRule")
    BY <1>5, AccessDeclared DEF getRoleRelationships
  <2> QED  BY <1>2, <1>3, <2>1
<1> QED  BY <1>4, <1>5

(* For every cluster: the graph leads from a service account over a binding *)
(* and a role to a pod security policy exactly if Kubernetes lets the       *)
(* account use the policy by a subject that the functions do not overlook,  *)
(* whatever the kinds of the binding, of its subjects and of the role.      *)
THEOREM PolicyReach == ClusterSpec => []PolicyReachIsAuthorised
<1>1. Mirrored /\ TypeOK /\ GraphIsDeclared => PolicyReachIsAuthorised
  <2> DEFINE Bindings == OfClass(ClusterRoleBinding) \union OfClass(RoleBinding)
             Roles == OfClass(ClusterRole) \union OfClass(Role)
  <2> SUFFICES ASSUME Mirrored, TypeOK, GraphIsDeclared, pc = "built",
                      NEW sa \in OfClass(ServiceAccount), NEW psp \in OfClass(PodSecurityPolicy)
               PROVE  (\E b \in Bindings, role \in Roles :
                              /\ DependsDirectly(sa, b)
                              /\ DependsDirectly(b, role)
                              /\ DependsDirectly(role, psp))
                      <=> \E b, role \in Range(manifests) : \E s \in b.subjects :
                              /\ Grants(b, s, role, manifests[sa], manifests[psp])
                              /\ ~OverlooksSubject(manifests[sa], s, b)
    BY DEF PolicyReachIsAuthorised
  <2>1. NodeClass \notin {ServiceAccount, PodSecurityPolicy, ClusterRoleBinding, RoleBinding,
                          ClusterRole, Role}
    BY Kinds, ClustersAssumption
  <2>2. /\ \A n \in Nodes : WellFormed(manifests[n]) /\ objects[n].class = manifests[n].class
        /\ Nodes = DOMAIN manifests
    BY ObjectFields DEF Mirrored, ObjectsOf, Nodes
  <2>3. \A b \in Bindings : /\ b \in Nodes
                            /\ manifests[b].class \in {ClusterRoleBinding, RoleBinding}
    BY DEF OfClass
  <2>4. \A role \in Roles : role \in Nodes /\ manifests[role].class \in {ClusterRole, Role}
    BY DEF OfClass
  <2>5. /\ sa \in Nodes /\ manifests[sa].class = ServiceAccount
        /\ psp \in Nodes /\ manifests[psp].class = PodSecurityPolicy
    BY DEF OfClass
  <2>6. ASSUME NEW b \in Bindings
        PROVE  DependsDirectly(sa, b) <=>
                   \E s \in manifests[b].subjects :
                       IsShownSubject(manifests[sa], s, manifests[b])
    BY <2>1, <2>2, <2>3, <2>5, EdgesOfManifests, SubjectsReached
  <2>7. ASSUME NEW b \in Bindings, NEW role \in Roles
        PROVE  DependsDirectly(b, role) <=> RefersToRole(manifests[b], manifests[role])
    BY <2>1, <2>2, <2>3, <2>4, EdgesOfManifests, RoleReached
  <2>8. ASSUME NEW role \in Roles
        PROVE  DependsDirectly(role, psp) <=>
                   \E rule \in manifests[role].rules : AllowsUse(rule, manifests[psp])
    BY <2>1, <2>2, <2>4, <2>5, EdgesOfManifests, PoliciesReached
  <2>9. (\E b, role \in Range(manifests) : \E s \in b.subjects :
            /\ Grants(b, s, role, manifests[sa], manifests[psp])
            /\ ~OverlooksSubject(manifests[sa], s, b))
        <=> \E b \in Bindings, role \in Roles :
               /\ \E s \in manifests[b].subjects :
                     IsShownSubject(manifests[sa], s, manifests[b])
               /\ RefersToRole(manifests[b], manifests[role])
               /\ \E rule \in manifests[role].rules : AllowsUse(rule, manifests[psp])
    <3>1. \A m : m \in Range(manifests) <=> \E n \in Nodes : m = manifests[n]
      BY <2>2 DEF Range
    <3>2. \A n : /\ n \in Bindings <=>
                       n \in Nodes /\ manifests[n].class \in {ClusterRoleBinding, RoleBinding}
                 /\ n \in Roles <=> n \in Nodes /\ manifests[n].class \in {ClusterRole, Role}
      BY DEF OfClass
    <3> HIDE DEF Bindings, Roles
    <3> QED  BY <3>1, <3>2 DEF Grants, IsShownSubject
  <2> QED  BY <2>6, <2>7, <2>8, <2>9
<1> QED  BY <1>1, ClusterIsMirrored, TypeCorrect, GraphAsDeclared, PTL

(***************************************************************************)
(* Secrets and drivers.                                                    *)
(***************************************************************************)
(* More of what entries by key refer to.                                   *)
LEMMA NamedEntries ==
    \A class, ns, names, r, o :
        /\ Touches(DependencyByKey(Named(class, ns, names), r), o) <=>
              o.class = class /\ o.ns = ns /\ o.name \in names
        /\ Touches(DependentByKey(Named(class, ns, names), r), o) <=>
              o.class = class /\ o.ns = ns /\ o.name \in names
BY KeyEntries, KeyNamed

LEMMA TypedEntries ==
    \A ns, refs, r, o :
        Touches(DependencyByKey(Typed(ns, refs), r), o) <=>
            o.ns = ns /\ \E x \in refs : o.class = x.class /\ o.name = x.name
<1> SUFFICES ASSUME NEW ns, NEW refs, NEW r, NEW o
             PROVE  Touches(DependencyByKey(Typed(ns, refs), r), o) <=>
                        o.ns = ns /\ \E x \in refs : o.class = x.class /\ o.name = x.name
  OBVIOUS
<1>1. KeyOf(o) \in Typed(ns, refs) <=>
          o.ns = ns /\ \E x \in refs : o.class = x.class /\ o.name = x.name
  BY KeyTyped
<1> QED  BY <1>1, KeyEntries

(* Most functions name neither secrets nor drivers.                        *)
LEMMA NoUsers ==
    ASSUME NEW m, NEW o, o.class \in {Secret, CSIDriver}
    PROVE  /\ ~Touches(getPersistentVolumeClaimRelationships(m), o)
           /\ ~Touches(getServiceRelationships(m), o)
           /\ ~Touches(getPodDisruptionBudgetRelationships(m), o)
           /\ ~Touches(getMutatingWebhookConfigurationRelationships(m), o)
           /\ ~Touches(getValidatingWebhookConfigurationRelationships(m), o)
           /\ ~Touches(getAPIServiceRelationships(m), o)
           /\ ~Touches(getNetworkPolicyRelationships(m), o)
           /\ ~Touches(getRuntimeClassRelationships(m), o)
           /\ ~Touches(getClusterRoleRelationships(m), o)
           /\ ~Touches(getClusterRoleBindingRelationships(m), o)
           /\ ~Touches(getRoleRelationships(m), o)
           /\ ~Touches(getRoleBindingRelationships(m), o)
           /\ ~Touches(getCSIStorageCapacityRelationships(m), o)
<1>1. o.class \notin {PersistentVolume, Pod, Service, Node, ClusterRole, Role, ServiceAccount,
                      PodSecurityPolicy, StorageClass}
  BY Kinds
<1>2. ~Touches(getPersistentVolumeClaimRelationships(m), o)
  BY <1>1, UnscopedEntries DEF getPersistentVolumeClaimRelationships
<1>3. /\ ~Touches(getServiceRelationships(m), o)
      /\ ~Touches(getPodDisruptionBudgetRelationships(m), o)
      /\ ~Touches(getNetworkPolicyRelationships(m), o)
      /\ ~Touches(getRuntimeClassRelationships(m), o)
  BY <1>1, LabelEntries DEF getServiceRelationships, getPodDisruptionBudgetRelationships,
     getNetworkPolicyRelationships, getRuntimeClassRelationships
<1>4. /\ ~Touches(getMutatingWebhookConfigurationRelationships(m), o)
      /\ ~Touches(getValidatingWebhookConfigurationRelationships(m), o)
      /\ ~Touches(getAPIServiceRelationships(m), o)
  BY <1>1, LocatedEntries DEF getMutatingWebhookConfigurationRelationships,
     getValidatingWebhookConfigurationRelationships, getAPIServiceRelationships
<1>5. \A rel : ~Touches(PolicyRules(m, rel), o)
  BY <1>1, PolicyRulesReach
<1>6. /\ ~Touches(getClusterRoleRelationships(m), o)
      /\ ~Touches(getRoleRelationships(m), o)
  BY <1>1, <1>5, ClusterRoleEntries DEF getRoleRelationships
<1>7. /\ ~Touches(getClusterRoleBindingRelationships(m), o)
      /\ ~Touches(getRoleBindingRelationships(m), o)
  <2>1. KeyOf(o) \notin SubjectKeys(m)
    BY <1>1 DEF SubjectKeys, KeyOf
  <2>2. \A own : ~Selects(SubjectSelectors(m, own), o)
    <3> TAKE own
    <3> DEFINE Of(s) == IF s.is = "serviceaccounts of" THEN {s.of} ELSE own
               groups == {x \in m.subjects :
                            /\ x.kind = "Group" /\ x.group = "rbac" /\ x.ns = ""
                            /\ x.is \in {"authenticated", "serviceaccounts",
                                         "serviceaccounts of"}}
    <3>1. SubjectSelectors(m, own) =
              {[class |-> ServiceAccount, namespaces |-> Of(s)] : s \in groups}
      BY DEF SubjectSelectors
    <3> HIDE DEF Of, groups
    <3>2. \A x \in SubjectSelectors(m, own) : x.class = ServiceAccount
      BY <3>1
    <3> QED  BY <1>1, <3>2 DEF Selects
  <2> QED  BY <1>1, <2>1, <2>2, BindingEntries
<1>8. ~Touches(getCSIStorageCapacityRelationships(m), o)
  BY <1>1, UnscopedEntries DEF getCSIStorageCapacityRelationships
<1> QED  BY <1>2, <1>3, <1>4, <1>6, <1>7, <1>8

(* The functions that do: what they name.                                  *)
VolumeUses(m, o) ==
    \/ o.class = CSIDriver /\ o.ns = "" /\ o.name \in m.drivers \ {""}
    \/ o.class = Secret /\ \E x \in m.driverSecrets : o.ns = x.ns /\ o.name = x.name

LEMMA PersistentVolumeEntries ==
    ASSUME NEW m, NEW o, o.class \in {Secret, CSIDriver}
    PROVE  Touches(getPersistentVolumeRelationships(m), o) <=> VolumeUses(m, o)
<1> DEFINE A == DependentByKey(Named(PersistentVolumeClaim, m.ns, {c.name : c \in m.claims}),
                               "PersistentVolumeClaim")
           B == DependencyByKey(Unscoped(CSIDriver, NonEmpty(m.drivers)),
                                "PersistentVolumeCSIDriver")
           C == DependentByKey(Located(Secret, m.driverSecrets),
                               "PersistentVolumeCSIDriverSecret")
           D == DependencyByKey(Unscoped(StorageClass, NonEmpty({m.storageClassName})),
                                "PersistentVolumeStorageClass")
<1>1. getPersistentVolumeRelationships(m) = A \union B \union C \union D
  BY DEF getPersistentVolumeRelationships
<1>2. o.class \notin {PersistentVolumeClaim, StorageClass}
  BY Kinds
<1>3. ~Touches(A, o)
  BY <1>2, NamedEntries
<1>4. Touches(B, o) <=> o.class = CSIDriver /\ o.ns = "" /\ o.name \in NonEmpty(m.drivers)
  BY UnscopedEntries
<1>5. Touches(C, o) <=>
          o.class = Secret /\ \E x \in m.driverSecrets : o.ns = x.ns /\ o.name = x.name
  BY LocatedEntries
<1>6. ~Touches(D, o)
  BY <1>2, UnscopedEntries
<1> HIDE DEF A, B, C, D
<1> QED  BY <1>1, <1>3, <1>4, <1>5, <1>6 DEF Touches, NonEmpty, VolumeUses

PodUses(m, o) ==
    \/ /\ o.class = Secret /\ o.ns = m.ns
       /\ o.name \in m.pullSecrets \union m.volumeSecrets
    \/ /\ o.ns = m.ns
       /\ \E x \in m.env \union m.volumes : o.class = x.class /\ o.name = x.name
    \/ o.class = CSIDriver /\ o.ns = "" /\ o.name \in m.drivers

LEMMA PodEntries ==
    ASSUME NEW m, NEW o, o.class \in {Secret, CSIDriver}
    PROVE  Touches(getPodRelationships(m), o) <=> PodUses(m, o)
<1> DEFINE Secrets(names) == {[class |-> Secret, name |-> s] : s \in names}
           accounts == {[class |-> ServiceAccount, name |-> a] :
                           a \in NonEmpty({m.serviceAccountName})}
           A == DependencyByKey(PodKeys(m, m.env), "PodContainerEnvironment")
           B == DependencyByKey(PodKeys(m, Secrets(m.pullSecrets)), "PodImagePullSecret")
           C == DependencyByKey(Unscoped(Node, {m.nodeName}), "PodNode")
           D == DependencyByKey(Unscoped(PriorityClass, NonEmpty({m.priorityClassName})),
                                "PodPriorityClass")
           E == DependencyByKey(Unscoped(RuntimeClass, NonEmpty(m.runtimeClasses)),
                                "PodRuntimeClass")
           F == DependencyByKey(Unscoped(PodSecurityPolicy, m.validatedPSP),
                                "PodSecurityPolicy")
           G == DependencyByKey(PodKeys(m, accounts), "PodServiceAccount")
           H == DependencyByKey(PodKeys(m, m.volumes), "PodVolume")
           I == DependencyByKey(Unscoped(CSIDriver, m.drivers), "PodVolumeCSIDriver")
           J == DependencyByKey(PodKeys(m, Secrets(m.volumeSecrets)), "PodVolumeCSIDriverSecret")
<1>1. getPodRelationships(m) = A \union B \union C \union D \union E \union F \union G \union H
                                 \union I \union J
  BY DEF getPodRelationships
<1>2. o.class \notin {Node, PriorityClass, RuntimeClass, PodSecurityPolicy, ServiceAccount}
  BY Kinds
<1>3. /\ Touches(A, o) <=>
            o.ns = m.ns /\ \E x \in m.env : o.class = x.class /\ o.name = x.name
      /\ Touches(H, o) <=>
            o.ns = m.ns /\ \E x \in m.volumes : o.class = x.class /\ o.name = x.name
  BY TypedEntries DEF PodKeys
<1>4. /\ Touches(B, o) <=> o.class = Secret /\ o.ns = m.ns /\ o.name \in m.pullSecrets
      /\ Touches(J, o) <=> o.class = Secret /\ o.ns = m.ns /\ o.name \in m.volumeSecrets
  <2>1. \A names : (\E x \in Secrets(names) : o.class = x.class /\ o.name = x.name) <=>
                       o.class = Secret /\ o.name \in names
    <3> TAKE names
    <3>1. \A s \in names : [class |-> Secret, name |-> s] \in Secrets(names)
      OBVIOUS
    <3>2. \A x \in Secrets(names) : x.class = Secret /\ x.name \in names
      OBVIOUS
    <3> HIDE DEF Secrets
    <3> QED  BY <3>1, <3>2
  <2> HIDE DEF Secrets
  <2> QED  BY <2>1, TypedEntries DEF PodKeys
<1>5. ~Touches(G, o)
  <2>1. \A x \in accounts : o.class # x.class
    BY <1>2
  <2> HIDE DEF accounts
  <2> QED  BY <2>1, TypedEntries DEF PodKeys
<1>6. Touches(I, o) <=> o.class = CSIDriver /\ o.ns = "" /\ o.name \in m.drivers
  BY UnscopedEntries
<1>7. ~Touches(C, o) /\ ~Touches(D, o) /\ ~Touches(E, o) /\ ~Touches(F, o)
  BY <1>2, UnscopedEntries
<1> HIDE DEF A, B, C, D, E, F, G, H, I, J
<1>8. Touches(getPodRelationships(m), o) <=>
          \/ Touches(A, o) \/ Touches(B, o) \/ Touches(H, o) \/ Touches(I, o) \/ Touches(J, o)
  BY <1>1, <1>5, <1>7 DEF Touches
<1> QED  BY <1>3, <1>4, <1>6, <1>8 DEF PodUses

IngressUses(m, o) ==
    /\ o.ns = m.ns
    /\ \/ o.class = Secret /\ o.name \in m.tls
       \/ \E b \in m.backends : \E x \in b.resource :
             o.class = x.class /\ o.name = x.name

LEMMA IngressEntries ==
    ASSUME NEW m, NEW o, o.class \in {Secret, CSIDriver}
    PROVE  Touches(getIngressRelationships(m), o) <=> IngressUses(m, o)
<1> DEFINE Services == {b.service : b \in {x \in m.backends : x.resource = {}}}
           Resources == UNION {b.resource : b \in m.backends}
           A == DependencyByKey(Unscoped(IngressClass, NonEmpty(m.ingressClassName)),
                                "IngressClass")
           B == DependencyByKey(Typed(m.ns, Resources), "IngressResource")
           C == DependencyByKey(Named(Service, m.ns, NonEmpty(Services)), "IngressService")
           D == DependencyByKey(Named(Secret, m.ns, m.tls), "IngressClass")
<1>1. getIngressRelationships(m) = A \union B \union C \union D
  BY DEF getIngressRelationships
<1>2. o.class \notin {IngressClass, Service}
  BY Kinds
<1>3. ~Touches(A, o)
  BY <1>2, UnscopedEntries
<1>4. Touches(B, o) <=> o.ns = m.ns /\ \E b \in m.backends : \E x \in b.resource :
                                           o.class = x.class /\ o.name = x.name
  <2>1. \A x : x \in Resources <=> \E b \in m.backends : x \in b.resource
    OBVIOUS
  <2> HIDE DEF Resources
  <2>2. Touches(B, o) <=>
            o.ns = m.ns /\ \E x \in Resources : o.class = x.class /\ o.name = x.name
    BY TypedEntries
  <2> HIDE DEF B
  <2> QED  BY <2>1, <2>2
<1>5. ~Touches(C, o)
  <2> HIDE DEF Services
  <2> QED  BY <1>2, NamedEntries
<1>6. Touches(D, o) <=> o.class = Secret /\ o.ns = m.ns /\ o.name \in m.tls
  BY NamedEntries
<1> HIDE DEF A, B, C, D
<1>7. Touches(getIngressRelationships(m), o) <=> Touches(B, o) \/ Touches(D, o)
  BY <1>1, <1>3, <1>5 DEF Touches
<1> QED  BY <1>4, <1>6, <1>7 DEF IngressUses

AttachmentUses(m, o) ==
    \/ /\ o.class = CSIDriver /\ o.ns = "" /\ o.name # ""
       /\ o.name = m.attacher \/ \E v \in m.inlineVolume : o.name \in v.drivers
    \/ /\ o.class = Secret
       /\ \E v \in m.inlineVolume : \E x \in v.driverSecrets :
             o.ns = x.ns /\ o.name = x.name

LEMMA VolumeAttachmentEntries ==
    ASSUME NEW m, NEW o, o.class \in {Secret, CSIDriver}
    PROVE  Touches(getVolumeAttachmentRelationships(m), o) <=> AttachmentUses(m, o)
<1> DEFINE inline == m.inlineVolume
           claims == UNION {v.claims : v \in inline}
           classes == {v.storageClassName : v \in inline}
           drivers == UNION {v.drivers : v \in inline}
           secrets == UNION {v.driverSecrets : v \in inline}
           A == DependencyByKey(Unscoped(CSIDriver, NonEmpty({m.attacher})),
                                "VolumeAttachmentAttacher")
           B == DependencyByKey(Unscoped(Node, NonEmpty({m.nodeName})), "VolumeAttachmentNode")
           C == DependentByKey(Unscoped(PersistentVolume, NonEmpty({m.volumeName})),
                               "VolumeAttachmentSourceVolume")
           D == DependentByKey(Located(PersistentVolumeClaim, claims),
                               "VolumeAttachmentSourceVolumeClaim")
           E == DependentByKey(Unscoped(StorageClass, classes),
                               "VolumeAttachmentSourceVolumeStorageClass")
           F == DependentByKey(Unscoped(CSIDriver, NonEmpty(drivers)),
                               "VolumeAttachmentSourceVolumeCSIDriver")
           G == DependentByKey(Located(Secret, secrets),
                               "VolumeAttachmentSourceVolumeCSIDriverSecret")
<1>1. getVolumeAttachmentRelationships(m) =
          A \union B \union C \union D \union E \union F \union G
  BY DEF getVolumeAttachmentRelationships
<1>2. o.class \notin {Node, PersistentVolume, PersistentVolumeClaim, StorageClass}
  BY Kinds
<1>3. /\ \A x : x \in drivers <=> \E v \in inline : x \in v.drivers
      /\ \A x : x \in secrets <=> \E v \in inline : x \in v.driverSecrets
  OBVIOUS
<1> HIDE DEF claims, classes, drivers, secrets
<1>4. Touches(A, o) <=> o.class = CSIDriver /\ o.ns = "" /\ o.name \in NonEmpty({m.attacher})
  BY UnscopedEntries
<1>5. Touches(F, o) <=> o.class = CSIDriver /\ o.ns = "" /\ o.name \in NonEmpty(drivers)
  BY UnscopedEntries
<1>6. Touches(G, o) <=> o.class = Secret /\ \E x \in secrets : o.ns = x.ns /\ o.name = x.name
  BY LocatedEntries
<1>7. ~Touches(B, o) /\ ~Touches(C, o) /\ ~Touches(E, o)
  BY <1>2, UnscopedEntries
<1>8. ~Touches(D, o)
  BY <1>2, LocatedEntries
<1> HIDE DEF A, B, C, D, E, F, G, inline
<1>9. Touches(getVolumeAttachmentRelationships(m), o) <=>
          Touches(A, o) \/ Touches(F, o) \/ Touches(G, o)
  BY <1>1, <1>7, <1>8 DEF Touches
<1> QED  BY <1>3, <1>4, <1>5, <1>6, <1>9 DEF NonEmpty, inline, AttachmentUses

LEMMA DriverEntries ==
    ASSUME NEW m, NEW o
    PROVE  /\ Touches(getCSINodeRelationships(m), o) <=>
                 o.class = CSIDriver /\ o.ns = "" /\ o.name \in m.drivers
           /\ Touches(getStorageClassRelationships(m), o) <=>
                 /\ o.class = CSIDriver /\ o.ns = ""
                 /\ o.name = m.provisioner /\ o.name \notin InTree \union {""}
<1>1. Touches(getCSINodeRelationships(m), o) <=>
          o.class = CSIDriver /\ o.ns = "" /\ o.name \in m.drivers
  BY UnscopedEntries DEF getCSINodeRelationships
<1> DEFINE names == NonEmpty({m.provisioner}) \ InTree
<1>2. getStorageClassRelationships(m) =
          DependencyByKey(Unscoped(CSIDriver, names), "StorageClassProvisioner")
  BY DEF getStorageClassRelationships
<1>3. \A x : x \in names <=> x = m.provisioner /\ x \notin InTree \union {""}
  BY DEF NonEmpty
<1> HIDE DEF names
<1>4. Touches(DependencyByKey(Unscoped(CSIDriver, names), "StorageClassProvisioner"), o) <=>
          o.class = CSIDriver /\ o.ns = "" /\ o.name \in names
  BY UnscopedEntries
<1> QED  BY <1>1, <1>2, <1>3, <1>4

(* The secrets and drivers a manifest names in the fields that are read,   *)
(* field by field.                                                         *)
NamesSecret(m, o) ==
    \/ /\ o.ns = m.ns
       /\ \/ o.name \in m.tls \union m.pullSecrets \union m.secrets \union m.volumeSecrets
          \/ \E x \in m.env \union m.volumes : x.class = Secret /\ o.name = x.name
          \/ \E b \in m.backends : \E x \in b.resource : x.class = Secret /\ o.name = x.name
    \/ \E x \in m.driverSecrets : o.ns = x.ns /\ o.name = x.name
    \/ \E v \in m.inlineVolume : \E x \in v.driverSecrets : o.ns = x.ns /\ o.name = x.name
    \/ \E x \in m.parameters : x.class = Secret /\ o.ns = x.ns /\ o.name = x.name

NamesDriver(m, o) ==
    \/ o.name \in m.drivers \union {m.attacher, m.provisioner}
    \/ \E v \in m.inlineVolume : o.name \in v.drivers
    \/ \E x \in m.parameters : x.class = CSIDriver /\ x.ns = "" /\ o.name = x.name

(* The sets are those of the definitions.                                  *)
LEMMA FieldsNaming ==
    ASSUME NEW m, NEW o
    PROVE  /\ <<o.ns, o.name>> \in SecretsRead(m) <=> NamesSecret(m, o)
           /\ o.name \in DriversRead(m) <=> NamesDriver(m, o)
<1>1. <<o.ns, o.name>> \in SecretsRead(m) <=> NamesSecret(m, o)
  <2> DEFINE refs == m.env \union m.volumes \union (UNION {b.resource : b \in m.backends})
             names == m.tls \union m.pullSecrets \union m.secrets \union m.volumeSecrets
                        \union {r.name : r \in {x \in refs : x.class = Secret}}
             located == m.driverSecrets
                          \union (UNION {v.driverSecrets : v \in m.inlineVolume})
                          \union {p \in m.parameters : p.class = Secret}
             own == {<<m.ns, s>> : s \in names}
             other == {<<s.ns, s.name>> : s \in located}
  <2>1. SecretsRead(m) = own \union other
    BY DEF SecretsRead
  <2>2. \A x : x \in refs <=> \/ x \in m.env \union m.volumes
                              \/ \E b \in m.backends : x \in b.resource
    OBVIOUS
  <2>3. \A x : x \in names <=>
            \/ x \in m.tls \union m.pullSecrets \union m.secrets \union m.volumeSecrets
            \/ \E r \in refs : r.class = Secret /\ x = r.name
    <3> HIDE DEF refs
    <3> QED  OBVIOUS
  <2>4. \A x : x \in located <=> \/ x \in m.driverSecrets
                                 \/ \E v \in m.inlineVolume : x \in v.driverSecrets
                                 \/ x \in m.parameters /\ x.class = Secret
    OBVIOUS
  <2> HIDE DEF refs, names, located
  <2>5. <<o.ns, o.name>> \in own <=> o.ns = m.ns /\ o.name \in names
    OBVIOUS
  <2>6. <<o.ns, o.name>> \in other <=> \E x \in located : o.ns = x.ns /\ o.name = x.name
    OBVIOUS
  <2> HIDE DEF own, other
  <2>7. o.name \in names <=>
            \/ o.name \in m.tls \union m.pullSecrets \union m.secrets \union m.volumeSecrets
            \/ \E x \in m.env \union m.volumes : x.class = Secret /\ o.name = x.name
            \/ \E b \in m.backends : \E x \in b.resource : x.class = Secret /\ o.name = x.name
    BY <2>2, <2>3
  <2>8. (\E x \in located : o.ns = x.ns /\ o.name = x.name) <=>
            \/ \E x \in m.driverSecrets : o.ns = x.ns /\ o.name = x.name
            \/ \E v \in m.inlineVolume : \E x \in v.driverSecrets :
                  o.ns = x.ns /\ o.name = x.name
            \/ \E x \in m.parameters : x.class = Secret /\ o.ns = x.ns /\ o.name = x.name
    BY <2>4
  <2> QED  BY <2>1, <2>5, <2>6, <2>7, <2>8 DEF NamesSecret
<1>2. o.name \in DriversRead(m) <=> NamesDriver(m, o)
  <2> DEFINE inline == UNION {v.drivers : v \in m.inlineVolume}
             params == {p.name : p \in {x \in m.parameters : x.class = CSIDriver /\ x.ns = ""}}
  <2>1. DriversRead(m) = m.drivers \union {m.attacher, m.provisioner} \union inline
                             \union params
    BY DEF DriversRead
  <2>2. o.name \in inline <=> \E v \in m.inlineVolume : o.name \in v.drivers
    OBVIOUS
  <2>3. o.name \in params <=>
            \E x \in m.parameters : x.class = CSIDriver /\ x.ns = "" /\ o.name = x.name
    OBVIOUS
  <2> HIDE DEF inline, params
  <2> QED  BY <2>1, <2>2, <2>3 DEF NamesDriver
<1> QED  BY <1>1, <1>2

(* Which fields a manifest has, by its kind.                               *)
LEMMA FieldsByKind ==
    ASSUME NEW m, WellFormed(m)
    PROVE  LET kind == m.class[2] IN
           /\ kind # "Ingress" => m.tls = {} /\ m.backends = {}
           /\ kind # "IngressClass" => m.parameters = {}
           /\ kind \notin {"Pod", "ServiceAccount"} => m.pullSecrets = {}
           /\ kind # "ServiceAccount" => m.secrets = {}
           /\ kind # "Pod" => m.env = {} /\ m.volumes = {} /\ m.volumeSecrets = {}
           /\ kind # "PersistentVolume" => m.driverSecrets = {}
           /\ kind \notin {"PersistentVolume", "Pod", "PodSecurityPolicy", "CSINode"} =>
                 m.drivers = {}
           /\ kind # "StorageClass" => m.provisioner = ""
           /\ kind # "VolumeAttachment" => m.attacher = "" /\ m.inlineVolume = {}
<1>1. PICK class : class = m.class
  OBVIOUS
<1>2. PICK kind : kind = class[2]
  OBVIOUS
<1>3. /\ class \in Ingresses => kind = "Ingress"
      /\ class = <<"storage", "CSINode">> => kind = "CSINode"
      /\ class = <<"storage", "VolumeAttachment">> => kind = "VolumeAttachment"
  BY <1>2 DEF Ingresses
<1>4. FieldsOfKind(m)
  BY DEF WellFormed
<1>5. /\ kind # "Ingress" => m.tls = {} /\ m.backends = {}
      /\ kind # "IngressClass" => m.parameters = {}
      /\ kind \notin {"Pod", "ServiceAccount"} => m.pullSecrets = {}
      /\ kind # "ServiceAccount" => m.secrets = {}
      /\ kind # "Pod" => m.env = {} /\ m.volumes = {} /\ m.volumeSecrets = {}
      /\ kind # "PersistentVolume" => m.driverSecrets = {}
      /\ kind \notin {"PersistentVolume", "Pod", "PodSecurityPolicy", "CSINode"} =>
            m.drivers = {}
      /\ kind # "StorageClass" => m.provisioner = ""
      /\ kind # "VolumeAttachment" => m.attacher = "" /\ m.inlineVolume = {}
  BY <1>1, <1>2, <1>3, <1>4, Kinds DEF FieldsOfKind
<1> QED  BY <1>1, <1>2, <1>5


Mentions(m, o) == \/ o.class = Secret /\ NamesSecret(m, o)
                  \/ o.class = CSIDriver /\ NamesDriver(m, o)

(* An object of the two classes.                                           *)
Used(o) == /\ o.class \in {Secret, CSIDriver} /\ WellFormed(o)

LEMMA UsedScope ==
    ASSUME NEW o, Used(o)
    PROVE  /\ Secret # CSIDriver
           /\ o.class = Secret => o.ns # ""
           /\ o.class = CSIDriver => o.ns = "" /\ o.name \notin InTree \union {""}
BY Kinds DEF Used, WellFormed, Namespaced, ClusterScoped

(* Nothing is lost with a manifest that no function reads.                 *)
LEMMA NothingUnread ==
    ASSUME NEW m, WellFormed(m), m.class \notin Supported \/ ~m.valid, NEW o, Used(o)
    PROVE  ~Mentions(m, o)
<1>1. {Pod, ServiceAccount, PersistentVolume, PodSecurityPolicy, IngressClass, StorageClass,
       <<"storage", "CSINode">>, <<"storage", "VolumeAttachment">>} \union Ingresses
          \subseteq Supported
  BY DEF Supported
<1>2. PICK class : class = m.class
  OBVIOUS
<1>3. class \in Supported =>
          class \in {Service, <<"policy", "PodDisruptionBudget">>,
                    <<"networking", "NetworkPolicy">>}
  BY <1>2 DEF WellFormed
<1>4. PICK kind : kind = class[2]
  OBVIOUS
<1>5. class \in Supported =>
          kind \notin {"Pod", "ServiceAccount", "PersistentVolume", "PodSecurityPolicy",
                      "IngressClass", "StorageClass", "CSINode", "VolumeAttachment", "Ingress"}
  BY <1>3, <1>4, Kinds
<1>6. /\ class \in Ingresses => kind = "Ingress"
      /\ class = <<"storage", "CSINode">> => kind = "CSINode"
      /\ class = <<"storage", "VolumeAttachment">> => kind = "VolumeAttachment"
  BY <1>4 DEF Ingresses
<1>7. class \notin {Pod, ServiceAccount, PersistentVolume, PodSecurityPolicy, IngressClass,
                   StorageClass, <<"storage", "CSINode">>, <<"storage", "VolumeAttachment">>}
                      \union Ingresses
  BY <1>1, <1>4, <1>5, <1>6, Kinds
<1>8. /\ m.tls = {} /\ m.backends = {} /\ m.parameters = {} /\ m.pullSecrets = {}
      /\ m.secrets = {} /\ m.env = {} /\ m.volumes = {} /\ m.volumeSecrets = {}
      /\ m.driverSecrets = {} /\ m.drivers = {} /\ m.inlineVolume = {}
      /\ m.provisioner = "" /\ m.attacher = ""
  BY <1>2, <1>7 DEF WellFormed, FieldsOfKind
<1> QED  BY <1>8, UsedScope DEF Mentions, NamesSecret, NamesDriver

(* Nothing is named by the kinds that name neither.                        *)
LEMMA NothingNamed ==
    ASSUME NEW m, WellFormed(m), NEW o, Used(o),
           m.class[2] \notin {"Pod", "ServiceAccount", "PersistentVolume", "PodSecurityPolicy",
                             "IngressClass", "StorageClass", "CSINode", "VolumeAttachment",
                             "Ingress"}
    PROVE  ~Mentions(m, o)
<1>1. /\ m.tls = {} /\ m.backends = {} /\ m.parameters = {} /\ m.pullSecrets = {}
      /\ m.secrets = {} /\ m.env = {} /\ m.volumes = {} /\ m.volumeSecrets = {}
      /\ m.driverSecrets = {} /\ m.drivers = {} /\ m.inlineVolume = {}
      /\ m.provisioner = "" /\ m.attacher = ""
  BY FieldsByKind
<1> QED  BY <1>1, UsedScope DEF Mentions, NamesSecret, NamesDriver

(* Function by function, what is declared is what is mentioned.            *)
LEMMA UsersOfKinds ==
    ASSUME NEW m, WellFormed(m), NEW o, Used(o)
    PROVE  LET kind == m.class[2] IN
           /\ kind = "PersistentVolume" =>
                 (Touches(getPersistentVolumeRelationships(m), o) <=> Mentions(m, o))
           /\ kind = "Pod" /\ m.ns # "" =>
                 (Touches(getPodRelationships(m), o) <=> Mentions(m, o))
           /\ kind = "ServiceAccount" =>
                 (Touches(getServiceAccountRelationships(m), o) <=> Mentions(m, o))
           /\ kind = "PodSecurityPolicy" =>
                 (Touches(getPodSecurityPolicyRelationships(m), o) <=> Mentions(m, o))
           /\ kind = "Ingress" /\ m.ns # "" =>
                 (Touches(getIngressRelationships(m), o) <=> Mentions(m, o))
           /\ kind = "CSINode" =>
                 (Touches(getCSINodeRelationships(m), o) <=> Mentions(m, o))
           /\ kind = "StorageClass" =>
                 (Touches(getStorageClassRelationships(m), o) <=> Mentions(m, o))
           /\ kind = "VolumeAttachment" =>
                 (Touches(getVolumeAttachmentRelationships(m), o) <=> Mentions(m, o))
<1> DEFINE kind == m.class[2]
<1>0. o.class \in {Secret, CSIDriver}
  BY DEF Used
<1>1. /\ Secret # CSIDriver /\ o.class \in {Secret, CSIDriver}
      /\ o.class = Secret => o.ns # ""
      /\ o.class = CSIDriver => o.ns = "" /\ o.name \notin InTree \union {""}
      /\ o.class # RuntimeClass
  BY UsedScope, Kinds DEF Used
<1>2. ASSUME kind = "PersistentVolume"
      PROVE  Touches(getPersistentVolumeRelationships(m), o) <=> Mentions(m, o)
  <2>1. /\ m.tls = {} /\ m.backends = {} /\ m.parameters = {} /\ m.pullSecrets = {}
        /\ m.secrets = {} /\ m.env = {} /\ m.volumes = {} /\ m.volumeSecrets = {}
        /\ m.provisioner = "" /\ m.attacher = "" /\ m.inlineVolume = {}
    BY <1>2, FieldsByKind
  <2>2. Mentions(m, o) <=> VolumeUses(m, o)
    BY <1>1, <1>2, <2>1 DEF Mentions, NamesSecret, NamesDriver, VolumeUses
  <2> QED  BY <1>0, <2>2, PersistentVolumeEntries
<1>3. ASSUME kind = "Pod", m.ns # ""
      PROVE  Touches(getPodRelationships(m), o) <=> Mentions(m, o)
  <2>1. /\ m.tls = {} /\ m.backends = {} /\ m.parameters = {}
        /\ m.secrets = {} /\ m.driverSecrets = {}
        /\ m.provisioner = "" /\ m.attacher = "" /\ m.inlineVolume = {}
    BY <1>3, FieldsByKind
  <2>2. Mentions(m, o) <=> PodUses(m, o)
    BY <1>1, <1>3, <2>1 DEF Mentions, NamesSecret, NamesDriver, PodUses
  <2> QED  BY <1>0, <2>2, PodEntries
<1>4. ASSUME kind = "ServiceAccount"
      PROVE  Touches(getServiceAccountRelationships(m), o) <=> Mentions(m, o)
  <2>1. /\ m.tls = {} /\ m.backends = {} /\ m.parameters = {} /\ m.drivers = {}
        /\ m.env = {} /\ m.volumes = {} /\ m.volumeSecrets = {} /\ m.driverSecrets = {}
        /\ m.provisioner = "" /\ m.attacher = "" /\ m.inlineVolume = {}
    BY <1>4, FieldsByKind
  <2> QED  BY <1>1, <1>4, <2>1, ServiceAccountEntries DEF Mentions, NamesSecret, NamesDriver
<1>5. ASSUME kind = "PodSecurityPolicy"
      PROVE  Touches(getPodSecurityPolicyRelationships(m), o) <=> Mentions(m, o)
  <2>1. /\ m.tls = {} /\ m.backends = {} /\ m.parameters = {} /\ m.pullSecrets = {}
        /\ m.secrets = {} /\ m.env = {} /\ m.volumes = {} /\ m.volumeSecrets = {}
        /\ m.driverSecrets = {} /\ m.provisioner = "" /\ m.attacher = ""
        /\ m.inlineVolume = {}
    BY <1>5, FieldsByKind
  <2> QED  BY <1>1, <1>5, <2>1, PodSecurityPolicyEntries DEF Mentions, NamesSecret, NamesDriver
<1>6. ASSUME kind = "Ingress", m.ns # ""
      PROVE  Touches(getIngressRelationships(m), o) <=> Mentions(m, o)
  <2>1. /\ m.parameters = {} /\ m.pullSecrets = {} /\ m.drivers = {}
        /\ m.secrets = {} /\ m.env = {} /\ m.volumes = {} /\ m.volumeSecrets = {}
        /\ m.driverSecrets = {} /\ m.provisioner = "" /\ m.attacher = ""
        /\ m.inlineVolume = {}
    BY <1>6, FieldsByKind
  <2>2. Mentions(m, o) <=> IngressUses(m, o)
    BY <1>1, <1>6, <2>1 DEF Mentions, NamesSecret, NamesDriver, IngressUses
  <2> QED  BY <1>0, <2>2, IngressEntries
<1>7. ASSUME kind \in {"CSINode", "StorageClass"}
      PROVE  /\ kind = "CSINode" =>
                   (Touches(getCSINodeRelationships(m), o) <=> Mentions(m, o))
             /\ kind = "StorageClass" =>
                   (Touches(getStorageClassRelationships(m), o) <=> Mentions(m, o))
  <2>1. /\ m.tls = {} /\ m.backends = {} /\ m.parameters = {} /\ m.pullSecrets = {}
        /\ m.secrets = {} /\ m.env = {} /\ m.volumes = {} /\ m.volumeSecrets = {}
        /\ m.driverSecrets = {} /\ m.attacher = "" /\ m.inlineVolume = {}
        /\ kind = "CSINode" => m.provisioner = ""
        /\ kind = "StorageClass" => m.drivers = {}
    BY <1>7, FieldsByKind
  <2> QED  BY <1>1, <1>7, <2>1, DriverEntries DEF Mentions, NamesSecret, NamesDriver
<1>8. ASSUME kind = "VolumeAttachment"
      PROVE  Touches(getVolumeAttachmentRelationships(m), o) <=> Mentions(m, o)
  <2>1. /\ m.tls = {} /\ m.backends = {} /\ m.parameters = {} /\ m.pullSecrets = {}
        /\ m.secrets = {} /\ m.env = {} /\ m.volumes = {} /\ m.volumeSecrets = {}
        /\ m.driverSecrets = {} /\ m.drivers = {} /\ m.provisioner = ""
    BY <1>8, FieldsByKind
  <2>2. Mentions(m, o) <=> AttachmentUses(m, o)
    BY <1>1, <1>8, <2>1 DEF Mentions, NamesSecret, NamesDriver, AttachmentUses
  <2> QED  BY <1>0, <2>2, VolumeAttachmentEntries
<1> QED  BY <1>2, <1>3, <1>4, <1>5, <1>6, <1>7, <1>8

(* The parameters of an IngressClass are references of any class.          *)
LEMMA IngressClassEntries ==
    ASSUME NEW m, WellFormed(m), m.class[2] = "IngressClass", NEW o, Used(o),
           getIngressClassRelationships(m) \subseteq RelationshipMapEntry
    PROVE  Touches(getIngressClassRelationships(m), o) <=> Mentions(m, o)
<1>1. Touches(getIngressClassRelationships(m), o) <=> KeyOf(o) \in m.parameters
  BY KeyEntries DEF getIngressClassRelationships
<1>2. ASSUME NEW x \in m.parameters
      PROVE  x = [class |-> x.class, ns |-> x.ns, name |-> x.name]
  <2> DEFINE e == [dir |-> "dependency", by |-> "ref", target |-> x,
                   rel |-> "IngressClassParameters"]
  <2>1. e \in getIngressClassRelationships(m)
    BY DEF getIngressClassRelationships, DependencyByKey
  <2>2. e \in RelationshipMapEntry /\ e.by = "ref" /\ e.target = x
    BY <2>1
  <2> HIDE DEF e
  <2>3. x \in Key
    BY <2>2 DEF RelationshipMapEntry
  <2> QED  BY <2>3 DEF Key
<1>3. KeyOf(o) \in m.parameters <=>
          \E x \in m.parameters : o.class = x.class /\ o.ns = x.ns /\ o.name = x.name
  BY <1>2 DEF KeyOf
<1>4. /\ m.tls = {} /\ m.backends = {} /\ m.pullSecrets = {} /\ m.secrets = {}
      /\ m.env = {} /\ m.volumes = {} /\ m.volumeSecrets = {} /\ m.driverSecrets = {}
      /\ m.drivers = {} /\ m.provisioner = "" /\ m.attacher = "" /\ m.inlineVolume = {}
  BY FieldsByKind
<1>5. Mentions(m, o) <=>
          \E x \in m.parameters : o.class = x.class /\ o.ns = x.ns /\ o.name = x.name
  <2>1. CASE o.class = Secret
    BY <1>4, <2>1, UsedScope DEF Mentions, NamesSecret
  <2>2. CASE o.class = CSIDriver
    BY <1>4, <2>2, UsedScope DEF Mentions, NamesDriver
  <2> QED  BY <2>1, <2>2 DEF Used
<1> QED  BY <1>1, <1>3, <1>5

(* What a manifest declares refers to exactly what it mentions.            *)
LEMMA UsersTouch ==
    ASSUME NEW m, WellFormed(m), m.class[2] # "Event", NEW o, Used(o),
           Declared(m) \subseteq RelationshipMapEntry
    PROVE  Touches(Declared(m), o) <=> Mentions(m, o)
<1>1. CASE m.class \notin Supported \/ ~m.valid
  <2>1. Declared(m) = {}
    BY <1>1 DEF Declared
  <2> QED  BY <1>1, <2>1, NothingUnread DEF Touches
<1>2. CASE m.class \in Supported /\ m.valid
  <2>1. Declared(m) = Relationships(m)
    BY <1>2 DEF Declared
  <2>2. PICK class : class = m.class
    OBVIOUS
  <2>3. class[2] # "Event" /\ class \in Supported
    BY <1>2, <2>2
  <2> DEFINE Silent == {PersistentVolumeClaim, Service, <<"policy", "PodDisruptionBudget">>,
                        <<"admission", "MutatingWebhookConfiguration">>,
                        <<"admission", "ValidatingWebhookConfiguration">>,
                        <<"apiregistration", "APIService">>,
                        <<"networking", "NetworkPolicy">>, RuntimeClass, ClusterRole,
                        ClusterRoleBinding, Role, RoleBinding,
                        <<"storage", "CSIStorageCapacity">>}
             Naming == {PersistentVolume, Pod, ServiceAccount, PodSecurityPolicy, IngressClass,
                        StorageClass, <<"storage", "CSINode">>,
                        <<"storage", "VolumeAttachment">>} \union Ingresses
  <2>4. class \in Silent \/ class \in Naming
    <3>1. class \notin {"events", ""} \X {"Event"}
      BY <2>3
    <3> QED  BY <2>3, <3>1 DEF Supported
  <2>5. ASSUME class \in Silent
        PROVE  ~Touches(Declared(m), o) /\ ~Mentions(m, o)
    <3>1. ~Touches(Relationships(m), o)
      BY <2>2, <2>5, Dispatch, NoUsers DEF Used
    <3>2. PICK kind : kind = class[2]
      OBVIOUS
    <3>3. kind \in {"PersistentVolumeClaim", "Service", "PodDisruptionBudget",
                    "MutatingWebhookConfiguration", "ValidatingWebhookConfiguration",
                    "APIService", "NetworkPolicy", "RuntimeClass", "ClusterRole",
                    "ClusterRoleBinding", "Role", "RoleBinding", "CSIStorageCapacity"}
      BY <2>5, <3>2, Kinds
    <3> QED  BY <2>1, <2>2, <3>1, <3>2, <3>3, NothingNamed
  <2>6. ASSUME class \in Naming
        PROVE  Touches(Declared(m), o) <=> Mentions(m, o)
    <3>1. CASE class = PersistentVolume
      BY <2>1, <2>2, <3>1, Kinds, Dispatch, UsersOfKinds
    <3>2. CASE class = Pod
      <4>1. m.ns # ""
        BY <2>2, <3>2 DEF WellFormed, Namespaced
      <4> QED  BY <2>1, <2>2, <3>2, <4>1, Kinds, Dispatch, UsersOfKinds
    <3>3. CASE class = ServiceAccount
      BY <2>1, <2>2, <3>3, Kinds, Dispatch, UsersOfKinds
    <3>4. CASE class = PodSecurityPolicy
      BY <2>1, <2>2, <3>4, Kinds, Dispatch, UsersOfKinds
    <3>5. CASE class = IngressClass
      BY <2>1, <2>2, <3>5, Kinds, Dispatch, IngressClassEntries
    <3>6. CASE class = StorageClass
      BY <2>1, <2>2, <3>6, Kinds, Dispatch, UsersOfKinds
    <3>7. CASE class = <<"storage", "CSINode">>
      <4>1. class[2] = "CSINode"
        BY <3>7
      <4> QED  BY <2>1, <2>2, <3>7, <4>1, Dispatch, UsersOfKinds
    <3>8. CASE class = <<"storage", "VolumeAttachment">>
      <4>1. class[2] = "VolumeAttachment"
        BY <3>8
      <4> QED  BY <2>1, <2>2, <3>8, <4>1, Dispatch, UsersOfKinds
    <3>9. CASE class \in Ingresses
      <4>1. m.ns # ""
        BY <2>2, <3>9 DEF WellFormed, Namespaced
      <4>2. class[2] = "Ingress"
        BY <3>9 DEF Ingresses
      <4> QED  BY <2>1, <2>2, <3>9, <4>1, <4>2, Dispatch, UsersOfKinds
    <3> QED  BY <2>6, <3>1, <3>2, <3>3, <3>4, <3>5, <3>6, <3>7, <3>8, <3>9
  <2> QED  BY <2>4, <2>5, <2>6
<1> QED  BY <1>1, <1>2

(* For every cluster: an object is related to a secret or a driver exactly *)
(* if its manifest names it, in the namespace it means, and not in unread  *)
(* fields only.                                                            *)
THEOREM UsersRelated == ClusterSpec => []UsersShown
<1>1. Mirrored /\ TypeOK /\ GraphIsDeclared => UsersShown
  <2>1. ASSUME Mirrored, TypeOK, GraphIsDeclared, pc = "built",
               NEW n \in Nodes, manifests[n].class[2] # "Event",
               NEW s \in OfClass(Secret) \union OfClass(CSIDriver)
        PROVE  Related(n, s) <=> Mentions(manifests[n], manifests[s])
    <3>1. s \in Nodes /\ manifests[s].class \in {Secret, CSIDriver}
      BY DEF OfClass
    <3>2. /\ WellFormed(manifests[n]) /\ Used(manifests[s])
          /\ objects[s].class = manifests[s].class
      BY <2>1, <3>1, ObjectFields DEF Used
    <3>3. Declared(manifests[s]) = {}
      <4>1. PICK class : class = manifests[s].class
        OBVIOUS
      <4>2. PICK kind : kind = class[2]
        OBVIOUS
      <4>3. kind \in {"Secret", "CSIDriver"}
        BY <3>1, <4>1, <4>2, Kinds
      <4>4. class \notin Supported
        <5>1. class \in Supported =>
                 \/ class \in {"events", ""} \X {"Event"} \/ class \in Ingresses
                 \/ class \in {<<"policy", "PodDisruptionBudget">>,
                              <<"networking", "NetworkPolicy">>,
                              <<"admission", "MutatingWebhookConfiguration">>,
                              <<"admission", "ValidatingWebhookConfiguration">>,
                              <<"apiregistration", "APIService">>, <<"storage", "CSINode">>,
                              <<"storage", "CSIStorageCapacity">>,
                              <<"storage", "VolumeAttachment">>}
                 \/ class \in {PersistentVolume, PersistentVolumeClaim, Pod, Service,
                              ServiceAccount, PodSecurityPolicy, ClusterRole,
                              ClusterRoleBinding, Role, RoleBinding, IngressClass,
                              RuntimeClass, StorageClass}
          BY DEF Supported
        <5>2. /\ class \in {"events", ""} \X {"Event"} => kind = "Event"
              /\ class \in Ingresses => kind = "Ingress"
          BY <4>2 DEF Ingresses
        <5>3. class \in {<<"policy", "PodDisruptionBudget">>,
                        <<"networking", "NetworkPolicy">>,
                        <<"admission", "MutatingWebhookConfiguration">>,
                        <<"admission", "ValidatingWebhookConfiguration">>,
                        <<"apiregistration", "APIService">>, <<"storage", "CSINode">>,
                        <<"storage", "CSIStorageCapacity">>,
                        <<"storage", "VolumeAttachment">>}
                  => kind \notin {"Secret", "CSIDriver"}
          BY <4>2
        <5>4. class \in {PersistentVolume, PersistentVolumeClaim, Pod, Service, ServiceAccount,
                        PodSecurityPolicy, ClusterRole, ClusterRoleBinding, Role, RoleBinding,
                        IngressClass, RuntimeClass, StorageClass}
                  => kind \notin {"Secret", "CSIDriver"}
          BY <4>2, Kinds
        <5> QED  BY <4>3, <5>1, <5>2, <5>3, <5>4
      <4> QED  BY <4>1, <4>4 DEF Declared
    <3>4. objects[s].class # NodeClass
      BY <3>1, <3>2, Kinds, ClustersAssumption
    <3>5. /\ DependsDirectly(n, s) <=>
                Reaches(Declared(manifests[n]), "dependency", manifests[s])
          /\ DependsDirectly(s, n) <=>
                Reaches(Declared(manifests[n]), "dependent", manifests[s])
      BY <2>1, <3>1, <3>3, <3>4, EdgesOfManifests DEF Reaches
    <3>6. Declared(manifests[n]) \subseteq RelationshipMapEntry
      <4>1. objects[n] = ObjectOf(manifests[n])
        BY <2>1, ObjectFields
      <4>2. objects[n].declares = Declared(manifests[n])
        BY <4>1 DEF ObjectOf, Declared
      <4> QED  BY <2>1, <4>2, NodeTypes DEF Manifest
    <3>7. \A e \in Declared(manifests[n]) : e.dir \in {"dependency", "dependent"}
      BY <3>6 DEF RelationshipMapEntry, Direction
    <3>8. Related(n, s) <=> Touches(Declared(manifests[n]), manifests[s])
      BY <3>5, <3>7 DEF Related, Reaches, Touches
    <3> QED  BY <2>1, <3>2, <3>6, <3>8, UsersTouch
  <2>2. \A s \in OfClass(Secret) : manifests[s].class = Secret
    BY DEF OfClass
  <2>3. \A d \in OfClass(CSIDriver) : manifests[d].class = CSIDriver
    BY DEF OfClass
  <2>4. Secret # CSIDriver
    BY Kinds
  <2>5. \A m, o : /\ o.class = Secret =>
                        (Mentions(m, o) <=> <<o.ns, o.name>> \in SecretsRead(m))
                  /\ o.class = CSIDriver => (Mentions(m, o) <=> o.name \in DriversRead(m))
    BY <2>4, FieldsNaming DEF Mentions
  <2>6. \A m : /\ SecretsNamed(m) \ SecretsOverlooked(m) = SecretsRead(m)
               /\ DriversNamed(m) \ DriversOverlooked(m) = DriversRead(m)
    BY DEF SecretsNamed, SecretsOverlooked, DriversNamed, DriversOverlooked
  <2> QED  BY <2>1, <2>2, <2>3, <2>5, <2>6 DEF UsersShown
<1> QED  BY <1>1, ClusterIsMirrored, TypeCorrect, GraphAsDeclared, PTL
=============================================================================
