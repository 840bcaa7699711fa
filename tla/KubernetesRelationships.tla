---------------------- MODULE KubernetesRelationships ----------------------
(***************************************************************************)
(* The get...Relationships functions (internal/graph/kubernetes.go): what  *)
(* the manifest of an object says about its relationships with others, as  *)
(* the entries of a RelationshipMap (see ObjectGraph).                     *)
(*                                                                         *)
(* A manifest is a record with the fields that its kind uses.  A list is   *)
(* the set of its elements, for a RelationshipMap is a map of sets; a      *)
(* pointer is a set of at most one element; "" is the empty string.  The   *)
(* references of a manifest that a function treats alike share a field;    *)
(* those that none of them reads are the field "unread".                   *)
(***************************************************************************)
CONSTANT InTree   \* the provisioners whose names begin with "kubernetes.io/"

(* Classes of objects: API group, without its domain, and kind.            *)
Secret == <<"", "Secret">>
Service == <<"", "Service">>
ServiceAccount == <<"", "ServiceAccount">>
Pod == <<"", "Pod">>
Node == <<"", "Node">>
PersistentVolume == <<"", "PersistentVolume">>
PersistentVolumeClaim == <<"", "PersistentVolumeClaim">>
ClusterRole == <<"rbac", "ClusterRole">>
Role == <<"rbac", "Role">>
ClusterRoleBinding == <<"rbac", "ClusterRoleBinding">>
RoleBinding == <<"rbac", "RoleBinding">>
PodSecurityPolicy == <<"policy", "PodSecurityPolicy">>
CSIDriver == <<"storage", "CSIDriver">>
StorageClass == <<"storage", "StorageClass">>
IngressClass == <<"networking", "IngressClass">>
PriorityClass == <<"scheduling", "PriorityClass">>
RuntimeClass == <<"node", "RuntimeClass">>

(* newRelationshipMap and the Add... functions: one entry per target.      *)
DependencyByKey(keys, r) ==
    [dir : {"dependency"}, by : {"ref"}, target : keys, rel : {r}]
DependentByKey(keys, r) ==
    [dir : {"dependent"}, by : {"ref"}, target : keys, rel : {r}]
DependencyByLabelSelector(selectors, r) ==
    [dir : {"dependency"}, by : {"label"}, target : selectors, rel : {r}]
DependencyBySelector(selectors, r) ==
    [dir : {"dependency"}, by : {"selector"}, target : selectors, rel : {r}]
DependentBySelector(selectors, r) ==
    [dir : {"dependent"}, by : {"selector"}, target : selectors, rel : {r}]
DependencyByUID(uids, r) ==
    [dir : {"dependency"}, by : {"uid"}, target : uids, rel : {r}]

(* Keys of objects of a class: names in a namespace, or references that    *)
(* say their own namespace, or their own class.                            *)
Named(class, ns, names) == [class : {class}, ns : {ns}, name : names]
Unscoped(class, names) == Named(class, "", names)
Located(class, refs) == {[class |-> class, ns |-> r.ns, name |-> r.name] : r \in refs}
Typed(ns, refs) == {[class |-> r.class, ns |-> ns, name |-> r.name] : r \in refs}

Matching(class, ns, selectors) == [class : {class}, ns : {ns}, requires : selectors]

NonEmpty(names) == names \ {""}

-----------------------------------------------------------------------------
getAPIServiceRelationships(m) ==
    DependencyByKey(Located(Service, m.services), "APIService")

(* Some API group, resource and verb of a rule stand for the use of pod    *)
(* security policies.                                                      *)
podSecurityPolicyMatches(r) ==
    /\ r.apiGroups \intersect {"*", "extensions", "policy"} # {}
    /\ r.resources \intersect {"*", "podsecuritypolicies"} # {}
    /\ r.verbs \intersect {"*", "use"} # {}

(* The rules of a role: those without resource names are about every       *)
(* policy.                                                                 *)
PolicyRules(m, rel) ==
    LET matched == {r \in m.rules : podSecurityPolicyMatches(r)}
        all == {r \in matched : r.resourceNames = {}}
    IN  DependencyByKey(
            Unscoped(PodSecurityPolicy, UNION {r.resourceNames : r \in matched}), rel)
        \union DependencyBySelector(
            {[class |-> PodSecurityPolicy, namespaces |-> {}] : r \in all}, rel)

getClusterRoleRelationships(m) ==
    DependencyByLabelSelector(Matching(ClusterRole, "", m.selectors),
                              "ClusterRoleAggregationRule")
    \union PolicyRules(m, "ClusterRolePolicyRule")

getRoleRelationships(m) == PolicyRules(m, "RolePolicyRule")

(* The subjects of a binding that are service accounts, each on its own.   *)
(* What the name of a subject stands for is "is": a user name may be the   *)
(* one of the service account "name" in the namespace "of".                *)
SubjectKeys(m) ==
    {[class |-> ServiceAccount, ns |-> s.ns, name |-> s.name] :
        s \in {x \in m.subjects : x.kind = "ServiceAccount" /\ x.group = "" /\ x.ns # ""}}
    \union
    {[class |-> ServiceAccount, ns |-> s.of, name |-> s.name] :
        s \in {x \in m.subjects : /\ x.kind = "User" /\ x.group = "rbac" /\ x.ns = ""
                                  /\ x.is = "serviceaccount"}}

(* Mutant of SubjectSelectors: the service accounts of one namespace are   *)
(* taken for those of all.                                                 *)
SubjectSelectorsUnscoped(m, own) ==
    {[class |-> ServiceAccount, namespaces |-> own] :
        s \in {x \in m.subjects : /\ x.kind = "Group" /\ x.group = "rbac" /\ x.ns = ""
                                  /\ x.is # "other"}}

(* The groups of service accounts among the subjects: all of them, in the  *)
(* namespaces "own" of the binding, or those of the namespace "of".        *)
SubjectSelectors(m, own) ==
    {[class |-> ServiceAccount,
      namespaces |-> IF s.is = "serviceaccounts of" THEN {s.of} ELSE own] :
        s \in {x \in m.subjects : /\ x.kind = "Group" /\ x.group = "rbac" /\ x.ns = ""
                                  /\ x.is \in {"authenticated", "serviceaccounts",
                                               "serviceaccounts of"}}}

(* The relationship with the role has the name a RoleBinding gives it.     *)
getClusterRoleBindingRelationships(m) ==
    LET roles == {r \in {m.roleRef} : r.group = "rbac" /\ r.kind = "ClusterRole"} IN
    DependentByKey(SubjectKeys(m), "ClusterRoleBindingSubject")
    \union DependentBySelector(SubjectSelectors(m, {}), "ClusterRoleBindingSubject")
    \union DependencyByKey(Unscoped(ClusterRole, {r.name : r \in roles}), "RoleBindingRole")

getRoleBindingRelationships(m) ==
    LET Roles(kind) == {r.name : r \in {x \in {m.roleRef} : x.group = "rbac" /\ x.kind = kind}} IN
    DependentByKey(SubjectKeys(m), "RoleBindingSubject")
    \union DependentBySelector(SubjectSelectors(m, {m.ns}), "RoleBindingSubject")
    \union DependencyByKey(Unscoped(ClusterRole, Roles("ClusterRole")), "RoleBindingRole")
    \union DependencyByKey(Named(Role, m.ns, Roles("Role")), "RoleBindingRole")

-----------------------------------------------------------------------------
getCSINodeRelationships(m) ==
    DependentByKey(Unscoped(CSIDriver, m.drivers), "CSINodeDriver")

getCSIStorageCapacityRelationships(m) ==
    DependencyByKey(Unscoped(StorageClass, NonEmpty({m.storageClassName})),
                    "CSIStorageCapacityStorageClass")

(* GetNestedString of a field that the object may not have.                *)
NestedUID(m, field) == IF field \in DOMAIN m.uids THEN m.uids[field] ELSE ""

(* The field of a core Event is looked up by a name it does not have: it   *)
(* is "involvedObject".                                                    *)
getEventRelationships(m) ==
    CASE m.class[1] = "" ->
            DependencyByUID({NestedUID(m, "involvedobject")}, "EventRegarding")
      [] m.class[1] = "events" ->
            DependencyByUID({NestedUID(m, "regarding")}, "EventRegarding")
            \union DependencyByUID({NestedUID(m, "related")}, "EventRelated")

(* The same for the two API groups of Ingress.  A backend is a resource or *)
(* a service.                                                              *)
getIngressRelationships(m) ==
    LET Services == {b.service : b \in {x \in m.backends : x.resource = {}}}
        Resources == UNION {b.resource : b \in m.backends}
    IN  DependencyByKey(Unscoped(IngressClass, NonEmpty(m.ingressClassName)), "IngressClass")
        \union DependencyByKey(Typed(m.ns, Resources), "IngressResource")
        \union DependencyByKey(Named(Service, m.ns, NonEmpty(Services)), "IngressService")
        \union DependencyByKey(Named(Secret, m.ns, m.tls), "IngressClass")

getIngressClassRelationships(m) ==
    DependencyByKey(m.parameters, "IngressClassParameters")

getMutatingWebhookConfigurationRelationships(m) ==
    DependencyByKey(Located(Service, m.services), "WebhookConfigurationService")

getValidatingWebhookConfigurationRelationships(m) ==
    DependencyByKey(Located(Service, m.services), "WebhookConfigurationService")

getNetworkPolicyRelationships(m) ==
    DependencyByLabelSelector(Matching(Pod, m.ns, m.selectors), "NetworkPolicy")

getPodDisruptionBudgetRelationships(m) ==
    DependencyByLabelSelector(Matching(Pod, m.ns, m.selectors), "PodDisruptionBudget")

(* There is always one selector: that of a Service without selector, the   *)
(* labels of none, matches every pod of its namespace.                     *)
getServiceRelationships(m) ==
    DependencyByLabelSelector(Matching(Pod, m.ns, {UNION m.selectors}), "Service")

getRuntimeClassRelationships(m) ==
    DependencyByLabelSelector(Matching(Node, "", m.selectors), "RuntimeClass")

-----------------------------------------------------------------------------
(* The claim is looked up in the namespace of the volume, which has none.  *)
getPersistentVolumeRelationships(m) ==
    DependentByKey(Named(PersistentVolumeClaim, m.ns, {c.name : c \in m.claims}),
                   "PersistentVolumeClaim")
    \union DependencyByKey(Unscoped(CSIDriver, NonEmpty(m.drivers)),
                           "PersistentVolumeCSIDriver")
    \union DependentByKey(Located(Secret, m.driverSecrets), "PersistentVolumeCSIDriverSecret")
    \union DependencyByKey(Unscoped(StorageClass, NonEmpty({m.storageClassName})),
                           "PersistentVolumeStorageClass")

getPersistentVolumeClaimRelationships(m) ==
    DependencyByKey(Unscoped(PersistentVolume, NonEmpty({m.volumeName})),
                    "PersistentVolumeClaim")

(* Mutant of PodKeys: the objects a pod names are looked up in no          *)
(* particular namespace.                                                   *)
PodKeysUnscoped(m, refs) == Typed("", refs)

(* The objects of its own namespace that a pod names.                      *)
PodKeys(m, refs) == Typed(m.ns, refs)

(* "env" are the ConfigMaps and Secrets of the containers' environments,   *)
(* "volumes" those and the claims of its volumes.                          *)
getPodRelationships(m) ==
    LET Secrets(names) == {[class |-> Secret, name |-> s] : s \in names}
        accounts == {[class |-> ServiceAccount, name |-> a] :
                        a \in NonEmpty({m.serviceAccountName})}
    IN  DependencyByKey(PodKeys(m, m.env), "PodContainerEnvironment")
        \union DependencyByKey(PodKeys(m, Secrets(m.pullSecrets)), "PodImagePullSecret")
        \union DependencyByKey(Unscoped(Node, {m.nodeName}), "PodNode")
        \union DependencyByKey(Unscoped(PriorityClass, NonEmpty({m.priorityClassName})),
                               "PodPriorityClass")
        \union DependencyByKey(Unscoped(RuntimeClass, NonEmpty(m.runtimeClasses)),
                               "PodRuntimeClass")
        \union DependencyByKey(Unscoped(PodSecurityPolicy, m.validatedPSP),
                               "PodSecurityPolicy")
        \union DependencyByKey(PodKeys(m, accounts), "PodServiceAccount")
        \union DependencyByKey(PodKeys(m, m.volumes), "PodVolume")
        \union DependencyByKey(Unscoped(CSIDriver, m.drivers), "PodVolumeCSIDriver")
        \union DependencyByKey(PodKeys(m, Secrets(m.volumeSecrets)), "PodVolumeCSIDriverSecret")

getPodSecurityPolicyRelationships(m) ==
    DependencyByKey(Unscoped(CSIDriver, m.drivers), "PodSecurityPolicyAllowedCSIDriver")
    \union DependencyByKey(Unscoped(RuntimeClass, m.runtimeClasses),
                           "PodSecurityPolicyAllowedRuntimeClass")
    \union DependencyByKey(Unscoped(RuntimeClass, m.defaultRuntimeClass),
                           "PodSecurityPolicyDefaultRuntimeClass")

getServiceAccountRelationships(m) ==
    DependencyByKey(Named(Secret, m.ns, m.pullSecrets), "ServiceAccountImagePullSecret")
    \union DependentByKey(Named(Secret, m.ns, m.secrets), "ServiceAccountSecret")

getStorageClassRelationships(m) ==
    DependencyByKey(Unscoped(CSIDriver, NonEmpty({m.provisioner}) \ InTree),
                    "StorageClassProvisioner")

(* An inline volume says all but its name.                                 *)
getVolumeAttachmentRelationships(m) ==
    LET inline == m.inlineVolume IN
    DependencyByKey(Unscoped(CSIDriver, NonEmpty({m.attacher})), "VolumeAttachmentAttacher")
    \union DependencyByKey(Unscoped(Node, NonEmpty({m.nodeName})), "VolumeAttachmentNode")
    \union DependentByKey(Unscoped(PersistentVolume, NonEmpty({m.volumeName})),
                          "VolumeAttachmentSourceVolume")
    \union DependentByKey(
        Located(PersistentVolumeClaim, UNION {v.claims : v \in inline}),
        "VolumeAttachmentSourceVolumeClaim")
    \union DependentByKey(Unscoped(StorageClass, {v.storageClassName : v \in inline}),
                          "VolumeAttachmentSourceVolumeStorageClass")
    \union DependentByKey(Unscoped(CSIDriver, NonEmpty(UNION {v.drivers : v \in inline})),
                          "VolumeAttachmentSourceVolumeCSIDriver")
    \union DependentByKey(Located(Secret, UNION {v.driverSecrets : v \in inline}),
                          "VolumeAttachmentSourceVolumeCSIDriverSecret")
=============================================================================
