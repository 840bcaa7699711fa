-------------------------- MODULE KubernetesGraph --------------------------
(***************************************************************************)
(* The graph that resolveDeps builds for a cluster: ObjectGraph, on lists  *)
(* whose relationships are the ones that KubernetesRelationships finds in  *)
(* the manifests.                                                          *)
(***************************************************************************)
EXTENDS ObjectGraph, KubernetesRelationships

CONSTANT Clusters   \* lists of manifests

VARIABLE manifests  \* input: the list of which objects is an abstraction

Ingresses == {"networking", "extensions"} \X {"Ingress"}

(* The kinds that resolveDeps has a function for.                          *)
Supported ==
    {PersistentVolume, PersistentVolumeClaim, Pod, Service, ServiceAccount,
     PodSecurityPolicy, ClusterRole, ClusterRoleBinding, Role, RoleBinding,
     IngressClass, RuntimeClass, StorageClass,
     <<"policy", "PodDisruptionBudget">>, <<"networking", "NetworkPolicy">>,
     <<"admission", "MutatingWebhookConfiguration">>,
     <<"admission", "ValidatingWebhookConfiguration">>,
     <<"apiregistration", "APIService">>, <<"storage", "CSINode">>,
     <<"storage", "CSIStorageCapacity">>, <<"storage", "VolumeAttachment">>}
    \union {"events", ""} \X {"Event"}
    \union Ingresses

(* The dispatch of the loop over the kinds.                                *)
Relationships(m) ==
    LET kind == m.class[2] IN
    CASE kind = "PersistentVolume" -> getPersistentVolumeRelationships(m)
      [] kind = "PersistentVolumeClaim" -> getPersistentVolumeClaimRelationships(m)
      [] kind = "Pod" -> getPodRelationships(m)
      [] kind = "Service" -> getServiceRelationships(m)
      [] kind = "ServiceAccount" -> getServiceAccountRelationships(m)
      [] kind = "PodSecurityPolicy" -> getPodSecurityPolicyRelationships(m)
      [] kind = "PodDisruptionBudget" -> getPodDisruptionBudgetRelationships(m)
      [] kind = "MutatingWebhookConfiguration" ->
            getMutatingWebhookConfigurationRelationships(m)
      [] kind = "ValidatingWebhookConfiguration" ->
            getValidatingWebhookConfigurationRelationships(m)
      [] kind = "APIService" -> getAPIServiceRelationships(m)
      [] kind = "Event" -> getEventRelationships(m)
      [] kind = "Ingress" -> getIngressRelationships(m)
      [] kind = "IngressClass" -> getIngressClassRelationships(m)
      [] kind = "NetworkPolicy" -> getNetworkPolicyRelationships(m)
      [] kind = "RuntimeClass" -> getRuntimeClassRelationships(m)
      [] kind = "ClusterRole" -> getClusterRoleRelationships(m)
      [] kind = "ClusterRoleBinding" -> getClusterRoleBindingRelationships(m)
      [] kind = "Role" -> getRoleRelationships(m)
      [] kind = "RoleBinding" -> getRoleBindingRelationships(m)
      [] kind = "CSIStorageCapacity" -> getCSIStorageCapacityRelationships(m)
      [] kind = "CSINode" -> getCSINodeRelationships(m)
      [] kind = "StorageClass" -> getStorageClassRelationships(m)
      [] kind = "VolumeAttachment" -> getVolumeAttachmentRelationships(m)

(* A function fails on a manifest that is not one of its kind, or that has *)
(* a selector that is not valid.                                           *)
ObjectOf(m) ==
    [uid |-> m.uid, class |-> m.class, ns |-> m.ns, name |-> m.name,
     labels |-> m.labels, hostname |-> m.hostname, owners |-> m.owners, mapped |-> TRUE,
     outcome |-> IF m.class \notin Supported THEN "none"
                 ELSE IF m.valid THEN "ok" ELSE "error",
     declares |-> IF m.class \in Supported /\ m.valid THEN Relationships(m) ELSE {}]

ObjectsOf(cluster) == [i \in DOMAIN cluster |-> ObjectOf(cluster[i])]

-----------------------------------------------------------------------------
(* The lists that are given: no object is listed twice, and no name of a   *)
(* cluster node is a UID.                                                  *)
ListedOnce(cluster) ==
    \A i, j \in DOMAIN cluster :
        /\ i # j => /\ cluster[i].uid # cluster[j].uid
                    /\ KeyOf(cluster[i]) # KeyOf(cluster[j])
        /\ cluster[i].uid \notin Aliases(cluster[j])

Namespaced == {Secret, Pod, ServiceAccount, Role, RoleBinding} \union Ingresses

ClusterScoped == {CSIDriver, ClusterRole, ClusterRoleBinding, PodSecurityPolicy}

(* What the API servers let pass of the subjects of a binding b.  Only a   *)
(* ClusterRoleBinding has to say the namespace of a service account.       *)
ValidSubject(s, b) ==
    \/ /\ s.kind = "ServiceAccount" /\ s.group = ""
       /\ b.class = ClusterRoleBinding => s.ns # ""
    \/ s.kind \in {"User", "Group"} /\ s.group = "rbac"

(* The fields that the functions read to find secrets and drivers, and the *)
(* kinds that have them.                                                   *)
FieldsOfKind(m) ==
    /\ m.tls # {} \/ m.backends # {} => m.class \in Ingresses
    /\ m.parameters # {} => m.class = IngressClass
    /\ m.pullSecrets # {} => m.class \in {Pod, ServiceAccount}
    /\ m.secrets # {} => m.class = ServiceAccount
    /\ m.env # {} \/ m.volumes # {} \/ m.volumeSecrets # {} => m.class = Pod
    /\ m.driverSecrets # {} => m.class = PersistentVolume
    /\ m.drivers # {} => m.class \in {PersistentVolume, Pod, PodSecurityPolicy,
                                      <<"storage", "CSINode">>}
    /\ m.provisioner # "" => m.class = StorageClass
    /\ m.attacher # "" \/ m.inlineVolume # {} => m.class = <<"storage", "VolumeAttachment">>

(* A manifest an API server has let pass.  Only a selector may be one that *)
(* cannot be read.                                                         *)
WellFormed(m) ==
    /\ m.class \in Namespaced => m.ns # ""
    /\ m.class \in ClusterScoped => m.ns = ""
    /\ m.class = CSIDriver => m.name \notin InTree \union {""}
    /\ m.valid \/ m.class \in {Service, <<"policy", "PodDisruptionBudget">>,
                               <<"networking", "NetworkPolicy">>}
    /\ m.class \in {ClusterRoleBinding, RoleBinding} => \A s \in m.subjects : ValidSubject(s, m)
    /\ FieldsOfKind(m)

(* The names of the relationships with owners are used for nothing else.   *)
ASSUME ClustersAssumption ==
    /\ NodeClass = Node
    /\ \A cluster \in Clusters :
          /\ ListedOnce(cluster)
          /\ \A i \in DOMAIN cluster :
                /\ WellFormed(cluster[i])
                /\ \A e \in ObjectOf(cluster[i]).declares :
                      e.rel \notin {ControllerRef, OwnerRef}

-----------------------------------------------------------------------------
ClusterInit ==
    /\ manifests \in Clusters
    /\ objects = ObjectsOf(manifests)
    /\ Init

ClusterNext == Next /\ UNCHANGED manifests

ClusterSpec == ClusterInit /\ [][ClusterNext]_<<vars, manifests>>

-----------------------------------------------------------------------------
OfClass(class) == {n \in Nodes : manifests[n].class = class}

(* A relationship that a manifest declares, and not that with an owner.    *)
DependsDirectly(n, m) ==
    \E r \in Relationship \ {ControllerRef, OwnerRef} : <<objects[m].uid, r>> \in dependencies[n]

Related(n, m) == DependsDirectly(n, m) \/ DependsDirectly(m, n)

(* Whether the authorizer of Kubernetes takes a service account for the    *)
(* subject s of a binding b.  The namespace of a service account is by     *)
(* default that of the binding; users and groups have none, and a group    *)
(* has its members wherever they are.                                      *)
IsSubject(sa, s, b) ==
    \/ /\ s.kind = "ServiceAccount" /\ sa.name = s.name
       /\ sa.ns = IF s.ns # "" THEN s.ns ELSE b.ns
    \/ s.kind = "User" /\ s.is = "serviceaccount" /\ sa.ns = s.of /\ sa.name = s.name
    \/ s.kind = "Group" /\ s.is = "serviceaccounts of" /\ sa.ns = s.of
    \/ s.kind = "Group" /\ s.is \in {"authenticated", "serviceaccounts"}

(* The accounts that the functions overlook among the subjects: those of a *)
(* subject that leaves its namespace to the binding, those of a user or    *)
(* group that says one, and, for a RoleBinding, those that a group of all  *)
(* accounts has in other namespaces.                                       *)
OverlooksSubject(sa, s, b) ==
    \/ s.kind = "ServiceAccount" /\ s.ns = ""
    \/ s.kind \in {"User", "Group"} /\ s.ns # ""
    \/ /\ s.kind = "Group" /\ s.is \in {"authenticated", "serviceaccounts"}
       /\ b.class = RoleBinding /\ sa.ns # b.ns

RefersToRole(b, role) ==
    /\ <<b.roleRef.group, b.roleRef.kind>> = role.class
    /\ b.roleRef.name = role.name
    /\ role.class = Role => role.ns = b.ns

AllowsUse(rule, psp) ==
    /\ {"*", "use"} \intersect rule.verbs # {}
    /\ {"*", "podsecuritypolicies"} \intersect rule.resources # {}
    /\ {"*", "policy", "extensions"} \intersect rule.apiGroups # {}
    /\ rule.resourceNames = {} \/ psp.name \in rule.resourceNames

(* A subject s of the binding b lets sa use psp, by the role.              *)
Grants(b, s, role, sa, psp) ==
    /\ b.class \in {ClusterRoleBinding, RoleBinding} /\ IsSubject(sa, s, b)
    /\ role.class \in {ClusterRole, Role} /\ RefersToRole(b, role)
    /\ \E rule \in role.rules : AllowsUse(rule, psp)

(* The dependencies of a service account lead over its bindings and their  *)
(* roles to exactly the pod security policies that Kubernetes lets it use  *)
(* by a subject the functions do not overlook: what three functions read   *)
(* from three manifests fits together, whatever the kinds of the binding,  *)
(* its subjects and the role.  A policy that is shown is thus one the      *)
(* account may use, and the ones that are missing are those that only      *)
(* overlooked subjects let it use.                                         *)
PolicyReachIsAuthorised ==
    pc = "built" =>
        \A sa \in OfClass(ServiceAccount), psp \in OfClass(PodSecurityPolicy) :
            (\E b \in OfClass(ClusterRoleBinding) \union OfClass(RoleBinding),
                role \in OfClass(ClusterRole) \union OfClass(Role) :
                    /\ DependsDirectly(sa, b)
                    /\ DependsDirectly(b, role)
                    /\ DependsDirectly(role, psp))
            <=> \E b, role \in Range(manifests) : \E s \in b.subjects :
                    /\ Grants(b, s, role, manifests[sa], manifests[psp])
                    /\ ~OverlooksSubject(manifests[sa], s, b)

(* The secrets and drivers that a manifest names in the fields that the    *)
(* functions read: the secrets as pairs of a namespace and a name.         *)
SecretsRead(m) ==
    LET refs == m.env \union m.volumes \union (UNION {b.resource : b \in m.backends}) IN
    {<<m.ns, s>> : s \in m.tls \union m.pullSecrets \union m.secrets \union m.volumeSecrets
                      \union {r.name : r \in {x \in refs : x.class = Secret}}}
    \union {<<s.ns, s.name>> : s \in m.driverSecrets
                                  \union (UNION {v.driverSecrets : v \in m.inlineVolume})
                                  \union {p \in m.parameters : p.class = Secret}}

DriversRead(m) ==
    m.drivers \union {m.attacher, m.provisioner}
    \union (UNION {v.drivers : v \in m.inlineVolume})
    \union {p.name : p \in {x \in m.parameters : x.class = CSIDriver /\ x.ns = ""}}

(* Those it names anywhere.  "unread" are the references in other fields:  *)
(* the secrets of azureFile, cephfs, cinder, flexVolume, iscsi, rbd,       *)
(* scaleIO and storageOS volumes, of a pod, a PersistentVolume or inline,  *)
(* for which the functions have no case; the environment of ephemeral      *)
(* containers, the parameters of a StorageClass, the resource names of     *)
(* roles, the templates of workloads, the fields of custom resources.      *)
SecretsUnread(m) == {<<r.ns, r.name>> : r \in {x \in m.unread : x.class = Secret}}
SecretsNamed(m) == SecretsRead(m) \union SecretsUnread(m)
SecretsOverlooked(m) == SecretsUnread(m) \ SecretsRead(m)

DriversUnread(m) == {r.name : r \in {x \in m.unread : x.class = CSIDriver}}
DriversNamed(m) == DriversRead(m) \union DriversUnread(m)
DriversOverlooked(m) == DriversUnread(m) \ DriversRead(m)

(* An object is related to the secrets and drivers its manifest names      *)
(* anywhere but those it names in unread fields only, which are missed;    *)
(* and to no other, such as one with the same name in another namespace.   *)
(* Events are left out: they are about objects, by UID.                    *)
UsersShown ==
    pc = "built" =>
        \A n \in {x \in Nodes : manifests[x].class[2] # "Event"} :
            LET m == manifests[n] IN
            /\ \A s \in OfClass(Secret) :
                  Related(n, s) <=> <<manifests[s].ns, manifests[s].name>>
                                        \in SecretsNamed(m) \ SecretsOverlooked(m)
            /\ \A d \in OfClass(CSIDriver) :
                  Related(n, d) <=> manifests[d].name \in DriversNamed(m) \ DriversOverlooked(m)

(* getPersistentVolumeRelationships returns the relationships "with other  *)
(* objects, based on what was referenced in its manifest": a volume is     *)
(* related to the claim that its claimRef names.                           *)
ClaimOfVolumeShown ==
    pc = "built" =>
        \A pv \in OfClass(PersistentVolume), pvc \in OfClass(PersistentVolumeClaim) :
            [ns |-> manifests[pvc].ns, name |-> manifests[pvc].name] \in manifests[pv].claims
                => Related(pv, pvc)
=============================================================================
