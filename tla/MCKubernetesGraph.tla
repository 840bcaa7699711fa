------------------------- MODULE MCKubernetesGraph -------------------------
(***************************************************************************)
(* Instances of KubernetesGraph for TLC: small clusters in which objects   *)
(* of the same name live in the namespaces x and y.                        *)
(***************************************************************************)
EXTENDS KubernetesGraph, TLC

CONSTANTS x, y, n, p, q, u1, u2, u3, u4, u5, u6, app

MCClass ==
    Supported \union {Secret, CSIDriver, Node, PriorityClass, <<"", "ConfigMap">>,
                        <<"apps", "Deployment">>}

MCRelationship ==
    {"ControllerReference", "OwnerReference", "APIService", "ClusterRolePolicyRule",
     "ClusterRoleAggregationRule", "RolePolicyRule", "ClusterRoleBindingSubject",
     "RoleBindingSubject", "RoleBindingRole", "CSINodeDriver",
     "CSIStorageCapacityStorageClass", "EventRegarding", "EventRelated", "IngressClass",
     "IngressResource", "IngressService", "IngressClassParameters",
     "WebhookConfigurationService", "NetworkPolicy", "PodDisruptionBudget", "Service",
     "RuntimeClass", "PersistentVolumeClaim", "PersistentVolumeCSIDriver",
     "PersistentVolumeCSIDriverSecret", "PersistentVolumeStorageClass",
     "PodContainerEnvironment", "PodImagePullSecret", "PodNode", "PodPriorityClass",
     "PodRuntimeClass", "PodSecurityPolicy", "PodServiceAccount", "PodVolume",
     "PodVolumeCSIDriver", "PodVolumeCSIDriverSecret",
     "PodSecurityPolicyAllowedCSIDriver", "PodSecurityPolicyAllowedRuntimeClass",
     "PodSecurityPolicyDefaultRuntimeClass", "ServiceAccountImagePullSecret",
     "ServiceAccountSecret", "StorageClassProvisioner", "VolumeAttachmentAttacher",
     "VolumeAttachmentNode", "VolumeAttachmentSourceVolume",
     "VolumeAttachmentSourceVolumeClaim", "VolumeAttachmentSourceVolumeStorageClass",
     "VolumeAttachmentSourceVolumeCSIDriver",
     "VolumeAttachmentSourceVolumeCSIDriverSecret"}

(* A manifest in which every field is empty.                               *)
Base ==
    [labels |-> {}, hostname |-> {}, owners |-> {}, valid |-> TRUE,
     services |-> {}, selectors |-> {}, rules |-> {}, subjects |-> {},
     roleRef |-> [group |-> "", kind |-> "", name |-> ""],
     drivers |-> {}, storageClassName |-> "", uids |-> <<>>, backends |-> {}, tls |-> {},
     ingressClassName |-> {}, parameters |-> {}, claims |-> {}, driverSecrets |-> {},
     volumeName |-> "", env |-> {}, pullSecrets |-> {}, nodeName |-> "",
     priorityClassName |-> "", runtimeClasses |-> {}, defaultRuntimeClass |-> {},
     validatedPSP |-> {}, serviceAccountName |-> "", volumes |-> {}, volumeSecrets |-> {},
     secrets |-> {}, provisioner |-> "", attacher |-> "", inlineVolume |-> {}, unread |-> {}]

Object(class, uid, ns, name) ==
    [class |-> class, uid |-> uid, ns |-> ns, name |-> name] @@ Base

(* Two accounts and two policies of the same names, a binding and a role.  *)
Subject(kind, group, ns, name, is, of) ==
    [kind |-> kind, group |-> group, ns |-> ns, name |-> name, is |-> is, of |-> of]

(* A service account with and without namespace, users and groups with     *)
(* none and with one.                                                      *)
Subjects ==
    {Subject("ServiceAccount", "", ns, n, "other", "") : ns \in {"", x, y}}
    \union {Subject("User", "rbac", ns, n, is, y) :
               ns \in {"", y}, is \in {"serviceaccount", "other"}}
    \union {Subject("Group", "rbac", ns, n, is, y) :
               ns \in {"", y},
               is \in {"authenticated", "serviceaccounts", "serviceaccounts of", "other"}}

Rule(groups, resources, verbs, names) ==
    [apiGroups |-> groups, resources |-> resources, verbs |-> verbs, resourceNames |-> names]

Rules ==
    {Rule({g}, {"podsecuritypolicies"}, {"use"}, {p}) : g \in {"policy", "extensions", ""}}
    \union {Rule({"*"}, {"*"}, {v}, names) : v \in {"*", "get"}, names \in {{}, {p, q}}}
    \union {Rule({"policy"}, {"pods"}, {"use"}, {})}

RoleObjects ==
    {[Object(c[1], u4, c[2], n) EXCEPT !.rules = {r}] :
        c \in {<<ClusterRole, "">>, <<Role, x>>, <<Role, y>>}, r \in Rules}

Bindings ==
    LET binding(c, s) ==
            [Object(c[1], u3, c[2], n) EXCEPT
                !.subjects = {s}, !.roleRef = [group |-> "rbac", kind |-> c[3], name |-> n]]
    IN  {b \in {binding(c, s) : c \in {<<ClusterRoleBinding, "", "ClusterRole">>,
                                       <<RoleBinding, x, "ClusterRole">>,
                                       <<RoleBinding, x, "Role">>}, s \in Subjects} :
            WellFormed(b)}

AccessClusters ==
    {<<Object(ServiceAccount, u1, x, n), Object(ServiceAccount, u2, y, n), b, role,
       Object(PodSecurityPolicy, u5, "", p), Object(PodSecurityPolicy, u6, "", q)>> :
        b \in Bindings, role \in RoleObjects}

(* Secrets of one name in two namespaces, a driver, and an object that may *)
(* name them.                                                              *)
Located1 == [ns |-> y, name |-> n]
Inline == [claims |-> {Located1}, storageClassName |-> n, drivers |-> {n},
           driverSecrets |-> {Located1}]

SecretRef == [class |-> Secret, name |-> n]
ConfigRef == [class |-> <<"", "ConfigMap">>, name |-> n]
Elsewhere(class, ns) == [class |-> class, ns |-> ns, name |-> n]

Users ==
    LET pod == Object(Pod, u4, x, n)
        pv == Object(PersistentVolume, u4, "", n)
        account == Object(ServiceAccount, u4, x, n)
        attachment == Object(<<"storage", "VolumeAttachment">>, u4, "", n)
        policy == Object(PodSecurityPolicy, u4, "", n)
    IN  {[pod EXCEPT !.env = r, !.volumes = v, !.pullSecrets = s, !.drivers = d,
                     !.volumeSecrets = d] :
            r \in {{}, {SecretRef}}, v \in {{}, {SecretRef, ConfigRef}},
            s \in {{}, {n}}, d \in {{}, {n}}}
        \union {[pod EXCEPT !.env = r, !.unread = {Elsewhere(Secret, x)}] :
                   r \in {{}, {SecretRef}}}
        \union {[pv EXCEPT !.drivers = d, !.driverSecrets = s, !.storageClassName = n] :
                   d \in {{}, {n}, {""}}, s \in {{}, {Located1}}}
        \union {[pv EXCEPT !.driverSecrets = {Located1}, !.unread = {Elsewhere(Secret, ns)}] :
                   ns \in {x, y}}
        \union {[Object(<<"apps", "Deployment">>, u4, x, n) EXCEPT
                   !.unread = {Elsewhere(Secret, x), Elsewhere(CSIDriver, "")}]}
        \union {[account EXCEPT !.pullSecrets = s, !.secrets = t] :
                   s \in {{}, {n}}, t \in {{}, {n}}}
        \union {[Object(<<g, "Ingress">>, u4, x, n) EXCEPT !.tls = {s}] :
                   g \in {"networking", "extensions"}, s \in {"", n}}
        \union {[attachment EXCEPT !.attacher = a, !.inlineVolume = i, !.nodeName = n] :
                   a \in {"", n}, i \in {{}, {Inline}}}
        \union {[Object(StorageClass, u4, "", n) EXCEPT !.provisioner = a] : a \in {"", n}}
        \union {[Object(<<"storage", "CSINode">>, u4, "", n) EXCEPT !.drivers = {n}]}
        \union {[policy EXCEPT !.drivers = {n}, !.runtimeClasses = {n}]}
        \union {[pod EXCEPT !.owners = {[uid |-> u1, controller |-> c]}] : c \in BOOLEAN}

UserClusters ==
    {<<Object(Secret, u1, x, n), Object(Secret, u2, y, n), Object(CSIDriver, u3, "", n), user>> :
        user \in Users}

(* The other kinds, around services, pods and events.                      *)
Backend(service, resource) == [service |-> service, resource |-> resource]

OtherObjects ==
    {[Object(c, u3, "", n) EXCEPT !.services = {[ns |-> x, name |-> n]}] :
        c \in {<<"apiregistration", "APIService">>,
               <<"admission", "MutatingWebhookConfiguration">>,
               <<"admission", "ValidatingWebhookConfiguration">>}}
    \union {[Object(c, u3, x, q) EXCEPT !.selectors = {{app}}, !.valid = v] :
               c \in {Service, <<"policy", "PodDisruptionBudget">>,
                      <<"networking", "NetworkPolicy">>}, v \in BOOLEAN}
    \union {Object(Service, u3, x, q),
            [Object(RuntimeClass, u3, "", n) EXCEPT !.selectors = {{}}],
            [Object(ClusterRole, u3, "", n) EXCEPT !.selectors = {{app}}],
            [Object(<<"storage", "CSIStorageCapacity">>, u3, x, n) EXCEPT !.storageClassName = n],
            [Object(IngressClass, u3, "", n) EXCEPT
                !.parameters = {[class |-> Service, ns |-> x, name |-> n]}],
            [Object(<<"networking", "Ingress">>, u3, x, n) EXCEPT
                !.backends = {Backend(n, {}), Backend("", {[class |-> Service, name |-> n]})},
                !.ingressClassName = {n}],
            [Object(<<"", "Event">>, u3, x, n) EXCEPT
                !.uids = [field \in {"involvedObject"} |-> u1]],
            [Object(<<"events", "Event">>, u3, x, n) EXCEPT
                !.uids = [field \in {"regarding"} |-> u1]]}

OtherClusters ==
    {<<[Object(Pod, u1, x, n) EXCEPT !.labels = {app}, !.serviceAccountName = n],
       Object(Service, u2, x, n), other>> : other \in OtherObjects}

MCClusters == AccessClusters \union UserClusters \union OtherClusters

(* A volume that names its claim, and the claim, which need not name it.   *)
ClaimClusters ==
    {<<[Object(PersistentVolume, u1, "", n) EXCEPT !.claims = {[ns |-> x, name |-> n]}],
       [Object(PersistentVolumeClaim, u2, x, n) EXCEPT !.volumeName = v],
       Object(PersistentVolumeClaim, u3, y, n)>> : v \in {"", n}}

InputsOf(clusters) == {ObjectsOf(c) : c \in clusters}
MCInputs == InputsOf(MCClusters)
ClaimInputs == InputsOf(ClaimClusters)
=============================================================================
